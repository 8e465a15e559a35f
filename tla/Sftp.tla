-------------------------------- MODULE Sftp --------------------------------
(***************************************************************************)
(* The SFTP download (xfer-sftp, download.rs and ctrl.rs) and the retry    *)
(* loop around it (xfer-engine, drive_sftp): the target is allocated at    *)
(* its full length, several channels fetch pieces and write them at their  *)
(* offsets, a control file holds the bitmap of finished pieces.            *)
(*                                                                         *)
(* A piece of the target is right or it is not; what was written since the *)
(* last sync may be lost when the machine stops.  One address is tried.    *)
(***************************************************************************)
EXTENDS Integers, FiniteSets

CONSTANTS
    Pieces,     \* number of 1 MiB pieces
    Chan,       \* channels
    Attempts,   \* SFTP_TRANSIENT_ATTEMPTS
    Touched,    \* whether the target may be cut off or deleted while paused
    Mishaps,    \* bound: faults, pauses, crashes
    NoFile      \* no control file, no channel's piece

SftpAssumption ==
    /\ {Pieces, Attempts} \subseteq Nat \ {0}
    /\ Mishaps \in Nat /\ Touched \in BOOLEAN

VARIABLES
    target,     \* length, right pieces, those of them that would survive a crash
    ctrl,       \* the bitmap in the control file
    dl,         \* the variables of download
    chan,       \* channels: the piece each is at, and how far
    saver,      \* CtrlCtx::save
    stands,     \* where the task stands
    mishaps

sftpVars == <<target, ctrl, dl, chan, saver, stands, mishaps>>

Piece == 1..Pieces
NoSave == [pc |-> "off", bits |-> {}]
Shut == [pc |-> "shut", at |-> 0]
NoRun == [bits |-> {}, next |-> 1, stop |-> FALSE, fatal |-> FALSE, try |-> 1]
Mishap == mishaps > 0 /\ mishaps' = mishaps - 1

SftpInit ==
    /\ target = [whole |-> FALSE, right |-> {}, safe |-> {}]
    /\ ctrl = NoFile /\ dl = NoRun /\ saver = NoSave
    /\ chan = [c \in Chan |-> Shut]
    /\ stands = "idle" /\ mishaps = Mishaps

----------------------------------------------------------------------------
(* The bitmap is inherited when the control file is of this download and   *)
(* the target has its length; otherwise the target is emptied.             *)
Start ==
    /\ stands = "idle"
    /\ LET ok == ctrl # NoFile /\ target.whole
           bits == IF ok THEN ctrl ELSE {} IN
         /\ target' = IF ok THEN target ELSE [whole |-> TRUE, right |-> {}, safe |-> {}]
         /\ dl' = [NoRun EXCEPT !.bits = bits, !.try = dl.try]
         /\ stands' = IF bits = Piece THEN "ending" ELSE "opening"
    /\ UNCHANGED <<ctrl, chan, saver, mishaps>>

(* As many channels as the server grants, but no more than pieces to do.   *)
Open ==
    /\ stands = "opening"
    /\ \E S \in SUBSET Chan :
         /\ S # {} /\ Cardinality(S) <= Cardinality(Piece \ dl.bits)
         /\ chan' = [c \in Chan |-> IF c \in S THEN [Shut EXCEPT !.pc = "next"] ELSE Shut]
    /\ stands' = "run"
    /\ UNCHANGED <<target, ctrl, dl, saver, mishaps>>

(* drive_sftp: another attempt after a transient failure, or the task      *)
(* fails.                                                                  *)
Ends ==
    \/ /\ dl.try < Attempts
       /\ dl' = [NoRun EXCEPT !.try = dl.try + 1] /\ stands' = "idle"
    \/ dl' = NoRun /\ stands' = "failed"

OpenFails ==
    /\ stands = "opening" /\ Mishap /\ Ends
    /\ UNCHANGED <<target, ctrl, chan, saver>>

----------------------------------------------------------------------------
(* worker *)

Take(c) ==
    /\ stands = "run" /\ chan[c].pc = "next"
    /\ IF dl.stop \/ dl.next > Pieces
       THEN chan' = [chan EXCEPT ![c] = Shut] /\ UNCHANGED dl
       ELSE /\ dl' = [dl EXCEPT !.next = @ + 1]
            /\ chan' = IF dl.next \in dl.bits THEN chan
                       ELSE [chan EXCEPT ![c] = [pc |-> "read", at |-> dl.next]]
    /\ UNCHANGED <<target, ctrl, saver, stands, mishaps>>

(* The whole piece is read, then written in one call. *)
Write(c) ==
    /\ stands = "run" /\ chan[c].pc = "read" /\ ~dl.stop
    /\ target' = [target EXCEPT !.right = @ \cup {chan[c].at}]
    /\ chan' = [chan EXCEPT ![c].pc = "written"]
    /\ UNCHANGED <<ctrl, dl, saver, stands, mishaps>>

(* Mutant: a piece is marked when it has been read. *)
MarkEarly(c) ==
    /\ stands = "run" /\ chan[c].pc \in {"read", "written"}
    /\ dl' = [dl EXCEPT !.bits = @ \cup {chan[c].at}]
    /\ chan' = [chan EXCEPT ![c].pc = IF @ = "written" THEN "next" ELSE @]
    /\ UNCHANGED <<target, ctrl, saver, stands, mishaps>>

Mark(c) ==
    /\ stands = "run" /\ chan[c].pc = "written"
    /\ dl' = [dl EXCEPT !.bits = @ \cup {chan[c].at}]
    /\ chan' = [chan EXCEPT ![c].pc = "next"]
    /\ UNCHANGED <<target, ctrl, saver, stands, mishaps>>

(* Timeout, short read, lost connection; the others are told to stop. *)
Fails(c) ==
    /\ stands = "run" /\ chan[c].pc = "read"
    /\ \/ dl.stop /\ UNCHANGED <<dl, mishaps>>
       \/ Mishap /\ dl' = [dl EXCEPT !.stop = TRUE, !.fatal = TRUE]
    /\ chan' = [chan EXCEPT ![c] = Shut]
    /\ UNCHANGED <<target, ctrl, saver, stands>>

----------------------------------------------------------------------------
(* CtrlCtx::save: snapshot, sync, control file; channels go on meanwhile.  *)

AllShut == \A c \in Chan : chan[c].pc = "shut"

(* Every second while channels work; once more when the download fails or  *)
(* is cancelled.                                                           *)
Snapshot ==
    /\ saver.pc = "off"
    /\ \/ stands = "run" /\ ~AllShut
       \/ stands = "giving up"
    /\ saver' = [pc |-> "sync", bits |-> dl.bits]
    /\ UNCHANGED <<target, ctrl, dl, chan, stands, mishaps>>

SyncTarget == target' = [target EXCEPT !.safe = target.right]

Sync ==
    /\ saver.pc = "sync"
    /\ SyncTarget
    /\ saver' = [saver EXCEPT !.pc = "write"]
    /\ UNCHANGED <<ctrl, dl, chan, stands, mishaps>>

SaveEnds == IF stands = "giving up" THEN Ends
            ELSE IF stands = "pausing" THEN stands' = "paused" /\ dl' = NoRun
            ELSE UNCHANGED <<stands, dl>>

WriteCtrl ==
    /\ saver.pc = "write"
    /\ ctrl' = saver.bits
    /\ saver' = NoSave
    /\ SaveEnds
    /\ UNCHANGED <<target, chan, mishaps>>

SaveFails ==
    /\ saver.pc \in {"sync", "write"} /\ Mishap
    /\ saver' = NoSave
    /\ SaveEnds
    /\ UNCHANGED <<target, ctrl, chan>>

(* The loop sees the last channel end. *)
Over ==
    /\ stands = "run" /\ AllShut /\ saver.pc = "off"
    /\ stands' = IF dl.fatal THEN "giving up" ELSE "ending"
    /\ UNCHANGED <<target, ctrl, dl, chan, saver, mishaps>>

(* Cancelled: channels are aborted (a write under way still completes),    *)
(* and the state is saved.                                                 *)
Pause ==
    /\ stands \in {"run", "opening"} /\ saver.pc = "off" /\ Mishap
    /\ chan' = [c \in Chan |-> Shut]
    /\ IF stands = "run"
       THEN /\ \E S \in SUBSET {chan[c].at : c \in {d \in Chan : chan[d].pc = "read"}} :
                 target' = [target EXCEPT !.right = @ \cup S]
            /\ saver' = [pc |-> "sync", bits |-> dl.bits]
            /\ stands' = "pausing" /\ UNCHANGED dl
       ELSE stands' = "paused" /\ dl' = NoRun /\ UNCHANGED <<target, saver>>
    /\ UNCHANGED ctrl

(* finish: the control file goes once the data is safe. *)
FinishSync ==
    /\ stands = "ending"
    /\ target' = [target EXCEPT !.safe = target.right]
    /\ stands' = "synced"
    /\ UNCHANGED <<ctrl, dl, chan, saver, mishaps>>

(* sync_all fails: finish leaves the control file where it is. *)
FinishFails ==
    /\ stands = "ending" /\ Mishap /\ Ends
    /\ UNCHANGED <<target, ctrl, chan, saver>>

FinishCtrl ==
    /\ stands = "synced"
    /\ ctrl' = NoFile
    /\ stands' = "done"
    /\ UNCHANGED <<target, dl, chan, saver, mishaps>>

Unpause ==
    /\ \/ stands = "paused" /\ UNCHANGED mishaps
       \/ stands = "failed" /\ Mishap
    /\ stands' = "idle"
    /\ UNCHANGED <<target, ctrl, dl, chan, saver>>

(* Somebody cuts the target off, or deletes it. *)
Touch ==
    /\ Touched /\ stands = "paused" /\ Mishap
    /\ target' = [whole |-> FALSE, right |-> {}, safe |-> {}]
    /\ UNCHANGED <<ctrl, dl, chan, saver, stands>>

(* Power is lost: of what was not synced, anything may be gone. *)
Crash ==
    /\ stands \notin {"done", "failed", "paused"} /\ Mishap
    /\ \E S \in SUBSET (target.right \ target.safe) :
         target' = [target EXCEPT !.right = target.safe \cup S, !.safe = target.safe \cup S]
    /\ dl' = NoRun /\ chan' = [c \in Chan |-> Shut] /\ saver' = NoSave
    /\ stands' = "idle"
    /\ UNCHANGED ctrl

SftpNext ==
    \/ Start \/ Open \/ OpenFails \/ Over \/ FinishSync \/ FinishFails
    \/ FinishCtrl
    \/ \E c \in Chan : Take(c) \/ Write(c) \/ Mark(c) \/ Fails(c)
    \/ Snapshot \/ Sync \/ WriteCtrl \/ SaveFails
    \/ Pause \/ Unpause \/ Touch \/ Crash

SftpSpec == SftpInit /\ [][SftpNext]_sftpVars

----------------------------------------------------------------------------
(* A finished download has every piece, whatever was interrupted, failed   *)
(* or lost on the way.                                                     *)
SftpComplete == stands = "done" => target.safe = Piece

(* Moreover the control file never vouches for a piece that a crash could  *)
(* take away (CtrlCtx::save: "a hole is never taken for downloaded data"). *)
SftpWhole ==
    /\ SftpComplete
    /\ ctrl # NoFile /\ target.whole => ctrl \subseteq target.safe
=============================================================================
