---------------------------- MODULE StreamProofs ----------------------------
(* Downloads that are not of one file over HTTP: SFTP, the recording of an  *)
(* FLV stream and of a live HLS stream.  For each of them an inductive      *)
(* invariant, and what it says of the file and of its control file, for     *)
(* every value of the constants.                                            *)
EXTENDS Integers, Sequences, FiniteSetTheorems, SequenceTheorems, WellFoundedInduction, TLAPS

CONSTANTS
    Pieces, Chan, Attempts, Touched, Mishaps, NoFile,
    MaxTags, Finite, FlvGoneLimit, EmptyLimit, MaxTroubles, MaxPauses, MaxCrashes, NoProbe,
    MapOf, Window, Behind, Conns, MaxTries, GoneLimit, Budgets, NoCtrl

VARIABLES
    target, sftpCtrl, dl, chan, saver, stands, mishaps,
    site, now, status, phase, file, synced, flvCtrl, parser, flvPending, dirty, flvLink,
    goneStreak, emptyStreak, silent, exit, cancelled, troubles, pauses, crashes,
    source, reply, product, files, saved, rec, recStage, luck, muddled

Remote == INSTANCE Sftp WITH ctrl <- sftpCtrl
Flv == INSTANCE FlvRecord WITH
    GoneLimit <- FlvGoneLimit, ctrl <- flvCtrl, link <- flvLink, pending <- flvPending
Live == INSTANCE LiveRecord WITH stage <- recStage

----------------------------------------------------------------------------
(* SFTP.                                                                    *)
RemoteTyped ==
    /\ target \in [whole : BOOLEAN, right : SUBSET Remote!Piece, safe : SUBSET Remote!Piece]
    /\ dl \in [bits : SUBSET Remote!Piece, next : Nat \ {0}, stop : BOOLEAN, fatal : BOOLEAN,
               try : Int]
    /\ chan \in [Chan -> [pc : {"shut", "next", "read", "written"}, at : Nat]]
    /\ \A x \in Chan : chan[x].pc \in {"read", "written"} => chan[x].at \in Remote!Piece
    /\ saver \in [pc : {"off", "sync", "write"}, bits : SUBSET Remote!Piece]
    /\ stands \in {"idle", "opening", "run", "giving up", "pausing", "paused", "failed",
                   "ending", "synced", "done"}

(* A piece that is marked has been written; what a save is about to write  *)
(* is on disk, and synced before the control file says so.                 *)
MarkedInv ==
    /\ target.safe \subseteq target.right /\ dl.bits \subseteq target.right
    /\ \A x \in Chan : chan[x].pc = "written" => chan[x].at \in target.right
    /\ saver.pc = "sync" => saver.bits \subseteq target.right
    /\ saver.pc = "write" => saver.bits \subseteq target.safe
    /\ sftpCtrl # NoFile => target.whole /\ sftpCtrl \subseteq target.safe

(* Nothing is written or saved but while the download runs.                *)
StandsInv ==
    /\ stands \in {"idle", "opening", "ending", "synced", "paused", "failed", "done"} =>
         saver.pc = "off"
    /\ stands # "run" => Remote!AllShut
    /\ stands \in {"idle", "paused", "failed"} => dl.next = 1
    /\ stands \in {"opening", "run", "giving up", "pausing", "ending", "synced", "done"} =>
         target.whole

(* As long as nothing failed, every piece that was given out is marked or  *)
(* in a channel, and some channel is open until all were given out.        *)
Given(p) ==
    p \in dl.bits \/ \E x \in Chan : chan[x].pc \in {"read", "written"} /\ chan[x].at = p
GivenInv ==
    stands = "run" /\ ~dl.fatal =>
        /\ dl.next > Pieces \/ ~Remote!AllShut
        /\ \A p \in Remote!Piece : p < dl.next => Given(p)
DoneInv ==
    /\ stands = "opening" => dl.next = 1
    /\ dl.stop => dl.fatal
    /\ stands \in {"ending", "synced"} => dl.bits = Remote!Piece
    /\ stands \in {"synced", "done"} => target.safe = Remote!Piece

RemoteInv == RemoteTyped /\ MarkedInv /\ StandsInv /\ GivenInv /\ DoneInv

(* A download that has not begun.                                          *)
LEMMA RemoteStarts == ASSUME Remote!SftpAssumption, Remote!SftpInit PROVE RemoteInv
<1> USE DEF Remote!SftpInit, Remote!NoRun, Remote!NoSave, Remote!Shut, Remote!AllShut
<1>1. RemoteTyped
  BY DEF RemoteTyped
<1>2. MarkedInv /\ StandsInv /\ DoneInv /\ GivenInv
  BY DEF MarkedInv, StandsInv, DoneInv, GivenInv
<1> QED
  BY <1>1, <1>2 DEF RemoteInv

(* A run that ends is forgotten, but for how often it was tried. *)
LEMMA RunForgotten ==
    ASSUME RemoteTyped, Remote!Ends \/ (stands' \in {"paused", "idle"} /\ dl' = Remote!NoRun)
    PROVE  /\ dl' \in [bits : SUBSET Remote!Piece, next : Nat \ {0}, stop : BOOLEAN,
                       fatal : BOOLEAN, try : Int]
           /\ dl'.bits = {} /\ dl'.next = 1 /\ dl'.stop = FALSE /\ dl'.fatal = FALSE
           /\ stands' \in {"idle", "failed", "paused"}
<1>1. {} \subseteq Remote!Piece
  OBVIOUS
<1>2. CASE dl' = Remote!NoRun /\ stands' \in {"idle", "failed", "paused"}
  BY <1>1, <1>2 DEF Remote!NoRun
<1>3. CASE dl' = [Remote!NoRun EXCEPT !.try = dl.try + 1] /\ stands' = "idle"
  <2>1. dl' = [bits |-> {}, next |-> 1, stop |-> FALSE, fatal |-> FALSE, try |-> dl.try + 1]
    BY <1>3 DEF Remote!NoRun
  <2>a. dl.try \in Int
    BY DEF RemoteTyped
  <2>2. dl.try + 1 \in Int
    BY <2>a
  <2>3. stands' = "idle"
    BY <1>3
  <2>4. dl' \in [bits : SUBSET Remote!Piece, next : Nat \ {0}, stop : BOOLEAN,
                 fatal : BOOLEAN, try : Int]
    BY <2>1, <2>2
  <2> QED
    BY <2>1, <2>3, <2>4
<1> QED
  BY <1>2, <1>3 DEF Remote!Ends

(* A save is over, or another begins.                                      *)
LEMMA SaveOver ==
    ASSUME RemoteTyped, Remote!SaveEnds
    PROVE  \/ /\ stands \in {"giving up", "pausing"} /\ stands' \in {"idle", "failed", "paused"}
              /\ dl' \in [bits : SUBSET Remote!Piece, next : Nat \ {0}, stop : BOOLEAN,
                          fatal : BOOLEAN, try : Int]
              /\ dl'.bits = {} /\ dl'.next = 1 /\ dl'.stop = FALSE /\ dl'.fatal = FALSE
           \/ stands \notin {"giving up", "pausing"} /\ UNCHANGED <<stands, dl>>
<1>1. CASE stands = "giving up"
  BY <1>1, RunForgotten DEF Remote!SaveEnds
<1>2. CASE stands = "pausing"
  BY <1>2, RunForgotten DEF Remote!SaveEnds
<1>3. CASE stands \notin {"giving up", "pausing"}
  BY <1>3 DEF Remote!SaveEnds
<1> QED
  BY <1>1, <1>2, <1>3

(* What was given out stays given out when nothing of it changes. *)
LEMMA GivenStays ==
    ASSUME GivenInv, UNCHANGED <<dl, chan>>, stands' = stands \/ stands' # "run" PROVE GivenInv'
  BY DEF GivenInv, Given, Remote!AllShut, Remote!Piece

(* Every step keeps the invariant.                                         *)
LEMMA RemoteKept ==
    ASSUME Remote!SftpAssumption, ~Touched, RemoteInv, [Remote!SftpNext]_Remote!sftpVars
    PROVE  RemoteInv'
<1> USE DEF RemoteInv, Remote!Piece, Remote!AllShut
<1>0. Pieces \in Nat
  BY DEF Remote!SftpAssumption
<1>1. CASE Remote!Start
  <2>1. RemoteTyped'
    <3>1. target' = target \/ target' = [whole |-> TRUE, right |-> {}, safe |-> {}]
      BY <1>1 DEF Remote!Start
    <3>2. PICK B \in SUBSET Remote!Piece :
            dl' = [bits |-> B, next |-> 1, stop |-> FALSE, fatal |-> FALSE, try |-> dl.try]
      <4>1. /\ sftpCtrl # NoFile /\ target.whole => sftpCtrl \in SUBSET Remote!Piece
            /\ {} \in SUBSET Remote!Piece
        BY DEF RemoteTyped, MarkedInv
      <4> QED
        BY <1>1, <4>1 DEF Remote!Start, Remote!NoRun
    <3>3. stands' \in {"opening", "ending"} /\ UNCHANGED <<chan, saver>>
      BY <1>1 DEF Remote!Start
    <3>a. dl.try \in Int
      BY DEF RemoteTyped
    <3>4. dl' \in [bits : SUBSET Remote!Piece, next : Nat \ {0}, stop : BOOLEAN,
                   fatal : BOOLEAN, try : Int]
      BY <3>2, <3>a
    <3> QED
      <4>1. target' \in [whole : BOOLEAN, right : SUBSET Remote!Piece, safe : SUBSET Remote!Piece]
        <5>1. target \in [whole : BOOLEAN, right : SUBSET Remote!Piece, safe : SUBSET Remote!Piece]
          BY DEF RemoteTyped
        <5>2. [whole |-> TRUE, right |-> {}, safe |-> {}]
              \in [whole : BOOLEAN, right : SUBSET Remote!Piece, safe : SUBSET Remote!Piece]
          OBVIOUS
        <5> QED
          BY <3>1, <5>1, <5>2
      <4> QED
        BY <3>3, <3>4, <4>1 DEF RemoteTyped
  <2>2. MarkedInv'
    BY <1>1 DEF RemoteTyped, MarkedInv, StandsInv, Remote!Start, Remote!NoRun
  <2>3. StandsInv'
    BY <1>1 DEF RemoteTyped, StandsInv, Remote!Start, Remote!NoRun
  <2>4. DoneInv'
    BY <1>1 DEF RemoteTyped, MarkedInv, StandsInv, DoneInv, Remote!Start, Remote!NoRun
  <2>5. GivenInv'
    BY <1>1 DEF GivenInv, Remote!Start, Remote!NoRun
  <2> QED
    BY <2>1, <2>2, <2>3, <2>4, <2>5
<1>2. CASE Remote!Open
  <2>1. RemoteTyped'
    BY <1>2 DEF RemoteTyped, Remote!Open, Remote!Shut
  <2>2. MarkedInv'
    BY <1>2 DEF RemoteTyped, MarkedInv, StandsInv, Remote!Open, Remote!Shut
  <2>3. StandsInv'
    BY <1>2 DEF RemoteTyped, StandsInv, Remote!Open, Remote!Shut
  <2>4. DoneInv'
    BY <1>2 DEF RemoteTyped, MarkedInv, StandsInv, DoneInv, Remote!Open, Remote!Shut
  <2>5. GivenInv'
    BY <1>2 DEF GivenInv, RemoteTyped, DoneInv, Remote!Open, Remote!Shut
  <2> QED
    BY <2>1, <2>2, <2>3, <2>4, <2>5
<1>3. CASE Remote!OpenFails \/ Remote!FinishFails
  <2>1. RemoteTyped'
    BY <1>3, RunForgotten DEF RemoteTyped, Remote!OpenFails, Remote!FinishFails, Remote!Mishap
  <2>2. MarkedInv'
    BY <1>3, RunForgotten
       DEF RemoteTyped, MarkedInv, StandsInv, Remote!OpenFails, Remote!FinishFails, Remote!Mishap
  <2>3. StandsInv'
    BY <1>3, RunForgotten DEF RemoteTyped, StandsInv, Remote!OpenFails, Remote!FinishFails, Remote!Mishap
  <2>4. DoneInv'
    BY <1>3, RunForgotten
       DEF RemoteTyped, MarkedInv, StandsInv, DoneInv, Remote!OpenFails, Remote!FinishFails, Remote!Mishap
  <2>5. GivenInv'
    BY <1>3, RunForgotten DEF GivenInv, Remote!OpenFails, Remote!FinishFails, Remote!Mishap
  <2> QED
    BY <2>1, <2>2, <2>3, <2>4, <2>5
<1>4. CASE Remote!Over
  <2>1. RemoteTyped'
    BY <1>4 DEF RemoteTyped, Remote!Over
  <2>2. MarkedInv'
    BY <1>4 DEF RemoteTyped, MarkedInv, StandsInv, Remote!Over
  <2>3. StandsInv'
    BY <1>4 DEF RemoteTyped, StandsInv, Remote!Over
  <2>4. DoneInv'
    <3>1. CASE dl.fatal
      BY <1>4, <3>1 DEF DoneInv, Remote!Over
    <3>2. CASE ~dl.fatal
      <4>1. dl.next > Pieces /\ \A p \in Remote!Piece : p < dl.next => Given(p)
        BY <1>4, <3>2 DEF GivenInv, Remote!Over
      <4>2. \A p \in Remote!Piece : p \in dl.bits
        <5>0. dl.next \in Nat
          BY DEF RemoteTyped
        <5>1. \A p \in Remote!Piece : p < dl.next
          BY <1>0, <4>1, <5>0
        <5> QED
          BY <1>4, <4>1, <5>1 DEF Given, Remote!Over
      <4> QED
        BY <1>4, <3>2, <4>2 DEF RemoteTyped, DoneInv, Remote!Over
    <3> QED
      BY <3>1, <3>2 DEF RemoteTyped
  <2>5. GivenInv'
    BY <1>4 DEF GivenInv, Remote!Over
  <2> QED
    BY <2>1, <2>2, <2>3, <2>4, <2>5
<1>5. CASE Remote!FinishSync
  <2>1. RemoteTyped'
    BY <1>5 DEF RemoteTyped, Remote!FinishSync
  <2>2. MarkedInv'
    BY <1>5 DEF RemoteTyped, MarkedInv, StandsInv, Remote!FinishSync
  <2>3. StandsInv'
    BY <1>5 DEF RemoteTyped, StandsInv, Remote!FinishSync
  <2>4. DoneInv'
    BY <1>5 DEF RemoteTyped, MarkedInv, StandsInv, DoneInv, Remote!FinishSync
  <2>5. GivenInv'
    BY <1>5 DEF GivenInv, Remote!FinishSync
  <2> QED
    BY <2>1, <2>2, <2>3, <2>4, <2>5
<1>6. CASE Remote!FinishCtrl
  <2>1. RemoteTyped'
    BY <1>6 DEF RemoteTyped, Remote!FinishCtrl
  <2>2. MarkedInv'
    BY <1>6 DEF RemoteTyped, MarkedInv, StandsInv, Remote!FinishCtrl
  <2>3. StandsInv'
    BY <1>6 DEF RemoteTyped, StandsInv, Remote!FinishCtrl
  <2>4. DoneInv'
    BY <1>6 DEF RemoteTyped, MarkedInv, StandsInv, DoneInv, Remote!FinishCtrl
  <2>5. GivenInv'
    BY <1>6 DEF GivenInv, Remote!FinishCtrl
  <2> QED
    BY <2>1, <2>2, <2>3, <2>4, <2>5
<1>7. CASE Remote!Snapshot
  <2>1. RemoteTyped'
    BY <1>7 DEF RemoteTyped, Remote!Snapshot
  <2>2. MarkedInv'
    BY <1>7 DEF RemoteTyped, MarkedInv, StandsInv, Remote!Snapshot
  <2>3. StandsInv'
    BY <1>7 DEF RemoteTyped, StandsInv, Remote!Snapshot
  <2>4. DoneInv'
    BY <1>7 DEF RemoteTyped, MarkedInv, StandsInv, DoneInv, Remote!Snapshot
  <2>5. GivenInv'
    BY <1>7, GivenStays DEF Remote!Snapshot
  <2> QED
    BY <2>1, <2>2, <2>3, <2>4, <2>5
<1>8. CASE Remote!Sync
  <2>1. RemoteTyped'
    BY <1>8 DEF RemoteTyped, Remote!Sync, Remote!SyncTarget
  <2>2. MarkedInv'
    BY <1>8 DEF RemoteTyped, MarkedInv, StandsInv, Remote!Sync, Remote!SyncTarget
  <2>3. StandsInv'
    BY <1>8 DEF RemoteTyped, StandsInv, Remote!Sync, Remote!SyncTarget
  <2>4. DoneInv'
    BY <1>8 DEF RemoteTyped, MarkedInv, StandsInv, DoneInv, Remote!Sync, Remote!SyncTarget
  <2>5. GivenInv'
    BY <1>8, GivenStays DEF Remote!Sync, Remote!SyncTarget
  <2> QED
    BY <2>1, <2>2, <2>3, <2>4, <2>5
<1>9. CASE Remote!WriteCtrl
  <2>1. RemoteTyped'
    BY <1>9, SaveOver DEF RemoteTyped, Remote!WriteCtrl, Remote!NoSave
  <2>2. MarkedInv'
    BY <1>9, SaveOver DEF RemoteTyped, MarkedInv, StandsInv, Remote!WriteCtrl, Remote!NoSave
  <2>3. StandsInv'
    BY <1>9, SaveOver DEF RemoteTyped, StandsInv, Remote!WriteCtrl, Remote!NoSave
  <2>4. DoneInv'
    BY <1>9, SaveOver
       DEF RemoteTyped, MarkedInv, StandsInv, DoneInv, Remote!WriteCtrl, Remote!NoSave
  <2>5. GivenInv'
    <3>1. chan' = chan
      BY <1>9 DEF Remote!WriteCtrl
    <3>2. stands' # "run" \/ UNCHANGED <<stands, dl>>
      BY <1>9, SaveOver DEF Remote!WriteCtrl
    <3> QED
      BY <3>1, <3>2, GivenStays DEF GivenInv
  <2> QED
    BY <2>1, <2>2, <2>3, <2>4, <2>5
<1>10. CASE Remote!SaveFails
  <2>1. RemoteTyped'
    BY <1>10, SaveOver DEF RemoteTyped, Remote!SaveFails, Remote!NoSave, Remote!Mishap
  <2>2. MarkedInv'
    BY <1>10, SaveOver
       DEF RemoteTyped, MarkedInv, StandsInv, Remote!SaveFails, Remote!NoSave, Remote!Mishap
  <2>3. StandsInv'
    BY <1>10, SaveOver
       DEF RemoteTyped, StandsInv, Remote!SaveFails, Remote!NoSave, Remote!Mishap
  <2>4. DoneInv'
    BY <1>10, SaveOver
       DEF RemoteTyped, MarkedInv, StandsInv, DoneInv, Remote!SaveFails, Remote!NoSave,
           Remote!Mishap
  <2>5. GivenInv'
    <3>1. chan' = chan
      BY <1>10 DEF Remote!SaveFails
    <3>2. stands' # "run" \/ UNCHANGED <<stands, dl>>
      BY <1>10, SaveOver DEF Remote!SaveFails
    <3> QED
      BY <3>1, <3>2, GivenStays DEF GivenInv
  <2> QED
    BY <2>1, <2>2, <2>3, <2>4, <2>5
<1>11. CASE Remote!Unpause
  <2>1. RemoteTyped'
    BY <1>11 DEF RemoteTyped, Remote!Unpause, Remote!Mishap
  <2>2. MarkedInv'
    BY <1>11 DEF RemoteTyped, MarkedInv, StandsInv, Remote!Unpause, Remote!Mishap
  <2>3. StandsInv'
    BY <1>11 DEF RemoteTyped, StandsInv, Remote!Unpause, Remote!Mishap
  <2>4. DoneInv'
    BY <1>11 DEF RemoteTyped, MarkedInv, StandsInv, DoneInv, Remote!Unpause, Remote!Mishap
  <2>5. GivenInv'
    BY <1>11 DEF GivenInv, Remote!Unpause, Remote!Mishap
  <2> QED
    BY <2>1, <2>2, <2>3, <2>4, <2>5
<1>12. CASE Remote!Touch
  <2>1. RemoteTyped'
    BY <1>12 DEF RemoteTyped, Remote!Touch, Remote!Mishap
  <2>2. MarkedInv'
    BY <1>12 DEF RemoteTyped, MarkedInv, StandsInv, Remote!Touch, Remote!Mishap
  <2>3. StandsInv'
    BY <1>12 DEF RemoteTyped, StandsInv, Remote!Touch, Remote!Mishap
  <2>4. DoneInv'
    BY <1>12 DEF RemoteTyped, MarkedInv, StandsInv, DoneInv, Remote!Touch, Remote!Mishap
  <2>5. GivenInv'
    BY <1>12 DEF GivenInv, Remote!Touch, Remote!Mishap
  <2> QED
    BY <2>1, <2>2, <2>3, <2>4, <2>5
<1>13. CASE Remote!Pause
  <2>1. CASE stands = "run"
    <3>1. PICK S \in SUBSET {chan[x].at : x \in {y \in Chan : chan[y].pc = "read"}} :
            target' = [target EXCEPT !.right = @ \cup S]
      BY <1>13, <2>1 DEF Remote!Pause
    <3>2. \A p \in S : p \in Remote!Piece
      <4>1. ASSUME NEW p \in S PROVE \E x \in Chan : chan[x].pc = "read" /\ chan[x].at = p
        OBVIOUS
      <4>2. \A x \in Chan : chan[x].pc = "read" => chan[x].at \in Remote!Piece
        BY DEF RemoteTyped
      <4> QED
        BY <4>1, <4>2
    <3>3. target'.right = target.right \cup S /\ target'.safe = target.safe
          /\ target'.whole = target.whole
          /\ target' \in [whole : BOOLEAN, right : SUBSET Remote!Piece, safe : SUBSET Remote!Piece]
      BY <3>1, <3>2 DEF RemoteTyped
    <3>4. chan' = [x \in Chan |-> Remote!Shut] /\ saver' = [pc |-> "sync", bits |-> dl.bits]
          /\ stands' = "pausing" /\ UNCHANGED <<dl, sftpCtrl>>
      BY <1>13, <2>1 DEF Remote!Pause
    <3>5. RemoteTyped'
      BY <3>3, <3>4 DEF RemoteTyped, Remote!Shut
    <3>6. MarkedInv' /\ StandsInv' /\ DoneInv' /\ GivenInv'
      BY <2>1, <3>3, <3>4
         DEF RemoteTyped, MarkedInv, StandsInv, DoneInv, GivenInv, Remote!Shut
    <3> QED
      BY <3>5, <3>6
  <2>2. CASE stands = "opening"
    <3>1. stands' = "paused" /\ dl' = Remote!NoRun /\ UNCHANGED <<target, saver, sftpCtrl>>
          /\ chan' = [x \in Chan |-> Remote!Shut]
      BY <1>13, <2>2 DEF Remote!Pause
    <3>2. RemoteTyped'
      BY <3>1, RunForgotten DEF RemoteTyped, Remote!Shut
    <3>3. MarkedInv' /\ StandsInv' /\ DoneInv' /\ GivenInv'
      BY <2>2, <3>1, RunForgotten
         DEF RemoteTyped, MarkedInv, StandsInv, DoneInv, GivenInv, Remote!Shut
    <3> QED
      BY <3>2, <3>3
  <2> QED
    BY <1>13, <2>1, <2>2 DEF Remote!Pause
<1>14. CASE Remote!Crash
  <2>1. PICK S \in SUBSET (target.right \ target.safe) :
          target' = [target EXCEPT !.right = target.safe \cup S, !.safe = target.safe \cup S]
    BY <1>14 DEF Remote!Crash
  <2>2. target'.right = target.safe \cup S /\ target'.safe = target.safe \cup S
        /\ target'.whole = target.whole
        /\ target' \in [whole : BOOLEAN, right : SUBSET Remote!Piece, safe : SUBSET Remote!Piece]
    BY <2>1 DEF RemoteTyped
  <2>3. dl' = Remote!NoRun /\ chan' = [x \in Chan |-> Remote!Shut] /\ saver' = Remote!NoSave
        /\ stands' = "idle" /\ UNCHANGED sftpCtrl
    BY <1>14 DEF Remote!Crash
  <2>4. RemoteTyped'
    BY <2>2, <2>3, RunForgotten DEF RemoteTyped, Remote!Shut, Remote!NoSave
  <2>5. MarkedInv' /\ StandsInv' /\ DoneInv' /\ GivenInv'
    BY <2>2, <2>3, RunForgotten
       DEF RemoteTyped, MarkedInv, StandsInv, DoneInv, GivenInv, Remote!Shut, Remote!NoSave
  <2> QED
    BY <2>4, <2>5
<1>15. ASSUME NEW x \in Chan, Remote!Take(x) PROVE RemoteInv'
  <2>1. UNCHANGED <<target, sftpCtrl, saver, stands>> /\ stands = "run" /\ chan[x].pc = "next"
    BY <1>15 DEF Remote!Take
  <2>2. CASE dl.stop \/ dl.next > Pieces
    <3>1. chan' = [chan EXCEPT ![x] = Remote!Shut] /\ dl' = dl
      BY <1>15, <2>2 DEF Remote!Take
    <3>2. RemoteTyped' /\ MarkedInv' /\ StandsInv' /\ DoneInv'
      BY <2>1, <3>1 DEF RemoteTyped, MarkedInv, StandsInv, DoneInv, Remote!Shut
    <3>3. \A p : Given(p) => Given(p)'
      BY <2>1, <3>1 DEF RemoteTyped, Given, Remote!Shut
    <3>4. GivenInv'
      BY <2>1, <2>2, <3>1, <3>3 DEF GivenInv, DoneInv
    <3> QED
      BY <3>2, <3>4
  <2>3. CASE ~(dl.stop \/ dl.next > Pieces)
    <3>1. dl' = [dl EXCEPT !.next = @ + 1]
          /\ chan' = IF dl.next \in dl.bits THEN chan
                     ELSE [chan EXCEPT ![x] = [pc |-> "read", at |-> dl.next]]
      BY <1>15, <2>3 DEF Remote!Take
    <3>0. dl.next \in Nat /\ dl.next # 0 /\ dl.next + 1 \in Nat /\ dl.next + 1 # 0
      <4>1. dl.next \in Nat /\ dl.next # 0
        BY DEF RemoteTyped
      <4> QED
        BY <4>1
    <3>2. dl.next \in Remote!Piece
      BY <1>0, <2>3, <3>0
    <3>3. chan'[x].pc # "shut" /\ \A y \in Chan \ {x} : chan'[y] = chan[y]
      BY <2>1, <3>1 DEF RemoteTyped
    <3>d. /\ dl' \in [bits : SUBSET Remote!Piece, next : Nat \ {0}, stop : BOOLEAN,
                      fatal : BOOLEAN, try : Int]
          /\ dl'.next = dl.next + 1
          /\ dl'.bits = dl.bits /\ dl'.stop = dl.stop /\ dl'.fatal = dl.fatal
      BY <3>0, <3>1 DEF RemoteTyped
    <3>c. /\ chan' \in [Chan -> [pc : {"shut", "next", "read", "written"}, at : Nat]]
          /\ chan'[x] = chan[x] \/ chan'[x] = [pc |-> "read", at |-> dl.next]
          /\ dl.next \notin dl.bits => chan'[x] = [pc |-> "read", at |-> dl.next]
      BY <1>0, <2>1, <3>1, <3>2 DEF RemoteTyped
    <3>4. RemoteTyped'
      BY <2>1, <3>2, <3>3, <3>c, <3>d DEF RemoteTyped
    <3>5. MarkedInv' /\ StandsInv' /\ DoneInv'
      BY <2>1, <3>2, <3>3, <3>c, <3>d DEF MarkedInv, StandsInv, DoneInv
    <3>6. /\ \A p : Given(p) => Given(p)'
          /\ dl.next \in dl'.bits \/ chan'[x] = [pc |-> "read", at |-> dl.next]
      <4>1. ASSUME NEW p, Given(p) PROVE Given(p)'
        <5>1. CASE p \in dl.bits
          BY <3>d, <5>1 DEF Given
        <5>2. CASE \E y \in Chan : chan[y].pc \in {"read", "written"} /\ chan[y].at = p
          <6>1. PICK y \in Chan : chan[y].pc \in {"read", "written"} /\ chan[y].at = p
            BY <5>2
          <6>2. y # x
            BY <2>1, <6>1
          <6> QED
            BY <3>3, <6>1, <6>2 DEF Given
        <5> QED
          BY <4>1, <5>1, <5>2 DEF Given
      <4> QED
        BY <4>1, <3>c, <3>d
    <3>7. \A p \in Remote!Piece : p < dl'.next => p < dl.next \/ p = dl.next
      BY <1>0, <3>0, <3>d
    <3>8. stands' = "run" /\ ~dl'.fatal => stands = "run" /\ ~dl.fatal
      BY <2>1, <3>d
    <3>9. GivenInv'
      <4>1. ASSUME NEW p \in Remote!Piece, p = dl.next PROVE Given(p)'
        <5>1. CASE dl.next \in dl'.bits
          BY <4>1, <5>1 DEF Given
        <5>2. CASE chan'[x] = [pc |-> "read", at |-> dl.next]
          BY <4>1, <5>2 DEF Given
        <5> QED
          BY <3>6, <5>1, <5>2
      <4>2. ~Remote!AllShut'
        BY <3>3
      <4>3. ASSUME stands = "run" /\ ~dl.fatal, NEW p \in Remote!Piece, p < dl'.next
            PROVE  Given(p)'
        <5>1. CASE p < dl.next
          <6>1. Given(p)
            BY <4>3, <5>1 DEF GivenInv
          <6> QED
            BY <3>6, <6>1 DEF Given
        <5>2. CASE p = dl.next
          BY <4>1, <5>2
        <5> QED
          BY <3>7, <4>3, <5>1, <5>2
      <4> QED
        BY <3>8, <4>2, <4>3 DEF GivenInv
    <3> QED
      BY <3>4, <3>5, <3>9
  <2> QED
    BY <2>2, <2>3
<1>16. ASSUME NEW x \in Chan, Remote!Write(x) PROVE RemoteInv'
  <2>1. RemoteTyped'
    BY <1>16 DEF RemoteTyped, Remote!Write
  <2>2. MarkedInv' /\ StandsInv' /\ DoneInv'
    BY <1>16 DEF RemoteTyped, MarkedInv, StandsInv, DoneInv, Remote!Write
  <2>3. GivenInv'
    BY <1>16 DEF RemoteTyped, Given, GivenInv, Remote!Write
  <2> QED
    BY <2>1, <2>2, <2>3
<1>17. ASSUME NEW x \in Chan, Remote!Mark(x) PROVE RemoteInv'
  <2>1. RemoteTyped'
    BY <1>17 DEF RemoteTyped, Remote!Mark
  <2>2. MarkedInv' /\ StandsInv' /\ DoneInv'
    BY <1>17 DEF RemoteTyped, MarkedInv, StandsInv, DoneInv, Remote!Mark
  <2>3. GivenInv'
    BY <1>17 DEF RemoteTyped, Given, GivenInv, Remote!Mark
  <2> QED
    BY <2>1, <2>2, <2>3
<1>18. ASSUME NEW x \in Chan, Remote!Fails(x) PROVE RemoteInv'
  <2>1. RemoteTyped'
    BY <1>18 DEF RemoteTyped, Remote!Fails, Remote!Shut
  <2>2. MarkedInv' /\ StandsInv' /\ DoneInv'
    BY <1>18 DEF RemoteTyped, MarkedInv, StandsInv, DoneInv, Remote!Fails, Remote!Shut
  <2>3. dl'.fatal
    BY <1>18 DEF RemoteTyped, DoneInv, Remote!Fails
  <2>4. GivenInv'
    BY <2>3 DEF GivenInv
  <2> QED
    BY <2>1, <2>2, <2>4
<1>19. CASE UNCHANGED Remote!sftpVars
  <2>1. RemoteTyped'
    BY <1>19 DEF Remote!sftpVars, RemoteTyped
  <2>2. MarkedInv' /\ StandsInv' /\ DoneInv'
    BY <1>19 DEF Remote!sftpVars, MarkedInv, StandsInv, DoneInv
  <2>3. GivenInv'
    BY <1>19, GivenStays DEF Remote!sftpVars
  <2> QED
    BY <2>1, <2>2, <2>3
<1> QED
  BY <1>1, <1>2, <1>3, <1>4, <1>5, <1>6, <1>7, <1>8, <1>9, <1>10, <1>11, <1>12, <1>13, <1>14,
     <1>15, <1>16, <1>17, <1>18, <1>19 DEF Remote!SftpNext

(* What the invariant says of the file and of the bitmap.                  *)
LEMMA RemoteSafe == RemoteInv => Remote!SftpWhole
  BY DEF RemoteInv, MarkedInv, DoneInv, Remote!SftpWhole, Remote!SftpComplete

(* In every behaviour the bitmap of an SFTP download on disk marks only    *)
(* pieces that are whole and synced in the file, and a finished file has   *)
(* every piece (worker, save, finish).  The user is assumed not to change  *)
(* the file while the download is paused.                                  *)
THEOREM BitmapKept ==
    ASSUME Remote!SftpAssumption, ~Touched
    PROVE  Remote!SftpSpec => []Remote!SftpWhole
  BY RemoteStarts, RemoteKept, RemoteSafe, PTL DEF Remote!SftpSpec

----------------------------------------------------------------------------
(* The recording of an FLV stream.                                          *)
Tag == [is : {"header", "script", "media"}, at : Nat, id : Nat]
Probe == Nat \cup {NoProbe}
ParserType == [started : BOOLEAN, headed : BOOLEAN, shift : {<<>>} \cup (Nat \X Nat),
               end : Nat, probe : Probe, media : BOOLEAN, replay : BOOLEAN]
LinkType == [kind : {"none", "live", "file", "empty", "replay"}, at : Nat, got : BOOLEAN]
CtrlType == [bytes : Nat, ms : Nat, probe : Probe]
FlvTyped ==
    /\ file \in Seq(Tag) /\ flvPending \in Seq(Tag)
    /\ now \in Nat /\ synced \in 0..Len(file)
    /\ parser \in ParserType /\ flvLink \in LinkType
    /\ flvCtrl = NoCtrl \/ flvCtrl \in CtrlType
    /\ status \in {"paused", "active", "complete", "failed"}
    /\ phase \in {"top", "connect", "read", "gone", "backoff", "end"}

(* The file is one timeline, of tags that were sent; what it holds up to   *)
(* the place in the control file is on disk and ends at the time there.    *)
FileInv ==
    /\ Flv!Contiguous(file)
    /\ \A k \in Flv!Medias(file) : file[k].id <= now
    /\ \A k \in DOMAIN flvPending : flvPending[k].is # "media"
CtrlInv ==
    flvCtrl # NoCtrl =>
        /\ flvCtrl.bytes <= synced
        /\ Flv!EndsAt(SubSeq(file, 1, flvCtrl.bytes), flvCtrl.ms)
        /\ (\E k \in Flv!Medias(file) : k <= flvCtrl.bytes) => flvCtrl.probe # NoProbe

(* The clock of a recording under way is its file's, and that of a         *)
(* connection runs along with what it sends.                               *)
ClockInv ==
    status = "active" =>
        /\ Flv!EndsAt(file, parser.end)
        /\ Flv!Medias(file) # {} => parser.probe # NoProbe
        /\ phase = "connect" =>
             ~parser.started /\ ~parser.media /\ ~parser.replay /\ parser.shift = <<>>
ReadInv ==
    status = "active" /\ phase = "read" =>
        /\ ~parser.media => parser.shift = <<>> /\ flvLink.at = 0
        /\ parser.media =>
             /\ parser.shift # <<>>
             /\ parser.end + parser.shift[1] = flvLink.at + parser.shift[2]
             /\ flvLink.at > 0 /\ parser.shift[1] <= flvLink.at
             /\ flvLink.kind = "live" => flvLink.at = now
             /\ \E k \in Flv!Medias(file) : Flv!LastMedia(file, k) /\ file[k].id = flvLink.at
        /\ flvLink.kind = "file" /\ ~parser.media => file = <<>>
        /\ flvLink.kind = "empty" => ~parser.started
        /\ flvLink.kind # "none" /\ ~parser.replay
FlvInv == FlvTyped /\ FileInv /\ CtrlInv /\ ClockInv /\ ReadInv

----------------------------------------------------------------------------
(* Cutting a recording off and adding to it.                               *)
LEMMA CutTags ==
    ASSUME NEW s \in Seq(Tag), NEW b \in 0..Len(s)
    PROVE  /\ SubSeq(s, 1, b) \in Seq(Tag) /\ Len(SubSeq(s, 1, b)) = b
           /\ DOMAIN SubSeq(s, 1, b) = 1..b
           /\ \A k \in 1..b : SubSeq(s, 1, b)[k] = s[k]
  OBVIOUS

(* Media tags of what is left.                                             *)
LEMMA CutMedias ==
    ASSUME NEW s \in Seq(Tag), NEW b \in 0..Len(s)
    PROVE  /\ \A k : k \in Flv!Medias(SubSeq(s, 1, b)) <=> k \in Flv!Medias(s) /\ k <= b
           /\ \A k \in Flv!Medias(SubSeq(s, 1, b)) : SubSeq(s, 1, b)[k] = s[k]
<1>1. /\ DOMAIN SubSeq(s, 1, b) = 1..b /\ \A k \in 1..b : SubSeq(s, 1, b)[k] = s[k]
  BY CutTags
<1>2. DOMAIN s = 1..Len(s) /\ Len(s) \in Nat
  OBVIOUS
<1> QED
  BY <1>1, <1>2 DEF Flv!Medias

(* A timeline that is cut off is one.                                      *)
LEMMA CutLine ==
    ASSUME NEW s \in Seq(Tag), NEW b \in 0..Len(s), Flv!Contiguous(s)
    PROVE  Flv!Contiguous(SubSeq(s, 1, b))
<1> DEFINE t == SubSeq(s, 1, b)
<1>1. /\ \A k : k \in Flv!Medias(t) <=> k \in Flv!Medias(s) /\ k <= b
      /\ \A k \in Flv!Medias(t) : t[k] = s[k]
  BY CutMedias
<1>2. Flv!Medias(s) \subseteq Nat
  BY DEF Flv!Medias
<1> HIDE DEF t
<1>3. ASSUME NEW k \in Flv!Medias(t), \A j \in Flv!Medias(t) : k <= j PROVE t[k].at = 0
  <2>1. \A j \in Flv!Medias(s) : k <= j
    BY <1>1, <1>2, <1>3
  <2> QED
    BY <1>1, <2>1 DEF Flv!Contiguous
<1>4. ASSUME NEW k \in Flv!Medias(t), ~(\A j \in Flv!Medias(t) : k <= j)
      PROVE  \E j \in Flv!Medias(t) : /\ j < k /\ Flv!Follow(t, j, k)
                                      /\ \A l \in Flv!Medias(t) : l < k => l <= j
  <2>1. PICK j \in Flv!Medias(s) : /\ j < k /\ Flv!Follow(s, j, k)
                                   /\ \A l \in Flv!Medias(s) : l < k => l <= j
    BY <1>1, <1>4 DEF Flv!Contiguous
  <2>2. j \in Flv!Medias(t)
    BY <1>1, <1>2, <2>1
  <2>3. Flv!Follow(t, j, k)
    BY <1>1, <2>1, <2>2 DEF Flv!Follow
  <2> QED
    BY <1>1, <2>1, <2>2, <2>3
<1>5. Flv!Contiguous(t)
  BY <1>3, <1>4 DEF Flv!Contiguous
<1> QED
  BY <1>5 DEF t

(* What a recording and what is added to it hold.                          *)
LEMMA MoreTags ==
    ASSUME NEW s \in Seq(Tag), NEW q \in Seq(Tag)
    PROVE  /\ s \o q \in Seq(Tag) /\ Len(s \o q) = Len(s) + Len(q)
           /\ \A k \in 1..Len(s) : (s \o q)[k] = s[k]
           /\ \A k \in 1..Len(q) : (s \o q)[Len(s) + k] = q[k]
           /\ \A b \in 0..Len(s) : SubSeq(s \o q, 1, b) = SubSeq(s, 1, b)
<1>1. /\ s \o q \in Seq(Tag) /\ Len(s \o q) = Len(s) + Len(q)
      /\ \A k \in 1..Len(s) : (s \o q)[k] = s[k]
      /\ \A k \in 1..Len(q) : (s \o q)[Len(s) + k] = q[k]
  OBVIOUS
<1>2. ASSUME NEW b \in 0..Len(s) PROVE SubSeq(s \o q, 1, b) = SubSeq(s, 1, b)
  <2>1. b \in 0..Len(s \o q)
    BY <1>1
  <2>2. \A k \in 1..b : SubSeq(s \o q, 1, b)[k] = SubSeq(s, 1, b)[k]
    BY <1>1, <2>1, CutTags
  <2> QED
    BY <1>1, <2>1, <2>2, CutTags, SeqEqual
<1> QED
  BY <1>1, <1>2

(* Headers and scripts leave the timeline as it is.                        *)
LEMMA AddQuiet ==
    ASSUME NEW s \in Seq(Tag), NEW q \in Seq(Tag), \A k \in DOMAIN q : q[k].is # "media"
    PROVE  /\ Flv!Medias(s \o q) = Flv!Medias(s)
           /\ \A k \in Flv!Medias(s) : (s \o q)[k] = s[k]
<1>1. /\ s \o q \in Seq(Tag) /\ Len(s \o q) = Len(s) + Len(q)
      /\ \A k \in 1..Len(s) : (s \o q)[k] = s[k]
      /\ \A k \in 1..Len(q) : (s \o q)[Len(s) + k] = q[k]
  BY MoreTags
<1>2. DOMAIN s = 1..Len(s) /\ DOMAIN q = 1..Len(q) /\ DOMAIN (s \o q) = 1..(Len(s) + Len(q))
      /\ Len(s) \in Nat /\ Len(q) \in Nat
  BY <1>1
<1>3. ASSUME NEW k \in DOMAIN (s \o q), k \notin DOMAIN s PROVE (s \o q)[k].is # "media"
  <2>1. k - Len(s) \in 1..Len(q) /\ k = Len(s) + (k - Len(s))
    BY <1>2, <1>3
  <2> QED
    BY <1>1, <1>2, <2>1
<1>4. ASSUME NEW k \in DOMAIN s PROVE k \in DOMAIN (s \o q) /\ (s \o q)[k] = s[k]
  BY <1>1, <1>2
<1> QED
  BY <1>3, <1>4 DEF Flv!Medias

(* Tags that are not media do not matter to the timeline.                  *)
LEMMA SameLine ==
    ASSUME NEW s, NEW t, Flv!Medias(t) = Flv!Medias(s), \A k \in Flv!Medias(s) : t[k] = s[k]
    PROVE  /\ Flv!Contiguous(s) => Flv!Contiguous(t)
           /\ \A ms : Flv!EndsAt(s, ms) => Flv!EndsAt(t, ms)
           /\ \A k : Flv!LastMedia(s, k) => Flv!LastMedia(t, k) /\ t[k] = s[k]
<1>1. Flv!Contiguous(s) => Flv!Contiguous(t)
  BY DEF Flv!Contiguous, Flv!Follow
<1>2. \A k : Flv!LastMedia(s, k) => Flv!LastMedia(t, k) /\ t[k] = s[k]
  BY DEF Flv!LastMedia
<1>3. \A ms : Flv!EndsAt(s, ms) => Flv!EndsAt(t, ms)
  BY <1>2 DEF Flv!EndsAt
<1> QED
  BY <1>1, <1>2, <1>3

(* A media tag that follows the last one becomes the end.                  *)
LEMMA AddMedia ==
    ASSUME NEW s \in Seq(Tag), NEW m \in Tag, m.is = "media", Flv!Contiguous(s),
           Flv!Medias(s) = {} => m.at = 0,
           Flv!Medias(s) # {} => \E k \in Flv!Medias(s) :
             /\ Flv!LastMedia(s, k) /\ s[k].id < m.id
             /\ m.at = s[k].at \/ m.at = s[k].at + 1
    PROVE  /\ Flv!Contiguous(s \o <<m>>) /\ Flv!EndsAt(s \o <<m>>, m.at)
           /\ Flv!LastMedia(s \o <<m>>, Len(s) + 1) /\ (s \o <<m>>)[Len(s) + 1] = m
           /\ \A k \in Flv!Medias(s \o <<m>>) :
                k = Len(s) + 1 \/ (k \in Flv!Medias(s) /\ (s \o <<m>>)[k] = s[k])
<1> DEFINE t == s \o <<m>>
<1> DEFINE n == Len(s) + 1
<1>1. /\ t \in Seq(Tag) /\ Len(t) = n /\ n \in Nat
      /\ \A k \in 1..Len(s) : t[k] = s[k] 
      /\ t[n] = m
  OBVIOUS
<1>2. DOMAIN s = 1..Len(s) /\ DOMAIN t = 1..n /\ Len(s) \in Nat
  BY <1>1
<1> HIDE DEF t
<1>3. /\ \A k : k \in Flv!Medias(t) <=> k \in Flv!Medias(s) \/ k = n
      /\ \A k \in Flv!Medias(s) : t[k] = s[k] /\ k < n /\ k \in Nat
  BY <1>1, <1>2 DEF Flv!Medias
<1> HIDE DEF n
<1>4. Flv!LastMedia(t, n)
  BY <1>1, <1>3 DEF Flv!LastMedia
<1>5. Flv!EndsAt(t, m.at)
  BY <1>1, <1>3, <1>4 DEF Flv!EndsAt
<1>6. ASSUME NEW k \in Flv!Medias(t), \A j \in Flv!Medias(t) : k <= j PROVE t[k].at = 0
  <2>1. CASE k \in Flv!Medias(s)
    BY <1>3, <1>6, <2>1 DEF Flv!Contiguous
  <2>2. CASE k = n
    <3>1. Flv!Medias(s) = {}
      <4>1. ASSUME NEW j \in Flv!Medias(s) PROVE FALSE
        <5>1. n <= j /\ j < n /\ j \in Nat
          BY <1>3, <1>6, <2>2
        <5> QED
          BY <1>1, <5>1
      <4> QED
        BY <4>1
    <3> QED
      BY <1>1, <2>2, <3>1
  <2> QED
    BY <1>3, <2>1, <2>2
<1>7. ASSUME NEW k \in Flv!Medias(t), ~(\A j \in Flv!Medias(t) : k <= j)
      PROVE  \E j \in Flv!Medias(t) : /\ j < k /\ Flv!Follow(t, j, k)
                                      /\ \A l \in Flv!Medias(t) : l < k => l <= j
  <2>1. CASE k \in Flv!Medias(s)
    <3>1. ~(\A j \in Flv!Medias(s) : k <= j)
      BY <1>1, <1>3, <1>7, <2>1
    <3>2. PICK j \in Flv!Medias(s) : /\ j < k /\ Flv!Follow(s, j, k)
                                     /\ \A l \in Flv!Medias(s) : l < k => l <= j
      BY <2>1, <3>1 DEF Flv!Contiguous
    <3>3. Flv!Follow(t, j, k)
      BY <1>3, <2>1, <3>2 DEF Flv!Follow
    <3>4. \A l \in Flv!Medias(t) : l < k => l <= j
      BY <1>1, <1>3, <2>1, <3>2
    <3> QED
      BY <1>3, <3>2, <3>3, <3>4
  <2>2. CASE k = n
    <3>1. Flv!Medias(s) # {}
      BY <1>1, <1>3, <1>7, <2>2
    <3>2. PICK j \in Flv!Medias(s) : /\ Flv!LastMedia(s, j) /\ s[j].id < m.id
                                     /\ m.at = s[j].at \/ m.at = s[j].at + 1
      BY <3>1
    <3>3. Flv!Follow(t, j, k)
      BY <1>1, <1>3, <2>2, <3>2 DEF Flv!Follow
    <3>4. \A l \in Flv!Medias(t) : l < k => l <= j
      BY <1>1, <1>3, <2>2, <3>2 DEF Flv!LastMedia
    <3> QED
      BY <1>3, <2>2, <3>2, <3>3, <3>4
  <2> QED
    BY <1>3, <2>1, <2>2
<1>8. Flv!Contiguous(t)
  BY <1>6, <1>7 DEF Flv!Contiguous
<1>9. t[n] = m /\ \A k \in Flv!Medias(t) : k = n \/ (k \in Flv!Medias(s) /\ t[k] = s[k])
  BY <1>1, <1>3
<1> QED
  BY <1>4, <1>5, <1>8, <1>9 DEF t, n

----------------------------------------------------------------------------
(* An invariant of FlvRecord.                                              *)
LEMMA FlvStarts == ASSUME Flv!FlvAssumption, Flv!FlvInit PROVE FlvInv
<1> USE DEF Flv!FlvInit, Flv!NewParser, Flv!NoLink
<1>1. FlvTyped
  BY DEF FlvTyped, Probe, ParserType, LinkType
<1>2. FileInv /\ CtrlInv /\ ClockInv /\ ReadInv
  BY DEF FileInv, CtrlInv, ClockInv, ReadInv, Flv!Contiguous, Flv!Medias
<1> QED
  BY <1>1, <1>2 DEF FlvInv

(* A connection as it is made.                                             *)
LEMMA LinkMade ==
    /\ Flv!NoLink \in LinkType
    /\ \A y \in {"live", "file", "empty", "replay"} : [kind |-> y, at |-> 0, got |-> FALSE] \in LinkType
  BY DEF LinkType, Flv!NoLink

(* A tag of a recording.                                                   *)
LEMMA TagAt ==
    ASSUME NEW s \in Seq(Tag), NEW k \in Flv!Medias(s)
    PROVE  k \in 1..Len(s) /\ s[k].id \in Nat /\ s[k].at \in Nat
<1>1. k \in 1..Len(s) /\ s[k] \in Tag
  BY DEF Flv!Medias
<1> QED
  BY <1>1 DEF Tag

(* What the file and the control file say stands while they do.            *)
LEMMA DiskStays ==
    ASSUME FileInv, CtrlInv, UNCHANGED <<file, synced, flvCtrl, flvPending, now>>
    PROVE  FileInv' /\ CtrlInv'
  BY DEF FileInv, CtrlInv, Flv!Contiguous, Flv!Medias, Flv!Follow, Flv!EndsAt, Flv!LastMedia

(* The clock while neither the file nor the parser moves.                  *)
LEMMA ClockStays ==
    ASSUME ClockInv, UNCHANGED <<file, parser>>, status' = "active" => status = "active",
           phase' = "connect" => phase = "connect"
    PROVE  ClockInv'
  BY DEF ClockInv, Flv!EndsAt, Flv!LastMedia, Flv!Medias

(* Nothing is said of a connection that is not read.                       *)
LEMMA ReadOver == ASSUME phase' # "read" \/ status' # "active" PROVE ReadInv'
  BY DEF ReadInv

(* A new parser goes on where the file ends.                               *)
LEMMA ParserMade ==
    ASSUME NEW ms \in Nat, NEW bytes \in Nat, NEW probe \in Probe
    PROVE  /\ Flv!NewParser(ms, bytes, probe) \in ParserType
           /\ Flv!NewParser(ms, bytes, probe).end = ms
           /\ Flv!NewParser(ms, bytes, probe).probe = probe
  BY DEF Flv!NewParser, ParserType

(* The control file as it is saved of the whole file.                      *)
LEMMA CtrlSaved ==
    ASSUME FlvTyped, ClockInv, status = "active", flvCtrl' = Flv!CtrlOf,
           UNCHANGED file, synced' = Len(file)
    PROVE  CtrlInv' /\ flvCtrl' \in CtrlType
<1>1. SubSeq(file, 1, Len(file)) = file
  BY DEF FlvTyped
<1>2. flvCtrl'.bytes = Len(file) /\ flvCtrl'.ms = parser.end /\ flvCtrl'.probe = parser.probe
      /\ Len(file) \in Nat
  BY DEF FlvTyped, Flv!CtrlOf
<1>3. flvCtrl' \in CtrlType
  BY <1>2 DEF FlvTyped, Flv!CtrlOf, ParserType, CtrlType
<1>4. Flv!EndsAt(file, parser.end) /\ (Flv!Medias(file) # {} => parser.probe # NoProbe)
  BY DEF ClockInv
<1>5. CtrlInv'
  BY <1>1, <1>2, <1>4 DEF CtrlInv, Flv!EndsAt, Flv!LastMedia, Flv!Medias
<1> QED
  BY <1>3, <1>5

(* Steps before and after the reading of a connection.                     *)
LEMMA FlvKeptBefore ==
    ASSUME Flv!FlvAssumption, FlvInv,
           Flv!Air \/ Flv!Closes \/ Flv!Fails \/ Flv!Missing \/ Flv!GoneDelay \/ Flv!Break
             \/ Flv!BackedOff \/ Flv!Pause \/ Flv!PauseSeen \/ UNCHANGED Flv!flvVars
    PROVE  FlvInv'
<1> USE DEF FlvInv, Flv!site_vars, Flv!disk_vars, Flv!rec_vars, Flv!task_vars, Flv!counts
<1>1. CASE Flv!Air
  <2>1. now' = now + 1 /\ now \in Nat /\ phase # "read"
        /\ UNCHANGED <<file, synced, flvCtrl, flvPending, parser, flvLink, status, phase>>
    BY <1>1 DEF Flv!Air, FlvTyped
  <2>2. FlvTyped'
    BY <2>1 DEF FlvTyped
  <2>3. FileInv'
    <3>1. \A k \in Flv!Medias(file) : file[k].id \in Nat
      BY TagAt DEF FlvTyped
    <3> QED
      BY <2>1, <3>1 DEF FileInv, Flv!Contiguous, Flv!Medias, Flv!Follow
  <2>4. CtrlInv'
    BY <2>1 DEF CtrlInv, Flv!EndsAt, Flv!LastMedia, Flv!Medias
  <2> QED
    BY <2>1, <2>2, <2>3, <2>4, ClockStays, ReadOver
<1>2. ASSUME UNCHANGED <<now, file, synced, flvCtrl, parser, flvPending>>,
             status' = status \/ status' = "paused", phase' # "connect" \/ phase' = phase,
             phase' # "read" \/ (phase' = phase /\ UNCHANGED <<flvLink, status>>),
             flvLink' = flvLink \/ flvLink' = Flv!NoLink,
             phase' \in {"top", "connect", "read", "gone", "backoff", "end"}
      PROVE  FlvInv'
  <2>1. FlvTyped'
    <3>1. flvLink' \in LinkType
      BY <1>2, LinkMade DEF FlvTyped
    <3>2. status' \in {"paused", "active", "complete", "failed"}
      BY <1>2 DEF FlvTyped
    <3> QED
      BY <1>2, <3>1, <3>2 DEF FlvTyped
  <2>2. ReadInv'
    <3>1. CASE phase' # "read"
      BY <3>1, ReadOver
    <3>2. CASE phase' = phase /\ UNCHANGED <<flvLink, status>>
      BY <1>2, <3>2 DEF ReadInv, Flv!LastMedia, Flv!Medias
    <3> QED
      BY <1>2, <3>1, <3>2
  <2> QED
    BY <1>2, <2>1, <2>2, DiskStays, ClockStays
<1>3. CASE Flv!Closes
  BY <1>2, <1>3 DEF Flv!Closes, FlvTyped
<1>4. CASE Flv!Fails
  BY <1>2, <1>4 DEF Flv!Fails, FlvTyped
<1>5. CASE Flv!Missing
  BY <1>2, <1>5 DEF Flv!Missing, FlvTyped
<1>6. CASE Flv!GoneDelay
  BY <1>2, <1>6 DEF Flv!GoneDelay, FlvTyped
<1>7. CASE Flv!Break
  BY <1>2, <1>7 DEF Flv!Break, FlvTyped
<1>8. CASE Flv!BackedOff
  BY <1>2, <1>8 DEF Flv!BackedOff, FlvTyped
<1>9. CASE Flv!Pause
  BY <1>2, <1>9 DEF Flv!Pause, FlvTyped
<1>10. CASE Flv!PauseSeen
  BY <1>2, <1>10 DEF Flv!PauseSeen, FlvTyped
<1>11. CASE UNCHANGED Flv!flvVars
  BY <1>2, <1>11 DEF Flv!flvVars, FlvTyped
<1> QED
  BY <1>1, <1>3, <1>4, <1>5, <1>6, <1>7, <1>8, <1>9, <1>10, <1>11

(* The recorder's own steps that write no tag.                             *)
LEMMA FlvKeptLoop ==
    ASSUME Flv!FlvAssumption, FlvInv,
           Flv!Top \/ Flv!Opens \/ Flv!ReadJunk \/ Flv!PauseInBackoff \/ Flv!End
    PROVE  FlvInv'
<1> USE DEF FlvInv, Flv!site_vars, Flv!disk_vars, Flv!rec_vars, Flv!task_vars, Flv!counts
<1>n. Len(file) \in Nat /\ synced \in Nat /\ synced <= Len(file)
  BY DEF FlvTyped
<1>f. UNCHANGED <<file, now>> /\ (flvPending' = flvPending \/ flvPending' = <<>>) => FileInv'
  BY DEF FileInv, Flv!Contiguous, Flv!Medias, Flv!Follow
<1>c. UNCHANGED <<file, flvCtrl>> /\ (synced' = synced \/ synced' = Len(file)) => CtrlInv'
  <2>1. SUFFICES ASSUME UNCHANGED <<file, flvCtrl>>, synced' = synced \/ synced' = Len(file),
                        flvCtrl # NoCtrl
                 PROVE  CtrlInv'
    BY DEF CtrlInv
  <2>2. flvCtrl.bytes \in Nat
    BY <2>1 DEF FlvTyped, CtrlType
  <2>3. flvCtrl.bytes <= synced'
    BY <1>n, <2>1, <2>2 DEF CtrlInv
  <2> QED
    BY <2>1, <2>3 DEF CtrlInv, Flv!EndsAt, Flv!LastMedia, Flv!Medias
<1>1. CASE Flv!Top
  <2>1. /\ UNCHANGED <<file, now, flvLink, status>> /\ status = "active"
        /\ phase' \in {"connect", "end"}
        /\ \/ UNCHANGED <<synced, flvCtrl>>
           \/ synced' = Len(file) /\ flvCtrl' = Flv!CtrlOf
        /\ \/ phase' = "end" /\ UNCHANGED <<parser, flvPending>>
           \/ parser' = Flv!BeginSegment(parser) /\ flvPending' = <<>>
    BY <1>1 DEF Flv!Top
  <2>2. CtrlInv' /\ (flvCtrl' = flvCtrl \/ flvCtrl' \in CtrlType)
        /\ synced' \in 0..Len(file)
    BY <1>n, <1>c, <2>1, CtrlSaved
  <2>3. /\ parser' = parser \/ parser' = Flv!BeginSegment(parser)
        /\ parser' \in ParserType
        /\ parser'.end = parser.end /\ parser'.probe = parser.probe
        /\ phase' = "connect" =>
             ~parser'.started /\ ~parser'.media /\ ~parser'.replay /\ parser'.shift = <<>>
    BY <2>1 DEF FlvTyped, ParserType, Flv!BeginSegment
  <2>4. FlvTyped'
    <3>0. <<>> \in Seq(Tag) /\ flvPending \in Seq(Tag)
      BY DEF FlvTyped
    <3>1. flvPending' \in Seq(Tag)
      BY <2>1, <3>0
    <3>2. phase' \in {"top", "connect", "read", "gone", "backoff", "end"}
      BY <2>1
    <3>3. flvCtrl' = NoCtrl \/ flvCtrl' \in CtrlType
      BY <2>2 DEF FlvTyped
    <3> QED
      BY <2>1, <2>2, <2>3, <3>1, <3>2, <3>3 DEF FlvTyped
  <2>5. ClockInv'
    BY <2>1, <2>3 DEF ClockInv, Flv!EndsAt, Flv!LastMedia, Flv!Medias
  <2> QED
    BY <1>f, <2>1, <2>2, <2>4, <2>5, ReadOver
<1>2. CASE Flv!Opens
  <2>1. /\ UNCHANGED <<file, now, synced, flvCtrl, flvPending, parser, status>>
        /\ status = "active" /\ phase = "connect"
        /\ \/ phase' = "end" /\ flvLink' = flvLink
           \/ /\ phase' = "read"
              /\ \E y \in {"live", "file", "empty", "replay"} :
                   flvLink' = [kind |-> y, at |-> 0, got |-> FALSE] /\ (y = "file" => file = <<>>)
    BY <1>2 DEF Flv!Opens
  <2>2. flvLink' \in LinkType
    <3>1. flvLink \in LinkType
      BY DEF FlvTyped
    <3> QED
      BY <2>1, <3>1, LinkMade
  <2>3. phase' = "read" => flvLink'.kind # "none" /\ flvLink'.at = 0 /\ (flvLink'.kind = "file" => file = <<>>)
    BY <2>1
  <2>4. FlvTyped'
    BY <2>1, <2>2 DEF FlvTyped
  <2>5. ReadInv'
    BY <2>1, <2>3 DEF ReadInv, ClockInv
  <2> QED
    BY <2>1, <2>4, <2>5, DiskStays, ClockStays
<1>3. CASE Flv!ReadJunk
  <2>1. /\ UNCHANGED <<file, now, synced, flvCtrl, flvPending, status>> /\ phase' \in {"end", "backoff"}
        /\ parser' = parser \/ parser' = Flv!NewParser(parser.end, 1, parser.probe)
        /\ flvLink' = Flv!NoLink
    BY <1>3 DEF Flv!ReadJunk
  <2>2. /\ parser' \in ParserType
        /\ parser'.end = parser.end /\ parser'.probe = parser.probe
    BY <2>1, ParserMade DEF FlvTyped, ParserType
  <2>3. FlvTyped'
    BY <2>1, <2>2 DEF FlvTyped, LinkType, Flv!NoLink
  <2>4. ClockInv'
    BY <2>1, <2>2 DEF ClockInv, Flv!EndsAt, Flv!LastMedia, Flv!Medias
  <2> QED
    BY <2>1, <2>3, <2>4, DiskStays, ReadOver
<1>4. CASE Flv!PauseInBackoff
  <2>1. /\ UNCHANGED <<file, now, flvCtrl, flvPending, parser, flvLink>>
        /\ status' = "paused" /\ phase' = "top" /\ synced' = Len(file)
    BY <1>4 DEF Flv!PauseInBackoff
  <2>2. FlvTyped'
    BY <1>n, <2>1 DEF FlvTyped
  <2> QED
    BY <1>c, <1>f, <2>1, <2>2, ClockStays, ReadOver
<1>5. CASE Flv!End
  <2>1. /\ UNCHANGED <<file, now, flvPending, parser, flvLink>> /\ status = "active"
        /\ status' \in {"paused", "complete", "failed"} /\ phase' = "top" /\ synced' = Len(file)
        /\ flvCtrl' = flvCtrl \/ flvCtrl' = Flv!CtrlOf \/ flvCtrl' = NoCtrl
    BY <1>5 DEF Flv!End
  <2>2. CtrlInv' /\ (flvCtrl' \in {flvCtrl, NoCtrl} \/ flvCtrl' \in CtrlType)
    <3>1. CASE flvCtrl' = NoCtrl
      BY <3>1 DEF CtrlInv
    <3> QED
      BY <1>c, <2>1, <3>1, CtrlSaved
  <2>3. FlvTyped'
    BY <1>n, <2>1, <2>2 DEF FlvTyped
  <2> QED
    BY <1>f, <2>1, <2>2, <2>3, ReadOver DEF ClockInv
<1> QED
  BY <1>1, <1>2, <1>3, <1>4, <1>5

(* The clock: a connection's first tag stands at the end of the file, each *)
(* further one goes as far as its time did.                                *)
LEMMA MappedOn ==
    ASSUME parser \in ParserType, NEW ts \in Nat, NEW q, q = Flv!Mapped(parser, ts)
    PROVE  /\ q \in ParserType /\ q.media /\ q.started = parser.started
           /\ q.replay <=> parser.replay \/ (~parser.media /\ parser.probe = ts)
           /\ q.probe = IF parser.media \/ parser.probe # NoProbe THEN parser.probe ELSE ts
           /\ parser.shift = <<>> => q.shift = <<ts, parser.end>> /\ q.end = parser.end
           /\ parser.shift # <<>> /\ parser.end + parser.shift[1] + 1 = ts + parser.shift[2]
                /\ parser.shift[1] < ts =>
              q.shift = parser.shift /\ q.end = parser.end + 1
<1> DEFINE sh == IF parser.shift = <<>> THEN <<ts, parser.end>> ELSE parser.shift
<1> DEFINE at == IF ts + sh[2] > sh[1] THEN ts + sh[2] - sh[1] ELSE 0
<1> DEFINE en == IF at > parser.end THEN at ELSE parser.end
<1> DEFINE rp == parser.replay \/ (~parser.media /\ parser.probe = ts)
<1>1. parser.end \in Nat /\ parser.shift \in {<<>>} \cup (Nat \X Nat)
      /\ parser.started \in BOOLEAN /\ parser.headed \in BOOLEAN /\ parser.media \in BOOLEAN
      /\ parser.replay \in BOOLEAN /\ parser.probe \in Probe
  BY DEF ParserType
<1>2. q = [started |-> parser.started, headed |-> parser.headed, shift |-> sh, end |-> en,
           probe |-> IF parser.media \/ parser.probe # NoProbe THEN parser.probe ELSE ts,
           media |-> TRUE, replay |-> rp]
  BY DEF Flv!Mapped, ParserType
<1>3. sh \in Nat \X Nat
  BY <1>1
<1>4. en \in Nat
  <2>1. sh[1] \in Nat /\ sh[2] \in Nat
    BY <1>3
  <2> HIDE DEF sh
  <2> QED
    BY <1>1, <2>1
<1>5. parser.shift = <<>> => en = parser.end
  BY <1>1
<1>6. parser.shift # <<>> /\ parser.end + parser.shift[1] + 1 = ts + parser.shift[2]
        /\ parser.shift[1] < ts => en = parser.end + 1
  <2>1. SUFFICES ASSUME parser.shift # <<>>, parser.shift[1] < ts,
                        parser.end + parser.shift[1] + 1 = ts + parser.shift[2]
                 PROVE  en = parser.end + 1
    OBVIOUS
  <2>2. PICK a \in Nat, b \in Nat : sh = <<a, b>> /\ parser.shift = <<a, b>>
    BY <1>1, <2>1
  <2>3. a < ts /\ parser.end + a + 1 = ts + b
    BY <2>1, <2>2
  <2>4. at = ts + b - a
    BY <1>1, <2>2, <2>3
  <2> HIDE DEF at
  <2> QED
    BY <1>1, <2>3, <2>4
<1>7. q \in ParserType
  <2> HIDE DEF sh, en
  <2>1. (IF parser.media \/ parser.probe # NoProbe THEN parser.probe ELSE ts) \in Probe
    BY <1>1 DEF Probe
  <2>2. sh \in {<<>>} \cup (Nat \X Nat)
    BY <1>3
  <2> QED
    BY <1>1, <1>2, <1>4, <2>1, <2>2 DEF ParserType
<1>8. parser.shift # <<>> => sh = parser.shift
  OBVIOUS
<1>9. parser.shift = <<>> => sh = <<ts, parser.end>>
  OBVIOUS
<1> HIDE DEF sh, en
<1>10. q.media /\ q.started = parser.started /\ q.shift = sh /\ q.end = en
  BY <1>2
<1>11. q.probe = IF parser.media \/ parser.probe # NoProbe THEN parser.probe ELSE ts
  BY <1>2
<1>12. q.replay <=> parser.replay \/ (~parser.media /\ parser.probe = ts)
  <2> HIDE DEF rp
  <2>1. q.replay = rp
    BY <1>2
  <2> QED
    BY <2>1, Zenon DEF rp
<1> QED
  BY <1>5, <1>6, <1>7, <1>8, <1>9, <1>10, <1>11, <1>12

(* A header or a script is written, held back, or left out.                *)
LEMMA QuietKept ==
    ASSUME FlvInv, Flv!Reading, NEW s \in Seq(Tag), \A k \in DOMAIN s : s[k].is # "media",
           NEW q \in ParserType, Flv!Got(s, q), UNCHANGED now,
           s # <<>> => s[1].is # "media",
           q.shift = parser.shift, q.end = parser.end, q.probe = parser.probe,
           q.media = parser.media, q.replay = parser.replay,
           parser.started => q.started, flvLink.kind # "empty"
    PROVE  FlvInv'
<1> USE DEF FlvInv
<1>1. status = "active" /\ phase = "read" /\ parser' = q
      /\ flvLink' = [flvLink EXCEPT !.got = TRUE] /\ UNCHANGED <<synced, flvCtrl, status, now>>
  BY DEF Flv!Reading, Flv!Got
<1>2. ~parser.replay
  BY <1>1 DEF ReadInv
<1>3. /\ phase' = phase
      /\ \/ parser.media /\ file' = file \o flvPending \o s /\ flvPending' = <<>>
         \/ ~parser.media /\ file' = file /\ flvPending' = flvPending \o s
  BY <1>2 DEF Flv!Got, Flv!Written, ParserType
<1>4. flvLink' \in LinkType /\ flvLink'.kind = flvLink.kind /\ flvLink'.at = flvLink.at
  BY <1>1 DEF FlvTyped, LinkType
<1>5. file \in Seq(Tag) /\ flvPending \in Seq(Tag) /\ file \o flvPending \in Seq(Tag)
  BY DEF FlvTyped
<1>6. /\ file' \in Seq(Tag) /\ flvPending' \in Seq(Tag)
      /\ Flv!Medias(file') = Flv!Medias(file)
      /\ \A k \in Flv!Medias(file) : file'[k] = file[k]
      /\ \A k \in DOMAIN flvPending' : flvPending'[k].is # "media"
      /\ Len(file') >= Len(file)
      /\ \A b \in 0..Len(file) : SubSeq(file', 1, b) = SubSeq(file, 1, b)
  <2>q. \A k \in DOMAIN flvPending : flvPending[k].is # "media"
    BY DEF FileInv
  <2>1. CASE parser.media /\ file' = file \o flvPending \o s /\ flvPending' = <<>>
    <3>1. /\ Flv!Medias(file \o flvPending) = Flv!Medias(file)
          /\ \A k \in Flv!Medias(file) : (file \o flvPending)[k] = file[k]
      BY <1>5, <2>q, AddQuiet
    <3>2. /\ Flv!Medias(file \o flvPending \o s) = Flv!Medias(file \o flvPending)
          /\ \A k \in Flv!Medias(file \o flvPending) : (file \o flvPending \o s)[k] = (file \o flvPending)[k]
      BY <1>5, AddQuiet
    <3>3. /\ Len(file \o flvPending) = Len(file) + Len(flvPending)
          /\ \A b \in 0..Len(file) : SubSeq(file \o flvPending, 1, b) = SubSeq(file, 1, b)
      BY <1>5, MoreTags
    <3>4. /\ Len(file \o flvPending \o s) = Len(file \o flvPending) + Len(s)
          /\ \A b \in 0..Len(file \o flvPending) :
               SubSeq(file \o flvPending \o s, 1, b) = SubSeq(file \o flvPending, 1, b)
          /\ file \o flvPending \o s \in Seq(Tag)
      BY <1>5, MoreTags
    <3>5. Len(file) \in Nat /\ Len(flvPending) \in Nat /\ Len(s) \in Nat
      BY <1>5
    <3>6. \A b \in 0..Len(file) : SubSeq(file', 1, b) = SubSeq(file, 1, b)
      BY <2>1, <3>3, <3>4, <3>5
    <3>7. Len(file') >= Len(file)
      BY <2>1, <3>3, <3>4, <3>5
    <3>8. flvPending' \in Seq(Tag) /\ \A k \in DOMAIN flvPending' : flvPending'[k].is # "media"
      BY <2>1
    <3> QED
      BY <2>1, <3>1, <3>2, <3>4, <3>6, <3>7, <3>8
  <2>2. CASE ~parser.media /\ file' = file /\ flvPending' = flvPending \o s
    <3>1. \A k \in DOMAIN (flvPending \o s) : (flvPending \o s)[k].is # "media"
      BY <1>5, <2>q, AddQuiet DEF Flv!Medias
    <3>2. flvPending \o s \in Seq(Tag)
      BY <1>5, MoreTags
    <3>3. Len(file) >= Len(file)
      BY <1>5
    <3>4. \A k \in DOMAIN flvPending' : flvPending'[k].is # "media"
      BY <2>2, <3>1
    <3> QED
      BY <1>5, <2>2, <3>2, <3>3, <3>4
  <2> QED
    BY <1>3, <2>1, <2>2
<1>7. FlvTyped'
  BY <1>1, <1>3, <1>4, <1>6 DEF FlvTyped
<1>8. /\ Flv!Contiguous(file) => Flv!Contiguous(file')
      /\ \A ms : Flv!EndsAt(file, ms) => Flv!EndsAt(file', ms)
      /\ \A k : Flv!LastMedia(file, k) => Flv!LastMedia(file', k) /\ file'[k] = file[k]
  BY <1>6, SameLine
<1>9. FileInv'
  BY <1>1, <1>6, <1>8 DEF FileInv
<1>10. CtrlInv'
  <2>1. SUFFICES ASSUME flvCtrl # NoCtrl PROVE CtrlInv'
    BY <1>1 DEF CtrlInv
  <2>2. flvCtrl.bytes \in 0..Len(file)
    BY <2>1 DEF FlvTyped, CtrlInv, CtrlType
  <2> QED
    BY <1>1, <1>6, <2>1, <2>2 DEF CtrlInv
<1>11. ClockInv'
  BY <1>1, <1>3, <1>6, <1>8 DEF ClockInv
<1>12. ReadInv'
  <2>1. flvLink.kind = "file" /\ ~parser.media => file' = <<>>
    BY <1>1, <1>3 DEF ReadInv
  <2>2. parser.media => \E k \in Flv!Medias(file') : Flv!LastMedia(file', k) /\ file'[k].id = flvLink.at
    BY <1>1, <1>6, <1>8 DEF ReadInv
  <2> QED
    BY <1>1, <1>3, <1>4, <2>1, <2>2 DEF ReadInv
<1> QED
  BY <1>7, <1>9, <1>10, <1>11, <1>12

(* The header is read.                                                     *)
LEMMA HeaderKept == ASSUME FlvInv, Flv!ReadHeader PROVE FlvInv'
<1> DEFINE q == [parser EXCEPT !.started = TRUE, !.headed = TRUE]
<1> DEFINE s == IF parser.headed THEN <<>> ELSE <<Flv!Header>>
<1>1. Flv!Reading /\ flvLink.kind # "empty" /\ Flv!Got(s, q) /\ UNCHANGED now
  BY DEF Flv!ReadHeader
<1>2. q \in ParserType /\ q.shift = parser.shift /\ q.end = parser.end /\ q.probe = parser.probe
      /\ q.started = TRUE
  BY DEF FlvInv, FlvTyped, ParserType
<1>3. q.media = parser.media /\ q.replay = parser.replay
  BY DEF FlvInv, FlvTyped, ParserType
<1>4. s \in Seq(Tag) /\ \A k \in DOMAIN s : s[k].is # "media"
  <2>1. Flv!Header \in Tag /\ Flv!Header.is # "media"
    BY DEF Flv!Header, Tag
  <2>2. <<>> \in Seq(Tag) /\ <<Flv!Header>> \in Seq(Tag)
    BY <2>1
  <2> QED
    BY <2>1, <2>2
<1>5. s # <<>> => s[1].is # "media"
  BY DEF Flv!Header
<1> HIDE DEF q, s
<1> QED
  BY <1>1, <1>2, <1>3, <1>4, <1>5, QuietKept

(* A script tag is read.                                                   *)
LEMMA ScriptKept == ASSUME FlvInv, Flv!ReadScript PROVE FlvInv'
<1> DEFINE s == <<Flv!Script(parser.end)>>
<1>1. Flv!Reading /\ parser.started /\ Flv!Got(s, parser) /\ UNCHANGED now
  BY DEF Flv!ReadScript
<1>2. parser \in ParserType /\ parser.end \in Nat
  BY DEF FlvInv, FlvTyped, ParserType
<1>3. s \in Seq(Tag) /\ \A k \in DOMAIN s : s[k].is # "media"
  BY <1>2 DEF Flv!Script, Tag
<1>4. s[1].is # "media"
  BY DEF Flv!Script
<1>5. flvLink.kind # "empty"
  BY <1>1 DEF FlvInv, ReadInv, Flv!Reading
<1> HIDE DEF s
<1> QED
  BY <1>1, <1>2, <1>3, <1>4, <1>5, QuietKept

(* A media tag is read.                                                    *)
LEMMA MediaKept == ASSUME FlvInv, Flv!ReadMedia PROVE FlvInv'
<1> USE DEF FlvInv
<1> DEFINE id == CASE flvLink.kind = "live" -> now + 1
                   [] OTHER -> IF flvLink.at = 0 /\ flvLink.kind = "replay" /\ parser.probe # NoProbe
                               THEN parser.probe ELSE flvLink.at + 1
<1> DEFINE q == Flv!Mapped(parser, id)
<1> DEFINE m == Flv!Media(q.end, id)
<1>1. Flv!Reading /\ parser.started /\ Flv!Got(<<m>>, q)
      /\ id <= (IF flvLink.kind = "live" THEN MaxTags ELSE now)
      /\ now' = (IF flvLink.kind = "live" THEN id ELSE now)
  BY DEF Flv!ReadMedia
<1>2. status = "active" /\ phase = "read" /\ parser' = q
      /\ UNCHANGED <<synced, flvCtrl, status>>
  BY <1>1 DEF Flv!Reading, Flv!Got
<1>3. parser \in ParserType /\ now \in Nat /\ flvLink.at \in Nat /\ parser.probe \in Probe
      /\ flvLink \in LinkType /\ parser.end \in Nat
  BY DEF FlvTyped, ParserType, LinkType
<1>4. id \in Nat /\ flvLink.kind = "live" => id = now + 1 /\ now' = id
  BY <1>1, <1>3 DEF Probe
<1>5. id \in Nat
  BY <1>3 DEF Probe
<1>6. flvLink.kind # "live" => id <= now /\ now' = now
  BY <1>1
<1>7. flvLink.kind = "live" => id = now + 1
  OBVIOUS
<1>8. flvLink.kind # "live" /\ ~(flvLink.at = 0 /\ flvLink.kind = "replay" /\ parser.probe # NoProbe) =>
        id = flvLink.at + 1
  OBVIOUS
<1>9. flvLink.at = 0 /\ flvLink.kind = "replay" /\ parser.probe # NoProbe => id = parser.probe
  OBVIOUS
<1> HIDE DEF id
<1>10. /\ q \in ParserType /\ q.media /\ q.started = parser.started
       /\ q.replay <=> parser.replay \/ (~parser.media /\ parser.probe = id)
       /\ q.probe = IF parser.media \/ parser.probe # NoProbe THEN parser.probe ELSE id
       /\ parser.shift = <<>> => q.shift = <<id, parser.end>> /\ q.end = parser.end
       /\ parser.shift # <<>> /\ parser.end + parser.shift[1] + 1 = id + parser.shift[2]
            /\ parser.shift[1] < id =>
          q.shift = parser.shift /\ q.end = parser.end + 1
  BY <1>3, <1>5, MappedOn
<1> HIDE DEF q
<1>11. m = [is |-> "media", at |-> q.end, id |-> id] /\ q.end \in Nat
  BY <1>10 DEF Flv!Media, ParserType
<1>12. m \in Tag /\ m.is = "media" /\ m.at = q.end /\ m.id = id
  BY <1>5, <1>11 DEF Tag
<1> HIDE DEF m
<1>13. /\ ~parser.media => parser.shift = <<>> /\ flvLink.at = 0
       /\ parser.media =>
             /\ parser.shift # <<>>
             /\ parser.end + parser.shift[1] = flvLink.at + parser.shift[2]
             /\ flvLink.at > 0 /\ parser.shift[1] <= flvLink.at
             /\ flvLink.kind = "live" => flvLink.at = now
             /\ \E k \in Flv!Medias(file) : Flv!LastMedia(file, k) /\ file[k].id = flvLink.at
       /\ flvLink.kind = "file" /\ ~parser.media => file = <<>>
       /\ flvLink.kind # "empty" /\ flvLink.kind # "none" /\ ~parser.replay
  BY <1>1, <1>2 DEF ReadInv
<1>14. parser.media => id = flvLink.at + 1 /\ q.shift = parser.shift /\ q.end = parser.end + 1
  <2>1. SUFFICES ASSUME parser.media PROVE id = flvLink.at + 1 /\ q.shift = parser.shift /\ q.end = parser.end + 1
    OBVIOUS
  <2>2. id = flvLink.at + 1
    BY <1>3, <1>7, <1>8, <1>13, <2>1
  <2>3. parser.shift[1] \in Nat /\ parser.shift[2] \in Nat
    BY <1>3, <1>13, <2>1 DEF ParserType
  <2>4. parser.end + parser.shift[1] + 1 = id + parser.shift[2] /\ parser.shift[1] < id
    BY <1>3, <1>13, <2>1, <2>2, <2>3
  <2> QED
    BY <1>10, <1>13, <2>1, <2>2, <2>4
<1>15. ~parser.media => q.shift = <<id, parser.end>> /\ q.end = parser.end
  BY <1>10, <1>13
<1>16. now' \in Nat /\ now <= now' /\ id <= now'
  BY <1>1, <1>3, <1>5, <1>6, <1>7
<1>17. /\ flvLink' \in LinkType /\ flvLink'.kind = flvLink.kind /\ flvLink'.at = id
  <2>1. flvLink' = [flvLink EXCEPT !.got = TRUE, !.at = id]
    BY <1>1, <1>12 DEF Flv!Got
  <2> QED
    BY <1>5, <2>1 DEF FlvTyped, LinkType
<1>18. CASE q.replay
  <2>1. /\ UNCHANGED <<file, flvPending>> /\ phase' = "end"
    BY <1>1, <1>18 DEF Flv!Got
  <2>3. q.end = parser.end /\ (parser.probe # NoProbe => q.probe # NoProbe)
    BY <1>10, <1>13, <1>15, <1>18
  <2>4. FlvTyped'
    BY <1>2, <1>10, <1>16, <1>17, <2>1 DEF FlvTyped
  <2>5. FileInv'
    <3>1. \A k \in Flv!Medias(file) : file[k].id \in Nat
      BY TagAt DEF FlvTyped
    <3> QED
      BY <1>3, <1>16, <2>1, <3>1 DEF FileInv, Flv!Contiguous, Flv!Medias, Flv!Follow
  <2>6. CtrlInv'
    BY <1>2, <2>1 DEF CtrlInv, Flv!EndsAt, Flv!LastMedia, Flv!Medias
  <2>7. ClockInv'
    BY <1>2, <2>1, <2>3 DEF ClockInv, Flv!EndsAt, Flv!LastMedia, Flv!Medias
  <2> QED
    BY <2>1, <2>4, <2>5, <2>6, <2>7, ReadOver
<1>19. CASE ~q.replay
  <2> DEFINE s == file \o flvPending
  <2>1. phase' = phase /\ file' = s \o <<m>> /\ flvPending' = <<>>
    BY <1>1, <1>10, <1>19 DEF Flv!Got, Flv!Written
  <2>2. file \in Seq(Tag) /\ flvPending \in Seq(Tag) /\ s \in Seq(Tag)
    BY DEF FlvTyped
  <2>3. /\ Flv!Medias(s) = Flv!Medias(file) /\ \A k \in Flv!Medias(file) : s[k] = file[k]
    BY <2>2, AddQuiet DEF FileInv
  <2>4. /\ Flv!Contiguous(file) => Flv!Contiguous(s)
        /\ \A ms : Flv!EndsAt(file, ms) => Flv!EndsAt(s, ms)
        /\ \A k : Flv!LastMedia(file, k) => Flv!LastMedia(s, k) /\ s[k] = file[k]
    BY <2>3, SameLine
  <2>5. /\ Len(s) = Len(file) + Len(flvPending)
        /\ \A b \in 0..Len(file) : SubSeq(s, 1, b) = SubSeq(file, 1, b)
    BY <2>2, MoreTags
  <2>6. /\ Len(s \o <<m>>) = Len(s) + 1 /\ s \o <<m>> \in Seq(Tag)
        /\ \A b \in 0..Len(s) : SubSeq(s \o <<m>>, 1, b) = SubSeq(s, 1, b)
    <3>1. <<m>> \in Seq(Tag) /\ Len(<<m>>) = 1
      BY <1>12
    <3> QED
      BY <2>2, <3>1, MoreTags
  <2>7. Len(file) \in Nat /\ Len(flvPending) \in Nat
    BY <2>2
  <2> HIDE DEF s
  <2>8. Flv!EndsAt(s, parser.end) /\ Flv!Contiguous(s)
        /\ (Flv!Medias(s) # {} => parser.probe # NoProbe)
    BY <1>2, <2>3, <2>4 DEF ClockInv, FileInv
  <2>9. Flv!Medias(s) = {} => m.at = 0
    BY <1>12, <1>13, <1>15, <2>3, <2>8 DEF Flv!EndsAt
  <2>10. ASSUME Flv!Medias(s) # {}
         PROVE  \E k \in Flv!Medias(s) : /\ Flv!LastMedia(s, k) /\ s[k].id < m.id
                                         /\ m.at = s[k].at \/ m.at = s[k].at + 1
    <3>1. PICK k \in Flv!Medias(s) : Flv!LastMedia(s, k) /\ s[k].at = parser.end
      BY <2>8, <2>10 DEF Flv!EndsAt
    <3>2. m.at = s[k].at \/ m.at = s[k].at + 1
      BY <1>12, <1>14, <1>15, <3>1
    <3>3. s[k].id \in Nat /\ k \in Nat /\ s[k].id <= now
      BY <2>2, <2>3, TagAt DEF FileInv
    <3>4. CASE flvLink.kind = "live"
      BY <1>3, <1>7, <1>12, <3>1, <3>2, <3>3, <3>4
    <3>5. CASE flvLink.kind # "live" /\ parser.media
      <4>1. PICK l \in Flv!Medias(s) : Flv!LastMedia(s, l) /\ s[l].id = flvLink.at
        BY <1>13, <2>3, <2>4, <3>5
      <4>2. l \in Nat /\ l <= k /\ k <= l
        BY <2>2, <3>1, <4>1, TagAt DEF Flv!LastMedia
      <4>3. l = k
        BY <3>3, <4>2
      <4> QED
        BY <1>3, <1>12, <1>14, <3>1, <3>2, <3>3, <3>5, <4>1, <4>3
    <3>6. CASE flvLink.kind # "live" /\ ~parser.media
      <4>1. flvLink.kind # "file"
        <5>1. file = <<>> => Flv!Medias(file) = {}
          BY DEF Flv!Medias
        <5> QED
          BY <1>13, <2>3, <2>10, <3>6, <5>1
      <4>2. flvLink.kind = "replay"
        BY <1>3, <1>13, <3>6, <4>1 DEF LinkType
      <4>3. id = parser.probe
        BY <1>9, <1>13, <2>8, <2>10, <3>6, <4>2
      <4> QED
        BY <1>10, <1>19, <3>6, <4>3
    <3> QED
      BY <3>4, <3>5, <3>6
  <2>11. /\ Flv!Contiguous(s \o <<m>>) /\ Flv!EndsAt(s \o <<m>>, m.at)
         /\ Flv!LastMedia(s \o <<m>>, Len(s) + 1) /\ (s \o <<m>>)[Len(s) + 1] = m
         /\ \A k \in Flv!Medias(s \o <<m>>) :
              k = Len(s) + 1 \/ (k \in Flv!Medias(s) /\ (s \o <<m>>)[k] = s[k])
    BY <1>12, <2>2, <2>8, <2>9, <2>10, AddMedia
  <2>12. FlvTyped'
    <3>1. synced' \in 0..Len(file')
      BY <1>2, <2>1, <2>5, <2>6, <2>7 DEF FlvTyped
    <3>2. flvPending' \in Seq(Tag) /\ file' \in Seq(Tag)
      BY <2>1, <2>6
    <3> QED
      BY <1>2, <1>10, <1>16, <1>17, <2>1, <3>1, <3>2 DEF FlvTyped
  <2>13. FileInv'
    <3>1. \A k \in Flv!Medias(file') : file'[k].id <= now'
      <4>1. ASSUME NEW k \in Flv!Medias(file') PROVE file'[k].id <= now'
        <5>1. CASE k = Len(s) + 1
          BY <1>12, <1>16, <2>1, <2>11, <5>1
        <5>2. CASE k \in Flv!Medias(s) /\ file'[k] = s[k]
          <6>1. file'[k] = file[k] /\ file[k].id <= now /\ file[k].id \in Nat
            BY <2>2, <2>3, <5>2, TagAt DEF FileInv
          <6> QED
            BY <1>3, <1>16, <6>1
        <5> QED
          BY <2>1, <2>11, <5>1, <5>2
      <4> QED
        BY <4>1
    <3>2. \A k \in DOMAIN flvPending' : flvPending'[k].is # "media"
      BY <2>1
    <3> QED
      BY <2>1, <2>11, <3>1, <3>2 DEF FileInv
  <2>14. CtrlInv'
    <3>1. SUFFICES ASSUME flvCtrl # NoCtrl PROVE CtrlInv'
      BY <1>2 DEF CtrlInv
    <3>2. flvCtrl.bytes \in 0..Len(file) /\ flvCtrl.bytes <= synced /\ flvCtrl.bytes \in Nat
      BY <3>1 DEF FlvTyped, CtrlInv, CtrlType
    <3>3. SubSeq(file', 1, flvCtrl.bytes) = SubSeq(file, 1, flvCtrl.bytes)
      BY <2>1, <2>5, <2>6, <2>7, <3>2
    <3>4. ASSUME NEW k \in Flv!Medias(file'), k <= flvCtrl.bytes PROVE k \in Flv!Medias(file)
      BY <2>1, <2>3, <2>5, <2>7, <2>11, <3>2, <3>4
    <3> QED
      BY <1>2, <3>1, <3>2, <3>3, <3>4 DEF CtrlInv
  <2>15. q.probe # NoProbe
    <3>1. CASE parser.media
      BY <1>10, <1>13, <2>3, <2>8, <3>1
    <3>2. CASE ~parser.media /\ parser.probe # NoProbe
      BY <1>10, <3>2
    <3>3. CASE ~parser.media /\ parser.probe = NoProbe
      BY <1>10, <1>19, <3>3
    <3> QED
      BY <3>1, <3>2, <3>3
  <2>16. ClockInv'
    BY <1>2, <1>12, <2>1, <2>11, <2>15 DEF ClockInv
  <2>17. ReadInv'
    <3>1. \E k \in Flv!Medias(file') : Flv!LastMedia(file', k) /\ file'[k].id = flvLink'.at
      BY <1>12, <1>17, <2>1, <2>11 DEF Flv!LastMedia
    <3>2. /\ q.shift # <<>> /\ q.end + q.shift[1] = id + q.shift[2] /\ id > 0 /\ q.shift[1] <= id
      <4>1. CASE parser.media
        <5>1. parser.shift[1] \in Nat /\ parser.shift[2] \in Nat
          BY <1>3, <1>13, <4>1 DEF ParserType
        <5>2. /\ parser.shift # <<>> /\ parser.end + parser.shift[1] = flvLink.at + parser.shift[2]
              /\ parser.shift[1] <= flvLink.at
          BY <1>13, <4>1
        <5>3. q.shift = parser.shift /\ q.end = parser.end + 1 /\ id = flvLink.at + 1
          BY <1>14, <4>1
        <5>4. PICK a \in Nat, b \in Nat : parser.shift[1] = a /\ parser.shift[2] = b
          BY <5>1
        <5>5. q.shift # <<>> /\ q.shift[1] = a /\ q.shift[2] = b
          BY <5>2, <5>3, <5>4
        <5>6. parser.end + a = flvLink.at + b /\ a <= flvLink.at
          BY <5>2, <5>4
        <5>7. q.end + a = id + b /\ id > 0 /\ a <= id
          BY <1>3, <5>3, <5>6
        <5> QED
          BY <5>5, <5>7
      <4>2. CASE ~parser.media
        <5>1. id > 0
          <6>1. ~(flvLink.at = 0 /\ flvLink.kind = "replay" /\ parser.probe # NoProbe)
            BY <1>9, <1>10, <1>19, <4>2
          <6> QED
            BY <1>3, <1>7, <1>8, <6>1
        <5>2. q.shift = <<id, parser.end>> /\ q.end = parser.end
          BY <1>15, <4>2
        <5>3. q.shift # <<>> /\ q.shift[1] = id /\ q.shift[2] = parser.end
          BY <5>2
        <5> QED
          BY <1>3, <1>5, <5>1, <5>2, <5>3
      <4> QED
        BY <4>1, <4>2
    <3>3. flvLink.kind = "live" => id = now'
      BY <1>1
    <3> QED
      BY <1>2, <1>10, <1>13, <1>17, <1>19, <3>1, <3>2, <3>3 DEF ReadInv
  <2> QED
    BY <2>12, <2>13, <2>14, <2>16, <2>17
<1> QED
  BY <1>18, <1>19

(* Steps that end a connection, the recording or the process.              *)
LEMMA FlvKeptCut ==
    ASSUME Flv!FlvAssumption, FlvInv, Flv!Resume \/ Flv!Crash PROVE FlvInv'
<1> USE DEF FlvInv, Flv!site_vars, Flv!disk_vars, Flv!rec_vars, Flv!task_vars, Flv!counts
<1>n. Len(file) \in Nat /\ synced \in Nat /\ synced <= Len(file) /\ file \in Seq(Tag)
  BY DEF FlvTyped
(* What the control file says of the file it says of the file cut behind   *)
(* that place.                                                             *)
<1>c. ASSUME NEW b \in 0..Len(file), flvCtrl # NoCtrl, flvCtrl.bytes <= b
      PROVE  /\ Flv!EndsAt(SubSeq(SubSeq(file, 1, b), 1, flvCtrl.bytes), flvCtrl.ms)
             /\ (\E k \in Flv!Medias(SubSeq(file, 1, b)) : k <= flvCtrl.bytes) => flvCtrl.probe # NoProbe
  <2>1. flvCtrl.bytes \in 0..b /\ b \in Nat /\ flvCtrl.bytes \in 0..Len(file)
    BY <1>n, <1>c DEF FlvTyped, CtrlType
  <2>2. SubSeq(SubSeq(file, 1, b), 1, flvCtrl.bytes) = SubSeq(file, 1, flvCtrl.bytes)
    <3> DEFINE s == SubSeq(file, 1, b)
    <3> DEFINE a == flvCtrl.bytes
    <3>1. s \in Seq(Tag) /\ Len(s) = b /\ \A k \in 1..b : s[k] = file[k]
      BY <1>n, CutTags
    <3>2. a \in 0..b /\ a \in 0..Len(file)
      BY <2>1
    <3> HIDE DEF s, a
    <3>3. /\ SubSeq(s, 1, a) \in Seq(Tag) /\ Len(SubSeq(s, 1, a)) = a
          /\ \A k \in 1..a : SubSeq(s, 1, a)[k] = s[k]
      BY <3>1, <3>2, CutTags
    <3>4. /\ SubSeq(file, 1, a) \in Seq(Tag) /\ Len(SubSeq(file, 1, a)) = a
          /\ \A k \in 1..a : SubSeq(file, 1, a)[k] = file[k]
      BY <1>n, <3>2, CutTags
    <3>5. \A k \in 1..a : k \in 1..b
      BY <3>2
    <3>6. SubSeq(s, 1, a) = SubSeq(file, 1, a)
      BY <3>1, <3>3, <3>4, <3>5, SeqEqual
    <3> QED
      BY <3>6 DEF s, a
  <2>3. \A k \in Flv!Medias(SubSeq(file, 1, b)) : k \in Flv!Medias(file)
    BY <1>n, CutMedias
  <2> QED
    BY <1>c, <2>2, <2>3 DEF CtrlInv
<1>1. CASE Flv!Resume
  <2>1. /\ UNCHANGED <<now, flvCtrl>> /\ status' = "active" /\ phase' = "top" /\ flvPending' = <<>>
        /\ flvLink' = Flv!NoLink /\ synced' = Len(file')
        /\ \/ /\ flvCtrl # NoCtrl /\ Len(file) >= flvCtrl.bytes
              /\ file' = SubSeq(file, 1, flvCtrl.bytes)
              /\ parser' = Flv!NewParser(flvCtrl.ms, flvCtrl.bytes, flvCtrl.probe)
           \/ /\ ~(flvCtrl # NoCtrl /\ Len(file) >= flvCtrl.bytes)
              /\ file' = <<>> /\ parser' = Flv!NewParser(0, 0, NoProbe)
    BY <1>1 DEF Flv!Resume
  <2>2. CASE flvCtrl # NoCtrl
    <3>1. /\ flvCtrl.bytes \in Nat /\ flvCtrl.ms \in Nat /\ flvCtrl.probe \in Probe
          /\ flvCtrl.bytes <= synced /\ flvCtrl.bytes \in 0..Len(file)
          /\ Len(file) >= flvCtrl.bytes
      BY <1>n, <2>2 DEF FlvTyped, CtrlInv, CtrlType
    <3>2. /\ file' = SubSeq(file, 1, flvCtrl.bytes)
          /\ parser' = Flv!NewParser(flvCtrl.ms, flvCtrl.bytes, flvCtrl.probe)
      BY <2>1, <2>2, <3>1
    <3>3. parser' \in ParserType /\ parser'.end = flvCtrl.ms /\ parser'.probe = flvCtrl.probe
      BY <3>1, <3>2, ParserMade
    <3>4. file' \in Seq(Tag) /\ Len(file') = flvCtrl.bytes
      BY <1>n, <3>1, <3>2, CutTags
    <3>5. FlvTyped'
      <4>1. flvPending' \in Seq(Tag)
        BY <2>1
      <4>2. synced' \in 0..Len(file')
        BY <2>1, <3>1, <3>4
      <4>3. flvLink' \in LinkType
        BY <2>1, LinkMade
      <4> QED
        BY <2>1, <3>3, <3>4, <4>1, <4>2, <4>3 DEF FlvTyped
    <3>6. /\ \A k : k \in Flv!Medias(file') <=> k \in Flv!Medias(file) /\ k <= flvCtrl.bytes
          /\ \A k \in Flv!Medias(file') : file'[k] = file[k]
      BY <1>n, <3>1, <3>2, CutMedias
    <3>7. FileInv'
      <4>1. Flv!Contiguous(file')
        BY <1>n, <3>1, <3>2, CutLine DEF FileInv
      <4>2. \A k \in Flv!Medias(file') : file'[k].id <= now'
        BY <2>1, <3>6 DEF FileInv
      <4>3. \A k \in DOMAIN flvPending' : flvPending'[k].is # "media"
        BY <2>1
      <4> QED
        BY <4>1, <4>2, <4>3 DEF FileInv
    <3>8. CtrlInv'
      <4>1. flvCtrl'.bytes <= synced'
        BY <2>1, <3>1, <3>4
      <4>2. flvCtrl.bytes <= flvCtrl.bytes
        BY <3>1
      <4> QED
        BY <1>c, <2>1, <2>2, <3>1, <3>2, <4>1, <4>2 DEF CtrlInv
    <3>9. ClockInv'
      <4>1. Flv!EndsAt(file', parser'.end)
        BY <2>2, <3>2, <3>3 DEF CtrlInv
      <4>2. Flv!Medias(file') # {} => parser'.probe # NoProbe
        BY <2>2, <3>3, <3>6 DEF CtrlInv
      <4> QED
        BY <2>1, <4>1, <4>2 DEF ClockInv
    <3> QED
      BY <2>1, <3>5, <3>7, <3>8, <3>9, ReadOver
  <2>3. CASE flvCtrl = NoCtrl
    <3>1. file' = <<>> /\ parser' = Flv!NewParser(0, 0, NoProbe)
      BY <2>1, <2>3
    <3>2. parser' \in ParserType /\ parser'.end = 0
      <4>1. NoProbe \in Probe /\ 0 \in Nat
        BY DEF Probe
      <4> QED
        BY <3>1, <4>1, ParserMade
    <3>3. Flv!Medias(file') = {}
      BY <3>1 DEF Flv!Medias
    <3>4. FlvTyped'
      <4>1. flvPending' \in Seq(Tag) /\ file' \in Seq(Tag) /\ Len(file') = 0
        BY <2>1, <3>1
      <4>2. synced' \in 0..Len(file')
        BY <2>1, <4>1
      <4>3. flvLink' \in LinkType
        BY <2>1, LinkMade
      <4> QED
        BY <2>1, <2>3, <3>2, <4>1, <4>2, <4>3 DEF FlvTyped
    <3>5. FileInv'
      <4>1. \A k \in DOMAIN flvPending' : flvPending'[k].is # "media"
        BY <2>1
      <4> QED
        BY <3>3, <4>1 DEF FileInv, Flv!Contiguous
    <3>6. CtrlInv' /\ ClockInv'
      BY <2>1, <2>3, <3>2, <3>3 DEF CtrlInv, ClockInv, Flv!EndsAt
    <3> QED
      BY <2>1, <3>4, <3>5, <3>6, ReadOver
  <2> QED
    BY <2>2, <2>3
<1>2. CASE Flv!Crash
  <2>1. PICK b \in synced..Len(file) : file' = SubSeq(file, 1, b) /\ synced' = b
    BY <1>2 DEF Flv!Crash
  <2>2. /\ UNCHANGED <<now, flvCtrl, parser, flvPending>> /\ status' = "paused" /\ phase' = "top"
        /\ flvLink' = Flv!NoLink
    BY <1>2 DEF Flv!Crash
  <2>3. b \in 0..Len(file) /\ b \in Nat /\ synced <= b
    BY <1>n
  <2>4. file' \in Seq(Tag) /\ Len(file') = b
    BY <1>n, <2>1, <2>3, CutTags
  <2>5. FlvTyped'
    <3>1. synced' \in 0..Len(file')
      BY <2>1, <2>3, <2>4
    <3>2. flvLink' \in LinkType
      BY <2>2, LinkMade
    <3> QED
      BY <2>2, <2>4, <3>1, <3>2 DEF FlvTyped
  <2>6. FileInv'
    <3>1. /\ \A k : k \in Flv!Medias(file') <=> k \in Flv!Medias(file) /\ k <= b
          /\ \A k \in Flv!Medias(file') : file'[k] = file[k]
      BY <1>n, <2>1, <2>3, CutMedias
    <3>2. Flv!Contiguous(file')
      BY <1>n, <2>1, <2>3, CutLine DEF FileInv
    <3> QED
      BY <2>2, <3>1, <3>2 DEF FileInv
  <2>7. CtrlInv'
    <3>1. SUFFICES ASSUME flvCtrl # NoCtrl PROVE CtrlInv'
      BY <2>2 DEF CtrlInv
    <3>2. flvCtrl.bytes \in Nat /\ flvCtrl.bytes <= synced
      BY <3>1 DEF FlvTyped, CtrlInv, CtrlType
    <3>3. flvCtrl.bytes <= b
      BY <1>n, <2>3, <3>2
    <3> QED
      BY <1>c, <2>1, <2>2, <2>3, <3>1, <3>3 DEF CtrlInv
  <2> QED
    BY <2>2, <2>5, <2>6, <2>7, ReadOver DEF ClockInv
<1> QED
  BY <1>1, <1>2

(* Every step keeps the invariant.                                         *)
LEMMA FlvKept ==
    ASSUME Flv!FlvAssumption, FlvInv, [Flv!FlvNext]_Flv!flvVars PROVE FlvInv'
  BY FlvKeptBefore, FlvKeptLoop, FlvKeptCut, HeaderKept, ScriptKept, MediaKept
     DEF Flv!FlvNext, Flv!Records

(* The invariant says that the timeline is closed.                         *)
LEMMA FlvSafe == FlvInv => Flv!TimelineClosed
  BY DEF FlvInv, FileInv, CtrlInv, Flv!TimelineClosed

(* An FLV recording is one timeline over all its connections, pauses and   *)
(* crashes (flv.rs, record_flv and FlvStream::map_ts), and its control     *)
(* file says where the recorded part ends.                                 *)
THEOREM OneTimeline == ASSUME Flv!FlvAssumption PROVE Flv!FlvSpec => []Flv!TimelineClosed
  BY FlvStarts, FlvKept, FlvSafe, PTL DEF Flv!FlvSpec

----------------------------------------------------------------------------
(* The recording of a live HLS stream.                                      *)
Unit == {"seg", "map", "torn"} \X Nat
ItemKey == {0, 1, 2} \X Nat
Item == [map : Nat, st : {"queued", "fly", "done", "failed"}, tries : Nat, bad : BOOLEAN]
Items == UNION {[S -> Item] : S \in SUBSET ItemKey}
RecType == [head : Nat, tail : Nat, end : BOOLEAN, items : Items, seen : SUBSET Nat,
            written : Nat \cup {NoCtrl}, sink : Seq(Unit), gone : Nat, dirty : BOOLEAN,
            old : BOOLEAN]
Plan == [lo : Nat, hi : Nat, over : BOOLEAN]
PlanOk(p) == p \in Plan /\ 1 <= p.lo /\ p.lo <= p.hi /\ p.hi <= Live!End

Ordered(s) == \A i, j \in Live!SegsOf(s) : i < j => s[i][2] < s[j][2]
Below(s, h) == \A i \in Live!SegsOf(s) : s[i][2] < h
Beyond(s, b, h) == \A i \in Live!SegsOf(s) : i > b => s[i][2] >= h
Known(lo, s, h) == \A n \in 1..(h - 1) : n < lo \/ \E i \in Live!SegsOf(s) : s[i][2] = n
MapIs(s, m) ==
    IF Live!MapsOf(s) = {} THEN m = NoCtrl
    ELSE \E i \in Live!MapsOf(s) : s[i][2] = m /\ \A j \in Live!MapsOf(s) : j <= i

LiveTyped ==
    /\ PlanOk(source) /\ product \in Seq(Unit) /\ rec \in RecType
    /\ reply.is \in {"none", "gone", "plan"}
    /\ reply.is = "plan" => PlanOk(reply.plan) /\ reply.plan.lo <= source.lo
    /\ saved.bytes # NoCtrl =>
         saved.bytes \in Nat /\ saved.head \in Nat /\ saved.map \in Nat \cup {NoCtrl}
(* What is recorded, with what is buffered, are the segments below the     *)
(* head, in order, but for those the server took away.                     *)
Resting == rec.sink = <<>> /\ ~rec.old
WrittenInv ==
    /\ Ordered(Live!Written) /\ (recStage # "live" => Resting)
    /\ recStage = "live" =>
         /\ Below(Live!Written, rec.head) /\ Known(source.lo, Live!Written, rec.head)
         /\ MapIs(Live!Written, rec.written)
    /\ \A j \in Live!SegsOf(Live!Written) : Known(source.lo, Live!Written, Live!Written[j][2])
(* A control file the recording goes on from is the state of what is       *)
(* recorded, cut off at the length it says.                                *)
Counts(w, c) ==
    LET p == SubSeq(w, 1, c.bytes) IN
    /\ c.bytes \in 0..Len(w)
    /\ Below(p, c.head) /\ Known(source.lo, p, c.head) /\ MapIs(p, c.map)
    /\ Beyond(w, c.bytes, c.head)
SavedInv ==
    saved.bytes # NoCtrl /\ ~rec.old /\ (recStage = "live" \/ Len(product) >= saved.bytes) =>
        Counts(Live!Written, saved) /\ (recStage = "live" => saved.head <= rec.head)
LiveInv == LiveTyped /\ WrittenInv /\ SavedInv

----------------------------------------------------------------------------
(* Sequences: what is cut off, what is added.                              *)
LEMMA CutSeq ==
    ASSUME NEW T, NEW s \in Seq(T), NEW b \in 0..Len(s)
    PROVE  /\ SubSeq(s, 1, b) \in Seq(T) /\ Len(SubSeq(s, 1, b)) = b
           /\ DOMAIN SubSeq(s, 1, b) = 1..b
           /\ \A k \in 1..b : SubSeq(s, 1, b)[k] = s[k]
  OBVIOUS

(* What a sequence and what is added to it hold.                           *)
LEMMA MoreSeq ==
    ASSUME NEW T, NEW s \in Seq(T), NEW q \in Seq(T)
    PROVE  /\ s \o q \in Seq(T) /\ Len(s \o q) = Len(s) + Len(q)
           /\ \A k \in 1..Len(s) : (s \o q)[k] = s[k]
           /\ \A k \in 1..Len(q) : (s \o q)[Len(s) + k] = q[k]
           /\ \A b \in 0..Len(s) : SubSeq(s \o q, 1, b) = SubSeq(s, 1, b)
<1>1. /\ s \o q \in Seq(T) /\ Len(s \o q) = Len(s) + Len(q)
      /\ \A k \in 1..Len(s) : (s \o q)[k] = s[k]
      /\ \A k \in 1..Len(q) : (s \o q)[Len(s) + k] = q[k]
  OBVIOUS
<1>2. ASSUME NEW b \in 0..Len(s) PROVE SubSeq(s \o q, 1, b) = SubSeq(s, 1, b)
  <2>1. b \in 0..Len(s \o q)
    BY <1>1
  <2>2. \A k \in 1..b : SubSeq(s \o q, 1, b)[k] = SubSeq(s, 1, b)[k]
    BY <1>1, <2>1, CutSeq
  <2> QED
    BY <1>1, <2>1, <2>2, CutSeq, SeqEqual
<1> QED
  BY <1>1, <1>2

(* A set of numbers has a least one.                                       *)
LEMMA LeastIn ==
    ASSUME NEW S, S \subseteq Nat, S # {}
    PROVE  Live!Min(S) \in S /\ \A y \in S : Live!Min(S) <= y
<1>1. \A x, y \in Nat : x < y => <<x, y>> \in OpToRel(<, Nat)
  BY DEF OpToRel
<1>2. PICK x \in S : \A y \in S : ~(<<y, x>> \in OpToRel(<, Nat))
  BY NatLessThanWellFounded, WFMin
<1>3. \A y \in S : x <= y
  <2> SUFFICES ASSUME NEW y \in S PROVE x <= y
    OBVIOUS
  <2>1. ~(y < x)
    BY <1>1, <1>2, Zenon
  <2> QED
    BY <2>1
<1> QED
  BY <1>3 DEF Live!Min

(* The larger of two numbers.                                              *)
LEMMA LargerOf ==
    ASSUME NEW a \in Nat, NEW b \in Nat
    PROVE  Live!Max({a, b}) \in Nat /\ Live!Max({a, b}) >= a /\ Live!Max({a, b}) >= b
<1>1. \E x \in {a, b} : \A y \in {a, b} : x >= y
  BY DEF Live!Max
<1> QED
  BY <1>1 DEF Live!Max

----------------------------------------------------------------------------
(* Parts of a recording.                                                   *)
LEMMA SegsCut ==
    ASSUME NEW s \in Seq(Unit), NEW b \in 0..Len(s)
    PROVE  /\ \A i : i \in Live!SegsOf(SubSeq(s, 1, b)) <=> i \in Live!SegsOf(s) /\ i <= b
           /\ \A i \in Live!SegsOf(SubSeq(s, 1, b)) : SubSeq(s, 1, b)[i] = s[i]
<1>1. /\ DOMAIN SubSeq(s, 1, b) = 1..b /\ \A k \in 1..b : SubSeq(s, 1, b)[k] = s[k]
  BY CutSeq
<1>2. DOMAIN s = 1..Len(s) /\ Len(s) \in Nat
  OBVIOUS
<1> QED
  BY <1>1, <1>2 DEF Live!SegsOf

(* A segment of a recording.                                               *)
LEMMA SegAt ==
    ASSUME NEW s \in Seq(Unit), NEW i \in Live!SegsOf(s)
    PROVE  i \in 1..Len(s) /\ s[i][2] \in Nat
<1>1. i \in 1..Len(s) /\ s[i] \in Unit
  BY DEF Live!SegsOf
<1> QED
  BY <1>1 DEF Unit

(* A part that begins a recording is a recording.                          *)
LEMMA OrderCut ==
    ASSUME NEW s \in Seq(Unit), NEW b \in 0..Len(s), Ordered(s),
           \A j \in Live!SegsOf(s) : Known(source.lo, s, s[j][2])
    PROVE  /\ Ordered(SubSeq(s, 1, b))
           /\ \A j \in Live!SegsOf(SubSeq(s, 1, b)) : Known(source.lo, SubSeq(s, 1, b), SubSeq(s, 1, b)[j][2])
<1> DEFINE t == SubSeq(s, 1, b)
<1>1. /\ \A i : i \in Live!SegsOf(t) <=> i \in Live!SegsOf(s) /\ i <= b
      /\ \A i \in Live!SegsOf(t) : t[i] = s[i]
  BY SegsCut
<1> HIDE DEF t
<1>2. Ordered(t)
  BY <1>1 DEF Ordered
<1>3. ASSUME NEW j \in Live!SegsOf(t), NEW n \in 1..(t[j][2] - 1), ~(n < source.lo)
      PROVE  \E i \in Live!SegsOf(t) : t[i][2] = n
  <2>1. j \in Live!SegsOf(s) /\ t[j] = s[j] /\ j <= b /\ j \in Nat /\ s[j][2] \in Nat
    BY <1>1, SegAt
  <2>2. PICK i \in Live!SegsOf(s) : s[i][2] = n
    BY <1>3, <2>1 DEF Known
  <2>3. i \in Nat
    BY SegAt
  <2>4. ~(j < i)
    <3>1. n < s[j][2]
      BY <1>3, <2>1
    <3> QED
      BY <2>1, <2>2, <3>1 DEF Ordered
  <2>5. i \in Live!SegsOf(t)
    BY <1>1, <2>1, <2>3, <2>4
  <2> QED
    BY <1>1, <2>2, <2>5
<1>4. \A j \in Live!SegsOf(t) : Known(source.lo, t, t[j][2])
  BY <1>3 DEF Known
<1> QED
  BY <1>2, <1>4 DEF t

(* One more unit: the segment at the head, or an initialisation segment.   *)
LEMMA UnitAdded ==
    ASSUME NEW s \in Seq(Unit), NEW u \in Unit
    PROVE  /\ Append(s, u) \in Seq(Unit) /\ Len(Append(s, u)) = Len(s) + 1
           /\ DOMAIN Append(s, u) = DOMAIN s \cup {Len(s) + 1}
           /\ \A i \in DOMAIN s : Append(s, u)[i] = s[i] /\ i < Len(s) + 1 /\ i \in Nat
           /\ Append(s, u)[Len(s) + 1] = u
           /\ \A i : i \in Live!SegsOf(Append(s, u)) <=>
                       i \in Live!SegsOf(s) \/ (i = Len(s) + 1 /\ u[1] = "seg")
           /\ \A i : i \in Live!MapsOf(Append(s, u)) <=>
                       i \in Live!MapsOf(s) \/ (i = Len(s) + 1 /\ u[1] = "map")
           /\ Live!SegsOf(s) \subseteq DOMAIN s /\ Live!MapsOf(s) \subseteq DOMAIN s
<1> DEFINE t == Append(s, u)
<1>1. /\ t \in Seq(Unit) /\ Len(t) = Len(s) + 1 /\ DOMAIN t = DOMAIN s \cup {Len(s) + 1}
      /\ \A i \in DOMAIN s : t[i] = s[i] /\ i < Len(s) + 1 /\ i \in Nat
      /\ t[Len(s) + 1] = u
  OBVIOUS
<1>2. Len(s) \in Nat /\ Len(s) + 1 \notin DOMAIN s
  OBVIOUS
<1> HIDE DEF t
<1>3. \A i : i \in Live!SegsOf(t) <=>
               i \in Live!SegsOf(s) \/ (i = Len(s) + 1 /\ u[1] = "seg")
  BY <1>1, <1>2 DEF Live!SegsOf
<1>4. Live!SegsOf(s) \subseteq DOMAIN s /\ Live!MapsOf(s) \subseteq DOMAIN s
  BY DEF Live!SegsOf, Live!MapsOf
<1>5. \A i : i \in Live!MapsOf(t) <=>
               i \in Live!MapsOf(s) \/ (i = Len(s) + 1 /\ u[1] = "map")
  BY <1>1, <1>2 DEF Live!MapsOf
<1> QED
  BY <1>1, <1>3, <1>4, <1>5 DEF t

(* The segment at the head is added.                                       *)
LEMMA SegAdded ==
    ASSUME NEW s \in Seq(Unit), NEW h \in Nat, NEW m, Ordered(s), Below(s, h), Known(source.lo, s, h), MapIs(s, m),
           \A j \in Live!SegsOf(s) : Known(source.lo, s, s[j][2])
    PROVE  LET t == Append(s, <<"seg", h>>) IN
           /\ Ordered(t) /\ Below(t, h + 1) /\ Known(source.lo, t, h + 1) /\ MapIs(t, m)
           /\ \A j \in Live!SegsOf(t) : Known(source.lo, t, t[j][2])
<1> DEFINE t == Append(s, <<"seg", h>>)
<1> DEFINE n == Len(s) + 1
<1>1. /\ DOMAIN t = DOMAIN s \cup {n} /\ n \in Nat
      /\ \A i \in DOMAIN s : t[i] = s[i] /\ i < n /\ i \in Nat
      /\ t[n] = <<"seg", h>>
      /\ \A i : i \in Live!SegsOf(t) <=> i \in Live!SegsOf(s) \/ i = n
      /\ Live!MapsOf(t) = Live!MapsOf(s)
      /\ Live!SegsOf(s) \subseteq DOMAIN s /\ Live!MapsOf(s) \subseteq DOMAIN s
  <2>1. <<"seg", h>> \in Unit /\ <<"seg", h>>[1] = "seg" /\ <<"seg", h>>[1] # "map"
    BY DEF Unit
  <2> DEFINE u == <<"seg", h>>
  <2>2. u \in Unit /\ u[1] = "seg" /\ u[1] # "map"
    BY <2>1
  <2> HIDE DEF u
  <2>3. \A i : i \in Live!MapsOf(Append(s, u)) <=> i \in Live!MapsOf(s)
    BY <2>2, UnitAdded
  <2>4. Live!MapsOf(Append(s, u)) = Live!MapsOf(s)
    BY <2>3 DEF Live!MapsOf
  <2>5. n \in Nat
    OBVIOUS
  <2>6. \A i : i \in Live!SegsOf(Append(s, u)) <=> i \in Live!SegsOf(s) \/ i = n
    BY <2>2, UnitAdded
  <2>7. DOMAIN Append(s, u) = DOMAIN s \cup {n} /\ Append(s, u)[n] = u
    BY <2>2, UnitAdded
  <2>8. \A i \in DOMAIN s : Append(s, u)[i] = s[i] /\ i < n /\ i \in Nat
    BY <2>2, UnitAdded
  <2>9. Live!SegsOf(s) \subseteq DOMAIN s /\ Live!MapsOf(s) \subseteq DOMAIN s
    BY DEF Live!SegsOf, Live!MapsOf
  <2> HIDE DEF n
  <2> QED
    BY <2>4, <2>5, <2>6, <2>7, <2>8, <2>9 DEF u
<1>2. \A i \in Live!SegsOf(s) : s[i][2] \in Nat
  BY SegAt
<1>3. t[n][2] = h
  BY <1>1
<1> HIDE DEF t, n
<1>4. Ordered(t)
  BY <1>1, <1>2, <1>3 DEF Ordered, Below
<1>5. Below(t, h + 1)
  BY <1>1, <1>2, <1>3 DEF Below
<1>6. \A k : Known(source.lo, s, k) => Known(source.lo, t, k)
  BY <1>1 DEF Known
<1>7. Known(source.lo, t, h + 1)
  <2>1. ASSUME NEW x \in 1..(h + 1 - 1), ~(x < source.lo) PROVE \E i \in Live!SegsOf(t) : t[i][2] = x
    <3>1. CASE x = h
      BY <1>1, <1>3, <3>1
    <3>2. CASE x # h
      <4>1. x \in 1..(h - 1)
        BY <3>2
      <4> QED
        BY <1>6, <2>1, <4>1 DEF Known
    <3> QED
      BY <3>1, <3>2
  <2> QED
    BY <2>1 DEF Known
<1>8. \A j \in Live!SegsOf(t) : Known(source.lo, t, t[j][2])
  BY <1>1, <1>3, <1>6
<1>9. MapIs(t, m)
  <2>1. \A i \in Live!MapsOf(s) : t[i] = s[i]
    BY <1>1
  <2> QED
    BY <1>1, <2>1 DEF MapIs
<1> QED
  BY <1>4, <1>5, <1>7, <1>8, <1>9 DEF t

(* An initialisation segment is added.                                     *)
LEMMA MapAdded ==
    ASSUME NEW s \in Seq(Unit), NEW h \in Nat, NEW m \in Nat, Ordered(s), Below(s, h), Known(source.lo, s, h),
           \A j \in Live!SegsOf(s) : Known(source.lo, s, s[j][2])
    PROVE  LET t == Append(s, <<"map", m>>) IN
           /\ Ordered(t) /\ Below(t, h) /\ Known(source.lo, t, h) /\ MapIs(t, m)
           /\ \A j \in Live!SegsOf(t) : Known(source.lo, t, t[j][2])
<1> DEFINE t == Append(s, <<"map", m>>)
<1> DEFINE n == Len(s) + 1
<1>1. /\ DOMAIN t = DOMAIN s \cup {n} /\ n \in Nat
      /\ \A i \in DOMAIN s : t[i] = s[i] /\ i < n /\ i \in Nat
      /\ t[n] = <<"map", m>>
      /\ \A i : i \in Live!SegsOf(t) <=> i \in Live!SegsOf(s)
      /\ \A i : i \in Live!MapsOf(t) <=> i \in Live!MapsOf(s) \/ i = n
      /\ Live!SegsOf(s) \subseteq DOMAIN s /\ Live!MapsOf(s) \subseteq DOMAIN s
  <2>1. <<"map", m>> \in Unit /\ <<"map", m>>[1] # "seg" /\ <<"map", m>>[1] = "map"
    BY DEF Unit
  <2> QED
    BY <2>1, UnitAdded
<1>2. t[n][2] = m
  BY <1>1
<1> HIDE DEF t, n
<1>3. Ordered(t) /\ Below(t, h) /\ Known(source.lo, t, h)
  BY <1>1 DEF Ordered, Below, Known
<1>4. \A j \in Live!SegsOf(t) : Known(source.lo, t, t[j][2])
  BY <1>1 DEF Known
<1>5. MapIs(t, m)
  <2>1. n \in Live!MapsOf(t)
    BY <1>1
  <2>2. \A j \in Live!MapsOf(t) : j <= n
    BY <1>1
  <2> QED
    BY <1>2, <2>1, <2>2 DEF MapIs
<1> QED
  BY <1>3, <1>4, <1>5 DEF t

(* What a write that broke has left.                                       *)
LEMMA TornAdded ==
    ASSUME NEW s \in Seq(Unit), NEW h \in Nat, NEW m, Ordered(s), Below(s, h), Known(source.lo, s, h), MapIs(s, m),
           \A j \in Live!SegsOf(s) : Known(source.lo, s, s[j][2])
    PROVE  LET t == Append(s, Live!Torn) IN
           /\ Ordered(t) /\ Below(t, h) /\ Known(source.lo, t, h) /\ MapIs(t, m)
           /\ \A j \in Live!SegsOf(t) : Known(source.lo, t, t[j][2])
<1> DEFINE t == Append(s, Live!Torn)
<1> DEFINE n == Len(s) + 1
<1>0. Live!Torn \in Unit /\ Live!Torn[1] # "seg" /\ Live!Torn[1] # "map"
  BY DEF Unit, Live!Torn
<1>1. /\ DOMAIN t = DOMAIN s \cup {n} /\ n \in Nat
      /\ \A i \in DOMAIN s : t[i] = s[i] /\ i < n /\ i \in Nat
      /\ \A i : i \in Live!SegsOf(t) <=> i \in Live!SegsOf(s)
      /\ Live!MapsOf(t) = Live!MapsOf(s)
      /\ Live!SegsOf(s) \subseteq DOMAIN s /\ Live!MapsOf(s) \subseteq DOMAIN s
      /\ t \in Seq(Unit) /\ Len(t) = n
  <2> DEFINE u == Live!Torn
  <2>2. u \in Unit /\ u[1] # "seg" /\ u[1] # "map"
    BY <1>0
  <2> HIDE DEF u
  <2>3. \A i : i \in Live!MapsOf(Append(s, u)) <=> i \in Live!MapsOf(s)
    BY <2>2, UnitAdded
  <2>4. Live!MapsOf(Append(s, u)) = Live!MapsOf(s)
    BY <2>3 DEF Live!MapsOf
  <2>5. n \in Nat
    OBVIOUS
  <2>6. \A i : i \in Live!SegsOf(Append(s, u)) <=> i \in Live!SegsOf(s)
    BY <2>2, UnitAdded
  <2>7. DOMAIN Append(s, u) = DOMAIN s \cup {n} /\ Append(s, u) \in Seq(Unit) /\ Len(Append(s, u)) = n
    BY <2>2, UnitAdded
  <2>8. \A i \in DOMAIN s : Append(s, u)[i] = s[i] /\ i < n /\ i \in Nat
    BY <2>2, UnitAdded
  <2>9. Live!SegsOf(s) \subseteq DOMAIN s /\ Live!MapsOf(s) \subseteq DOMAIN s
    BY DEF Live!SegsOf, Live!MapsOf
  <2> HIDE DEF n
  <2> QED
    BY <2>4, <2>5, <2>6, <2>7, <2>8, <2>9 DEF u
<1> HIDE DEF t, n
<1>3. Ordered(t) /\ Below(t, h) /\ Known(source.lo, t, h)
  BY <1>1 DEF Ordered, Below, Known
<1>4. \A j \in Live!SegsOf(t) : Known(source.lo, t, t[j][2])
  BY <1>1 DEF Known
<1>5. MapIs(t, m)
  <2>1. \A i \in Live!MapsOf(s) : t[i] = s[i]
    BY <1>1
  <2> QED
    BY <1>1, <2>1 DEF MapIs
<1> QED
  BY <1>1, <1>3, <1>4, <1>5 DEF t, n

(* What a control file counts is not touched by what is added to it.       *)
LEMMA CountsMore ==
    ASSUME NEW w \in Seq(Unit), NEW u \in Unit, NEW c, Counts(w, c), u[1] = "seg" => u[2] >= c.head
    PROVE  Counts(Append(w, u), c)
<1> DEFINE t == Append(w, u)
<1>1. /\ t[Len(w) + 1] = u /\ \A i \in DOMAIN w : t[i] = w[i]
      /\ \A i : i \in Live!SegsOf(t) <=> i \in Live!SegsOf(w) \/ (i = Len(w) + 1 /\ u[1] = "seg")
      /\ Live!SegsOf(w) \subseteq DOMAIN w /\ Len(t) = Len(w) + 1
  BY UnitAdded
<1>2. c.bytes \in 0..Len(w) /\ Beyond(w, c.bytes, c.head)
  BY DEF Counts
<1>3. \A b \in 0..Len(w) : SubSeq(t, 1, b) = SubSeq(w, 1, b)
  <2>1. t = w \o <<u>> /\ <<u>> \in Seq(Unit)
    OBVIOUS
  <2> HIDE DEF t
  <2> QED
    BY <2>1, MoreSeq
<1>4. Len(w) \in Nat
  OBVIOUS
<1> HIDE DEF t
<1>5. Beyond(t, c.bytes, c.head)
  <2>1. ASSUME NEW i \in Live!SegsOf(t), i > c.bytes PROVE t[i][2] >= c.head
    <3>1. CASE i \in Live!SegsOf(w)
      BY <1>1, <1>2, <2>1, <3>1 DEF Beyond
    <3>2. CASE i \notin Live!SegsOf(w)
      BY <1>1, <2>1, <3>2
    <3> QED
      BY <3>1, <3>2
  <2> QED
    BY <2>1 DEF Beyond
<1>6. SubSeq(t, 1, c.bytes) = SubSeq(w, 1, c.bytes) /\ c.bytes \in 0..Len(t)
  BY <1>1, <1>2, <1>3, <1>4
<1> QED
  BY <1>5, <1>6 DEF Counts, t

(* Nor by what is lost behind it.                                          *)
LEMMA CountsCut ==
    ASSUME NEW w \in Seq(Unit), NEW c, Counts(w, c), NEW n \in 0..Len(w), c.bytes <= n
    PROVE  Counts(SubSeq(w, 1, n), c)
<1> DEFINE t == SubSeq(w, 1, n)
<1>1. /\ t \in Seq(Unit) /\ Len(t) = n /\ \A k \in 1..n : t[k] = w[k]
      /\ \A i : i \in Live!SegsOf(t) <=> i \in Live!SegsOf(w) /\ i <= n
      /\ \A i \in Live!SegsOf(t) : t[i] = w[i]
  BY CutSeq, SegsCut
<1>2. c.bytes \in 0..Len(w) /\ c.bytes \in 0..n /\ n \in Nat /\ Beyond(w, c.bytes, c.head)
  BY DEF Counts
<1> HIDE DEF t
<1>3. SubSeq(t, 1, c.bytes) = SubSeq(w, 1, c.bytes)
  <2> DEFINE b == c.bytes
  <2>1. b \in 0..Len(w) /\ b \in 0..Len(t)
    BY <1>1, <1>2
  <2> HIDE DEF b
  <2>2. /\ SubSeq(t, 1, b) \in Seq(Unit) /\ Len(SubSeq(t, 1, b)) = b
        /\ \A k \in 1..b : SubSeq(t, 1, b)[k] = t[k]
    BY <1>1, <2>1, CutSeq
  <2>3. /\ SubSeq(w, 1, b) \in Seq(Unit) /\ Len(SubSeq(w, 1, b)) = b
        /\ \A k \in 1..b : SubSeq(w, 1, b)[k] = w[k]
    BY <2>1, CutSeq
  <2>4. \A k \in 1..b : t[k] = w[k]
    BY <1>1, <2>1
  <2> QED
    BY <2>2, <2>3, <2>4, SeqEqual DEF b
<1>4. Beyond(t, c.bytes, c.head)
  BY <1>1, <1>2 DEF Beyond
<1> QED
  BY <1>1, <1>2, <1>3, <1>4 DEF Counts, t

----------------------------------------------------------------------------
(* The queue of a recording (LiveState::apply).                            *)
LEMMA ItemsIn ==
    ASSUME NEW f \in Items
    PROVE  DOMAIN f \in SUBSET ItemKey /\ \A k \in DOMAIN f : f[k] \in Item
  BY DEF Items

(* Items of the queue, given one by one.                                   *)
LEMMA ItemsBy ==
    ASSUME NEW S \in SUBSET ItemKey, NEW f \in [S -> Item] PROVE f \in Items
  BY DEF Items

(* Some items of a queue are a queue.                                      *)
LEMMA OnlyOf == ASSUME NEW f \in Items, NEW S PROVE Live!Only(f, S) \in Items
<1>1. DOMAIN f \in SUBSET ItemKey /\ \A k \in DOMAIN f : f[k] \in Item
  BY ItemsIn
<1>2. Live!Only(f, S) \in [DOMAIN f \cap S -> Item]
  BY <1>1 DEF Live!Only
<1> QED
  BY <1>1, <1>2, ItemsBy

(* The fields of a recording.                                              *)
LEMMA Fields ==
    ASSUME NEW r \in RecType
    PROVE  /\ r.head \in Nat /\ r.tail \in Nat /\ r.end \in BOOLEAN /\ r.items \in Items
           /\ r.seen \in SUBSET Nat /\ r.written \in Nat \cup {NoCtrl} /\ r.sink \in Seq(Unit)
           /\ r.gone \in Nat /\ r.dirty \in BOOLEAN /\ r.old \in BOOLEAN
  BY DEF RecType

(* The window slides: the head moves over what it left.                    *)
LEMMA SlideOk ==
    ASSUME NEW r \in RecType, NEW lo \in Nat, NEW q, q = Live!Slide(r, lo)
    PROVE  /\ q \in RecType /\ q.head >= r.head /\ q.written = r.written /\ q.sink = r.sink /\ q.old = r.old
           /\ \A n \in r.head..(q.head - 1) : n < lo
<1>1. r.head \in Nat /\ r.items \in Items
  BY Fields
<1>2. CASE lo <= r.head
  BY <1>1, <1>2 DEF Live!Slide
<1>3. CASE ~(lo <= r.head)
  <2> DEFINE kept == DOMAIN r.items \ Live!Stale(r, lo)
  <2> DEFINE S == {lo} \cup {n \in r.head..lo : Live!SegKey(n) \in kept}
  <2> DEFINE head == Live!Min(S)
  <2> DEFINE f == Live!Only(r.items, kept \ {Live!MapKey(n) : n \in r.head..(head - 1)})
  <2>1. q = [r EXCEPT !.head = head, !.items = f]
    BY <1>3 DEF Live!Slide
  <2>2. S \subseteq Nat /\ S # {} /\ \A n \in S : r.head <= n /\ n <= lo
    BY <1>1, <1>3
  <2>3. head \in Nat /\ r.head <= head /\ head <= lo
    <3> HIDE DEF S
    <3>1. head \in S
      BY <2>2, LeastIn
    <3> HIDE DEF head
    <3> QED
      BY <2>2, <3>1
  <2>4. f \in Items
    BY <1>1, OnlyOf
  <2> HIDE DEF f, head
  <2>5. q \in RecType /\ q.head = head /\ q.written = r.written /\ q.sink = r.sink /\ q.old = r.old
    BY <2>1, <2>3, <2>4 DEF RecType
  <2>6. \A n \in r.head..(head - 1) : n < lo
    BY <1>1, <2>3
  <2> QED
    BY <1>1, <2>3, <2>5, <2>6
<1> QED
  BY <1>2, <1>3

(* New initialisation segments leave the head where it is.                 *)
LEMMA ConsiderOk ==
    ASSUME Live!LiveAssumption, NEW r \in RecType, NEW p, PlanOk(p), NEW q, q = Live!Consider(r, p)
    PROVE  q \in RecType /\ q.head = r.head /\ q.written = r.written /\ q.sink = r.sink /\ q.old = r.old
<1> DEFINE ahead == {n \in Live!Unseen(r, p) : n > p.lo /\ n > r.head}
<1> DEFINE due == Live!Unseen(r, p) \ ahead
<1> DEFINE maps == {Live!MapKey(n) : n \in ahead}
<1> DEFINE lead == IF due = {} \/ Live!Lead \in DOMAIN r.items THEN {} ELSE {Live!Lead}
<1> DEFINE f == [k \in DOMAIN r.items \cup maps \cup lead |->
                   IF k \in maps THEN Live!Queued(MapOf[k[2]])
                   ELSE IF k \in lead THEN Live!Queued(MapOf[Live!Min(due)])
                   ELSE r.items[k]]
<1> DEFINE se == r.seen \cup {MapOf[n] : n \in Live!Unseen(r, p)}
<1>1. q = [r EXCEPT !.seen = se, !.items = f]
  BY DEF Live!Consider
<1>2. r.items \in Items /\ r.seen \in SUBSET Nat /\ DOMAIN r.items \in SUBSET ItemKey
      /\ \A k \in DOMAIN r.items : r.items[k] \in Item
  BY Fields, ItemsIn
<1>3. p.lo \in Nat /\ p.hi \in Nat /\ 1 <= p.lo /\ p.hi <= Len(MapOf) /\ MapOf \in Seq(Nat)
  BY DEF PlanOk, Plan, Live!End, Live!LiveAssumption
<1>4. \A n \in Live!Unseen(r, p) : n \in Nat /\ MapOf[n] \in Nat
  <2>1. \A n \in p.lo..p.hi : n \in 1..Len(MapOf) /\ n \in Nat
    BY <1>3
  <2> QED
    BY <1>3, <2>1 DEF Live!Unseen
<1>5. \A m \in Nat : Live!Queued(m) \in Item
  BY DEF Live!Queued, Item
<1>6. se \in SUBSET Nat
  BY <1>2, <1>4
<1>7. maps \subseteq ItemKey /\ \A k \in maps : MapOf[k[2]] \in Nat
  <2>1. ASSUME NEW n \in ahead PROVE Live!MapKey(n) \in ItemKey /\ Live!MapKey(n)[2] = n
    BY <1>4 DEF Live!MapKey, ItemKey
  <2> QED
    BY <1>4, <2>1
<1>8. lead \subseteq ItemKey
  BY DEF Live!Lead, ItemKey
<1>9. ASSUME due # {} PROVE MapOf[Live!Min(due)] \in Nat
  <2>1. due \subseteq Nat /\ due \subseteq Live!Unseen(r, p)
    BY <1>4
  <2> HIDE DEF due
  <2>2. Live!Min(due) \in due
    BY <1>9, <2>1, LeastIn
  <2> QED
    BY <1>4, <2>1, <2>2
<1>10. lead # {} => due # {}
  OBVIOUS
<1> HIDE DEF maps, lead, due
<1>11. \A k \in DOMAIN r.items \cup maps \cup lead : f[k] \in Item
  BY <1>2, <1>5, <1>7, <1>9, <1>10
<1>12. f \in Items
  <2>1. f \in [DOMAIN r.items \cup maps \cup lead -> Item]
    BY <1>11
  <2>2. DOMAIN r.items \cup maps \cup lead \in SUBSET ItemKey
    BY <1>2, <1>7, <1>8
  <2> HIDE DEF f
  <2> QED
    BY <2>1, <2>2, ItemsBy
<1> HIDE DEF f, se
<1> QED
  BY <1>1, <1>6, <1>12 DEF RecType

(* New segments leave the head where it is.                                *)
LEMMA EnqueueOk ==
    ASSUME NEW r \in RecType, NEW p, PlanOk(p), NEW renewed, NEW q, q = Live!Enqueue(r, p, renewed)
    PROVE  q \in RecType /\ q.head = r.head /\ q.written = r.written /\ q.sink = r.sink /\ q.old = r.old
<1> DEFINE offered == {Live!SegKey(n) : n \in Live!Max({p.lo, r.head})..p.hi}
<1> DEFINE fresh == {k \in offered : k \notin DOMAIN r.items
                                      \/ (renewed /\ Live!Is(r, k, "failed"))}
<1> DEFINE f == [k \in DOMAIN r.items \cup fresh |-> IF k \in fresh THEN Live!Queued(0) ELSE r.items[k]]
<1> DEFINE ta == Live!Max({r.tail, p.hi})
<1> DEFINE en == r.end \/ p.over
<1>1. q = [r EXCEPT !.items = f, !.tail = ta, !.end = en]
  BY DEF Live!Enqueue
<1>2. r.items \in Items /\ r.head \in Nat /\ r.tail \in Nat /\ r.end \in BOOLEAN
      /\ DOMAIN r.items \in SUBSET ItemKey /\ \A k \in DOMAIN r.items : r.items[k] \in Item
  BY Fields, ItemsIn
<1>3. p.lo \in Nat /\ p.hi \in Nat /\ p.over \in BOOLEAN
  BY DEF PlanOk, Plan
<1>4. Live!Max({p.lo, r.head}) \in Nat /\ ta \in Nat
  BY <1>2, <1>3, LargerOf
<1>5. fresh \subseteq ItemKey
  <2>1. \A n \in Live!Max({p.lo, r.head})..p.hi : Live!SegKey(n) \in ItemKey
    BY <1>3, <1>4 DEF Live!SegKey, ItemKey
  <2> QED
    BY <2>1
<1>6. Live!Queued(0) \in Item
  BY DEF Live!Queued, Item
<1>7. f \in Items
  <2> HIDE DEF fresh
  <2>1. f \in [DOMAIN r.items \cup fresh -> Item]
    BY <1>2, <1>6
  <2>2. DOMAIN r.items \cup fresh \in SUBSET ItemKey
    BY <1>2, <1>5
  <2> HIDE DEF f
  <2> QED
    BY <2>1, <2>2, ItemsBy
<1>8. en \in BOOLEAN
  OBVIOUS
<1> HIDE DEF f, ta, en
<1> QED
  BY <1>1, <1>4, <1>7, <1>8 DEF RecType

(* A manifest moves the head up to where the window begins, at most.       *)
LEMMA ApplyOk ==
    ASSUME Live!LiveAssumption, NEW r \in RecType, NEW p, PlanOk(p), NEW renewed, NEW q,
           q = Live!Apply(r, p, renewed)
    PROVE  /\ q \in RecType /\ q.head >= r.head /\ q.written = r.written /\ q.sink = r.sink /\ q.old = r.old
           /\ \A n \in r.head..(q.head - 1) : n < p.lo
<1> DEFINE a == Live!Slide(r, p.lo)
<1> DEFINE b == Live!Consider(a, p)
<1>1. p.lo \in Nat
  BY DEF PlanOk, Plan
<1>2. /\ a \in RecType /\ a.head >= r.head /\ a.written = r.written /\ a.sink = r.sink /\ a.old = r.old
      /\ \A n \in r.head..(a.head - 1) : n < p.lo
  BY <1>1, SlideOk
<1>3. q = Live!Enqueue(b, p, renewed)
  BY DEF Live!Apply
<1> HIDE DEF a
<1>4. b \in RecType /\ b.head = a.head /\ b.written = a.written /\ b.sink = a.sink /\ b.old = a.old
  BY <1>2, ConsiderOk
<1> HIDE DEF b
<1>5. q \in RecType /\ q.head = b.head /\ q.written = b.written /\ q.sink = b.sink /\ q.old = b.old
  BY <1>3, <1>4, EnqueueOk
<1> QED
  BY <1>2, <1>4, <1>5

----------------------------------------------------------------------------
(* An invariant of LiveRecord.                                             *)
LEMMA SourceOk == ASSUME Live!LiveAssumption PROVE Live!End \in Nat /\ Live!End > 0
  BY DEF Live!LiveAssumption, Live!End

(* A recording that is not going on.                                       *)
LEMMA NoRecOk ==
    /\ Live!NoRec \in RecType /\ Live!NoRec.sink = <<>> /\ Live!NoRec.written = NoCtrl
    /\ Live!NoRec.head = 0 /\ Live!NoRec.old = FALSE
<1>1. Live!Nothing \in Items
  <2>1. Live!Nothing \in [{} -> Item]
    BY DEF Live!Nothing
  <2> QED
    BY <2>1, ItemsBy
<1>2. <<>> \in Seq(Unit)
  OBVIOUS
<1> QED
  BY <1>1, <1>2 DEF Live!NoRec, RecType

(* A recording that has not begun.                                         *)
LEMMA LiveStarts == ASSUME Live!LiveAssumption, Live!LiveInit PROVE LiveInv
<1> USE DEF Live!LiveInit
<1>1. PlanOk(source)
  BY SourceOk DEF PlanOk, Plan
<1>2. LiveTyped
  BY <1>1, NoRecOk DEF LiveTyped, Live!No
<1>3. Live!Written = <<>> /\ Live!SegsOf(Live!Written) = {}
  BY NoRecOk DEF Live!Written, Live!SegsOf
<1>4. WrittenInv
  BY <1>3, NoRecOk DEF WrittenInv, Ordered, Resting
<1>5. SavedInv
  BY DEF SavedInv
<1> QED
  BY <1>2, <1>4, <1>5 DEF LiveInv

(* The product with what is buffered begins with the product.              *)
LEMMA WrittenIs ==
    ASSUME LiveTyped
    PROVE  /\ Live!Written \in Seq(Unit) /\ Len(product) \in Nat
           /\ Len(Live!Written) >= Len(product)
           /\ \A b \in 0..Len(product) : SubSeq(Live!Written, 1, b) = SubSeq(product, 1, b)
           /\ SubSeq(Live!Written, 1, Len(product)) = product
           /\ rec.sink = <<>> => Live!Written = product
<1>1. product \in Seq(Unit) /\ rec.sink \in Seq(Unit) /\ Len(product) \in Nat /\ Len(rec.sink) \in Nat
  BY Fields DEF LiveTyped
<1>2. SubSeq(product, 1, Len(product)) = product
  BY <1>1
<1>3. rec.sink = <<>> => product \o rec.sink = product
  BY <1>1
<1>4. /\ product \o rec.sink \in Seq(Unit)
      /\ Len(product \o rec.sink) = Len(product) + Len(rec.sink)
      /\ \A b \in 0..Len(product) : SubSeq(product \o rec.sink, 1, b) = SubSeq(product, 1, b)
  BY <1>1, MoreSeq
<1>5. Len(product) \in 0..Len(product) /\ Len(product \o rec.sink) >= Len(product)
  BY <1>1, <1>4
<1> QED
  BY <1>1, <1>2, <1>3, <1>4, <1>5 DEF Live!Written

(* Of what is recorded only the window matters, and it goes on.            *)
LEMMA StreamGoesOn ==
    ASSUME LiveInv, PlanOk(source)', source'.lo >= source.lo,
           UNCHANGED <<reply, product, saved, rec, recStage>>
    PROVE  LiveInv'
<1>1. source.lo \in Nat /\ source'.lo \in Nat
  BY DEF LiveInv, LiveTyped, PlanOk, Plan
<1>2. \A s, h : Known(source.lo, s, h) => Known(source'.lo, s, h)
  <2>1. \A n \in Int : n < source.lo => n < source'.lo
    BY <1>1
  <2> QED
    BY <2>1 DEF Known
<1>3. LiveTyped'
  <2>1. \A n \in Nat : n <= source.lo => n <= source'.lo
    BY <1>1
  <2>2. reply.is = "plan" => PlanOk(reply.plan) /\ reply.plan.lo <= source'.lo
    BY <2>1 DEF LiveInv, LiveTyped, PlanOk, Plan
  <2> QED
    BY <2>2 DEF LiveInv, LiveTyped, PlanOk
<1>4. WrittenInv'
  BY <1>2 DEF LiveInv, WrittenInv, Resting, Live!Written
<1>5. SavedInv'
  BY <1>2 DEF LiveInv, SavedInv, Counts, Live!Written
<1> QED
  BY <1>3, <1>4, <1>5 DEF LiveInv

(* A step of the queue alone: the head may move over what was lost.        *)
LEMMA QueueMoves ==
    ASSUME LiveInv, recStage = "live", rec' \in RecType, rec'.head >= rec.head,
           rec'.written = rec.written, rec'.sink = rec.sink, rec'.old = rec.old,
           \A n \in rec.head..(rec'.head - 1) : n < source.lo,
           UNCHANGED <<source, product, saved, recStage>>,
           reply' = reply \/ reply'.is = "none"
    PROVE  LiveInv'
<1>1. rec.head \in Nat /\ rec'.head \in Nat
  BY Fields DEF LiveInv, LiveTyped
<1>2. Live!Written' = Live!Written
  BY DEF Live!Written
<1>3. LiveTyped'
  BY DEF LiveInv, LiveTyped, PlanOk
<1>4. Live!Written \in Seq(Unit)
  BY WrittenIs DEF LiveInv
<1>5. /\ Ordered(Live!Written) /\ Below(Live!Written, rec.head) /\ Known(source.lo, Live!Written, rec.head)
      /\ MapIs(Live!Written, rec.written)
      /\ \A j \in Live!SegsOf(Live!Written) : Known(source.lo, Live!Written, Live!Written[j][2])
  BY DEF LiveInv, WrittenInv
<1>6. WrittenInv'
  <2> DEFINE w == Live!Written
  <2>1. ASSUME NEW i \in Live!SegsOf(w) PROVE w[i][2] < rec'.head
    <3>1. w[i][2] \in Nat /\ w[i][2] < rec.head
      BY <1>4, <1>5, SegAt DEF Below
    <3> QED
      BY <1>1, <3>1
  <2>2. ASSUME NEW n \in 1..(rec'.head - 1), ~(n < source.lo) PROVE \E i \in Live!SegsOf(w) : w[i][2] = n
    <3>1. n \in 1..(rec.head - 1)
      <4>1. n \notin rec.head..(rec'.head - 1)
        BY <2>2
      <4> QED
        BY <1>1, <4>1
    <3> QED
      BY <1>5, <2>2, <3>1 DEF Known
  <2> HIDE DEF w
  <2>3. Below(w, rec'.head) /\ Known(source.lo, w, rec'.head)
    BY <2>1, <2>2 DEF Below, Known
  <2>4. /\ Ordered(w) /\ MapIs(w, rec'.written) /\ \A j \in Live!SegsOf(w) : Known(source.lo, w, w[j][2])
    BY <1>5 DEF w
  <2>5. w' = w /\ w' = Live!Written'
    BY <1>2 DEF w
  <2> QED
    BY <2>3, <2>4, <2>5 DEF WrittenInv, Ordered, MapIs, Known, Below, Live!SegsOf
<1>7. SavedInv'
  <2>1. SUFFICES ASSUME saved.bytes # NoCtrl, ~rec.old PROVE SavedInv'
    BY DEF SavedInv
  <2>2. Counts(Live!Written, saved) /\ saved.head <= rec.head /\ saved.head \in Nat
    BY <2>1 DEF LiveInv, LiveTyped, SavedInv
  <2>3. saved.head <= rec'.head
    BY <1>1, <2>2
  <2> QED
    BY <1>2, <2>2, <2>3 DEF SavedInv, Counts
<1> QED
  BY <1>3, <1>6, <1>7 DEF LiveInv

(* The buffer is handed over, or nothing changes.                          *)
LEMMA SinkMoves ==
    ASSUME LiveInv, UNCHANGED <<source, saved>>, Live!Written' = Live!Written,
           product' \in Seq(Unit), recStage' # "live" => product' = product /\ recStage # "live",
           rec' \in RecType, rec'.old = rec.old, recStage' # "live" => rec'.sink = <<>>,
           recStage' = "live" => recStage = "live" /\ rec'.head = rec.head /\ rec'.written = rec.written,
           reply' = reply \/ reply'.is = "none"
    PROVE  LiveInv'
<1>1. LiveTyped'
  BY DEF LiveInv, LiveTyped, PlanOk
<1>2. recStage' # "live" => ~rec.old
  BY DEF LiveInv, WrittenInv, Resting
<1>3. WrittenInv'
  BY <1>2 DEF LiveInv, WrittenInv, Resting, Ordered, Below, Known, MapIs, Live!SegsOf, Live!MapsOf
<1>4. SavedInv'
  <2>1. SUFFICES ASSUME saved.bytes # NoCtrl, ~rec.old,
                        recStage' = "live" \/ Len(product') >= saved.bytes
                 PROVE  SavedInv'
    BY DEF SavedInv
  <2>2. recStage = "live" \/ Len(product) >= saved.bytes
    BY <2>1
  <2>3. Counts(Live!Written, saved) /\ (recStage = "live" => saved.head <= rec.head)
    BY <2>1, <2>2 DEF LiveInv, SavedInv
  <2> QED
    BY <2>3 DEF SavedInv, Counts
<1> QED
  BY <1>1, <1>3, <1>4 DEF LiveInv

(* A control file just written counts everything.                          *)
LEMMA CountsAll ==
    ASSUME NEW w \in Seq(Unit), Below(w, rec.head), Known(source.lo, w, rec.head), MapIs(w, rec.written)
    PROVE  Counts(w, Live!CtrlOf(rec, w))
<1> DEFINE c == Live!CtrlOf(rec, w)
<1>1. c.bytes = Len(w) /\ c.head = rec.head /\ c.map = rec.written
  BY DEF Live!CtrlOf
<1>2. SubSeq(w, 1, Len(w)) = w /\ Len(w) \in Nat
  OBVIOUS
<1>3. Beyond(w, Len(w), rec.head)
  <2>1. \A i \in Live!SegsOf(w) : ~(i > Len(w))
    BY <1>2, SegAt
  <2> QED
    BY <2>1 DEF Beyond
<1> HIDE DEF c
<1>4. SubSeq(w, 1, c.bytes) = w /\ c.bytes \in 0..Len(w) /\ Beyond(w, c.bytes, c.head)
  BY <1>1, <1>2, <1>3
<1>5. Below(w, c.head) /\ Known(source.lo, w, c.head) /\ MapIs(w, c.map)
  BY <1>1
<1>6. Counts(w, c)
  BY <1>4, <1>5 DEF Counts
<1> QED
  BY <1>6 DEF c

(* All there is, buffered or not, is what the control file says.           *)
LEMMA SavedAll ==
    ASSUME LiveInv, recStage = "live", UNCHANGED source, Live!Written' = Live!Written,
           product' \in Seq(Unit), saved' = Live!CtrlOf(rec, Live!Written), rec' \in RecType,
           recStage' # "live" => rec'.sink = <<>> /\ ~rec'.old,
           recStage' = "live" => rec'.head = rec.head /\ rec'.written = rec.written,
           reply' = reply \/ reply'.is = "none"
    PROVE  LiveInv'
<1> DEFINE w == Live!Written
<1>1. /\ w \in Seq(Unit) /\ Len(w) \in Nat /\ rec.head \in Nat /\ rec.written \in Nat \cup {NoCtrl}
  BY WrittenIs, Fields DEF LiveInv, LiveTyped
<1>2. /\ Ordered(w) /\ Below(w, rec.head) /\ Known(source.lo, w, rec.head) /\ MapIs(w, rec.written)
      /\ \A j \in Live!SegsOf(w) : Known(source.lo, w, w[j][2])
  BY DEF LiveInv, WrittenInv
<1>3. saved'.bytes = Len(w) /\ saved'.head = rec.head /\ saved'.map = rec.written
  BY DEF Live!CtrlOf
<1>4. w' = w
  OBVIOUS
<1>5. LiveTyped'
  BY <1>1, <1>3 DEF LiveInv, LiveTyped, PlanOk
<1>6. saved' = Live!CtrlOf(rec, w)
  OBVIOUS
<1> HIDE DEF w
<1>7. WrittenInv'
  BY <1>2, <1>4 DEF w, WrittenInv, Resting, Ordered, Below, Known, MapIs, Live!SegsOf, Live!MapsOf
<1>8. SavedInv'
  <2>1. Counts(w, saved')
    BY <1>1, <1>2, <1>6, CountsAll
  <2>2. rec.head <= rec.head
    BY <1>1
  <2>3. Counts(w, saved)'
    BY <1>4, <2>1 DEF Counts
  <2> QED
    BY <1>3, <2>2, <2>3 DEF SavedInv, w
<1> QED
  BY <1>5, <1>7, <1>8 DEF LiveInv

(* The head moves over what the server took away.                          *)
LEMMA HeadMoves ==
    ASSUME NEW w \in Seq(Unit), NEW h \in Nat, NEW g \in Nat, h <= g, NEW lo,
           Below(w, h), Known(lo, w, h), \A n \in h..(g - 1) : n < lo
    PROVE  Below(w, g) /\ Known(lo, w, g)
<1>1. ASSUME NEW i \in Live!SegsOf(w) PROVE w[i][2] < g
  <2>1. w[i][2] \in Nat /\ w[i][2] < h
    BY SegAt DEF Below
  <2> QED
    BY <2>1
<1>2. ASSUME NEW n \in 1..(g - 1), ~(n < lo) PROVE \E i \in Live!SegsOf(w) : w[i][2] = n
  <2>1. n \in 1..(h - 1)
    BY <1>2
  <2> QED
    BY <1>2, <2>1 DEF Known
<1> QED
  BY <1>1, <1>2 DEF Below, Known

(* The recording starts over, or goes on where the control file says.      *)
LEMMA BeginKept == ASSUME Live!LiveAssumption, LiveInv, Live!Begin PROVE LiveInv'
<1> DEFINE ok == saved.bytes # NoCtrl /\ Len(product) >= saved.bytes
<1> DEFINE r == IF ok THEN [Live!NoRec EXCEPT !.head = saved.head, !.written = saved.map,
                              !.seen = {saved.map} \ {NoCtrl}]
                ELSE [Live!NoRec EXCEPT !.head = source.lo, !.old = saved.bytes # NoCtrl]
<1>1. /\ recStage = "idle" /\ rec' = Live!Apply(r, source, FALSE)
      /\ product' = IF ok THEN SubSeq(product, 1, saved.bytes) ELSE <<>>
      /\ recStage' = "live" /\ UNCHANGED <<source, reply, saved>>
  BY DEF Live!Begin
<1>2. PlanOk(source) /\ source.lo \in Nat /\ product \in Seq(Unit) /\ Len(product) \in Nat
  BY DEF LiveInv, LiveTyped, PlanOk, Plan
<1>3. rec.sink = <<>> /\ ~rec.old /\ Live!Written = product
  BY <1>1, WrittenIs DEF LiveInv, WrittenInv, Resting
<1>4. Ordered(product) /\ \A j \in Live!SegsOf(product) : Known(source.lo, product, product[j][2])
  BY <1>3 DEF LiveInv, WrittenInv
<1>5. saved.bytes # NoCtrl =>
        saved.bytes \in Nat /\ saved.head \in Nat /\ saved.map \in Nat \cup {NoCtrl}
  BY DEF LiveInv, LiveTyped
<1>6. CASE ok
  <2> DEFINE p == SubSeq(product, 1, saved.bytes)
  <2>1. saved.bytes # NoCtrl /\ saved.bytes \in 0..Len(product)
    BY <1>2, <1>5, <1>6
  <2>2. /\ r = [Live!NoRec EXCEPT !.head = saved.head, !.written = saved.map, !.seen = {saved.map} \ {NoCtrl}]
        /\ product' = p
    BY <1>1, <1>6
  <2>3. {saved.map} \ {NoCtrl} \in SUBSET Nat
    BY <1>5, <2>1
  <2>4. r \in RecType /\ r.head = saved.head /\ r.written = saved.map /\ r.sink = <<>> /\ r.old = FALSE
    BY <1>5, <2>1, <2>2, <2>3, NoRecOk DEF RecType
  <2> HIDE DEF r, ok
  <2>5. /\ rec' \in RecType /\ rec'.head >= saved.head /\ rec'.written = saved.map /\ rec'.sink = <<>> /\ rec'.old = FALSE
        /\ \A n \in saved.head..(rec'.head - 1) : n < source.lo
    <3> DEFINE no == FALSE
    <3>1. rec' = Live!Apply(r, source, no)
      BY <1>1
    <3> HIDE DEF no
    <3> DEFINE q == rec'
    <3>2. q = Live!Apply(r, source, no)
      BY <3>1
    <3> HIDE DEF q
    <3>3. /\ q \in RecType /\ q.head >= r.head /\ q.written = r.written /\ q.sink = r.sink
          /\ q.old = r.old /\ \A n \in r.head..(q.head - 1) : n < source.lo
      BY <1>2, <2>4, <3>2, ApplyOk
    <3> QED
      BY <2>4, <3>3 DEF q
  <2>6. /\ p \in Seq(Unit) /\ Len(p) = saved.bytes /\ saved.bytes \in Nat
        /\ SubSeq(p, 1, saved.bytes) = p
    <3>1. p \in Seq(Unit) /\ Len(p) = saved.bytes
      BY <1>2, <1>5, <2>1, CutSeq
    <3> HIDE DEF p
    <3> QED
      BY <1>5, <2>1, <3>1
  <2>7. Ordered(p) /\ \A j \in Live!SegsOf(p) : Known(source.lo, p, p[j][2])
    BY <1>2, <1>4, <1>5, <2>1, OrderCut
  <2>8. Below(p, saved.head) /\ Known(source.lo, p, saved.head) /\ MapIs(p, saved.map)
    BY <1>1, <1>3, <1>6, <2>1 DEF LiveInv, SavedInv, Counts
  <2> HIDE DEF p
  <2>9. rec'.head \in Nat
    BY <2>5, Fields
  <2>10. Below(p, rec'.head) /\ Known(source.lo, p, rec'.head)
    BY <1>5, <2>1, <2>5, <2>6, <2>8, <2>9, HeadMoves
  <2>11. Live!Written' = p
    <3>1. p \o <<>> = p
      BY <2>6
    <3> QED
      BY <2>2, <2>5, <3>1 DEF Live!Written
  <2>12. LiveTyped'
    <3> QED
      BY <1>1, <1>5, <2>1, <2>2, <2>5, <2>6 DEF LiveInv, LiveTyped, PlanOk
  <2>13. WrittenInv'
    BY <1>1, <2>5, <2>7, <2>8, <2>10, <2>11 DEF WrittenInv, Resting
  <2>14. SavedInv'
    <3>1. Beyond(p, saved.bytes, saved.head)
      <4>1. \A i \in Live!SegsOf(p) : ~(i > saved.bytes)
        BY <2>6, SegAt
      <4> QED
        BY <4>1 DEF Beyond
    <3>2. Counts(p, saved)
      <4> DEFINE c == saved
      <4>1. SubSeq(p, 1, c.bytes) = p /\ c.bytes \in 0..Len(p) /\ Beyond(p, c.bytes, c.head)
        BY <2>6, <3>1
      <4>2. Below(p, c.head) /\ Known(source.lo, p, c.head) /\ MapIs(p, c.map)
        BY <2>8
      <4> HIDE DEF c
      <4>3. Counts(p, c)
        BY <4>1, <4>2 DEF Counts
      <4> QED
        BY <4>3 DEF c
    <3>3. saved.head <= rec'.head
      BY <1>5, <2>1, <2>5, <2>9
    <3> QED
      BY <1>1, <2>11, <3>2, <3>3 DEF SavedInv, Counts
  <2> QED
    BY <2>12, <2>13, <2>14 DEF LiveInv
<1>7. CASE ~ok
  <2> DEFINE old == saved.bytes # NoCtrl
  <2>1. old \in BOOLEAN
    OBVIOUS
  <2>2. r = [Live!NoRec EXCEPT !.head = source.lo, !.old = old] /\ product' = <<>>
    BY <1>1, <1>7
  <2> HIDE DEF old
  <2>3. /\ r \in RecType /\ r.head = source.lo /\ r.written = NoCtrl /\ r.sink = <<>>
        /\ r.old = old
    BY <1>2, <2>1, <2>2, NoRecOk DEF RecType
  <2> HIDE DEF r, ok
  <2>4. /\ rec' \in RecType /\ rec'.head >= source.lo /\ rec'.written = NoCtrl /\ rec'.sink = <<>> /\ rec'.old = old
        /\ \A n \in source.lo..(rec'.head - 1) : n < source.lo
    <3> DEFINE no == FALSE
    <3>1. rec' = Live!Apply(r, source, no)
      BY <1>1
    <3> HIDE DEF no
    <3> DEFINE q == rec'
    <3>2. q = Live!Apply(r, source, no)
      BY <3>1
    <3> HIDE DEF q
    <3>3. /\ q \in RecType /\ q.head >= r.head /\ q.written = r.written /\ q.sink = r.sink
          /\ q.old = r.old /\ \A n \in r.head..(q.head - 1) : n < source.lo
      BY <1>2, <2>3, <3>2, ApplyOk
    <3> QED
      BY <2>3, <3>3 DEF q
  <2>5. /\ Live!Written' = <<>> /\ Live!SegsOf(<<>>) = {} /\ <<>> \in Seq(Unit)
        /\ Live!MapsOf(<<>>) = {}
    BY <2>2, <2>4 DEF Live!Written, Live!SegsOf, Live!MapsOf
  <2>6. LiveTyped'
    BY <1>1, <2>2, <2>4, <2>5 DEF LiveInv, LiveTyped, PlanOk
  <2>7. WrittenInv'
    <3>1. Ordered(<<>>) /\ Below(<<>>, source.lo) /\ MapIs(<<>>, NoCtrl)
      BY <2>5 DEF Ordered, Below, MapIs
    <3>2. Known(source.lo, <<>>, source.lo)
      BY <1>2 DEF Known
    <3>3. rec'.head \in Nat
      BY <2>4, Fields
    <3>4. Below(<<>>, rec'.head) /\ Known(source.lo, <<>>, rec'.head)
      BY <1>2, <2>4, <2>5, <3>1, <3>2, <3>3, HeadMoves
    <3> QED
      BY <1>1, <2>4, <2>5, <3>1, <3>4 DEF WrittenInv, Resting
  <2>8. SavedInv'
    BY <1>1, <2>4 DEF SavedInv, old
  <2> QED
    BY <2>6, <2>7, <2>8 DEF LiveInv
<1> QED
  BY <1>6, <1>7

(* What is there when a write has failed in splicing.                      *)
LEMMA BrokenIs ==
    ASSUME LiveInv, recStage = "live", NEW v, v \in {Live!Written, Append(Live!Written, Live!Torn)}
    PROVE  /\ v \in Seq(Unit) /\ Len(v) \in Nat
           /\ Ordered(v) /\ Below(v, rec.head) /\ Known(source.lo, v, rec.head) /\ MapIs(v, rec.written)
           /\ \A j \in Live!SegsOf(v) : Known(source.lo, v, v[j][2])
           /\ \A c : Counts(Live!Written, c) => Counts(v, c)
<1> DEFINE w == Live!Written
<1>1. w \in Seq(Unit) /\ rec.head \in Nat
  BY WrittenIs, Fields DEF LiveInv, LiveTyped
<1>2. /\ Ordered(w) /\ Below(w, rec.head) /\ Known(source.lo, w, rec.head) /\ MapIs(w, rec.written)
      /\ \A j \in Live!SegsOf(w) : Known(source.lo, w, w[j][2])
  BY DEF LiveInv, WrittenInv
<1>3. v = w \/ v = Append(w, Live!Torn)
  OBVIOUS
<1>4. Live!Torn \in Unit /\ Live!Torn[1] # "seg"
  BY DEF Unit, Live!Torn
<1>5. v \in Seq(Unit) /\ Len(v) \in Nat
  BY <1>1, <1>3, <1>4
<1>6. \A c : Counts(w, c) => Counts(v, c)
  <2> HIDE DEF w
  <2> QED
    BY <1>1, <1>3, <1>4, CountsMore
<1>7. CASE v = Append(w, Live!Torn)
  <2>1. /\ Ordered(v) /\ Below(v, rec.head) /\ Known(source.lo, v, rec.head) /\ MapIs(v, rec.written)
        /\ \A j \in Live!SegsOf(v) : Known(source.lo, v, v[j][2])
    <3> HIDE DEF w
    <3> QED
      BY <1>1, <1>2, <1>7, TornAdded
  <2> QED
    BY <1>5, <1>6, <2>1
<1> QED
  BY <1>2, <1>3, <1>5, <1>6, <1>7

(* A recording is killed, or a write of it fails: a part of what was       *)
(* buffered has reached the product.                                       *)
LEMMA CutShort ==
    ASSUME LiveInv, recStage = "live", NEW v, v \in {Live!Written, Append(Live!Written, Live!Torn)},
           NEW n \in 0..Len(v), product' = SubSeq(v, 1, n), rec' = Live!NoRec, recStage' # "live",
           reply'.is = "none", UNCHANGED source,
           (UNCHANGED saved /\ ~rec.old) \/ saved' = Live!CtrlOf(rec, v)
    PROVE  LiveInv'
<1>1. /\ v \in Seq(Unit) /\ Len(v) \in Nat
      /\ Ordered(v) /\ Below(v, rec.head) /\ Known(source.lo, v, rec.head) /\ MapIs(v, rec.written)
      /\ \A j \in Live!SegsOf(v) : Known(source.lo, v, v[j][2])
      /\ \A c : Counts(Live!Written, c) => Counts(v, c)
  BY BrokenIs
<1> DEFINE p == SubSeq(v, 1, n)
<1>2. p \in Seq(Unit) /\ Len(p) = n /\ n \in Nat /\ product' = p
  BY <1>1, CutSeq
<1>3. Live!Written' = p
  <2> HIDE DEF p
  <2>1. p \o <<>> = p
    BY <1>2
  <2> QED
    BY <1>2, <2>1, NoRecOk DEF Live!Written
<1>4. Ordered(p) /\ \A j \in Live!SegsOf(p) : Known(source.lo, p, p[j][2])
  BY <1>1, OrderCut
<1>5. LiveTyped'
  <2>1. \/ saved' = saved
        \/ saved'.bytes \in Nat /\ saved'.head \in Nat /\ saved'.map \in Nat \cup {NoCtrl}
    BY <1>1, Fields DEF Live!CtrlOf, LiveInv, LiveTyped
  <2> HIDE DEF p
  <2> QED
    BY <1>2, <2>1, NoRecOk DEF LiveInv, LiveTyped, PlanOk
<1>6. WrittenInv'
  BY <1>3, <1>4, NoRecOk DEF WrittenInv, Resting
<1>7. SavedInv'
  <2>1. SUFFICES ASSUME saved'.bytes # NoCtrl, n >= saved'.bytes PROVE Counts(p, saved')
    <3>1. Len(product') = n
      BY <1>2
    <3> HIDE DEF p
    <3>2. Counts(p, saved') => Counts(Live!Written, saved)'
      BY <1>3 DEF Counts
    <3> QED
      BY <3>1, <3>2 DEF SavedInv
  <2>2. Counts(v, saved')
    <3>1. CASE UNCHANGED saved /\ ~rec.old
      <4>1. Counts(Live!Written, saved)
        BY <2>1, <3>1 DEF LiveInv, SavedInv
      <4> QED
        BY <1>1, <3>1, <4>1
    <3>2. CASE saved' = Live!CtrlOf(rec, v)
      BY <1>1, <3>2, CountsAll
    <3> QED
      BY <3>1, <3>2
  <2>3. saved'.bytes <= n
    BY <1>2, <2>1, <2>2 DEF Counts
  <2> DEFINE c == saved'
  <2>4. Counts(v, c) /\ c.bytes <= n
    BY <2>2, <2>3
  <2> HIDE DEF c
  <2>5. Counts(SubSeq(v, 1, n), c)
    BY <1>1, <2>4, CountsCut
  <2> QED
    BY <2>5 DEF c
<1> QED
  BY <1>5, <1>6, <1>7 DEF LiveInv

(* What was only buffered is lost.                                         *)
LEMMA KillKept == ASSUME LiveInv, ~muddled', Live!Kill PROVE LiveInv'
<1>1. /\ recStage = "live" /\ ~rec.old /\ rec' = Live!NoRec /\ reply'.is = "none"
      /\ recStage' = "idle" /\ UNCHANGED <<source, product, saved>>
  BY DEF Live!Kill, Live!No
<1>2. /\ Len(product) \in 0..Len(Live!Written)
      /\ product' = SubSeq(Live!Written, 1, Len(product))
  BY <1>1, WrittenIs DEF LiveInv
<1> QED
  BY <1>1, <1>2, CutShort

(* What a part of the buffer makes of the product.                         *)
LEMMA PartOut ==
    ASSUME NEW p \in Seq(Unit), NEW q \in Seq(Unit), NEW n \in 0..Len(q)
    PROVE  /\ p \o SubSeq(q, 1, n) = SubSeq(p \o q, 1, Len(p) + n)
           /\ Len(p) + n \in 0..Len(p \o q)
<1>1. /\ SubSeq(q, 1, n) \in Seq(Unit) /\ Len(SubSeq(q, 1, n)) = n
      /\ \A k \in 1..n : SubSeq(q, 1, n)[k] = q[k]
  BY CutSeq
<1> DEFINE r == SubSeq(q, 1, n)
<1> DEFINE a == p \o r
<1> DEFINE b == p \o q
<1>2. /\ a \in Seq(Unit) /\ Len(a) = Len(p) + n
      /\ \A k \in 1..Len(p) : a[k] = p[k]
      /\ \A k \in 1..n : a[Len(p) + k] = q[k]
  <2>1. r \in Seq(Unit) /\ Len(r) = n /\ \A k \in 1..n : r[k] = q[k]
    BY <1>1
  <2> HIDE DEF r
  <2> QED
    BY <2>1, MoreSeq
<1>3. /\ b \in Seq(Unit) /\ Len(b) = Len(p) + Len(q)
      /\ \A k \in 1..Len(p) : b[k] = p[k]
      /\ \A k \in 1..Len(q) : b[Len(p) + k] = q[k]
  BY MoreSeq
<1>4. Len(p) \in Nat /\ Len(q) \in Nat /\ n \in Nat /\ n <= Len(q)
  OBVIOUS
<1> HIDE DEF a, b
<1> DEFINE m == Len(p) + n
<1>5. m \in 0..Len(b)
  BY <1>3, <1>4
<1>6. /\ SubSeq(b, 1, m) \in Seq(Unit) /\ Len(SubSeq(b, 1, m)) = m
      /\ \A k \in 1..m : SubSeq(b, 1, m)[k] = b[k]
  BY <1>3, <1>5, CutSeq
<1>7. \A k \in 1..m : a[k] = b[k]
  <2> SUFFICES ASSUME NEW k \in 1..m PROVE a[k] = b[k]
    OBVIOUS
  <2>1. CASE k <= Len(p)
    BY <1>2, <1>3, <1>4, <2>1
  <2>2. CASE ~(k <= Len(p))
    <3> DEFINE l == k - Len(p)
    <3>1. l \in 1..n /\ l \in 1..Len(q) /\ k = Len(p) + l
      BY <1>4, <2>2
    <3> HIDE DEF l
    <3> QED
      BY <1>2, <1>3, <3>1
  <2> QED
    BY <2>1, <2>2
<1>8. a = SubSeq(b, 1, m)
  BY <1>2, <1>6, <1>7, SeqEqual
<1> QED
  BY <1>5, <1>8 DEF a, b

(* A write fails, and that is the end of this attempt.                     *)
LEMMA DiskKept == ASSUME LiveInv, ~muddled', Live!DiskFails PROVE LiveInv'
<1>1. /\ recStage = "live" /\ rec' = Live!NoRec /\ reply'.is = "none" /\ recStage' # "live"
      /\ UNCHANGED source
  BY DEF Live!DiskFails, Live!No
<1>2. PICK sink \in {rec.sink} \cup {Append(rec.sink, Live!Torn) : k \in {Live!Next2(rec)} \cap Live!Done} :
        \E wrote \in BOOLEAN :
          /\ \E n \in 0..Len(sink) : product' = product \o SubSeq(sink, 1, n)
          /\ saved' = IF wrote THEN Live!CtrlOf(rec, product \o sink) ELSE saved
          /\ muddled' = (muddled \/ (rec.old /\ ~wrote))
  BY DEF Live!DiskFails
<1>3. sink = rec.sink \/ sink = Append(rec.sink, Live!Torn)
  BY <1>2
<1>4. PICK n \in 0..Len(sink) : product' = product \o SubSeq(sink, 1, n)
  BY <1>2
<1>5. (UNCHANGED saved /\ ~rec.old) \/ saved' = Live!CtrlOf(rec, product \o sink)
  BY <1>2
<1> DEFINE v == product \o sink
<1>6. /\ product \in Seq(Unit) /\ rec.sink \in Seq(Unit) /\ Live!Torn \in Unit
      /\ Len(product) \in Nat
  BY Fields DEF LiveInv, LiveTyped, Unit, Live!Torn
<1>7. sink \in Seq(Unit) /\ v \in {Live!Written, Append(Live!Written, Live!Torn)}
  <2>1. /\ product \o Append(rec.sink, Live!Torn) = Append(product \o rec.sink, Live!Torn)
        /\ Append(rec.sink, Live!Torn) \in Seq(Unit)
    BY <1>6
  <2>2. CASE sink = rec.sink
    BY <1>6, <2>2 DEF Live!Written
  <2>3. CASE sink = Append(rec.sink, Live!Torn)
    BY <2>1, <2>3 DEF Live!Written
  <2> QED
    BY <1>3, <2>2, <2>3
<1>8. product' = SubSeq(v, 1, Len(product) + n) /\ Len(product) + n \in 0..Len(v)
  BY <1>4, <1>6, <1>7, PartOut
<1> QED
  BY <1>1, <1>5, <1>7, <1>8, CutShort

(* A step of an item: nothing else of the recording moves.                 *)
LEMMA ItemKept ==
    ASSUME LiveInv, NEW k \in Live!Key,
           Live!Dispatch(k) \/ Live!Filled(k) \/ Live!Fetched(k) \/ Live!Missed(k)
    PROVE  LiveInv'
<1>1. rec \in RecType /\ rec.items \in Items /\ rec.head \in Nat
      /\ DOMAIN rec.items \in SUBSET ItemKey /\ \A x \in DOMAIN rec.items : rec.items[x] \in Item
  BY Fields, ItemsIn DEF LiveInv, LiveTyped
<1>2. recStage = "live" /\ UNCHANGED <<source, reply, product, saved, recStage>>
  BY DEF Live!Dispatch, Live!Filled, Live!Fetched, Live!Missed
<1>3. ASSUME NEW it \in Item, k \in DOMAIN rec.items, NEW f, f = [rec.items EXCEPT ![k] = it],
             rec' = [rec EXCEPT !.items = f]
      PROVE  LiveInv'
  <2>1. f \in Items
    <3>1. f \in [DOMAIN rec.items -> Item]
      <4>1. rec.items \in [DOMAIN rec.items -> Item]
        BY <1>1 DEF Items
      <4> QED
        BY <1>3, <4>1
    <3> QED
      BY <1>1, <3>1, ItemsBy
  <2>2. rec' \in RecType /\ rec'.head = rec.head /\ rec'.written = rec.written /\ rec'.sink = rec.sink
      /\ rec'.old = rec.old
    BY <1>1, <1>3, <2>1 DEF RecType
  <2>3. \A n \in rec.head..(rec'.head - 1) : n < source.lo
    BY <1>1, <2>2
  <2>4. rec'.head >= rec.head
    BY <1>1, <2>2
  <2> QED
    BY <1>2, <2>2, <2>3, <2>4, QueueMoves
<1>4. CASE Live!Filled(k)
  <2>1. rec' = rec /\ rec'.head >= rec.head /\ \A n \in rec.head..(rec'.head - 1) : n < source.lo
    BY <1>1, <1>4 DEF Live!Filled
  <2> QED
    BY <1>1, <1>2, <2>1, QueueMoves
<1>5. CASE Live!Dispatch(k)
  <2> DEFINE had == k[1] = 2 /\ k \in DOMAIN files
  <2> DEFINE bad == had /\ files[k] = "full"
  <2> DEFINE it == [rec.items[k] EXCEPT !.st = "fly", !.bad = bad]
  <2>1. k \in DOMAIN rec.items
    BY <1>5 DEF Live!Dispatch, Live!Is
  <2>2. rec' = [rec EXCEPT !.items = [rec.items EXCEPT ![k] = it]]
    BY <1>1, <1>5, <2>1 DEF Live!Dispatch, RecType, Item
  <2>3. it \in Item
    <3>1. bad \in BOOLEAN
      OBVIOUS
    <3> HIDE DEF bad
    <3> QED
      BY <1>1, <2>1, <3>1 DEF Item
  <2> HIDE DEF it
  <2> QED
    BY <1>3, <2>1, <2>2, <2>3
<1>6. CASE Live!Fetched(k)
  <2> DEFINE it == [rec.items[k] EXCEPT !.st = "done", !.tries = 0]
  <2>1. k \in DOMAIN rec.items
    BY <1>6 DEF Live!Fetched, Live!Is
  <2>2. rec' = [rec EXCEPT !.items = [rec.items EXCEPT ![k] = it]]
    BY <1>1, <1>6, <2>1 DEF Live!Fetched, RecType, Item
  <2>3. it \in Item
    BY <1>1, <2>1 DEF Item
  <2> HIDE DEF it
  <2> QED
    BY <1>3, <2>1, <2>2, <2>3
<1>7. CASE Live!Missed(k)
  <2> DEFINE n == rec.items[k].tries + 1
  <2> DEFINE it == [rec.items[k] EXCEPT !.tries = n, !.st = IF n >= MaxTries THEN "failed" ELSE "queued"]
  <2>1. k \in DOMAIN rec.items
    BY <1>7 DEF Live!Missed, Live!Is
  <2>2. rec' = [rec EXCEPT !.items = [rec.items EXCEPT ![k] = it]]
    BY <1>1, <1>7, <2>1 DEF Live!Missed, RecType, Item
  <2>3. it \in Item
    <3>1. n \in Nat
      <4>1. rec.items[k].tries \in Nat
        BY <1>1, <2>1 DEF Item
      <4> QED
        BY <4>1
    <3> HIDE DEF n
    <3> QED
      BY <1>1, <2>1, <3>1 DEF Item
  <2> HIDE DEF it
  <2> QED
    BY <1>3, <2>1, <2>2, <2>3
<1> QED
  BY <1>4, <1>5, <1>6, <1>7

(* The stream grows, its window slides, it ends.                           *)
LEMMA SourceKept == ASSUME LiveInv, Live!Stream PROVE LiveInv'
<1>1. PlanOk(source) /\ source \in Plan /\ source.lo \in Nat /\ source.hi \in Nat
      /\ 1 <= source.lo /\ source.lo <= source.hi
  BY DEF LiveInv, LiveTyped, PlanOk, Plan
<1>2. CASE Live!Produce
  <2>1. PICK lo \in source.lo..(source.hi + 1) : source' = [source EXCEPT !.hi = @ + 1, !.lo = lo]
    BY <1>2 DEF Live!Produce
  <2>2. source.hi < Live!End /\ Live!End \in Int
    BY <1>2 DEF Live!Produce, Live!End
  <2>3. PlanOk(source')
    <3>1. source' = [lo |-> lo, hi |-> source.hi + 1, over |-> source.over] /\ source.over \in BOOLEAN
      BY <1>1, <2>1 DEF Plan
    <3>2. source' \in Plan
      BY <1>1, <3>1 DEF Plan
    <3> QED
      BY <1>1, <2>2, <3>1, <3>2 DEF PlanOk
  <2>4. source'.lo >= source.lo
    BY <1>1, <2>1 DEF Plan
  <2> QED
    BY <1>2, <2>3, <2>4, StreamGoesOn DEF Live!Produce, PlanOk
<1>3. CASE Live!EndList
  <2>1. source' = [source EXCEPT !.over = TRUE]
    BY <1>3 DEF Live!EndList
  <2>2. PlanOk(source') /\ source'.lo >= source.lo
    <3>1. source' = [lo |-> source.lo, hi |-> source.hi, over |-> TRUE]
      BY <1>1, <2>1 DEF Plan
    <3>2. source' \in Plan
      BY <1>1, <3>1 DEF Plan
    <3> QED
      BY <1>1, <3>1, <3>2 DEF PlanOk
  <2> QED
    BY <1>3, <2>2, StreamGoesOn DEF Live!EndList, PlanOk
<1> QED
  BY <1>2, <1>3 DEF Live!Stream

(* A manifest is asked for and applied.                                    *)
LEMMA ManifestKept == ASSUME Live!LiveAssumption, LiveInv, Live!Manifest PROVE LiveInv'
<1>1. /\ rec \in RecType /\ rec.head \in Nat /\ rec.gone \in Nat /\ rec.end \in BOOLEAN
      /\ PlanOk(source) /\ source.lo \in Nat
  BY Fields DEF LiveInv, LiveTyped, PlanOk, Plan
<1>2. CASE Live!Fetch
  <2>1. UNCHANGED <<source, product, saved, rec, recStage>>
    BY <1>2 DEF Live!Fetch
  <2>2. reply'.is = "plan" => PlanOk(reply'.plan) /\ reply'.plan.lo <= source.lo
    <3>1. source.lo <= source.lo
      BY <1>1
    <3>2. reply' = [is |-> "plan", plan |-> source] \/ reply' = [is |-> "gone"]
      BY <1>2 DEF Live!Fetch, Live!No
    <3> QED
      BY <1>1, <3>1, <3>2
  <2>3. LiveTyped'
    BY <2>1, <2>2, <1>2 DEF LiveInv, LiveTyped, PlanOk, Live!Fetch, Live!No
  <2>4. Live!Written' = Live!Written
    BY <2>1 DEF Live!Written
  <2>5. WrittenInv'
    BY <2>1, <2>4 DEF LiveInv, WrittenInv, Resting, Ordered, Below, Known, MapIs, Live!SegsOf, Live!MapsOf
  <2>6. SavedInv'
    BY <2>1, <2>4 DEF LiveInv, SavedInv, Counts
  <2> QED
    BY <2>3, <2>5, <2>6 DEF LiveInv
<1>3. CASE \E renewed \in BOOLEAN : Live!Reload(renewed)
  <2>0. PICK renewed \in BOOLEAN : Live!Reload(renewed)
    BY <1>3
  <2>1. recStage = "live" /\ reply'.is = "none" /\ UNCHANGED <<source, product, saved, recStage>>
    BY <2>0 DEF Live!Reload, Live!No
  <2>2. CASE reply.is = "gone"
    <3> DEFINE en == rec.end \/ rec.gone + 1 >= GoneLimit
    <3> DEFINE g == rec.gone + 1
    <3>1. rec' = [rec EXCEPT !.gone = g, !.end = en]
      BY <1>1, <2>0, <2>2 DEF Live!Reload, RecType
    <3>2. en \in BOOLEAN /\ g \in Nat
      BY <1>1
    <3> HIDE DEF en, g
    <3>3. /\ rec' \in RecType /\ rec'.head = rec.head /\ rec'.written = rec.written
          /\ rec'.sink = rec.sink /\ rec'.old = rec.old
      BY <1>1, <3>1, <3>2 DEF RecType
    <3>4. rec'.head >= rec.head /\ \A n \in rec.head..(rec'.head - 1) : n < source.lo
      BY <1>1, <3>3
    <3> QED
      BY <2>1, <3>3, <3>4, QueueMoves
  <2>3. CASE reply.is # "gone"
    <3> DEFINE r == [rec EXCEPT !.gone = 0]
    <3>1. rec' = Live!Apply(r, reply.plan, renewed)
      BY <2>0, <2>3 DEF Live!Reload
    <3>2. r \in RecType /\ r.head = rec.head /\ r.written = rec.written /\ r.sink = rec.sink
          /\ r.old = rec.old
      BY <1>1 DEF RecType
    <3>3. PlanOk(reply.plan) /\ reply.plan.lo <= source.lo
      BY <2>0, <2>3 DEF Live!Reload, LiveInv, LiveTyped
    <3> HIDE DEF r
    <3>4. /\ rec' \in RecType /\ rec'.head >= rec.head /\ rec'.written = rec.written
          /\ rec'.sink = rec.sink /\ rec'.old = rec.old
          /\ \A n \in rec.head..(rec'.head - 1) : n < reply.plan.lo
      BY <3>1, <3>2, <3>3, ApplyOk
    <3>5. rec'.head \in Nat /\ reply.plan.lo \in Nat
      BY <3>3, <3>4, Fields DEF PlanOk, Plan
    <3>6. \A n \in rec.head..(rec'.head - 1) : n < source.lo
      BY <1>1, <3>3, <3>4, <3>5
    <3> QED
      BY <2>1, <3>4, <3>6, QueueMoves
  <2> QED
    BY <2>2, <2>3
<1> QED
  BY <1>2, <1>3 DEF Live!Manifest

(* A unit is appended to the product: the segment at the head moves it.    *)
LEMMA SpliceKept == ASSUME LiveInv, Live!SpliceOne PROVE LiveInv'
<1> DEFINE k == Live!Next2(rec)
<1> DEFINE w == Live!Written
<1>1. /\ recStage = "live" /\ recStage' = "live" /\ rec' = Live!Spliced(rec, k) /\ k \in DOMAIN rec.items
      /\ UNCHANGED <<source, reply, product, saved>>
  BY DEF Live!SpliceOne, Live!Is
<1>2. /\ rec \in RecType /\ rec.head \in Nat /\ rec.items \in Items /\ rec.sink \in Seq(Unit)
      /\ rec.written \in Nat \cup {NoCtrl} /\ product \in Seq(Unit)
  BY Fields DEF LiveInv, LiveTyped
<1>3. k = Live!SegKey(rec.head) \/ k[1] # 2
  BY DEF Live!Next2, Live!Lead, Live!MapKey
<1>4. rec.items[k].map \in Nat
  <2> HIDE DEF k
  <2> QED
    BY <1>1, <1>2, ItemsIn DEF Item
<1>5. w \in Seq(Unit) /\ Len(w) \in Nat /\ Len(w) >= Len(product) /\ Len(product) \in Nat
      /\ \A b \in 0..Len(product) : SubSeq(w, 1, b) = SubSeq(product, 1, b)
  BY WrittenIs DEF LiveInv
<1>6. /\ Ordered(w) /\ Below(w, rec.head) /\ Known(source.lo, w, rec.head) /\ MapIs(w, rec.written)
      /\ \A j \in Live!SegsOf(w) : Known(source.lo, w, w[j][2])
  BY <1>1 DEF LiveInv, WrittenInv
<1>7. /\ rec' = [rec EXCEPT !.items = Live!Only(rec.items, DOMAIN rec.items \ {k}), !.dirty = TRUE,
                            !.head = IF k[1] = 2 THEN rec.head + 1 ELSE rec.head,
                            !.written = IF k[1] = 2 THEN rec.written ELSE rec.items[k].map,
                            !.sink = Append(rec.sink, IF k[1] = 2 THEN <<"seg", k[2]>>
                                                      ELSE <<"map", rec.items[k].map>>)]
  BY <1>1, <1>2 DEF Live!Spliced, RecType
<1>8. Live!Only(rec.items, DOMAIN rec.items \ {k}) \in Items
  BY <1>2, OnlyOf
<1>9. ASSUME NEW u \in Unit, NEW h \in Nat, NEW m \in Nat \cup {NoCtrl}, h >= rec.head,
             rec'.sink = Append(rec.sink, u), rec'.head = h, rec'.written = m, rec' \in RecType,
             rec'.old = rec.old,
             u[1] = "seg" => u[2] = rec.head,
             Ordered(Append(w, u)), Below(Append(w, u), h), Known(source.lo, Append(w, u), h),
             MapIs(Append(w, u), m),
             \A j \in Live!SegsOf(Append(w, u)) : Known(source.lo, Append(w, u), Append(w, u)[j][2])
      PROVE  LiveInv'
  <2>1. Live!Written' = Append(w, u)
    <3>1. product \o Append(rec.sink, u) = Append(product \o rec.sink, u)
      BY <1>2
    <3> QED
      BY <1>1, <1>9, <3>1 DEF Live!Written
  <2>2. LiveTyped'
    BY <1>1, <1>9 DEF LiveInv, LiveTyped, PlanOk
  <2>3. WrittenInv'
    BY <1>1, <1>9, <2>1 DEF WrittenInv, Resting
  <2>4. SavedInv'
    <3>1. SUFFICES ASSUME saved.bytes # NoCtrl, ~rec.old PROVE SavedInv'
      BY <1>1, <1>9 DEF SavedInv
    <3>2. Counts(w, saved) /\ saved.head \in Nat /\ saved.head <= rec.head
      BY <1>1, <3>1 DEF LiveInv, LiveTyped, SavedInv
    <3> HIDE DEF w
    <3>3. u[1] = "seg" => u[2] >= saved.head
      BY <1>2, <1>9, <3>2
    <3>4. Counts(Append(w, u), saved)
      BY <1>5, <1>9, <3>2, <3>3, CountsMore
    <3>5. saved.head <= h
      BY <1>2, <1>9, <3>2
    <3>6. Counts(Live!Written, saved)'
      BY <1>1, <2>1, <3>4 DEF Counts
    <3> QED
      BY <1>1, <1>9, <3>5, <3>6 DEF SavedInv
  <2> QED
    BY <2>2, <2>3, <2>4 DEF LiveInv
<1>10. CASE k[1] = 2
  <2> DEFINE u == <<"seg", rec.head>>
  <2>1. k[2] = rec.head
    BY <1>3, <1>10 DEF Live!SegKey
  <2>2. u \in Unit /\ u[1] = "seg" /\ u[2] = rec.head
    BY <1>2 DEF Unit
  <2>3. Append(rec.sink, u) \in Seq(Unit)
    BY <1>2, <2>2
  <2> DEFINE t == Append(rec.sink, u)
  <2> DEFINE f == Live!Only(rec.items, DOMAIN rec.items \ {k})
  <2>4. rec' = [rec EXCEPT !.items = f, !.dirty = TRUE, !.head = rec.head + 1, !.written = rec.written,
                           !.sink = t]
    BY <1>7, <1>10, <2>1
  <2>5. f \in Items /\ t \in Seq(Unit)
    BY <1>8, <2>3
  <2>6. /\ Ordered(Append(w, u)) /\ Below(Append(w, u), rec.head + 1)
        /\ Known(source.lo, Append(w, u), rec.head + 1) /\ MapIs(Append(w, u), rec.written)
        /\ \A j \in Live!SegsOf(Append(w, u)) : Known(source.lo, Append(w, u), Append(w, u)[j][2])
    <3> HIDE DEF w
    <3> QED
      BY <1>2, <1>5, <1>6, SegAdded
  <2> HIDE DEF t, f, k
  <2>8. rec.head + 1 \in Nat /\ rec.head + 1 >= rec.head
    BY <1>2
  <2>7. rec' \in RecType /\ rec'.head = rec.head + 1 /\ rec'.written = rec.written /\ rec'.sink = t
        /\ rec'.old = rec.old
    <3> DEFINE h == rec.head + 1
    <3>1. h \in Nat /\ rec' = [rec EXCEPT !.items = f, !.dirty = TRUE, !.head = h, !.written = rec.written,
                           !.sink = t]
      BY <2>4, <2>8
    <3> HIDE DEF h
    <3>2. rec' \in RecType /\ rec'.head = h /\ rec'.written = rec.written /\ rec'.sink = t
          /\ rec'.old = rec.old
      BY <1>2, <2>5, <3>1 DEF RecType
    <3> QED
      BY <3>2 DEF h
  <2> HIDE DEF u, w
  <2> QED
    BY <1>2, <1>9, <2>2, <2>6, <2>7, <2>8 DEF t
<1>11. CASE k[1] # 2
  <2> DEFINE m == rec.items[k].map
  <2> DEFINE u == <<"map", m>>
  <2>1. m \in Nat
    BY <1>4
  <2> DEFINE f == Live!Only(rec.items, DOMAIN rec.items \ {k})
  <2> DEFINE t == Append(rec.sink, u)
  <2>2. rec' = [rec EXCEPT !.items = f, !.dirty = TRUE, !.head = rec.head, !.written = m, !.sink = t]
    BY <1>7, <1>11
  <2> HIDE DEF m
  <2>3. u \in Unit /\ u[1] # "seg"
    BY <2>1 DEF Unit
  <2>4. f \in Items /\ t \in Seq(Unit)
    BY <1>2, <1>8, <2>3
  <2>5. /\ Ordered(Append(w, u)) /\ Below(Append(w, u), rec.head)
        /\ Known(source.lo, Append(w, u), rec.head) /\ MapIs(Append(w, u), m)
        /\ \A j \in Live!SegsOf(Append(w, u)) : Known(source.lo, Append(w, u), Append(w, u)[j][2])
    <3> HIDE DEF w
    <3> QED
      BY <1>2, <1>5, <1>6, <2>1, MapAdded
  <2> HIDE DEF t, f, k
  <2>6. rec' \in RecType /\ rec'.head = rec.head /\ rec'.written = m /\ rec'.sink = t
        /\ rec'.old = rec.old
    BY <1>2, <2>1, <2>2, <2>4 DEF RecType
  <2>7. rec.head >= rec.head /\ m \in Nat \cup {NoCtrl}
    BY <1>2, <2>1
  <2> HIDE DEF u, w
  <2> QED
    BY <1>2, <1>9, <2>3, <2>5, <2>6, <2>7 DEF t
<1> QED
  BY <1>10, <1>11

(* What has left the buffer and what stays are what there was.             *)
LEMMA TwoParts ==
    ASSUME NEW p \in Seq(Unit), NEW q \in Seq(Unit), NEW n \in 0..Len(q)
    PROVE  /\ SubSeq(q, 1, n) \in Seq(Unit) /\ SubSeq(q, n + 1, Len(q)) \in Seq(Unit)
           /\ p \o SubSeq(q, 1, n) \in Seq(Unit)
           /\ (p \o SubSeq(q, 1, n)) \o SubSeq(q, n + 1, Len(q)) = p \o q
<1> DEFINE a == SubSeq(q, 1, n)
<1> DEFINE b == SubSeq(q, n + 1, Len(q))
<1>1. a \in Seq(Unit) /\ Len(a) = n /\ \A k \in 1..n : a[k] = q[k]
  BY CutSeq
<1>2. /\ b \in Seq(Unit) /\ Len(b) = Len(q) - n
      /\ \A k \in 1..(Len(q) - n) : b[k] = q[n + k]
  OBVIOUS
<1>3. Len(q) \in Nat /\ n \in Nat /\ n <= Len(q)
  OBVIOUS
<1> HIDE DEF a, b
<1>9. a \in Seq(Unit) /\ b \in Seq(Unit)
  BY <1>1, <1>2
<1>4. /\ a \o b \in Seq(Unit) /\ Len(a \o b) = Len(a) + Len(b)
      /\ \A k \in 1..Len(a) : (a \o b)[k] = a[k]
      /\ \A k \in 1..Len(b) : (a \o b)[Len(a) + k] = b[k]
  BY <1>9, MoreSeq
<1>5. \A k \in 1..Len(q) : (a \o b)[k] = q[k]
  <2> SUFFICES ASSUME NEW k \in 1..Len(q) PROVE (a \o b)[k] = q[k]
    OBVIOUS
  <2>1. CASE k <= n
    BY <1>1, <1>3, <1>4, <2>1
  <2>2. CASE ~(k <= n)
    <3> DEFINE l == k - n
    <3>1. l \in 1..(Len(q) - n) /\ l \in 1..Len(b) /\ k = Len(a) + l /\ k = n + l
      BY <1>1, <1>2, <1>3, <2>2
    <3> HIDE DEF l
    <3> QED
      BY <1>2, <1>4, <3>1
  <2> QED
    BY <2>1, <2>2
<1>6. Len(a \o b) = Len(q)
  BY <1>1, <1>2, <1>3, <1>4
<1>7. a \o b = q
  BY <1>4, <1>5, <1>6, SeqEqual
<1>8. (p \o a) \o b = p \o (a \o b) /\ p \o a \in Seq(Unit)
  BY <1>1, <1>2
<1> QED
  BY <1>1, <1>2, <1>7, <1>8 DEF a, b

(* The buffer is handed over, with the control file or without it; or a    *)
(* part of it only.                                                        *)
LEMMA WriteKept == ASSUME LiveInv, Live!Spill \/ Live!Save \/ Live!SaveFails PROVE LiveInv'
<1>1. /\ rec \in RecType /\ <<>> \in Seq(Unit) /\ Live!Written \in Seq(Unit)
      /\ product \in Seq(Unit) /\ rec.sink \in Seq(Unit) /\ rec.old \in BOOLEAN
  BY WrittenIs, Fields DEF LiveInv, LiveTyped, RecType
<1>2. Live!Written \o <<>> = Live!Written
  BY <1>1
<1>3. CASE Live!Spill
  <2>1. /\ recStage = "live" /\ recStage' = "live" /\ product' = Live!Written
        /\ rec' = [rec EXCEPT !.sink = <<>>] /\ UNCHANGED <<source, reply, saved>>
    BY <1>3 DEF Live!Spill, Live!Written
  <2>2. /\ rec' \in RecType /\ rec'.sink = <<>> /\ rec'.head = rec.head /\ rec'.written = rec.written
        /\ rec'.old = rec.old
    BY <1>1, <2>1 DEF RecType
  <2>3. Live!Written' = Live!Written /\ product' \in Seq(Unit)
    BY <1>1, <1>2, <2>1, <2>2 DEF Live!Written
  <2> QED
    BY <2>1, <2>2, <2>3, SinkMoves
<1>4. CASE Live!Save
  <2>1. /\ recStage = "live" /\ recStage' = "live" /\ product' = Live!Written
        /\ saved' = Live!CtrlOf(rec, Live!Written)
        /\ rec' = [rec EXCEPT !.sink = <<>>, !.dirty = FALSE, !.old = FALSE] /\ UNCHANGED <<source, reply>>
    BY <1>4 DEF Live!Save, Live!Written
  <2>2. rec' \in RecType /\ rec'.sink = <<>> /\ rec'.head = rec.head /\ rec'.written = rec.written
    BY <1>1, <2>1 DEF RecType
  <2>3. Live!Written' = Live!Written /\ product' \in Seq(Unit)
    BY <1>1, <1>2, <2>1, <2>2 DEF Live!Written
  <2> QED
    BY <2>1, <2>2, <2>3, SavedAll
<1>5. CASE Live!SaveFails
  <2>1. PICK n \in 0..Len(rec.sink), wrote \in BOOLEAN :
           /\ product' = product \o SubSeq(rec.sink, 1, n)
           /\ rec' = [rec EXCEPT !.sink = SubSeq(rec.sink, n + 1, Len(rec.sink)), !.dirty = FALSE,
                                 !.old = rec.old /\ ~wrote]
           /\ saved' = IF wrote THEN Live!CtrlOf(rec, product \o rec.sink) ELSE saved
    BY <1>1, <1>5 DEF Live!SaveFails, RecType
  <2>2. recStage = "live" /\ recStage' = "live" /\ UNCHANGED <<source, reply>>
    BY <1>5 DEF Live!SaveFails
  <2> DEFINE rest == SubSeq(rec.sink, n + 1, Len(rec.sink))
  <2> DEFINE o == rec.old /\ ~wrote
  <2>3. /\ product' \in Seq(Unit) /\ rest \in Seq(Unit)
        /\ product' \o rest = product \o rec.sink
    BY <1>1, <2>1, TwoParts
  <2>4. o \in BOOLEAN /\ (~wrote => o = rec.old)
    BY <1>1
  <2>5. rec' = [rec EXCEPT !.sink = rest, !.dirty = FALSE, !.old = o]
    BY <2>1
  <2> HIDE DEF rest, o
  <2>6. /\ rec' \in RecType /\ rec'.sink = rest /\ rec'.head = rec.head /\ rec'.written = rec.written
        /\ rec'.old = o
    BY <1>1, <2>3, <2>4, <2>5 DEF RecType
  <2>7. Live!Written' = Live!Written
    BY <2>3, <2>6 DEF Live!Written
  <2>8. CASE wrote
    <3>1. saved' = Live!CtrlOf(rec, Live!Written)
      BY <2>1, <2>8 DEF Live!Written
    <3> QED
      BY <2>2, <2>3, <2>6, <2>7, <3>1, SavedAll
  <2>9. CASE ~wrote
    <3>1. saved' = saved /\ rec'.old = rec.old
      BY <2>1, <2>4, <2>6, <2>9
    <3> QED
      BY <2>2, <2>3, <2>6, <2>7, <3>1, SinkMoves
  <2> QED
    BY <2>8, <2>9
<1> QED
  BY <1>3, <1>4, <1>5

(* The recording gives up or is paused with everything saved; it ends      *)
(* without a control file; it is let go on.                                *)
LEMMA StopKept ==
    ASSUME LiveInv, Live!Finish \/ Live!GiveUp \/ Live!Pause \/ Live!Resume PROVE LiveInv'
<1>1. /\ rec \in RecType /\ <<>> \in Seq(Unit) /\ Live!Written \in Seq(Unit)
  BY WrittenIs DEF LiveInv, LiveTyped
<1>2. Live!Written \o <<>> = Live!Written
  BY <1>1
<1>3. CASE Live!GiveUp \/ Live!Pause
  <2>1. /\ recStage = "live" /\ recStage' # "live" /\ product' = Live!Written
        /\ saved' = Live!CtrlOf(rec, Live!Written) /\ rec' = Live!NoRec /\ reply'.is = "none"
        /\ UNCHANGED source
    <3>1. CASE Live!GiveUp
      BY <3>1 DEF Live!GiveUp, Live!Suspend, Live!Written, Live!No
    <3>2. CASE Live!Pause
      BY <3>2 DEF Live!Pause, Live!Suspend, Live!Written, Live!No
    <3> QED
      BY <1>3, <3>1, <3>2
  <2>2. Live!Written' = Live!Written
    BY <1>2, <2>1, NoRecOk DEF Live!Written
  <2> QED
    BY <1>1, <2>1, <2>2, NoRecOk, SavedAll
<1>4. CASE Live!Finish
  <2>1. /\ recStage' = "done" /\ product' = Live!Written /\ saved'.bytes = NoCtrl
        /\ rec' = [rec EXCEPT !.sink = <<>>, !.old = FALSE] /\ UNCHANGED <<source, reply>>
    BY <1>4 DEF Live!Finish, Live!Written
  <2>2. rec' \in RecType /\ rec'.sink = <<>> /\ rec'.old = FALSE
    BY <1>1, <2>1 DEF RecType
  <2>3. Live!Written' = Live!Written
    BY <1>2, <2>1, <2>2 DEF Live!Written
  <2>4. LiveTyped'
    BY <1>1, <2>1, <2>2 DEF LiveInv, LiveTyped, PlanOk
  <2>5. WrittenInv'
    BY <2>1, <2>2, <2>3 DEF LiveInv, WrittenInv, Resting, Ordered, Known, Live!SegsOf
  <2> QED
    BY <2>1, <2>4, <2>5 DEF LiveInv, SavedInv
<1>5. CASE Live!Resume
  <2>1. recStage' = "idle" /\ recStage # "live" /\ UNCHANGED <<source, reply, product, saved, rec>>
    BY <1>5 DEF Live!Resume
  <2>2. Live!Written' = Live!Written /\ rec.sink = <<>> /\ product \in Seq(Unit)
    BY <2>1 DEF Live!Written, LiveInv, LiveTyped, WrittenInv, Resting
  <2> QED
    BY <1>1, <2>1, <2>2, SinkMoves
<1> QED
  BY <1>3, <1>4, <1>5

(* Every step keeps the invariant.                                         *)
LEMMA LiveKept ==
    ASSUME Live!LiveAssumption, LiveInv, ~muddled', [Live!LiveNext]_(Live!liveVars) PROVE LiveInv'
<1>1. CASE Live!LiveStep
  <2>1. CASE \E k \in Live!Key : Live!Dispatch(k) \/ Live!Filled(k) \/ Live!Fetched(k) \/ Live!Missed(k)
    <3>1. PICK k \in Live!Key : Live!Dispatch(k) \/ Live!Filled(k) \/ Live!Fetched(k) \/ Live!Missed(k)
      BY <2>1
    <3> QED
      BY <3>1, ItemKept
  <2> QED
    BY <1>1, <2>1, BeginKept, SpliceKept, StopKept DEF Live!LiveStep
<1>2. CASE UNCHANGED Live!liveVars
  <2>1. /\ UNCHANGED <<source, reply, product, saved, rec, recStage>> /\ Live!Written' = Live!Written
    BY <1>2 DEF Live!liveVars, Live!Written
  <2>2. rec \in RecType /\ product \in Seq(Unit) /\ (recStage # "live" => rec.sink = <<>>)
    BY DEF LiveInv, LiveTyped, WrittenInv, Resting
  <2> QED
    BY <2>1, <2>2, SinkMoves
<1> QED
  BY <1>1, <1>2, SourceKept, ManifestKept, WriteKept, StopKept, KillKept, DiskKept DEF Live!LiveNext

----------------------------------------------------------------------------
(* What the invariant says of a recording.                                 *)
LEMMA LastMap ==
    ASSUME NEW s \in Seq(Unit), NEW m, MapIs(s, m)
    PROVE  m = IF Live!MapsOf(s) = {} THEN NoCtrl ELSE s[Live!Max(Live!MapsOf(s))][2]
<1> DEFINE M == Live!MapsOf(s)
<1>1. M \subseteq Nat
  BY DEF Live!MapsOf
<1>2. ASSUME M # {} PROVE m = s[Live!Max(M)][2]
  <2>1. PICK i \in M : s[i][2] = m /\ \A j \in M : j <= i
    BY <1>2 DEF MapIs
  <2> HIDE DEF M
  <2>2. \E x \in M : \A y \in M : x >= y
    BY <1>1, <2>1
  <2>3. Live!Max(M) \in M /\ \A y \in M : Live!Max(M) >= y
    BY <2>2 DEF Live!Max
  <2> DEFINE x == Live!Max(M)
  <2>4. x = i
    <3>1. x \in Nat /\ i \in Nat /\ x >= i /\ x <= i
      BY <1>1, <2>1, <2>3
    <3> HIDE DEF x
    <3> QED
      BY <3>1
  <2> QED
    BY <2>1, <2>4
<1>3. ASSUME M = {} PROVE m = NoCtrl
  BY <1>3 DEF MapIs
<1> QED
  BY <1>2, <1>3

(* What the invariant says of the product and of the control file.         *)
LEMMA LiveSafe ==
    ASSUME ~muddled => LiveInv
    PROVE  Live!RecordedInOrder /\ Live!OnlyLostSkipped /\ Live!SavedExact
<1>1. SUFFICES ASSUME ~muddled PROVE Live!RecordedInOrder /\ Live!OnlyLostSkipped /\ Live!SavedExact
  BY DEF Live!RecordedInOrder, Live!OnlyLostSkipped, Live!SavedExact
<1>2. LiveInv
  BY <1>1
<1> DEFINE w == Live!Written
<1>3. w \in Seq(Unit) /\ Len(w) \in Nat
  BY <1>2, WrittenIs DEF LiveInv
<1>4. Live!RecordedInOrder
  BY <1>2 DEF Live!RecordedInOrder, LiveInv, WrittenInv, Ordered
<1>5. Live!OnlyLostSkipped
  <2>1. \A j \in Live!SegsOf(w) : Known(source.lo, w, w[j][2])
    BY <1>2 DEF LiveInv, WrittenInv
  <2>2. SUFFICES ASSUME NEW j \in Live!SegsOf(w), NEW n \in 1..w[j][2], ~(n < source.lo)
                 PROVE  \E l \in Live!SegsOf(w) : w[l][2] = n
    BY DEF Live!OnlyLostSkipped
  <2> HIDE DEF w
  <2>3. w[j][2] \in Nat
    BY <1>3, SegAt
  <2>4. CASE n = w[j][2]
    BY <2>4
  <2>5. CASE n # w[j][2]
    <3>1. n \in 1..(w[j][2] - 1)
      BY <2>3, <2>5
    <3> QED
      BY <2>1, <2>2, <3>1 DEF Known
  <2> QED
    BY <2>4, <2>5
<1>6. Live!SavedExact
  <2>1. SUFFICES ASSUME saved.bytes # NoCtrl, ~rec.old, recStage = "live" \/ Len(product) >= saved.bytes
                 PROVE  Live!SavedExact
    BY DEF Live!SavedExact
  <2> DEFINE b == saved.bytes
  <2> DEFINE p == SubSeq(w, 1, b)
  <2>2. b \in 0..Len(w) /\ Below(p, saved.head) /\ MapIs(p, saved.map) /\ Beyond(w, b, saved.head)
    BY <1>2, <2>1 DEF LiveInv, SavedInv, Counts
  <2> HIDE DEF w
  <2>3. p \in Seq(Unit) /\ Len(w) >= b
    BY <1>3, <2>2, CutSeq
  <2>4. saved.map = IF Live!MapsOf(p) = {} THEN NoCtrl ELSE p[Live!Max(Live!MapsOf(p))][2]
    <3> HIDE DEF p
    <3> QED
      BY <2>2, <2>3, LastMap
  <2>5. ASSUME NEW i \in Live!SegsOf(w) \ Live!SegsOf(p) PROVE w[i][2] >= saved.head
    <3>1. i \in Live!SegsOf(p) <=> i \in Live!SegsOf(w) /\ i <= b
      BY <1>3, <2>2, SegsCut
    <3>2. i \in Nat
      BY <1>3, <2>5, SegAt
    <3>3. i > b
      <4> HIDE DEF p
      <4> QED
        BY <2>2, <2>5, <3>1, <3>2
    <3> HIDE DEF p
    <3> QED
      BY <2>2, <2>5, <3>3 DEF Beyond
  <2> QED
    BY <2>2, <2>3, <2>4, <2>5 DEF Live!SavedExact, Below, w
<1> QED
  BY <1>4, <1>5, <1>6

(* The history of a control file that was another recording's stays.       *)
LEMMA MuddledStays == [Live!LiveNext]_(Live!liveVars) /\ muddled => muddled'
<1> SUFFICES ASSUME [Live!LiveNext]_(Live!liveVars), muddled PROVE muddled'
  OBVIOUS
<1>1. CASE Live!Kill
  BY <1>1, Zenon DEF Live!Kill
<1>2. CASE Live!DiskFails
  <2>1. PICK wrote \in BOOLEAN : muddled' = (muddled \/ (rec.old /\ ~wrote))
    BY <1>2, Zenon DEF Live!DiskFails
  <2> QED
    BY <2>1, Zenon
<1>3. ASSUME muddled' = muddled PROVE muddled'
  BY <1>3, Zenon
<1>4. CASE Live!LiveStep
  <2>1. CASE \E k \in Live!Key : Live!Dispatch(k) \/ Live!Filled(k) \/ Live!Fetched(k) \/ Live!Missed(k)
    BY <1>3, <2>1, Zenon DEF Live!Dispatch, Live!Filled, Live!Fetched, Live!Missed
  <2>2. CASE Live!Begin
    BY <1>3, <2>2, Zenon DEF Live!Begin
  <2>3. CASE Live!SpliceOne
    BY <1>3, <2>3, Zenon DEF Live!SpliceOne
  <2>4. CASE Live!Finish
    BY <1>3, <2>4, Zenon DEF Live!Finish
  <2>5. CASE Live!GiveUp
    BY <1>3, <2>5, Zenon DEF Live!GiveUp, Live!Suspend
  <2> QED
    BY <1>4, <2>1, <2>2, <2>3, <2>4, <2>5, Zenon DEF Live!LiveStep
<1>5. CASE Live!Stream
  BY <1>3, <1>5, Zenon DEF Live!Stream, Live!Produce, Live!EndList
<1>6. CASE Live!Manifest
  BY <1>3, <1>6, Zenon DEF Live!Manifest, Live!Fetch, Live!Reload
<1>7. CASE Live!Spill \/ Live!Save \/ Live!SaveFails \/ Live!Pause \/ Live!Resume
  BY <1>3, <1>7, Zenon DEF Live!Spill, Live!Save, Live!SaveFails, Live!Pause, Live!Suspend, Live!Resume
<1>8. CASE UNCHANGED Live!liveVars
  BY <1>3, <1>8 DEF Live!liveVars
<1> QED
  BY <1>1, <1>2, <1>4, <1>5, <1>6, <1>7, <1>8, Zenon DEF Live!LiveNext

(* In every behaviour a live recording has its segments in order and once; *)
(* what it skipped had left the window of the server; and a control file   *)
(* it goes on from says what the product holds, writes that fail included  *)
(* (record_playlist, LiveState::apply, splice_one, save_ctrl).             *)
THEOREM RecordingTrue ==
    ASSUME Live!LiveAssumption
    PROVE  Live!LiveSpec => [](Live!RecordedInOrder /\ Live!OnlyLostSkipped /\ Live!SavedExact)
<1>1. Live!LiveInit => (~muddled => LiveInv)
  BY LiveStarts
<1>2. (~muddled => LiveInv) /\ [Live!LiveNext]_(Live!liveVars) => (~muddled => LiveInv)'
  <2> SUFFICES ASSUME ~muddled => LiveInv, [Live!LiveNext]_(Live!liveVars), ~muddled' PROVE LiveInv'
    OBVIOUS
  <2>1. ~muddled
    BY MuddledStays, Zenon
  <2>2. LiveInv
    BY <2>1
  <2> QED
    BY <2>2, LiveKept
<1>3. (~muddled => LiveInv) => Live!RecordedInOrder /\ Live!OnlyLostSkipped /\ Live!SavedExact
  BY LiveSafe
<1> QED
  BY <1>1, <1>2, <1>3, PTL DEF Live!LiveSpec
=============================================================================
