---------------------------- MODULE PieceStore ----------------------------
(***************************************************************************)
(* The storage of a BT task: PieceStore with its write-back cache          *)
(* (xfer-storage), the resume control file (xfer-bt/resume.rs) and what    *)
(* TorrentEngine does with both when it starts, accepts pieces, is paused, *)
(* finishes, and when the process or the machine dies.                     *)
(*                                                                         *)
(* A cell <<p, f>> is the part of piece p that lies in file f.  Data is    *)
(* verified before it is written, so a cell of `disk` holds the right      *)
(* bytes.  A region of the store's mutex is a step, except that every      *)
(* piece it writes out is a step of its own (Locked keeps others out), so  *)
(* that a crash can fall in between.                                       *)
(***************************************************************************)
EXTENDS Integers, FiniteSets, Sequences

CONSTANTS
    N,          \* number of pieces
    File,
    Segs,       \* piece_segments: the files a piece has bytes in
    PieceLen,   \* piece_len, in units of the cache limit
    Limit,      \* disk-cache, 0 for none
    Slack,      \* cells the 85 % rule of restore_resume lets go missing
    Sparse,     \* no fallocate: a preallocated file occupies no blocks
    Peer,       \* peer sessions that complete pieces
    Slot,       \* bound: throttled saves in the blocking pool at once
    Op          \* which events happen

Piece == 0 .. N - 1
NoPiece == N            \* no piece has this number
NoFile == {NoPiece}     \* no control file, no save: not a set of pieces
Ops == {"pause", "crash", "ioerr", "select", "trunc", "power"}

ASSUME ConstantsAssumption ==
    /\ N \in Nat \ {0} /\ IsFiniteSet(File)
    /\ Segs \in [Piece -> (SUBSET File) \ {{}}]
    /\ PieceLen \in [Piece -> Nat \ {0}]
    /\ Limit \in Nat /\ Slack \in Nat /\ Sparse \in BOOLEAN
    /\ Op \subseteq Ops

VARIABLES
    disk,       \* cells with the right bytes, as any process reads them
    synced,     \* those that survive a power failure
    len,        \* file length: cells of pieces below len[f] are covered
    ctrl,       \* the control file's bitfield
    saves,      \* throttled saves spawned and not yet written
    sel,        \* Task::selected_files
    opened,     \* files of the store with a handle
    chosen,     \* TorrentEngine::selected_files, which decides `wanted`
    map,        \* PieceStore::map
    cache,      \* PieceStore::write_cache
    bytes,      \* write_cache_bytes
    done,       \* done_bytes, in cells
    eng,        \* program counter of TorrentEngine::run
    peer,       \* the peer sessions, in accept_piece
    complete    \* the engine returned Ok: the task is Complete

store == <<map, cache, bytes>>
files == <<disk, synced, len>>
vars == <<disk, synced, len, ctrl, saves, sel, opened, chosen, map, cache, bytes,
          done, eng, peer, complete>>

EngPc == {"off", "verify", "listen", "run", "flush", "save", "finflush", "delete",
          "done"}
PeerPc == {"idle", "hashed", "evict", "count", "resume"}
Idle == [pc |-> "idle", piece |-> NoPiece, val |-> 0]

Cell == {c \in Piece \X File : c[2] \in Segs[c[1]]}
Cells(p, F) == {c \in Cell : c[1] = p /\ c[2] \in F}
Selections == (SUBSET File) \ {{}}

TypeOK ==
    /\ disk \subseteq Cell /\ synced \subseteq Cell
    /\ len \in [File -> 0..N]
    /\ ctrl \in (SUBSET Piece) \cup {NoFile}
    /\ saves \in [Slot -> (SUBSET Piece) \cup {NoFile}]
    /\ sel \subseteq File /\ opened \subseteq File /\ chosen \subseteq File
    /\ map \subseteq Piece
    /\ cache \in Seq(Piece)
    /\ bytes \in Int
    /\ done \in Nat
    /\ eng \in EngPc
    /\ peer \in [Peer -> [pc : PeerPc, piece : Piece \cup {NoPiece}, val : Nat]]
    /\ complete \in BOOLEAN

(* A new task; nothing of it is on disk. *)
Init ==
    /\ disk = {} /\ synced = {}
    /\ len = [f \in File |-> 0]
    /\ ctrl = NoFile
    /\ saves = [s \in Slot |-> NoFile]
    /\ sel \in Selections
    /\ opened = {} /\ chosen = {}
    /\ map = {} /\ cache = <<>> /\ bytes = 0 /\ done = 0
    /\ eng = "off"
    /\ peer = [w \in Peer |-> Idle]
    /\ complete = FALSE

----------------------------------------------------------------------------
(* Helpers. *)

Elems(s) == {s[i] : i \in DOMAIN s}

(* position and remove: the cache without the entry of piece p, if any. *)
Drop(s, p) ==
    IF p \notin Elems(s) THEN s
    ELSE LET k == CHOOSE i \in DOMAIN s : s[i] = p
         IN  [i \in 1 .. Len(s) - 1 |-> IF i < k THEN s[i] ELSE s[i + 1]]

(* wanted_piece_mask *)
Wanted(F) == {p \in Piece : Segs[p] \cap F # {}}

(* Mutant: a boundary piece counts with all its bytes. *)
CountWhole(M, F) == Cardinality({c \in Cell : c[1] \in M})

(* done_bytes_of: of the pieces in the map, the bytes in the chosen files. *)
Count(M, F) == Cardinality({c \in Cell : c[1] \in M /\ c[2] \in F})

(* Mutant: the control file takes the plain bitfield. *)
DurableAll == map

(* durable_bitfield: what is only in the cache does not count. *)
Durable == IF Limit = 0 \/ cache = <<>> THEN map ELSE map \ Elems(cache)

(* Another region of the store's mutex is under way. *)
Locked == (\E w \in Peer : peer[w].pc = "evict") \/ eng \in {"flush", "finflush"}

(* write_piece_direct: files without a handle are skipped; on an error     *)
(* some of the segments are written.                                       *)
Written(p) == disk' = disk \cup Cells(p, opened)
WriteFails(p) ==
    /\ "ioerr" \in Op
    /\ \E D \in SUBSET Cells(p, opened) : disk' = disk \cup D

At(w, pc) == peer[w].pc = pc
Leave(w) == peer' = [peer EXCEPT ![w] = Idle]

----------------------------------------------------------------------------
(* TorrentEngine::new: open, restore_resume, preallocate. *)

Covered(p) == \A f \in Segs[p] : p < len[f]

(* size_on_disk over all files, in cells. *)
Blocks == IF Sparse THEN Cardinality(disk)
          ELSE Cardinality({c \in Cell : c[1] < len[c[2]]})

Implied == Cardinality({c \in Cell : c[1] \in ctrl})

(* What restore_resume puts into the map, {} if it gives up. *)
Restored ==
    IF ctrl = NoFile THEN {}
    ELSE IF Blocks + Slack < Implied THEN {} ELSE {p \in ctrl : Covered(p)}

(* The constructor with the selection the task has by now.  Bound: the     *)
(* sessions of the engine before have left accept_piece.                   *)
Start ==
    /\ eng = "off" /\ ~complete
    /\ \A w \in Peer : At(w, "idle")
    /\ opened' = sel /\ chosen' = sel
    /\ map' = Restored /\ cache' = <<>> /\ bytes' = 0
    /\ done' = Count(Restored, sel)
    /\ len' = [f \in File |-> IF f \in sel THEN N ELSE len[f]]
    /\ eng' = IF Restored = {} /\ \E f \in File : len[f] > 0 THEN "verify" ELSE "listen"
    /\ UNCHANGED <<disk, synced, ctrl, saves, sel, peer, complete>>

(* preallocate fails: some files have got their length, no engine. *)
StartFails ==
    /\ "ioerr" \in Op
    /\ eng = "off" /\ ~complete
    /\ \A w \in Peer : At(w, "idle")
    /\ \E F \in SUBSET sel : len' = [f \in File |-> IF f \in F THEN N ELSE len[f]]
    /\ UNCHANGED <<disk, synced, ctrl, saves, sel, opened, chosen, store, done, eng,
                   peer, complete>>

(* resume::save, by a temporary file and a rename; or it fails. *)
WriteCtrl(bf) == ctrl' = bf \/ ("ioerr" \in Op /\ UNCHANGED ctrl)

(* verify_existing_data: the wanted pieces whose bytes are right. *)
Verify ==
    LET good == {p \in Wanted(chosen) : Cells(p, File) \subseteq disk} IN
    /\ eng = "verify"
    /\ eng' = "listen"
    /\ IF good = {} THEN UNCHANGED <<map, done, ctrl>>
       ELSE /\ map' = good
            /\ done' = Count(good, chosen)
            /\ WriteCtrl(good)
    /\ UNCHANGED <<files, saves, sel, opened, chosen, cache, bytes, peer, complete>>

(* spawn_listener, the only thing that can end run() before the network. *)
Listen ==
    /\ eng = "listen"
    /\ eng' = "run" \/ ("ioerr" \in Op /\ eng' = "off")
    /\ UNCHANGED <<files, ctrl, saves, sel, opened, chosen, store, done, peer, complete>>

----------------------------------------------------------------------------
(* accept_piece, for the peer sessions. *)

(* The first look at the map; the hash is computed with no lock held.  A   *)
(* piece may arrive after its file was unselected.                         *)
Accept(w, p) ==
    /\ eng \in {"run", "done"} /\ ~Locked
    /\ At(w, "idle") /\ p \in Wanted(opened) \ map
    /\ peer' = [peer EXCEPT ![w] = [Idle EXCEPT !.pc = "hashed", !.piece = p]]
    /\ UNCHANGED <<files, ctrl, saves, sel, opened, chosen, store, done, eng, complete>>

(* The piece is marked and the progress computed before the lock goes. *)
Mark(w, p) ==
    /\ map' = map \cup {p}
    /\ peer' = [peer EXCEPT ![w] = [pc |-> "count", piece |-> p,
                                    val |-> Count(map \cup {p}, chosen)]]

(* Somebody else has had the piece meanwhile. *)
AcceptDuplicate(w) ==
    /\ At(w, "hashed") /\ ~Locked
    /\ peer[w].piece \in map
    /\ Leave(w)
    /\ UNCHANGED <<files, ctrl, saves, sel, opened, chosen, store, done, eng, complete>>

Direct(p) == Limit = 0 \/ PieceLen[p] > Limit

AcceptDirect(w) ==
    LET p == peer[w].piece IN
    /\ At(w, "hashed") /\ ~Locked
    /\ p \notin map /\ Direct(p)
    /\ \/ Written(p) /\ Mark(w, p)
       \/ WriteFails(p) /\ Leave(w) /\ UNCHANGED map
    /\ UNCHANGED <<synced, len, ctrl, saves, sel, opened, chosen, cache, bytes, done,
                   eng, complete>>

AcceptCached(w) ==
    LET p == peer[w].piece IN
    /\ At(w, "hashed") /\ ~Locked
    /\ p \notin map /\ ~Direct(p)
    /\ cache' = Append(Drop(cache, p), p)
    /\ bytes' = IF p \in Elems(cache) THEN bytes ELSE bytes + PieceLen[p]
    /\ peer' = [peer EXCEPT ![w].pc = "evict"]
    /\ UNCHANGED <<files, ctrl, saves, sel, opened, chosen, map, done, eng, complete>>

(* Mutant: a piece that cannot be written is dropped. *)
EvictLoses(w) ==
    /\ At(w, "evict")
    /\ IF bytes <= Limit
       THEN Mark(w, peer[w].piece) /\ UNCHANGED <<disk, cache, bytes>>
       ELSE /\ Written(Head(cache)) \/ WriteFails(Head(cache))
            /\ cache' = Tail(cache)
            /\ bytes' = bytes - PieceLen[Head(cache)]
            /\ UNCHANGED <<map, peer>>
    /\ UNCHANGED <<synced, len, ctrl, saves, sel, opened, chosen, done, eng, complete>>

(* Mutant: at most one piece is evicted. *)
EvictOnce(w) ==
    /\ At(w, "evict")
    /\ IF bytes <= Limit THEN UNCHANGED <<disk, cache, bytes>>
       ELSE /\ Written(Head(cache))
            /\ cache' = Tail(cache)
            /\ bytes' = bytes - PieceLen[Head(cache)]
    /\ Mark(w, peer[w].piece)
    /\ UNCHANGED <<synced, len, ctrl, saves, sel, opened, chosen, done, eng, complete>>

(* evict_to_limit, one round: the oldest piece leaves the cache once it is *)
(* written; on an error it stays, and the new piece is not marked.         *)
Evict(w) ==
    /\ At(w, "evict")
    /\ \/ /\ bytes <= Limit \/ cache = <<>>
          /\ Mark(w, peer[w].piece)
          /\ UNCHANGED <<disk, cache, bytes>>
       \/ /\ bytes > Limit /\ cache # <<>>
          /\ Written(Head(cache))
          /\ cache' = Tail(cache)
          /\ bytes' = bytes - PieceLen[Head(cache)]
          /\ UNCHANGED <<map, peer>>
       \/ /\ bytes > Limit /\ cache # <<>>
          /\ WriteFails(Head(cache))
          /\ Leave(w)
          /\ UNCHANGED store
    /\ UNCHANGED <<synced, len, ctrl, saves, sel, opened, chosen, done, eng, complete>>

(* done_bytes is stored after the lock is gone. *)
StoreDone(w) ==
    /\ At(w, "count")
    /\ done' = peer[w].val
    /\ peer' = [peer EXCEPT ![w] = [Idle EXCEPT !.pc = "resume"]]
    /\ UNCHANGED <<files, ctrl, saves, sel, opened, chosen, store, eng, complete>>

(* save_resume(false): skipped within a second of the last, or a snapshot  *)
(* that the blocking pool writes when it gets to it.                       *)
SaveLater(w) ==
    /\ At(w, "resume") /\ ~Locked
    /\ \/ UNCHANGED saves
       \/ \E s \in Slot : saves[s] = NoFile /\ saves' = [saves EXCEPT ![s] = Durable]
    /\ Leave(w)
    /\ UNCHANGED <<files, ctrl, sel, opened, chosen, store, done, eng, complete>>

SaveLands(s) ==
    /\ saves[s] # NoFile
    /\ WriteCtrl(saves[s])
    /\ saves' = [saves EXCEPT ![s] = NoFile]
    /\ UNCHANGED <<files, sel, opened, chosen, store, done, eng, peer, complete>>

----------------------------------------------------------------------------
(* Pause, finish, seed. *)

(* The run loop sees the token cancelled and takes the lock to flush. *)
Pause ==
    /\ "pause" \in Op
    /\ eng = "run" /\ ~Locked
    /\ eng' = "flush"
    /\ UNCHANGED <<files, ctrl, saves, sel, opened, chosen, store, done, peer, complete>>

(* The run loop finds every wanted piece done. *)
Finish ==
    /\ eng = "run" /\ ~Locked
    /\ Wanted(chosen) # {} /\ Wanted(chosen) \subseteq map
    /\ eng' = "finflush"
    /\ UNCHANGED <<files, ctrl, saves, sel, opened, chosen, store, done, peer, complete>>

AfterFlush == IF eng = "flush" THEN "save" ELSE "delete"

(* Mutant: the files are synced, the cache is not written. *)
FlushSyncOnly ==
    /\ eng \in {"flush", "finflush"}
    /\ synced' = disk
    /\ eng' = AfterFlush
    /\ UNCHANGED <<disk, len, ctrl, saves, sel, opened, chosen, store, done, peer,
                   complete>>

(* flush_all, one round: write the cache out, then sync; the callers       *)
(* ignore an error.                                                        *)
Flush ==
    /\ eng \in {"flush", "finflush"}
    /\ \/ /\ cache # <<>>
          /\ Written(Head(cache))
          /\ cache' = Tail(cache)
          /\ bytes' = bytes - PieceLen[Head(cache)]
          /\ UNCHANGED <<synced, eng>>
       \/ /\ cache # <<>>
          /\ WriteFails(Head(cache))
          /\ eng' = AfterFlush
          /\ UNCHANGED <<synced, cache, bytes>>
       \/ /\ cache = <<>>
          /\ synced' = disk \/ ("ioerr" \in Op /\ UNCHANGED synced)
          /\ eng' = AfterFlush
          /\ UNCHANGED <<disk, cache, bytes>>
    /\ UNCHANGED <<len, ctrl, saves, sel, opened, chosen, map, done, peer, complete>>

(* save_resume(true), and the engine returns. *)
SaveNow ==
    /\ eng = "save" /\ ~Locked
    /\ WriteCtrl(Durable)
    /\ eng' = "off"
    /\ UNCHANGED <<files, saves, sel, opened, chosen, store, done, peer, complete>>

DeleteCtrl ==
    /\ eng = "delete"
    /\ ctrl' = NoFile
    /\ eng' = "done"
    /\ UNCHANGED <<files, saves, sel, opened, chosen, store, done, peer, complete>>

(* Seeding, if any, is over (Complete) or paused. *)
End ==
    /\ eng = "done"
    /\ complete' = TRUE \/ ("pause" \in Op /\ UNCHANGED complete)
    /\ eng' = "off"
    /\ UNCHANGED <<files, ctrl, saves, sel, opened, chosen, store, done, peer>>

----------------------------------------------------------------------------
(* The user and the environment. *)

(* select_files: an engine that has the files open takes the selection     *)
(* over; any other is paused, which Pause does in its own time.            *)
SelectFiles(F) ==
    /\ "select" \in Op /\ ~complete /\ ~Locked
    /\ sel' = F
    /\ IF eng # "off" /\ F \subseteq opened
       THEN chosen' = F /\ done' = Count(map, F)
       ELSE UNCHANGED <<chosen, done>>
    /\ UNCHANGED <<files, ctrl, saves, opened, store, eng, peer, complete>>

(* A file of a stopped task is deleted or cut off. *)
Truncate(f, k) ==
    /\ "trunc" \in Op /\ eng = "off" /\ ~complete
    /\ \A w \in Peer : At(w, "idle")
    /\ k < len[f]
    /\ len' = [len EXCEPT ![f] = k]
    /\ disk' = {c \in disk : c[2] = f => c[1] < k}
    /\ synced' = synced \cap disk'
    /\ UNCHANGED <<ctrl, saves, sel, opened, chosen, store, done, eng, peer, complete>>

(* The process dies; the task is resumed later, with a new selection of    *)
(* handles (Start).                                                        *)
Die ==
    /\ saves' = [s \in Slot |-> NoFile]
    /\ map' = {} /\ cache' = <<>> /\ bytes' = 0 /\ done' = 0
    /\ eng' = "off"
    /\ peer' = [w \in Peer |-> Idle]
    /\ UNCHANGED <<len, sel, opened, chosen, complete>>

Crash ==
    /\ "crash" \in Op
    /\ Die
    /\ UNCHANGED <<disk, synced, ctrl>>

(* The machine dies: what was not synced may be lost, data and control     *)
(* file independently.                                                     *)
PowerFailure ==
    /\ "power" \in Op
    /\ Die
    /\ \E D \in SUBSET disk : synced \subseteq D /\ disk' = D
    /\ ctrl' \in {ctrl, NoFile}
    /\ UNCHANGED synced

----------------------------------------------------------------------------
Next ==
    \/ Start \/ StartFails \/ Verify \/ Listen
    \/ \E w \in Peer :
         \/ \E p \in Piece : Accept(w, p)
         \/ AcceptDuplicate(w) \/ AcceptDirect(w) \/ AcceptCached(w) \/ Evict(w)
         \/ StoreDone(w) \/ SaveLater(w)
    \/ \E s \in Slot : SaveLands(s)
    \/ Pause \/ Finish \/ Flush \/ SaveNow \/ DeleteCtrl \/ End
    \/ \E F \in Selections : SelectFiles(F)
    \/ \E f \in File : \E k \in 0..N : Truncate(f, k)
    \/ Crash \/ PowerFailure

Spec == Init /\ [][Next]_vars

----------------------------------------------------------------------------
(* Properties. *)

(* What an engine takes as done can be read back: the bytes are in the     *)
(* cache or, for the files it has open, on disk - after any interleaving   *)
(* of sessions, evictions that fail, pauses, crashes and restarts.         *)
DoneOnDisk ==
    eng # "off" => \A p \in map : p \in Elems(cache) \/ Cells(p, opened) \subseteq disk

Claims == {ctrl} \cup {saves[s] : s \in Slot}

(* The control file is never ahead of the data: what it claims, and what a *)
(* delayed save is yet to claim, is on disk, so that a crash at any point  *)
(* leaves no finished hole.                                                *)
ClaimOnDisk ==
    \A C \in Claims \ {NoFile} : \A p \in C : Cells(p, sel) \subseteq disk

(* Pieces whose bytes in the task's files are on disk. *)
Safe == {p \in Piece : Cells(p, sel) \subseteq disk}

Contract == INSTANCE ResumeContract
    WITH safe <- Safe, mem <- Elems(cache), have <- map,
         claim <- UNION (Claims \ {NoFile})

(* The storage keeps the contract of ResumeContract: nothing counted is    *)
(* ever nowhere, and every step towards the disk keeps that so.            *)
KeepsContract == Contract!Spec

ChosenCells == {c \in Cell : c[1] \in map /\ c[2] \in chosen}

(* Progress is never ahead of the bitmap, though accept_piece stores it    *)
(* after the lock is released, two sessions may bring the same piece, and  *)
(* a piece may lie half outside the chosen files.                          *)
ProgressNotAhead == eng # "off" => done <= Cardinality(ChosenCells)

(* A finished download is all on disk: finish() flushes what the cache     *)
(* still holds before the control file goes.                               *)
CompleteOnDisk ==
    complete => \A p \in Wanted(chosen) : Cells(p, chosen) \subseteq disk

(* disk-cache bounds the cache whenever the store's lock is free: every    *)
(* write_piece ends in evict_to_limit.                                     *)
CacheBounded == ~Locked => bytes <= Limit
=============================================================================
