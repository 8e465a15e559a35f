------------------------------- MODULE BtRun -------------------------------
(* One life of a torrent engine (crates/xfer-bt/src/engine.rs, run and     *)
(* run_seed_mode; crates/xfer-engine/src/manager.rs, drive_bt_download):   *)
(* the files are verified, the listeners opened, the tracker told, pieces  *)
(* arrive until all are there or the task is cancelled, and the control    *)
(* file, the tracker and the task's status follow.  What runs beside it:   *)
(* a peer session, the announce tasks, the resume saves handed to the      *)
(* blocking pool, and the 1 Hz ticker of the manager.                      *)
EXTENDS Naturals, FiniteSets

CONSTANTS
  Piece,
  SeedMode,  \* bt-seed-mode
  MaxRuns,   \* bound: engines made for this task
  MaxSends,  \* bound: announces on their way to the tracker
  MaxLate    \* bound: saves waiting in the blocking pool

BtRunAssumption ==
  /\ IsFiniteSet(Piece) /\ Piece # {}
  /\ SeedMode \in BOOLEAN
  /\ MaxRuns \in Nat \ {0} /\ MaxSends \in Nat \ {0} /\ MaxLate \in Nat

VARIABLES
  stage,   \* where run() stands
  bits,    \* pieces the store's bitfield holds
  disk,    \* pieces whose bytes are on disk; the others are cached at most
  ctrl,    \* the control file: {} when there is none, else {pieces}
  late,    \* bitfields captured by save_resume(false), not yet written
  session, \* the peer session: "off", "on", "stored"
  down,    \* the shutdown token is cancelled
  cancel,  \* the task's token is cancelled
  seeding, \* engine.seeding
  ticker,  \* "off", "on", or what a tick has read: "full" or "short"
  status,  \* what the task shows: active, seeding, paused, complete, error
  busy,    \* announce_busy
  sends,   \* announces under way
  runs

runVars == <<stage, bits, disk, ctrl, late, session, down, cancel, seeding, ticker,
             status, busy, sends, runs>>

work == <<bits, disk, ctrl, late, session>>
talk == <<busy, sends>>
shown == <<ticker, status>>

Stages == {"verify", "loop", "finish", "seed", "left", "quit", "flush", "save", "bye", "over"}
Events == {"started", "none", "completed", "stopped"}

RunTypes ==
  /\ stage \in Stages
  /\ bits \subseteq Piece /\ disk \subseteq Piece
  /\ \A c \in ctrl \cup late : c \subseteq Piece
  /\ Cardinality(ctrl) <= 1 /\ Cardinality(late) <= MaxLate
  /\ session \in {"off", "on", "stored"}
  /\ {down, cancel, seeding, busy} \subseteq BOOLEAN
  /\ ticker \in {"off", "on", "full", "short"}
  /\ status \in {"active", "seeding", "paused", "complete", "error"}
  /\ sends \subseteq Events
  /\ runs \in 1..MaxRuns

RunInit ==
  /\ stage = "verify"
  /\ bits = {} /\ disk \in SUBSET Piece /\ ctrl = {} /\ late = {}
  /\ session = "off" /\ ticker = "on" /\ status = "active"
  /\ down = FALSE /\ cancel = FALSE /\ seeding = FALSE
  /\ busy = FALSE /\ sends = {}
  /\ runs = 1

----------------------------------------------------------------------------
(* verify_existing_data before anybody is listened to, then spawn_listener, *)
(* the discovery tasks and the first announce.  An engine that took no      *)
(* piece over from a control file finds those on disk by their hash and     *)
(* saves at once.                                                           *)
VerifyExisting ==
  /\ bits' = IF bits = {} THEN disk ELSE bits
  /\ ctrl' = IF bits = {} /\ disk # {} THEN {disk} ELSE ctrl
  /\ UNCHANGED disk

Verify ==
  /\ stage = "verify" /\ VerifyExisting
  /\ stage' = "loop"
  /\ session' = "on"
  /\ busy' = TRUE
  /\ sends' = sends \cup {"started"}
  /\ UNCHANGED <<late, down, cancel, seeding, shown, runs>>

(* No port can be bound: spawn_listener()? ends run() with its error, the   *)
(* files being verified.                                                    *)
NoListener ==
  /\ stage = "verify" /\ VerifyExisting
  /\ stage' = "over"
  /\ ticker' = "off" /\ status' = "error"
  /\ UNCHANGED <<late, session, down, cancel, seeding, talk, runs>>

(* announce_all is one task per round behind announce_busy; a request that  *)
(* was sent is answered whenever it is, or lost.                            *)
Announce ==
  /\ stage = "loop" /\ ~busy /\ bits # Piece
  /\ Cardinality(sends) < MaxSends
  /\ busy' = TRUE
  /\ sends' = sends \cup {"none"}
  /\ UNCHANGED <<stage, work, down, cancel, seeding, shown, runs>>

Answered(e) ==
  /\ e \in sends
  /\ sends' = sends \ {e}
  /\ UNCHANGED <<stage, work, down, cancel, seeding, shown, busy, runs>>

(* The round ends, with an answer or at the 15 s deadline.                  *)
Rested == FALSE

RoundEnds ==
  /\ busy
  /\ busy' = Rested
  /\ UNCHANGED <<stage, work, down, cancel, seeding, shown, sends, runs>>

----------------------------------------------------------------------------
(* A session completes a piece (accept_piece under the store lock, into the *)
(* cache or to the disk) and then calls save_resume(false): the bitfield is *)
(* captured and its writing handed to the blocking pool.  It looks at the   *)
(* shutdown token only in between.                                          *)
Accept(x) ==
  /\ session = "on" /\ x \notin bits
  /\ bits' = bits \cup {x}
  /\ disk' \in {disk, disk \cup {x}}
  /\ session' = "stored"
  /\ UNCHANGED <<stage, ctrl, late, down, cancel, seeding, shown, talk, runs>>

(* Mutant: the bitfield with the pieces still in the cache.                 *)
AllBits == bits

(* durable_bitfield.                                                        *)
Durable == bits \cap disk

SaveLater ==
  /\ session = "stored"
  /\ session' = "on"
  /\ \/ UNCHANGED late          \* within RESUME_SAVE_INTERVAL
     \/ /\ Cardinality(late \cup {Durable}) <= MaxLate
        /\ late' = late \cup {Durable}
  /\ UNCHANGED <<stage, bits, disk, ctrl, down, cancel, seeding, shown, talk, runs>>

SessionEnds ==
  /\ session = "on" /\ down
  /\ session' = "off"
  /\ UNCHANGED <<stage, bits, disk, ctrl, late, down, cancel, seeding, shown, talk, runs>>

(* resume::save in the blocking pool: a temporary file and a rename.        *)
WriteLate(b) ==
  /\ b \in late
  /\ late' = late \ {b}
  /\ ctrl' = {b}
  /\ UNCHANGED <<stage, bits, disk, session, down, cancel, seeding, shown, talk, runs>>

----------------------------------------------------------------------------
(* finish: flush_all, whose failure is ignored, the control file removed,   *)
(* "completed" announced; then `seeding` is set, or run() winds up.         *)
Finish ==
  /\ stage = "loop" /\ bits = Piece
  /\ disk' \in {disk, disk \cup bits}
  /\ ctrl' = {}
  /\ sends' = sends \cup {"completed"}
  /\ stage' = IF SeedMode THEN "finish" ELSE "left"
  /\ UNCHANGED <<bits, late, session, down, cancel, seeding, shown, busy, runs>>

Seed ==
  /\ stage = "finish"
  /\ seeding' = TRUE
  /\ stage' = "seed"
  /\ UNCHANGED <<work, down, cancel, shown, talk, runs>>

(* run_seed_mode announces by itself, not through announce_busy, and gives  *)
(* that up when the task is cancelled.                                      *)
SeedAnnounce ==
  /\ stage = "seed" /\ ~cancel
  /\ Cardinality(sends) < MaxSends
  /\ sends' = sends \cup {"none"}
  /\ UNCHANGED <<stage, work, down, cancel, seeding, shown, busy, runs>>

(* Mutant: the cancellation is looked at only by the seeding loop.          *)
CancelledLate == cancel /\ bits = Piece

(* select! polls the task's token.                                          *)
Cancelled == cancel

(* Cancelled, or the ratio or the time is reached.                          *)
SeedEnds ==
  /\ stage = "seed"
  /\ sends' = sends \cup {"stopped"}
  /\ seeding' = FALSE
  /\ \/ Cancelled /\ stage' = "quit"
     \/ stage' = "left"
  /\ UNCHANGED <<work, down, cancel, shown, busy, runs>>

StopBackground ==
  /\ stage \in {"left", "quit"}
  /\ down' = TRUE
  /\ stage' = "over"
  /\ ticker' = "off"
  /\ status' = IF stage = "quit" THEN "paused" ELSE "complete"
  /\ UNCHANGED <<work, cancel, seeding, talk, runs>>

Cancel ==
  /\ ~cancel /\ stage # "over"
  /\ cancel' = TRUE
  /\ UNCHANGED <<stage, work, down, seeding, shown, talk, runs>>

(* The cancelled branch of run(): stop_background, flush_all, the forced    *)
(* save, "stopped".                                                         *)
SeeCancel ==
  /\ stage = "loop" /\ Cancelled
  /\ down' = TRUE
  /\ stage' = "flush"
  /\ UNCHANGED <<work, cancel, seeding, shown, talk, runs>>

Flush ==
  /\ stage = "flush"
  /\ disk' \in {disk, disk \cup bits}
  /\ stage' = "save"
  /\ UNCHANGED <<bits, ctrl, late, session, down, cancel, seeding, shown, talk, runs>>

ForceSave ==
  /\ stage = "save"
  /\ ctrl' = {Durable}
  /\ stage' = "bye"
  /\ UNCHANGED <<bits, disk, late, session, down, cancel, seeding, shown, talk, runs>>

Bye ==
  /\ stage = "bye"
  /\ sends' = sends \cup {"stopped"}
  /\ stage' = "over"
  /\ ticker' = "off" /\ status' = "paused"
  /\ UNCHANGED <<work, down, cancel, seeding, busy, runs>>

(* unpause, of a paused task or of one in error: a new engine, which takes  *)
(* over what the control file says of files that are long enough            *)
(* (restore_resume).                                                        *)
Again ==
  /\ stage = "over" /\ status \in {"paused", "error"} /\ session = "off" /\ runs < MaxRuns
  /\ runs' = runs + 1
  /\ stage' = "verify"
  /\ bits' = UNION ctrl
  /\ down' = FALSE /\ cancel' = FALSE /\ busy' = FALSE
  /\ ticker' = "on" /\ status' = "active"
  /\ UNCHANGED <<disk, ctrl, late, session, seeding, sends>>

(* The 1 Hz ticker reads the progress, then engine.seeding; it leaves its   *)
(* loop once everything is there.                                           *)
TickReads ==
  /\ ticker = "on"
  /\ ticker' = IF bits = Piece THEN "full" ELSE "short"
  /\ UNCHANGED <<stage, work, down, cancel, seeding, status, talk, runs>>

TickShows ==
  /\ ticker \in {"full", "short"}
  /\ status' = IF seeding THEN "seeding" ELSE status
  /\ ticker' = IF ticker = "full" THEN "off" ELSE "on"
  /\ UNCHANGED <<stage, work, down, cancel, seeding, talk, runs>>

RunStep ==
  \/ Verify \/ NoListener \/ Finish \/ Seed \/ SeedEnds \/ StopBackground
  \/ SeeCancel \/ Flush \/ ForceSave \/ Bye

RunNext ==
  \/ RunStep \/ Announce \/ SeedAnnounce \/ RoundEnds
  \/ \E e \in Events : Answered(e)
  \/ \E x \in Piece : Accept(x)
  \/ SaveLater \/ SessionEnds
  \/ \E b \in SUBSET Piece : WriteLate(b)
  \/ Cancel \/ Again \/ TickReads \/ TickShows

RunSpec == RunInit /\ [][RunNext]_runVars

(* The runtime polls run() and the announce task; seeding may go on.        *)
RunFairness ==
  /\ WF_runVars(RunStep /\ (stage # "seed" \/ cancel))
  /\ WF_runVars(Announce) /\ WF_runVars(RoundEnds)
  /\ \A e \in Events : WF_runVars(Answered(e))

RunFairSpec == RunSpec /\ RunFairness

----------------------------------------------------------------------------
(* The control file never runs ahead of the disk, although old bitfields    *)
(* are written late and caches are flushed in between.                      *)
CtrlTrue == \A c \in ctrl : c \subseteq disk

(* A cancelled engine comes to an end, whatever the tracker does.           *)
RunEnds == cancel ~> (stage = "over")

(* announce_busy never stays set: the rounds of announces go on.            *)
GateReopens == []<>~busy

Quiet == stage = "over" /\ session = "off" /\ late = {}

(* A paused task's control file holds every piece that is on disk.  The     *)
(* forced save is synchronous for that ("保证暂停/停止时控制文件一定落盘"), but an  *)
(* older bitfield may still be written after it.                            *)
PauseKeepsAll == Quiet /\ status = "paused" /\ ctrl # {} => bits \cap disk \subseteq UNION ctrl

(* finish removes the control file ("下载完成后控制文件即失效：删除"); a save     *)
(* handed to the pool before may write it again.                            *)
FinishClears == Quiet /\ status = "complete" /\ bits = Piece /\ down => ctrl = {}

(* A task that seeds is shown as seeding: fill_slots relies on it.          *)
SeedingShown == [](seeding => <>(status # "active"))
=============================================================================
