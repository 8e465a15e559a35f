------------------------------ MODULE Selecting ------------------------------
(* Choosing the files of a torrent or magnet task (manager.rs: the          *)
(* bt-file-selection option, select_files, unpause, run_task and the ticker *)
(* of drive_bt_download; engine.rs: apply_selection).  A task that waits    *)
(* for the choice runs an engine with nothing selected, which learns the    *)
(* metadata and is paused; a single-file task goes on by itself.  The       *)
(* engine opens the files selected when it was built and only those.        *)
(* Abstracted: the other tasks and the download slots; a file is fetched in *)
(* one step.                                                                *)
EXTENDS FiniteSets, Naturals

CONSTANTS
  File,
  Magnet,    \* TRUE: the metadata come from peers and are lost by a restart
  Racing,    \* TRUE: a choice may be made while the engine is being built
  MaxPauses, MaxCrashes, \* bounds: the user's pauses, restarts of the program
  MaxChoices             \* bound: choices

SelectingAssumption ==
  /\ IsFiniteSet(File) /\ File # {} /\ Magnet \in BOOLEAN /\ Racing \in BOOLEAN
  /\ MaxPauses \in Nat /\ MaxCrashes \in Nat /\ MaxChoices \in Nat

VARIABLES
  status, queued, intent, cancelled,
  awaiting, \* awaiting_selection
  chosen,   \* selected_files, NoChoice when there is none
  meta,     \* bt_meta is known to the task
  worker,   \* "none", "building", "running", "ending"
  opened,   \* the files the engine has open
  wants,    \* the engine's selected_files
  done,     \* files whose pieces are marked
  data,     \* files whose data are on disk
  pauses, crashes, choices

task_vars == <<status, queued, intent, cancelled, awaiting, chosen>>
engine_vars == <<meta, worker, opened, wants, done, data>>
counts == <<pauses, crashes, choices>>
selectingVars == <<task_vars, engine_vars, counts>>

NoChoice == {}
Choices == SUBSET File \ {NoChoice}
FilesOf(c) == IF c = NoChoice THEN File ELSE c

SelectingTypes ==
  /\ status \in {"waiting", "active", "paused", "complete"}
  /\ intent \in {"none", "pause", "restart"}
  /\ worker \in {"none", "building", "running", "ending"}
  /\ queued \in BOOLEAN /\ cancelled \in BOOLEAN /\ awaiting \in BOOLEAN /\ meta \in BOOLEAN
  /\ chosen \subseteq File
  /\ opened \subseteq File /\ wants \subseteq File /\ done \subseteq File /\ data \subseteq File

SelectingInit ==
  /\ status = "waiting" /\ queued = TRUE /\ intent = "none" /\ cancelled = FALSE
  /\ awaiting \in BOOLEAN /\ chosen = NoChoice /\ meta = ~Magnet
  /\ worker = "none" /\ opened = {} /\ wants = {} /\ done = {} /\ data = {}
  /\ pauses = 0 /\ crashes = 0 /\ choices = 0

----------------------------------------------------------------------------
(* The worker.                                                              *)
Schedule ==
  /\ queued /\ worker = "none"
  /\ queued' = FALSE
  /\ IF status = "waiting" THEN status' = "active" /\ worker' = "building"
                           ELSE UNCHANGED <<status, worker>>
  /\ opened' = IF awaiting /\ chosen = NoChoice THEN {} ELSE FilesOf(chosen)
  /\ wants' = opened'
  /\ UNCHANGED <<intent, cancelled, awaiting, chosen, meta, done, data, counts>>

(* The engine is registered: from here on select_files reaches it.          *)
Register ==
  /\ worker = "building"
  /\ worker' = "running"
  /\ UNCHANGED <<task_vars, meta, opened, wants, done, data, counts>>

LearnMeta ==
  /\ worker = "running" /\ ~cancelled /\ ~meta
  /\ meta' = TRUE
  /\ UNCHANGED <<task_vars, worker, opened, wants, done, data, counts>>

(* A piece of a file that is not open is marked and not written.            *)
Fetch(f) ==
  /\ worker = "running" /\ ~cancelled /\ meta /\ f \in wants \ done
  /\ done' = done \cup {f}
  /\ data' = IF f \in opened THEN data \cup {f} ELSE data
  /\ UNCHANGED <<task_vars, meta, worker, opened, wants, counts>>

Ticker ==
  /\ worker = "running" /\ awaiting /\ meta /\ intent = "none"
  /\ IF Cardinality(File) = 1 THEN awaiting' = FALSE /\ intent' = "restart"
                              ELSE intent' = "pause" /\ UNCHANGED awaiting
  /\ cancelled' = TRUE
  /\ UNCHANGED <<status, queued, chosen, engine_vars, counts>>

(* all_wanted_done: a placeholder that wants nothing is not complete.       *)
Complete ==
  /\ worker = "running" /\ ~cancelled /\ wants # {} /\ wants \subseteq done
  /\ status' = "complete" /\ worker' = "none"
  /\ UNCHANGED <<queued, intent, cancelled, awaiting, chosen, meta, opened, wants, done, data, counts>>

(* run_task: the status by the intent, then the queue by the status.        *)
Stopped ==
  /\ worker = "running" /\ cancelled
  /\ status' = IF intent = "restart" THEN "waiting" ELSE "paused"
  /\ worker' = "ending"
  /\ UNCHANGED <<queued, intent, cancelled, awaiting, chosen, meta, opened, wants, done, data, counts>>

Restarted ==
  /\ worker = "ending"
  /\ worker' = "none"
  /\ CASE status = "waiting" /\ intent = "restart" ->
            queued' = TRUE /\ intent' = "none" /\ cancelled' = FALSE /\ UNCHANGED status
       [] status = "waiting" /\ intent # "restart" ->
            status' = "paused" /\ UNCHANGED <<queued, intent, cancelled>>
       [] OTHER -> UNCHANGED <<status, queued, intent, cancelled>>
  /\ UNCHANGED <<awaiting, chosen, meta, opened, wants, done, data, counts>>

----------------------------------------------------------------------------
(* The user.                                                                *)
Covers(c) == opened = File \/ c \subseteq opened

(* Mutant: a worker that has not opened the files goes on with its own. *)
SelectQuiet(c) ==
  /\ choices < MaxChoices /\ choices' = choices + 1
  /\ meta /\ status # "complete"
  /\ Racing \/ worker # "building"
  /\ chosen' = c /\ awaiting' = FALSE
  /\ wants' = IF worker = "running" /\ Covers(c) THEN c ELSE wants
  /\ UNCHANGED <<intent, cancelled>>
  /\ UNCHANGED <<status, queued, meta, worker, opened, done, data, pauses, crashes>>

Select(c) ==
  /\ choices < MaxChoices /\ choices' = choices + 1
  /\ meta /\ status # "complete"
  /\ Racing \/ worker # "building"
  /\ chosen' = c /\ awaiting' = FALSE
  /\ CASE worker = "running" /\ Covers(c) -> wants' = c /\ UNCHANGED <<intent, cancelled>>
       [] worker = "running" /\ ~Covers(c) -> intent' = "pause" /\ cancelled' = TRUE /\ UNCHANGED wants
       [] OTHER -> UNCHANGED <<wants, intent, cancelled>>
  /\ UNCHANGED <<status, queued, meta, worker, opened, done, data, pauses, crashes>>

Pause ==
  /\ pauses < MaxPauses /\ pauses' = pauses + 1
  /\ CASE status = "waiting" -> queued' = FALSE /\ status' = "paused" /\ UNCHANGED <<intent, cancelled>>
       [] status = "active" -> intent' = "pause" /\ cancelled' = TRUE /\ UNCHANGED <<queued, status>>
       [] OTHER -> UNCHANGED <<queued, status, intent, cancelled>>
  /\ UNCHANGED <<awaiting, chosen, engine_vars, crashes, choices>>

Unpause ==
  /\ status = "paused" /\ ~(awaiting /\ chosen = NoChoice /\ meta)
  /\ status' = "waiting" /\ queued' = TRUE /\ intent' = "none" /\ cancelled' = FALSE
  /\ UNCHANGED <<awaiting, chosen, engine_vars, counts>>

(* The session keeps the choice and that it is awaited; what ran is paused. *)
Crash ==
  /\ crashes < MaxCrashes /\ crashes' = crashes + 1
  /\ status # "complete" \* a complete task is restored as it is
  /\ status' = "paused"
  /\ queued' = FALSE /\ intent' = "none" /\ cancelled' = FALSE
  /\ worker' = "none" /\ opened' = {} /\ wants' = {}
  /\ meta' = ~Magnet
  /\ UNCHANGED <<awaiting, chosen, done, data, pauses, choices>>

Work == Schedule \/ Register \/ LearnMeta \/ Ticker \/ Complete \/ Stopped \/ Restarted

SelectingNext ==
  \/ Work \/ Pause \/ Unpause \/ Crash
  \/ \E f \in File : Fetch(f)
  \/ \E c \in Choices : Select(c)

SelectingSpec == SelectingInit /\ [][SelectingNext]_selectingVars

(* The program and the swarm go on; the user may do nothing.                *)
SelectingFairness ==
  /\ WF_selectingVars(Work)
  /\ \A f \in File : WF_selectingVars(Fetch(f))

SelectingFairSpec == SelectingSpec /\ SelectingFairness

----------------------------------------------------------------------------
(* "否则任务一启动就被判完成", "片标记完成但数据未落盘": what is marked is on     *)
(* disk, and a complete task has every file that was chosen.                *)
ChosenOnDisk ==
  /\ done \subseteq data
  /\ status = "complete" => wants \subseteq data /\ wants # {}

(* A task that was not paused by the user and needs no choice completes; it *)
(* does not stay active with nothing to fetch.                              *)
Settles == status = "active" ~> status \in {"complete", "paused"}

=============================================================================
