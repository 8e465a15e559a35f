---------------------------- MODULE TaskManager ----------------------------
(***************************************************************************)
(* The task life cycle of xfer-engine (manager.rs): the scheduler that     *)
(* fills the concurrency slots, one worker per started task, and the RPC   *)
(* handlers that add, pause, resume and remove tasks.                      *)
(*                                                                         *)
(* Every lock region of the code is one step.  `inner` is the manager's    *)
(* mutex: it guards tasks, queue, active, stopped_order and the limit.     *)
(* The status, the intent and the cancellation token of a task have locks  *)
(* of their own, so they change between two regions of `inner`.            *)
(* fill_slots keeps `inner` over its whole loop; its iterations are steps  *)
(* here, and InnerFree keeps every other region of `inner` out.            *)
(***************************************************************************)
EXTENDS Naturals, FiniteSets, Sequences

CONSTANTS
    Gid,        \* tasks that may be added
    NoGid,      \* no task
    Caller,     \* concurrent RPC handlers
    Worker,     \* bound: run_task instances alive at once
    Op,         \* operations that happen
    Limits,     \* values of max-concurrent-downloads
    InitLimit,
    MaxResults, \* MAX_RESULTS: length of the stopped list
    Bt,         \* tasks with a BT driver (they may seed)
    Ask,        \* BT tasks added with bt-file-selection
    Single      \* tasks of Ask whose torrent has one file

Ops == {"add", "pause", "unpause", "stopSeeding", "remove", "select",
        "purge", "removeResult", "setLimit", "autosave"}

ASSUME ConstantsAssumption ==
    /\ IsFiniteSet(Gid) /\ NoGid \notin Gid
    /\ Op \subseteq Ops
    /\ Limits \subseteq Nat \ {0} /\ 1 \in Limits /\ InitLimit \in Limits
    /\ MaxResults \in Nat \ {0}
    /\ Bt \subseteq Gid /\ Ask \subseteq Bt /\ Single \subseteq Ask

VARIABLES
    tasks,      \* Inner::tasks, the tasks the manager knows
    queue,      \* Inner::queue
    active,     \* Inner::active
    stopped,    \* Inner::stopped_order
    limit,      \* Inner::max_concurrent
    status,     \* Task::shared.status
    intent,     \* Task::intent
    cancelled,  \* is the token in Task::cancel cancelled?
    sel,        \* file selection: awaiting_selection and bt_meta (see SelState)
    kick,       \* the permit of the scheduler's Notify
    sched,      \* program counter of scheduler_loop / fill_slots
    call,       \* the handlers: program counter, task, intent to set
    run,        \* the run_task instances
    saved       \* the session file: persisted status of every task

inner == <<tasks, queue, active, stopped, limit>>
vars == <<tasks, queue, active, stopped, limit, status, intent, cancelled,
          sel, kick, sched, call, run, saved>>

Terminal == {"Complete", "Error", "Removed"}
Status == {"Unborn", "Waiting", "Active", "Seeding", "Paused"} \cup Terminal
Intent == {"None", "Pause", "Restart", "StopSeeding", "Remove"}

(* "none": nothing to choose (awaiting_selection is false);                *)
(* "resolving": awaiting and no metadata; "choose": awaiting, metadata in. *)
SelState == {"none", "resolving", "choose"}

CallPc == {"idle", "p_retain", "p_paused", "intent", "cancel",
           "u_unstop", "u_check", "u_token", "u_intent", "u_push", "u_wait",
           "r_retain", "r_removed", "r_drop", "drop", "kick", "save"}
(* A worker's token: the task's current one ("cur"), or one replaced       *)
(* before ("live") or after ("dead") it was cancelled.                     *)
Token == {"none", "cur", "live", "dead"}
RunPc == {"free", "spawned", "starting", "driving", "status", "fin", "kick", "save"}
(* What the driver returned, then whether that ended the task. *)
Result == {"none", "ok", "cancelled", "err", "open", "terminal"}

Idle == [pc |-> "idle", gid |-> NoGid, want |-> "None", then |-> "idle"]
Free == [pc |-> "free", gid |-> NoGid, tok |-> "none", stub |-> FALSE,
         tick |-> "off", res |-> "none"]

TypeOK ==
    /\ tasks \subseteq Gid
    /\ queue \in Seq(Gid)
    /\ active \subseteq Gid
    /\ stopped \in Seq(Gid)
    /\ limit \in Limits
    /\ status \in [Gid -> Status]
    /\ intent \in [Gid -> Intent]
    /\ cancelled \in [Gid -> BOOLEAN]
    /\ sel \in [Gid -> SelState]
    /\ kick \in BOOLEAN
    /\ sched \in {"wait", "woken", "peek", "launch"}
    /\ call \in [Caller -> [pc : CallPc, gid : Gid \cup {NoGid}, want : Intent,
                            then : {"idle", "save"}]]
    /\ run \in [Worker -> [pc : RunPc, gid : Gid \cup {NoGid}, tok : Token,
                           stub : BOOLEAN, tick : {"off", "on", "armed"},
                           res : Result]]
    /\ saved \in [Gid -> {"absent", "waiting", "paused"} \cup Status]

Init ==
    /\ tasks = {}
    /\ queue = <<>>
    /\ active = {}
    /\ stopped = <<>>
    /\ limit = InitLimit
    /\ status = [g \in Gid |-> "Unborn"]
    /\ intent = [g \in Gid |-> "None"]
    /\ cancelled = [g \in Gid |-> FALSE]
    /\ sel = [g \in Gid |-> "none"]
    /\ kick = FALSE
    /\ sched = "wait"
    /\ call = [c \in Caller |-> Idle]
    /\ run = [w \in Worker |-> Free]
    /\ saved = [g \in Gid |-> "absent"]

----------------------------------------------------------------------------
(* Helpers. *)

InnerFree == sched \notin {"peek", "launch"}

(* VecDeque::retain and Vec::retain with "not g".  SelectSeq in a closed   *)
(* form, which the proofs can reason about: the n-th kept element.         *)
Kept(s, g) == {i \in DOMAIN s : s[i] # g}
Rank(K, i) == Cardinality({j \in K : j <= i})
Retain(s, g) ==
    [n \in 1..Cardinality(Kept(s, g)) |->
        s[CHOOSE i \in Kept(s, g) : Rank(Kept(s, g), i) = n]]

(* What a worker holds after the token of task g is replaced. *)
NewToken(w, g) ==
    IF run[w].gid = g /\ run[w].tok = "cur"
    THEN IF cancelled[g] THEN "dead" ELSE "live"
    ELSE run[w].tok

TokenCancelled(w) ==
    \/ run[w].tok = "cur" /\ cancelled[run[w].gid]
    \/ run[w].tok = "dead"

(* session_json: active and seeding tasks are written as waiting. *)
Persisted(g) ==
    IF g \notin tasks THEN "absent"
    ELSE CASE status[g] \in {"Waiting", "Active", "Seeding"} -> "waiting"
           [] status[g] = "Paused" -> "paused"
           [] OTHER -> status[g]

(* save_session_now.  The session_save_lock makes snapshot and write one   *)
(* step; the write is taken to succeed.                                    *)
SaveSession ==
    /\ InnerFree
    /\ saved' = [g \in Gid |-> Persisted(g)]

Busy == {w \in Worker : run[w].pc # "free"}

(* Bound: a handler queues a task only while a worker is left for it. *)
Room ==
    Cardinality(Busy) + Len(queue)
      + Cardinality({c \in Caller : call[c].pc \in
            {"u_unstop", "u_check", "u_token", "u_intent", "u_push"}})
      < Cardinality(Worker)

----------------------------------------------------------------------------
(* The scheduler. *)

SchedWake ==
    /\ sched = "wait" /\ kick
    /\ kick' = FALSE
    /\ sched' = "woken"
    /\ UNCHANGED <<inner, status, intent, cancelled, sel, call, run, saved>>

SchedLock ==
    /\ sched = "woken"
    /\ sched' = "peek"
    /\ UNCHANGED <<inner, status, intent, cancelled, sel, kick, call, run, saved>>

Downloading == {g \in active \cap tasks : status[g] # "Seeding"}

(* Mutant: the loop condition compares with <=. *)
SlotFreeOffByOne == Cardinality(active) <= limit

(* The loop condition and the break of fill_slots. *)
SlotFree ==
    /\ Cardinality(active) < limit
    /\ Cardinality(Downloading) < limit

SchedPeek ==
    /\ sched = "peek"
    /\ \/ /\ ~SlotFree \/ queue = <<>>
          /\ sched' = "wait"
          /\ UNCHANGED queue
       \/ /\ SlotFree /\ queue # <<>>
          /\ IF Head(queue) \in tasks /\ status[Head(queue)] = "Waiting"
             THEN sched' = "launch" /\ UNCHANGED queue
             ELSE queue' = Tail(queue) /\ UNCHANGED sched
    /\ UNCHANGED <<tasks, active, stopped, limit, status, intent, cancelled,
                   sel, kick, call, run, saved>>

(* The task is spawned after the loop; nothing it does before its first    *)
(* region of `inner` can tell.                                             *)
SchedLaunch ==
    /\ sched = "launch"
    /\ \E w \in Worker \ Busy :
         run' = [run EXCEPT ![w] = [Free EXCEPT !.pc = "spawned",
                                                !.gid = Head(queue)]]
    /\ queue' = Tail(queue)
    /\ active' = active \cup {Head(queue)}
    /\ status' = [status EXCEPT ![Head(queue)] = "Active"]
    /\ sched' = "peek"
    /\ UNCHANGED <<tasks, stopped, limit, intent, cancelled, sel, kick, call,
                   saved>>

----------------------------------------------------------------------------
(* The worker: run_task and the BT driver's 1 Hz ticker. *)

(* Mutant: the driver ignores that the selection is unanswered. *)
RunStartUnasked(w) ==
    /\ run[w].pc = "spawned"
    /\ run' = [run EXCEPT ![w].pc = "driving", ![w].tok = "cur", ![w].tick = "on"]
    /\ UNCHANGED <<inner, status, intent, cancelled, sel, kick, sched, call, saved>>

(* The token is cloned; drive_bt_download reads the file selection: while  *)
(* it is unanswered the engine starts with an empty one (a stub that only  *)
(* fetches metadata).                                                      *)
RunStart(w) ==
    /\ run[w].pc = "spawned"
    /\ run' = [run EXCEPT ![w] =
                 [@ EXCEPT !.pc = IF run[w].gid \in Bt THEN "starting" ELSE "driving",
                           !.tok = "cur",
                           !.stub = sel[run[w].gid] # "none"]]
    /\ UNCHANGED <<inner, status, intent, cancelled, sel, kick, sched, call, saved>>

(* The engine is built and registered in bt_engines, its ticker started. *)
RunEngine(w) ==
    /\ run[w].pc = "starting"
    /\ run' = [run EXCEPT ![w] = [@ EXCEPT !.pc = "driving", !.tick = "on"]]
    /\ UNCHANGED <<inner, status, intent, cancelled, sel, kick, sched, call, saved>>

(* The ticker sees the engine seeding. *)
RunSeed(w) ==
    LET g == run[w].gid IN
    /\ run[w].pc = "driving" /\ run[w].tick = "on" /\ ~run[w].stub
    /\ status[g] # "Seeding"
    /\ status' = [status EXCEPT ![g] = "Seeding"]
    /\ UNCHANGED <<inner, intent, cancelled, sel, kick, sched, call, run, saved>>

(* The ticker sees the metadata of a task that awaits a selection: pause   *)
(* it for the user, or restart it when there is nothing to choose.         *)
RunTick(w) ==
    LET g == run[w].gid IN
    /\ run[w].pc = "driving" /\ run[w].tick = "on"
    /\ sel[g] # "none"
    /\ IF intent[g] = "None"
       THEN /\ run' = [run EXCEPT ![w].tick = "armed"]
            /\ sel' = [sel EXCEPT ![g] = IF g \in Single THEN "none" ELSE "choose"]
            /\ intent' = [intent EXCEPT ![g] = IF g \in Single THEN "Restart"
                                                               ELSE "Pause"]
       ELSE /\ sel' = [sel EXCEPT ![g] = "choose"]
            /\ UNCHANGED <<run, intent>>
    /\ UNCHANGED <<inner, status, cancelled, kick, sched, call, saved>>

(* The ticker cancels the worker's own token, whatever became of it, and   *)
(* ends.                                                                   *)
RunTickCancel(w) ==
    LET g == run[w].gid IN
    /\ run[w].tick = "armed"
    /\ run' = [run EXCEPT ![w] =
                 [@ EXCEPT !.tick = "off",
                           !.tok = IF run[w].pc # "driving" THEN "none"
                                   ELSE IF run[w].tok = "live" THEN "dead" ELSE run[w].tok]]
    /\ cancelled' = [cancelled EXCEPT ![g] = @ \/ run[w].tok = "cur"]
    /\ UNCHANGED <<inner, status, intent, sel, kick, sched, call, saved>>

(* Mutant: a panic is not caught and takes the worker down. *)
RunReturnPanic(w, r) ==
    /\ run[w].pc = "driving" /\ r = "err"
    /\ run' = [run EXCEPT ![w] = Free]
    /\ UNCHANGED <<inner, status, intent, cancelled, sel, kick, sched, call, saved>>

(* The driver returns and lets go of its token, which the ticker may still *)
(* hold; a panic is caught and counts as a failure.                        *)
RunReturn(w, r) ==
    /\ \/ r = "ok" /\ run[w].pc = "driving" /\ ~run[w].stub
       \/ r = "err" /\ run[w].pc \in {"starting", "driving"}
       \/ r = "cancelled" /\ run[w].pc = "driving" /\ TokenCancelled(w)
    /\ run' = [run EXCEPT ![w] =
                 [@ EXCEPT !.pc = "status", !.res = r, !.stub = FALSE,
                           !.tok = IF run[w].tick = "armed" THEN run[w].tok
                                                            ELSE "none",
                           !.tick = IF run[w].tick = "on" THEN "off"
                                                          ELSE run[w].tick]]
    /\ UNCHANGED <<inner, status, intent, cancelled, sel, kick, sched, call, saved>>

(* The status a driver result leads to. *)
Outcome(r, i) ==
    CASE r = "ok" -> "Complete"
      [] r = "err" -> "Error"
      [] r = "cancelled" /\ i = "Pause" -> "Paused"
      [] r = "cancelled" /\ i = "Restart" -> "Waiting"
      [] r = "cancelled" /\ i = "StopSeeding" -> "Complete"
      [] OTHER -> "Removed"

RunStatus(w) ==
    LET g == run[w].gid
        s == Outcome(run[w].res, intent[g]) IN
    /\ run[w].pc = "status"
    /\ status' = [status EXCEPT ![g] = s]
    /\ run' = [run EXCEPT ![w] =
                 [@ EXCEPT !.pc = "fin",
                           !.res = IF s \in Terminal THEN "terminal" ELSE "open"]]
    /\ UNCHANGED <<inner, intent, cancelled, sel, kick, sched, call, saved>>

(* The stopped list after a push, cut to MAX_RESULTS, and what it drops. *)
Overflow(s) == IF Len(s) > MaxResults THEN Len(s) - MaxResults ELSE 0
Cut(s) == SubSeq(s, Overflow(s) + 1, Len(s))
Evicted(s) == {s[i] : i \in 1..Overflow(s)}

(* The closing region of run_task, by the status the task has by now. *)
RunFinish(w) ==
    LET g == run[w].gid
        done == [run EXCEPT ![w].pc = "kick"] IN
    /\ run[w].pc = "fin" /\ InnerFree
    /\ active' = active \ {g}
    /\ \/ /\ status[g] = "Removed"
          /\ tasks' = tasks \ {g}
          /\ stopped' = Retain(stopped, g)
          /\ run' = done
          /\ UNCHANGED <<queue, status, intent, cancelled>>
       \/ /\ status[g] = "Waiting" /\ intent[g] = "Restart"
          /\ intent' = [intent EXCEPT ![g] = "None"]
          /\ cancelled' = [cancelled EXCEPT ![g] = FALSE]
          /\ run' = [v \in Worker |->
                       [done[v] EXCEPT !.tok = NewToken(v, g)]]
          /\ queue' = Append(queue, g)
          /\ UNCHANGED <<tasks, stopped, status>>
       \/ /\ status[g] = "Waiting" /\ intent[g] # "Restart"
          /\ status' = [status EXCEPT ![g] = "Paused"]
          /\ run' = done
          /\ UNCHANGED <<tasks, stopped, queue, intent, cancelled>>
       \/ /\ status[g] \notin {"Removed", "Waiting"}
          /\ IF run[w].res = "terminal"
             THEN /\ stopped' = Cut(Append(stopped, g))
                  /\ tasks' = tasks \ Evicted(Append(stopped, g))
             ELSE UNCHANGED <<stopped, tasks>>
          /\ run' = done
          /\ UNCHANGED <<queue, status, intent, cancelled>>
    /\ UNCHANGED <<limit, sel, kick, sched, call, saved>>

(* Mutant: the worker leaves without waking the scheduler. *)
RunKickForgotten(w) ==
    /\ run[w].pc = "kick"
    /\ run' = [run EXCEPT ![w].pc = "save"]
    /\ UNCHANGED <<inner, status, intent, cancelled, sel, kick, sched, call, saved>>

RunKick(w) ==
    /\ run[w].pc = "kick"
    /\ kick' = TRUE
    /\ run' = [run EXCEPT ![w].pc = "save"]
    /\ UNCHANGED <<inner, status, intent, cancelled, sel, sched, call, saved>>

(* Mutant: the end of a task waits for the next periodic save. *)
RunSaveLater(w) ==
    /\ run[w].pc = "save" /\ run[w].tick # "armed"
    /\ run' = [run EXCEPT ![w] = Free]
    /\ UNCHANGED <<inner, status, intent, cancelled, sel, kick, sched, call, saved>>

(* A paused or ended task is saved at once. *)
RunSave(w) ==
    /\ run[w].pc = "save" /\ run[w].tick # "armed"
    /\ IF run[w].res = "terminal" \/ status[run[w].gid] = "Paused"
       THEN SaveSession ELSE UNCHANGED saved
    /\ run' = [run EXCEPT ![w] = Free]
    /\ UNCHANGED <<inner, status, intent, cancelled, sel, kick, sched, call>>

----------------------------------------------------------------------------
(* The handlers.  The first step of each is its task_of and the status it  *)
(* decides on; a call the code rejects is no step.                         *)

At(c, p) == call[c].pc = p
Goto(c, p) == call' = [call EXCEPT ![c].pc = p]
Start(c, g, p) == call' = [call EXCEPT ![c] = [Idle EXCEPT !.pc = p, !.gid = g]]

(* Handlers that stop a running task: set the intent, then cancel. *)
StartCancel(c, g, i, after) ==
    call' = [call EXCEPT ![c] = [pc |-> "intent", gid |-> g, want |-> i,
                                 then |-> after]]

CanCall(c, op) == op \in Op /\ At(c, "idle") /\ InnerFree

InsertAt(s, i, g) == SubSeq(s, 1, i) \o <<g>> \o SubSeq(s, i + 1, Len(s))

(* add_uri, add_torrent, add_magnet *)
Add(c, g) ==
    /\ CanCall(c, "add") /\ Room
    /\ status[g] = "Unborn"
    /\ tasks' = tasks \cup {g}
    /\ \E i \in 0..Len(queue) : queue' = InsertAt(queue, i, g)
    /\ status' = [status EXCEPT ![g] = "Waiting"]
    /\ \E s \in IF g \in Ask THEN {"resolving", "choose"} ELSE {"none"} :
         sel' = [sel EXCEPT ![g] = s]
    /\ Start(c, g, "kick")
    /\ UNCHANGED <<active, stopped, limit, intent, cancelled, kick, sched, run, saved>>

Pause(c, g) ==
    /\ CanCall(c, "pause") /\ g \in tasks
    /\ \/ status[g] = "Waiting" /\ Start(c, g, "p_retain")
       \/ status[g] \in {"Active", "Seeding"} /\ StartCancel(c, g, "Pause", "idle")
    /\ UNCHANGED <<inner, status, intent, cancelled, sel, kick, sched, run, saved>>

(* queue.retain, of pause and of remove *)
Dequeue(c) ==
    /\ \/ At(c, "p_retain") /\ Goto(c, "p_paused")
       \/ At(c, "r_retain") /\ Goto(c, "r_removed")
    /\ InnerFree
    /\ queue' = Retain(queue, call[c].gid)
    /\ UNCHANGED <<tasks, active, stopped, limit, status, intent, cancelled, sel,
                   kick, sched, run, saved>>

PauseSet(c) ==
    /\ At(c, "p_paused")
    /\ status' = [status EXCEPT ![call[c].gid] = "Paused"]
    /\ Goto(c, "kick")
    /\ UNCHANGED <<inner, intent, cancelled, sel, kick, sched, run, saved>>

SetIntent(c) ==
    /\ At(c, "intent")
    /\ intent' = [intent EXCEPT ![call[c].gid] = call[c].want]
    /\ Goto(c, "cancel")
    /\ UNCHANGED <<inner, status, cancelled, sel, kick, sched, run, saved>>

Cancel(c) ==
    /\ At(c, "cancel")
    /\ cancelled' = [cancelled EXCEPT ![call[c].gid] = TRUE]
    /\ call' = [call EXCEPT ![c] = [Idle EXCEPT !.pc = call[c].then]]
    /\ UNCHANGED <<inner, status, intent, sel, kick, sched, run, saved>>

Unpause(c, g) ==
    /\ CanCall(c, "unpause") /\ Room /\ g \in tasks
    /\ \/ status[g] = "Paused" /\ Start(c, g, "u_check")
       \/ status[g] = "Error" /\ Start(c, g, "u_unstop")
    /\ UNCHANGED <<inner, status, intent, cancelled, sel, kick, sched, run, saved>>

UnpauseUnstop(c) ==
    /\ At(c, "u_unstop") /\ InnerFree
    /\ stopped' = Retain(stopped, call[c].gid)
    /\ Goto(c, "u_check")
    /\ UNCHANGED <<tasks, queue, active, limit, status, intent, cancelled, sel,
                   kick, sched, run, saved>>

(* A task whose files are still to be chosen is refused. *)
UnpauseCheck(c) ==
    /\ At(c, "u_check")
    /\ IF sel[call[c].gid] = "choose"
       THEN call' = [call EXCEPT ![c] = Idle] ELSE Goto(c, "u_token")
    /\ UNCHANGED <<inner, status, intent, cancelled, sel, kick, sched, run, saved>>

UnpauseToken(c) ==
    LET g == call[c].gid IN
    /\ At(c, "u_token")
    /\ run' = [w \in Worker |-> [run[w] EXCEPT !.tok = NewToken(w, g)]]
    /\ cancelled' = [cancelled EXCEPT ![g] = FALSE]
    /\ Goto(c, "u_intent")
    /\ UNCHANGED <<inner, status, intent, sel, kick, sched, saved>>

UnpauseIntent(c) ==
    /\ At(c, "u_intent")
    /\ intent' = [intent EXCEPT ![call[c].gid] = "None"]
    /\ Goto(c, "u_push")
    /\ UNCHANGED <<inner, status, cancelled, sel, kick, sched, run, saved>>

UnpausePush(c) ==
    /\ At(c, "u_push") /\ InnerFree
    /\ queue' = Append(queue, call[c].gid)
    /\ Goto(c, "u_wait")
    /\ UNCHANGED <<tasks, active, stopped, limit, status, intent, cancelled, sel,
                   kick, sched, run, saved>>

UnpauseSet(c) ==
    /\ At(c, "u_wait")
    /\ status' = [status EXCEPT ![call[c].gid] = "Waiting"]
    /\ Goto(c, "kick")
    /\ UNCHANGED <<inner, intent, cancelled, sel, kick, sched, run, saved>>

StopSeeding(c, g) ==
    /\ CanCall(c, "stopSeeding") /\ g \in tasks
    /\ status[g] = "Seeding"
    /\ StartCancel(c, g, "StopSeeding", "idle")
    /\ UNCHANGED <<inner, status, intent, cancelled, sel, kick, sched, run, saved>>

Remove(c, g) ==
    /\ CanCall(c, "remove") /\ g \in tasks
    /\ \/ status[g] = "Waiting" /\ Start(c, g, "r_retain")
       \/ status[g] \in {"Active", "Seeding"} /\ StartCancel(c, g, "Remove", "idle")
       \/ status[g] \in {"Paused"} \cup Terminal /\ Start(c, g, "r_removed")
    /\ UNCHANGED <<inner, status, intent, cancelled, sel, kick, sched, run, saved>>

(* finish_removed *)
RemoveSet(c) ==
    /\ At(c, "r_removed")
    /\ status' = [status EXCEPT ![call[c].gid] = "Removed"]
    /\ Goto(c, "r_drop")
    /\ UNCHANGED <<inner, intent, cancelled, sel, kick, sched, run, saved>>

(* The region of finish_removed, and that of remove_download_result. *)
Drop(c) ==
    LET g == call[c].gid IN
    /\ \/ At(c, "r_drop") /\ Goto(c, "kick")
       \/ At(c, "drop") /\ Goto(c, "save")
    /\ InnerFree
    /\ tasks' = tasks \ {g}
    /\ stopped' = Retain(stopped, g)
    /\ UNCHANGED <<queue, active, limit, status, intent, cancelled, sel, kick,
                   sched, run, saved>>

(* select_files: a running engine that has not opened the chosen files is  *)
(* paused; one that has takes the selection over.                          *)
SelectFiles(c, g) ==
    LET engines == {w \in Worker : run[w].pc = "driving" /\ run[w].gid = g} IN
    /\ CanCall(c, "select") /\ g \in tasks \cap Bt
    /\ sel[g] # "resolving"
    /\ sel' = [sel EXCEPT ![g] = "none"]
    /\ \/ engines # {} /\ StartCancel(c, g, "Pause", "save")
       \/ (\A w \in engines : ~run[w].stub) /\ Start(c, g, "save")
    /\ UNCHANGED <<inner, status, intent, cancelled, kick, sched, run, saved>>

RemoveResult(c, g) ==
    /\ CanCall(c, "removeResult") /\ g \in tasks
    /\ status[g] \in Terminal
    /\ Start(c, g, "drop")
    /\ UNCHANGED <<inner, status, intent, cancelled, sel, kick, sched, run, saved>>

Purge(c) ==
    /\ CanCall(c, "purge")
    /\ tasks' = {g \in tasks : status[g] \notin Terminal}
    /\ stopped' = <<>>
    /\ Start(c, NoGid, "save")
    /\ UNCHANGED <<queue, active, limit, status, intent, cancelled, sel, kick,
                   sched, run, saved>>

(* change_global_option with max-concurrent-downloads; 0 becomes 1. *)
SetLimit(c) ==
    /\ CanCall(c, "setLimit")
    /\ \E n \in Limits \cup {0} : limit' = IF n = 0 THEN 1 ELSE n
    /\ Start(c, NoGid, "kick")
    /\ UNCHANGED <<tasks, queue, active, stopped, status, intent, cancelled, sel,
                   kick, sched, run, saved>>

(* Mutant: a handler does not wake the scheduler. *)
CallKickForgotten(c) ==
    /\ At(c, "kick")
    /\ Goto(c, "save")
    /\ UNCHANGED <<inner, status, intent, cancelled, sel, kick, sched, run, saved>>

CallKick(c) ==
    /\ At(c, "kick")
    /\ kick' = TRUE
    /\ Goto(c, "save")
    /\ UNCHANGED <<inner, status, intent, cancelled, sel, sched, run, saved>>

CallSave(c) ==
    /\ At(c, "save")
    /\ SaveSession
    /\ call' = [call EXCEPT ![c] = Idle]
    /\ UNCHANGED <<inner, status, intent, cancelled, sel, kick, sched, run>>

(* The 30 s saver. *)
AutoSave ==
    /\ "autosave" \in Op
    /\ SaveSession
    /\ UNCHANGED <<inner, status, intent, cancelled, sel, kick, sched, call, run>>

----------------------------------------------------------------------------
Sched == SchedWake \/ SchedLock \/ SchedPeek \/ SchedLaunch

(* What a worker does once its driver has returned. *)
WindDown(w) ==
    RunStatus(w) \/ RunFinish(w) \/ RunKick(w) \/ RunSave(w) \/ RunTickCancel(w)

Run(w) ==
    \/ RunStart(w) \/ RunEngine(w) \/ RunSeed(w) \/ RunTick(w)
    \/ \E r \in {"ok", "err", "cancelled"} : RunReturn(w, r)
    \/ WindDown(w)

(* A call in flight. *)
Continue(c) ==
    \/ Dequeue(c) \/ PauseSet(c) \/ SetIntent(c) \/ Cancel(c)
    \/ UnpauseUnstop(c) \/ UnpauseCheck(c) \/ UnpauseToken(c)
    \/ UnpauseIntent(c) \/ UnpausePush(c) \/ UnpauseSet(c)
    \/ RemoveSet(c) \/ Drop(c) \/ CallKick(c) \/ CallSave(c)

Begin(c) ==
    \/ \E g \in Gid :
         \/ Add(c, g) \/ Pause(c, g) \/ Unpause(c, g) \/ StopSeeding(c, g)
         \/ Remove(c, g) \/ SelectFiles(c, g) \/ RemoveResult(c, g)
    \/ Purge(c) \/ SetLimit(c)

Next ==
    \/ Sched
    \/ \E w \in Worker : Run(w)
    \/ \E c \in Caller : Begin(c) \/ Continue(c)
    \/ AutoSave

Spec == Init /\ [][Next]_vars

(* The runtime polls every spawned future: the scheduler, a call in flight *)
(* and a worker whose driver has returned go on.  Nothing makes a driver   *)
(* return or a user call.                                                  *)
FairSpec ==
    /\ Spec
    /\ WF_vars(Sched)
    /\ \A w \in Worker : WF_vars(WindDown(w) \/ RunStart(w) \/ RunEngine(w))
    /\ \A c \in Caller : WF_vars(Continue(c))

----------------------------------------------------------------------------
(* Properties. *)

Elems(s) == {s[i] : i \in DOMAIN s}

(* fill_slots starts a task only within max-concurrent-downloads, whatever *)
(* the handlers do to the limit and to the statuses meanwhile.             *)
SlotBound ==
    [][active' \ active # {} => Cardinality(active') <= limit]_vars

(* No slot leaks: an occupied slot belongs to a worker that is still to    *)
(* release it, even when pause, resume and removal race the scheduler and  *)
(* a task gets a second worker.                                            *)
ActiveHasWorker ==
    \A g \in active : \E w \in Worker :
        /\ run[w].gid = g
        /\ run[w].pc \in {"spawned", "starting", "driving", "status", "fin"}

(* Between the peek and the launch the lock keeps the queue head, the slot *)
(* and the limit as they were checked.                                     *)
LaunchReady ==
    sched = "launch" => queue # <<>> /\ Cardinality(active) < limit

(* The scheduler is running, has a permit, or is about to get one. *)
KickPending ==
    \/ kick \/ sched # "wait"
    \/ \E c \in Caller : call[c].pc \in {"kick", "u_wait"}
    \/ \E w \in Worker : run[w].pc = "kick"

(* No lost wake-up: while a task is queued and a slot is free, the         *)
(* scheduler is going to look (kick() in every path that queues a task,    *)
(* frees a slot or raises the limit).                                      *)
NoLostKick == queue # <<>> /\ Cardinality(active) < limit => KickPending

(* No call is in flight and no worker is winding down. *)
Quiet ==
    /\ \A c \in Caller : call[c].pc = "idle"
    /\ \A w \in Worker : run[w].pc \in {"free", "spawned", "starting", "driving"}

(* restore_tasks makes waiting and paused the same. *)
RestoredAs(s) == IF s = "waiting" THEN "paused" ELSE s

(* The session file is up to date for every task no worker runs, whenever  *)
(* all is quiet: a restart from it restores the tasks that exist and the   *)
(* results that were shown, because every path that changes them ends in a *)
(* save of the final state, under every interleaving.                      *)
SessionCurrent ==
    Quiet => \A g \in Gid : (\A w \in Worker : run[w].gid # g)
                              => RestoredAs(saved[g]) = RestoredAs(Persisted(g))

(* Free slots are used: the queue never stays non-empty beside a free slot *)
(* (scheduler_loop and fill_slots, woken by every kick()).                 *)
SlotsFill ==
    (queue # <<>> /\ Cardinality(active) < limit)
        ~> (queue = <<>> \/ Cardinality(active) >= limit)

(* No task ends or seeds before its files are chosen: an engine started    *)
(* with an unanswered selection only fetches metadata, and the ticker      *)
(* pauses it for the user.                                                 *)
ChosenBeforeDone ==
    \A g \in Gid : status[g] \in {"Complete", "Seeding"} => sel[g] = "none"

----------------------------------------------------------------------------
(* What comments of the code say and its interleavings refute. *)

(* fill_slots: a seeding task does not occupy a download slot, so a queued *)
(* task is not kept waiting by seeding ones.                               *)
SeedingFreesSlot ==
    (queue # <<>> /\ sched = "wait" /\ ~kick /\ Quiet
        /\ \A g \in Elems(queue) : g \in tasks /\ status[g] = "Waiting")
      => Cardinality(Downloading) >= limit

(* pause: the intent is set first, so a cancelled worker turns to Paused;  *)
(* only a removal removes a task.                                          *)
OnlyRemoveRemoves ==
    [][\A g \in Gid : status[g] # "Removed" /\ status'[g] = "Removed"
         => \/ intent[g] = "Remove"
            \/ \E c \in Caller : At(c, "r_removed") /\ call[c].gid = g]_vars
=============================================================================
