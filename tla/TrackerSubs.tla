---------------------------- MODULE TrackerSubs ----------------------------
(***************************************************************************)
(* The tracker lists of xfer-engine (manager.rs): the global list with the *)
(* sources of every entry, the subscriptions that feed it, the background  *)
(* refresher, and how additions reach a BT task and its running engine.    *)
(*                                                                         *)
(* Every region of the manager's mutex is one step, and so is every use of *)
(* sub_pending, of the task's own list and of bt_engines.  The refresher   *)
(* and the RPC handlers are processes of one kind: both fetch a remote     *)
(* list with no lock held and apply it later.                              *)
(***************************************************************************)
EXTENDS Naturals, FiniteSets, Sequences, TLC

CONSTANTS
    Url,        \* trackers
    Sub,        \* subscription ids; a removed one is never used again
    NoSub,
    Manual,     \* the source "manual"
    Handler,     \* concurrent RPC handlers
    Refresher,  \* the background task of spawn_scheduler
    Asked,         \* operations that happen
    Legacy,     \* trackers restored from a session without trackerSources
    MaxPending  \* bound: length of sub_pending when a handler adds to it

Proc == Handler \cup {Refresher}
Requests == {"add", "remove", "replace", "addSub", "removeSub", "toggle", "refresh",
        "refreshAll", "hour", "taskAdd", "engine", "autosave", "crash"}

ASSUME SubsAssumption ==
    /\ NoSub \notin Sub /\ Manual \notin Sub \cup {NoSub}
    /\ IsFiniteSet(Sub)
    /\ Refresher \notin Handler
    /\ Asked \subseteq Requests
    /\ Legacy \subseteq Url
    /\ MaxPending \in Nat \ {0}

VARIABLES
    global,     \* Inner::global_trackers
    sources,    \* Inner::tracker_sources, {} for an absent entry
    subs,       \* Inner::tracker_subscriptions: not yet, enabled, disabled, removed
    last,       \* last_trackers of every subscription
    taskUrls,   \* bt_trackers of a BT task
    engine,     \* its engine, and the trackers the engine announces to
    pending,    \* sub_pending
    subKick,    \* the permit of sub_kick
    proc,       \* the handlers and the refresher
    savedLists       \* the session file

lists == <<global, sources, subs, last>>
subsVars == <<global, sources, subs, last, taskUrls, engine, pending, subKick, proc, savedLists>>

Pc == {"idle", "take", "next", "fetch", "sync", "delta", "inject", "last",
       "untask", "push", "notify", "unclaim", "save"}
SubState == {"new", "on", "off", "gone"}

(* add and rem: what is to be injected and withdrawn; list: the fetched    *)
(* list of sub; todo: the subscriptions left to refresh; check: look at    *)
(* each again before its fetch; save: save the session at the end.         *)
IdleProc == [pc |-> "idle", sub |-> NoSub, add |-> {}, rem |-> {}, list |-> {},
         todo |-> <<>>, check |-> FALSE, save |-> TRUE]

ProcRec == [pc : Pc, sub : Sub \cup {NoSub}, add : SUBSET Url, rem : SUBSET Url,
            list : SUBSET Url, todo : Seq(Sub), check : BOOLEAN, save : BOOLEAN]
SavedRec == [global : SUBSET Url, sources : [Url -> SUBSET (Sub \cup {Manual})],
             subs : [Sub -> SubState], last : [Sub -> SUBSET Url],
             taskUrls : SUBSET Url]

Snapshot == [global |-> global, sources |-> sources, subs |-> subs, last |-> last,
             taskUrls |-> taskUrls]

SubsTypeOK ==
    /\ global \subseteq Url
    /\ sources \in [Url -> SUBSET (Sub \cup {Manual})]
    /\ subs \in [Sub -> SubState]
    /\ last \in [Sub -> SUBSET Url]
    /\ taskUrls \subseteq Url
    /\ engine \in [pc : {"off", "global", "register", "on"}, urls : SUBSET Url]
    /\ pending \in Seq(Sub)
    /\ subKick \in BOOLEAN
    /\ proc \in [Proc -> ProcRec]
    /\ savedLists \in SavedRec

SubsInit ==
    /\ global = Legacy
    /\ sources = [u \in Url |-> {}]
    /\ subs = [s \in Sub |-> "new"]
    /\ last = [s \in Sub |-> {}]
    /\ taskUrls = {}
    /\ engine = [pc |-> "off", urls |-> {}]
    /\ pending = <<>>
    /\ subKick = FALSE
    /\ proc = [p \in Proc |-> IdleProc]
    /\ savedLists = Snapshot

----------------------------------------------------------------------------
(* Helpers. *)

ProcAt(p, pc) == proc[p].pc = pc
ProcTo(p, pc) == proc' = [proc EXCEPT ![p].pc = pc]
Become(p, r) == proc' = [proc EXCEPT ![p] = r]
MayCall(c, op) == op \in Asked /\ ProcAt(c, "idle")

Claims(s) == {u \in Url : s \in sources[u]}

(* Another enabled subscription had the tracker in its last list. *)
OtherProvides(s, u) == \E t \in Sub \ {s} : subs[t] = "on" /\ u \in last[t]

(* Mutant: a claim is released as if it were the only one. *)
ReleasedAlone(s, D) == D

(* release_tracker_claim for each tracker of D: the ones nobody else needs. *)
Released(s, D) ==
    {u \in D : sources[u] \subseteq {s} /\ ~OtherProvides(s, u)}

Without(s, D) ==
    [u \in Url |-> IF u \in Released(s, D) THEN {}
                   ELSE IF u \in D THEN sources[u] \ {s} ELSE sources[u]]

(* unclaim_trackers_locked *)
UnclaimAll(s) ==
    /\ global' = global \ Released(s, Claims(s))
    /\ sources' = Without(s, Claims(s))

----------------------------------------------------------------------------
(* The global list. *)

AddTracker(c, u) ==
    /\ MayCall(c, "add") /\ u \notin global
    /\ global' = global \cup {u}
    /\ sources' = [sources EXCEPT ![u] = @ \cup {Manual}]
    /\ Become(c, [IdleProc EXCEPT !.pc = "delta", !.add = {u}])
    /\ UNCHANGED <<subs, last, taskUrls, engine, pending, subKick, savedLists>>

RemoveTracker(c, u) ==
    /\ MayCall(c, "remove") /\ u \in global
    /\ global' = global \ {u}
    /\ sources' = [sources EXCEPT ![u] = {}]
    /\ Become(c, [IdleProc EXCEPT !.pc = "untask", !.rem = {u}])
    /\ UNCHANGED <<subs, last, taskUrls, engine, pending, subKick, savedLists>>

(* Mutant: replaced trackers keep their sources. *)
ReplaceTrackersOnly(c, L) ==
    /\ MayCall(c, "replace")
    /\ global' = L
    /\ sources' = [u \in Url |->
                     IF u \in L \ global THEN sources[u] \cup {Manual} ELSE sources[u]]
    /\ Become(c, [IdleProc EXCEPT !.pc = "delta", !.add = L \ global,
                              !.rem = global \ L])
    /\ UNCHANGED <<subs, last, taskUrls, engine, pending, subKick, savedLists>>

(* change_global_option with bt-trackers: the whole list is replaced. *)
ReplaceTrackers(c, L) ==
    /\ MayCall(c, "replace")
    /\ global' = L
    /\ sources' = [u \in Url |->
                     IF u \in L \ global THEN sources[u] \cup {Manual}
                     ELSE IF u \in global \ L THEN {} ELSE sources[u]]
    /\ Become(c, [IdleProc EXCEPT !.pc = "delta", !.add = L \ global,
                              !.rem = global \ L])
    /\ UNCHANGED <<subs, last, taskUrls, engine, pending, subKick, savedLists>>

(* apply_tracker_delta: the task lists, then the running engines. *)
DeltaTask(p) ==
    /\ ProcAt(p, "delta")
    /\ taskUrls' = taskUrls \cup proc[p].add
    /\ ProcTo(p, "inject")
    /\ UNCHANGED <<lists, engine, pending, subKick, savedLists>>

DeltaEngine(p) ==
    /\ ProcAt(p, "inject")
    /\ engine' = IF engine.pc = "on"
                 THEN [engine EXCEPT !.urls = @ \cup proc[p].add] ELSE engine
    /\ ProcTo(p, IF proc[p].sub # NoSub THEN "last"
               ELSE IF proc[p].rem # {} THEN "untask" ELSE "save")
    /\ UNCHANGED <<lists, taskUrls, pending, subKick, savedLists>>

(* The task lists lose what the user removed; engines keep it. *)
Untask(c) ==
    /\ ProcAt(c, "untask")
    /\ taskUrls' = taskUrls \ proc[c].rem
    /\ ProcTo(c, "save")
    /\ UNCHANGED <<lists, engine, pending, subKick, savedLists>>

(* add_trackers: trackers of one task. *)
AddTaskTracker(c, u) ==
    /\ MayCall(c, "taskAdd") /\ u \notin taskUrls
    /\ taskUrls' = taskUrls \cup {u}
    /\ Become(c, [IdleProc EXCEPT !.pc = "inject", !.add = {u}])
    /\ UNCHANGED <<lists, engine, pending, subKick, savedLists>>

----------------------------------------------------------------------------
(* drive_bt_download: the announce list of a new engine. *)

EngineStart ==
    /\ "engine" \in Asked /\ engine.pc = "off"
    /\ engine' = [pc |-> "global", urls |-> taskUrls]
    /\ UNCHANGED <<lists, taskUrls, pending, subKick, proc, savedLists>>

EngineGlobal ==
    /\ engine.pc = "global"
    /\ engine' = [pc |-> "register", urls |-> engine.urls \cup global]
    /\ UNCHANGED <<lists, taskUrls, pending, subKick, proc, savedLists>>

EngineRegister ==
    /\ engine.pc = "register"
    /\ engine' = [engine EXCEPT !.pc = "on"]
    /\ UNCHANGED <<lists, taskUrls, pending, subKick, proc, savedLists>>

EngineStop ==
    /\ engine.pc = "on"
    /\ engine' = [pc |-> "off", urls |-> {}]
    /\ UNCHANGED <<lists, taskUrls, pending, subKick, proc, savedLists>>

----------------------------------------------------------------------------
(* Subscriptions. *)

AddSubscription(c, s) ==
    /\ MayCall(c, "addSub") /\ subs[s] = "new" /\ Len(pending) < MaxPending
    /\ \E e \in {"on", "off"} :
         /\ subs' = [subs EXCEPT ![s] = e]
         /\ Become(c, [IdleProc EXCEPT !.pc = IF e = "on" THEN "push" ELSE "save",
                                   !.sub = s])
    /\ UNCHANGED <<global, sources, last, taskUrls, engine, pending, subKick, savedLists>>

Push(c) ==
    /\ ProcAt(c, "push")
    /\ pending' = Append(pending, proc[c].sub)
    /\ ProcTo(c, "notify")
    /\ UNCHANGED <<lists, taskUrls, engine, subKick, savedLists>>

(* Mutant: the refresher is not woken. *)
NotifyForgotten(c) ==
    /\ ProcAt(c, "notify")
    /\ ProcTo(c, "save")
    /\ UNCHANGED <<lists, taskUrls, engine, pending, subKick, savedLists>>

Notify(c) ==
    /\ ProcAt(c, "notify")
    /\ subKick' = TRUE
    /\ ProcTo(c, "save")
    /\ UNCHANGED <<lists, taskUrls, engine, pending, savedLists>>

RemoveSubscription(c, s) ==
    /\ MayCall(c, "removeSub") /\ subs[s] \in {"on", "off"}
    /\ subs' = [subs EXCEPT ![s] = "gone"]
    /\ UnclaimAll(s)
    /\ Become(c, [IdleProc EXCEPT !.pc = "save"])
    /\ UNCHANGED <<last, taskUrls, engine, pending, subKick, savedLists>>

(* toggle_subscription flips the switch in one region ... *)
ToggleSubscription(c, s) ==
    /\ MayCall(c, "toggle") /\ subs[s] \in {"on", "off"} /\ Len(pending) < MaxPending
    /\ subs' = [subs EXCEPT ![s] = IF @ = "on" THEN "off" ELSE "on"]
    /\ Become(c, [IdleProc EXCEPT !.pc = IF subs[s] = "on" THEN "unclaim" ELSE "push",
                              !.sub = s])
    /\ UNCHANGED <<global, sources, last, taskUrls, engine, pending, subKick, savedLists>>

(* ... and gives up the claims of a disabled one in the next. *)
Unclaim(c) ==
    /\ ProcAt(c, "unclaim")
    /\ UnclaimAll(proc[c].sub)
    /\ ProcTo(c, "save")
    /\ UNCHANGED <<subs, last, taskUrls, engine, pending, subKick, savedLists>>

----------------------------------------------------------------------------
(* Refreshing. *)

(* refresh_subscription; a disabled subscription is refreshed too. *)
RefreshOne(c, s) ==
    /\ MayCall(c, "refresh") /\ subs[s] \in {"on", "off"}
    /\ Become(c, [IdleProc EXCEPT !.pc = "next", !.todo = <<s>>])
    /\ UNCHANGED <<lists, taskUrls, engine, pending, subKick, savedLists>>

Orders(S) == {q \in [1..Cardinality(S) -> S] : \A s \in S : \E i \in DOMAIN q : q[i] = s}
Enabled == {s \in Sub : subs[s] = "on"}

RefreshAll(c) ==
    /\ MayCall(c, "refreshAll") /\ Enabled # {}
    /\ \E q \in Orders(Enabled) : Become(c, [IdleProc EXCEPT !.pc = "next", !.todo = q])
    /\ UNCHANGED <<lists, taskUrls, engine, pending, subKick, savedLists>>

(* The hourly check: those whose last update is a day old; time passes as  *)
(* it likes.  It saves only if a refresh succeeds.                         *)
HourTick ==
    /\ "hour" \in Asked /\ ProcAt(Refresher, "idle") /\ ~subKick
    /\ \E E \in (SUBSET Enabled) \ {{}} : \E q \in Orders(E) :
         Become(Refresher, [IdleProc EXCEPT !.pc = "next", !.todo = q, !.save = FALSE])
    /\ UNCHANGED <<lists, taskUrls, engine, pending, subKick, savedLists>>

SubWake ==
    /\ ProcAt(Refresher, "idle") /\ subKick
    /\ subKick' = FALSE
    /\ ProcTo(Refresher, "take")
    /\ UNCHANGED <<lists, taskUrls, engine, pending, savedLists>>

(* drain_pending_and_refresh takes the whole of sub_pending. *)
TakePending ==
    /\ ProcAt(Refresher, "take")
    /\ pending' = <<>>
    /\ Become(Refresher, [IdleProc EXCEPT !.pc = "next", !.todo = pending, !.check = TRUE])
    /\ UNCHANGED <<lists, taskUrls, engine, subKick, savedLists>>

NextSub(p) ==
    LET s == Head(proc[p].todo)
        skip == proc[p].check /\ subs[s] # "on" IN
    /\ ProcAt(p, "next")
    /\ IF proc[p].todo = <<>>
       THEN Become(p, [IdleProc EXCEPT !.pc = IF proc[p].save THEN "save" ELSE "idle"])
       ELSE Become(p, [proc[p] EXCEPT !.todo = Tail(@), !.sub = s,
                                      !.pc = IF skip THEN "next" ELSE "fetch"])
    /\ UNCHANGED <<lists, taskUrls, engine, pending, subKick, savedLists>>

(* The remote list arrives; an error or an empty list changes nothing. *)
Fetch(p, L) ==
    /\ ProcAt(p, "fetch")
    /\ Become(p, [proc[p] EXCEPT !.pc = IF L = {} THEN "next" ELSE "sync", !.list = L])
    /\ UNCHANGED <<lists, taskUrls, engine, pending, subKick, savedLists>>

(* Mutant: the refreshed list is added, what it no longer holds is kept. *)
SyncAddOnly(p) ==
    LET s == proc[p].sub
        L == proc[p].list IN
    /\ ProcAt(p, "sync")
    /\ global' = global \cup L
    /\ sources' = [u \in Url |-> IF u \in L THEN sources[u] \cup {s} ELSE sources[u]]
    /\ Become(p, [proc[p] EXCEPT !.pc = "delta", !.add = L \ global])
    /\ UNCHANGED <<subs, last, taskUrls, engine, pending, subKick, savedLists>>

(* sync_trackers_locked, for a subscription that may be gone by now. *)
Sync(p) ==
    LET s == proc[p].sub
        L == proc[p].list
        dropped == Claims(s) \ L IN
    /\ ProcAt(p, "sync")
    /\ global' = (global \ Released(s, dropped)) \cup L
    /\ sources' = [u \in Url |-> IF u \in L THEN sources[u] \cup {s}
                                            ELSE Without(s, dropped)[u]]
    /\ Become(p, [proc[p] EXCEPT !.pc = "delta", !.add = L \ global])
    /\ UNCHANGED <<subs, last, taskUrls, engine, pending, subKick, savedLists>>

SetLast(p) ==
    LET s == proc[p].sub IN
    /\ ProcAt(p, "last")
    /\ last' = IF subs[s] \in {"on", "off"}
               THEN [last EXCEPT ![s] = proc[p].list] ELSE last
    /\ Become(p, [proc[p] EXCEPT !.pc = "next", !.add = {}, !.save = TRUE])
    /\ UNCHANGED <<global, sources, subs, taskUrls, engine, pending, subKick, savedLists>>

----------------------------------------------------------------------------
(* Mutant: the refresher does not save what it changed. *)
SaveCallersOnly(p) ==
    /\ ProcAt(p, "save")
    /\ savedLists' = IF p = Refresher THEN savedLists ELSE Snapshot
    /\ Become(p, IdleProc)
    /\ UNCHANGED <<lists, taskUrls, engine, pending, subKick>>

(* save_session_now *)
Save(p) ==
    /\ ProcAt(p, "save")
    /\ savedLists' = Snapshot
    /\ Become(p, IdleProc)
    /\ UNCHANGED <<lists, taskUrls, engine, pending, subKick>>

SaveLists ==
    /\ "autosave" \in Asked
    /\ savedLists' = Snapshot
    /\ UNCHANGED <<lists, taskUrls, engine, pending, subKick, proc>>

(* The process dies and start_with_session restores the saved lists. *)
Crash ==
    /\ "crash" \in Asked
    /\ global' = savedLists.global
    /\ sources' = savedLists.sources
    /\ subs' = savedLists.subs
    /\ last' = savedLists.last
    /\ taskUrls' = savedLists.taskUrls
    /\ engine' = [pc |-> "off", urls |-> {}]
    /\ pending' = <<>>
    /\ subKick' = FALSE
    /\ proc' = [p \in Proc |-> IdleProc]
    /\ UNCHANGED savedLists

----------------------------------------------------------------------------
Call(c) ==
    \/ \E u \in Url : AddTracker(c, u) \/ RemoveTracker(c, u) \/ AddTaskTracker(c, u)
    \/ \E L \in SUBSET Url : ReplaceTrackers(c, L)
    \/ \E s \in Sub : \/ AddSubscription(c, s) \/ RemoveSubscription(c, s)
                      \/ ToggleSubscription(c, s) \/ RefreshOne(c, s)
    \/ RefreshAll(c)

GoesOn(p) ==
    \/ DeltaTask(p) \/ DeltaEngine(p) \/ Untask(p) \/ Push(p) \/ Notify(p)
    \/ Unclaim(p) \/ NextSub(p) \/ Sync(p) \/ SetLast(p) \/ Save(p)
    \/ \E L \in SUBSET Url : Fetch(p, L)

Refresh == SubWake \/ TakePending \/ GoesOn(Refresher)
Engine == EngineStart \/ EngineGlobal \/ EngineRegister \/ EngineStop

SubsNext ==
    \/ \E c \in Handler : Call(c)
    \/ \E p \in Proc : GoesOn(p)
    \/ SubWake \/ TakePending \/ HourTick \/ Engine \/ SaveLists \/ Crash

SubsSpec == SubsInit /\ [][SubsNext]_subsVars

(* The runtime goes on with a call in flight and with the refresher; a     *)
(* fetch ends, by its timeout of 15 s if need be.                          *)
SubsFairSpec ==
    /\ SubsSpec
    /\ WF_subsVars(Refresh)
    /\ \A c \in Handler : WF_subsVars(GoesOn(c))

----------------------------------------------------------------------------
(* Properties. *)

(* Sources and list agree: what has a source is in the global list, after  *)
(* every overlap of refreshes, toggles, removals, replacements and a       *)
(* restart in the midst of them.                                           *)
SourcesListed == \A u \in Url : sources[u] # {} => u \in global

(* No subscription takes away what the user added: a manual tracker leaves *)
(* the global list only when the user removes it, replaces the list, or by *)
(* a restart.                                                              *)
ManualKept ==
    [][\A u \in Url : Manual \in sources[u] /\ u \notin global'
         => \/ \E c \in Handler : \/ RemoveTracker(c, u)
                                 \/ \E L \in SUBSET Url : ReplaceTrackers(c, L)
            \/ Crash]_subsVars

(* No lost wake-up of the refresher: with a subscription pending it has a  *)
(* permit, is about to take the list, or a handler is about to notify.     *)
NoLostSubKick ==
    pending # <<>> =>
        \/ subKick \/ ProcAt(Refresher, "take")
        \/ \E p \in Proc : ProcAt(p, "notify")

Fetching(s) == \E p \in Proc : proc[p].sub = s /\ ProcAt(p, "fetch")

(* A subscription that is added or enabled is fetched, unless it is        *)
(* switched off or removed before its turn.                                *)
PendingFetched ==
    \A s \in Sub : (\E i \in DOMAIN pending : pending[i] = s)
                     ~> (Fetching(s) \/ subs[s] # "on")

AllIdle == \A p \in Proc : ProcAt(p, "idle")

(* With nothing in flight, what a subscription claims is what it last      *)
(* delivered, and a switched off or removed one claims nothing.            *)
ClaimsAreLast ==
    AllIdle => \A s \in Sub : Claims(s) \subseteq (IF subs[s] = "on" THEN last[s] ELSE {})

(* With nothing in flight the session file holds the current lists.        *)
TrackersSaved == AllIdle => savedLists = Snapshot

----------------------------------------------------------------------------
(* For TLC.  Trackers, subscriptions and handlers are interchangeable; no   *)
(* instance that uses this has Legacy trackers.                             *)
Symmetry == Permutations(Url) \cup Permutations(Sub) \cup Permutations(Handler)

(* Bound: the hourly refresh meets one handler at a time, and while an      *)
(* engine is built or runs only the refresher changes the lists.            *)
Hourly == proc[Refresher].pc \notin {"idle", "take", "save"} /\ ~proc[Refresher].check
Calm ==
    /\ Hourly => \E c \in Handler : ProcAt(c, "idle")
    /\ engine.pc # "off" => \A c \in Handler : ProcAt(c, "idle")
=============================================================================
