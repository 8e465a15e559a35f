--------------------------- MODULE ManagerProofs ---------------------------
(* Proofs about what manager.rs keeps under its mutex.  TaskManager, for    *)
(* every set of tasks, handlers and workers and every limit: typing, no     *)
(* leaked slot, no launch beyond the limit, no lost wake-up, a session file *)
(* that is never left behind, no end before the files are chosen.           *)
(* TrackerSubs, for every set of trackers, subscriptions and handlers:      *)
(* typing, sources that agree with the list, manual trackers that no        *)
(* subscription takes away, no lost wake-up of the refresher, a session     *)
(* file that holds the lists.                                               *)
EXTENDS TaskManager, TrackerSubs, FiniteSetTheorems, TLAPS

----------------------------------------------------------------------------
(* Retain. *)

(* Every rank up to the number of kept elements is taken: Rank is an       *)
(* injection into 1..Cardinality(K), hence onto.                           *)
LEMMA RankOnto ==
    ASSUME NEW K \in SUBSET Nat, IsFiniteSet(K)
    PROVE  \A n \in 1..Cardinality(K) : \E i \in K : Rank(K, i) = n
<1> DEFINE Below(i) == {j \in K : j <= i}
           f == [i \in K |-> Rank(K, i)]
<1>1. Cardinality(K) \in Nat
  BY FS_CardinalityType
<1>2. ASSUME NEW i \in K
      PROVE  /\ IsFiniteSet(Below(i)) /\ Rank(K, i) = Cardinality(Below(i))
             /\ Rank(K, i) \in 1..Cardinality(K)
  <2>1. Below(i) \in SUBSET K /\ i \in Below(i)
    OBVIOUS
  <2>2. IsFiniteSet(Below(i)) /\ Cardinality(Below(i)) <= Cardinality(K)
    BY <2>1, FS_Subset
  <2>3. Cardinality(Below(i)) \in Nat /\ Cardinality(Below(i)) # 0
    BY <2>1, <2>2, FS_CardinalityType, FS_EmptySet
  <2> QED BY <1>1, <2>2, <2>3 DEF Rank
<1>3. ASSUME NEW i \in K, NEW j \in K, i < j
      PROVE  Rank(K, i) # Rank(K, j)
  <2>0. i \in Nat /\ j \in Nat /\ \A k \in K : k \in Nat
    OBVIOUS
  <2>a. \A k \in Below(i) : k \in Below(j)
    BY <1>3, <2>0
  <2>b. j \in Below(j) /\ j \notin Below(i)
    BY <1>3, <2>0
  <2>1. Below(i) \in SUBSET Below(j) /\ j \in Below(j) /\ j \notin Below(i)
    BY <2>a, <2>b
  <2>2. Cardinality(Below(j)) # Cardinality(Below(i))
    BY <1>2, <2>1, FS_Subset
  <2> QED BY <1>2, <2>2
<1>4. f \in Injection(K, 1..Cardinality(K))
  <2>1. f \in [K -> 1..Cardinality(K)]
    BY <1>2
  <2>2. ASSUME NEW i \in K, NEW j \in K, f[i] = f[j] PROVE i = j
    BY <1>3, <2>2
  <2> QED BY <2>1, <2>2 DEF Injection, IsInjective
<1>5. f \in Surjection(K, 1..Cardinality(K))
  <2>1. Cardinality(1..Cardinality(K)) = Cardinality(K) /\ IsFiniteSet(1..Cardinality(K))
    BY <1>1, FS_Interval
  <2> QED BY <1>4, <2>1, FS_Injection
<1> QED BY <1>5 DEF Surjection

LEMMA RetainType ==
    ASSUME NEW S, NEW s \in Seq(S), NEW g
    PROVE  Retain(s, g) \in Seq(S)
<1>1. Kept(s, g) \in SUBSET (1..Len(s)) /\ Kept(s, g) \in SUBSET Nat
  BY DEF Kept
<1>2. IsFiniteSet(Kept(s, g)) /\ Cardinality(Kept(s, g)) \in Nat
  <2>1. Len(s) \in Int /\ IsFiniteSet(1..Len(s))
    BY FS_Interval
  <2> QED BY <1>1, <2>1, FS_Subset, FS_CardinalityType
<1>3. ASSUME NEW n \in 1..Cardinality(Kept(s, g))
      PROVE  s[CHOOSE i \in Kept(s, g) : Rank(Kept(s, g), i) = n] \in S
  <2>1. (CHOOSE i \in Kept(s, g) : Rank(Kept(s, g), i) = n) \in Kept(s, g)
    BY <1>1, <1>2, RankOnto
  <2>2. s \in [1..Len(s) -> S]
    OBVIOUS
  <2> QED BY <1>1, <2>1, <2>2
<1>4. Retain(s, g) \in [1..Cardinality(Kept(s, g)) -> S]
  BY <1>3 DEF Retain
<1> QED BY <1>2, <1>4

LEMMA RetainEmpty ==
    ASSUME NEW S, NEW s \in Seq(S), NEW g, s = <<>>
    PROVE  Retain(s, g) = <<>>
<1>1. Kept(s, g) = {}
  BY DEF Kept
<1>2. Cardinality(Kept(s, g)) = 0
  BY <1>1, FS_EmptySet
<1> QED BY <1>2 DEF Retain
----------------------------------------------------------------------------
(* Typing. *)

(* A busy worker and a handler that works on a task have one. *)
GidsKnown ==
    /\ \A w \in Worker : run[w].pc # "free" => run[w].gid \in Gid
    /\ \A c \in Caller : call[c].pc \notin {"idle", "kick", "save"}
                           => call[c].gid \in Gid

(* The strengthening that every step preserves: the types, whose tasks are *)
(* at work, and what the scheduler checked while it holds the lock.        *)
TypeInv == TypeOK /\ GidsKnown /\ LaunchReady

RunRec == [pc : RunPc, gid : Gid \cup {NoGid}, tok : Token, stub : BOOLEAN,
           tick : {"off", "on", "armed"}, res : Result]
CallRec == [pc : CallPc, gid : Gid \cup {NoGid}, want : Intent,
            then : {"idle", "save"}]

LEMMA RecTypes == TypeOK => run \in [Worker -> RunRec] /\ call \in [Caller -> CallRec]
BY DEF TypeOK, RunRec, CallRec

LEMMA ActiveFinite ==
    ASSUME TypeOK
    PROVE  IsFiniteSet(active) /\ Cardinality(active) \in Nat
BY ConstantsAssumption, FS_Subset, FS_CardinalityType DEF TypeOK

LEMMA SaveType ==
    ASSUME TypeOK, SaveSession
    PROVE  saved' \in [Gid -> {"absent", "waiting", "paused"} \cup Status]
<1>1. \A g \in Gid : Persisted(g) \in {"absent", "waiting", "paused"} \cup Status
  BY DEF TypeOK, Persisted
<1> QED BY <1>1 DEF SaveSession

LEMMA CutType ==
    ASSUME NEW s \in Seq(Gid)
    PROVE  Cut(s) \in Seq(Gid)
<1>1. Overflow(s) \in Nat
  BY ConstantsAssumption DEF Overflow
<1> QED BY <1>1 DEF Cut

LEMMA OutcomeType ==
    ASSUME NEW r, NEW i
    PROVE  Outcome(r, i) \in Status
BY DEF Outcome, Status, Terminal

(* The steps of the scheduler. *)
LEMMA SchedType == TypeInv /\ Sched => TypeInv'
<1> SUFFICES ASSUME TypeInv, Sched PROVE TypeInv'
  OBVIOUS
<1> USE DEF TypeInv, LaunchReady, GidsKnown, inner
<1>1. CASE SchedWake
  BY <1>1 DEF SchedWake, TypeOK
<1>2. CASE SchedLock
  BY <1>2 DEF SchedLock, TypeOK
<1>3. CASE SchedPeek
  <2>0. queue # <<>> => Tail(queue) \in Seq(Gid)
    BY DEF TypeOK
  <2>1. queue' \in Seq(Gid)
    BY <1>3, <2>0 DEF SchedPeek, TypeOK
  <2>2. sched' \in {"wait", "peek", "launch"}
    BY <1>3 DEF SchedPeek, TypeOK
  <2>3. TypeOK'
    BY <1>3, <2>1, <2>2 DEF SchedPeek, TypeOK
  <2>4. LaunchReady'
    BY <1>3 DEF SchedPeek, SlotFree
  <2> QED BY <1>3, <2>3, <2>4 DEF SchedPeek
<1>4. CASE SchedLaunch
  <2>1. Head(queue) \in Gid /\ Tail(queue) \in Seq(Gid)
    BY <1>4 DEF SchedLaunch, TypeOK
  <2>2. PICK w \in Worker :
           run' = [run EXCEPT ![w] = [Free EXCEPT !.pc = "spawned",
                                                  !.gid = Head(queue)]]
    BY <1>4 DEF SchedLaunch
  <2>3. [Free EXCEPT !.pc = "spawned", !.gid = Head(queue)] \in RunRec
    BY <2>1 DEF Free, RunPc, Token, Result, RunRec
  <2>4. run' \in [Worker -> RunRec]
    BY <2>2, <2>3, RecTypes
  <2>5. \A v \in Worker : run'[v].pc # "free" => run'[v].gid \in Gid
    BY <2>1, <2>2, RecTypes DEF Free
  <2>6. status' \in [Gid -> Status]
    BY <1>4 DEF SchedLaunch, TypeOK, Status
  <2>7. TypeOK'
    BY <1>4, <2>1, <2>4, <2>6 DEF SchedLaunch, TypeOK, RunRec
  <2> QED BY <1>4, <2>5, <2>7 DEF SchedLaunch
<1> QED BY <1>1, <1>2, <1>3, <1>4 DEF Sched

(* The steps of a worker. *)
LEMMA RunType == ASSUME NEW w \in Worker PROVE TypeInv /\ Run(w) => TypeInv'
<1> SUFFICES ASSUME TypeInv, Run(w) PROVE TypeInv'
  OBVIOUS
<1> USE DEF TypeInv, LaunchReady, GidsKnown, inner
<1>0. run \in [Worker -> RunRec]
  BY RecTypes
<1>1. CASE RunStart(w)
  <2>1. run' \in [Worker -> RunRec]
    <3>1. run[w] \in RunRec
      BY <1>0
    <3>2. [run[w] EXCEPT !.pc = IF run[w].gid \in Bt THEN "starting" ELSE "driving",
                        !.tok = "cur",
                        !.stub = sel[run[w].gid] # "none"] \in RunRec
      BY <3>1 DEF RunRec, RunPc, Token, Result
    <3>3. run' = [run EXCEPT ![w] = [run[w] EXCEPT !.pc = IF run[w].gid \in Bt THEN "starting" ELSE "driving",
                        !.tok = "cur",
                        !.stub = sel[run[w].gid] # "none"]]
      BY <1>1 DEF RunStart
    <3> QED BY <1>0, <3>2, <3>3
  <2>2. TypeOK'
    BY <1>1, <2>1 DEF RunStart, TypeOK, RunRec, Status, SelState, Intent
  <2>3. \A v \in Worker : run'[v].pc # "free" => run'[v].gid \in Gid
    BY <1>0, <1>1 DEF RunStart, RunRec
  <2> QED BY <1>1, <2>2, <2>3 DEF RunStart
<1>2. CASE RunEngine(w)
  <2>1. run' \in [Worker -> RunRec]
    <3>1. run[w] \in RunRec
      BY <1>0
    <3>2. [run[w] EXCEPT !.pc = "driving", !.tick = "on"] \in RunRec
      BY <3>1 DEF RunRec, RunPc, Token, Result
    <3>3. run' = [run EXCEPT ![w] = [run[w] EXCEPT !.pc = "driving", !.tick = "on"]]
      BY <1>2 DEF RunEngine
    <3> QED BY <1>0, <3>2, <3>3
  <2>2. TypeOK'
    BY <1>2, <2>1 DEF RunEngine, TypeOK, RunRec, Status, SelState, Intent
  <2>3. \A v \in Worker : run'[v].pc # "free" => run'[v].gid \in Gid
    BY <1>0, <1>2 DEF RunEngine, RunRec
  <2> QED BY <1>2, <2>2, <2>3 DEF RunEngine
<1>3. CASE RunSeed(w)
  <2>1. run' \in [Worker -> RunRec]
    BY <1>0, <1>3 DEF RunSeed, RunRec, RunPc, Token, Result
  <2>2. TypeOK'
    BY <1>3, <2>1 DEF RunSeed, TypeOK, RunRec, Status, SelState, Intent
  <2>3. \A v \in Worker : run'[v].pc # "free" => run'[v].gid \in Gid
    BY <1>0, <1>3 DEF RunSeed, RunRec
  <2> QED BY <1>3, <2>2, <2>3 DEF RunSeed
<1>4. CASE RunTick(w)
  <2>1. run' \in [Worker -> RunRec]
    BY <1>0, <1>4 DEF RunTick, RunRec, RunPc, Token, Result
  <2>2. TypeOK'
    BY <1>4, <2>1 DEF RunTick, TypeOK, RunRec, Status, SelState, Intent
  <2>3. \A v \in Worker : run'[v].pc # "free" => run'[v].gid \in Gid
    BY <1>0, <1>4 DEF RunTick, RunRec
  <2> QED BY <1>4, <2>2, <2>3 DEF RunTick
<1>5. CASE RunTickCancel(w)
  <2>1. run' \in [Worker -> RunRec]
    <3>1. run[w] \in RunRec
      BY <1>0
    <3>2. [run[w] EXCEPT !.tick = "off", !.tok = IF run[w].pc # "driving" THEN "none"
                                ELSE IF run[w].tok = "live" THEN "dead"
                                                            ELSE run[w].tok] \in RunRec
      BY <3>1 DEF RunRec, RunPc, Token, Result
    <3>3. run' = [run EXCEPT ![w] = [run[w] EXCEPT !.tick = "off", !.tok = IF run[w].pc # "driving" THEN "none"
                                ELSE IF run[w].tok = "live" THEN "dead"
                                                            ELSE run[w].tok]]
      BY <1>5 DEF RunTickCancel
    <3> QED BY <1>0, <3>2, <3>3
  <2>2. TypeOK'
    BY <1>5, <2>1 DEF RunTickCancel, TypeOK, RunRec, Status, SelState, Intent
  <2>3. \A v \in Worker : run'[v].pc # "free" => run'[v].gid \in Gid
    BY <1>0, <1>5 DEF RunTickCancel, RunRec
  <2> QED BY <1>5, <2>2, <2>3 DEF RunTickCancel
<1>6. CASE \E r \in {"ok", "err", "cancelled"} : RunReturn(w, r)
  <2>a. PICK r \in {"ok", "err", "cancelled"} : RunReturn(w, r)
    BY <1>6
  <2>1. run' \in [Worker -> RunRec]
    <3>1. run[w] \in RunRec
      BY <1>0
    <3>2. [run[w] EXCEPT !.pc = "status", !.res = r, !.stub = FALSE,
                        !.tok = IF run[w].tick = "armed" THEN run[w].tok
                                                         ELSE "none",
                        !.tick = IF run[w].tick = "on" THEN "off"
                                                       ELSE run[w].tick] \in RunRec
      BY <3>1 DEF RunRec, RunPc, Token, Result
    <3>3. run' = [run EXCEPT ![w] = [run[w] EXCEPT !.pc = "status", !.res = r, !.stub = FALSE,
                        !.tok = IF run[w].tick = "armed" THEN run[w].tok
                                                         ELSE "none",
                        !.tick = IF run[w].tick = "on" THEN "off"
                                                       ELSE run[w].tick]]
      BY <2>a DEF RunReturn
    <3> QED BY <1>0, <3>2, <3>3
  <2>2. TypeOK'
    BY <1>6, <2>1 DEF RunReturn, TypeOK, RunRec, Status, SelState, Intent
  <2>3. \A v \in Worker : run'[v].pc # "free" => run'[v].gid \in Gid
    BY <1>0, <1>6 DEF RunReturn, RunRec
  <2> QED BY <1>6, <2>2, <2>3 DEF RunReturn
<1>7. CASE RunStatus(w)
  <2>1. run' \in [Worker -> RunRec]
    <3>1. run[w] \in RunRec
      BY <1>0
    <3>2. [run[w] EXCEPT !.pc = "fin",
                        !.res = IF Outcome(run[w].res, intent[run[w].gid]) \in Terminal
                                THEN "terminal" ELSE "open"] \in RunRec
      BY <3>1 DEF RunRec, RunPc, Token, Result
    <3>3. run' = [run EXCEPT ![w] = [run[w] EXCEPT !.pc = "fin",
                        !.res = IF Outcome(run[w].res, intent[run[w].gid]) \in Terminal
                                THEN "terminal" ELSE "open"]]
      BY <1>7 DEF RunStatus
    <3> QED BY <1>0, <3>2, <3>3
  <2>2. TypeOK'
    BY <1>7, <2>1, OutcomeType DEF RunStatus, TypeOK, RunRec, Status, SelState, Intent
  <2>3. \A v \in Worker : run'[v].pc # "free" => run'[v].gid \in Gid
    BY <1>0, <1>7 DEF RunStatus, RunRec
  <2> QED BY <1>7, <2>2, <2>3 DEF RunStatus
<1>8. CASE RunKick(w)
  <2>1. run' \in [Worker -> RunRec]
    BY <1>0, <1>8 DEF RunKick, RunRec, RunPc, Token, Result
  <2>2. TypeOK'
    BY <1>8, <2>1 DEF RunKick, TypeOK, RunRec, Status, SelState, Intent
  <2>3. \A v \in Worker : run'[v].pc # "free" => run'[v].gid \in Gid
    BY <1>0, <1>8 DEF RunKick, RunRec
  <2> QED BY <1>8, <2>2, <2>3 DEF RunKick
<1>9. CASE RunSave(w)
  <2>1. run' \in [Worker -> RunRec]
    BY <1>0, <1>9, SaveType DEF RunSave, RunRec, RunPc, Token, Result, Free
  <2>2. TypeOK'
    BY <1>9, <2>1, SaveType DEF RunSave, TypeOK, RunRec, Status, SelState, Intent
  <2>3. \A v \in Worker : run'[v].pc # "free" => run'[v].gid \in Gid
    BY <1>0, <1>9 DEF RunSave, RunRec, Free
  <2> QED BY <1>9, <2>2, <2>3 DEF RunSave
<1>10. CASE RunFinish(w)
  <2> DEFINE g == run[w].gid
             done == [run EXCEPT ![w].pc = "kick"]
  <2>1. /\ run[w].pc = "fin" /\ InnerFree /\ sched' = sched /\ limit' = limit
        /\ active' = active \ {g}
        /\ UNCHANGED <<sel, kick, call, saved>>
    BY <1>10 DEF RunFinish
  <2>2. g \in Gid
    BY <2>1
  <2>3. done \in [Worker -> RunRec]
    BY <1>0 DEF RunRec, RunPc
  <2>4. \A u \in Worker : NewToken(u, g) \in Token
    BY <1>0 DEF NewToken, RunRec, Token
  <2>5. [u \in Worker |-> [done[u] EXCEPT !.tok = NewToken(u, g)]]
            \in [Worker -> RunRec]
    BY <2>3, <2>4 DEF RunRec
  <2>6. run' \in [Worker -> RunRec]
    BY <1>10, <2>3, <2>5 DEF RunFinish
  <2>7. \A v \in Worker : run'[v].gid = run[v].gid
                         /\ (run'[v].pc # "free" => run[v].pc # "free")
    BY <1>0, <1>10, <2>1 DEF RunFinish, RunRec
  <2>8a. Append(stopped, g) \in Seq(Gid) /\ Append(queue, g) \in Seq(Gid)
    BY <2>2 DEF TypeOK
  <2>8b. Retain(stopped, g) \in Seq(Gid)
    BY RetainType DEF TypeOK
  <2>8c. Cut(Append(stopped, g)) \in Seq(Gid)
    BY <2>8a, CutType
  <2>9. stopped' \in Seq(Gid) /\ queue' \in Seq(Gid) /\ tasks' \in SUBSET Gid
    BY <1>10, <2>8a, <2>8b, <2>8c DEF RunFinish, TypeOK
  <2>10a. status' \in [Gid -> Status]
    BY <1>10 DEF RunFinish, TypeOK, Status
  <2>10b. intent' \in [Gid -> Intent]
    <3>1. [intent EXCEPT ![g] = "None"] \in [Gid -> Intent]
      BY DEF TypeOK, Intent
    <3>2. intent' = intent \/ intent' = [intent EXCEPT ![g] = "None"]
      BY <1>10 DEF RunFinish
    <3> QED BY <3>1, <3>2 DEF TypeOK
  <2>10c. cancelled' \in [Gid -> BOOLEAN]
    BY <1>10 DEF RunFinish, TypeOK
  <2>11. TypeOK'
    BY <2>1, <2>6, <2>9, <2>10a, <2>10b, <2>10c DEF TypeOK, RunRec
  <2> QED BY <2>1, <2>7, <2>11 DEF InnerFree
<1> QED BY <1>1, <1>2, <1>3, <1>4, <1>5, <1>6, <1>7, <1>8, <1>9, <1>10 DEF Run, WindDown

(* A step of a handler moves its own program counter: the shape they share. *)
LEMMA GotoType ==
    ASSUME TypeInv, NEW c \in Caller, NEW p \in CallPc, Goto(c, p),
           call[c].gid \in Gid \/ p \in {"idle", "kick", "save"}
    PROVE  /\ call' \in [Caller -> CallRec]
           /\ \A d \in Caller : call'[d].pc \notin {"idle", "kick", "save"}
                                  => call'[d].gid \in Gid
BY RecTypes DEF TypeInv, GidsKnown, Goto, CallRec

LEMMA StartType ==
    ASSUME TypeInv, NEW c \in Caller, NEW p \in CallPc,
           NEW g \in Gid \cup {NoGid}, Start(c, g, p),
           g \in Gid \/ p \in {"idle", "kick", "save"}
    PROVE  /\ call' \in [Caller -> CallRec]
           /\ \A d \in Caller : call'[d].pc \notin {"idle", "kick", "save"}
                                  => call'[d].gid \in Gid
<1>1. [Idle EXCEPT !.pc = p, !.gid = g] \in CallRec
  BY DEF Idle, CallRec, Intent
<1> QED BY <1>1, RecTypes DEF TypeInv, GidsKnown, Start, Idle

LEMMA StartCancelType ==
    ASSUME TypeInv, NEW c \in Caller, NEW g \in Gid, NEW i \in Intent,
           NEW t \in {"idle", "save"}, StartCancel(c, g, i, t)
    PROVE  /\ call' \in [Caller -> CallRec]
           /\ \A d \in Caller : call'[d].pc \notin {"idle", "kick", "save"}
                                  => call'[d].gid \in Gid
<1>1. [pc |-> "intent", gid |-> g, want |-> i, then |-> t] \in CallRec
  BY DEF CallRec, CallPc
<1> QED BY <1>1, RecTypes DEF TypeInv, GidsKnown, StartCancel

(* The first step of a handler. *)
LEMMA BeginType == ASSUME NEW c \in Caller PROVE TypeInv /\ Begin(c) => TypeInv'
<1> SUFFICES ASSUME TypeInv, Begin(c) PROVE TypeInv'
  OBVIOUS
<1> DEFINE CallOK == /\ call' \in [Caller -> CallRec]
                     /\ \A d \in Caller : call'[d].pc \notin {"idle", "kick", "save"}
                                            => call'[d].gid \in Gid
<1> USE DEF TypeInv, LaunchReady, inner
<1>1. ASSUME NEW g \in Gid, Add(c, g) PROVE TypeInv'
  <2>1. CallOK
    BY <1>1, StartType DEF Add, CallPc
  <2>2. queue' \in Seq(Gid)
    <3>1. PICK i \in 0..Len(queue) : queue' = InsertAt(queue, i, g)
      BY <1>1 DEF Add
    <3>2. SubSeq(queue, 1, i) \in Seq(Gid) /\ SubSeq(queue, i + 1, Len(queue)) \in Seq(Gid)
      BY <3>1 DEF TypeOK
    <3> QED BY <3>1, <3>2 DEF InsertAt
  <2>3. status' \in [Gid -> Status] /\ sel' \in [Gid -> SelState]
    BY <1>1 DEF Add, TypeOK, Status, SelState
  <2>4. TypeOK'
    BY <1>1, <2>1, <2>2, <2>3 DEF Add, TypeOK, CallRec
  <2> QED BY <1>1, <2>1, <2>4 DEF Add, CanCall, InnerFree, GidsKnown
<1>2. ASSUME NEW g \in Gid, Pause(c, g) PROVE TypeInv'
  <2>1. CallOK
    BY <1>2, StartType, StartCancelType DEF Pause, CallPc, Intent
  <2>2. TypeOK'
    BY <1>2, <2>1 DEF Pause, TypeOK, CallRec
  <2> QED BY <1>2, <2>1, <2>2 DEF Pause, GidsKnown
<1>3. ASSUME NEW g \in Gid, Unpause(c, g) PROVE TypeInv'
  <2>1. CallOK
    BY <1>3, StartType DEF Unpause, CallPc
  <2>2. TypeOK'
    BY <1>3, <2>1 DEF Unpause, TypeOK, CallRec
  <2> QED BY <1>3, <2>1, <2>2 DEF Unpause, GidsKnown
<1>4. ASSUME NEW g \in Gid, StopSeeding(c, g) PROVE TypeInv'
  <2>1. CallOK
    BY <1>4, StartCancelType DEF StopSeeding, CallPc, Intent
  <2>2. TypeOK'
    BY <1>4, <2>1 DEF StopSeeding, TypeOK, CallRec
  <2> QED BY <1>4, <2>1, <2>2 DEF StopSeeding, GidsKnown
<1>5. ASSUME NEW g \in Gid, Remove(c, g) PROVE TypeInv'
  <2>1. CallOK
    BY <1>5, StartType, StartCancelType DEF Remove, CallPc, Intent
  <2>2. TypeOK'
    BY <1>5, <2>1 DEF Remove, TypeOK, CallRec
  <2> QED BY <1>5, <2>1, <2>2 DEF Remove, GidsKnown
<1>6. ASSUME NEW g \in Gid, RemoveResult(c, g) PROVE TypeInv'
  <2>1. CallOK
    BY <1>6, StartType DEF RemoveResult, CallPc
  <2>2. TypeOK'
    BY <1>6, <2>1 DEF RemoveResult, TypeOK, CallRec
  <2> QED BY <1>6, <2>1, <2>2 DEF RemoveResult, GidsKnown
<1>7. ASSUME NEW g \in Gid, SelectFiles(c, g) PROVE TypeInv'
  <2>1. CallOK
    BY <1>7, StartType, StartCancelType DEF SelectFiles, CallPc, Intent
  <2>2. TypeOK'
    BY <1>7, <2>1 DEF SelectFiles, TypeOK, CallRec, SelState
  <2> QED BY <1>7, <2>1, <2>2 DEF SelectFiles, GidsKnown
<1>8. CASE Purge(c)
  <2>1. CallOK
    BY <1>8, StartType DEF Purge, CallPc
  <2>2. TypeOK'
    BY <1>8, <2>1 DEF Purge, TypeOK, CallRec
  <2> QED BY <1>8, <2>1, <2>2 DEF Purge, GidsKnown
<1>9. CASE SetLimit(c)
  <2>1. CallOK
    BY <1>9, StartType DEF SetLimit, CallPc
  <2>2. limit' \in Limits
    BY <1>9, ConstantsAssumption DEF SetLimit
  <2>3. TypeOK'
    BY <1>9, <2>1, <2>2 DEF SetLimit, TypeOK, CallRec
  <2> QED BY <1>9, <2>1, <2>3 DEF SetLimit, GidsKnown, CanCall, InnerFree
<1> QED BY <1>1, <1>2, <1>3, <1>4, <1>5, <1>6, <1>7, <1>8, <1>9 DEF Begin

(* The later steps of a handler. *)
LEMMA ContinueType == ASSUME NEW c \in Caller PROVE TypeInv /\ Continue(c) => TypeInv'
<1> SUFFICES ASSUME TypeInv, Continue(c) PROVE TypeInv'
  OBVIOUS
<1> DEFINE CallOK == /\ call' \in [Caller -> CallRec]
                     /\ \A d \in Caller : call'[d].pc \notin {"idle", "kick", "save"}
                                            => call'[d].gid \in Gid
<1> USE DEF TypeInv, LaunchReady, inner
<1>0. call \in [Caller -> CallRec] /\ Idle \in CallRec
  BY RecTypes DEF Idle, CallRec, CallPc, Intent
<1>1. CASE Dequeue(c)
  <2>1. CallOK
    BY <1>1, GotoType DEF Dequeue, At, CallPc, GidsKnown
  <2>2. Retain(queue, call[c].gid) \in Seq(Gid)
    BY RetainType DEF TypeOK
  <2>3. TypeOK'
    BY <1>1, <2>1, <2>2 DEF Dequeue, TypeOK, CallRec, Status, Terminal, SelState, Intent
  <2> QED BY <1>1, <2>1, <2>3 DEF Dequeue, GidsKnown, InnerFree
<1>2. CASE PauseSet(c)
  <2>1. CallOK
    BY <1>2, GotoType DEF PauseSet, At, CallPc, GidsKnown
  <2>3. TypeOK'
    BY <1>2, <2>1 DEF PauseSet, TypeOK, CallRec, Status, Terminal, SelState, Intent
  <2> QED BY <1>2, <2>1, <2>3 DEF PauseSet, GidsKnown
<1>3. CASE SetIntent(c)
  <2>1. CallOK
    BY <1>3, GotoType DEF SetIntent, At, CallPc, GidsKnown
  <2>2. intent' \in [Gid -> Intent]
    BY <1>3, <1>0 DEF SetIntent, TypeOK, CallRec
  <2>3. TypeOK'
    BY <1>3, <2>1, <2>2 DEF SetIntent, TypeOK, CallRec
  <2> QED BY <1>3, <2>1, <2>3 DEF SetIntent, GidsKnown
<1>4. CASE Cancel(c)
  <2>0. [Idle EXCEPT !.pc = call[c].then] \in CallRec
    BY <1>0 DEF CallRec, CallPc
  <2>1. CallOK
    BY <1>0, <1>4, <2>0 DEF Cancel, GidsKnown, Idle, CallRec
  <2>3. TypeOK'
    BY <1>4, <2>1 DEF Cancel, TypeOK, CallRec
  <2> QED BY <1>4, <2>1, <2>3 DEF Cancel, GidsKnown
<1>5. CASE UnpauseUnstop(c)
  <2>1. CallOK
    BY <1>5, GotoType DEF UnpauseUnstop, At, CallPc, GidsKnown
  <2>2. Retain(stopped, call[c].gid) \in Seq(Gid)
    BY RetainType DEF TypeOK
  <2>3. TypeOK'
    BY <1>5, <2>1, <2>2 DEF UnpauseUnstop, TypeOK, CallRec, Status, Terminal, SelState, Intent
  <2> QED BY <1>5, <2>1, <2>3 DEF UnpauseUnstop, GidsKnown, InnerFree
<1>6. CASE UnpauseCheck(c)
  <2>1. CallOK
    <3>1. CASE Goto(c, "u_token")
      BY <1>6, <3>1, GotoType DEF UnpauseCheck, At, CallPc, GidsKnown
    <3>2. CASE call' = [call EXCEPT ![c] = Idle]
      BY <1>0, <3>2 DEF GidsKnown, Idle
    <3> QED BY <1>6, <3>1, <3>2 DEF UnpauseCheck
  <2>3. TypeOK'
    BY <1>6, <2>1 DEF UnpauseCheck, TypeOK, CallRec
  <2> QED BY <1>6, <2>1, <2>3 DEF UnpauseCheck, GidsKnown
<1>7. CASE UnpauseToken(c)
  <2>1. CallOK
    BY <1>7, GotoType DEF UnpauseToken, At, CallPc, GidsKnown
  <2> DEFINE g == call[c].gid
  <2>2. run \in [Worker -> RunRec]
    BY RecTypes
  <2>3. \A u \in Worker : NewToken(u, g) \in Token
    BY <2>2 DEF NewToken, RunRec, Token
  <2>4. \A u \in Worker : [run[u] EXCEPT !.tok = NewToken(u, g)] \in RunRec
    BY <2>2, <2>3 DEF RunRec
  <2>5. run' = [u \in Worker |-> [run[u] EXCEPT !.tok = NewToken(u, g)]]
    BY <1>7 DEF UnpauseToken
  <2>6. run' \in [Worker -> RunRec]
    BY <2>4, <2>5
  <2>7. \A u \in Worker : run'[u].gid = run[u].gid /\ run'[u].pc = run[u].pc
    BY <2>2, <2>5 DEF RunRec
  <2>8. cancelled' \in [Gid -> BOOLEAN]
    BY <1>7 DEF UnpauseToken, TypeOK
  <2>9. TypeOK'
    BY <1>7, <2>1, <2>6, <2>8 DEF UnpauseToken, TypeOK, CallRec, RunRec
  <2> QED BY <1>7, <2>1, <2>7, <2>9 DEF UnpauseToken, GidsKnown
<1>8. CASE UnpauseIntent(c)
  <2>1. CallOK
    BY <1>8, GotoType DEF UnpauseIntent, At, CallPc, GidsKnown
  <2>3. TypeOK'
    BY <1>8, <2>1 DEF UnpauseIntent, TypeOK, CallRec, Status, Terminal, SelState, Intent
  <2> QED BY <1>8, <2>1, <2>3 DEF UnpauseIntent, GidsKnown
<1>9. CASE UnpausePush(c)
  <2>1. CallOK
    BY <1>9, GotoType DEF UnpausePush, At, CallPc, GidsKnown
  <2>a. call[c].gid \in Gid
    BY <1>9 DEF UnpausePush, At, GidsKnown
  <2>2. Append(queue, call[c].gid) \in Seq(Gid)
    BY <2>a DEF TypeOK
  <2>3. TypeOK'
    BY <1>9, <2>1, <2>2 DEF UnpausePush, TypeOK, CallRec, Status, Terminal, SelState, Intent
  <2> QED BY <1>9, <2>1, <2>3 DEF UnpausePush, GidsKnown, InnerFree
<1>10. CASE UnpauseSet(c)
  <2>1. CallOK
    BY <1>10, GotoType DEF UnpauseSet, At, CallPc, GidsKnown
  <2>3. TypeOK'
    BY <1>10, <2>1 DEF UnpauseSet, TypeOK, CallRec, Status, Terminal, SelState, Intent
  <2> QED BY <1>10, <2>1, <2>3 DEF UnpauseSet, GidsKnown
<1>11. CASE RemoveSet(c)
  <2>1. CallOK
    BY <1>11, GotoType DEF RemoveSet, At, CallPc, GidsKnown
  <2>3. TypeOK'
    BY <1>11, <2>1 DEF RemoveSet, TypeOK, CallRec, Status, Terminal, SelState, Intent
  <2> QED BY <1>11, <2>1, <2>3 DEF RemoveSet, GidsKnown
<1>12. CASE Drop(c)
  <2>1. CallOK
    BY <1>12, GotoType DEF Drop, At, CallPc, GidsKnown
  <2>2. Retain(stopped, call[c].gid) \in Seq(Gid)
    BY RetainType DEF TypeOK
  <2>3. TypeOK'
    BY <1>12, <2>1, <2>2 DEF Drop, TypeOK, CallRec, Status, Terminal, SelState, Intent
  <2> QED BY <1>12, <2>1, <2>3 DEF Drop, GidsKnown, InnerFree
<1>13. CASE CallKick(c)
  <2>1. CallOK
    BY <1>13, GotoType DEF CallKick, At, CallPc, GidsKnown
  <2>3. TypeOK'
    BY <1>13, <2>1 DEF CallKick, TypeOK, CallRec, Status, Terminal, SelState, Intent
  <2> QED BY <1>13, <2>1, <2>3 DEF CallKick, GidsKnown
<1>14. CASE CallSave(c)
  <2>1. CallOK
    BY <1>0, <1>14 DEF CallSave, GidsKnown, Idle
  <2>2. saved' \in [Gid -> {"absent", "waiting", "paused"} \cup Status]
    BY <1>14, SaveType DEF CallSave
  <2>3. TypeOK'
    BY <1>14, <2>1, <2>2 DEF CallSave, TypeOK, CallRec
  <2> QED BY <1>14, <2>1, <2>3 DEF CallSave, GidsKnown
<1> QED BY <1>1, <1>2, <1>3, <1>4, <1>5, <1>6, <1>7, <1>8, <1>9, <1>10, <1>11, <1>12, <1>13, <1>14 DEF Continue

LEMMA TypeStep == TypeInv /\ [Next]_vars => TypeInv'
<1> SUFFICES ASSUME TypeInv, [Next]_vars PROVE TypeInv'
  OBVIOUS
<1>1. CASE UNCHANGED vars
  BY <1>1 DEF vars, TypeInv, TypeOK, GidsKnown, LaunchReady
<1>2. CASE AutoSave
  <2>1. saved' \in [Gid -> {"absent", "waiting", "paused"} \cup Status]
    BY <1>2, SaveType DEF AutoSave, TypeInv
  <2> QED BY <1>2, <2>1 DEF AutoSave, inner, TypeInv, TypeOK, GidsKnown, LaunchReady
<1> QED BY <1>1, <1>2, SchedType, RunType, BeginType, ContinueType DEF Next

LEMMA TypeInit == Init => TypeInv
<1> SUFFICES ASSUME Init PROVE TypeInv
  OBVIOUS
<1>1. Idle \in CallRec /\ Free \in RunRec
  BY DEF Idle, Free, CallRec, RunRec, CallPc, RunPc, Token, Result, Intent
<1>2. call \in [Caller -> CallRec] /\ run \in [Worker -> RunRec]
  BY <1>1 DEF Init
<1>3. /\ status \in [Gid -> Status] /\ intent \in [Gid -> Intent]
      /\ cancelled \in [Gid -> BOOLEAN] /\ sel \in [Gid -> SelState]
      /\ saved \in [Gid -> {"absent", "waiting", "paused"} \cup Status]
  BY DEF Init, Status, Intent, SelState
<1>3a. tasks \subseteq Gid /\ active \subseteq Gid /\ limit \in Limits
  BY ConstantsAssumption DEF Init
<1>3b. queue \in Seq(Gid) /\ stopped \in Seq(Gid)
  BY DEF Init
<1>3c. kick \in BOOLEAN
  BY DEF Init
<1>3d. sched \in {"wait", "woken", "peek", "launch"}
  BY DEF Init
<1>4. TypeOK
  BY <1>2, <1>3, <1>3a, <1>3b, <1>3c, <1>3d DEF TypeOK, CallRec, RunRec
<1>5. GidsKnown
  BY DEF Init, GidsKnown, Idle, Free
<1> QED BY <1>4, <1>5 DEF Init, TypeInv, LaunchReady

(* Every reachable state is well typed, for every instance: in particular  *)
(* a queued task exists and max_concurrent never becomes 0.                *)
THEOREM TypeCorrect == Spec => []TypeOK
<1>1. TypeInv => TypeOK
  BY DEF TypeInv
<1> QED BY <1>1, TypeInit, TypeStep, PTL DEF Spec

----------------------------------------------------------------------------
(* Slots. *)

(* What a step may do to the workers and to active: keep the workers that  *)
(* occupy a slot, or drop the slot with the worker.                        *)
Occupied == {"spawned", "starting", "driving", "status", "fin"}

LEMMA ActiveStep ==
    TypeInv /\ ActiveHasWorker /\ [Next]_vars => ActiveHasWorker'
<1> SUFFICES ASSUME TypeInv, ActiveHasWorker, [Next]_vars PROVE ActiveHasWorker'
  OBVIOUS
<1>0. run \in [Worker -> RunRec]
  BY RecTypes DEF TypeInv
<1>1. ASSUME active' \subseteq active,
             \A w \in Worker : run[w].pc \in Occupied
                => run'[w].pc \in Occupied /\ run'[w].gid = run[w].gid
      PROVE  ActiveHasWorker'
  BY <1>1 DEF ActiveHasWorker, Occupied
<1>2. CASE UNCHANGED <<active, run>>
  BY <1>1, <1>2
<1>3. CASE SchedLaunch
  <2>1. PICK w \in Worker \ Busy :
           run' = [run EXCEPT ![w] = [Free EXCEPT !.pc = "spawned",
                                                  !.gid = Head(queue)]]
    BY <1>3 DEF SchedLaunch
  <2>2. run'[w].gid = Head(queue) /\ run'[w].pc = "spawned"
    BY <1>0, <2>1 DEF Free
  <2>3. \A v \in Worker : run[v].pc \in Occupied => run'[v] = run[v]
    BY <1>0, <2>1 DEF Busy, Occupied
  <2>4. active' = active \cup {Head(queue)}
    BY <1>3 DEF SchedLaunch
  <2> QED BY <2>2, <2>3, <2>4 DEF ActiveHasWorker, Occupied
<1>4. ASSUME NEW w \in Worker, Run(w) PROVE ActiveHasWorker'
  <2>1. CASE RunFinish(w)
    <3>1. active' = active \ {run[w].gid}
      BY <2>1 DEF RunFinish
    <3>2. \A v \in Worker \ {w} : run'[v].pc = run[v].pc /\ run'[v].gid = run[v].gid
      BY <1>0, <2>1 DEF RunFinish, RunRec
    <3>3. \A g \in active' : \E v \in Worker \ {w} :
             run[v].gid = g /\ run[v].pc \in Occupied
      BY <3>1 DEF ActiveHasWorker, Occupied
    <3> QED BY <3>2, <3>3 DEF ActiveHasWorker, Occupied
  <2>2. CASE RunStart(w)
    BY <1>0, <1>1, <2>2 DEF RunStart, Occupied, RunRec, inner
  <2>3. CASE RunEngine(w)
    BY <1>0, <1>1, <2>3 DEF RunEngine, Occupied, RunRec, inner
  <2>4. CASE RunSeed(w)
    BY <1>2, <2>4 DEF RunSeed, inner
  <2>5. CASE RunTick(w)
    BY <1>0, <1>1, <2>5 DEF RunTick, Occupied, RunRec, inner
  <2>6. CASE RunTickCancel(w)
    BY <1>0, <1>1, <2>6 DEF RunTickCancel, Occupied, RunRec, inner
  <2>7. CASE \E r \in {"ok", "err", "cancelled"} : RunReturn(w, r)
    BY <1>0, <1>1, <2>7 DEF RunReturn, Occupied, RunRec, inner
  <2>8. CASE RunStatus(w)
    BY <1>0, <1>1, <2>8 DEF RunStatus, Occupied, RunRec, inner
  <2>9. CASE RunKick(w)
    BY <1>0, <1>1, <2>9 DEF RunKick, Occupied, RunRec, inner
  <2>10. CASE RunSave(w)
    BY <1>0, <1>1, <2>10 DEF RunSave, Occupied, RunRec, inner
  <2> QED BY <1>4, <2>1, <2>2, <2>3, <2>4, <2>5, <2>6, <2>7, <2>8, <2>9, <2>10
          DEF Run, WindDown
<1>5. ASSUME NEW c \in Caller, Continue(c) PROVE ActiveHasWorker'
  <2>1. CASE UnpauseToken(c)
    BY <1>0, <1>1, <2>1 DEF UnpauseToken, Occupied, RunRec, inner
  <2> QED BY <1>2, <1>5, <2>1
          DEF Continue, Dequeue, PauseSet, SetIntent, Cancel, UnpauseUnstop,
              UnpauseCheck, UnpauseIntent, UnpausePush, UnpauseSet, RemoveSet,
              Drop, CallKick, CallSave, inner
<1>6. ASSUME NEW c \in Caller, Begin(c) PROVE ActiveHasWorker'
  BY <1>2, <1>6 DEF Begin, Add, Pause, Unpause, StopSeeding, Remove, SelectFiles,
                    RemoveResult, Purge, SetLimit, inner
<1>7. CASE SchedWake \/ SchedLock \/ SchedPeek \/ AutoSave \/ UNCHANGED vars
  BY <1>2, <1>7 DEF SchedWake, SchedLock, SchedPeek, AutoSave, inner, vars
<1> QED BY <1>3, <1>4, <1>5, <1>6, <1>7 DEF Next, Sched

(* No slot leaks, for every number of tasks, handlers and workers: a gid   *)
(* in Inner::active always has a run_task that is still to release it.     *)
THEOREM NoSlotLeak == Spec => []ActiveHasWorker
<1>1. Init => ActiveHasWorker
  BY DEF Init, ActiveHasWorker
<1> QED BY <1>1, TypeInit, TypeStep, ActiveStep, PTL DEF Spec

LEMMA BoundStep ==
    TypeInv /\ [Next]_vars
      => (active' \ active # {} => Cardinality(active') <= limit)
<1> SUFFICES ASSUME TypeInv, [Next]_vars, active' \ active # {}
             PROVE  Cardinality(active') <= limit
  OBVIOUS
<1>1. SchedLaunch
  <2>1. ASSUME NEW w \in Worker, Run(w) PROVE active' \subseteq active
    BY <2>1 DEF Run, WindDown, RunStart, RunEngine, RunSeed, RunTick, RunTickCancel,
                RunReturn, RunStatus, RunFinish, RunKick, RunSave, inner
  <2>2. ASSUME NEW c \in Caller, Continue(c) PROVE active' = active
    BY <2>2 DEF Continue, Dequeue, PauseSet, SetIntent, Cancel, UnpauseUnstop,
                UnpauseCheck, UnpauseToken, UnpauseIntent, UnpausePush, UnpauseSet,
                RemoveSet, Drop, CallKick, CallSave, inner
  <2>3. ASSUME NEW c \in Caller, Begin(c) PROVE active' = active
    BY <2>3 DEF Begin, Add, Pause, Unpause, StopSeeding, Remove, SelectFiles,
                RemoveResult, Purge, SetLimit, inner
  <2>4. SchedWake \/ SchedLock \/ SchedPeek \/ AutoSave \/ UNCHANGED vars
          => active' = active
    BY DEF SchedWake, SchedLock, SchedPeek, AutoSave, inner, vars
  <2> QED BY <2>1, <2>2, <2>3, <2>4 DEF Next, Sched
<1>2. active' = active \cup {Head(queue)} /\ Cardinality(active) < limit
  BY <1>1 DEF SchedLaunch, TypeInv, LaunchReady
<1>3. IsFiniteSet(active) /\ Cardinality(active) \in Nat
  BY ActiveFinite DEF TypeInv
<1>4. /\ Cardinality(active') \in Nat
      /\ Cardinality(active') <= Cardinality(active) + 1
  <2>1. /\ IsFiniteSet(active \cup {Head(queue)})
        /\ Cardinality(active \cup {Head(queue)})
             = IF Head(queue) \in active THEN Cardinality(active)
                                         ELSE Cardinality(active) + 1
    BY <1>3, FS_AddElement
  <2> QED BY <1>2, <1>3, <2>1
<1>5. limit \in Nat
  BY ConstantsAssumption DEF TypeInv, TypeOK
<1> QED BY <1>2, <1>3, <1>4, <1>5

(* fill_slots never starts a task beyond max-concurrent-downloads.         *)
THEOREM SlotsBounded == Spec => SlotBound
<1> QED BY TypeInit, TypeStep, BoundStep, PTL DEF Spec, SlotBound

----------------------------------------------------------------------------
(* Wake-ups. *)

(* A full active set is what ends the scheduler's loop beside an empty     *)
(* queue: the seeding tasks it leaves out are part of active.              *)
LEMMA NoSlotMeansFull ==
    ASSUME TypeOK, ~SlotFree
    PROVE  ~(Cardinality(active) < limit)
<1>1. IsFiniteSet(active) /\ Cardinality(active) \in Nat
  BY ActiveFinite
<1>2. Downloading \in SUBSET active
  BY DEF Downloading
<1>3. Cardinality(Downloading) \in Nat /\ Cardinality(Downloading) <= Cardinality(active)
  BY <1>1, <1>2, FS_Subset, FS_CardinalityType
<1>4. limit \in Nat
  BY ConstantsAssumption DEF TypeOK
<1> QED BY <1>1, <1>3, <1>4 DEF SlotFree

LEMMA KickStep == TypeInv /\ NoLostKick /\ [Next]_vars => NoLostKick'
<1> SUFFICES ASSUME TypeInv, NoLostKick, [Next]_vars PROVE NoLostKick'
  OBVIOUS
<1>0. /\ TypeOK /\ run \in [Worker -> RunRec] /\ call \in [Caller -> CallRec]
  BY RecTypes DEF TypeInv
<1>1. KickPending' => NoLostKick'
  BY DEF NoLostKick
<1>2. ASSUME queue' # <<>> => queue # <<>>, active' = active, limit' = limit,
             KickPending => KickPending'
      PROVE  NoLostKick'
  BY <1>2 DEF NoLostKick
<1>3. CASE Sched
  <2>1. CASE SchedWake \/ SchedLock \/ SchedLaunch
    BY <1>1, <2>1 DEF SchedWake, SchedLock, SchedLaunch, KickPending
  <2>2. CASE SchedPeek
    <3>1. CASE sched' = "wait"
      <4>1. queue' = queue /\ active' = active /\ limit' = limit
            /\ (~SlotFree \/ queue = <<>>)
        BY <2>2, <3>1 DEF SchedPeek
      <4> QED BY <1>0, <4>1, NoSlotMeansFull DEF NoLostKick
    <3>2. CASE sched' # "wait"
      BY <1>1, <3>2 DEF KickPending
    <3> QED BY <3>1, <3>2
  <2> QED BY <1>3, <2>1, <2>2 DEF Sched
<1>4. ASSUME NEW w \in Worker, Run(w) PROVE NoLostKick'
  <2>1. CASE RunFinish(w)
    <3>1. run'[w].pc = "kick"
      BY <1>0, <2>1 DEF RunFinish, RunRec
    <3> QED BY <1>1, <3>1 DEF KickPending
  <2>2. CASE RunKick(w)
    BY <1>1, <2>2 DEF RunKick, KickPending
  <2>3. CASE ~RunFinish(w) /\ ~RunKick(w)
    <3>1. UNCHANGED <<queue, active, limit, kick, sched, call>>
      BY <1>4, <2>3 DEF Run, WindDown, RunStart, RunEngine, RunSeed, RunTick, RunReturn,
                 RunTickCancel, RunStatus, RunSave, inner
    <3>2. \A v \in Worker : run[v].pc = "kick" => run'[v].pc = "kick"
      <4>1. CASE RunStart(w) \/ RunEngine(w) \/ RunSave(w)
        BY <1>0, <4>1 DEF RunStart, RunEngine, RunSave
      <4>2. CASE RunSeed(w) \/ RunTick(w)
        BY <1>0, <4>2 DEF RunSeed, RunTick, RunRec
      <4>3. CASE RunTickCancel(w)
        BY <1>0, <4>3 DEF RunTickCancel, RunRec
      <4>4. CASE RunStatus(w) \/ \E r \in {"ok", "err", "cancelled"} : RunReturn(w, r)
        BY <1>0, <4>4 DEF RunStatus, RunReturn
      <4> QED BY <1>4, <2>3, <4>1, <4>2, <4>3, <4>4 DEF Run, WindDown
    <3>3. KickPending => KickPending'
      BY <3>1, <3>2 DEF KickPending
    <3> QED BY <1>2, <3>1, <3>3
  <2> QED BY <2>1, <2>2, <2>3
<1>5. ASSUME NEW c \in Caller, Continue(c) PROVE NoLostKick'
  <2>1. CASE CallKick(c)
    BY <1>1, <2>1 DEF CallKick, KickPending
  <2>2. CASE UnpausePush(c) \/ UnpauseSet(c)
    <3>1. call'[c].pc \in {"kick", "u_wait"}
      BY <1>0, <2>2 DEF UnpausePush, UnpauseSet, Goto, CallRec
    <3> QED BY <1>1, <3>1 DEF KickPending
  <2>3. CASE ~CallKick(c) /\ ~UnpausePush(c) /\ ~UnpauseSet(c)
    <3>1. UNCHANGED <<active, limit, kick, sched>>
      BY <1>5, <2>3 DEF Continue, Dequeue, PauseSet, SetIntent, Cancel, UnpauseUnstop,
                 UnpauseCheck, UnpauseToken, UnpauseIntent, RemoveSet, Drop, CallSave,
                 inner
    <3>2. queue' # <<>> => queue # <<>>
      <4>1. queue' = queue \/ queue' = Retain(queue, call[c].gid)
        BY <1>5, <2>3 DEF Continue, Dequeue, PauseSet, SetIntent, Cancel, UnpauseUnstop,
                 UnpauseCheck, UnpauseToken, UnpauseIntent, RemoveSet, Drop, CallSave,
                 inner
      <4> QED BY <1>0, <4>1, RetainEmpty DEF TypeOK
    <3>3. \A v \in Worker : run'[v].pc = run[v].pc
      BY <1>0, <1>5, <2>3 DEF Continue, Dequeue, PauseSet, SetIntent, Cancel,
                 UnpauseUnstop, UnpauseCheck, UnpauseToken, UnpauseIntent, RemoveSet,
                 Drop, CallSave, RunRec
    <3>4. \A d \in Caller : call[d].pc \in {"kick", "u_wait"} => call'[d].pc = call[d].pc
      BY <1>0, <1>5, <2>3 DEF Continue, Dequeue, PauseSet, SetIntent, Cancel,
                 UnpauseUnstop, UnpauseCheck, UnpauseToken, UnpauseIntent, RemoveSet,
                 Drop, CallSave, At, Goto, CallRec
    <3>5. KickPending => KickPending'
      BY <3>1, <3>3, <3>4 DEF KickPending
    <3> QED BY <1>2, <3>1, <3>2, <3>5
  <2> QED BY <2>1, <2>2, <2>3
<1>6. ASSUME NEW c \in Caller, Begin(c) PROVE NoLostKick'
  <2>1. CASE \E g \in Gid : Add(c, g)
    BY <1>0, <1>1, <2>1 DEF Add, Start, Idle, KickPending
  <2>2. CASE SetLimit(c)
    BY <1>0, <1>1, <2>2 DEF SetLimit, Start, Idle, KickPending
  <2>3. CASE ~(\E g \in Gid : Add(c, g)) /\ ~SetLimit(c)
    <3>1. UNCHANGED <<queue, active, limit, kick, sched, run>>
      BY <1>6, <2>3 DEF Begin, Pause, Unpause, StopSeeding, Remove, SelectFiles,
                 RemoveResult, Purge, inner
    <3>2. \A d \in Caller : call[d].pc \in {"kick", "u_wait"} => call'[d] = call[d]
      BY <1>0, <1>6, <2>3 DEF Begin, Pause, Unpause, StopSeeding, Remove, SelectFiles,
                 RemoveResult, Purge, CanCall, At, Start, StartCancel
    <3>3. KickPending => KickPending'
      BY <3>1, <3>2 DEF KickPending
    <3> QED BY <1>2, <3>1, <3>3
  <2> QED BY <2>1, <2>2, <2>3
<1>7. CASE AutoSave \/ UNCHANGED vars
  BY <1>7 DEF AutoSave, inner, vars, NoLostKick, KickPending
<1> QED BY <1>3, <1>4, <1>5, <1>6, <1>7 DEF Next

(* No wake-up of the scheduler is lost, whatever is interleaved.           *)
THEOREM NoKickLost == Spec => []NoLostKick
<1>1. Init => NoLostKick
  BY DEF Init, NoLostKick
<1> QED BY <1>1, TypeInit, TypeStep, KickStep, PTL DEF Spec

----------------------------------------------------------------------------
(* The session file. *)

(* No task restarts itself: a magnet link with a single file is what does. *)
NoRestart ==
    /\ \A g \in Gid : intent[g] # "Restart"
    /\ \A c \in Caller : call[c].want # "Restart"

(* The file holds what the task is now. *)
Same(g) == RestoredAs(saved[g]) = RestoredAs(Persisted(g))

(* A handler that is still to save.                                        *)
CallSaves(c) ==
    \/ call[c].pc \in {"p_retain", "p_paused", "u_token", "u_intent", "u_push",
                       "u_wait", "r_retain", "r_removed", "r_drop", "drop",
                       "kick", "save"}
    \/ call[c].pc \in {"intent", "cancel"} /\ call[c].then = "save"

Running == {"spawned", "starting", "driving", "status"}
Leaving == {"fin", "kick", "save"}

(* A worker that is still to decide the status of its task, and one that   *)
(* is still to save: because its task ended, or because it is paused.      *)
Runs(w, g) == run[w].gid = g /\ run[w].pc \in Running
Ends(w) == run[w].pc \in Leaving /\ run[w].res = "terminal"
Pauses(w, g) == run[w].gid = g /\ run[w].pc \in Leaving /\ status[g] = "Paused"

(* Whatever the file has wrong, somebody is still to put right.            *)
Covered ==
    \A g \in Gid : \/ Same(g)
                   \/ \E c \in Caller : CallSaves(c)
                   \/ \E w \in Worker : Runs(w, g) \/ Ends(w) \/ Pauses(w, g)

(* A task shown as removed that is still known has somebody to drop it.    *)
Remover ==
    \A g \in tasks : status[g] = "Removed" =>
        \/ \E c \in Caller : call[c].pc = "r_drop" /\ call[c].gid = g
        \/ \E w \in Worker : run[w].pc = "fin" /\ run[w].gid = g
                               /\ run[w].res = "terminal"

SaveInv == TypeInv /\ NoRestart /\ Covered /\ Remover

LEMMA NoRestartStep ==
    ASSUME Single = {}
    PROVE  TypeInv /\ NoRestart /\ [Next]_vars => NoRestart'
<1> SUFFICES ASSUME TypeInv, NoRestart, [Next]_vars PROVE NoRestart'
  OBVIOUS
<1>0. /\ TypeOK /\ run \in [Worker -> RunRec] /\ call \in [Caller -> CallRec]
  BY RecTypes DEF TypeInv
<1>1. CASE UNCHANGED <<intent, call>>
  BY <1>1 DEF NoRestart
<1>2. CASE Sched \/ AutoSave \/ UNCHANGED vars
  BY <1>1, <1>2 DEF Sched, SchedWake, SchedLock, SchedPeek, SchedLaunch, AutoSave,
                    vars, inner
<1>3. ASSUME NEW w \in Worker, Run(w) PROVE NoRestart'
  <2>1. call' = call
    BY <1>3 DEF Run, WindDown, RunStart, RunEngine, RunSeed, RunTick, RunTickCancel,
                RunReturn, RunStatus, RunFinish, RunKick, RunSave
  <2>2. CASE RunTick(w)
    BY <1>0, <2>1, <2>2 DEF RunTick, NoRestart, TypeOK
  <2>3. CASE RunFinish(w)
    BY <1>0, <2>1, <2>3 DEF RunFinish, NoRestart, TypeOK
  <2>4. CASE ~RunTick(w) /\ ~RunFinish(w)
    <3>1. intent' = intent
      BY <1>3, <2>4 DEF Run, WindDown, RunStart, RunEngine, RunSeed, RunTickCancel,
                        RunReturn, RunStatus, RunKick, RunSave
    <3> QED BY <1>1, <2>1, <3>1
  <2> QED BY <2>2, <2>3, <2>4
<1>4. ASSUME NEW c \in Caller, Continue(c) PROVE NoRestart'
  <2>1. CASE SetIntent(c)
    BY <1>0, <2>1 DEF SetIntent, Goto, NoRestart, TypeOK, CallRec
  <2>2. CASE UnpauseIntent(c)
    BY <1>0, <2>2 DEF UnpauseIntent, Goto, NoRestart, TypeOK, CallRec
  <2>3. CASE Cancel(c) \/ UnpauseCheck(c) \/ CallSave(c)
    <3>1. /\ intent' = intent /\ call'[c].want \in {"None", call[c].want}
          /\ \A d \in Caller \ {c} : call'[d] = call[d]
      <4>1. CASE Cancel(c)
        BY <1>0, <4>1 DEF Cancel, Idle
      <4>2. CASE UnpauseCheck(c)
        BY <1>0, <4>2 DEF UnpauseCheck, Goto, Idle, CallRec
      <4>3. CASE CallSave(c)
        BY <1>0, <4>3 DEF CallSave, Idle
      <4> QED BY <2>3, <4>1, <4>2, <4>3
    <3> QED BY <3>1 DEF NoRestart
  <2>4. CASE Dequeue(c) \/ PauseSet(c) \/ UnpauseUnstop(c) \/ UnpauseToken(c)
               \/ UnpausePush(c) \/ UnpauseSet(c) \/ RemoveSet(c) \/ Drop(c)
               \/ CallKick(c)
    <3>1. intent' = intent /\ \E p \in CallPc : Goto(c, p)
      BY <2>4 DEF Dequeue, PauseSet, UnpauseUnstop, UnpauseToken, UnpausePush,
                  UnpauseSet, RemoveSet, Drop, CallKick, CallPc
    <3> QED BY <1>0, <3>1 DEF Goto, NoRestart, CallRec
  <2> QED BY <1>4, <2>1, <2>2, <2>3, <2>4 DEF Continue
<1>5. ASSUME NEW c \in Caller, Begin(c) PROVE NoRestart'
  <2>1. intent' = intent
    BY <1>5 DEF Begin, Add, Pause, Unpause, StopSeeding, Remove, SelectFiles,
                RemoveResult, Purge, SetLimit
  <2>2. \/ \E g \in Gid \cup {NoGid}, p \in CallPc : Start(c, g, p)
        \/ \E g \in Gid, i \in {"Pause", "StopSeeding", "Remove"}, t \in {"idle", "save"} :
             StartCancel(c, g, i, t)
    BY <1>5 DEF Begin, Add, Pause, Unpause, StopSeeding, Remove, SelectFiles,
                RemoveResult, Purge, SetLimit, CallPc
  <2>3. call'[c].want # "Restart" /\ \A d \in Caller \ {c} : call'[d] = call[d]
    <3>1. CASE \E g \in Gid \cup {NoGid}, p \in CallPc : Start(c, g, p)
      BY <1>0, <3>1 DEF Start, Idle
    <3>2. CASE \E g \in Gid, i \in {"Pause", "StopSeeding", "Remove"},
                  t \in {"idle", "save"} : StartCancel(c, g, i, t)
      BY <1>0, <3>2 DEF StartCancel
    <3> QED BY <2>2, <3>1, <3>2
  <2> QED BY <2>1, <2>3 DEF NoRestart
<1> QED BY <1>2, <1>3, <1>4, <1>5 DEF Next

(* A save brings the file up to date for every task.                       *)
LEMMA SaveMakesSame ==
    ASSUME SaveSession, UNCHANGED <<tasks, status>>
    PROVE  Covered'
BY DEF SaveSession, Covered, Same, Persisted

(* A step that changes no task and no save, and after which everybody who  *)
(* was to save or to drop a task still is.                                 *)
LEMMA SilentStep ==
    ASSUME TypeOK, Covered, Remover,
           UNCHANGED <<tasks, status, saved>>,
           \A c \in Caller : CallSaves(c) => CallSaves(c)',
           \A c \in Caller : call[c].pc = "r_drop" => call'[c] = call[c],
           \A w \in Worker :
             /\ run[w].pc \in Running
                  => run'[w].gid = run[w].gid /\ run'[w].pc \in Running
             /\ run[w].pc \in Leaving
                  => /\ run'[w].gid = run[w].gid /\ run'[w].res = run[w].res
                     /\ run'[w].pc \in Leaving
             /\ run[w].pc = "fin" => run'[w].pc = "fin"
    PROVE  Covered' /\ Remover'
<1>1. Covered'
  <2>1. ASSUME NEW g \in Gid, Same(g) PROVE Same(g)'
    BY <2>1 DEF Same, Persisted
  <2>2. ASSUME NEW g \in Gid, NEW w \in Worker, Runs(w, g) \/ Ends(w) \/ Pauses(w, g)
        PROVE  (Runs(w, g) \/ Ends(w) \/ Pauses(w, g))'
    BY <2>2 DEF Runs, Ends, Pauses
  <2> QED BY <2>1, <2>2 DEF Covered
<1>2. Remover'
  BY DEF Remover, Leaving
<1> QED BY <1>1, <1>2

LEMMA CoveredSched == SaveInv /\ Sched => Covered' /\ Remover'
<1> SUFFICES ASSUME SaveInv, Sched PROVE Covered' /\ Remover'
  OBVIOUS
<1>0. /\ TypeOK /\ Covered /\ Remover /\ run \in [Worker -> RunRec]
      /\ call \in [Caller -> CallRec]
  BY RecTypes DEF TypeInv, SaveInv
<1>1. CASE SchedWake \/ SchedLock \/ SchedPeek
  <2>1. UNCHANGED <<tasks, status, saved, call, run>>
    BY <1>1 DEF SchedWake, SchedLock, SchedPeek, inner
  <2>2. \A c \in Caller : CallSaves(c) => CallSaves(c)'
    BY <2>1 DEF CallSaves
  <2> QED BY <1>0, <2>1, <2>2, SilentStep
<1>2. CASE SchedLaunch
  <2> SUFFICES ASSUME NEW h, h = Head(queue) PROVE Covered' /\ Remover'
    OBVIOUS
  <2>1. PICK w \in Worker \ Busy :
           run' = [run EXCEPT ![w] = [Free EXCEPT !.pc = "spawned", !.gid = h]]
    BY <1>2 DEF SchedLaunch
  <2>2. /\ run'[w].gid = h /\ run'[w].pc = "spawned" /\ run[w].pc = "free"
        /\ \A v \in Worker \ {w} : run'[v] = run[v]
    BY <1>0, <2>1 DEF Free, Busy
  <2>3. /\ UNCHANGED <<tasks, call, saved>> /\ status' = [status EXCEPT ![h] = "Active"]
    BY <1>2 DEF SchedLaunch
  <2>4. \A g \in Gid \ {h} : status'[g] = status[g]
    BY <1>0, <2>3 DEF TypeOK
  <2>5. Runs(w, h)'
    BY <2>2 DEF Runs, Running
  <2>6. ASSUME NEW g \in Gid, g # h
        PROVE  \/ Same(g)' \/ (\E c \in Caller : CallSaves(c))'
               \/ (\E v \in Worker : Runs(v, g) \/ Ends(v) \/ Pauses(v, g))'
    <3>1. CASE Same(g)
      BY <2>3, <2>4, <2>6, <3>1 DEF Same, Persisted
    <3>2. CASE \E c \in Caller : CallSaves(c)
      BY <2>3, <3>2 DEF CallSaves
    <3>3. CASE \E v \in Worker : Runs(v, g) \/ Ends(v) \/ Pauses(v, g)
      <4>1. PICK v \in Worker : Runs(v, g) \/ Ends(v) \/ Pauses(v, g)
        BY <3>3
      <4>2. v # w
        BY <2>2, <4>1 DEF Runs, Ends, Pauses, Running, Leaving
      <4>3. (Runs(v, g) \/ Ends(v) \/ Pauses(v, g))'
        BY <2>2, <2>4, <2>6, <4>1, <4>2 DEF Runs, Ends, Pauses
      <4> QED BY <4>3
    <3> QED BY <1>0, <3>1, <3>2, <3>3 DEF Covered
  <2>7. Covered'
    BY <2>5, <2>6 DEF Covered
  <2>8. status'[h] # "Removed" \/ h \notin Gid
    BY <1>0, <2>3 DEF TypeOK
  <2>9. Remover'
    <3> SUFFICES ASSUME NEW g \in tasks, status'[g] = "Removed"
                 PROVE  \/ \E c \in Caller : call'[c].pc = "r_drop" /\ call'[c].gid = g
                        \/ \E v \in Worker : run'[v].pc = "fin" /\ run'[v].gid = g
                               /\ run'[v].res = "terminal"
      BY <2>3 DEF Remover
    <3>1. g \in Gid /\ g # h /\ status[g] = "Removed"
      BY <1>0, <2>4, <2>8 DEF TypeOK
    <3>2. CASE \E c \in Caller : call[c].pc = "r_drop" /\ call[c].gid = g
      BY <2>3, <3>2
    <3>3. CASE \E v \in Worker : run[v].pc = "fin" /\ run[v].gid = g
                               /\ run[v].res = "terminal"
      BY <2>2, <3>3
    <3> QED BY <1>0, <3>1, <3>2, <3>3 DEF Remover
  <2> QED BY <2>7, <2>9
<1> QED BY <1>1, <1>2 DEF Sched

(* Who drops a removed task, after a step that touches the status or the   *)
(* presence of task h only, and moves nobody who drops another one.        *)
LEMMA RemoverKept ==
    ASSUME TypeOK, Remover, NEW h,
           tasks' \subseteq tasks \cup {h},
           \A g \in Gid \ {h} : status'[g] = status[g],
           h \in tasks' => status'[h] # "Removed",
           \A c \in Caller : call[c].pc = "r_drop" /\ call[c].gid # h
                               => call'[c] = call[c],
           \A w \in Worker : run[w].pc = "fin" /\ run[w].gid # h => run'[w] = run[w],
           tasks \subseteq Gid
    PROVE  Remover'
<1> SUFFICES ASSUME NEW g \in tasks', status'[g] = "Removed"
             PROVE  \/ \E c \in Caller : call'[c].pc = "r_drop" /\ call'[c].gid = g
                    \/ \E v \in Worker : run'[v].pc = "fin" /\ run'[v].gid = g
                           /\ run'[v].res = "terminal"
  BY DEF Remover
<1>1. g # h /\ g \in tasks /\ g \in Gid /\ status[g] = "Removed"
  OBVIOUS
<1>2. CASE \E c \in Caller : call[c].pc = "r_drop" /\ call[c].gid = g
  BY <1>1, <1>2
<1>3. CASE \E v \in Worker : run[v].pc = "fin" /\ run[v].gid = g
                           /\ run[v].res = "terminal"
  BY <1>1, <1>3
<1> QED BY <1>1, <1>2, <1>3 DEF Remover

(* What others are still to put right for g, after a step of worker w.     *)
LEMMA OthersCover ==
    ASSUME Covered, NEW w \in Worker, NEW g \in Gid,
           call' = call, saved' = saved,
           g \in tasks' <=> g \in tasks, status'[g] = status[g],
           \A v \in Worker \ {w} : run'[v] = run[v]
    PROVE  \/ Same(g)'
           \/ \E c \in Caller : CallSaves(c)'
           \/ \E v \in Worker : (Runs(v, g) \/ Ends(v) \/ Pauses(v, g))'
           \/ Runs(w, g) \/ Ends(w) \/ Pauses(w, g)
<1>1. CASE Same(g)
  BY <1>1 DEF Same, Persisted
<1>2. CASE \E c \in Caller : CallSaves(c)
  BY <1>2 DEF CallSaves
<1>3. CASE \E v \in Worker \ {w} : Runs(v, g) \/ Ends(v) \/ Pauses(v, g)
  BY <1>3 DEF Runs, Ends, Pauses
<1> QED BY <1>1, <1>2, <1>3 DEF Covered

LEMMA CoveredRun ==
    ASSUME NEW w \in Worker
    PROVE  SaveInv /\ Run(w) => Covered' /\ Remover'
<1> SUFFICES ASSUME SaveInv, Run(w) PROVE Covered' /\ Remover'
  OBVIOUS
<1>0. /\ TypeOK /\ Covered /\ Remover /\ NoRestart /\ run \in [Worker -> RunRec]
      /\ call \in [Caller -> CallRec] /\ run[w] \in RunRec
      /\ tasks \subseteq Gid /\ status \in [Gid -> Status]
  BY RecTypes DEF TypeInv, SaveInv, TypeOK
<1>h. SUFFICES ASSUME NEW h, h = run[w].gid PROVE Covered' /\ Remover'
  OBVIOUS
<1>g. run[w].pc # "free" => h \in Gid
  BY <1>h DEF SaveInv, TypeInv, GidsKnown
<1>1. CASE \/ RunStart(w) \/ RunEngine(w) \/ RunTick(w) \/ RunTickCancel(w) \/ RunKick(w)
           \/ \E r \in {"ok", "err", "cancelled"} : RunReturn(w, r)
  <2>1. UNCHANGED <<tasks, status, saved, call>>
    BY <1>1 DEF RunStart, RunEngine, RunTick, RunTickCancel, RunKick, RunReturn, inner
  <2>2. \A v \in Worker \ {w} : run'[v] = run[v]
    <3>1. CASE RunTick(w)
      BY <1>0, <3>1 DEF RunTick
    <3> QED BY <1>0, <1>1, <3>1 DEF RunStart, RunEngine, RunTickCancel, RunKick, RunReturn
  <2>3. /\ run[w].pc \in Running
             => run'[w].gid = run[w].gid /\ run'[w].pc \in Running
        /\ run[w].pc \in Leaving
             => /\ run'[w].gid = run[w].gid /\ run'[w].res = run[w].res
                /\ run'[w].pc \in Leaving
        /\ run[w].pc = "fin" => run'[w].pc = "fin"
    <3> USE DEF Running, Leaving, RunRec
    <3>1. CASE RunStart(w)
      BY <1>0, <3>1 DEF RunStart
    <3>2. CASE RunEngine(w)
      BY <1>0, <3>2 DEF RunEngine
    <3>3. CASE RunTick(w)
      BY <1>0, <3>3 DEF RunTick
    <3>4. CASE RunTickCancel(w)
      BY <1>0, <3>4 DEF RunTickCancel
    <3>5. CASE RunKick(w)
      BY <1>0, <3>5 DEF RunKick
    <3>6. CASE \E r \in {"ok", "err", "cancelled"} : RunReturn(w, r)
      BY <1>0, <3>6 DEF RunReturn
    <3> QED BY <1>1, <3>1, <3>2, <3>3, <3>4, <3>5, <3>6
  <2>4. \A c \in Caller : CallSaves(c) => CallSaves(c)'
    BY <2>1 DEF CallSaves
  <2> QED BY <1>0, <2>1, <2>2, <2>3, <2>4, SilentStep
<1>2. CASE RunSeed(w)
  <2>1. /\ UNCHANGED <<tasks, saved, call, run>> /\ run[w].pc = "driving"
        /\ status' = [status EXCEPT ![h] = "Seeding"]
    BY <1>2, <1>h DEF RunSeed, inner
  <2>2. h \in Gid /\ status'[h] = "Seeding" /\ \A g \in Gid \ {h} : status'[g] = status[g]
    BY <1>0, <1>g, <2>1
  <2>3. Remover'
    BY <1>0, <2>1, <2>2, RemoverKept
  <2>4. Runs(w, h)'
    BY <1>h, <2>1 DEF Runs, Running
  <2>5. \A g \in Gid \ {h} : Runs(w, g) \/ Ends(w) \/ Pauses(w, g)
                              => (Runs(w, g) \/ Ends(w) \/ Pauses(w, g))'
    BY <2>1, <2>2 DEF Runs, Ends, Pauses
  <2>6. Covered'
    BY <1>0, <2>1, <2>2, <2>4, <2>5, OthersCover DEF Covered
  <2> QED BY <2>3, <2>6
<1>3. CASE RunStatus(w)
  <2> DEFINE s == Outcome(run[w].res, intent[h])
  <2>1. /\ UNCHANGED <<tasks, saved, call>> /\ run[w].pc = "status"
        /\ status' = [status EXCEPT ![h] = s]
        /\ run' = [run EXCEPT ![w] =
                     [@ EXCEPT !.pc = "fin",
                               !.res = IF s \in Terminal THEN "terminal" ELSE "open"]]
    BY <1>3, <1>h DEF RunStatus, inner
  <2>2. /\ h \in Gid /\ status'[h] = s /\ \A g \in Gid \ {h} : status'[g] = status[g]
        /\ \A v \in Worker \ {w} : run'[v] = run[v]
        /\ run'[w].pc = "fin" /\ run'[w].gid = h
        /\ run'[w].res = IF s \in Terminal THEN "terminal" ELSE "open"
    BY <1>0, <1>g, <1>h, <2>1 DEF RunRec
  <2>3. s \in Terminal \/ s = "Paused"
    BY <1>0, <2>2 DEF Outcome, NoRestart, Terminal
  <2>4. CASE s \in Terminal
    <3>1. Ends(w)'
      BY <2>2, <2>4 DEF Ends, Leaving
    <3>2. Covered'
      BY <3>1 DEF Covered
    <3>3. ASSUME NEW g \in tasks', status'[g] = "Removed"
          PROVE  \/ \E c \in Caller : call'[c].pc = "r_drop" /\ call'[c].gid = g
                 \/ \E v \in Worker : run'[v].pc = "fin" /\ run'[v].gid = g
                           /\ run'[v].res = "terminal"
      <4>1. CASE g = h
        BY <2>2, <2>4, <4>1
      <4>2. CASE g # h
        <5>1. g \in tasks /\ status[g] = "Removed"
          BY <1>0, <2>1, <2>2, <3>3, <4>2
        <5>2. \A v \in Worker : run[v].pc = "fin" => run'[v] = run[v]
          BY <2>1, <2>2
        <5> QED BY <1>0, <2>1, <5>1, <5>2 DEF Remover
      <4> QED BY <4>1, <4>2
    <3> QED BY <3>2, <3>3 DEF Remover
  <2>5. CASE s = "Paused"
    <3>1. Remover'
      <4>1. \A v \in Worker : run[v].pc = "fin" => run'[v] = run[v]
        BY <2>1, <2>2
      <4> QED BY <1>0, <2>1, <2>2, <2>5, <4>1, RemoverKept
    <3>2. Pauses(w, h)'
      BY <2>2, <2>5 DEF Pauses, Leaving
    <3>3. \A g \in Gid \ {h} : ~(Runs(w, g) \/ Ends(w) \/ Pauses(w, g))
      BY <1>h, <2>1 DEF Runs, Ends, Pauses, Leaving
    <3>4. Covered'
      BY <1>0, <2>1, <2>2, <3>2, <3>3, OthersCover DEF Covered
    <3> QED BY <3>1, <3>4
  <2> QED BY <2>3, <2>4, <2>5
<1>4. CASE RunFinish(w)
  <2>1. /\ UNCHANGED <<saved, call>> /\ run[w].pc = "fin" /\ h \in Gid
    BY <1>4, <1>g DEF RunFinish
  <2>2. intent[h] # "Restart"
    BY <1>0, <2>1 DEF NoRestart
  <2>3. run' = [run EXCEPT ![w].pc = "kick"]
    BY <1>4, <1>h, <2>2 DEF RunFinish
  <2>4. /\ \A v \in Worker \ {w} : run'[v] = run[v]
        /\ run'[w].pc = "kick" /\ run'[w].gid = h /\ run'[w].res = run[w].res
    BY <1>0, <1>h, <2>3 DEF RunRec
  <2>5. Ends(w) => Ends(w)'
    BY <2>4 DEF Ends, Leaving
  <2>6. \A v \in Worker : run[v].pc = "fin" /\ run[v].gid # h => run'[v] = run[v]
    BY <1>h, <2>4
  <2>7. \A g \in Gid : ~Runs(w, g)
    BY <2>1 DEF Runs, Running
  <2>8. CASE status[h] = "Removed"
    <3>1. tasks' = tasks \ {h} /\ status' = status
      BY <1>4, <1>h, <2>8 DEF RunFinish
    <3>2. Remover'
      BY <1>0, <2>1, <2>6, <3>1, RemoverKept
    <3>3. CASE h \notin tasks
      <4>1. \A g \in Gid : Pauses(w, g) => Pauses(w, g)'
        BY <2>4, <3>1, <1>h DEF Pauses, Leaving
      <4>2. tasks' = tasks
        BY <3>1, <3>3
      <4>3. Covered'
        BY <1>0, <2>1, <2>4, <2>5, <2>7, <3>1, <4>1, <4>2, OthersCover DEF Covered
      <4> QED BY <3>2, <4>3
    <3>4. CASE \E c \in Caller : call[c].pc = "r_drop" /\ call[c].gid = h
      <4>1. \E c \in Caller : CallSaves(c)'
        BY <2>1, <3>4 DEF CallSaves
      <4> QED BY <3>2, <4>1 DEF Covered
    <3>5. CASE \E v \in Worker : run[v].pc = "fin" /\ run[v].gid = h
                               /\ run[v].res = "terminal"
      <4>1. \E v \in Worker : Ends(v)'
        BY <2>4, <3>5 DEF Ends, Leaving
      <4> QED BY <3>2, <4>1 DEF Covered
    <3> QED BY <1>0, <2>8, <3>3, <3>4, <3>5 DEF Remover
  <2>9. CASE status[h] = "Waiting"
    <3>1. tasks' = tasks /\ status' = [status EXCEPT ![h] = "Paused"]
      BY <1>4, <1>h, <2>2, <2>9 DEF RunFinish
    <3>2. status'[h] = "Paused" /\ \A g \in Gid \ {h} : status'[g] = status[g]
      BY <1>0, <2>1, <3>1
    <3>3. Remover'
      BY <1>0, <2>1, <2>6, <3>1, <3>2, RemoverKept
    <3>4. Pauses(w, h)'
      BY <2>4, <3>2 DEF Pauses, Leaving
    <3>5. \A g \in Gid \ {h} : ~Pauses(w, g)
      BY <1>h DEF Pauses
    <3>6. Covered'
      BY <1>0, <2>1, <2>4, <2>5, <2>7, <3>1, <3>2, <3>4, <3>5, OthersCover DEF Covered
    <3> QED BY <3>3, <3>6
  <2>10. CASE status[h] \notin {"Removed", "Waiting"}
    <3>1. /\ status' = status /\ tasks' \subseteq tasks
          /\ run[w].res # "terminal" => tasks' = tasks
      BY <1>4, <1>h, <2>10 DEF RunFinish
    <3>2. Remover'
      BY <1>0, <2>1, <2>6, <2>10, <3>1, RemoverKept
    <3>3. CASE run[w].res = "terminal"
      <4>1. Ends(w)'
        BY <2>4, <3>3 DEF Ends, Leaving
      <4> QED BY <3>2, <4>1 DEF Covered
    <3>4. CASE run[w].res # "terminal"
      <4>1. \A g \in Gid : Pauses(w, g) => Pauses(w, g)'
        BY <1>h, <2>4, <3>1 DEF Pauses, Leaving
      <4>2. Covered'
        BY <1>0, <2>1, <2>4, <2>5, <2>7, <3>1, <3>4, <4>1, OthersCover DEF Covered
      <4> QED BY <3>2, <4>2
    <3> QED BY <3>3, <3>4
  <2> QED BY <2>8, <2>9, <2>10
<1>5. CASE RunSave(w)
  <2>1. /\ UNCHANGED <<tasks, status, call>> /\ run[w].pc = "save"
        /\ \A v \in Worker \ {w} : run'[v] = run[v]
    BY <1>0, <1>5 DEF RunSave, inner
  <2>2. Remover'
    BY <1>0, <2>1 DEF Remover
  <2>3. CASE run[w].res = "terminal" \/ status[h] = "Paused"
    BY <1>5, <1>h, <2>1, <2>2, <2>3, SaveMakesSame DEF RunSave
  <2>4. CASE ~(run[w].res = "terminal" \/ status[h] = "Paused")
    <3>1. saved' = saved
      BY <1>5, <1>h, <2>4 DEF RunSave
    <3>2. \A g \in Gid : ~(Runs(w, g) \/ Ends(w) \/ Pauses(w, g))
      BY <1>h, <2>1, <2>4 DEF Runs, Ends, Pauses, Running
    <3>3. Covered'
      BY <1>0, <2>1, <3>1, <3>2, OthersCover DEF Covered
    <3> QED BY <2>2, <3>3
  <2> QED BY <2>3, <2>4
<1> QED BY <1>1, <1>2, <1>3, <1>4, <1>5 DEF Run, WindDown

LEMMA CoveredContinue ==
    ASSUME NEW c \in Caller
    PROVE  SaveInv /\ Continue(c) => Covered' /\ Remover'
<1> SUFFICES ASSUME SaveInv, Continue(c) PROVE Covered' /\ Remover'
  OBVIOUS
<1>0. /\ TypeOK /\ Covered /\ Remover /\ run \in [Worker -> RunRec]
      /\ call \in [Caller -> CallRec] /\ call[c] \in CallRec
      /\ tasks \subseteq Gid /\ status \in [Gid -> Status]
  BY RecTypes DEF TypeInv, SaveInv, TypeOK
<1>h. SUFFICES ASSUME NEW h, h = call[c].gid PROVE Covered' /\ Remover'
  OBVIOUS
<1>g. call[c].pc \notin {"idle", "kick", "save"} => h \in Gid
  BY <1>h DEF SaveInv, TypeInv, GidsKnown
<1>1. ASSUME CallSaves(c)' PROVE Covered'
  BY <1>1 DEF Covered
<1>2. CASE \/ Dequeue(c) \/ SetIntent(c) \/ Cancel(c) \/ UnpauseUnstop(c)
           \/ UnpauseCheck(c) \/ UnpauseToken(c) \/ UnpauseIntent(c)
           \/ UnpausePush(c) \/ CallKick(c)
  <2>1. UNCHANGED <<tasks, status, saved>>
    BY <1>2 DEF Dequeue, SetIntent, Cancel, UnpauseUnstop, UnpauseCheck,
                UnpauseToken, UnpauseIntent, UnpausePush, CallKick, inner
  <2>2. \A d \in Caller \ {c} : call'[d] = call[d]
    BY <1>0, <1>2 DEF Dequeue, SetIntent, Cancel, UnpauseUnstop, UnpauseCheck,
                UnpauseToken, UnpauseIntent, UnpausePush, CallKick, Goto
  <2>3. CallSaves(c) => CallSaves(c)'
    <3>1. CASE Dequeue(c) \/ UnpauseToken(c) \/ UnpauseIntent(c) \/ UnpausePush(c)
                 \/ CallKick(c) \/ SetIntent(c)
      BY <1>0, <3>1 DEF Dequeue, SetIntent, UnpauseToken, UnpauseIntent, UnpausePush,
                  CallKick, Goto, At, CallSaves, CallRec
    <3>2. CASE Cancel(c)
      BY <1>0, <3>2 DEF Cancel, At, Idle, CallSaves, CallRec
    <3>3. CASE UnpauseUnstop(c) \/ UnpauseCheck(c)
      BY <3>3 DEF UnpauseUnstop, UnpauseCheck, At, CallSaves
    <3> QED BY <1>2, <3>1, <3>2, <3>3
  <2>4. \A d \in Caller : CallSaves(d) => CallSaves(d)'
    BY <2>2, <2>3 DEF CallSaves
  <2>5. \A d \in Caller : call[d].pc = "r_drop" => call'[d] = call[d]
    BY <1>2, <2>2 DEF Dequeue, SetIntent, Cancel, UnpauseUnstop, UnpauseCheck,
                UnpauseToken, UnpauseIntent, UnpausePush, CallKick, At
  <2>6. \A v \in Worker : /\ run'[v].pc = run[v].pc /\ run'[v].gid = run[v].gid
                          /\ run'[v].res = run[v].res
    <3>1. CASE UnpauseToken(c)
      BY <1>0, <3>1 DEF UnpauseToken, RunRec
    <3>2. CASE ~UnpauseToken(c)
      BY <1>2, <3>2 DEF Dequeue, SetIntent, Cancel, UnpauseUnstop, UnpauseCheck,
                UnpauseIntent, UnpausePush, CallKick
    <3> QED BY <3>1, <3>2
  <2> QED BY <1>0, <2>1, <2>4, <2>5, <2>6, SilentStep
<1>3. CASE PauseSet(c) \/ UnpauseSet(c)
  <2>1. /\ UNCHANGED <<tasks, saved, run>> /\ Goto(c, "kick")
        /\ call[c].pc \in {"p_paused", "u_wait"}
        /\ \E s \in {"Paused", "Waiting"} : status' = [status EXCEPT ![h] = s]
    BY <1>3, <1>h DEF PauseSet, UnpauseSet, At, inner
  <2>2. h \in Gid
    BY <1>g, <2>1
  <2>3. /\ call'[c].pc = "kick" /\ \A d \in Caller \ {c} : call'[d] = call[d]
        /\ status'[h] # "Removed" /\ \A g \in Gid \ {h} : status'[g] = status[g]
    BY <1>0, <2>1, <2>2 DEF Goto, CallRec
  <2>4. Covered'
    BY <1>1, <2>3 DEF CallSaves
  <2>5. \A d \in Caller : call[d].pc = "r_drop" => call'[d] = call[d]
    BY <2>1, <2>3
  <2>6. Remover'
    BY <1>0, <2>1, <2>3, <2>5, RemoverKept
  <2> QED BY <2>4, <2>6
<1>4. CASE RemoveSet(c)
  <2>1. /\ UNCHANGED <<tasks, saved, run>> /\ Goto(c, "r_drop")
        /\ call[c].pc = "r_removed"
        /\ status' = [status EXCEPT ![h] = "Removed"]
    BY <1>4, <1>h DEF RemoveSet, At, inner
  <2>2. /\ call'[c].pc = "r_drop" /\ call'[c].gid = h
        /\ \A d \in Caller \ {c} : call'[d] = call[d]
        /\ \A g \in Gid \ {h} : status'[g] = status[g]
    BY <1>0, <1>h, <2>1 DEF Goto, CallRec
  <2>3. Covered'
    BY <1>1, <2>2 DEF CallSaves
  <2>4. \A d \in Caller : call[d].pc = "r_drop" => call'[d] = call[d]
    BY <2>1, <2>2
  <2>5. Remover'
    <3> SUFFICES ASSUME NEW g \in tasks, status'[g] = "Removed", g # h
                 PROVE  \/ \E d \in Caller : call'[d].pc = "r_drop" /\ call'[d].gid = g
                        \/ \E v \in Worker : run'[v].pc = "fin" /\ run'[v].gid = g
                               /\ run'[v].res = "terminal"
      BY <2>1, <2>2 DEF Remover
    <3>1. status[g] = "Removed"
      BY <1>0, <2>2
    <3> QED BY <1>0, <2>1, <2>4, <3>1 DEF Remover
  <2> QED BY <2>3, <2>5
<1>5. CASE Drop(c)
  <2>1. /\ UNCHANGED <<status, saved, run>> /\ tasks' = tasks \ {h}
        /\ \E p \in {"kick", "save"} : Goto(c, p)
    BY <1>5, <1>h DEF Drop
  <2>2. /\ call'[c].pc \in {"kick", "save"} /\ \A d \in Caller \ {c} : call'[d] = call[d]
    BY <1>0, <2>1 DEF Goto, CallRec
  <2>3. Covered'
    BY <1>1, <2>2 DEF CallSaves
  <2>4. Remover'
    BY <1>0, <1>h, <2>1, <2>2, RemoverKept
  <2> QED BY <2>3, <2>4
<1>6. CASE CallSave(c)
  <2>1. /\ UNCHANGED <<tasks, status, run>> /\ call[c].pc = "save" /\ SaveSession
        /\ \A d \in Caller \ {c} : call'[d] = call[d]
    BY <1>0, <1>6 DEF CallSave, At, inner
  <2>2. Remover'
    BY <1>0, <2>1 DEF Remover
  <2> QED BY <2>1, <2>2, SaveMakesSame
<1> QED BY <1>2, <1>3, <1>4, <1>5, <1>6 DEF Continue

LEMMA CoveredBegin ==
    ASSUME NEW c \in Caller
    PROVE  SaveInv /\ Begin(c) => Covered' /\ Remover'
<1> SUFFICES ASSUME SaveInv, Begin(c) PROVE Covered' /\ Remover'
  OBVIOUS
<1>0. /\ TypeOK /\ Covered /\ Remover /\ run \in [Worker -> RunRec]
      /\ call \in [Caller -> CallRec] /\ call[c] \in CallRec
      /\ tasks \subseteq Gid /\ status \in [Gid -> Status]
  BY RecTypes DEF TypeInv, SaveInv, TypeOK
<1>1. call[c].pc = "idle" /\ run' = run /\ saved' = saved
  BY DEF Begin, Add, Pause, Unpause, StopSeeding, Remove, SelectFiles,
                   RemoveResult, Purge, SetLimit, CanCall, At
<1>2. \A d \in Caller \ {c} : call'[d] = call[d]
  BY <1>0 DEF Begin, Add, Pause, Unpause, StopSeeding, Remove, SelectFiles,
                   RemoveResult, Purge, SetLimit, Start, StartCancel
<1>3. \A d \in Caller : call[d].pc = "r_drop" => call'[d] = call[d]
  BY <1>1, <1>2
<1>4. ASSUME NEW h \in Gid, Add(c, h) PROVE Covered' /\ Remover'
  <2>1. call'[c].pc = "kick"
    BY <1>0, <1>4 DEF Add, Start, Idle
  <2>2. Covered'
    BY <2>1 DEF Covered, CallSaves
  <2>3. tasks' = tasks \cup {h} /\ status' = [status EXCEPT ![h] = "Waiting"]
    BY <1>4 DEF Add
  <2>4. status'[h] = "Waiting" /\ \A g \in Gid \ {h} : status'[g] = status[g]
    BY <1>0, <2>3
  <2>5. Remover'
    BY <1>0, <1>1, <1>3, <2>3, <2>4, RemoverKept
  <2> QED BY <2>2, <2>5
<1>5. CASE Purge(c)
  <2>1. call'[c].pc = "save"
    BY <1>0, <1>5 DEF Purge, Start, Idle
  <2>2. Covered'
    BY <2>1 DEF Covered, CallSaves
  <2>3. tasks' \subseteq tasks /\ status' = status
    BY <1>5 DEF Purge
  <2>4. Remover'
    BY <1>0, <1>1, <1>3, <2>3 DEF Remover
  <2> QED BY <2>2, <2>4
<1>6. CASE \/ SetLimit(c)
           \/ \E g \in Gid : Pause(c, g) \/ Unpause(c, g) \/ StopSeeding(c, g)
                \/ Remove(c, g) \/ SelectFiles(c, g) \/ RemoveResult(c, g)
  <2>1. UNCHANGED <<tasks, status, saved>>
    BY <1>6 DEF Pause, Unpause, StopSeeding, Remove, SelectFiles, RemoveResult,
                SetLimit, inner
  <2>2. \A d \in Caller : CallSaves(d) => CallSaves(d)'
    BY <1>1, <1>2 DEF CallSaves
  <2> QED BY <1>0, <1>1, <1>3, <2>1, <2>2, SilentStep
<1> QED BY <1>4, <1>5, <1>6 DEF Begin

LEMMA SaveStep ==
    ASSUME Single = {}
    PROVE  SaveInv /\ [Next]_vars => SaveInv'
<1> SUFFICES ASSUME SaveInv, [Next]_vars PROVE Covered' /\ Remover'
  BY TypeStep, NoRestartStep DEF SaveInv
<1>1. CASE UNCHANGED vars
  BY <1>1 DEF vars, SaveInv, Covered, Same, Persisted, CallSaves, Runs, Ends, Pauses,
              Remover
<1>2. CASE AutoSave
  <2>1. SaveSession /\ UNCHANGED <<tasks, status, call, run>>
    BY <1>2 DEF AutoSave, inner
  <2>2. Remover'
    BY <2>1 DEF SaveInv, Remover
  <2> QED BY <2>1, <2>2, SaveMakesSame
<1> QED BY <1>1, <1>2, CoveredSched, CoveredRun, CoveredContinue, CoveredBegin DEF Next

(* The session file is up to date for every task no worker runs, whenever  *)
(* all is quiet: the saves that manager.rs puts at the end of its handlers *)
(* and of run_task are enough, for every number of tasks, handlers and     *)
(* workers and every interleaving, as long as no task restarts itself      *)
(* (Single = {}: with a magnet link of one file it does, and a second      *)
(* worker of that task may leave the file behind).                         *)
THEOREM SessionKept == ASSUME Single = {} PROVE Spec => []SessionCurrent
<1>1. Init => SaveInv
  <2> SUFFICES ASSUME Init PROVE SaveInv
    OBVIOUS
  <2>1. NoRestart
    BY DEF Init, NoRestart, Idle
  <2>2. Covered
    BY DEF Init, Covered, Same, Persisted, RestoredAs
  <2>3. Remover
    BY DEF Init, Remover
  <2> QED BY <2>1, <2>2, <2>3, TypeInit DEF SaveInv
<1>2. SaveInv => SessionCurrent
  <2> SUFFICES ASSUME SaveInv, Quiet, NEW g \in Gid, \A w \in Worker : run[w].gid # g
               PROVE  Same(g)
    BY DEF SessionCurrent, Same
  <2>1. \A c \in Caller : ~CallSaves(c)
    BY DEF Quiet, CallSaves
  <2>2. \A w \in Worker : ~(Runs(w, g) \/ Ends(w) \/ Pauses(w, g))
    BY DEF Quiet, Runs, Ends, Pauses, Leaving
  <2> QED BY <2>1, <2>2 DEF SaveInv, Covered
<1>3. SaveInv /\ [Next]_vars => SaveInv'
  BY SaveStep
<1> QED BY <1>1, <1>2, <1>3, PTL DEF Spec

----------------------------------------------------------------------------
(* File selection. *)

(* The files of a known task are settled: from then on they stay so.       *)
Chosen(g) == sel[g] = "none" /\ status[g] # "Unborn"

(* Whoever may let a task seed or end has its files settled: a driver that *)
(* started with them, and an order to stop the seeding.                    *)
DriverChosen(w) ==
    /\ run[w].pc = "spawned" => status[run[w].gid] # "Unborn"
    /\ run[w].pc \in {"starting", "driving"} /\ ~run[w].stub => Chosen(run[w].gid)
    /\ run[w].pc = "status" /\ run[w].res = "ok" => Chosen(run[w].gid)

ChosenInv ==
    /\ \A w \in Worker : DriverChosen(w)
    /\ \A g \in Gid : intent[g] = "StopSeeding" => Chosen(g)
    /\ \A c \in Caller : call[c].pc \in {"intent", "cancel"}
                           /\ call[c].want = "StopSeeding" => Chosen(call[c].gid)
    /\ ChosenBeforeDone

(* No step forgets a task or unsettles its files. *)
LEMMA ChosenStays ==
    ASSUME TypeInv, [Next]_vars, NEW g \in Gid
    PROVE  /\ status[g] # "Unborn" => status'[g] # "Unborn"
           /\ Chosen(g) => Chosen(g)'
<1>0. /\ TypeOK /\ run \in [Worker -> RunRec] /\ call \in [Caller -> CallRec]
      /\ sel \in [Gid -> SelState] /\ status \in [Gid -> Status]
  BY RecTypes DEF TypeInv, TypeOK
<1>1. CASE UNCHANGED <<status, sel>>
  BY <1>1 DEF Chosen
<1>2. CASE Sched \/ AutoSave \/ UNCHANGED vars
  <2>1. CASE SchedLaunch
    BY <1>0, <2>1 DEF SchedLaunch, Chosen
  <2> QED BY <1>1, <1>2, <2>1 DEF Sched, SchedWake, SchedLock, SchedPeek, AutoSave, vars
<1>3. ASSUME NEW w \in Worker, Run(w)
      PROVE  /\ status[g] # "Unborn" => status'[g] # "Unborn"
             /\ Chosen(g) => Chosen(g)'
  <2>1. CASE RunSeed(w)
    BY <1>0, <2>1 DEF RunSeed, Chosen
  <2>2. CASE RunTick(w)
    BY <1>0, <2>2 DEF RunTick, Chosen
  <2>3. CASE RunStatus(w)
    <3>1. \A r, i : Outcome(r, i) # "Unborn"
      BY DEF Outcome
    <3> QED BY <1>0, <2>3, <3>1 DEF RunStatus, Chosen
  <2>4. CASE RunFinish(w)
    BY <1>0, <2>4 DEF RunFinish, Chosen
  <2> QED BY <1>1, <1>3, <2>1, <2>2, <2>3, <2>4
          DEF Run, WindDown, RunStart, RunEngine, RunTickCancel, RunReturn, RunKick, RunSave
<1>4. ASSUME NEW c \in Caller, Continue(c)
      PROVE  /\ status[g] # "Unborn" => status'[g] # "Unborn"
             /\ Chosen(g) => Chosen(g)'
  <2>1. CASE PauseSet(c) \/ UnpauseSet(c) \/ RemoveSet(c)
    BY <1>0, <2>1 DEF PauseSet, UnpauseSet, RemoveSet, Chosen
  <2> QED BY <1>1, <1>4, <2>1
          DEF Continue, Dequeue, SetIntent, Cancel, UnpauseUnstop, UnpauseCheck,
              UnpauseToken, UnpauseIntent, UnpausePush, Drop, CallKick, CallSave
<1>5. ASSUME NEW c \in Caller, Begin(c)
      PROVE  /\ status[g] # "Unborn" => status'[g] # "Unborn"
             /\ Chosen(g) => Chosen(g)'
  <2>1. CASE \E h \in Gid : Add(c, h)
    BY <1>0, <2>1 DEF Add, Chosen
  <2>2. CASE \E h \in Gid : SelectFiles(c, h)
    BY <1>0, <2>2 DEF SelectFiles, Chosen
  <2> QED BY <1>1, <1>5, <2>1, <2>2
          DEF Begin, Pause, Unpause, StopSeeding, Remove, RemoveResult, Purge, SetLimit
<1> QED BY <1>2, <1>3, <1>4, <1>5 DEF Next

(* Who sets the status to seeding or complete. *)
LEMMA ChosenStatus ==
    ASSUME TypeInv, ChosenInv, [Next]_vars
    PROVE  ChosenBeforeDone'
<1> SUFFICES ASSUME NEW g \in Gid, status'[g] \in {"Complete", "Seeding"},
                    status'[g] # status[g]
             PROVE  Chosen(g)
  <2>1. \A g \in Gid : status[g] \in {"Complete", "Seeding"} => Chosen(g)
    BY DEF ChosenInv, ChosenBeforeDone, Chosen
  <2>2. \A g \in Gid : Chosen(g)' => sel'[g] = "none"
    BY DEF Chosen
  <2> QED BY <2>1, <2>2, ChosenStays DEF ChosenBeforeDone
<1>0. /\ TypeOK /\ run \in [Worker -> RunRec] /\ call \in [Caller -> CallRec]
      /\ status \in [Gid -> Status]
  BY RecTypes DEF TypeInv, TypeOK
<1>1. ASSUME NEW w \in Worker, Run(w) PROVE Chosen(g)
  <2>1. CASE RunSeed(w)
    <3>1. run[w].gid = g /\ run[w].pc = "driving" /\ ~run[w].stub
      BY <1>0, <2>1 DEF RunSeed
    <3> QED BY <3>1 DEF ChosenInv, DriverChosen
  <2>2. CASE RunStatus(w)
    <3>1. /\ run[w].gid = g /\ run[w].pc = "status"
          /\ status'[g] = Outcome(run[w].res, intent[g])
      BY <1>0, <2>2 DEF RunStatus
    <3>2. run[w].res = "ok" \/ intent[g] = "StopSeeding"
      BY <3>1 DEF Outcome
    <3> QED BY <3>1, <3>2 DEF ChosenInv, DriverChosen
  <2>3. CASE RunFinish(w)
    BY <1>0, <2>3 DEF RunFinish
  <2> QED BY <1>1, <2>1, <2>2, <2>3
          DEF Run, WindDown, RunStart, RunEngine, RunTick, RunTickCancel, RunReturn,
              RunKick, RunSave
<1>2. ASSUME NEW c \in Caller, Continue(c) PROVE Chosen(g)
  <2>1. CASE PauseSet(c) \/ UnpauseSet(c) \/ RemoveSet(c)
    BY <1>0, <2>1 DEF PauseSet, UnpauseSet, RemoveSet
  <2> QED BY <1>2, <2>1
          DEF Continue, Dequeue, SetIntent, Cancel, UnpauseUnstop, UnpauseCheck,
              UnpauseToken, UnpauseIntent, UnpausePush, Drop, CallKick, CallSave
<1>3. ASSUME NEW c \in Caller, Begin(c) PROVE Chosen(g)
  <2>1. CASE \E h \in Gid : Add(c, h)
    BY <1>0, <2>1 DEF Add
  <2> QED BY <1>3, <2>1
          DEF Begin, Pause, Unpause, StopSeeding, Remove, SelectFiles, RemoveResult,
              Purge, SetLimit
<1>4. CASE Sched \/ AutoSave \/ UNCHANGED vars
  <2>1. CASE SchedLaunch
    BY <1>0, <2>1 DEF SchedLaunch
  <2> QED BY <1>4, <2>1 DEF Sched, SchedWake, SchedLock, SchedPeek, AutoSave, vars
<1> QED BY <1>1, <1>2, <1>3, <1>4 DEF Next

(* Who sets the intent to stop the seeding. *)
LEMMA ChosenIntent ==
    ASSUME TypeInv, ChosenInv, [Next]_vars
    PROVE  \A g \in Gid : intent'[g] = "StopSeeding" => Chosen(g)'
<1> SUFFICES ASSUME NEW g \in Gid, intent'[g] = "StopSeeding", intent[g] # "StopSeeding"
             PROVE  Chosen(g)
  BY ChosenStays DEF ChosenInv
<1>0. /\ TypeOK /\ call \in [Caller -> CallRec] /\ intent \in [Gid -> Intent]
  BY RecTypes DEF TypeInv, TypeOK
<1>1. ASSUME NEW w \in Worker, Run(w) PROVE Chosen(g)
  <2>1. CASE RunTick(w)
    BY <1>0, <2>1 DEF RunTick
  <2>2. CASE RunFinish(w)
    BY <1>0, <2>2 DEF RunFinish
  <2> QED BY <1>1, <2>1, <2>2
          DEF Run, WindDown, RunStart, RunEngine, RunSeed, RunTickCancel, RunReturn,
              RunStatus, RunKick, RunSave
<1>2. ASSUME NEW c \in Caller, Continue(c) PROVE Chosen(g)
  <2>1. CASE SetIntent(c)
    <3>1. call[c].pc = "intent" /\ call[c].gid = g /\ call[c].want = "StopSeeding"
      BY <1>0, <2>1 DEF SetIntent, At
    <3> QED BY <3>1 DEF ChosenInv
  <2>2. CASE UnpauseIntent(c)
    BY <1>0, <2>2 DEF UnpauseIntent
  <2> QED BY <1>2, <2>1, <2>2
          DEF Continue, Dequeue, PauseSet, Cancel, UnpauseUnstop, UnpauseCheck,
              UnpauseToken, UnpausePush, UnpauseSet, RemoveSet, Drop, CallKick, CallSave
<1>3. ASSUME NEW c \in Caller, Begin(c) PROVE Chosen(g)
  BY <1>3 DEF Begin, Add, Pause, Unpause, StopSeeding, Remove, SelectFiles, RemoveResult,
              Purge, SetLimit
<1>4. CASE Sched \/ AutoSave \/ UNCHANGED vars
  BY <1>4 DEF Sched, SchedWake, SchedLock, SchedPeek, SchedLaunch, AutoSave, vars
<1> QED BY <1>1, <1>2, <1>3, <1>4 DEF Next

(* Who orders it. *)
LEMMA ChosenOrder ==
    ASSUME TypeInv, ChosenInv, [Next]_vars, NEW d \in Caller,
           call'[d].pc \in {"intent", "cancel"}, call'[d].want = "StopSeeding"
    PROVE  Chosen(call[d].gid)'
<1>0. /\ TypeOK /\ call \in [Caller -> CallRec] /\ call[d] \in CallRec
  BY RecTypes DEF TypeInv, TypeOK
<1>1. CASE call'[d] = call[d]
  <2>1. call[d].gid \in Gid
    BY <1>1 DEF TypeInv, GidsKnown
  <2>2. Chosen(call[d].gid)
    BY <1>1 DEF ChosenInv
  <2> QED BY <1>1, <2>1, <2>2, ChosenStays DEF Chosen
<1>2. ASSUME NEW w \in Worker, Run(w) PROVE call' = call
  BY <1>2 DEF Run, WindDown, RunStart, RunEngine, RunSeed, RunTick, RunTickCancel, RunReturn,
              RunStatus, RunFinish, RunKick, RunSave
<1>3. CASE Sched \/ AutoSave \/ UNCHANGED vars
  BY <1>1, <1>3 DEF Sched, SchedWake, SchedLock, SchedPeek, SchedLaunch, AutoSave, vars
<1>4. ASSUME NEW c \in Caller, Continue(c) PROVE Chosen(call[d].gid)'
  <2>1. \A e \in Caller \ {c} : call'[e] = call[e]
    BY <1>0, <1>4 DEF Continue, Dequeue, PauseSet, SetIntent, Cancel, UnpauseUnstop,
              UnpauseCheck, UnpauseToken, UnpauseIntent, UnpausePush, UnpauseSet, RemoveSet,
              Drop, CallKick, CallSave, Goto
  <2>2. CASE d = c
    <3>1. CASE SetIntent(c)
      <4>1. /\ call[d].pc = "intent" /\ call'[d].gid = call[d].gid
            /\ call'[d].want = call[d].want
        BY <1>0, <2>2, <3>1 DEF SetIntent, At, Goto, CallRec
      <4>2. call[d].gid \in Gid /\ Chosen(call[d].gid)
        BY <4>1 DEF ChosenInv, TypeInv, GidsKnown
      <4> QED BY <4>1, <4>2, ChosenStays DEF Chosen
    <3>2. CASE Cancel(c)
      BY <1>0, <2>2, <3>2 DEF Cancel, Idle
    <3>3. CASE CallSave(c)
      BY <1>0, <2>2, <3>3 DEF CallSave, Idle
    <3>4. CASE UnpauseCheck(c)
      BY <1>0, <2>2, <3>4 DEF UnpauseCheck, Goto, Idle, CallRec
    <3>5. CASE ~SetIntent(c) /\ ~Cancel(c) /\ ~CallSave(c) /\ ~UnpauseCheck(c)
      <4>1. \E p \in CallPc \ {"intent", "cancel"} : Goto(c, p)
        BY <1>4, <3>5 DEF Continue, Dequeue, PauseSet, UnpauseUnstop, UnpauseToken,
                 UnpauseIntent, UnpausePush, UnpauseSet, RemoveSet, Drop, CallKick, CallPc
      <4> QED BY <1>0, <2>2, <4>1 DEF Goto, CallRec
    <3> QED BY <3>1, <3>2, <3>3, <3>4, <3>5
  <2> QED BY <1>1, <2>1, <2>2
<1>5. ASSUME NEW c \in Caller, Begin(c) PROVE Chosen(call[d].gid)'
  <2>1. \A e \in Caller \ {c} : call'[e] = call[e]
    BY <1>0, <1>5 DEF Begin, Add, Pause, Unpause, StopSeeding, Remove, SelectFiles,
              RemoveResult, Purge, SetLimit, Start, StartCancel
  <2>2. CASE d = c
    <3>1. CASE \E g \in Gid : StopSeeding(c, g)
      <4>1. PICK g \in Gid : StopSeeding(c, g)
        BY <3>1
      <4>2. status[g] = "Seeding" /\ call'[d].gid = g
        BY <1>0, <2>2, <4>1 DEF StopSeeding, StartCancel
      <4>3. Chosen(g)
        BY <4>2 DEF ChosenInv, ChosenBeforeDone, Chosen
      <4> QED BY <4>2, <4>3, ChosenStays DEF Chosen
    <3>2. CASE ~\E g \in Gid : StopSeeding(c, g)
      <4>1. \/ \E p \in CallPc, g \in Gid \cup {NoGid} : Start(c, g, p)
            \/ \E g \in Gid, i \in {"Pause", "Remove"}, t \in {"idle", "save"} :
                 StartCancel(c, g, i, t)
        BY <1>5, <3>2 DEF Begin, Add, Pause, Unpause, Remove, SelectFiles,
              RemoveResult, Purge, SetLimit, CallPc
      <4>2. CASE \E p \in CallPc, g \in Gid \cup {NoGid} : Start(c, g, p)
        BY <1>0, <2>2, <4>2 DEF Start, Idle
      <4>3. CASE \E g \in Gid, i \in {"Pause", "Remove"}, t \in {"idle", "save"} :
                 StartCancel(c, g, i, t)
        BY <1>0, <2>2, <4>3 DEF StartCancel
      <4> QED BY <4>1, <4>2, <4>3
    <3> QED BY <3>1, <3>2
  <2> QED BY <1>1, <2>1, <2>2
<1> QED BY <1>1, <1>2, <1>3, <1>4, <1>5 DEF Next

(* Which drivers start with the files settled. *)
LEMMA ChosenDriver ==
    ASSUME TypeInv, ChosenInv, [Next]_vars, NEW v \in Worker
    PROVE  DriverChosen(v)'
<1>0. /\ TypeOK /\ run \in [Worker -> RunRec] /\ run[v] \in RunRec
      /\ status \in [Gid -> Status]
  BY RecTypes DEF TypeInv, TypeOK
<1>1. CASE /\ run'[v].pc = run[v].pc /\ run'[v].gid = run[v].gid
           /\ run'[v].res = run[v].res /\ run'[v].stub = run[v].stub
  <2>1. run[v].pc # "free" => run[v].gid \in Gid
    BY DEF TypeInv, GidsKnown
  <2>2. DriverChosen(v)
    BY DEF ChosenInv
  <2>3. \A g \in Gid : /\ status[g] # "Unborn" => status'[g] # "Unborn"
                       /\ Chosen(g) => Chosen(g)'
    BY ChosenStays
  <2>4. CASE run[v].pc = "free"
    BY <1>1, <2>4 DEF DriverChosen
  <2>5. CASE run[v].pc # "free"
    <3> DEFINE h == run[v].gid
    <3>1. /\ status[h] # "Unborn" => status'[h] # "Unborn"
          /\ sel[h] = "none" /\ status[h] # "Unborn"
               => sel'[h] = "none" /\ status'[h] # "Unborn"
      BY <2>1, <2>3, <2>5 DEF Chosen
    <3> QED BY <1>1, <2>2, <3>1 DEF DriverChosen, Chosen
  <2> QED BY <2>4, <2>5
<1>2. CASE run'[v].pc \in {"free", "fin", "kick", "save"}
  BY <1>2 DEF DriverChosen
<1>3. CASE SchedLaunch
  <2> SUFFICES ASSUME NEW h, h = Head(queue) PROVE DriverChosen(v)'
    OBVIOUS
  <2>1. PICK w \in Worker :
           run' = [run EXCEPT ![w] = [Free EXCEPT !.pc = "spawned", !.gid = h]]
    BY <1>3 DEF SchedLaunch
  <2>2. CASE v = w
    <3>1. run'[v].pc = "spawned" /\ run'[v].gid = h
      BY <1>0, <2>1, <2>2 DEF Free
    <3>2. h \in Gid
      BY <1>3 DEF SchedLaunch, TypeInv, LaunchReady, TypeOK
    <3>3. status'[h] = "Active"
      BY <1>0, <1>3, <3>2 DEF SchedLaunch
    <3> QED BY <3>1, <3>3 DEF DriverChosen
  <2> QED BY <1>0, <1>1, <2>1, <2>2
<1>4. ASSUME NEW w \in Worker, Run(w) PROVE DriverChosen(v)'
  <2>1. CASE v # w
    <3>1. CASE RunFinish(w)
      BY <1>0, <1>1, <2>1, <3>1 DEF RunFinish, RunRec
    <3>2. CASE ~RunFinish(w)
      <4>1. run'[v] = run[v]
        BY <1>0, <1>4, <2>1, <3>2
           DEF Run, WindDown, RunStart, RunEngine, RunSeed, RunTick, RunTickCancel,
               RunReturn, RunStatus, RunKick, RunSave
      <4> QED BY <1>1, <4>1
    <3> QED BY <3>1, <3>2
  <2>2. CASE v = w
    <3> DEFINE h == run[v].gid
    <3>1. run[v].pc # "free" => h \in Gid
      BY DEF TypeInv, GidsKnown
    <3>2. DriverChosen(v)
      BY DEF ChosenInv
    <3>3. h \in Gid => /\ status[h] # "Unborn" => status'[h] # "Unborn"
                       /\ Chosen(h) => sel'[h] = "none" /\ status'[h] # "Unborn"
      BY ChosenStays DEF Chosen
    <3>4. CASE RunStart(w)
      <4>1. /\ run[v].pc = "spawned" /\ run'[v].pc \in {"starting", "driving"}
            /\ run'[v].gid = run[v].gid /\ run'[v].stub = (sel[h] # "none")
        BY <1>0, <2>2, <3>4 DEF RunStart, RunRec
      <4>2. status[h] # "Unborn"
        BY <3>2, <4>1 DEF DriverChosen
      <4> QED BY <3>1, <3>3, <4>1, <4>2 DEF DriverChosen, Chosen
    <3>5. CASE RunEngine(w)
      <4>1. /\ run[v].pc = "starting" /\ run'[v].pc = "driving"
            /\ run'[v].gid = run[v].gid /\ run'[v].stub = run[v].stub
        BY <1>0, <2>2, <3>5 DEF RunEngine, RunRec
      <4> QED BY <3>1, <3>2, <3>3, <4>1 DEF DriverChosen, Chosen
    <3>6. CASE \E r \in {"ok", "err", "cancelled"} : RunReturn(w, r)
      <4>1. PICK r \in {"ok", "err", "cancelled"} : RunReturn(w, r)
        BY <3>6
      <4>2. /\ run'[v].pc = "status" /\ run'[v].gid = run[v].gid /\ run'[v].res = r
            /\ r = "ok" => run[v].pc = "driving" /\ ~run[v].stub
        BY <1>0, <2>2, <4>1 DEF RunReturn, RunRec
      <4> QED BY <3>1, <3>2, <3>3, <4>2 DEF DriverChosen, Chosen
    <3>7. CASE RunSeed(w) \/ RunTick(w) \/ RunTickCancel(w)
      <4>1. /\ run'[v].pc = run[v].pc /\ run'[v].gid = run[v].gid
            /\ run'[v].res = run[v].res /\ run'[v].stub = run[v].stub
        <5>1. CASE RunSeed(w)
          BY <5>1 DEF RunSeed
        <5>2. CASE RunTick(w)
          BY <1>0, <2>2, <5>2 DEF RunTick, RunRec
        <5>3. CASE RunTickCancel(w)
          BY <1>0, <2>2, <5>3 DEF RunTickCancel, RunRec
        <5> QED BY <3>7, <5>1, <5>2, <5>3
      <4> QED BY <1>1, <4>1
    <3>8. CASE RunStatus(w) \/ RunFinish(w) \/ RunKick(w) \/ RunSave(w)
      <4>1. run'[v].pc \in {"free", "fin", "kick", "save"}
        <5>1. CASE RunStatus(w)
          BY <1>0, <2>2, <5>1 DEF RunStatus
        <5>2. CASE RunFinish(w)
          <6>1. \A x \in Worker : run'[x].pc = [run EXCEPT ![w].pc = "kick"][x].pc
            BY <1>0, <5>2 DEF RunFinish, RunRec
          <6> QED BY <1>0, <2>2, <6>1 DEF RunRec
        <5>3. CASE RunKick(w)
          BY <1>0, <2>2, <5>3 DEF RunKick
        <5>4. CASE RunSave(w)
          BY <1>0, <2>2, <5>4 DEF RunSave, Free
        <5> QED BY <3>8, <5>1, <5>2, <5>3, <5>4
      <4> QED BY <1>2, <4>1
    <3> QED BY <1>4, <3>4, <3>5, <3>6, <3>7, <3>8 DEF Run, WindDown
  <2> QED BY <2>1, <2>2
<1>5. ASSUME NEW c \in Caller, Continue(c) PROVE DriverChosen(v)'
  <2>1. CASE UnpauseToken(c)
    BY <1>0, <1>1, <2>1 DEF UnpauseToken, RunRec
  <2>2. CASE ~UnpauseToken(c)
    <3>1. run' = run
      BY <1>5, <2>2
          DEF Continue, Dequeue, PauseSet, SetIntent, Cancel, UnpauseUnstop,
              UnpauseCheck, UnpauseIntent, UnpausePush, UnpauseSet, RemoveSet,
              Drop, CallKick, CallSave
    <3> QED BY <1>1, <3>1
  <2> QED BY <2>1, <2>2
<1>6. CASE \/ \E c \in Caller : Begin(c)
           \/ SchedWake \/ SchedLock \/ SchedPeek \/ AutoSave \/ UNCHANGED vars
  <2>1. run' = run
    BY <1>6 DEF Begin, Add, Pause, Unpause, StopSeeding, Remove, SelectFiles,
                RemoveResult, Purge, SetLimit, SchedWake, SchedLock, SchedPeek, AutoSave,
                vars
  <2> QED BY <1>1, <2>1
<1> QED BY <1>3, <1>4, <1>5, <1>6 DEF Next, Sched

(* No task ends or seeds before its files are chosen, for every number of  *)
(* tasks, handlers and workers: a driver that started while the selection  *)
(* was open fetches metadata only (drive_bt_download), and one that did    *)
(* not cannot see it reopened.                                             *)
THEOREM FilesChosen == Spec => []ChosenBeforeDone
<1>1. Init => ChosenInv
  <2> SUFFICES ASSUME Init PROVE ChosenInv
    OBVIOUS
  <2> QED BY DEF Init, ChosenInv, DriverChosen, ChosenBeforeDone, Free, Idle
<1>2. TypeInv /\ ChosenInv /\ [Next]_vars => ChosenInv'
  <2> SUFFICES ASSUME TypeInv, ChosenInv, [Next]_vars PROVE ChosenInv'
    OBVIOUS
  <2> QED BY ChosenStatus, ChosenIntent, ChosenOrder, ChosenDriver DEF ChosenInv
<1>3. ChosenInv => ChosenBeforeDone
  BY DEF ChosenInv
<1> QED BY <1>1, <1>2, <1>3, TypeInit, TypeStep, PTL DEF Spec

----------------------------------------------------------------------------
(* The tracker lists. *)

(* A process that works on a subscription has one. *)
SubKnown ==
    \A p \in Proc : proc[p].pc \in {"push", "unclaim", "fetch", "sync", "last"}
                      => proc[p].sub \in Sub

(* The session file agrees with itself as the lists do. *)
SavedListed == \A u \in Url : savedLists.sources[u] # {} => u \in savedLists.global

SubsTypeInv == SubsTypeOK /\ SubKnown

(* The inductive invariant. *)
ListInv == SubsTypeInv /\ SourcesListed /\ SavedListed

----------------------------------------------------------------------------
(* Lemmas about the helpers. *)

LEMMA OrdersType ==
    ASSUME NEW S \in SUBSET Sub, NEW q \in Orders(S)
    PROVE  q \in Seq(Sub)
<1>1. IsFiniteSet(S) /\ Cardinality(S) \in Nat
  BY SubsAssumption, FS_Subset, FS_CardinalityType
<1>2. q \in [1..Cardinality(S) -> S]
  BY DEF Orders
<1> QED BY <1>1, <1>2

LEMMA IdleType == IdleProc \in ProcRec
BY DEF IdleProc, ProcRec, Pc

(* A jump changes one program counter and nothing else. *)
LEMMA GotoStep ==
    ASSUME SubsTypeOK, NEW p \in Proc, NEW x \in Pc, ProcTo(p, x)
    PROVE  /\ proc' \in [Proc -> ProcRec]
           /\ proc'[p].pc = x /\ proc'[p].sub = proc[p].sub
           /\ \A q \in Proc \ {p} : proc'[q] = proc[q]
<1>1. proc \in [Proc -> ProcRec] /\ proc[p] \in ProcRec
  BY DEF SubsTypeOK
<1>2. [proc[p] EXCEPT !.pc = x] \in ProcRec
  BY <1>1 DEF ProcRec
<1>3. proc' = [proc EXCEPT ![p] = [proc[p] EXCEPT !.pc = x]]
  BY DEF ProcTo
<1> QED BY <1>1, <1>2, <1>3 DEF ProcRec

(* A process that becomes r leaves the others alone. *)
LEMMA BecomeStep ==
    ASSUME SubsTypeOK, NEW p \in Proc, NEW r \in ProcRec, Become(p, r)
    PROVE  /\ proc' \in [Proc -> ProcRec]
           /\ proc'[p] = r
           /\ \A q \in Proc \ {p} : proc'[q] = proc[q]
BY DEF SubsTypeOK, Become

(* What a released claim leaves of the sources. *)
LEMMA WithoutType ==
    ASSUME SubsTypeOK, NEW s, NEW D \in SUBSET Url
    PROVE  /\ Without(s, D) \in [Url -> SUBSET (Sub \cup {Manual})]
           /\ Released(s, D) \in SUBSET Url
BY DEF SubsTypeOK, Without, Released

(* Releasing claims keeps what has a source in the list. *)
LEMMA WithoutListed ==
    ASSUME SubsTypeOK, SourcesListed, NEW s, NEW D \in SUBSET Url, NEW u \in Url,
           Without(s, D)[u] # {}
    PROVE  u \in global \ Released(s, D)
BY DEF SubsTypeOK, SourcesListed, Without

(* A claim of the user is never released. *)
LEMMA ManualNotReleased ==
    ASSUME SubsTypeOK, NEW s \in Sub, NEW D \in SUBSET Url, NEW u \in Url,
           Manual \in sources[u]
    PROVE  u \notin Released(s, D)
BY SubsAssumption DEF SubsTypeOK, Released

LEMMA SubsTypeInit == SubsInit => ListInv
<1> SUFFICES ASSUME SubsInit PROVE ListInv
  OBVIOUS
<1>0. last \in [Sub -> SUBSET Url] /\ subs \in [Sub -> SubState]
      /\ sources \in [Url -> SUBSET (Sub \cup {Manual})] /\ global \in SUBSET Url
      /\ taskUrls \in SUBSET Url
  BY SubsAssumption DEF SubsInit, SubState
<1>1. savedLists \in SavedRec
  BY <1>0 DEF SubsInit, Snapshot, SavedRec
<1>2. proc \in [Proc -> ProcRec]
  BY IdleType DEF SubsInit
<1>3. engine \in [pc : {"off", "global", "register", "on"}, urls : SUBSET Url]
  BY DEF SubsInit
<1>4. pending \in Seq(Sub)
  <2>1. pending = <<>>
    BY DEF SubsInit
  <2> QED BY <2>1
<1>4a. subKick \in BOOLEAN
  BY DEF SubsInit
<1>5. SubsTypeOK
  BY <1>0, <1>1, <1>2, <1>3, <1>4, <1>4a DEF SubsTypeOK
<1>6. SubKnown
  BY DEF SubsInit, SubKnown, IdleProc
<1>7. SourcesListed /\ SavedListed
  BY DEF SubsInit, SourcesListed, SavedListed, Snapshot
<1> QED BY <1>5, <1>6, <1>7 DEF ListInv, SubsTypeInv

----------------------------------------------------------------------------
(* Every action keeps the types. *)

LEMMA AddTrackerType ==
    ASSUME SubsTypeInv, NEW c \in Handler, NEW u \in Url, AddTracker(c, u)
    PROVE  SubsTypeInv'
<1>2. global' \subseteq Url /\ sources' \in [Url -> SUBSET (Sub \cup {Manual})]
  BY DEF SubsTypeInv, SubsTypeOK, AddTracker
<1> DEFINE r == [IdleProc EXCEPT !.pc = "delta", !.add = {u}]
<1>3. c \in Proc /\ r \in ProcRec
  BY IdleType DEF SubsTypeInv, SubsTypeOK, IdleProc, ProcRec, Pc, Proc
<1>4. r.pc \in {"push", "unclaim", "fetch", "sync", "last"} => r.sub \in Sub
  BY DEF SubsTypeInv, SubsTypeOK, SubKnown, IdleProc, ProcRec, AddTracker, ProcAt
<1>5. Become(c, r)
  BY DEF AddTracker
<1> HIDE DEF r
<1>6. proc' \in [Proc -> ProcRec] /\ proc'[c] = r
      /\ \A v \in Proc \ {c} : proc'[v] = proc[v]
  BY <1>3, <1>5, BecomeStep DEF SubsTypeInv
<1>7. SubsTypeOK'
  BY <1>2, <1>6 DEF SubsTypeInv, SubsTypeOK, AddTracker, lists
<1>8. SubKnown'
  BY <1>3, <1>4, <1>6 DEF SubsTypeInv, SubKnown
<1> QED BY <1>7, <1>8 DEF SubsTypeInv

LEMMA RemoveTrackerType ==
    ASSUME SubsTypeInv, NEW c \in Handler, NEW u \in Url, RemoveTracker(c, u)
    PROVE  SubsTypeInv'
<1>2. global' \subseteq Url /\ sources' \in [Url -> SUBSET (Sub \cup {Manual})]
  BY DEF SubsTypeInv, SubsTypeOK, RemoveTracker
<1> DEFINE r == [IdleProc EXCEPT !.pc = "untask", !.rem = {u}]
<1>3. c \in Proc /\ r \in ProcRec
  BY IdleType DEF SubsTypeInv, SubsTypeOK, IdleProc, ProcRec, Pc, Proc
<1>4. r.pc \in {"push", "unclaim", "fetch", "sync", "last"} => r.sub \in Sub
  BY DEF SubsTypeInv, SubsTypeOK, SubKnown, IdleProc, ProcRec, RemoveTracker, ProcAt
<1>5. Become(c, r)
  BY DEF RemoveTracker
<1> HIDE DEF r
<1>6. proc' \in [Proc -> ProcRec] /\ proc'[c] = r
      /\ \A v \in Proc \ {c} : proc'[v] = proc[v]
  BY <1>3, <1>5, BecomeStep DEF SubsTypeInv
<1>7. SubsTypeOK'
  BY <1>2, <1>6 DEF SubsTypeInv, SubsTypeOK, RemoveTracker, lists
<1>8. SubKnown'
  BY <1>3, <1>4, <1>6 DEF SubsTypeInv, SubKnown
<1> QED BY <1>7, <1>8 DEF SubsTypeInv

LEMMA ReplaceTrackersType ==
    ASSUME SubsTypeInv, NEW c \in Handler, NEW L \in SUBSET Url, ReplaceTrackers(c, L)
    PROVE  SubsTypeInv'
<1>2. global' \subseteq Url /\ sources' \in [Url -> SUBSET (Sub \cup {Manual})]
  BY DEF SubsTypeInv, SubsTypeOK, ReplaceTrackers
<1> DEFINE r == [IdleProc EXCEPT !.pc = "delta", !.add = L \ global, !.rem = global \ L]
<1>3. c \in Proc /\ r \in ProcRec
  BY IdleType DEF SubsTypeInv, SubsTypeOK, IdleProc, ProcRec, Pc, Proc
<1>4. r.pc \in {"push", "unclaim", "fetch", "sync", "last"} => r.sub \in Sub
  BY DEF SubsTypeInv, SubsTypeOK, SubKnown, IdleProc, ProcRec, ReplaceTrackers, ProcAt
<1>5. Become(c, r)
  BY DEF ReplaceTrackers
<1> HIDE DEF r
<1>6. proc' \in [Proc -> ProcRec] /\ proc'[c] = r
      /\ \A v \in Proc \ {c} : proc'[v] = proc[v]
  BY <1>3, <1>5, BecomeStep DEF SubsTypeInv
<1>7. SubsTypeOK'
  BY <1>2, <1>6 DEF SubsTypeInv, SubsTypeOK, ReplaceTrackers, lists
<1>8. SubKnown'
  BY <1>3, <1>4, <1>6 DEF SubsTypeInv, SubKnown
<1> QED BY <1>7, <1>8 DEF SubsTypeInv

LEMMA AddTaskTrackerType ==
    ASSUME SubsTypeInv, NEW c \in Handler, NEW u \in Url, AddTaskTracker(c, u)
    PROVE  SubsTypeInv'
<1> DEFINE r == [IdleProc EXCEPT !.pc = "inject", !.add = {u}]
<1>3. c \in Proc /\ r \in ProcRec
  BY IdleType DEF SubsTypeInv, SubsTypeOK, IdleProc, ProcRec, Pc, Proc
<1>4. r.pc \in {"push", "unclaim", "fetch", "sync", "last"} => r.sub \in Sub
  BY DEF SubsTypeInv, SubsTypeOK, SubKnown, IdleProc, ProcRec, AddTaskTracker, ProcAt
<1>5. Become(c, r)
  BY DEF AddTaskTracker
<1> HIDE DEF r
<1>6. proc' \in [Proc -> ProcRec] /\ proc'[c] = r
      /\ \A v \in Proc \ {c} : proc'[v] = proc[v]
  BY <1>3, <1>5, BecomeStep DEF SubsTypeInv
<1>7. SubsTypeOK'
  BY <1>6 DEF SubsTypeInv, SubsTypeOK, AddTaskTracker, lists
<1>8. SubKnown'
  BY <1>3, <1>4, <1>6 DEF SubsTypeInv, SubKnown
<1> QED BY <1>7, <1>8 DEF SubsTypeInv

LEMMA AddSubscriptionType ==
    ASSUME SubsTypeInv, NEW c \in Handler, NEW s \in Sub, AddSubscription(c, s)
    PROVE  SubsTypeInv'
<1>1. PICK e \in {"on", "off"} :
             subs' = [subs EXCEPT ![s] = e] /\ Become(c, [IdleProc EXCEPT !.pc = IF e = "on" THEN "push" ELSE "save", !.sub = s])
  BY DEF AddSubscription
<1>1a. (IF e = "on" THEN "push" ELSE "save") \in Pc
  BY DEF Pc
<1>1b. [IdleProc EXCEPT !.sub = s] \in ProcRec
  BY IdleType DEF ProcRec
<1>2. c \in Proc /\ [IdleProc EXCEPT !.pc = IF e = "on" THEN "push" ELSE "save", !.sub = s] \in ProcRec
  BY <1>1a, <1>1b DEF IdleProc, ProcRec, Proc
<1>3. proc' \in [Proc -> ProcRec] /\ proc'[c].sub \in Sub
      /\ \A v \in Proc \ {c} : proc'[v] = proc[v]
  BY <1>1, <1>2, BecomeStep DEF SubsTypeInv, IdleProc
<1>4. subs' \in [Sub -> SubState]
  BY <1>1 DEF SubsTypeInv, SubsTypeOK, SubState
<1>5. SubsTypeOK'
  BY <1>3, <1>4 DEF SubsTypeInv, SubsTypeOK, AddSubscription
<1>6. SubKnown'
  BY <1>2, <1>3 DEF SubsTypeInv, SubKnown
<1> QED BY <1>5, <1>6 DEF SubsTypeInv

LEMMA RemoveSubscriptionType ==
    ASSUME SubsTypeInv, NEW c \in Handler, NEW s \in Sub, RemoveSubscription(c, s)
    PROVE  SubsTypeInv'
<1>1. Claims(s) \in SUBSET Url
  BY DEF Claims
<1>2. global' \subseteq Url /\ sources' \in [Url -> SUBSET (Sub \cup {Manual})]
  BY <1>1, WithoutType DEF SubsTypeInv, SubsTypeOK, RemoveSubscription, UnclaimAll
<1>a. subs' \in [Sub -> SubState]
  BY DEF SubsTypeInv, SubsTypeOK, RemoveSubscription, SubState
<1> DEFINE r == [IdleProc EXCEPT !.pc = "save"]
<1>3. c \in Proc /\ r \in ProcRec
  BY IdleType DEF SubsTypeInv, SubsTypeOK, IdleProc, ProcRec, Pc, Proc
<1>4. r.pc \in {"push", "unclaim", "fetch", "sync", "last"} => r.sub \in Sub
  BY DEF SubsTypeInv, SubsTypeOK, SubKnown, IdleProc, ProcRec, RemoveSubscription, ProcAt
<1>5. Become(c, r)
  BY DEF RemoveSubscription
<1> HIDE DEF r
<1>6. proc' \in [Proc -> ProcRec] /\ proc'[c] = r
      /\ \A v \in Proc \ {c} : proc'[v] = proc[v]
  BY <1>3, <1>5, BecomeStep DEF SubsTypeInv
<1>7. SubsTypeOK'
  BY <1>2, <1>a, <1>6 DEF SubsTypeInv, SubsTypeOK, RemoveSubscription, lists
<1>8. SubKnown'
  BY <1>3, <1>4, <1>6 DEF SubsTypeInv, SubKnown
<1> QED BY <1>7, <1>8 DEF SubsTypeInv

LEMMA ToggleSubscriptionType ==
    ASSUME SubsTypeInv, NEW c \in Handler, NEW s \in Sub, ToggleSubscription(c, s)
    PROVE  SubsTypeInv'
<1>a. subs' \in [Sub -> SubState]
  BY DEF SubsTypeInv, SubsTypeOK, ToggleSubscription, SubState
<1> DEFINE r == [IdleProc EXCEPT !.pc = IF subs[s] = "on" THEN "unclaim" ELSE "push", !.sub = s]
<1>3. c \in Proc /\ r \in ProcRec
  BY IdleType DEF SubsTypeInv, SubsTypeOK, IdleProc, ProcRec, Pc, Proc
<1>4. r.pc \in {"push", "unclaim", "fetch", "sync", "last"} => r.sub \in Sub
  BY DEF SubsTypeInv, SubsTypeOK, SubKnown, IdleProc, ProcRec, ToggleSubscription, ProcAt
<1>5. Become(c, r)
  BY DEF ToggleSubscription
<1> HIDE DEF r
<1>6. proc' \in [Proc -> ProcRec] /\ proc'[c] = r
      /\ \A v \in Proc \ {c} : proc'[v] = proc[v]
  BY <1>3, <1>5, BecomeStep DEF SubsTypeInv
<1>7. SubsTypeOK'
  BY <1>a, <1>6 DEF SubsTypeInv, SubsTypeOK, ToggleSubscription, lists
<1>8. SubKnown'
  BY <1>3, <1>4, <1>6 DEF SubsTypeInv, SubKnown
<1> QED BY <1>7, <1>8 DEF SubsTypeInv

LEMMA RefreshOneType ==
    ASSUME SubsTypeInv, NEW c \in Handler, NEW s \in Sub, RefreshOne(c, s)
    PROVE  SubsTypeInv'
<1> DEFINE r == [IdleProc EXCEPT !.pc = "next", !.todo = <<s>>]
<1>1. <<s>> \in Seq(Sub)
  OBVIOUS
<1>3. c \in Proc /\ r \in ProcRec
  BY <1>1, IdleType DEF SubsTypeInv, SubsTypeOK, IdleProc, ProcRec, Pc, Proc
<1>4. r.pc \in {"push", "unclaim", "fetch", "sync", "last"} => r.sub \in Sub
  BY DEF SubsTypeInv, SubsTypeOK, SubKnown, IdleProc, ProcRec, RefreshOne, ProcAt
<1>5. Become(c, r)
  BY DEF RefreshOne
<1> HIDE DEF r
<1>6. proc' \in [Proc -> ProcRec] /\ proc'[c] = r
      /\ \A v \in Proc \ {c} : proc'[v] = proc[v]
  BY <1>3, <1>5, BecomeStep DEF SubsTypeInv
<1>7. SubsTypeOK'
  BY <1>6 DEF SubsTypeInv, SubsTypeOK, RefreshOne, lists
<1>8. SubKnown'
  BY <1>3, <1>4, <1>6 DEF SubsTypeInv, SubKnown
<1> QED BY <1>7, <1>8 DEF SubsTypeInv

LEMMA RefreshAllType ==
    ASSUME SubsTypeInv, NEW c \in Handler, RefreshAll(c)
    PROVE  SubsTypeInv'
<1>1. PICK S \in SUBSET Sub : \E q \in Orders(S) : Become(c, [IdleProc EXCEPT !.pc = "next", !.todo = q])
  BY DEF RefreshAll, Enabled
<1>2. PICK q \in Orders(S) : Become(c, [IdleProc EXCEPT !.pc = "next", !.todo = q])
  BY <1>1
<1>3. q \in Seq(Sub)
  BY OrdersType
<1>4. [IdleProc EXCEPT !.pc = "next", !.todo = q] \in ProcRec
  BY <1>3 DEF IdleProc, ProcRec, Pc
<1>5. c \in Proc
  BY DEF Proc
<1>5a. proc' \in [Proc -> ProcRec] /\ proc'[c] = [IdleProc EXCEPT !.pc = "next", !.todo = q]
      /\ \A v \in Proc \ {c} : proc'[v] = proc[v]
  BY <1>2, <1>4, <1>5, BecomeStep DEF SubsTypeInv
<1>6. proc' \in [Proc -> ProcRec] /\ proc'[c].pc = "next"
      /\ \A v \in Proc \ {c} : proc'[v] = proc[v]
  BY <1>5a DEF IdleProc
<1>7. SubsTypeOK'
  BY <1>6 DEF SubsTypeInv, SubsTypeOK, RefreshAll, lists
<1>8. SubKnown'
  BY <1>5, <1>6 DEF SubsTypeInv, SubKnown
<1> QED BY <1>7, <1>8 DEF SubsTypeInv

LEMMA DeltaTaskType ==
    ASSUME SubsTypeInv, NEW p \in Proc, DeltaTask(p)
    PROVE  SubsTypeInv'
<1>1. proc[p].add \in SUBSET Url
  BY DEF SubsTypeInv, SubsTypeOK, ProcRec
<1>2. taskUrls' \subseteq Url
  BY <1>1 DEF SubsTypeInv, SubsTypeOK, DeltaTask
<1>3. p \in Proc /\ ("inject") \in Pc
  BY DEF Proc, Pc
<1>4. proc' \in [Proc -> ProcRec] /\ proc'[p].pc = "inject"
      /\ \A v \in Proc \ {p} : proc'[v] = proc[v]
  BY <1>3, GotoStep DEF SubsTypeInv, DeltaTask
<1>5. SubsTypeOK'
  BY <1>2, <1>4 DEF SubsTypeInv, SubsTypeOK, DeltaTask, lists
<1>6. SubKnown'
  BY <1>3, <1>4 DEF SubsTypeInv, SubsTypeOK, SubKnown, ProcRec
<1> QED BY <1>5, <1>6 DEF SubsTypeInv

LEMMA DeltaEngineType ==
    ASSUME SubsTypeInv, NEW p \in Proc, DeltaEngine(p)
    PROVE  SubsTypeInv'
<1>1. proc[p].add \in SUBSET Url
  BY DEF SubsTypeInv, SubsTypeOK, ProcRec
<1>2. engine' \in [pc : {"off", "global", "register", "on"}, urls : SUBSET Url]
  BY <1>1 DEF SubsTypeInv, SubsTypeOK, DeltaEngine
<1>3. p \in Proc /\ (IF proc[p].sub # NoSub THEN "last" ELSE IF proc[p].rem # {} THEN "untask" ELSE "save") \in Pc
  BY DEF Proc, Pc
<1>4. proc' \in [Proc -> ProcRec] /\ proc'[p].sub = proc[p].sub
      /\ proc'[p].pc = (IF proc[p].sub # NoSub THEN "last" ELSE IF proc[p].rem # {} THEN "untask" ELSE "save")
      /\ \A v \in Proc \ {p} : proc'[v] = proc[v]
  BY <1>3, GotoStep DEF SubsTypeInv, DeltaEngine
<1>5. SubsTypeOK'
  BY <1>2, <1>4 DEF SubsTypeInv, SubsTypeOK, DeltaEngine, lists
<1>6. SubKnown'
  BY <1>3, <1>4 DEF SubsTypeInv, SubsTypeOK, SubKnown, ProcRec
<1> QED BY <1>5, <1>6 DEF SubsTypeInv

LEMMA UntaskType ==
    ASSUME SubsTypeInv, NEW p \in Proc, Untask(p)
    PROVE  SubsTypeInv'
<1>3. p \in Proc /\ ("save") \in Pc
  BY DEF Proc, Pc
<1>4. proc' \in [Proc -> ProcRec] /\ proc'[p].pc = "save"
      /\ \A v \in Proc \ {p} : proc'[v] = proc[v]
  BY <1>3, GotoStep DEF SubsTypeInv, Untask
<1>5. SubsTypeOK'
  BY <1>4 DEF SubsTypeInv, SubsTypeOK, Untask, lists
<1>6. SubKnown'
  BY <1>3, <1>4 DEF SubsTypeInv, SubsTypeOK, SubKnown, ProcRec
<1> QED BY <1>5, <1>6 DEF SubsTypeInv

LEMMA PushType ==
    ASSUME SubsTypeInv, NEW p \in Proc, Push(p)
    PROVE  SubsTypeInv'
<1>1. proc[p].sub \in Sub
  BY DEF SubsTypeInv, SubKnown, Push, ProcAt
<1>2. pending' \in Seq(Sub)
  BY <1>1 DEF SubsTypeInv, SubsTypeOK, Push
<1>3. p \in Proc /\ ("notify") \in Pc
  BY DEF Proc, Pc
<1>4. proc' \in [Proc -> ProcRec] /\ proc'[p].pc = "notify"
      /\ \A v \in Proc \ {p} : proc'[v] = proc[v]
  BY <1>3, GotoStep DEF SubsTypeInv, Push
<1>5. SubsTypeOK'
  BY <1>2, <1>4 DEF SubsTypeInv, SubsTypeOK, Push, lists
<1>6. SubKnown'
  BY <1>3, <1>4 DEF SubsTypeInv, SubsTypeOK, SubKnown, ProcRec
<1> QED BY <1>5, <1>6 DEF SubsTypeInv

LEMMA NotifyType ==
    ASSUME SubsTypeInv, NEW p \in Proc, Notify(p)
    PROVE  SubsTypeInv'
<1>3. p \in Proc /\ ("save") \in Pc
  BY DEF Proc, Pc
<1>4. proc' \in [Proc -> ProcRec] /\ proc'[p].pc = "save"
      /\ \A v \in Proc \ {p} : proc'[v] = proc[v]
  BY <1>3, GotoStep DEF SubsTypeInv, Notify
<1>5. SubsTypeOK'
  BY <1>4 DEF SubsTypeInv, SubsTypeOK, Notify, lists
<1>6. SubKnown'
  BY <1>3, <1>4 DEF SubsTypeInv, SubsTypeOK, SubKnown, ProcRec
<1> QED BY <1>5, <1>6 DEF SubsTypeInv

LEMMA UnclaimType ==
    ASSUME SubsTypeInv, NEW p \in Proc, Unclaim(p)
    PROVE  SubsTypeInv'
<1>1. Claims(proc[p].sub) \in SUBSET Url
  BY DEF Claims
<1>2. global' \subseteq Url /\ sources' \in [Url -> SUBSET (Sub \cup {Manual})]
  BY <1>1, WithoutType DEF SubsTypeInv, SubsTypeOK, Unclaim, UnclaimAll
<1>3. p \in Proc /\ ("save") \in Pc
  BY DEF Proc, Pc
<1>4. proc' \in [Proc -> ProcRec] /\ proc'[p].pc = "save"
      /\ \A v \in Proc \ {p} : proc'[v] = proc[v]
  BY <1>3, GotoStep DEF SubsTypeInv, Unclaim
<1>5. SubsTypeOK'
  BY <1>2, <1>4 DEF SubsTypeInv, SubsTypeOK, Unclaim, lists
<1>6. SubKnown'
  BY <1>3, <1>4 DEF SubsTypeInv, SubsTypeOK, SubKnown, ProcRec
<1> QED BY <1>5, <1>6 DEF SubsTypeInv

LEMMA NextSubType ==
    ASSUME SubsTypeInv, NEW p \in Proc, NextSub(p)
    PROVE  SubsTypeInv'
<1> DEFINE r == IF proc[p].todo = <<>>
                   THEN [IdleProc EXCEPT !.pc = IF proc[p].save THEN "save" ELSE "idle"]
                   ELSE [proc[p] EXCEPT !.todo = Tail(@), !.sub = Head(proc[p].todo),
                           !.pc = IF proc[p].check /\ subs[Head(proc[p].todo)] # "on"
                                  THEN "next" ELSE "fetch"]
<1>1. proc[p] \in ProcRec /\ proc[p].todo \in Seq(Sub)
  BY DEF SubsTypeInv, SubsTypeOK, ProcRec
<1>2. CASE proc[p].todo = <<>>
  <2>1. r \in ProcRec /\ r.pc \in {"save", "idle"}
    BY <1>1, <1>2 DEF IdleProc, ProcRec, Pc
  <2>2. Become(p, r)
    BY <1>2 DEF NextSub
  <2> HIDE DEF r
  <2>3. proc' \in [Proc -> ProcRec] /\ proc'[p] = r
        /\ \A v \in Proc \ {p} : proc'[v] = proc[v]
    BY <2>1, <2>2, BecomeStep DEF SubsTypeInv
  <2>4. SubsTypeOK'
    BY <2>3 DEF SubsTypeInv, SubsTypeOK, NextSub, lists
  <2>5. SubKnown'
    BY <2>1, <2>3 DEF SubsTypeInv, SubKnown
  <2> QED BY <2>4, <2>5 DEF SubsTypeInv
<1>3. CASE proc[p].todo # <<>>
  <2>0. Head(proc[p].todo) \in Sub /\ Tail(proc[p].todo) \in Seq(Sub)
    BY <1>1, <1>3
  <2>1. r \in ProcRec /\ r.sub \in Sub
    BY <1>1, <1>3, <2>0 DEF ProcRec, Pc
  <2>2. Become(p, r)
    BY <1>3 DEF NextSub
  <2> HIDE DEF r
  <2>3. proc' \in [Proc -> ProcRec] /\ proc'[p] = r
        /\ \A v \in Proc \ {p} : proc'[v] = proc[v]
    BY <2>1, <2>2, BecomeStep DEF SubsTypeInv
  <2>4. SubsTypeOK'
    BY <2>3 DEF SubsTypeInv, SubsTypeOK, NextSub, lists
  <2>5. SubKnown'
    BY <2>1, <2>3 DEF SubsTypeInv, SubKnown
  <2> QED BY <2>4, <2>5 DEF SubsTypeInv
<1> QED BY <1>2, <1>3

LEMMA SyncType ==
    ASSUME SubsTypeInv, NEW p \in Proc, Sync(p)
    PROVE  SubsTypeInv'
<1>1. /\ proc[p].sub \in Sub /\ proc[p].list \in SUBSET Url
      /\ Claims(proc[p].sub) \ proc[p].list \in SUBSET Url
  BY DEF SubsTypeInv, SubsTypeOK, SubKnown, Sync, ProcAt, ProcRec, Claims
<1>2. global' \subseteq Url /\ sources' \in [Url -> SUBSET (Sub \cup {Manual})]
  BY <1>1, WithoutType DEF SubsTypeInv, SubsTypeOK, Sync
<1> DEFINE r == [proc[p] EXCEPT !.pc = "delta", !.add = proc[p].list \ global]
<1>3. p \in Proc /\ r \in ProcRec
  BY IdleType DEF SubsTypeInv, SubsTypeOK, IdleProc, ProcRec, Pc, Proc
<1>4. r.pc \in {"push", "unclaim", "fetch", "sync", "last"} => r.sub \in Sub
  BY DEF SubsTypeInv, SubsTypeOK, SubKnown, IdleProc, ProcRec, Sync, ProcAt
<1>5. Become(p, r)
  BY DEF Sync
<1> HIDE DEF r
<1>6. proc' \in [Proc -> ProcRec] /\ proc'[p] = r
      /\ \A v \in Proc \ {p} : proc'[v] = proc[v]
  BY <1>3, <1>5, BecomeStep DEF SubsTypeInv
<1>7. SubsTypeOK'
  BY <1>2, <1>6 DEF SubsTypeInv, SubsTypeOK, Sync, lists
<1>8. SubKnown'
  BY <1>3, <1>4, <1>6 DEF SubsTypeInv, SubKnown
<1> QED BY <1>7, <1>8 DEF SubsTypeInv

LEMMA SetLastType ==
    ASSUME SubsTypeInv, NEW p \in Proc, SetLast(p)
    PROVE  SubsTypeInv'
<1>1. proc[p].sub \in Sub /\ proc[p].list \in SUBSET Url
  BY DEF SubsTypeInv, SubsTypeOK, SubKnown, SetLast, ProcAt, ProcRec
<1>2. last' \in [Sub -> SUBSET Url]
  BY <1>1 DEF SubsTypeInv, SubsTypeOK, SetLast
<1> DEFINE r == [proc[p] EXCEPT !.pc = "next", !.add = {}, !.save = TRUE]
<1>3. p \in Proc /\ r \in ProcRec
  BY IdleType DEF SubsTypeInv, SubsTypeOK, IdleProc, ProcRec, Pc, Proc
<1>4. r.pc \in {"push", "unclaim", "fetch", "sync", "last"} => r.sub \in Sub
  BY DEF SubsTypeInv, SubsTypeOK, SubKnown, IdleProc, ProcRec, SetLast, ProcAt
<1>5. Become(p, r)
  BY DEF SetLast
<1> HIDE DEF r
<1>6. proc' \in [Proc -> ProcRec] /\ proc'[p] = r
      /\ \A v \in Proc \ {p} : proc'[v] = proc[v]
  BY <1>3, <1>5, BecomeStep DEF SubsTypeInv
<1>7. SubsTypeOK'
  BY <1>2, <1>6 DEF SubsTypeInv, SubsTypeOK, SetLast, lists
<1>8. SubKnown'
  BY <1>3, <1>4, <1>6 DEF SubsTypeInv, SubKnown
<1> QED BY <1>7, <1>8 DEF SubsTypeInv

LEMMA SubsSaveType ==
    ASSUME SubsTypeInv, NEW p \in Proc, Save(p)
    PROVE  SubsTypeInv'
<1>2. savedLists' \in SavedRec
  BY DEF SubsTypeInv, SubsTypeOK, Save, Snapshot, SavedRec
<1> DEFINE r == IdleProc
<1>3. p \in Proc /\ r \in ProcRec
  BY IdleType DEF SubsTypeInv, SubsTypeOK, IdleProc, ProcRec, Pc, Proc
<1>4. r.pc \in {"push", "unclaim", "fetch", "sync", "last"} => r.sub \in Sub
  BY DEF SubsTypeInv, SubsTypeOK, SubKnown, IdleProc, ProcRec, Save, ProcAt
<1>5. Become(p, r)
  BY DEF Save
<1> HIDE DEF r
<1>6. proc' \in [Proc -> ProcRec] /\ proc'[p] = r
      /\ \A v \in Proc \ {p} : proc'[v] = proc[v]
  BY <1>3, <1>5, BecomeStep DEF SubsTypeInv
<1>7. SubsTypeOK'
  BY <1>2, <1>6 DEF SubsTypeInv, SubsTypeOK, Save, lists
<1>8. SubKnown'
  BY <1>3, <1>4, <1>6 DEF SubsTypeInv, SubKnown
<1> QED BY <1>7, <1>8 DEF SubsTypeInv

LEMMA FetchType ==
    ASSUME SubsTypeInv, NEW p \in Proc, NEW L \in SUBSET Url, Fetch(p, L)
    PROVE  SubsTypeInv'
<1> DEFINE r == [proc[p] EXCEPT !.pc = IF L = {} THEN "next" ELSE "sync", !.list = L]
<1>3. p \in Proc /\ r \in ProcRec
  BY IdleType DEF SubsTypeInv, SubsTypeOK, IdleProc, ProcRec, Pc, Proc
<1>4. r.pc \in {"push", "unclaim", "fetch", "sync", "last"} => r.sub \in Sub
  BY DEF SubsTypeInv, SubsTypeOK, SubKnown, IdleProc, ProcRec, Fetch, ProcAt
<1>5. Become(p, r)
  BY DEF Fetch
<1> HIDE DEF r
<1>6. proc' \in [Proc -> ProcRec] /\ proc'[p] = r
      /\ \A v \in Proc \ {p} : proc'[v] = proc[v]
  BY <1>3, <1>5, BecomeStep DEF SubsTypeInv
<1>7. SubsTypeOK'
  BY <1>6 DEF SubsTypeInv, SubsTypeOK, Fetch, lists
<1>8. SubKnown'
  BY <1>3, <1>4, <1>6 DEF SubsTypeInv, SubKnown
<1> QED BY <1>7, <1>8 DEF SubsTypeInv

LEMMA SubWakeType ==
    ASSUME SubsTypeInv, SubWake
    PROVE  SubsTypeInv'
<1>3. Refresher \in Proc /\ ("take") \in Pc
  BY DEF Proc, Pc
<1>4. proc' \in [Proc -> ProcRec] /\ proc'[Refresher].pc = "take"
      /\ \A v \in Proc \ {Refresher} : proc'[v] = proc[v]
  BY <1>3, GotoStep DEF SubsTypeInv, SubWake
<1>5. SubsTypeOK'
  BY <1>4 DEF SubsTypeInv, SubsTypeOK, SubWake, lists
<1>6. SubKnown'
  BY <1>3, <1>4 DEF SubsTypeInv, SubsTypeOK, SubKnown, ProcRec
<1> QED BY <1>5, <1>6 DEF SubsTypeInv

LEMMA TakePendingType ==
    ASSUME SubsTypeInv, TakePending
    PROVE  SubsTypeInv'
<1> DEFINE r == [IdleProc EXCEPT !.pc = "next", !.todo = pending, !.check = TRUE]
<1>3. Refresher \in Proc /\ r \in ProcRec
  BY IdleType DEF SubsTypeInv, SubsTypeOK, IdleProc, ProcRec, Pc, Proc
<1>4. r.pc \in {"push", "unclaim", "fetch", "sync", "last"} => r.sub \in Sub
  BY DEF SubsTypeInv, SubsTypeOK, SubKnown, IdleProc, ProcRec, TakePending, ProcAt
<1>5. Become(Refresher, r)
  BY DEF TakePending
<1> HIDE DEF r
<1>6. proc' \in [Proc -> ProcRec] /\ proc'[Refresher] = r
      /\ \A v \in Proc \ {Refresher} : proc'[v] = proc[v]
  BY <1>3, <1>5, BecomeStep DEF SubsTypeInv
<1>7. SubsTypeOK'
  BY <1>6 DEF SubsTypeInv, SubsTypeOK, TakePending, lists
<1>8. SubKnown'
  BY <1>3, <1>4, <1>6 DEF SubsTypeInv, SubKnown
<1> QED BY <1>7, <1>8 DEF SubsTypeInv

LEMMA HourTickType ==
    ASSUME SubsTypeInv, HourTick
    PROVE  SubsTypeInv'
<1>1. PICK S \in SUBSET Sub : \E q \in Orders(S) : Become(Refresher, [IdleProc EXCEPT !.pc = "next", !.todo = q, !.save = FALSE])
  BY DEF HourTick, Enabled
<1>2. PICK q \in Orders(S) : Become(Refresher, [IdleProc EXCEPT !.pc = "next", !.todo = q, !.save = FALSE])
  BY <1>1
<1>3. q \in Seq(Sub)
  BY OrdersType
<1>4. [IdleProc EXCEPT !.pc = "next", !.todo = q, !.save = FALSE] \in ProcRec
  BY <1>3 DEF IdleProc, ProcRec, Pc
<1>5. Refresher \in Proc
  BY DEF Proc
<1>5a. proc' \in [Proc -> ProcRec] /\ proc'[Refresher] = [IdleProc EXCEPT !.pc = "next", !.todo = q, !.save = FALSE]
      /\ \A v \in Proc \ {Refresher} : proc'[v] = proc[v]
  BY <1>2, <1>4, <1>5, BecomeStep DEF SubsTypeInv
<1>6. proc' \in [Proc -> ProcRec] /\ proc'[Refresher].pc = "next"
      /\ \A v \in Proc \ {Refresher} : proc'[v] = proc[v]
  BY <1>5a DEF IdleProc
<1>7. SubsTypeOK'
  BY <1>6 DEF SubsTypeInv, SubsTypeOK, HourTick, lists
<1>8. SubKnown'
  BY <1>5, <1>6 DEF SubsTypeInv, SubKnown
<1> QED BY <1>7, <1>8 DEF SubsTypeInv

LEMMA EngineStartType ==
    ASSUME SubsTypeInv, EngineStart
    PROVE  SubsTypeInv'
<1>1. engine' \in [pc : {"off", "global", "register", "on"}, urls : SUBSET Url]
  BY DEF SubsTypeInv, SubsTypeOK, EngineStart
<1>2. SubsTypeOK'
  BY <1>1 DEF SubsTypeInv, SubsTypeOK, EngineStart, lists
<1>3. SubKnown'
  BY DEF SubsTypeInv, SubKnown, EngineStart
<1> QED BY <1>2, <1>3 DEF SubsTypeInv

LEMMA EngineGlobalType ==
    ASSUME SubsTypeInv, EngineGlobal
    PROVE  SubsTypeInv'
<1>1. engine' \in [pc : {"off", "global", "register", "on"}, urls : SUBSET Url]
  BY DEF SubsTypeInv, SubsTypeOK, EngineGlobal
<1>2. SubsTypeOK'
  BY <1>1 DEF SubsTypeInv, SubsTypeOK, EngineGlobal, lists
<1>3. SubKnown'
  BY DEF SubsTypeInv, SubKnown, EngineGlobal
<1> QED BY <1>2, <1>3 DEF SubsTypeInv

LEMMA EngineRegisterType ==
    ASSUME SubsTypeInv, EngineRegister
    PROVE  SubsTypeInv'
<1>1. engine' \in [pc : {"off", "global", "register", "on"}, urls : SUBSET Url]
  BY DEF SubsTypeInv, SubsTypeOK, EngineRegister
<1>2. SubsTypeOK'
  BY <1>1 DEF SubsTypeInv, SubsTypeOK, EngineRegister, lists
<1>3. SubKnown'
  BY DEF SubsTypeInv, SubKnown, EngineRegister
<1> QED BY <1>2, <1>3 DEF SubsTypeInv

LEMMA EngineStopType ==
    ASSUME SubsTypeInv, EngineStop
    PROVE  SubsTypeInv'
<1>1. engine' \in [pc : {"off", "global", "register", "on"}, urls : SUBSET Url]
  BY DEF SubsTypeInv, SubsTypeOK, EngineStop
<1>2. SubsTypeOK'
  BY <1>1 DEF SubsTypeInv, SubsTypeOK, EngineStop, lists
<1>3. SubKnown'
  BY DEF SubsTypeInv, SubKnown, EngineStop
<1> QED BY <1>2, <1>3 DEF SubsTypeInv

LEMMA AutoSaveType ==
    ASSUME SubsTypeInv, SaveLists
    PROVE  SubsTypeInv'
<1>1. savedLists' \in SavedRec
  BY DEF SubsTypeInv, SubsTypeOK, SaveLists, Snapshot, SavedRec
<1>2. SubsTypeOK'
  BY <1>1 DEF SubsTypeInv, SubsTypeOK, SaveLists, lists
<1>3. SubKnown'
  BY DEF SubsTypeInv, SubKnown, SaveLists
<1> QED BY <1>2, <1>3 DEF SubsTypeInv

LEMMA CrashType ==
    ASSUME SubsTypeInv, Crash
    PROVE  SubsTypeInv'
<1>1. proc' \in [Proc -> ProcRec]
  BY IdleType DEF Crash
<1>2. engine' \in [pc : {"off", "global", "register", "on"}, urls : SUBSET Url]
  BY DEF Crash
<1>3. global' \subseteq Url /\ sources' \in [Url -> SUBSET (Sub \cup {Manual})]
      /\ subs' \in [Sub -> SubState] /\ last' \in [Sub -> SUBSET Url]
      /\ taskUrls' \subseteq Url
  BY DEF SubsTypeInv, SubsTypeOK, Crash, SavedRec
<1>3a. pending' \in Seq(Sub)
  <2>1. pending' = <<>>
    BY DEF Crash
  <2> QED BY <2>1
<1>3b. subKick' \in BOOLEAN /\ savedLists' \in SavedRec
  BY DEF SubsTypeInv, SubsTypeOK, Crash
<1>4. SubsTypeOK'
  BY <1>1, <1>2, <1>3, <1>3a, <1>3b DEF SubsTypeOK
<1>5. SubKnown'
  BY DEF SubKnown, Crash, IdleProc
<1> QED BY <1>4, <1>5 DEF SubsTypeInv

----------------------------------------------------------------------------
(* Every action keeps the sources in agreement with the list. *)

LEMMA AddTrackerListed ==
    ASSUME ListInv, NEW c \in Handler, NEW u \in Url, AddTracker(c, u)
    PROVE  SourcesListed' /\ SavedListed'
BY DEF ListInv, SubsTypeInv, SubsTypeOK, SourcesListed, SavedListed, AddTracker

LEMMA RemoveTrackerListed ==
    ASSUME ListInv, NEW c \in Handler, NEW u \in Url, RemoveTracker(c, u)
    PROVE  SourcesListed' /\ SavedListed'
BY DEF ListInv, SubsTypeInv, SubsTypeOK, SourcesListed, SavedListed, RemoveTracker

LEMMA ReplaceTrackersListed ==
    ASSUME ListInv, NEW c \in Handler, NEW L \in SUBSET Url, ReplaceTrackers(c, L)
    PROVE  SourcesListed' /\ SavedListed'
BY DEF ListInv, SubsTypeInv, SubsTypeOK, SourcesListed, SavedListed, ReplaceTrackers

LEMMA RemoveSubscriptionListed ==
    ASSUME ListInv, NEW c \in Handler, NEW s \in Sub, RemoveSubscription(c, s)
    PROVE  SourcesListed' /\ SavedListed'
<1>1. Claims(s) \in SUBSET Url
  BY DEF Claims
<1>2. ASSUME NEW u \in Url, sources'[u] # {} PROVE u \in global'
  BY <1>1, <1>2, WithoutListed DEF ListInv, SubsTypeInv, RemoveSubscription, UnclaimAll
<1>3. SavedListed'
  BY DEF ListInv, SavedListed, RemoveSubscription
<1> QED BY <1>2, <1>3 DEF SourcesListed

LEMMA UnclaimListed ==
    ASSUME ListInv, NEW p \in Proc, Unclaim(p)
    PROVE  SourcesListed' /\ SavedListed'
<1>1. Claims(proc[p].sub) \in SUBSET Url
  BY DEF Claims
<1>2. ASSUME NEW u \in Url, sources'[u] # {} PROVE u \in global'
  BY <1>1, <1>2, WithoutListed DEF ListInv, SubsTypeInv, Unclaim, UnclaimAll
<1>3. SavedListed'
  BY DEF ListInv, SavedListed, Unclaim
<1> QED BY <1>2, <1>3 DEF SourcesListed

LEMMA SyncListed ==
    ASSUME ListInv, NEW p \in Proc, Sync(p)
    PROVE  SourcesListed' /\ SavedListed'
<1>1. Claims(proc[p].sub) \ proc[p].list \in SUBSET Url
  BY DEF Claims
<1>2. ASSUME NEW u \in Url, sources'[u] # {} PROVE u \in global'
  <2>1. CASE u \in proc[p].list
    BY <2>1 DEF Sync
  <2>2. CASE u \notin proc[p].list
    <3>1. Without(proc[p].sub, Claims(proc[p].sub) \ proc[p].list)[u] # {}
      BY <1>2, <2>2 DEF Sync
    <3> QED BY <1>1, <3>1, WithoutListed DEF ListInv, SubsTypeInv, Sync
  <2> QED BY <2>1, <2>2
<1>3. SavedListed'
  BY DEF ListInv, SavedListed, Sync
<1> QED BY <1>2, <1>3 DEF SourcesListed

LEMMA SaveListed ==
    ASSUME ListInv, NEW p \in Proc, Save(p)
    PROVE  SourcesListed' /\ SavedListed'
BY DEF ListInv, SourcesListed, SavedListed, Save, Snapshot, lists

LEMMA AutoSaveListed ==
    ASSUME ListInv, SaveLists
    PROVE  SourcesListed' /\ SavedListed'
BY DEF ListInv, SourcesListed, SavedListed, SaveLists, Snapshot, lists

LEMMA CrashListed ==
    ASSUME ListInv, Crash
    PROVE  SourcesListed' /\ SavedListed'
BY DEF ListInv, SourcesListed, SavedListed, Crash

(* The other actions touch neither sources, list nor file. *)
LEMMA OtherListed ==
    ASSUME ListInv, UNCHANGED <<global, sources, savedLists>>
    PROVE  SourcesListed' /\ SavedListed'
BY DEF ListInv, SourcesListed, SavedListed

(* One step of the system. *)
LEMMA Step == ListInv /\ [SubsNext]_subsVars => ListInv'
<1> SUFFICES ASSUME ListInv, [SubsNext]_subsVars PROVE ListInv'
  OBVIOUS
<1>0. SubsTypeInv
  BY DEF ListInv
<1>1. ASSUME NEW c \in Handler, NEW u \in Url, AddTracker(c, u) PROVE ListInv'
  BY <1>0, <1>1, AddTrackerType, AddTrackerListed DEF ListInv
<1>2. ASSUME NEW c \in Handler, NEW u \in Url, RemoveTracker(c, u) PROVE ListInv'
  BY <1>0, <1>2, RemoveTrackerType, RemoveTrackerListed DEF ListInv
<1>3. ASSUME NEW c \in Handler, NEW L \in SUBSET Url, ReplaceTrackers(c, L) PROVE ListInv'
  BY <1>0, <1>3, ReplaceTrackersType, ReplaceTrackersListed DEF ListInv
<1>4. ASSUME NEW c \in Handler, NEW u \in Url, AddTaskTracker(c, u) PROVE ListInv'
  BY <1>0, <1>4, AddTaskTrackerType, OtherListed DEF ListInv, AddTaskTracker, lists
<1>5. ASSUME NEW c \in Handler, NEW s \in Sub, AddSubscription(c, s) PROVE ListInv'
  BY <1>0, <1>5, AddSubscriptionType, OtherListed DEF ListInv, AddSubscription, lists
<1>6. ASSUME NEW c \in Handler, NEW s \in Sub, RemoveSubscription(c, s) PROVE ListInv'
  BY <1>0, <1>6, RemoveSubscriptionType, RemoveSubscriptionListed DEF ListInv
<1>7. ASSUME NEW c \in Handler, NEW s \in Sub, ToggleSubscription(c, s) PROVE ListInv'
  BY <1>0, <1>7, ToggleSubscriptionType, OtherListed DEF ListInv, ToggleSubscription, lists
<1>8. ASSUME NEW c \in Handler, NEW s \in Sub, RefreshOne(c, s) PROVE ListInv'
  BY <1>0, <1>8, RefreshOneType, OtherListed DEF ListInv, RefreshOne, lists
<1>9. ASSUME NEW c \in Handler, RefreshAll(c) PROVE ListInv'
  BY <1>0, <1>9, RefreshAllType, OtherListed DEF ListInv, RefreshAll, lists
<1>10. ASSUME NEW p \in Proc, DeltaTask(p) PROVE ListInv'
  BY <1>0, <1>10, DeltaTaskType, OtherListed DEF ListInv, DeltaTask, lists
<1>11. ASSUME NEW p \in Proc, DeltaEngine(p) PROVE ListInv'
  BY <1>0, <1>11, DeltaEngineType, OtherListed DEF ListInv, DeltaEngine, lists
<1>12. ASSUME NEW p \in Proc, Untask(p) PROVE ListInv'
  BY <1>0, <1>12, UntaskType, OtherListed DEF ListInv, Untask, lists
<1>13. ASSUME NEW p \in Proc, Push(p) PROVE ListInv'
  BY <1>0, <1>13, PushType, OtherListed DEF ListInv, Push, lists
<1>14. ASSUME NEW p \in Proc, Notify(p) PROVE ListInv'
  BY <1>0, <1>14, NotifyType, OtherListed DEF ListInv, Notify, lists
<1>15. ASSUME NEW p \in Proc, Unclaim(p) PROVE ListInv'
  BY <1>0, <1>15, UnclaimType, UnclaimListed DEF ListInv
<1>16. ASSUME NEW p \in Proc, NextSub(p) PROVE ListInv'
  BY <1>0, <1>16, NextSubType, OtherListed DEF ListInv, NextSub, lists
<1>17. ASSUME NEW p \in Proc, Sync(p) PROVE ListInv'
  BY <1>0, <1>17, SyncType, SyncListed DEF ListInv
<1>18. ASSUME NEW p \in Proc, SetLast(p) PROVE ListInv'
  BY <1>0, <1>18, SetLastType, OtherListed DEF ListInv, SetLast, lists
<1>19. ASSUME NEW p \in Proc, Save(p) PROVE ListInv'
  BY <1>0, <1>19, SubsSaveType, SaveListed DEF ListInv
<1>20. ASSUME NEW p \in Proc, NEW L \in SUBSET Url, Fetch(p, L) PROVE ListInv'
  BY <1>0, <1>20, FetchType, OtherListed DEF ListInv, Fetch, lists
<1>21. ASSUME SubWake PROVE ListInv'
  BY <1>0, <1>21, SubWakeType, OtherListed DEF ListInv, SubWake, lists
<1>22. ASSUME TakePending PROVE ListInv'
  BY <1>0, <1>22, TakePendingType, OtherListed DEF ListInv, TakePending, lists
<1>23. ASSUME HourTick PROVE ListInv'
  BY <1>0, <1>23, HourTickType, OtherListed DEF ListInv, HourTick, lists
<1>24. ASSUME EngineStart PROVE ListInv'
  BY <1>0, <1>24, EngineStartType, OtherListed DEF ListInv, EngineStart, lists
<1>25. ASSUME EngineGlobal PROVE ListInv'
  BY <1>0, <1>25, EngineGlobalType, OtherListed DEF ListInv, EngineGlobal, lists
<1>26. ASSUME EngineRegister PROVE ListInv'
  BY <1>0, <1>26, EngineRegisterType, OtherListed DEF ListInv, EngineRegister, lists
<1>27. ASSUME EngineStop PROVE ListInv'
  BY <1>0, <1>27, EngineStopType, OtherListed DEF ListInv, EngineStop, lists
<1>28. ASSUME SaveLists PROVE ListInv'
  BY <1>0, <1>28, AutoSaveType, AutoSaveListed DEF ListInv
<1>29. ASSUME Crash PROVE ListInv'
  BY <1>0, <1>29, CrashType, CrashListed DEF ListInv
<1>30. CASE UNCHANGED subsVars
  <2>1. SubsTypeInv'
    BY <1>0, <1>30 DEF SubsTypeInv, SubsTypeOK, SubKnown, subsVars
  <2>2. SourcesListed' /\ SavedListed'
    BY <1>30, OtherListed DEF subsVars
  <2> QED BY <2>1, <2>2 DEF ListInv
<1>31. ASSUME NEW c \in Handler, Call(c) PROVE ListInv'
  BY <1>31, <1>1, <1>2, <1>3, <1>4, <1>5, <1>6, <1>7, <1>8, <1>9 DEF Call
<1>32. ASSUME NEW p \in Proc, GoesOn(p) PROVE ListInv'
  BY <1>32, <1>10, <1>11, <1>12, <1>13, <1>14, <1>15, <1>16, <1>17, <1>18, <1>19, <1>20 DEF GoesOn
<1> QED BY <1>30, <1>31, <1>32, <1>21, <1>22, <1>23, <1>24, <1>25, <1>26, <1>27, <1>28, <1>29 DEF SubsNext, Engine

----------------------------------------------------------------------------
(* Results. *)

(* Every reachable state is well typed: no handler or refresher works with *)
(* a subscription or a list of the wrong kind.                             *)
THEOREM SubsTypeCorrect == SubsSpec => []SubsTypeOK
<1>1. ListInv => SubsTypeOK
  BY DEF ListInv, SubsTypeInv
<1> QED BY <1>1, SubsTypeInit, Step, PTL DEF SubsSpec

(* What has a source is in the global list, whatever refreshes, toggles,   *)
(* removals, replacements and restarts overlap.                            *)
THEOREM SourcesAgree == SubsSpec => []SourcesListed
<1>1. ListInv => SourcesListed
  BY DEF ListInv
<1> QED BY <1>1, SubsTypeInit, Step, PTL DEF SubsSpec

(* What the user does to the list, and a restart. *)
UserStep(u) ==
    \/ \E c \in Handler : \/ RemoveTracker(c, u)
                        \/ \E L \in SUBSET Url : ReplaceTrackers(c, L)
    \/ Crash

LEMMA ManualStep ==
    ASSUME ListInv, [SubsNext]_subsVars, NEW u \in Url, Manual \in sources[u], u \notin global'
    PROVE  UserStep(u)
<1>0. u \in global /\ SubsTypeOK
  BY DEF ListInv, SubsTypeInv, SourcesListed
<1> SUFFICES ASSUME ~UserStep(u) PROVE FALSE
  OBVIOUS
<1>1. ASSUME NEW c \in Handler, NEW v \in Url, AddTracker(c, v) PROVE FALSE
  BY <1>0, <1>1 DEF AddTracker, lists
<1>2. ASSUME NEW c \in Handler, NEW v \in Url, RemoveTracker(c, v) PROVE FALSE
  BY <1>0, <1>2 DEF RemoveTracker, UserStep
<1>3. ASSUME NEW c \in Handler, NEW L \in SUBSET Url, ReplaceTrackers(c, L) PROVE FALSE
  BY <1>0, <1>3 DEF UserStep
<1>4. ASSUME NEW c \in Handler, NEW v \in Url, AddTaskTracker(c, v) PROVE FALSE
  BY <1>0, <1>4 DEF AddTaskTracker, lists
<1>5. ASSUME NEW c \in Handler, NEW s \in Sub, AddSubscription(c, s) PROVE FALSE
  BY <1>0, <1>5 DEF AddSubscription, lists
<1>6. ASSUME NEW c \in Handler, NEW s \in Sub, RemoveSubscription(c, s) PROVE FALSE
  <2>1. Claims(s) \in SUBSET Url
    BY DEF Claims
  <2> QED BY <1>0, <1>6, <2>1, ManualNotReleased DEF RemoveSubscription, UnclaimAll
<1>7. ASSUME NEW c \in Handler, NEW s \in Sub, ToggleSubscription(c, s) PROVE FALSE
  BY <1>0, <1>7 DEF ToggleSubscription, lists
<1>8. ASSUME NEW c \in Handler, NEW s \in Sub, RefreshOne(c, s) PROVE FALSE
  BY <1>0, <1>8 DEF RefreshOne, lists
<1>9. ASSUME NEW c \in Handler, RefreshAll(c) PROVE FALSE
  BY <1>0, <1>9 DEF RefreshAll, lists
<1>10. ASSUME NEW p \in Proc, DeltaTask(p) PROVE FALSE
  BY <1>0, <1>10 DEF DeltaTask, lists
<1>11. ASSUME NEW p \in Proc, DeltaEngine(p) PROVE FALSE
  BY <1>0, <1>11 DEF DeltaEngine, lists
<1>12. ASSUME NEW p \in Proc, Untask(p) PROVE FALSE
  BY <1>0, <1>12 DEF Untask, lists
<1>13. ASSUME NEW p \in Proc, Push(p) PROVE FALSE
  BY <1>0, <1>13 DEF Push, lists
<1>14. ASSUME NEW p \in Proc, Notify(p) PROVE FALSE
  BY <1>0, <1>14 DEF Notify, lists
<1>15. ASSUME NEW p \in Proc, Unclaim(p) PROVE FALSE
  <2>1. proc[p].sub \in Sub /\ Claims(proc[p].sub) \in SUBSET Url
    BY <1>15 DEF ListInv, SubsTypeInv, SubKnown, Unclaim, ProcAt, Claims
  <2> QED BY <1>0, <1>15, <2>1, ManualNotReleased DEF Unclaim, UnclaimAll
<1>16. ASSUME NEW p \in Proc, NextSub(p) PROVE FALSE
  BY <1>0, <1>16 DEF NextSub, lists
<1>17. ASSUME NEW p \in Proc, Sync(p) PROVE FALSE
  <2>1. proc[p].sub \in Sub /\ Claims(proc[p].sub) \ proc[p].list \in SUBSET Url
    BY <1>17 DEF ListInv, SubsTypeInv, SubKnown, Sync, ProcAt, Claims
  <2> QED BY <1>0, <1>17, <2>1, ManualNotReleased DEF Sync
<1>18. ASSUME NEW p \in Proc, SetLast(p) PROVE FALSE
  BY <1>0, <1>18 DEF SetLast, lists
<1>19. ASSUME NEW p \in Proc, Save(p) PROVE FALSE
  BY <1>0, <1>19 DEF Save, lists
<1>20. ASSUME NEW p \in Proc, NEW L \in SUBSET Url, Fetch(p, L) PROVE FALSE
  BY <1>0, <1>20 DEF Fetch, lists
<1>21. ASSUME SubWake PROVE FALSE
  BY <1>0, <1>21 DEF SubWake, lists
<1>22. ASSUME TakePending PROVE FALSE
  BY <1>0, <1>22 DEF TakePending, lists
<1>23. ASSUME HourTick PROVE FALSE
  BY <1>0, <1>23 DEF HourTick, lists
<1>24. ASSUME EngineStart PROVE FALSE
  BY <1>0, <1>24 DEF EngineStart, lists
<1>25. ASSUME EngineGlobal PROVE FALSE
  BY <1>0, <1>25 DEF EngineGlobal, lists
<1>26. ASSUME EngineRegister PROVE FALSE
  BY <1>0, <1>26 DEF EngineRegister, lists
<1>27. ASSUME EngineStop PROVE FALSE
  BY <1>0, <1>27 DEF EngineStop, lists
<1>28. ASSUME SaveLists PROVE FALSE
  BY <1>0, <1>28 DEF SaveLists, lists
<1>29. ASSUME Crash PROVE FALSE
  BY <1>0, <1>29 DEF UserStep
<1>30. CASE UNCHANGED subsVars
  BY <1>0, <1>30 DEF subsVars
<1>31. ASSUME NEW c \in Handler, Call(c) PROVE FALSE
  BY <1>31, <1>1, <1>2, <1>3, <1>4, <1>5, <1>6, <1>7, <1>8, <1>9 DEF Call
<1>32. ASSUME NEW p \in Proc, GoesOn(p) PROVE FALSE
  BY <1>32, <1>10, <1>11, <1>12, <1>13, <1>14, <1>15, <1>16, <1>17, <1>18, <1>19, <1>20 DEF GoesOn
<1> QED BY <1>30, <1>31, <1>32, <1>21, <1>22, <1>23, <1>24, <1>25, <1>26, <1>27, <1>28, <1>29 DEF SubsNext, Engine

(* No refresh, toggle or removal of a subscription takes a tracker away    *)
(* that the user added (release_tracker_claim).                            *)
THEOREM ManualStays == SubsSpec => ManualKept
<1> DEFINE A == \A u \in Url : Manual \in sources[u] /\ u \notin global'
                 => \/ \E c \in Handler : \/ RemoveTracker(c, u)
                                         \/ \E L \in SUBSET Url : ReplaceTrackers(c, L)
                    \/ Crash
<1>1. ListInv /\ [SubsNext]_subsVars => A
  BY ManualStep DEF UserStep
<1>2. ListInv /\ [SubsNext]_subsVars => [A]_subsVars
  BY <1>1
<1>3. ManualKept <=> [][A]_subsVars
  BY DEF ManualKept
<1> HIDE DEF A
<1> QED BY <1>2, <1>3, SubsTypeInit, Step, PTL DEF SubsSpec

LEMMA SubKickStep == SubsTypeInv /\ NoLostSubKick /\ [SubsNext]_subsVars => NoLostSubKick'
<1> SUFFICES ASSUME SubsTypeInv, NoLostSubKick, [SubsNext]_subsVars PROVE NoLostSubKick'
  OBVIOUS
<1>0. proc \in [Proc -> ProcRec]
  BY DEF SubsTypeInv, SubsTypeOK
<1> USE DEF NoLostSubKick, ProcAt
<1>1. ASSUME NEW c \in Handler, NEW u \in Url, AddTracker(c, u) PROVE NoLostSubKick'
  <2>1. c \in Proc /\ proc[c].pc \notin {"take", "notify"}
        /\ \A q \in Proc \ {c} : proc'[q] = proc[q]
    BY <1>0, <1>1 DEF AddTracker, MayCall, Become, ProcTo, Proc
  <2>2. Refresher \in Proc /\ UNCHANGED <<pending, subKick>>
    BY <1>1 DEF AddTracker, Proc
  <2> QED BY <2>1, <2>2
<1>2. ASSUME NEW c \in Handler, NEW u \in Url, RemoveTracker(c, u) PROVE NoLostSubKick'
  <2>1. c \in Proc /\ proc[c].pc \notin {"take", "notify"}
        /\ \A q \in Proc \ {c} : proc'[q] = proc[q]
    BY <1>0, <1>2 DEF RemoveTracker, MayCall, Become, ProcTo, Proc
  <2>2. Refresher \in Proc /\ UNCHANGED <<pending, subKick>>
    BY <1>2 DEF RemoveTracker, Proc
  <2> QED BY <2>1, <2>2
<1>3. ASSUME NEW c \in Handler, NEW L \in SUBSET Url, ReplaceTrackers(c, L) PROVE NoLostSubKick'
  <2>1. c \in Proc /\ proc[c].pc \notin {"take", "notify"}
        /\ \A q \in Proc \ {c} : proc'[q] = proc[q]
    BY <1>0, <1>3 DEF ReplaceTrackers, MayCall, Become, ProcTo, Proc
  <2>2. Refresher \in Proc /\ UNCHANGED <<pending, subKick>>
    BY <1>3 DEF ReplaceTrackers, Proc
  <2> QED BY <2>1, <2>2
<1>4. ASSUME NEW c \in Handler, NEW u \in Url, AddTaskTracker(c, u) PROVE NoLostSubKick'
  <2>1. c \in Proc /\ proc[c].pc \notin {"take", "notify"}
        /\ \A q \in Proc \ {c} : proc'[q] = proc[q]
    BY <1>0, <1>4 DEF AddTaskTracker, MayCall, Become, ProcTo, Proc
  <2>2. Refresher \in Proc /\ UNCHANGED <<pending, subKick>>
    BY <1>4 DEF AddTaskTracker, Proc
  <2> QED BY <2>1, <2>2
<1>5. ASSUME NEW c \in Handler, NEW s \in Sub, AddSubscription(c, s) PROVE NoLostSubKick'
  <2>1. c \in Proc /\ proc[c].pc \notin {"take", "notify"}
        /\ \A q \in Proc \ {c} : proc'[q] = proc[q]
    BY <1>0, <1>5 DEF AddSubscription, MayCall, Become, ProcTo, Proc
  <2>2. Refresher \in Proc /\ UNCHANGED <<pending, subKick>>
    BY <1>5 DEF AddSubscription, Proc
  <2> QED BY <2>1, <2>2
<1>6. ASSUME NEW c \in Handler, NEW s \in Sub, RemoveSubscription(c, s) PROVE NoLostSubKick'
  <2>1. c \in Proc /\ proc[c].pc \notin {"take", "notify"}
        /\ \A q \in Proc \ {c} : proc'[q] = proc[q]
    BY <1>0, <1>6 DEF RemoveSubscription, MayCall, Become, ProcTo, Proc
  <2>2. Refresher \in Proc /\ UNCHANGED <<pending, subKick>>
    BY <1>6 DEF RemoveSubscription, Proc
  <2> QED BY <2>1, <2>2
<1>7. ASSUME NEW c \in Handler, NEW s \in Sub, ToggleSubscription(c, s) PROVE NoLostSubKick'
  <2>1. c \in Proc /\ proc[c].pc \notin {"take", "notify"}
        /\ \A q \in Proc \ {c} : proc'[q] = proc[q]
    BY <1>0, <1>7 DEF ToggleSubscription, MayCall, Become, ProcTo, Proc
  <2>2. Refresher \in Proc /\ UNCHANGED <<pending, subKick>>
    BY <1>7 DEF ToggleSubscription, Proc
  <2> QED BY <2>1, <2>2
<1>8. ASSUME NEW c \in Handler, NEW s \in Sub, RefreshOne(c, s) PROVE NoLostSubKick'
  <2>1. c \in Proc /\ proc[c].pc \notin {"take", "notify"}
        /\ \A q \in Proc \ {c} : proc'[q] = proc[q]
    BY <1>0, <1>8 DEF RefreshOne, MayCall, Become, ProcTo, Proc
  <2>2. Refresher \in Proc /\ UNCHANGED <<pending, subKick>>
    BY <1>8 DEF RefreshOne, Proc
  <2> QED BY <2>1, <2>2
<1>9. ASSUME NEW c \in Handler, RefreshAll(c) PROVE NoLostSubKick'
  <2>1. c \in Proc /\ proc[c].pc = "idle" /\ \A q \in Proc \ {c} : proc'[q] = proc[q]
    BY <1>0, <1>9 DEF RefreshAll, MayCall, Become, Proc
  <2>2. Refresher \in Proc /\ UNCHANGED <<pending, subKick>>
    BY <1>9 DEF RefreshAll, Proc
  <2> QED BY <2>1, <2>2
<1>10. ASSUME NEW p \in Proc, DeltaTask(p) PROVE NoLostSubKick'
  <2>1. p \in Proc /\ proc[p].pc \notin {"take", "notify"}
        /\ \A q \in Proc \ {p} : proc'[q] = proc[q]
    BY <1>0, <1>10 DEF DeltaTask, MayCall, Become, ProcTo, Proc
  <2>2. Refresher \in Proc /\ UNCHANGED <<pending, subKick>>
    BY <1>10 DEF DeltaTask, Proc
  <2> QED BY <2>1, <2>2
<1>11. ASSUME NEW p \in Proc, DeltaEngine(p) PROVE NoLostSubKick'
  <2>1. p \in Proc /\ proc[p].pc \notin {"take", "notify"}
        /\ \A q \in Proc \ {p} : proc'[q] = proc[q]
    BY <1>0, <1>11 DEF DeltaEngine, MayCall, Become, ProcTo, Proc
  <2>2. Refresher \in Proc /\ UNCHANGED <<pending, subKick>>
    BY <1>11 DEF DeltaEngine, Proc
  <2> QED BY <2>1, <2>2
<1>12. ASSUME NEW p \in Proc, Untask(p) PROVE NoLostSubKick'
  <2>1. p \in Proc /\ proc[p].pc \notin {"take", "notify"}
        /\ \A q \in Proc \ {p} : proc'[q] = proc[q]
    BY <1>0, <1>12 DEF Untask, MayCall, Become, ProcTo, Proc
  <2>2. Refresher \in Proc /\ UNCHANGED <<pending, subKick>>
    BY <1>12 DEF Untask, Proc
  <2> QED BY <2>1, <2>2
<1>13. ASSUME NEW p \in Proc, Push(p) PROVE NoLostSubKick'
  BY <1>0, <1>13 DEF Push, ProcTo, Become, Proc, ProcRec, Pc
<1>14. ASSUME NEW p \in Proc, Notify(p) PROVE NoLostSubKick'
  BY <1>14 DEF Notify
<1>15. ASSUME NEW p \in Proc, Unclaim(p) PROVE NoLostSubKick'
  <2>1. p \in Proc /\ proc[p].pc \notin {"take", "notify"}
        /\ \A q \in Proc \ {p} : proc'[q] = proc[q]
    BY <1>0, <1>15 DEF Unclaim, MayCall, Become, ProcTo, Proc
  <2>2. Refresher \in Proc /\ UNCHANGED <<pending, subKick>>
    BY <1>15 DEF Unclaim, Proc
  <2> QED BY <2>1, <2>2
<1>16. ASSUME NEW p \in Proc, NextSub(p) PROVE NoLostSubKick'
  <2>1. p \in Proc /\ proc[p].pc \notin {"take", "notify"}
        /\ \A q \in Proc \ {p} : proc'[q] = proc[q]
    BY <1>0, <1>16 DEF NextSub, MayCall, Become, ProcTo, Proc
  <2>2. Refresher \in Proc /\ UNCHANGED <<pending, subKick>>
    BY <1>16 DEF NextSub, Proc
  <2> QED BY <2>1, <2>2
<1>17. ASSUME NEW p \in Proc, Sync(p) PROVE NoLostSubKick'
  <2>1. p \in Proc /\ proc[p].pc \notin {"take", "notify"}
        /\ \A q \in Proc \ {p} : proc'[q] = proc[q]
    BY <1>0, <1>17 DEF Sync, MayCall, Become, ProcTo, Proc
  <2>2. Refresher \in Proc /\ UNCHANGED <<pending, subKick>>
    BY <1>17 DEF Sync, Proc
  <2> QED BY <2>1, <2>2
<1>18. ASSUME NEW p \in Proc, SetLast(p) PROVE NoLostSubKick'
  <2>1. p \in Proc /\ proc[p].pc \notin {"take", "notify"}
        /\ \A q \in Proc \ {p} : proc'[q] = proc[q]
    BY <1>0, <1>18 DEF SetLast, MayCall, Become, ProcTo, Proc
  <2>2. Refresher \in Proc /\ UNCHANGED <<pending, subKick>>
    BY <1>18 DEF SetLast, Proc
  <2> QED BY <2>1, <2>2
<1>19. ASSUME NEW p \in Proc, Save(p) PROVE NoLostSubKick'
  <2>1. p \in Proc /\ proc[p].pc \notin {"take", "notify"}
        /\ \A q \in Proc \ {p} : proc'[q] = proc[q]
    BY <1>0, <1>19 DEF Save, MayCall, Become, ProcTo, Proc
  <2>2. Refresher \in Proc /\ UNCHANGED <<pending, subKick>>
    BY <1>19 DEF Save, Proc
  <2> QED BY <2>1, <2>2
<1>20. ASSUME NEW p \in Proc, NEW L \in SUBSET Url, Fetch(p, L) PROVE NoLostSubKick'
  <2>1. p \in Proc /\ proc[p].pc \notin {"take", "notify"}
        /\ \A q \in Proc \ {p} : proc'[q] = proc[q]
    BY <1>0, <1>20 DEF Fetch, MayCall, Become, ProcTo, Proc
  <2>2. Refresher \in Proc /\ UNCHANGED <<pending, subKick>>
    BY <1>20 DEF Fetch, Proc
  <2> QED BY <2>1, <2>2
<1>21. ASSUME SubWake PROVE NoLostSubKick'
  BY <1>0, <1>21 DEF SubWake, ProcTo, Become, Proc, ProcRec, Pc
<1>22. ASSUME TakePending PROVE NoLostSubKick'
  BY <1>0, <1>22 DEF TakePending, ProcTo, Become, Proc, ProcRec, Pc
<1>23. ASSUME HourTick PROVE NoLostSubKick'
  <2>1. Refresher \in Proc /\ proc[Refresher].pc = "idle" /\ \A q \in Proc \ {Refresher} : proc'[q] = proc[q]
    BY <1>0, <1>23 DEF HourTick, MayCall, Become, Proc
  <2>2. Refresher \in Proc /\ UNCHANGED <<pending, subKick>>
    BY <1>23 DEF HourTick, Proc
  <2> QED BY <2>1, <2>2
<1>24. ASSUME EngineStart PROVE NoLostSubKick'
  BY <1>24 DEF EngineStart
<1>25. ASSUME EngineGlobal PROVE NoLostSubKick'
  BY <1>25 DEF EngineGlobal
<1>26. ASSUME EngineRegister PROVE NoLostSubKick'
  BY <1>26 DEF EngineRegister
<1>27. ASSUME EngineStop PROVE NoLostSubKick'
  BY <1>27 DEF EngineStop
<1>28. ASSUME SaveLists PROVE NoLostSubKick'
  BY <1>28 DEF SaveLists
<1>29. ASSUME Crash PROVE NoLostSubKick'
  BY <1>29 DEF Crash
<1>30. CASE UNCHANGED subsVars
  BY <1>30 DEF subsVars
<1>31. ASSUME NEW c \in Handler, Call(c) PROVE NoLostSubKick'
  BY <1>31, <1>1, <1>2, <1>3, <1>4, <1>5, <1>6, <1>7, <1>8, <1>9 DEF Call
<1>32. ASSUME NEW p \in Proc, GoesOn(p) PROVE NoLostSubKick'
  BY <1>32, <1>10, <1>11, <1>12, <1>13, <1>14, <1>15, <1>16, <1>17, <1>18, <1>19, <1>20 DEF GoesOn
<1> QED BY <1>30, <1>31, <1>32, <1>21, <1>22, <1>23, <1>24, <1>25, <1>26, <1>27, <1>28, <1>29 DEF SubsNext, Engine

(* A pending subscription is never left without a wake-up of the           *)
(* refresher (sub_pending and sub_kick).                                   *)
THEOREM NoSubKickLost == SubsSpec => []NoLostSubKick
<1>1. SubsInit => NoLostSubKick
  BY DEF SubsInit, NoLostSubKick
<1>2. ListInv => SubsTypeInv
  BY DEF ListInv
<1> QED BY <1>1, <1>2, SubsTypeInit, Step, SubKickStep, PTL DEF SubsSpec

----------------------------------------------------------------------------
(* The session file. *)

(* A process that is still to save: on the way from a change of the lists  *)
(* to the save behind it, or between two refreshes of which one changed    *)
(* something.                                                              *)
Saves(p) ==
    \/ proc[p].pc \in {"delta", "inject", "last", "untask", "push", "notify",
                       "unclaim", "save"}
    \/ proc[p].pc \in {"next", "fetch", "sync"} /\ proc[p].save

FileInv == savedLists # Snapshot => \E p \in Proc : Saves(p)

LEMMA FileQuiet ==
    ASSUME FileInv, UNCHANGED <<lists, taskUrls, savedLists>>,
           \A p \in Proc : Saves(p) => Saves(p)'
    PROVE  FileInv'
BY DEF FileInv, Snapshot, lists

LEMMA FileBegin ==
    ASSUME SubsTypeInv, FileInv, NEW c \in Handler, Call(c)
    PROVE  FileInv'
<1>0. /\ proc \in [Proc -> ProcRec] /\ c \in Proc
  BY DEF SubsTypeInv, SubsTypeOK, Proc
<1>1. CASE proc'[c].pc \in {"delta", "untask", "inject", "push", "save", "unclaim"}
  BY <1>0, <1>1 DEF FileInv, Saves
<1>2. ASSUME NEW u \in Url, AddTracker(c, u) \/ RemoveTracker(c, u) \/ AddTaskTracker(c, u)
      PROVE  FileInv'
  <2>1. proc'[c].pc \in {"delta", "untask", "inject"}
    BY <1>0, <1>2 DEF AddTracker, RemoveTracker, AddTaskTracker, Become, IdleProc
  <2> QED BY <1>1, <2>1
<1>3. ASSUME NEW L \in SUBSET Url, ReplaceTrackers(c, L)
      PROVE  FileInv'
  <2>1. proc'[c].pc = "delta"
    BY <1>0, <1>3 DEF ReplaceTrackers, Become, IdleProc
  <2> QED BY <1>1, <2>1
<1>4. ASSUME NEW s \in Sub, \/ AddSubscription(c, s) \/ RemoveSubscription(c, s)
                            \/ ToggleSubscription(c, s)
      PROVE  FileInv'
  <2>1. proc'[c].pc \in {"push", "save", "unclaim"}
    <3>1. CASE AddSubscription(c, s)
      BY <1>0, <3>1 DEF AddSubscription, Become, IdleProc
    <3>2. CASE RemoveSubscription(c, s)
      BY <1>0, <3>2 DEF RemoveSubscription, Become, IdleProc
    <3>3. CASE ToggleSubscription(c, s)
      BY <1>0, <3>3 DEF ToggleSubscription, Become, IdleProc
    <3> QED BY <1>4, <3>1, <3>2, <3>3
  <2> QED BY <1>1, <2>1
<1>5. CASE RefreshAll(c) \/ \E s \in Sub : RefreshOne(c, s)
  <2>1. /\ UNCHANGED <<lists, taskUrls, savedLists>> /\ proc[c].pc = "idle"
        /\ \E r : Become(c, r)
    BY <1>5 DEF RefreshAll, RefreshOne, MayCall, ProcAt
  <2>2. \A p \in Proc : Saves(p) => Saves(p)'
    BY <1>0, <2>1 DEF Become, Saves
  <2> QED BY <2>1, <2>2, FileQuiet
<1> QED BY <1>2, <1>3, <1>4, <1>5 DEF Call

LEMMA FileContinue ==
    ASSUME SubsTypeInv, FileInv, NEW p \in Proc, GoesOn(p)
    PROVE  FileInv'
<1>0. /\ proc \in [Proc -> ProcRec] /\ proc[p] \in ProcRec
  BY DEF SubsTypeInv, SubsTypeOK
<1>1. CASE Saves(p)'
  BY <1>1 DEF FileInv
<1>2. CASE \/ DeltaTask(p) \/ DeltaEngine(p) \/ Untask(p) \/ Push(p) \/ Notify(p)
           \/ Unclaim(p)
  <2>1. \E x \in {"inject", "last", "untask", "save", "notify"} : ProcTo(p, x)
    BY <1>2 DEF DeltaTask, DeltaEngine, Untask, Push, Notify, Unclaim
  <2> QED BY <1>0, <1>1, <2>1 DEF ProcTo, Saves, ProcRec
<1>3. CASE Sync(p) \/ SetLast(p)
  <2>1. proc'[p].pc = "delta" \/ (proc'[p].pc = "next" /\ proc'[p].save)
    <3>1. CASE Sync(p)
      BY <1>0, <3>1 DEF Sync, Become, ProcRec
    <3>2. CASE SetLast(p)
      BY <1>0, <3>2 DEF SetLast, Become, ProcRec
    <3> QED BY <1>3, <3>1, <3>2
  <2> QED BY <1>1, <2>1 DEF Saves
<1>4. CASE NextSub(p) \/ \E L \in SUBSET Url : Fetch(p, L)
  <2>1. /\ UNCHANGED <<lists, taskUrls, savedLists>>
        /\ \A q \in Proc \ {p} : proc'[q] = proc[q]
    BY <1>0, <1>4 DEF NextSub, Fetch, Become
  <2>2. Saves(p) => Saves(p)'
    <3>1. CASE NextSub(p)
      <4>1. CASE proc[p].todo = <<>>
        <5>1. proc'[p].pc = IF proc[p].save THEN "save" ELSE "idle"
          BY <1>0, <3>1, <4>1 DEF NextSub, Become, IdleProc
        <5>2. proc[p].pc = "next"
          BY <3>1 DEF NextSub, ProcAt
        <5> QED BY <5>1, <5>2 DEF Saves
      <4>2. CASE proc[p].todo # <<>>
        <5>1. proc'[p].pc \in {"next", "fetch"} /\ proc'[p].save = proc[p].save
          <6>1. \E x \in {"next", "fetch"} :
                   proc' = [proc EXCEPT ![p] = [proc[p] EXCEPT !.todo = Tail(proc[p].todo),
                                                  !.sub = Head(proc[p].todo), !.pc = x]]
            BY <3>1, <4>2 DEF NextSub, Become
          <6> QED BY <1>0, <6>1 DEF ProcRec
        <5>2. proc[p].pc = "next"
          BY <3>1 DEF NextSub, ProcAt
        <5> QED BY <5>1, <5>2 DEF Saves
      <4> QED BY <4>1, <4>2
    <3>2. CASE \E L \in SUBSET Url : Fetch(p, L)
      BY <1>0, <3>2 DEF Fetch, ProcAt, Become, Saves, ProcRec
    <3> QED BY <1>4, <3>1, <3>2
  <2>3. \A q \in Proc : Saves(q) => Saves(q)'
    BY <2>1, <2>2 DEF Saves
  <2> QED BY <2>1, <2>3, FileQuiet
<1>5. CASE Save(p)
  BY <1>5 DEF Save, FileInv, Snapshot, lists
<1> QED BY <1>2, <1>3, <1>4, <1>5 DEF GoesOn

LEMMA FileStep == SubsTypeInv /\ FileInv /\ [SubsNext]_subsVars => FileInv'
<1> SUFFICES ASSUME SubsTypeInv, FileInv, [SubsNext]_subsVars PROVE FileInv'
  OBVIOUS
<1>0. /\ proc \in [Proc -> ProcRec] /\ Refresher \in Proc
  BY DEF SubsTypeInv, SubsTypeOK, Proc
<1>1. CASE SubWake \/ TakePending \/ HourTick
  <2>1. /\ UNCHANGED <<lists, taskUrls, savedLists>> /\ proc[Refresher].pc \in {"idle", "take"}
        /\ \A q \in Proc \ {Refresher} : proc'[q] = proc[q]
    BY <1>0, <1>1 DEF SubWake, TakePending, HourTick, ProcAt, ProcTo, Become
  <2>2. \A q \in Proc : Saves(q) => Saves(q)'
    BY <2>1 DEF Saves
  <2> QED BY <2>1, <2>2, FileQuiet
<1>2. CASE Engine \/ UNCHANGED subsVars
  <2>1. UNCHANGED <<lists, taskUrls, savedLists, proc>>
    BY <1>2 DEF Engine, EngineStart, EngineGlobal, EngineRegister, EngineStop, subsVars, lists
  <2>2. \A q \in Proc : Saves(q) => Saves(q)'
    BY <2>1 DEF Saves
  <2> QED BY <2>1, <2>2, FileQuiet
<1>3. CASE SaveLists
  BY <1>3 DEF SaveLists, FileInv, Snapshot, lists
<1>4. CASE Crash
  <2>1. savedLists' \in SavedRec /\ savedLists' = savedLists
    BY <1>4 DEF Crash, SubsTypeInv, SubsTypeOK
  <2>2. savedLists' = Snapshot'
    BY <1>4, <2>1 DEF Crash, SavedRec, Snapshot
  <2> QED BY <2>2 DEF FileInv
<1> QED BY <1>1, <1>2, <1>3, <1>4, FileBegin, FileContinue DEF SubsNext

(* The session file holds the current lists whenever nothing is in flight: *)
(* every handler and every refresh that changes them is still to save,     *)
(* also the hourly one, which saves only if a refresh succeeded.           *)
THEOREM FileKept == SubsSpec => []TrackersSaved
<1>1. SubsInit => FileInv
  BY DEF SubsInit, FileInv
<1>2. ListInv /\ [SubsNext]_subsVars => SubsTypeInv
  BY DEF ListInv
<1>3. FileInv => TrackersSaved
  BY DEF FileInv, TrackersSaved, AllIdle, ProcAt, Saves
<1> QED BY <1>1, <1>2, <1>3, SubsTypeInit, Step, FileStep, PTL DEF SubsSpec

----------------------------------------------------------------------------
(* What a subscription claims.  Two refreshes of one subscription, a switch *)
(* or a removal while it is fetched, and a restart from a file saved in the *)
(* midst of a refresh do break ClaimsAreLast: without them only the         *)
(* refresher works on a subscription, and one at a time.                    *)
Undisturbed == Asked \cap {"toggle", "removeSub", "refresh", "refreshAll", "crash"} = {}

Delivering(s) == proc[Refresher].pc \in {"delta", "inject", "last"} /\ proc[Refresher].sub = s
Latest(s) == IF Delivering(s) THEN proc[Refresher].list ELSE last[s]

OnlyOn(q) == \A i \in DOMAIN q : subs[q[i]] = "on"

HandlersApart ==
    \A c \in Handler :
        /\ proc[c].pc \in {"idle", "delta", "inject", "untask", "push", "notify", "save"}
        /\ proc[c].pc \in {"delta", "inject"} => proc[c].sub = NoSub
        /\ proc[c].pc = "push" => subs[proc[c].sub] = "on"
RefresherOn ==
    /\ proc[Refresher].pc \in
         {"idle", "take", "next", "fetch", "sync", "delta", "inject", "last", "save"}
    /\ OnlyOn(proc[Refresher].todo) /\ OnlyOn(pending)
    /\ proc[Refresher].pc \in {"fetch", "sync", "delta", "inject", "last"} =>
         proc[Refresher].sub \in Sub /\ subs[proc[Refresher].sub] = "on"
ClaimsLatest ==
    \A s \in Sub, u \in Url : s \in sources[u] => subs[s] = "on" /\ u \in Latest(s)

ClaimsInv == HandlersApart /\ RefresherOn /\ ClaimsLatest

LEMMA ClaimsStart == SubsInit => ClaimsInv
  BY SubsAssumption DEF SubsInit, ClaimsInv, HandlersApart, RefresherOn, ClaimsLatest, OnlyOn,
     IdleProc, Proc

(* A step of a handler that leaves the sources and the subscriptions alone. *)
LEMMA ClaimsApart ==
    ASSUME SubsTypeInv, ClaimsInv, NEW c \in Handler, HandlersApart', pending' = pending,
           UNCHANGED <<sources, subs, last>>, \A p \in Proc \ {c} : proc'[p] = proc[p]
    PROVE  ClaimsInv'
<1>1. proc'[Refresher] = proc[Refresher]
  BY SubsAssumption DEF Proc
<1>2. RefresherOn'
  BY <1>1 DEF ClaimsInv, RefresherOn, OnlyOn
<1>3. ClaimsLatest'
  BY <1>1 DEF ClaimsInv, ClaimsLatest, Latest, Delivering
<1> QED
  BY <1>2, <1>3 DEF ClaimsInv

LEMMA ClaimsCall ==
    ASSUME SubsTypeInv, ClaimsInv, Undisturbed, NEW c \in Handler, Call(c) PROVE ClaimsInv'
<1>0. /\ proc \in [Proc -> ProcRec] /\ c \in Proc /\ Refresher \in Proc /\ c # Refresher
      /\ subs \in [Sub -> SubState] /\ sources \in [Url -> SUBSET (Sub \cup {Manual})]
      /\ last \in [Sub -> SUBSET Url]
  BY SubsAssumption DEF SubsTypeInv, SubsTypeOK, Proc
<1>1. ASSUME NEW r, Become(c, r), r.pc \in {"delta", "untask", "inject"}, r.sub = NoSub,
             pending' = pending, UNCHANGED <<subs, last>>,
             \A s \in Sub, u \in Url : s \in sources'[u] => s \in sources[u]
      PROVE  ClaimsInv'
  <2>1. \A p \in Proc \ {c} : proc'[p] = proc[p]
    BY <1>0, <1>1 DEF Become
  <2>2. HandlersApart'
    BY <1>0, <1>1, <2>1 DEF ClaimsInv, HandlersApart, Become, Proc
  <2>3. proc'[Refresher] = proc[Refresher]
    BY <1>0, <2>1
  <2>4. RefresherOn'
    BY <1>1, <2>3 DEF ClaimsInv, RefresherOn, OnlyOn
  <2>5. ClaimsLatest'
    BY <1>1, <2>3 DEF ClaimsInv, ClaimsLatest, Latest, Delivering
  <2> QED
    BY <2>2, <2>4, <2>5 DEF ClaimsInv
<1>2. ASSUME NEW u \in Url, AddTracker(c, u) \/ RemoveTracker(c, u) \/ AddTaskTracker(c, u)
      PROVE  ClaimsInv'
  <2>1. CASE AddTracker(c, u)
    <3>1. \A s \in Sub, v \in Url : s \in sources'[v] => s \in sources[v]
      BY <1>0, <2>1, SubsAssumption DEF AddTracker
    <3> QED
      BY <1>1, <2>1, <3>1 DEF AddTracker, IdleProc
  <2>2. CASE RemoveTracker(c, u)
    <3>1. \A s \in Sub, v \in Url : s \in sources'[v] => s \in sources[v]
      BY <1>0, <2>2 DEF RemoveTracker
    <3> QED
      BY <1>1, <2>2, <3>1 DEF RemoveTracker, IdleProc
  <2>3. CASE AddTaskTracker(c, u)
    BY <1>1, <2>3 DEF AddTaskTracker, IdleProc, lists
  <2> QED
    BY <1>2, <2>1, <2>2, <2>3
<1>3. ASSUME NEW L \in SUBSET Url, ReplaceTrackers(c, L) PROVE ClaimsInv'
  <2>1. \A s \in Sub, v \in Url : s \in sources'[v] => s \in sources[v]
    BY <1>0, <1>3, SubsAssumption DEF ReplaceTrackers
  <2> QED
    BY <1>1, <1>3, <2>1 DEF ReplaceTrackers, IdleProc
<1>4. ASSUME NEW s \in Sub, AddSubscription(c, s) PROVE ClaimsInv'
  <2>1. PICK e \in {"on", "off"} :
          /\ subs' = [subs EXCEPT ![s] = e]
          /\ Become(c, [IdleProc EXCEPT !.pc = IF e = "on" THEN "push" ELSE "save", !.sub = s])
    BY <1>4 DEF AddSubscription
  <2>2. /\ subs[s] = "new" /\ UNCHANGED <<sources, last, pending>>
        /\ \A p \in Proc \ {c} : proc'[p] = proc[p]
        /\ \A t \in Sub : subs[t] = "on" => subs'[t] = "on"
    BY <1>0, <1>4, <2>1 DEF AddSubscription, Become
  <2>3. /\ proc'[c].pc \in {"push", "save"}
        /\ proc'[c].pc = "push" => proc'[c].sub = s /\ subs'[s] = "on"
    BY <1>0, <2>1 DEF Become, IdleProc
  <2>4. \A d \in Handler : proc[d].pc = "push" => subs'[proc[d].sub] = "on"
    BY <1>0, <2>1, <2>2 DEF ClaimsInv, HandlersApart, SubsTypeInv, SubKnown, Proc
  <2>5. HandlersApart'
    BY <2>2, <2>3, <2>4 DEF ClaimsInv, HandlersApart, Proc
  <2>6. proc[Refresher].todo \in Seq(Sub) /\ pending \in Seq(Sub)
    BY <1>0 DEF ProcRec, SubsTypeInv, SubsTypeOK
  <2>7. RefresherOn'
    BY <1>0, <2>2, <2>6 DEF ClaimsInv, RefresherOn, OnlyOn
  <2>8. ClaimsLatest'
    BY <1>0, <2>2 DEF ClaimsInv, ClaimsLatest, Latest, Delivering
  <2> QED
    BY <2>5, <2>7, <2>8 DEF ClaimsInv
<1> QED
  BY <1>2, <1>3, <1>4 DEF Call, MayCall, Undisturbed, RemoveSubscription, ToggleSubscription,
     RefreshOne, RefreshAll

(* A handler goes on with a call. *)
LEMMA ClaimsHandler ==
    ASSUME SubsTypeInv, ClaimsInv, NEW c \in Handler, GoesOn(c) PROVE ClaimsInv'
<1>0. /\ proc \in [Proc -> ProcRec] /\ c \in Proc /\ Refresher \in Proc /\ c # Refresher
      /\ pending \in Seq(Sub)
      /\ proc[c].pc \in {"idle", "delta", "inject", "untask", "push", "notify", "save"}
  BY SubsAssumption DEF SubsTypeInv, SubsTypeOK, Proc, ClaimsInv, HandlersApart
<1>1. CASE DeltaTask(c) \/ DeltaEngine(c) \/ Untask(c) \/ Notify(c)
  <2>1. PICK x \in {"inject", "untask", "save"} : ProcTo(c, x)
    BY <1>1 DEF DeltaTask, DeltaEngine, Untask, Notify, ClaimsInv, HandlersApart, ProcAt
  <2>2. /\ \A p \in Proc \ {c} : proc'[p] = proc[p]
        /\ proc'[c].pc = x /\ proc'[c].sub = proc[c].sub
    BY <1>0, <2>1, GotoStep DEF SubsTypeInv, Pc
  <2>3. /\ x = "inject" => proc[c].pc = "delta"
        /\ UNCHANGED <<sources, subs, last, pending>>
    <3>1. CASE DeltaTask(c)
      BY <3>1 DEF DeltaTask, ProcAt, lists
    <3>2. CASE DeltaEngine(c) \/ Untask(c) \/ Notify(c)
      <4>1. proc'[c].pc # "inject"
        BY <1>0, <3>2 DEF DeltaEngine, Untask, Notify, ProcTo, ProcRec
      <4> QED
        BY <2>2, <3>2, <4>1 DEF DeltaEngine, Untask, Notify, lists
    <3> QED
      BY <1>1, <3>1, <3>2
  <2>4. HandlersApart'
    BY <2>2, <2>3 DEF ClaimsInv, HandlersApart, Proc
  <2> QED
    BY <2>2, <2>3, <2>4, ClaimsApart
<1>2. CASE Push(c)
  <2>1. /\ \A p \in Proc \ {c} : proc'[p] = proc[p]
        /\ proc'[c].pc = "notify" /\ proc[c].pc = "push"
        /\ pending' = Append(pending, proc[c].sub) /\ UNCHANGED <<sources, subs, last>>
        /\ proc[c].sub \in Sub
    BY <1>0, <1>2, GotoStep DEF Push, ProcAt, lists, SubsTypeInv, SubKnown, Pc
  <2>2. HandlersApart'
    BY <2>1 DEF ClaimsInv, HandlersApart, Proc
  <2>3. OnlyOn(pending)'
    BY <1>0, <2>1 DEF ClaimsInv, HandlersApart, RefresherOn, OnlyOn
  <2>4. proc'[Refresher] = proc[Refresher]
    BY <1>0, <2>1
  <2>5. RefresherOn'
    BY <2>1, <2>3, <2>4 DEF ClaimsInv, RefresherOn, OnlyOn
  <2>6. ClaimsLatest'
    BY <2>1, <2>4 DEF ClaimsInv, ClaimsLatest, Latest, Delivering
  <2> QED
    BY <2>2, <2>5, <2>6 DEF ClaimsInv
<1>3. CASE Save(c)
  <2>1. /\ \A p \in Proc \ {c} : proc'[p] = proc[p]
        /\ proc'[c].pc = "idle" /\ UNCHANGED <<sources, subs, last, pending>>
    BY <1>0, <1>3, IdleType, BecomeStep DEF Save, lists, SubsTypeInv, IdleProc
  <2>2. HandlersApart'
    BY <2>1 DEF ClaimsInv, HandlersApart, Proc
  <2> QED
    BY <2>1, <2>2, ClaimsApart
<1>4. ~(Unclaim(c) \/ NextSub(c) \/ Sync(c) \/ SetLast(c) \/ \E L \in SUBSET Url : Fetch(c, L))
  BY <1>0 DEF Unclaim, NextSub, Sync, SetLast, Fetch, ProcAt
<1> QED
  BY <1>1, <1>2, <1>3, <1>4 DEF GoesOn

(* The refresher. *)
LEMMA ClaimsRefresher ==
    ASSUME SubsTypeInv, ClaimsInv, GoesOn(Refresher) \/ SubWake \/ TakePending \/ HourTick
    PROVE  ClaimsInv'
<1> DEFINE r == proc[Refresher]
<1>0. /\ proc \in [Proc -> ProcRec] /\ Refresher \in Proc /\ Refresher \notin Handler
      /\ pending \in Seq(Sub) /\ r.todo \in Seq(Sub) /\ r \in ProcRec
      /\ subs \in [Sub -> SubState] /\ sources \in [Url -> SUBSET (Sub \cup {Manual})]
      /\ last \in [Sub -> SUBSET Url] /\ SubsTypeOK
      /\ r.pc \in {"idle", "take", "next", "fetch", "sync", "delta", "inject", "last", "save"}
  BY SubsAssumption DEF SubsTypeInv, SubsTypeOK, Proc, ClaimsInv, RefresherOn, ProcRec
<1>1. ASSUME NEW q \in ProcRec, Become(Refresher, q), UNCHANGED subs
      PROVE  proc'[Refresher] = q /\ HandlersApart'
  <2>1. proc'[Refresher] = q /\ \A p \in Proc \ {Refresher} : proc'[p] = proc[p]
    BY <1>0, <1>1, BecomeStep
  <2> QED
    BY <1>0, <1>1, <2>1 DEF ClaimsInv, HandlersApart, Proc
(* Its own record moves on; whom it delivers for and what stays. *)
<1>2. ASSUME NEW q \in ProcRec, Become(Refresher, q), UNCHANGED <<sources, subs, last>>,
             OnlyOn(q.todo), OnlyOn(pending'),
             q.pc \in {"idle", "take", "next", "fetch", "sync", "delta", "inject", "last", "save"},
             q.pc \in {"fetch", "sync", "delta", "inject", "last"} =>
               q.sub \in Sub /\ subs[q.sub] = "on",
             r.pc \in {"delta", "inject", "last"} <=> q.pc \in {"delta", "inject", "last"},
             r.pc \in {"delta", "inject", "last"} => q.sub = r.sub /\ q.list = r.list
      PROVE  ClaimsInv'
  <2>1. proc'[Refresher] = q /\ HandlersApart'
    BY <1>1, <1>2
  <2>2. RefresherOn'
    BY <1>2, <2>1 DEF RefresherOn, OnlyOn
  <2>3. \A s \in Sub : Latest(s)' = Latest(s)
    BY <1>2, <2>1 DEF Latest, Delivering
  <2>4. ClaimsLatest'
    BY <1>2, <2>3 DEF ClaimsInv, ClaimsLatest
  <2> QED
    BY <2>1, <2>2, <2>4 DEF ClaimsInv
<1>3. OnlyOn(r.todo) /\ OnlyOn(pending)
  BY DEF ClaimsInv, RefresherOn
<1>4. r.pc \in {"fetch", "sync", "delta", "inject", "last"} => r.sub \in Sub /\ subs[r.sub] = "on"
  BY DEF ClaimsInv, RefresherOn
<1> HIDE DEF r
<1>5. /\ OnlyOn(<<>>) /\ IdleProc.todo = <<>> /\ IdleProc.pc = "idle" /\ IdleProc \in ProcRec
      /\ \A x \in Pc : /\ [IdleProc EXCEPT !.pc = x] \in ProcRec
                       /\ [IdleProc EXCEPT !.pc = x].pc = x
                       /\ [IdleProc EXCEPT !.pc = x].todo = <<>>
                       /\ [r EXCEPT !.pc = x] \in ProcRec /\ [r EXCEPT !.pc = x].pc = x
                       /\ [r EXCEPT !.pc = x].todo = r.todo /\ [r EXCEPT !.pc = x].sub = r.sub
                       /\ [r EXCEPT !.pc = x].list = r.list
  <2>1. IdleProc.todo = <<>> /\ IdleProc.pc = "idle" /\ IdleProc \in ProcRec
    BY IdleType DEF IdleProc
  <2>2. OnlyOn(<<>>)
    BY DEF OnlyOn
  <2>3. ASSUME NEW q \in ProcRec, NEW x \in Pc
        PROVE  /\ [q EXCEPT !.pc = x] \in ProcRec /\ [q EXCEPT !.pc = x].pc = x
               /\ [q EXCEPT !.pc = x].todo = q.todo /\ [q EXCEPT !.pc = x].sub = q.sub
               /\ [q EXCEPT !.pc = x].list = q.list
    BY DEF ProcRec
  <2> QED
    BY <1>0, <2>1, <2>2, <2>3
<1>6. \A x : ProcTo(Refresher, x) => Become(Refresher, [r EXCEPT !.pc = x])
  BY <1>0 DEF ProcTo, Become, r
<1>7. CASE SubWake
  BY <1>0, <1>2, <1>3, <1>5, <1>6, <1>7 DEF SubWake, ProcAt, lists, r, Pc
<1>8. CASE TakePending
  <2> DEFINE q == [IdleProc EXCEPT !.pc = "next", !.todo = pending, !.check = TRUE]
  <2>1. q \in ProcRec /\ q.pc = "next" /\ q.todo = pending
    BY <1>0, IdleType DEF IdleProc, ProcRec, Pc
  <2>2. /\ r.pc = "take" /\ Become(Refresher, q) /\ pending' = <<>>
        /\ UNCHANGED <<sources, subs, last>>
    BY <1>8 DEF TakePending, ProcAt, lists, r
  <2> HIDE DEF q
  <2> QED
    BY <1>2, <1>3, <1>5, <2>1, <2>2
<1>9. CASE HourTick
  <2>0. PICK S \in SUBSET Enabled : \E o \in Orders(S) :
          Become(Refresher, [IdleProc EXCEPT !.pc = "next", !.todo = o, !.save = FALSE])
    BY <1>9 DEF HourTick
  <2>1. PICK o \in Orders(S) :
          Become(Refresher, [IdleProc EXCEPT !.pc = "next", !.todo = o, !.save = FALSE])
    BY <2>0
  <2> DEFINE q == [IdleProc EXCEPT !.pc = "next", !.todo = o, !.save = FALSE]
  <2>2. o \in Seq(Sub)
    BY OrdersType DEF Enabled
  <2>3. OnlyOn(o)
    BY DEF OnlyOn, Orders, Enabled
  <2>4. q \in ProcRec /\ q.pc = "next" /\ q.todo = o
    BY <2>2, IdleType DEF IdleProc, ProcRec, Pc
  <2>5. /\ r.pc = "idle" /\ Become(Refresher, q)
        /\ UNCHANGED <<sources, subs, last, pending>>
    BY <1>9, <2>1 DEF HourTick, ProcAt, lists, r
  <2> HIDE DEF q
  <2> QED
    BY <1>2, <1>3, <2>3, <2>4, <2>5
<1>10. CASE DeltaTask(Refresher) \/ DeltaEngine(Refresher)
  <2>1. PICK x \in {"inject", "last"} : ProcTo(Refresher, x)
    <3>1. CASE DeltaTask(Refresher)
      BY <3>1 DEF DeltaTask
    <3>2. CASE DeltaEngine(Refresher)
      <4>1. r.sub # NoSub
        BY <1>4, <3>2, SubsAssumption DEF DeltaEngine, ProcAt, r
      <4> QED
        BY <3>2, <4>1 DEF DeltaEngine, r
    <3> QED
      BY <1>10, <3>1, <3>2
  <2>2. /\ r.pc \in {"delta", "inject"} /\ UNCHANGED <<sources, subs, last, pending>>
    BY <1>10 DEF DeltaTask, DeltaEngine, ProcAt, lists, r
  <2> DEFINE q == [r EXCEPT !.pc = x]
  <2>3. Become(Refresher, q)
    BY <1>6, <2>1
  <2>4. x \in Pc
    BY <2>1 DEF Pc
  <2>5. q \in ProcRec /\ q.pc = x /\ q.todo = r.todo /\ q.sub = r.sub /\ q.list = r.list
    BY <1>5, <2>4
  <2> HIDE DEF q
  <2> QED
    BY <1>2, <1>3, <1>4, <2>2, <2>3, <2>4, <2>5
<1>11. CASE NextSub(Refresher)
  <2>1. r.pc = "next" /\ UNCHANGED <<sources, subs, last, pending>>
    BY <1>11 DEF NextSub, ProcAt, lists, r
  <2>2. CASE r.todo = <<>>
    <3> DEFINE x == IF r.save THEN "save" ELSE "idle"
               q == [IdleProc EXCEPT !.pc = x]
    <3>1. Become(Refresher, q)
      BY <1>11, <2>2 DEF NextSub, r
    <3>2. x \in {"save", "idle"} /\ q \in ProcRec /\ q.pc = x /\ q.todo = <<>>
      BY <1>5 DEF Pc
    <3> HIDE DEF x, q
    <3> QED
      BY <1>2, <1>3, <1>5, <2>1, <3>1, <3>2
  <2>3. CASE r.todo # <<>>
    <3>1. Head(r.todo) \in Sub /\ subs[Head(r.todo)] = "on" /\ Tail(r.todo) \in Seq(Sub)
      BY <1>0, <1>3, <2>3 DEF OnlyOn
    <3>2. OnlyOn(Tail(r.todo))
      BY <1>0, <1>3, <2>3 DEF OnlyOn
    <3> DEFINE q == [r EXCEPT !.todo = Tail(r.todo), !.sub = Head(r.todo), !.pc = "fetch"]
    <3>3. Become(Refresher, q)
      BY <1>11, <2>3, <3>1 DEF NextSub, r
    <3>4. q \in ProcRec /\ q.pc = "fetch" /\ q.todo = Tail(r.todo) /\ q.sub = Head(r.todo)
      BY <1>0, <3>1 DEF ProcRec, Pc
    <3> HIDE DEF q
    <3> QED
      BY <1>2, <1>3, <2>1, <3>1, <3>2, <3>3, <3>4
  <2> QED
    BY <2>2, <2>3
<1>12. CASE \E L \in SUBSET Url : Fetch(Refresher, L)
  <2>1. PICK L \in SUBSET Url : Fetch(Refresher, L)
    BY <1>12
  <2>2. r.pc = "fetch" /\ UNCHANGED <<sources, subs, last, pending>>
    BY <2>1 DEF Fetch, ProcAt, lists, r
  <2> DEFINE x == IF L = {} THEN "next" ELSE "sync"
             q == [r EXCEPT !.pc = x, !.list = L]
  <2>3. Become(Refresher, q)
    BY <2>1 DEF Fetch, r
  <2>4. x \in {"next", "sync"} /\ q \in ProcRec /\ q.pc = x /\ q.todo = r.todo /\ q.sub = r.sub
    BY <1>0 DEF ProcRec, Pc
  <2> HIDE DEF x, q
  <2> QED
    BY <1>2, <1>3, <1>4, <2>2, <2>3, <2>4
<1>13. CASE Sync(Refresher)
  <2> DEFINE s == r.sub
             L == r.list
             D == Claims(s) \ L
             q == [r EXCEPT !.pc = "delta", !.add = L \ global]
  <2>1. /\ r.pc = "sync" /\ Become(Refresher, q) /\ UNCHANGED <<subs, last, pending>>
        /\ sources' = [u \in Url |-> IF u \in L THEN sources[u] \cup {s} ELSE Without(s, D)[u]]
    BY <1>13 DEF Sync, ProcAt, r
  <2>2. /\ q \in ProcRec /\ q.pc = "delta" /\ q.todo = r.todo /\ q.sub = s /\ q.list = L
        /\ L \in SUBSET Url /\ s \in Sub /\ subs[s] = "on"
    BY <1>0, <1>4, <2>1 DEF ProcRec, Pc
  <2> HIDE DEF q
  <2>3. proc'[Refresher] = q /\ HandlersApart'
    BY <1>1, <2>1, <2>2
  <2>4. RefresherOn'
    BY <1>3, <2>1, <2>2, <2>3 DEF RefresherOn, OnlyOn
  <2>5. ASSUME NEW t \in Sub, NEW u \in Url, t \in sources'[u]
        PROVE  subs'[t] = "on" /\ u \in Latest(t)'
    <3>1. CASE t = s
      <4>1. u \in L
        BY <1>0, <2>1, <2>5, <3>1 DEF Without, Claims
      <4> QED
        BY <2>1, <2>2, <2>3, <3>1, <4>1 DEF Latest, Delivering
    <3>2. CASE t # s
      <4>1. t \in sources[u]
        BY <1>0, <2>1, <2>5, <3>2 DEF Without
      <4>2. subs[t] = "on" /\ u \in last[t]
        BY <2>1, <4>1 DEF ClaimsInv, ClaimsLatest, Latest, Delivering, r
      <4> QED
        BY <2>1, <2>2, <2>3, <3>2, <4>2 DEF Latest, Delivering
    <3> QED
      BY <3>1, <3>2
  <2>6. ClaimsLatest'
    BY <2>5 DEF ClaimsLatest
  <2> QED
    BY <2>3, <2>4, <2>6 DEF ClaimsInv
<1>14. CASE SetLast(Refresher)
  <2> DEFINE s == r.sub
             q == [r EXCEPT !.pc = "next", !.add = {}, !.save = TRUE]
  <2>1. /\ r.pc = "last" /\ Become(Refresher, q) /\ UNCHANGED <<sources, subs, pending>>
        /\ last' = IF subs[s] \in {"on", "off"} THEN [last EXCEPT ![s] = r.list] ELSE last
    BY <1>14 DEF SetLast, ProcAt, r
  <2>2. /\ q \in ProcRec /\ q.pc = "next" /\ q.todo = r.todo
        /\ s \in Sub /\ subs[s] = "on"
    BY <1>0, <1>4, <2>1 DEF ProcRec, Pc
  <2> HIDE DEF q
  <2>3. proc'[Refresher] = q /\ HandlersApart'
    BY <1>1, <2>1, <2>2
  <2>4. RefresherOn'
    BY <1>3, <2>1, <2>2, <2>3 DEF RefresherOn, OnlyOn
  <2>5. \A t \in Sub : Latest(t)' = Latest(t)
    BY <1>0, <2>1, <2>2, <2>3 DEF Latest, Delivering, r
  <2>6. ClaimsLatest'
    BY <2>1, <2>5 DEF ClaimsInv, ClaimsLatest
  <2> QED
    BY <2>3, <2>4, <2>6 DEF ClaimsInv
<1>15. CASE Save(Refresher)
  <2>1. /\ r.pc = "save" /\ Become(Refresher, IdleProc)
        /\ UNCHANGED <<sources, subs, last, pending>>
    BY <1>15 DEF Save, ProcAt, lists, r
  <2> QED
    BY <1>2, <1>3, <1>5, <2>1
<1>16. ~(Untask(Refresher) \/ Push(Refresher) \/ Notify(Refresher) \/ Unclaim(Refresher))
  BY <1>0 DEF Untask, Push, Notify, Unclaim, ProcAt, r
<1> QED
  BY <1>7, <1>8, <1>9, <1>10, <1>11, <1>12, <1>13, <1>14, <1>15, <1>16 DEF GoesOn

LEMMA ClaimsStep ==
    ASSUME SubsTypeInv, ClaimsInv, Undisturbed, [SubsNext]_subsVars PROVE ClaimsInv'
<1>1. CASE Engine \/ SaveLists \/ UNCHANGED subsVars
  <2>1. UNCHANGED <<sources, subs, last, pending, proc>>
    BY <1>1 DEF Engine, EngineStart, EngineGlobal, EngineRegister, EngineStop, SaveLists,
       subsVars, lists
  <2> QED
    BY <2>1 DEF ClaimsInv, HandlersApart, RefresherOn, OnlyOn, ClaimsLatest, Latest, Delivering
<1>2. ~Crash
  BY DEF Undisturbed, Crash
<1>3. CASE \E c \in Handler : Call(c)
  BY <1>3, ClaimsCall
<1>4. CASE \E p \in Proc : GoesOn(p)
  BY <1>4, ClaimsHandler, ClaimsRefresher DEF Proc
<1>5. CASE SubWake \/ TakePending \/ HourTick
  BY <1>5, ClaimsRefresher
<1> QED
  BY <1>1, <1>2, <1>3, <1>4, <1>5 DEF SubsNext

LEMMA ClaimsSafe == ClaimsInv => ClaimsAreLast
  BY DEF ClaimsInv, ClaimsLatest, Latest, Delivering, ClaimsAreLast, AllIdle, ProcAt, Claims, Proc

(* With nothing in flight a subscription that is on claims only what its    *)
(* last list held, and another one nothing (sync_trackers_locked and        *)
(* refresh_one_subscription, which do it in two regions of the mutex), as   *)
(* long as nobody but the refresher works on subscriptions that are there.  *)
THEOREM ClaimsKept == ASSUME Undisturbed PROVE SubsSpec => []ClaimsAreLast
<1>1. ListInv /\ [SubsNext]_subsVars => SubsTypeInv
  BY DEF ListInv
<1>2. SubsTypeInv /\ ClaimsInv /\ [SubsNext]_subsVars => ClaimsInv'
  BY ClaimsStep
<1> QED
  BY <1>1, <1>2, SubsTypeInit, Step, ClaimsStart, ClaimsSafe, PTL DEF SubsSpec
=============================================================================
