----------------------------- MODULE HttpSplit -----------------------------
(***************************************************************************)
(* The multi-connection download of xfer-http (split.rs): one writer       *)
(* thread owns the segment table and the file, worker coroutines pump      *)
(* chunks to it, a sync thread writes the control file behind it.          *)
(*                                                                         *)
(* A unit of the file is one chunk.  Times are abstracted: a lease, the    *)
(* save throttle and the watchdog may expire whenever their other          *)
(* conditions hold.  The dispatch queue is the set of segments with        *)
(* `queued`.  Set_len, rename and unlink reach the medium in their order;  *)
(* written data does when the file is synced.                              *)
(***************************************************************************)
EXTENDS Integers, Sequences, FiniteSets, FiniteSetsExt

CONSTANTS
    Total,      \* length of the resource
    Conn,       \* worker coroutines, the configured connections
    Splits,     \* initial number of segments wanted (remain / min_split_size)
    MinSplit,   \* effective_min_split
    HandoffMin, \* HANDOFF_MIN
    WholeMax,   \* HANDOFF_WHOLE_MAX
    MaxSegs,    \* bound: length of the segment table
    MaxJobs,    \* bound: jobs of the sync thread, one in hand, one waiting
    MaxFail,    \* MAX_FAILURES
    MaxShort,   \* MAX_SHORT_READS
    NoCtrl      \* no control file

ASSUME SplitAssumption ==
    /\ {Total, Splits, MinSplit, HandoffMin, MaxFail, MaxShort, MaxSegs, MaxJobs}
         \subseteq Nat \ {0}
    /\ WholeMax \in Nat
    /\ IsFiniteSet(Conn) /\ Conn # {}
    /\ NoCtrl \notin [base : Nat, segs : SUBSET [s : Nat, w : Nat, e : Nat]]

VARIABLES
    disk,       \* the data file as the system sees it: length, right bytes
    stable,     \* the same, as of the last sync
    ctrl,       \* the control file
    jobs,       \* the sync thread: one job in hand, one in its channel
    segs,       \* the segment table
    wr,         \* the rest of Writer, with desired_workers
    conn,       \* the worker coroutines and the chunk each has sent
    split,      \* where download_split stands
    trouble     \* what may go wrong in this behaviour

splitVars == <<disk, stable, ctrl, jobs, segs, wr, conn, split, trouble>>

Pos == 0..(Total - 1)
Nobody == [pc |-> "off", seg |-> 0, pos |-> 0, fails |-> 0, shorts |-> 0,
           give |-> 0]
NoWriter == [base |-> 0, todo |-> 0, alive |-> 0, want |-> 0,
             fatal |-> "none", fin |-> FALSE]
NoFile == [len |-> 0, good |-> {}]

Left(s) == s.e - s.s - s.w
Ids == DOMAIN segs
Over == wr.fin \/ wr.fatal # "none"
Fresh(s, e) == [s |-> s, e |-> e, w |-> 0, done |-> FALSE, queued |-> TRUE,
                holders |-> 0]
(* The units that a table still has to fetch: as many as the rests of its  *)
(* segments add up to, since segments do not overlap.                      *)
Missing(t) == {p \in Pos : \E i \in DOMAIN t : t[i].s + t[i].w <= p /\ p < t[i].e}

(* The k-th smallest number of a set. *)
Nth(S, k) == CHOOSE x \in S : Cardinality({y \in S : y <= x}) = k

Least(x, y) == IF x < y THEN x ELSE y
Most(x, y) == IF x > y THEN x ELSE y
Fatal(e) == IF wr.fatal = "none" THEN [wr EXCEPT !.fatal = e] ELSE wr

----------------------------------------------------------------------------
(* The control file and what a start makes of it. *)

(* serialize_ctrl: empty segments are left out, finished ones are not. *)
Snapshot(base, t) ==
    [base |-> base,
     segs |-> {[s |-> t[i].s, w |-> t[i].w, e |-> t[i].e] :
                i \in {j \in DOMAIN t : t[j].e > t[j].s}}]

(* Writer::bootstrap: no watermark beyond the end of the file, and the     *)
(* segments tile [base, Total).                                            *)
Usable(c) ==
    /\ c # NoCtrl
    /\ \A s \in c.segs : s.w = 0 \/ s.s + s.w <= disk.len
    /\ c.segs # {}
    /\ \A p \in c.base..(Total - 1) :
         Cardinality({s \in c.segs : s.s <= p /\ p < s.e}) = 1

(* The segments in the order of their starts. *)
Restored(c) ==
    [i \in 1..Cardinality(c.segs) |->
      LET x == CHOOSE y \in c.segs : y.s = Nth({z.s : z \in c.segs}, i)
          full == x.w >= x.e - x.s
      IN [s |-> x.s, e |-> x.e, w |-> x.w, done |-> full,
          queued |-> ~full, holders |-> 0]]

(* Without a usable control file the whole file counts as a prefix. *)
Cut(base) ==
    LET rest == Total - base
        n == IF rest = 0 THEN 0
             ELSE Least(Least(Splits, 2 * Cardinality(Conn)), rest)
    IN [i \in 1..n |-> Fresh(base + (rest * (i - 1)) \div n, base + (rest * i) \div n)]

(* Writer::bootstrap, the forced save of the first table, spawn_count and  *)
(* the first workers.                                                      *)
Bootstrap ==
    LET ok == Usable(ctrl)
        base == IF ok THEN ctrl.base ELSE Least(disk.len, Total)
        t == IF ok THEN Restored(ctrl) ELSE Cut(base)
        todo == Cardinality(Missing(t))
        n == Least(Cardinality(Conn), Most(Len(t), 1))
        f == IF ok \/ disk.len <= Total THEN disk
             ELSE [len |-> Total, good |-> disk.good]
    IN /\ split = "off"
       /\ disk' = f /\ stable' = f
       /\ segs' = t
       /\ ctrl' = Snapshot(base, t)
       /\ wr' = [base |-> base, todo |-> todo, alive |-> n, want |-> n,
                 fatal |-> "none", fin |-> todo = 0]
       /\ \E on \in SUBSET Conn :
            /\ Cardinality(on) = n
            /\ conn' = [c \in Conn |->
                         [Nobody EXCEPT !.pc = IF c \in on THEN "ask" ELSE "off"]]
       /\ split' = "run"
       /\ UNCHANGED <<jobs, trouble>>

----------------------------------------------------------------------------
(* Cutting segments: tables are functions of tables. *)

(* split_off: each segment i that has a cut loses the units from cut[i] on *)
(* to a queued segment at the end of the table; one that loses all its     *)
(* rest is done (handoff).  Bound: a table of MaxSegs is not cut further.  *)
SplitOff(t, cut) ==
    LET C == DOMAIN cut
    IN IF Len(t) + Cardinality(C) > MaxSegs THEN t
       ELSE [i \in 1..(Len(t) + Cardinality(C)) |->
              IF i > Len(t)
              THEN LET j == Nth(C, i - Len(t)) IN Fresh(cut[j], t[j].e)
              ELSE IF i \in C
              THEN [t[i] EXCEPT !.e = cut[i],
                                !.done = @ \/ cut[i] = t[i].s + t[i].w]
              ELSE t[i]]

SplitOne(t, i, at) == SplitOff(t, [j \in {i} |-> at])

(* handoff: the rest of each segment of I, or its second half, goes to     *)
(* another connection.                                                     *)
Handoff(t, I, whole, force) ==
    SplitOff(t, [i \in {j \in I : /\ Left(t[j]) > 0
                                  /\ force \/ Left(t[j]) >= HandoffMin} |->
                  t[i].s + t[i].w + IF whole \/ Left(t[i]) <= WholeMax THEN 0
                                    ELSE Left(t[i]) \div 2])

(* ensure_spare. *)
Spare(w) == [w EXCEPT !.want = Most(@, Least(w.alive + 1, Cardinality(Conn)))]

(* Whether a lease or the watchdog, or a save, may be due: a download that *)
(* is short and steady meets neither.                                      *)
Lease == {FALSE} \cup {x \in {TRUE} : "lease" \in trouble}
Late == {FALSE} \cup {x \in {TRUE} : "save" \in trouble}

(* reclaim_stalled looks at the segments held without progress. *)
Expired(t) == {i \in DOMAIN t : /\ "lease" \in trouble /\ ~Over
                                /\ ~t[i].done /\ ~t[i].queued
                                /\ t[i].holders > 0 /\ Left(t[i]) > 0}

(* try_steal: the largest segment at work, when both halves are large. *)
Stealable(t) ==
    LET fits == {i \in DOMAIN t : /\ ~t[i].done /\ ~t[i].queued
                                  /\ Left(t[i]) >= 2 * MinSplit}
    IN {i \in fits : /\ \A j \in fits : Left(t[j]) <= Left(t[i])
                     /\ Len(t) < MaxSegs}

Half(s) == s.s + s.w + Left(s) \div 2

----------------------------------------------------------------------------
(* The writer thread. *)

(* Mutant: a segment given back after a failure is not queued again. *)
ReleasedLost(t, i) ==
    IF i = 0 THEN t ELSE [t EXCEPT ![i].holders = Most(@ - 1, 0)]

(* next_work, first part: the segment a worker gives back. *)
Released(t, i) ==
    IF i = 0 THEN t
    ELSE LET h == Most(t[i].holders - 1, 0)
             back == ~t[i].done /\ Left(t[i]) > 0 /\ ~t[i].queued /\ h = 0
         IN [t EXCEPT ![i].holders = h, ![i].queued = @ \/ back]

(* A worker and its segment; the request is in vain where the server would *)
(* answer with the whole file.                                             *)
Assign(t, c, i) ==
    LET from == t[i].s + t[i].w
        pc == IF "ignores" \in trouble /\ from # 0 THEN "vain" ELSE "get"
    IN /\ segs' = [t EXCEPT ![i].queued = FALSE, ![i].holders = @ + 1]
       /\ conn' = [conn EXCEPT ![c].pc = pc, ![c].seg = i, ![c].pos = from,
                               ![c].give = 0]

Ready(t) == {i \in DOMAIN t : t[i].queued /\ ~t[i].done}

(* next_work, when the download is over. *)
NextDone(c) ==
    /\ split = "run" /\ conn[c].pc = "ask" /\ Over
    /\ segs' = Released(segs, conn[c].give)
    /\ wr' = [wr EXCEPT !.want = 0]
    /\ conn' = [conn EXCEPT ![c] = Nobody]
    /\ UNCHANGED <<disk, stable, ctrl, jobs, split, trouble>>

(* next_work: expired leases are handed off first, then the worker gets a  *)
(* queued segment, half of one at work, its leave, or a pause.             *)
NextWork(c) ==
    /\ split = "run" /\ conn[c].pc = "ask" /\ ~Over
    /\ \E I \in SUBSET Expired(Released(segs, conn[c].give)) :
         LET t == Handoff(Released(segs, conn[c].give), I, FALSE, FALSE)
             w == IF Len(t) > Len(segs) THEN Spare(wr) ELSE wr
         IN \/ \E i \in Ready(t) : Assign(t, c, i) /\ wr' = w
            \/ /\ Ready(t) = {}
               /\ \E i \in Stealable(t) :
                    Assign(SplitOne(t, i, Half(t[i])), c, Len(t) + 1)
               /\ wr' = w
            \/ /\ Ready(t) = {} /\ Stealable(t) = {}
               /\ segs' = t
               /\ IF conn[c].fails >= 2 /\ w.alive > 1
                  THEN /\ conn' = [conn EXCEPT ![c] = Nobody]
                       /\ wr' = [w EXCEPT !.alive = @ - 1, !.want = w.alive - 1]
                  ELSE /\ conn' = [conn EXCEPT ![c].give = 0]
                       /\ wr' = w
    /\ UNCHANGED <<disk, stable, ctrl, jobs, split, trouble>>

(* A write joins the watermark, within the segment as it is now. *)
Joins(c) ==
    LET s == segs[conn[c].seg]
    IN conn[c].pos = s.s + s.w /\ conn[c].pos < s.e /\ wr.fatal = "none"

Sent(c) == [conn EXCEPT ![c].pc = IF split = "run" THEN "get" ELSE "off",
                        ![c].pos = @ + 1]

(* on_write. *)
OnWrite(c) ==
    LET i == conn[c].seg
    IN /\ conn[c].pc = "put"
       /\ conn' = Sent(c)
       /\ IF Joins(c)
          THEN /\ disk' = [len |-> Most(disk.len, conn[c].pos + 1),
                           good |-> disk.good \cup {conn[c].pos}]
               /\ segs' = [segs EXCEPT ![i].w = conn[c].pos + 1 - segs[i].s,
                                       ![i].done = conn[c].pos + 1 = segs[i].e]
               /\ wr' = [wr EXCEPT !.todo = @ - 1, !.fin = wr.todo = 1]
          ELSE UNCHANGED <<disk, segs, wr>>
       /\ UNCHANGED <<stable, ctrl, jobs, split, trouble>>

(* on_write, when write_at fails. *)
WriteFails(c) ==
    /\ "io" \in trouble
    /\ conn[c].pc = "put" /\ Joins(c)
    /\ conn' = Sent(c)
    /\ wr' = Fatal("io")
    /\ UNCHANGED <<disk, stable, ctrl, jobs, segs, split, trouble>>

(* SaveCtrl, sent by the 500 ms tick: leases, the watchdog, and a snapshot *)
(* for the sync thread unless it is busy or the last save is too recent.   *)
Beat ==
    /\ split = "run"
    /\ \E I \in SUBSET Expired(segs), dog \in Lease, late \in Late :
         LET t == Handoff(segs, I, FALSE, FALSE)
             J == IF dog /\ ~Over
                  THEN {i \in DOMAIN t : ~t[i].done /\ ~t[i].queued /\ Left(t[i]) > 0}
                  ELSE {}
             u == Handoff(t, J, TRUE, TRUE)
         IN /\ segs' = u
            /\ wr' = IF Len(u) > Len(segs) THEN Spare(wr) ELSE wr
            /\ jobs' = IF late /\ Len(jobs) < MaxJobs
                       THEN Append(jobs, [cf |-> Snapshot(wr.base, u), synced |-> FALSE])
                       ELSE jobs
    /\ UNCHANGED <<disk, stable, ctrl, conn, split, trouble>>

(* The rest of the tick: workers up to desired_workers (WorkerJoined).     *)
Grow(c) ==
    /\ split = "run" /\ conn[c].pc = "off" /\ ~Over
    /\ Cardinality({d \in Conn : conn[d].pc # "off"}) < wr.want
    /\ conn' = [conn EXCEPT ![c] = [Nobody EXCEPT !.pc = "ask"]]
    /\ wr' = [wr EXCEPT !.alive = @ + 1]
    /\ UNCHANGED <<disk, stable, ctrl, jobs, segs, split, trouble>>

(* apply_adaptive_action: Shrink through shrink_seg, Retire, Spawn.  The   *)
(* scheduler's measurements may single out any segment.                    *)
Shrinkable(i) == ~segs[i].done /\ Left(segs[i]) >= 2 * MinSplit

Adapt ==
    /\ split = "run" /\ "adapt" \in trouble
    /\ \/ \E i \in Ids, n \in MinSplit..Total :
            /\ Shrinkable(i) /\ n <= Left(segs[i]) - MinSplit /\ Len(segs) < MaxSegs
            /\ segs' = SplitOne(segs, i, segs[i].e - n)
            /\ UNCHANGED wr
       \/ \E i \in Ids :
            /\ segs' = Handoff(segs, {i}, FALSE, FALSE)
            /\ segs' # segs
            /\ wr' = Spare(wr)
       \/ /\ wr' = [wr EXCEPT !.want =
                      LET cap == Least(Cardinality(Conn), 2 * Len(segs))
                          goal == Most(Least(cap, Most(2 * wr.alive, wr.alive + 1)), wr.alive)
                      IN IF goal > wr.alive THEN goal ELSE @]
          /\ UNCHANGED segs
    /\ UNCHANGED <<disk, stable, ctrl, jobs, conn, split, trouble>>

----------------------------------------------------------------------------
(* Mutant: the control file is written without syncing the data. *)
SyncDataSkipped ==
    /\ jobs # <<>> /\ ~Head(jobs).synced
    /\ jobs' = [jobs EXCEPT ![1].synced = TRUE]
    /\ UNCHANGED <<disk, stable, ctrl, segs, wr, conn, split, trouble>>

(* The sync thread (CtrlSyncer::start): sync the data, then replace the    *)
(* control file by the snapshot, which is older than the sync.             *)
SyncData ==
    /\ jobs # <<>> /\ ~Head(jobs).synced
    /\ stable' = disk
    /\ jobs' = [jobs EXCEPT ![1].synced = TRUE]
    /\ UNCHANGED <<disk, ctrl, segs, wr, conn, split, trouble>>

(* sync_all or write_ctrl_atomic fails: the control file stays. *)
SyncFails ==
    /\ jobs # <<>> /\ "sync" \in trouble
    /\ jobs' = Tail(jobs)
    /\ UNCHANGED <<disk, stable, ctrl, segs, wr, conn, split, trouble>>

SyncCtrl ==
    /\ jobs # <<>> /\ Head(jobs).synced
    /\ ctrl' = Head(jobs).cf
    /\ jobs' = Tail(jobs)
    /\ UNCHANGED <<disk, stable, segs, wr, conn, split, trouble>>

----------------------------------------------------------------------------
(* A worker coroutine (run_worker, run_segment).                           *)
At(c, pc) == split = "run" /\ conn[c].pc = pc
Give(c) == [Nobody EXCEPT !.pc = "ask", !.give = conn[c].seg]

(* The segment is written, shrunk below the position, or was so already:   *)
(* the counters of failures start anew.                                    *)
SegmentOver(c) ==
    /\ conn[c].pc \in {"vain", "get"} /\ split = "run"
    /\ conn[c].pos >= segs[conn[c].seg].e
    /\ conn' = [conn EXCEPT ![c] = Give(c)]
    /\ UNCHANGED <<disk, stable, ctrl, jobs, segs, wr, split, trouble>>

(* 200 in answer to a request from elsewhere than the start: NotSplittable. *)
Ignored(c) ==
    /\ At(c, "vain") /\ conn[c].pos < segs[conn[c].seg].e
    /\ conn' = [conn EXCEPT ![c] = Nobody]
    /\ wr' = Fatal("nosplit")
    /\ UNCHANGED <<disk, stable, ctrl, jobs, segs, split, trouble>>

(* A chunk within the segment's end as it is now goes to the writer. *)
Chunk(c) ==
    /\ At(c, "get") /\ conn[c].pos < segs[conn[c].seg].e
    /\ conn' = [conn EXCEPT ![c].pc = "put"]
    /\ UNCHANGED <<disk, stable, ctrl, jobs, segs, wr, split, trouble>>

(* Failures of both kinds, each with its budget; the segment is given back *)
(* with the next question, unless the budget is spent.                     *)
Fails(c, fails, shorts) ==
    IF fails >= MaxFail
    THEN /\ conn' = [conn EXCEPT ![c] = Nobody]
         /\ wr' = Fatal("net")
    ELSE /\ conn' = [conn EXCEPT ![c] = [Give(c) EXCEPT !.fails = fails,
                                                        !.shorts = shorts]]
         /\ UNCHANGED wr

ShortRead(c) ==
    /\ "short" \in trouble
    /\ conn[c].pc \in {"vain", "get"} /\ split = "run"
    /\ conn[c].pos < segs[conn[c].seg].e
    /\ IF conn[c].shorts + 1 >= MaxShort
       THEN Fails(c, conn[c].fails + 1, 0)
       ELSE Fails(c, conn[c].fails, conn[c].shorts + 1)
    /\ UNCHANGED <<disk, stable, ctrl, jobs, segs, split, trouble>>

NetError(c) ==
    /\ "error" \in trouble
    /\ conn[c].pc \in {"vain", "get"} /\ split = "run"
    /\ conn[c].pos < segs[conn[c].seg].e
    /\ Fails(c, conn[c].fails + 1, conn[c].shorts)
    /\ UNCHANGED <<disk, stable, ctrl, jobs, segs, split, trouble>>

(* run_worker_guarded turns a panic into a fatal error. *)
Panic(c) ==
    /\ "panic" \in trouble
    /\ conn[c].pc \in {"vain", "get"} /\ split = "run"
    /\ conn' = [conn EXCEPT ![c] = Nobody]
    /\ wr' = Fatal("net")
    /\ UNCHANGED <<disk, stable, ctrl, jobs, segs, split, trouble>>

----------------------------------------------------------------------------
(* The end of download_split. *)

(* Stop, and join the workers: what they have sent is still written. *)
Stop(cancelled) ==
    /\ split = "run" /\ (cancelled \/ Over)
    /\ split' = IF cancelled THEN "cancelled" ELSE "stop"
    /\ conn' = [c \in Conn |-> IF conn[c].pc = "put" THEN conn[c] ELSE Nobody]
    /\ UNCHANGED <<disk, stable, ctrl, jobs, segs, wr, trouble>>

Mode ==
    CASE split = "stop" /\ wr.fatal = "none" -> "success"
      [] wr.fatal = "nosplit" -> IF split = "stop" THEN "discard" ELSE "drop"
      [] OTHER -> IF split = "stop" THEN "preserve" ELSE "keep"

(* contiguous_prefix. *)
Prefix ==
    IF Missing(segs) = {} THEN Total ELSE Min(Missing(segs))

Resize(f, n) == [len |-> n, good |-> f.good \cap 0..(n - 1)]

(* Finish, up to its last step: the barrier, the sync, and the length.     *)
FinishFile ==
    /\ split \in {"stop", "cancelled"} /\ jobs = <<>>
    /\ \A c \in Conn : conn[c].pc # "put"
    /\ disk' = CASE Mode = "success" -> Resize(disk, Total)
                 [] Mode \in {"discard", "drop"} -> Resize(disk, Prefix)
                 [] OTHER -> disk
    /\ stable' = disk'
    /\ split' = Mode
    /\ UNCHANGED <<ctrl, jobs, segs, wr, conn, trouble>>

(* Finish, its last step: the control file goes, or holds the last table,  *)
(* and what download_split returns.                                        *)
FinishCtrl ==
    /\ split \in {"success", "discard", "drop", "preserve", "keep"}
    /\ ctrl' = IF split \in {"preserve", "keep"} THEN Snapshot(wr.base, segs) ELSE NoCtrl
    /\ split' = CASE split = "success" -> "ok"
                  [] split \in {"drop", "keep"} -> "paused"
                  [] OTHER -> wr.fatal
    /\ UNCHANGED <<disk, stable, jobs, segs, wr, conn, trouble>>

(* A sync or a save of Finish fails. *)
FinishFails ==
    /\ "sync" \in trouble
    /\ split \in {"stop", "cancelled"} /\ jobs = <<>>
    /\ \A c \in Conn : conn[c].pc # "put"
    /\ split' = IF split = "cancelled" THEN "paused" ELSE "io"
    /\ UNCHANGED <<disk, stable, ctrl, jobs, segs, wr, conn, trouble>>

ConnStep(c) ==
    \/ NextDone(c) \/ NextWork(c) \/ OnWrite(c) \/ WriteFails(c)
    \/ SegmentOver(c) \/ Ignored(c) \/ Chunk(c)
    \/ ShortRead(c) \/ NetError(c) \/ Panic(c)

SyncStep == SyncData \/ SyncFails \/ SyncCtrl
FinishStep == Stop(FALSE) \/ FinishFile \/ FinishCtrl \/ FinishFails

SplitNext ==
    \/ \E c \in Conn : ConnStep(c) \/ Grow(c)
    \/ Beat \/ Adapt \/ SyncStep \/ FinishStep

(* The worker, its segment, and where it belongs in the table. *)
SplitTypes ==
    /\ disk.len \in 0..Total /\ disk.good \subseteq 0..(disk.len - 1)
    /\ stable.len \in 0..Total /\ stable.good \subseteq 0..(stable.len - 1)
    /\ Len(jobs) <= MaxJobs
    /\ \A i \in Ids : /\ segs[i] \in [s : 0..Total, e : 0..Total, w : 0..Total,
                                      done : BOOLEAN, queued : BOOLEAN, holders : 0..1]
                      /\ segs[i].s + segs[i].w <= segs[i].e
    /\ wr \in [base : 0..Total, todo : 0..Total, alive : 0..Cardinality(Conn),
               want : 0..Cardinality(Conn), fatal : {"none", "io", "net", "nosplit"},
               fin : BOOLEAN]
    /\ conn \in [Conn -> [pc : {"off", "ask", "vain", "get", "put"}, seg : 0..MaxSegs,
                         pos : 0..Total, fails : 0..MaxFail, shorts : 0..MaxShort,
                         give : 0..MaxSegs]]

Holders(i) ==
    {c \in Conn : \/ conn[c].pc \in {"vain", "get", "put"} /\ conn[c].seg = i
                  \/ conn[c].pc = "ask" /\ conn[c].give = i}

(* No range is lost: whatever is handed off, stolen, shrunk or given back, *)
(* and in whatever order, the segments tile the file from base on, `todo`  *)
(* counts what is missing, `holders` counts the workers, at most one, and  *)
(* an unfinished segment is queued or held (next_work: "either in the      *)
(* queue or held, else the task hangs at its end").                        *)
NoRangeLost ==
    split = "run" =>
      /\ \A p \in wr.base..(Total - 1) :
           Cardinality({i \in Ids : segs[i].s <= p /\ p < segs[i].e}) = 1
      /\ wr.todo = Cardinality(Missing(segs))
      /\ wr.fatal = "none" => \A i \in Ids :
           /\ segs[i].holders = Cardinality(Holders(i)) /\ segs[i].holders <= 1
           /\ Left(segs[i]) > 0 => segs[i].queued \/ Holders(i) # {}
           /\ segs[i].done <=> Left(segs[i]) = 0 /\ segs[i].e >= segs[i].s
      /\ ~Over => \E c \in Conn : conn[c].pc # "off"

=============================================================================
