----------------------------- MODULE LiveRecord -----------------------------
(***************************************************************************)
(* The recording of a live HLS stream (xfer-http, record_playlist): the    *)
(* manifest is a window sliding over the stream; segments are known by     *)
(* their media sequence number, fetched concurrently into files of their   *)
(* own, and spliced into the product in order.                             *)
(*                                                                         *)
(* A unit of the product is one spliced segment, <<"map", m>> for an       *)
(* initialisation segment, Torn for one whose splicing broke half-way.  A  *)
(* segment file is partial or full.  Times (reload interval, backoff, save *)
(* throttle, stall timeout) are abstract.                                  *)
(***************************************************************************)
EXTENDS Integers, Sequences, FiniteSets, FiniteSetsExt

CONSTANTS
    MapOf,      \* the initialisation segment each segment is made for
    Window,     \* bound: segments in a manifest
    Behind,     \* whether the window may leave what is not recorded yet
    Conns,      \* concurrent requests
    MaxTries,   \* LIVE_SEG_MAX_ATTEMPTS
    GoneLimit,  \* LIVE_GONE_LIMIT
    Budgets,    \* bound: how often each kind of trouble may occur
    NoCtrl      \* no control file, no map written

Troubles == {"pause", "crash", "fail", "gone", "disk", "renew"}

LiveAssumption ==
    /\ MapOf \in Seq(Nat) /\ Len(MapOf) > 0
    /\ {Window, Conns, MaxTries, GoneLimit} \subseteq Nat \ {0}
    /\ Behind \in BOOLEAN
    /\ Budgets \subseteq [Troubles -> Nat]

VARIABLES
    source,     \* the stream: its window and whether it has ended
    reply,      \* a manifest on its way to the recorder
    product,    \* the product file
    files,      \* the segment files
    saved,      \* the control file
    rec,        \* LiveState, with the buffer of the product
    stage,      \* where the recording stands
    luck,       \* troubles still to come
    muddled     \* history: killed while the control file was a given-up recording's

liveVars == <<source, reply, product, files, saved, rec, stage, luck, muddled>>

End == Len(MapOf)
Nothing == [x \in {} |-> <<>>]
Lead == <<0, 0>>                    \* LiveKey::LeadingMap
MapKey(s) == <<1, s>>               \* LiveKey::Map
SegKey(s) == <<2, s>>               \* LiveKey::Seg
Key == {Lead} \cup {1, 2} \X (1..End)
Before(k, l) == k[1] < l[1] \/ (k[1] = l[1] /\ k[2] < l[2])
Queued(m) == [map |-> m, st |-> "queued", tries |-> 0, bad |-> FALSE]
Put(f, k, v) == [x \in DOMAIN f \cup {k} |-> IF x = k THEN v ELSE f[x]]
Only(f, S) == [x \in DOMAIN f \cap S |-> f[x]]
Is(r, k, st) == k \in DOMAIN r.items /\ r.items[k].st = st
Torn == <<"torn", 0>>
No(why) == [is |-> why]
Failed == {k \in DOMAIN rec.items : Is(rec, k, "failed")}
Trouble(t) == luck[t] > 0 /\ luck' = [luck EXCEPT ![t] = @ - 1]

(* rec.old: the control file is still that of the recording this one has   *)
(* started over (history).                                                 *)
NoRec == [head |-> 0, tail |-> 0, end |-> FALSE, items |-> Nothing, seen |-> {},
          written |-> NoCtrl, sink |-> <<>>, gone |-> 0, dirty |-> FALSE, old |-> FALSE]

LiveInit ==
    /\ source = [lo |-> 1, hi |-> 1, over |-> FALSE]
    /\ reply = No("none") /\ product = <<>> /\ files = Nothing
    /\ saved = [bytes |-> NoCtrl]
    /\ rec = NoRec /\ stage = "idle" /\ luck \in Budgets /\ muddled = FALSE

----------------------------------------------------------------------------
(* The stream grows; its window slides; at last it ends. *)

Produce ==
    /\ ~source.over /\ source.hi < End
    /\ \E lo \in source.lo..(source.hi + 1) :
         /\ source.hi + 1 - lo < Window
         /\ Behind \/ lo = source.lo \/ (stage = "live" /\ lo <= rec.head)
         /\ source' = [source EXCEPT !.hi = @ + 1, !.lo = lo]
    /\ UNCHANGED <<reply, product, files, saved, rec, stage, luck, muddled>>

EndList ==
    /\ ~source.over /\ source.hi = End
    /\ source' = [source EXCEPT !.over = TRUE]
    /\ UNCHANGED <<reply, product, files, saved, rec, stage, luck, muddled>>

----------------------------------------------------------------------------
(* LiveState::apply. *)

(* The window has left segments nobody is fetching: they are dropped, and  *)
(* the head moves up to the first one still there.                         *)
Stale(r, lo) ==
    {k \in DOMAIN r.items : k[1] = 2 /\ k[2] >= r.head /\ k[2] < lo
                             /\ r.items[k].st \in {"queued", "failed"}}
Slide(r, lo) ==
    IF lo <= r.head THEN r
    ELSE LET kept == DOMAIN r.items \ Stale(r, lo)
             head == Min({lo} \cup {s \in r.head..lo : SegKey(s) \in kept})
         IN [r EXCEPT !.head = head,
                      !.items = Only(@, kept \ {MapKey(s) : s \in r.head..(head - 1)})]

(* live_consider_map, for every segment of the window in its order: an     *)
(* initialisation segment that was not seen before is queued for where it  *)
(* is first used; one that is due already leads, and only the first such.  *)
Unseen(r, p) ==
    {s \in p.lo..p.hi : MapOf[s] \notin r.seen /\ \A t \in p.lo..(s - 1) : MapOf[t] # MapOf[s]}
Consider(r, p) ==
    LET ahead == {s \in Unseen(r, p) : s > p.lo /\ s > r.head}
        due == Unseen(r, p) \ ahead
        maps == {MapKey(s) : s \in ahead}
        lead == IF due = {} \/ Lead \in DOMAIN r.items THEN {} ELSE {Lead}
    IN [r EXCEPT !.seen = @ \cup {MapOf[s] : s \in Unseen(r, p)},
                 !.items = [k \in DOMAIN @ \cup maps \cup lead |->
                              IF k \in maps THEN Queued(MapOf[k[2]])
                              ELSE IF k \in lead THEN Queued(MapOf[Min(due)])
                              ELSE @[k]]]

(* New segments are queued, and if their addresses are new, those given up. *)
Enqueue(r, p, renewed) ==
    LET offered == {SegKey(s) : s \in Max({p.lo, r.head})..p.hi}
        fresh == {k \in offered : k \notin DOMAIN r.items \/ (renewed /\ Is(r, k, "failed"))}
    IN [r EXCEPT !.items = [k \in DOMAIN @ \cup fresh |->
                              IF k \in fresh THEN Queued(0) ELSE @[k]],
                 !.tail = Max({@, p.hi}),
                 !.end = @ \/ p.over]

Apply(r, p, renewed) == Enqueue(Consider(Slide(r, p.lo), p), p, renewed)

Swept(f, head) == Only(f, {k \in DOMAIN f : k[2] >= head})

----------------------------------------------------------------------------
(* Mutant: what was written after the last save stays. *)
BeginUncut ==
    /\ stage = "idle"
    /\ LET ok == saved.bytes # NoCtrl /\ Len(product) >= saved.bytes
           r == IF ok THEN [NoRec EXCEPT !.head = saved.head, !.written = saved.map,
                              !.seen = {saved.map} \ {NoCtrl}]
                ELSE [NoRec EXCEPT !.head = source.lo, !.old = saved.bytes # NoCtrl]
       IN /\ rec' = Apply(r, source, FALSE)
          /\ files' = IF ok THEN Swept(files, rec'.head) ELSE Nothing
    /\ stage' = "live"
    /\ UNCHANGED <<source, reply, product, saved, luck, muddled>>

(* The recording starts, or goes on from the control file. *)

Begin ==
    /\ stage = "idle"
    /\ LET ok == saved.bytes # NoCtrl /\ Len(product) >= saved.bytes
           r == IF ok THEN [NoRec EXCEPT !.head = saved.head, !.written = saved.map,
                              !.seen = {saved.map} \ {NoCtrl}]
                ELSE [NoRec EXCEPT !.head = source.lo, !.old = saved.bytes # NoCtrl]
       IN /\ rec' = Apply(r, source, FALSE)
          /\ product' = IF ok THEN SubSeq(product, 1, saved.bytes) ELSE <<>>
          /\ files' = IF ok THEN Swept(files, rec'.head) ELSE Nothing
    /\ stage' = "live"
    /\ UNCHANGED <<source, reply, saved, luck, muddled>>

(* The manifest is fetched in the background, at most one at a time. *)
Fetch ==
    /\ stage = "live" /\ reply.is = "none" /\ ~rec.end
    /\ \/ reply' = [is |-> "plan", plan |-> source] /\ UNCHANGED luck
       \/ reply' = No("gone") /\ Trouble("gone")
    /\ UNCHANGED <<source, product, files, saved, rec, stage, muddled>>

(* The addresses in a manifest may be new ones, which matters to segments  *)
(* given up.                                                               *)
Reload(renewed) ==
    /\ stage = "live" /\ reply.is # "none"
    /\ IF renewed THEN Failed # {} /\ Trouble("renew") ELSE UNCHANGED luck
    /\ rec' = IF reply.is = "gone"
              THEN [rec EXCEPT !.gone = @ + 1, !.end = @ \/ rec.gone + 1 >= GoneLimit]
              ELSE Apply([rec EXCEPT !.gone = 0], reply.plan, renewed)
    /\ files' = IF reply.is # "plan" THEN files
                ELSE Only(files, DOMAIN files \ Stale(rec, reply.plan.lo))
    /\ reply' = No("none")
    /\ UNCHANGED <<source, product, saved, stage, muddled>>

----------------------------------------------------------------------------
(* Fetching segments. *)

Flying == {k \in DOMAIN rec.items : Is(rec, k, "fly")}
Done == {k \in DOMAIN rec.items : Is(rec, k, "done")}

(* take_for_dispatch: the first one due; one that failed may have to wait. *)
(* A media segment goes on behind what its file holds: a full file can     *)
(* only be answered by 416.                                                *)
Dispatch(k) ==
    /\ stage = "live" /\ Cardinality(Flying) < Conns /\ Is(rec, k, "queued")
    /\ \A l \in DOMAIN rec.items :
         Before(l, k) /\ rec.items[l].st = "queued" => rec.items[l].tries > 0
    /\ LET had == k[1] = 2 /\ k \in DOMAIN files IN
         /\ rec' = [rec EXCEPT !.items[k].st = "fly",
                               !.items[k].bad = had /\ files[k] = "full"]
         /\ files' = IF had THEN files ELSE Put(files, k, "part")
    /\ UNCHANGED <<source, reply, product, saved, stage, luck, muddled>>

(* The last byte of a segment has reached its file. *)
Filled(k) ==
    /\ stage = "live" /\ Is(rec, k, "fly")
    /\ ~rec.items[k].bad /\ files[k] = "part"
    /\ files' = Put(files, k, "full")
    /\ UNCHANGED <<source, reply, product, saved, rec, stage, luck, muddled>>

Fetched(k) ==
    /\ stage = "live" /\ Is(rec, k, "fly")
    /\ ~rec.items[k].bad /\ files[k] = "full"
    /\ rec' = [rec EXCEPT !.items[k].st = "done", !.items[k].tries = 0]
    /\ UNCHANGED <<source, reply, product, files, saved, stage, luck, muddled>>

Missed(k) ==
    /\ stage = "live" /\ Is(rec, k, "fly")
    /\ \/ rec.items[k].bad /\ UNCHANGED luck
       \/ Trouble("fail")
    /\ LET n == rec.items[k].tries + 1 IN
         rec' = [rec EXCEPT !.items[k].tries = n,
                            !.items[k].st = IF n >= MaxTries THEN "failed" ELSE "queued"]
    /\ UNCHANGED <<source, reply, product, files, saved, stage, muddled>>

----------------------------------------------------------------------------
(* splice_one: the leading map, the map bound to the head, the head. *)

Next2(r) ==
    IF Lead \in DOMAIN r.items THEN Lead
    ELSE IF MapKey(r.head) \in DOMAIN r.items THEN MapKey(r.head)
    ELSE SegKey(r.head)

(* Mutant: an initialisation segment moves the head, too. *)
SplicedAlways(r, k) ==
    [r EXCEPT !.items = Only(@, DOMAIN @ \ {k}), !.dirty = TRUE, !.head = @ + 1,
              !.written = IF k[1] = 2 THEN @ ELSE r.items[k].map,
              !.sink = Append(@, IF k[1] = 2 THEN <<"seg", k[2]>>
                                 ELSE <<"map", r.items[k].map>>)]

Spliced(r, k) ==
    [r EXCEPT !.items = Only(@, DOMAIN @ \ {k}),
              !.dirty = TRUE,
              !.head = IF k[1] = 2 THEN @ + 1 ELSE @,
              !.written = IF k[1] = 2 THEN @ ELSE r.items[k].map,
              !.sink = Append(@, IF k[1] = 2 THEN <<"seg", k[2]>>
                                 ELSE <<"map", r.items[k].map>>)]

SpliceOne ==
    /\ stage = "live"
    /\ LET k == Next2(rec) IN
         /\ Is(rec, k, "done")
         /\ rec' = Spliced(rec, k)
         /\ files' = Only(files, DOMAIN files \ {k})
    /\ UNCHANGED <<source, reply, product, saved, stage, luck, muddled>>

(* The write buffer is handed to the kernel when it is full. *)
Spill ==
    /\ stage = "live" /\ rec.sink # <<>>
    /\ product' = product \o rec.sink
    /\ rec' = [rec EXCEPT !.sink = <<>>]
    /\ UNCHANGED <<source, reply, files, saved, stage, luck, muddled>>

CtrlOf(r, p) ==
    [bytes |-> Len(p), head |-> r.head, map |-> r.written]

(* save_now: the buffer goes to the kernel, then the control file. *)
Save ==
    /\ stage = "live" /\ rec.dirty
    /\ product' = product \o rec.sink
    /\ rec' = [rec EXCEPT !.sink = <<>>, !.dirty = FALSE, !.old = FALSE]
    /\ saved' = CtrlOf(rec, product')
    /\ UNCHANGED <<source, reply, files, stage, luck, muddled>>

(* Its errors are dropped: of the buffer what has not reached the kernel   *)
(* stays where it is, and the control file, when written, counts it.       *)
SaveFails ==
    /\ stage = "live" /\ rec.dirty /\ Trouble("disk")
    /\ \E n \in 0..Len(rec.sink), wrote \in BOOLEAN :
         /\ product' = product \o SubSeq(rec.sink, 1, n)
         /\ rec' = [rec EXCEPT !.sink = SubSeq(@, n + 1, Len(@)), !.dirty = FALSE,
                               !.old = @ /\ ~wrote]
         /\ saved' = IF wrote THEN CtrlOf(rec, product \o rec.sink) ELSE saved
    /\ UNCHANGED <<source, reply, files, stage, muddled>>

----------------------------------------------------------------------------
(* The end of a recording. *)

Drained ==
    /\ rec.head > rec.tail
    /\ {Lead, MapKey(rec.head), SegKey(rec.head)} \cap DOMAIN rec.items = {}
Blocked ==
    \E k \in {Lead, MapKey(rec.head), SegKey(rec.head)} : Is(rec, k, "failed")

(* Ended by the manifest, or nothing new for the stall timeout. *)
Finish ==
    /\ stage = "live" /\ Drained
    /\ rec.end \/ (source.hi = rec.tail /\ reply.is = "none")
    /\ product' = product \o rec.sink
    /\ files' = Nothing
    /\ saved' = [bytes |-> NoCtrl]
    /\ rec' = [rec EXCEPT !.sink = <<>>, !.old = FALSE]
    /\ stage' = "done"
    /\ UNCHANGED <<source, reply, luck, muddled>>

Suspend(to) ==
    /\ product' = product \o rec.sink
    /\ saved' = CtrlOf(rec, product')
    /\ rec' = NoRec /\ reply' = No("none")
    /\ stage' = to
    /\ UNCHANGED <<source, files, muddled>>

(* A segment given up blocks the head, and nothing new is coming. *)
GiveUp ==
    /\ stage = "live" /\ Flying = {} /\ Blocked
    /\ rec.end \/ source.hi = rec.tail
    /\ Suspend("failed") /\ UNCHANGED luck

Pause == stage = "live" /\ Trouble("pause") /\ Suspend("paused")

(* A write that fails ends the recording: in splicing, with a piece of the *)
(* segment in the buffer, or on the way out.  Of the buffer a part reaches *)
(* the product, and the control file, when written, counts all of it.      *)
DiskFails ==
    /\ stage = "live" /\ Trouble("disk")
    /\ \E sink \in {rec.sink} \cup {Append(rec.sink, Torn) : k \in {Next2(rec)} \cap Done},
          wrote \in BOOLEAN :
         /\ \E n \in 0..Len(sink) : product' = product \o SubSeq(sink, 1, n)
         /\ saved' = IF wrote THEN CtrlOf(rec, product \o sink) ELSE saved
         /\ muddled' = (muddled \/ (rec.old /\ ~wrote))
    /\ rec' = NoRec /\ reply' = No("none")
    /\ stage' = "failed"
    /\ UNCHANGED <<source, files>>

Resume ==
    /\ \/ stage = "paused" /\ UNCHANGED luck
       \/ stage = "failed" /\ Trouble("pause")
    /\ stage' = "idle"
    /\ UNCHANGED <<source, reply, product, files, saved, rec, muddled>>

Kill ==
    /\ stage = "live" /\ Trouble("crash")
    /\ muddled' = (muddled \/ rec.old)
    /\ rec' = NoRec /\ reply' = No("none")
    /\ stage' = "idle"
    /\ UNCHANGED <<source, product, files, saved>>

Stream == Produce \/ EndList
Manifest == Fetch \/ \E renewed \in BOOLEAN : Reload(renewed)
LiveStep ==
    \/ Begin \/ SpliceOne \/ Finish \/ GiveUp
    \/ \E k \in Key : Dispatch(k) \/ Filled(k) \/ Fetched(k) \/ Missed(k)

LiveNext ==
    \/ LiveStep \/ Stream \/ Manifest
    \/ Spill \/ Save \/ SaveFails \/ DiskFails
    \/ Pause \/ Resume \/ Kill

LiveSpec == LiveInit /\ [][LiveNext]_liveVars
LiveFairSpec == LiveSpec /\ WF_liveVars(Stream) /\ WF_liveVars(Manifest) /\ WF_liveVars(LiveStep)
----------------------------------------------------------------------------
Written == product \o rec.sink
SegsOf(p) == {i \in DOMAIN p : p[i][1] = "seg"}
MapsOf(p) == {i \in DOMAIN p : p[i][1] = "map"}

(* Segments are recorded in order, each at most once, over every reload,   *)
(* pause, restart and failing write.                                       *)
RecordedInOrder ==
    ~muddled =>
        \A i, j \in SegsOf(Written) : i < j => Written[i][2] < Written[j][2]

(* A segment that is not recorded had left the window: nothing that is     *)
(* still offered is skipped.                                               *)
OnlyLostSkipped ==
    ~muddled =>
        \A j \in SegsOf(Written) : \A s \in 1..Written[j][2] :
            s < source.lo \/ \E l \in SegsOf(Written) : Written[l][2] = s

(* A control file the recording goes on from, which is one that says no    *)
(* more than there is, has the head and the map of exactly that much of    *)
(* what was recorded; while the recording runs, there is that much.        *)
SavedExact ==
    ~muddled /\ saved.bytes # NoCtrl /\ ~rec.old
             /\ (stage = "live" \/ Len(product) >= saved.bytes) =>
        LET p == SubSeq(Written, 1, saved.bytes) IN
        /\ Len(Written) >= saved.bytes
        /\ \A i \in SegsOf(p) : p[i][2] < saved.head
        /\ \A i \in SegsOf(Written) \ SegsOf(p) : Written[i][2] >= saved.head
        /\ saved.map = IF MapsOf(p) = {} THEN NoCtrl ELSE p[Max(MapsOf(p))][2]

(* When the stream ends, the recording does. *)
Rests == stage \in {"done", "paused", "failed"}
RecordingEnds == <>Rests
=============================================================================
