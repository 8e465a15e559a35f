-------------------------------- MODULE Dht --------------------------------
(***************************************************************************)
(* The DHT node (xfer-dht, dht.rs and routing_table.rs): one bucket of the *)
(* routing table, the table of pending queries that the receive loop uses  *)
(* to hand answers out, iterative get_peers lookups, and the peers other   *)
(* nodes have announced.                                                   *)
(*                                                                         *)
(* A node is its distance to the target of every lookup.  All nodes fall   *)
(* into one bucket, which is where buckets fill up; ids are not forged.    *)
(* The network loses, delays and reorders packets.                         *)
(***************************************************************************)
EXTENDS Integers, Sequences, FiniteSets, SequencesExt, FiniteSetsExt

CONSTANTS
    Node,       \* remote nodes: distances
    K,          \* size of a bucket, breadth of a lookup
    Tid,        \* transaction ids (16 bits: they collide)
    Lookup,     \* concurrent get_peers calls
    Rounds,     \* max_iterations
    Hash,       \* info hashes
    Hashes,     \* MAX_KNOWN_INFOHASHES
    Peer,       \* addresses of peers
    PeersEach,  \* MAX_PEERS_PER_INFOHASH
    InNet,      \* bound: packets under way
    NoQuery

DhtAssumption ==
    /\ Node \subseteq Nat
    /\ {K, Rounds, Hashes, PeersEach, InNet} \subseteq Nat \ {0}
    /\ NoQuery \notin Node \X Tid

VARIABLES
    live,       \* nodes of the bucket, the most recently active one last
    spare,      \* replacement candidates
    pending,    \* (address, tid) -> the lookup that waits for its answer
    net,        \* packets under way
    look,       \* lookups
    order,      \* info hashes by age
    known       \* info hash -> announced peers

dhtVars == <<live, spare, pending, net, look, order, known>>

Put(f, k, v) == [x \in DOMAIN f \cup {k} |-> IF x = k THEN v ELSE f[x]]
Except(f, S) == [x \in DOMAIN f \ S |-> f[x]]
Closest(S, n) == LET s == SetToSortSeq(S, <) IN ToSet(SubSeq(s, 1, Min({n, Len(s)})))

Resting == [pc |-> "off", waits |-> NoQuery, todo |-> {}, visited |-> {}, cand |-> {},
            fresh |-> {}, failed |-> {}, found |-> FALSE, round |-> 0, answer |-> {}]

DhtInit ==
    /\ live = <<>> /\ spare = <<>> /\ net = {} /\ order = <<>>
    /\ pending = [x \in {} |-> 0] /\ known = [x \in {} |-> 0]
    /\ look = [q \in Lookup |-> Resting]

----------------------------------------------------------------------------
(* RoutingTable: a bucket is the pair of its two queues. *)

Bucket == [live |-> live, spare |-> spare]
IsBucket(b) == live' = b.live /\ spare' = b.spare

Queue(s, n) ==
    IF Contains(s, n) THEN s
    ELSE IF Len(s) = 2 * K THEN Append(Tail(s), n) ELSE Append(s, n)

Add(b, n) ==
    IF Contains(b.live, n) THEN [b EXCEPT !.live = Append(Remove(@, n), n)]
    ELSE IF Len(b.live) >= K THEN [b EXCEPT !.spare = Queue(@, n)]
    ELSE [b EXCEPT !.live = Append(@, n)]

AddAll(b, s) == FoldLeft(Add, b, s)

MarkBad(b, n) ==
    IF ~Contains(b.live, n) THEN b
    ELSE IF b.spare = <<>> THEN [b EXCEPT !.live = Remove(@, n)]
    ELSE [live |-> Append(Remove(b.live, n), Head(b.spare)), spare |-> Tail(b.spare)]

(* handle_incoming: whoever asks is added. *)
Incoming(n) ==
    /\ IsBucket(Add(Bucket, n))
    /\ UNCHANGED <<pending, net, look, order, known>>

----------------------------------------------------------------------------
(* send_raw and recv_loop. *)

(* An entry of the same key is overwritten, and its waiter gives up.       *)
Displaced(k) == IF k \in DOMAIN pending THEN {pending[k]} ELSE {}

Send(q, n) ==
    /\ look[q].pc = "ask" /\ n \in look[q].todo
    /\ \A m \in look[q].todo : n <= m
    /\ \E tid \in Tid :
         LET k == <<n, tid>> IN
         /\ pending' = Put(pending, k, q)
         /\ net' = IF Cardinality(net) = InNet THEN net    \* the packet is lost
                   ELSE net \cup {[is |-> "query", at |-> n, tid |-> tid]}
         /\ look' = [p \in Lookup |->
              IF p = q THEN [look[p] EXCEPT !.pc = "wait", !.waits = k]
              ELSE IF p \in Displaced(k) THEN [look[p] EXCEPT !.pc = "failed"]
              ELSE look[p]]
    /\ UNCHANGED <<live, spare, order, known>>

(* A remote node answers with peers ({}: it knows some) or closer nodes.   *)
Reply(p) ==
    /\ p \in net /\ p.is = "query"
    /\ \E peers \in BOOLEAN, nodes \in SUBSET Node :
         /\ peers => nodes = {}
         /\ Cardinality(nodes) <= K
         /\ net' = (net \ {p}) \cup
              {[is |-> "answer", at |-> p.at, tid |-> p.tid, peers |-> peers, nodes |-> nodes]}
    /\ UNCHANGED <<live, spare, pending, look, order, known>>

Lose(p) ==
    /\ p \in net
    /\ net' = net \ {p}
    /\ UNCHANGED <<live, spare, pending, look, order, known>>

(* Mutant: answers are handed out by transaction id alone. *)
WaiterByTid(p) == {k \in DOMAIN pending : k[2] = p.tid}

Waiter(p) == {<<p.at, p.tid>>} \cap DOMAIN pending

(* The receive loop hands the answer to the one registered, or drops it.   *)
Deliver(p) ==
    /\ p \in net /\ p.is = "answer"
    /\ net' = net \ {p}
    /\ IF Waiter(p) = {} THEN UNCHANGED <<pending, look>>
       ELSE \E k \in Waiter(p) :
              /\ look' = [look EXCEPT ![pending[k]].pc = "got", ![pending[k]].answer = {p}]
              /\ pending' = Except(pending, {k})
    /\ UNCHANGED <<live, spare, order, known>>

Forget(k) == pending' = Except(pending, {k})

(* KRPC_QUERY_TIMEOUT removes whatever stands under the key. *)
Timeout(q) ==
    /\ look[q].pc = "wait"
    /\ Forget(look[q].waits)
    /\ look' = [p \in Lookup |->
         IF p = q \/ (look[q].waits \in DOMAIN pending /\ p = pending[look[q].waits])
         THEN [look[p] EXCEPT !.pc = "failed"] ELSE look[p]]
    /\ UNCHANGED <<live, spare, net, order, known>>

----------------------------------------------------------------------------
(* get_peers. *)

(* An empty table is filled by bootstrap first, as far as nodes answer.    *)
Start(q) ==
    /\ look[q].pc = "off"
    /\ \E S \in IF live = <<>> THEN SUBSET Node ELSE {{}} :
         LET b == AddAll(Bucket, SetToSeq(S)) IN
         /\ IsBucket(b)
         /\ look' = [look EXCEPT ![q].pc = "choose", ![q].cand = Closest(ToSet(b.live), K)]
    /\ UNCHANGED <<pending, net, order, known>>

Unvisited(q) == look[q].cand \ look[q].visited

Choose(q) ==
    /\ look[q].pc = "choose"
    /\ look' = [look EXCEPT
         ![q].pc = IF look[q].round = Rounds \/ Unvisited(q) = {} THEN "over" ELSE "ask",
         ![q].round = IF @ = Rounds THEN @ ELSE @ + 1,
         ![q].todo = IF look[q].round = Rounds THEN {} ELSE Closest(Unvisited(q), K),
         ![q].fresh = {}]
    /\ UNCHANGED <<live, spare, pending, net, order, known>>

Asked(q) == look[q].waits[1]
Onward(l) ==
    LET rest == l.todo \ {l.waits[1]} IN
    [l EXCEPT !.pc = IF rest = {} THEN "merge" ELSE "ask", !.todo = rest,
              !.visited = @ \cup {l.waits[1]}, !.waits = NoQuery, !.answer = {}]

Answered(q) ==
    /\ look[q].pc = "got"
    /\ \E p \in look[q].answer :
         /\ IsBucket(Add(Bucket, Asked(q)))
         /\ look' = [look EXCEPT ![q] =
              [Onward(@) EXCEPT !.found = @ \/ p.peers, !.fresh = @ \cup p.nodes]]
    /\ UNCHANGED <<pending, net, order, known>>

Failed(q) ==
    /\ look[q].pc = "failed"
    /\ IsBucket(MarkBad(Bucket, Asked(q)))
    /\ look' = [look EXCEPT ![q] = [Onward(@) EXCEPT !.failed = @ \cup {Asked(q)}]]
    /\ UNCHANGED <<pending, net, order, known>>

(* The round is over: the closest nodes of old and new go on, and into the *)
(* table.                                                                  *)
Merge(q) ==
    /\ look[q].pc = "merge"
    /\ LET c == Closest(look[q].cand \cup look[q].fresh, K) IN
         IF look[q].found \/ look[q].fresh = {}
         THEN /\ look' = [look EXCEPT ![q].pc = "over"]
              /\ UNCHANGED <<live, spare>>
         ELSE /\ look' = [look EXCEPT ![q].pc = "choose", ![q].cand = c]
              /\ IsBucket(AddAll(Bucket, SetToSortSeq(c, <)))
    /\ UNCHANGED <<pending, net, order, known>>

(* The periodic announcement looks up again. *)
Again(q) ==
    /\ look[q].pc = "over"
    /\ look' = [look EXCEPT ![q] = Resting]
    /\ UNCHANGED <<live, spare, pending, net, order, known>>

----------------------------------------------------------------------------
(* add_known_peer: at the limit the oldest info hash goes. *)

EvictOldest == [order |-> Tail(order), known |-> Except(known, {Head(order)})]

Announce(h, a) ==
    /\ LET room == IF h \notin DOMAIN known /\ Cardinality(DOMAIN known) >= Hashes
                   THEN EvictOldest ELSE [order |-> order, known |-> known]
           had == IF h \in DOMAIN room.known THEN room.known[h] ELSE <<>>
           more == IF Contains(had, a) THEN had ELSE Append(had, a)
       IN /\ order' = IF h \in DOMAIN known THEN order ELSE Append(room.order, h)
          /\ known' = Put(room.known, h,
                          IF Len(more) > PeersEach THEN Tail(more) ELSE more)
    /\ UNCHANGED <<live, spare, pending, net, look>>

LookStep(q) ==
    \/ Start(q) \/ Choose(q) \/ Answered(q) \/ Failed(q) \/ Merge(q) \/ Timeout(q)
    \/ \E n \in Node : Send(q, n)

DhtNext ==
    \/ \E q \in Lookup : LookStep(q) \/ Again(q)
    \/ \E p \in net : Reply(p) \/ Lose(p) \/ Deliver(p)
    \/ \E n \in Node : Incoming(n)
    \/ \E h \in Hash, a \in Peer : Announce(h, a)

DhtSpec == DhtInit /\ [][DhtNext]_dhtVars
(* Timers fire and tasks run; nothing is asked of the network. *)
DhtFairSpec == DhtSpec /\ \A q \in Lookup : WF_dhtVars(LookStep(q))

----------------------------------------------------------------------------
(* A bucket never holds a node twice, nor one both as active and as        *)
(* candidate, stays within its bounds, and has candidates only when full:  *)
(* otherwise lookups ask a node twice, or a node that answers is kept out  *)
(* while there is room (add, mark_bad).                                    *)
BucketSound ==
    /\ IsInjective(live \o spare)
    /\ Len(live) <= K /\ Len(spare) <= 2 * K
    /\ spare # <<>> => Len(live) = K

(* Every pending entry has its waiter, which waits under that very key, so *)
(* that the table does not leak; an answer taken by a lookup comes from    *)
(* the node it asked (dht.rs: "the response is accepted only from the      *)
(* address that was queried").                                             *)
AnswersOwn ==
    /\ \A k \in DOMAIN pending : look[pending[k]].pc = "wait" /\ look[pending[k]].waits = k
    /\ \A q \in Lookup : look[q].pc = "wait" =>
         look[q].waits \in DOMAIN pending /\ pending[look[q].waits] = q
    /\ \A q \in Lookup : \A p \in look[q].answer : <<p.at, p.tid>> = look[q].waits

(* The queue of info hashes and the map of their peers stay in step and    *)
(* bounded under any flood of announcements (add_known_peer).              *)
KnownBounded ==
    /\ ToSet(order) = DOMAIN known /\ IsInjective(order)
    /\ Len(order) <= Hashes
    /\ \A h \in DOMAIN known : Len(known[h]) \in 1..PeersEach /\ IsInjective(known[h])

(* A node that did not answer a lookup is not put back by it.              *)
BadStaysOut ==
    [][\A q \in Lookup : look[q].pc = "merge" /\ look'[q].pc = "choose" =>
         ToSet(live') \cap look[q].failed \subseteq ToSet(live)]_dhtVars

(* Every lookup ends although no answer ever arrives. *)
LookupsEnd == \A q \in Lookup : (look[q].pc # "off") ~> (look[q].pc \in {"over", "off"})
=============================================================================
