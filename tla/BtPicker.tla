----------------------------- MODULE BtPicker ------------------------------
(***************************************************************************)
(* What the sessions of a BT task download (engine.rs): the shared set of  *)
(* assigned pieces, each session's queue of pieces, its requests and the   *)
(* blocks it holds, and the ways a piece gets back to the others.          *)
(*                                                                         *)
(* Sessions are coroutines on several threads; a step of a session is what *)
(* happens between two locks or awaits that others can see between.  The   *)
(* order in which assign_piece ranks its candidates is left open.          *)
(***************************************************************************)
EXTENDS Integers, FiniteSets

CONSTANTS
    Session,    \* sessions, used again when over
    Steady,     \* peers with every piece that neither leave, choke nor lie
    Piece,
    Block,      \* blocks of a piece
    Window,     \* pipeline, in blocks
    Queue,      \* MAX_QUEUED_PIECES
    Choices,    \* the selections, as sets of wanted pieces
    MaxJoins,   \* bound: sessions of unsteady peers
    Faulty      \* whether peers may send wrong data, and writes may fail

PickerAssumption ==
    /\ IsFiniteSet(Session) /\ IsFiniteSet(Piece) /\ Steady \subseteq Session
    /\ Choices \subseteq SUBSET Piece /\ Choices # {}
    /\ {Window, Queue, MaxJoins} \subseteq Nat \ {0} /\ Faulty \in BOOLEAN

VARIABLES
    stored,     \* the piece bitmap of the store
    wanted,     \* the pieces of the selected files
    assigned,   \* assigned
    queue,      \* PeerCell.queued
    peer,       \* PeerCell.state: what the peer has, who is choked, interested
    ctx,        \* PeerCtx: requests in flight, blocks held
    at,         \* where each session stands, and the piece in hand
    joins,      \* sessions begun by unsteady peers
    late        \* pieces a session gave back, undone, after it was evicted

pickVars == <<stored, wanted, assigned, queue, peer, ctx, at, joins, late>>

Unknown == [has |-> {}, choked |-> TRUE, interested |-> FALSE, kill |-> FALSE]
Empty == [flight |-> {}, blocks |-> {}]
Off == [pc |-> "off", hold |-> {}]

PickInit ==
    /\ stored = {} /\ wanted \in Choices /\ assigned = {}
    /\ queue = [s \in Session |-> {}]
    /\ peer = [s \in Session |-> Unknown]
    /\ ctx = [s \in Session |-> Empty]
    /\ at = [s \in Session |-> Off]
    /\ joins = 0 /\ late = {}

In(s, pc) == at[s].pc = pc
To(s, pc, hold) == at' = [at EXCEPT ![s] = [pc |-> pc, hold |-> hold]]
AllDone == wanted # {} /\ wanted \subseteq stored

(* fill_pipeline does nothing when choked, or not interested. *)
FillOrWait(p) == IF p.choked \/ ~p.interested THEN "loop" ELSE "fill"

(* ensure_interested: once interested, always. *)
Interested(p) ==
    [p EXCEPT !.interested = @ \/ (~AllDone /\ (p.has \cap wanted) \ stored # {})]

----------------------------------------------------------------------------
(* A session is registered and enters peer_message_loop. *)
Join(s) ==
    /\ In(s, "off") /\ (s \in Steady \/ joins < MaxJoins)
    /\ joins' = IF s \in Steady THEN joins ELSE joins + 1
    /\ peer' = [peer EXCEPT ![s] = Unknown]
    /\ To(s, "loop", {})
    /\ UNCHANGED <<stored, wanted, assigned, queue, ctx, late>>

(* release_all_pieces. *)
ReleaseAll(s) ==
    /\ queue' = [queue EXCEPT ![s] = {}]
    /\ assigned' = assigned \ queue[s]

(* Mutant: the pieces of a session that ends stay assigned. *)
LeaveKeeps(s) ==
    /\ at[s].pc \in {"loop", "fill", "wait"}
    /\ s \notin Steady \/ peer[s].kill
    /\ queue' = [queue EXCEPT ![s] = {}]
    /\ peer' = [peer EXCEPT ![s].kill = TRUE]
    /\ ctx' = [ctx EXCEPT ![s] = Empty]
    /\ To(s, "off", {})
    /\ UNCHANGED <<stored, wanted, assigned, joins, late>>

(* The session ends where it awaits something: killed, idle, or by an      *)
(* error; its caller unregisters it.                                       *)
Leave(s) ==
    /\ at[s].pc \in {"loop", "fill", "wait"}
    /\ s \notin Steady \/ peer[s].kill
    /\ ReleaseAll(s)
    /\ peer' = [peer EXCEPT ![s].kill = TRUE]
    /\ ctx' = [ctx EXCEPT ![s] = Empty]
    /\ To(s, "off", {})
    /\ UNCHANGED <<stored, wanted, joins, late>>

(* The engine evicts the session (unregister_peer) while it runs. *)
Evict(s) ==
    /\ ~In(s, "off") /\ s \notin Steady /\ ~peer[s].kill
    /\ peer' = [peer EXCEPT ![s].kill = TRUE]
    /\ ReleaseAll(s)
    /\ UNCHANGED <<stored, wanted, ctx, at, joins, late>>

(* apply_selection, while the task runs. *)
Select(W) ==
    /\ W \in Choices /\ W # wanted
    /\ wanted' = W
    /\ UNCHANGED <<stored, assigned, queue, peer, ctx, at, joins, late>>

----------------------------------------------------------------------------
(* Messages, read in the loop. *)

(* Bitfield, Have and HaveAll; HaveAll ends a session between two seeds. *)
Has(s, P) ==
    /\ In(s, "loop") /\ P \subseteq Piece \ peer[s].has /\ P # {}
    /\ s \in Steady => P = Piece
    /\ LET p == Interested([peer[s] EXCEPT !.has = @ \cup P])
       IN peer' = [peer EXCEPT ![s] = p] /\ To(s, FillOrWait(p), {})
    /\ UNCHANGED <<stored, wanted, assigned, queue, ctx, joins, late>>

HasNone(s) ==
    /\ In(s, "loop") /\ s \notin Steady /\ peer[s].has # {}
    /\ peer' = [peer EXCEPT ![s].has = {}]
    /\ UNCHANGED <<stored, wanted, assigned, queue, ctx, at, joins, late>>

(* SuggestPiece: the piece is assigned though the peer may not have it. *)
Suggest(s, p) ==
    /\ In(s, "loop") /\ s \notin Steady
    /\ ~AllDone /\ p \notin stored
    /\ Cardinality(queue[s]) < Queue /\ p \notin queue[s]
    /\ p \notin assigned
    /\ assigned' = assigned \cup {p}
    /\ To(s, "suggested", {p})
    /\ UNCHANGED <<stored, wanted, queue, peer, ctx, joins, late>>

Choke(s) ==
    /\ In(s, "loop") /\ s \notin Steady /\ ~peer[s].choked
    /\ peer' = [peer EXCEPT ![s].choked = TRUE]
    /\ ReleaseAll(s)
    /\ ctx' = [ctx EXCEPT ![s] = Empty]
    /\ UNCHANGED <<stored, wanted, at, joins, late>>

Unchoke(s) ==
    /\ In(s, "loop") /\ peer[s].choked
    /\ LET p == Interested([peer[s] EXCEPT !.choked = FALSE])
       IN peer' = [peer EXCEPT ![s] = p] /\ To(s, FillOrWait(p), {})
    /\ UNCHANGED <<stored, wanted, assigned, queue, ctx, joins, late>>

(* RejectRequest takes back a request, which the next tick repeats. *)
Reject(s, b) ==
    /\ In(s, "loop") /\ s \notin Steady /\ b \in ctx[s].flight
    /\ ctx' = [ctx EXCEPT ![s].flight = @ \ {b}]
    /\ UNCHANGED <<stored, wanted, assigned, queue, peer, at, joins, late>>

(* The choke timer: requests unanswered for too long are forgotten, and    *)
(* the pipeline is filled.                                                 *)
Tick(s) ==
    /\ In(s, "loop")
    /\ \/ UNCHANGED ctx
       \/ s \notin Steady /\ ctx' = [ctx EXCEPT ![s].flight = {}]
    /\ To(s, FillOrWait(peer[s]), {})
    /\ UNCHANGED <<stored, wanted, assigned, queue, peer, joins, late>>

(* Piece: a block of a queued piece waits for the rate limiter.  A steady  *)
(* peer sends what was asked.                                              *)
Arrives(s, p, b) ==
    /\ In(s, "loop") /\ p \in queue[s] /\ ~peer[s].choked
    /\ s \in Steady => <<p, b>> \in ctx[s].flight
    /\ To(s, "wait", {<<p, b>>})
    /\ UNCHANGED <<stored, wanted, assigned, queue, peer, ctx, joins, late>>

Taken(s) ==
    /\ In(s, "wait")
    /\ \E x \in at[s].hold :
         LET c == [flight |-> ctx[s].flight \ {x}, blocks |-> ctx[s].blocks \cup {x}]
         IN /\ ctx' = [ctx EXCEPT ![s] = c]
            /\ IF {x[1]} \X Block \subseteq c.blocks
               THEN To(s, "check", {x[1]})
               ELSE To(s, FillOrWait(peer[s]), {})
    /\ UNCHANGED <<stored, wanted, assigned, queue, peer, joins, late>>

(* accept_piece: known already, or the wrong hash. *)
Check(s) ==
    /\ In(s, "check")
    /\ \/ at[s].hold \subseteq stored /\ To(s, "release", at[s].hold)
       \/ at[s].hold \cap stored = {} /\ To(s, "write", at[s].hold)
       \/ /\ Faulty /\ s \notin Steady /\ at[s].hold \cap stored = {}
          /\ To(s, "release", at[s].hold)
    /\ UNCHANGED <<stored, wanted, assigned, queue, peer, ctx, joins, late>>

(* accept_piece, under the store's lock: written, and marked. *)
Write(s) ==
    /\ In(s, "write")
    /\ \/ stored' = stored \cup at[s].hold
       \/ Faulty /\ s \notin Steady /\ UNCHANGED stored
    /\ To(s, "release", at[s].hold)
    /\ UNCHANGED <<wanted, assigned, queue, peer, ctx, joins, late>>

(* release_piece, and the rest of the Piece branch. *)
Release(s) ==
    /\ In(s, "release")
    /\ LET Others(X) == {x \in X : x[1] \notin at[s].hold}
       IN ctx' = [ctx EXCEPT ![s] = [flight |-> Others(@.flight), blocks |-> Others(@.blocks)]]
    /\ queue' = [queue EXCEPT ![s] = @ \ at[s].hold]
    /\ assigned' = assigned \ at[s].hold
    /\ late' = late \cup (at[s].hold \ (queue[s] \cup stored))
    /\ To(s, FillOrWait(peer[s]), {})
    /\ UNCHANGED <<stored, wanted, peer, joins>>

----------------------------------------------------------------------------
(* fill_pipeline. *)
Unasked(s) == (queue[s] \X Block) \ (ctx[s].flight \cup ctx[s].blocks)

(* One request, of a queued piece. *)
Ask(s) ==
    /\ In(s, "fill") /\ Cardinality(ctx[s].flight) < Window
    /\ \E b \in Unasked(s) : ctx' = [ctx EXCEPT ![s].flight = @ \cup {b}]
    /\ UNCHANGED <<stored, wanted, assigned, queue, peer, at, joins, late>>

(* Nothing left to ask: assign_piece looks at the store and the peers.     *)
Look(s) ==
    /\ In(s, "fill") /\ Cardinality(ctx[s].flight) < Window
    /\ Unasked(s) = {} /\ Cardinality(queue[s]) < Queue
    /\ To(s, "pick", (peer[s].has \cap wanted) \ stored)
    /\ UNCHANGED <<stored, wanted, assigned, queue, peer, ctx, joins, late>>

(* assign_piece, under the lock of the assigned: a candidate that is free  *)
(* still, or none.                                                         *)
Pick(s) ==
    /\ In(s, "pick")
    /\ \/ \E p \in at[s].hold \ assigned :
            /\ assigned' = assigned \cup {p}
            /\ To(s, "picked", {p})
       \/ /\ at[s].hold \subseteq assigned
          /\ To(s, "loop", {}) /\ UNCHANGED assigned
    /\ UNCHANGED <<stored, wanted, queue, peer, ctx, joins, late>>

(* The piece enters the queue, after a gap without locks. *)
Push(s) ==
    /\ at[s].pc \in {"picked", "suggested"}
    /\ queue' = [queue EXCEPT ![s] = @ \cup at[s].hold]
    /\ To(s, IF In(s, "picked") THEN "fill" ELSE "loop", {})
    /\ UNCHANGED <<stored, wanted, assigned, peer, ctx, joins, late>>

(* The window is full, or the queue is. *)
Filled(s) ==
    /\ In(s, "fill")
    /\ \/ Cardinality(ctx[s].flight) >= Window
       \/ Unasked(s) = {} /\ Cardinality(queue[s]) >= Queue
    /\ To(s, "loop", {})
    /\ UNCHANGED <<stored, wanted, assigned, queue, peer, ctx, joins, late>>

Inner(s) ==
    \/ Taken(s) \/ Check(s) \/ Write(s) \/ Release(s)
    \/ Ask(s) \/ Look(s) \/ Pick(s) \/ Push(s) \/ Filled(s)

PickNext ==
    \/ \E s \in Session :
         \/ Join(s) \/ Leave(s) \/ Evict(s) \/ HasNone(s) \/ Choke(s) \/ Unchoke(s)
         \/ Tick(s) \/ Inner(s)
         \/ \E P \in SUBSET Piece : Has(s, P)
         \/ \E p \in Piece : Suggest(s, p)
         \/ \E p \in Piece, b \in Block : Arrives(s, p, b) \/ Reject(s, <<p, b>>)
    \/ \E W \in Choices : Select(W)

PickSpec == PickInit /\ [][PickNext]_pickVars

(* Coroutines run again; a session that is killed, or brings nothing, is   *)
(* over in the end (the kill branch, check_active_interaction); a steady   *)
(* peer announces its pieces, unchokes and answers.  select! has no fixed  *)
(* order: what is ready again and again is taken.                          *)
PickFairness ==
    /\ \A s \in Session : WF_pickVars(Inner(s))
    /\ \A s \in Session \ Steady : SF_pickVars(Leave(s))
    /\ \A s \in Steady :
         /\ WF_pickVars(Join(s)) /\ WF_pickVars(Has(s, Piece))
         /\ WF_pickVars(Unchoke(s)) /\ WF_pickVars(Tick(s))
         /\ \A p \in Piece, b \in Block : SF_pickVars(Arrives(s, p, b))

PickFairSpec == PickSpec /\ PickFairness

----------------------------------------------------------------------------
PickTypes ==
    /\ stored \subseteq Piece /\ wanted \in Choices /\ assigned \subseteq Piece
    /\ queue \in [Session -> SUBSET Piece]
    /\ peer \in [Session -> [has : SUBSET Piece, choked : BOOLEAN,
                             interested : BOOLEAN, kill : BOOLEAN]]
    /\ \A s \in Session :
         /\ ctx[s].flight \cup ctx[s].blocks \subseteq Piece \X Block
         /\ Cardinality(ctx[s].flight) <= Window
         /\ Cardinality(queue[s]) <= Queue

(* An assigned piece is in the queue of a session, or in the hand of one   *)
(* that is about to queue it: no eviction, choke, failure or end, at any   *)
(* moment of a session, leaves a piece assigned to nobody, which no other  *)
(* session could then download (run_peer: pieces left in `assigned` keep   *)
(* the others from them).                                                  *)
NoPieceStuck ==
    \A p \in assigned : \E s \in Session :
        p \in queue[s] \/ (at[s].pc \in {"picked", "suggested"} /\ p \in at[s].hold)

(* Two sessions never download the same missing piece (assign_piece takes  *)
(* a piece under the lock, so that no two peers choose the same).  The     *)
(* exception is what the code leaves open: a session that was evicted and  *)
(* then finds its piece corrupt takes it from `assigned` a second time,    *)
(* though it may be another session's by now.                              *)
OneEach ==
    \A s, t \in Session : s # t => queue[s] \cap queue[t] \subseteq stored \cup late

(* With a steady peer connected, every wanted piece is stored in the end,  *)
(* whatever the others hold back, suggest, reject, choke or drop: no piece *)
(* waits for a wake-up that is gone (the choke timer fills the pipelines   *)
(* again, since a released piece wakes nobody).                            *)
AllFetched == <>(wanted \subseteq stored)
=============================================================================
