--------------------------- MODULE BtEngineProofs ---------------------------
(***************************************************************************)
(* Proofs about the engine of a BT task, for any sessions, pieces, blocks, *)
(* addresses and limits.                                                   *)
(*                                                                         *)
(* BtPicker: no piece is assigned to nobody, none is downloaded by two     *)
(* sessions, and the queues and the pipelines keep their limits.           *)
(*                                                                         *)
(* BtPeers: the table lists every session that runs and is wanted, what it *)
(* lists has an owner, and the tasks of punched connections wait for their *)
(* own sessions.                                                           *)
(***************************************************************************)
EXTENDS BtPicker, BtPeers, FiniteSetTheorems, TLAPS

----------------------------------------------------------------------------
(* What the sessions download. *)

(* The stages of a session. *)
Stages == {"off", "loop", "wait", "check", "write", "release", "fill", "pick",
           "picked", "suggested"}

(* Between the look at the queue and the push, there is room for a piece.  *)
(* PeerCell.queued shrinks meanwhile, when the engine evicts the session,  *)
(* and never grows.                                                        *)
RoomToPush ==
    \A s \in Session :
        /\ at[s].pc \in {"pick", "picked", "suggested"} => Cardinality(queue[s]) < Queue
        /\ at[s].pc \in {"picked", "suggested"} => \E p \in Piece : at[s].hold = {p}

PeerRec == [has : SUBSET Piece, choked : BOOLEAN, interested : BOOLEAN, kill : BOOLEAN]
CtxRec == [flight : SUBSET (Piece \X Block), blocks : SUBSET (Piece \X Block)]
AtRec == [pc : Stages, hold : SUBSET (Piece \cup (Piece \X Block))]

(* Types, with what the limits need. *)
TypeInv ==
    /\ stored \subseteq Piece /\ wanted \in Choices /\ assigned \subseteq Piece
    /\ queue \in [Session -> SUBSET Piece]
    /\ peer \in [Session -> PeerRec]
    /\ ctx \in [Session -> CtxRec]
    /\ at \in [Session -> AtRec]
    /\ \A s \in Session : /\ IsFiniteSet(ctx[s].flight)
                          /\ Cardinality(ctx[s].flight) <= Window
                          /\ Cardinality(queue[s]) <= Queue

(* What a session has in hand is blocks while they wait, pieces otherwise. *)
HandInv ==
    \A s \in Session :
        /\ at[s].pc = "wait" => at[s].hold \subseteq Piece \X Block
        /\ at[s].pc \in {"check", "write", "release", "pick", "picked", "suggested"}
             => at[s].hold \subseteq Piece

(* The pieces a session has taken for itself, queued or about to be. *)
Mine(s) == IF at[s].pc \in {"picked", "suggested"} THEN queue[s] \cup at[s].hold
           ELSE queue[s]

(* A piece is taken by one session at a time, and stands in `assigned`     *)
(* while it is, but for what is stored or was given back too late.         *)
TakenInv ==
    /\ \A s \in Session : Mine(s) \subseteq assigned \cup stored \cup late
    /\ \A s, t \in Session : s # t => Mine(s) \cap Mine(t) \subseteq stored \cup late
    /\ \A s \in Session : at[s].pc \in {"picked", "suggested"}
                            => at[s].hold \cap queue[s] \subseteq stored \cup late
    /\ \A p \in assigned : \E s \in Session : p \in Mine(s)

Sound == TypeInv /\ HandInv /\ RoomToPush

----------------------------------------------------------------------------
(* Types and limits. *)

LEMMA InitSound == ASSUME PickerAssumption, PickInit PROVE Sound
<1> USE DEF PickInit, Unknown, Empty, Off, Stages
<1>1. IsFiniteSet({}) /\ Cardinality({}) = 0
  BY FS_EmptySet
<1>2. {Window, Queue} \subseteq Nat \ {0}
  BY DEF PickerAssumption
<1>3. TypeInv
  <2>1. \A s \in Session : ctx[s].flight = {} /\ queue[s] = {}
    OBVIOUS
  <2>2. \A s \in Session : /\ IsFiniteSet(ctx[s].flight)
                          /\ Cardinality(ctx[s].flight) <= Window
                          /\ Cardinality(queue[s]) <= Queue
    BY ONLY <1>1, <1>2, <2>1
  <2>3. wanted \in Choices /\ at \in [Session -> AtRec]
    BY DEF AtRec
  <2>4. peer \in [Session -> PeerRec] /\ ctx \in [Session -> CtxRec]
    BY DEF PeerRec, CtxRec
  <2> QED
    BY <2>2, <2>3, <2>4 DEF TypeInv
<1>4. HandInv
  BY DEF HandInv
<1>5. RoomToPush
  BY DEF RoomToPush
<1> QED
  BY <1>3, <1>4, <1>5 DEF Sound

(* A session that goes on with a queue that has not grown, requests within *)
(* the window, and the right thing in hand.                                *)
LEMMA GoesOn ==
    ASSUME PickerAssumption, Sound, NEW s \in Session,
           stored' \subseteq Piece, wanted' \in Choices, assigned' \subseteq Piece,
           peer' \in [Session -> PeerRec],
           NEW c \in CtxRec,
           ctx' = [ctx EXCEPT ![s] = c],
           IsFiniteSet(c.flight), Cardinality(c.flight) <= Window,
           NEW Q \in SUBSET Piece, queue' = [queue EXCEPT ![s] = Q],
           Cardinality(Q) <= Queue,
           NEW a \in AtRec,
           at' = [at EXCEPT ![s] = a],
           a.pc = "wait" => a.hold \subseteq Piece \X Block,
           a.pc \in {"check", "write", "release", "pick", "picked", "suggested"}
             => a.hold \subseteq Piece,
           a.pc \in {"pick", "picked", "suggested"} => Cardinality(Q) < Queue,
           a.pc \in {"picked", "suggested"} => \E p \in Piece : a.hold = {p}
    PROVE  Sound'
<1>1. /\ queue' \in [Session -> SUBSET Piece]
      /\ \A t \in Session : queue'[t] = IF t = s THEN Q ELSE queue[t]
  BY DEF Sound, TypeInv
<1>2. /\ ctx' \in [Session -> CtxRec]
      /\ \A t \in Session : ctx'[t] = IF t = s THEN c ELSE ctx[t]
  BY DEF Sound, TypeInv
<1>3. /\ at' \in [Session -> AtRec]
      /\ \A t \in Session : at'[t] = IF t = s THEN a ELSE at[t]
  BY DEF Sound, TypeInv
<1>4. TypeInv'
  BY <1>1, <1>2, <1>3 DEF Sound, TypeInv
<1>5. HandInv'
  BY <1>3 DEF Sound, HandInv
<1>6. RoomToPush'
  BY <1>1, <1>3 DEF Sound, RoomToPush
<1> QED
  BY <1>4, <1>5, <1>6 DEF Sound

(* What a session is before a step. *)
LEMMA Before ==
    ASSUME PickerAssumption, Sound, NEW s \in Session
    PROVE  /\ ctx[s] \in CtxRec
           /\ IsFiniteSet(ctx[s].flight) /\ Cardinality(ctx[s].flight) <= Window
           /\ Cardinality(ctx[s].flight) \in Nat
           /\ queue[s] \in SUBSET Piece /\ Cardinality(queue[s]) <= Queue
           /\ IsFiniteSet(queue[s]) /\ Cardinality(queue[s]) \in Nat
           /\ at[s] \in AtRec
           /\ Window \in Nat \ {0} /\ Queue \in Nat \ {0} /\ IsFiniteSet(Piece)
           /\ ctx = [ctx EXCEPT ![s] = ctx[s]] /\ queue = [queue EXCEPT ![s] = queue[s]]
           /\ at = [at EXCEPT ![s] = at[s]]
<1>1. IsFiniteSet(Piece) /\ {Window, Queue} \subseteq Nat \ {0}
  BY DEF PickerAssumption
<1>2. /\ ctx[s] \in CtxRec
      /\ IsFiniteSet(ctx[s].flight) /\ Cardinality(ctx[s].flight) <= Window
      /\ queue[s] \in SUBSET Piece /\ Cardinality(queue[s]) <= Queue
      /\ at[s] \in AtRec
  BY DEF Sound, TypeInv
<1>3. IsFiniteSet(queue[s])
  BY <1>1, <1>2, FS_Subset
<1>4. Cardinality(queue[s]) \in Nat /\ Cardinality(ctx[s].flight) \in Nat
  BY <1>2, <1>3, FS_CardinalityType
<1>5. ctx = [ctx EXCEPT ![s] = ctx[s]] /\ queue = [queue EXCEPT ![s] = queue[s]]
      /\ at = [at EXCEPT ![s] = at[s]]
  BY DEF Sound, TypeInv
<1> QED
  BY <1>1, <1>2, <1>3, <1>4, <1>5


(* What a session holds after it hears of its peer, comes or leaves. *)
LEMMA Records ==
    /\ Empty \in CtxRec /\ Empty.flight = {}
    /\ Unknown \in PeerRec
    /\ \A p \in PeerRec : Interested(p) \in PeerRec /\ FillOrWait(p) \in {"loop", "fill"}
    /\ \A pc \in Stages, X \in SUBSET (Piece \cup (Piece \X Block)) :
          [pc |-> pc, hold |-> X] \in AtRec
    /\ IsFiniteSet({}) /\ Cardinality({}) = 0
<1>1. Empty \in CtxRec /\ Empty.flight = {}
  BY DEF Empty, CtxRec
<1>2. Unknown \in PeerRec
  BY DEF Unknown, PeerRec
<1>3. \A p \in PeerRec : Interested(p) \in PeerRec
  BY DEF Interested, PeerRec
<1>4. \A p \in PeerRec : FillOrWait(p) \in {"loop", "fill"}
  BY DEF FillOrWait
<1>5. \A pc \in Stages, X \in SUBSET (Piece \cup (Piece \X Block)) :
          [pc |-> pc, hold |-> X] \in AtRec
  BY DEF AtRec
<1> QED
  BY <1>1, <1>2, <1>3, <1>4, <1>5, FS_EmptySet

(* A session comes, leaves, is evicted, or hears of its peer. *)
LEMMA OuterSound ==
    ASSUME PickerAssumption, Sound, NEW s \in Session,
           \/ Join(s) \/ Leave(s) \/ Evict(s) \/ HasNone(s) \/ Choke(s) \/ Unchoke(s)
           \/ \E P \in SUBSET Piece : Has(s, P)
    PROVE  Sound'
<1> DEFINE Loop == [pc |-> "loop", hold |-> {}]
<1>1. /\ stored \subseteq Piece /\ wanted \in Choices /\ assigned \subseteq Piece
      /\ peer \in [Session -> PeerRec] /\ peer[s] \in PeerRec
  BY DEF Sound, TypeInv
<1>2. /\ Cardinality(Empty.flight) <= Window /\ IsFiniteSet(Empty.flight)
      /\ Cardinality({}) <= Queue /\ {} \in SUBSET Piece
  BY Before, Records
<1>3. \A pc \in {"off", "loop", "fill"} :
        /\ [pc |-> pc, hold |-> {}] \in AtRec
        /\ pc \notin {"wait", "check", "write", "release", "pick", "picked", "suggested"}
  BY Records DEF Stages
<1>4. CASE Join(s)
  <2>1. /\ peer' = [peer EXCEPT ![s] = Unknown] /\ at' = [at EXCEPT ![s] = Loop]
        /\ UNCHANGED <<stored, wanted, assigned, queue, ctx>>
    BY <1>4 DEF Join, To
  <2>2. peer' \in [Session -> PeerRec]
    BY <2>1, <1>1, Records
  <2> QED
    BY <2>1, <2>2, <1>1, <1>3, Before, GoesOn
<1>5. CASE Leave(s)
  <2>1. /\ peer' = [peer EXCEPT ![s].kill = TRUE] /\ at' = [at EXCEPT ![s] = [pc |-> "off", hold |-> {}]]
        /\ ctx' = [ctx EXCEPT ![s] = Empty] /\ queue' = [queue EXCEPT ![s] = {}]
        /\ assigned' \subseteq Piece /\ UNCHANGED <<stored, wanted>>
    BY <1>5, <1>1 DEF Leave, ReleaseAll, To
  <2>2. peer' \in [Session -> PeerRec]
    BY <2>1, <1>1 DEF PeerRec
  <2> QED
    BY <2>1, <2>2, <1>1, <1>2, <1>3, Records, GoesOn
<1>6. CASE Evict(s)
  <2>1. /\ peer' = [peer EXCEPT ![s].kill = TRUE] /\ queue' = [queue EXCEPT ![s] = {}]
        /\ assigned' \subseteq Piece /\ UNCHANGED <<stored, wanted, ctx, at>>
    BY <1>6, <1>1 DEF Evict, ReleaseAll
  <2>2. peer' \in [Session -> PeerRec]
    BY <2>1, <1>1 DEF PeerRec
  <2>3. /\ at[s].pc = "wait" => at[s].hold \subseteq Piece \X Block
        /\ at[s].pc \in {"check", "write", "release", "pick", "picked", "suggested"}
             => at[s].hold \subseteq Piece
        /\ at[s].pc \in {"picked", "suggested"} => \E p \in Piece : at[s].hold = {p}
    BY DEF Sound, HandInv, RoomToPush
  <2>4. Cardinality({}) < Queue
    BY Before, Records
  <2> QED
    BY <2>1, <2>2, <2>3, <2>4, <1>1, <1>2, Before, GoesOn
<1>7. CASE HasNone(s)
  <2>1. /\ peer' = [peer EXCEPT ![s].has = {}]
        /\ UNCHANGED <<stored, wanted, assigned, queue, ctx, at>>
    BY <1>7 DEF HasNone
  <2>2. peer' \in [Session -> PeerRec]
    BY <2>1, <1>1 DEF PeerRec
  <2> QED
    BY <2>1, <2>2 DEF Sound, TypeInv, HandInv, RoomToPush
<1>8. CASE Choke(s)
  <2>1. /\ peer' = [peer EXCEPT ![s].choked = TRUE] /\ at[s].pc = "loop" /\ at' = at
        /\ ctx' = [ctx EXCEPT ![s] = Empty] /\ queue' = [queue EXCEPT ![s] = {}]
        /\ assigned' \subseteq Piece /\ UNCHANGED <<stored, wanted>>
    BY <1>8, <1>1 DEF Choke, ReleaseAll, In
  <2>2. peer' \in [Session -> PeerRec]
    BY <2>1, <1>1 DEF PeerRec
  <2> QED
    BY <2>1, <2>2, <1>1, <1>2, Before, Records, GoesOn
<1>9. CASE Unchoke(s)
  <2> DEFINE p == Interested([peer[s] EXCEPT !.choked = FALSE])
  <2>1. /\ peer' = [peer EXCEPT ![s] = p]
        /\ at' = [at EXCEPT ![s] = [pc |-> FillOrWait(p), hold |-> {}]]
        /\ UNCHANGED <<stored, wanted, assigned, queue, ctx>>
    BY <1>9 DEF Unchoke, To
  <2>2. [peer[s] EXCEPT !.choked = FALSE] \in PeerRec
    BY <1>1 DEF PeerRec
  <2>3. p \in PeerRec /\ FillOrWait(p) \in {"loop", "fill"}
    BY <2>2, Records
  <2> HIDE DEF p
  <2>4. peer' \in [Session -> PeerRec]
    BY <2>1, <2>3, <1>1
  <2> QED
    BY <2>1, <2>3, <2>4, <1>1, <1>3, Before, GoesOn
<1>10. ASSUME NEW P \in SUBSET Piece, Has(s, P) PROVE Sound'
  <2> DEFINE p == Interested([peer[s] EXCEPT !.has = @ \cup P])
  <2>1. /\ peer' = [peer EXCEPT ![s] = p]
        /\ at' = [at EXCEPT ![s] = [pc |-> FillOrWait(p), hold |-> {}]]
        /\ UNCHANGED <<stored, wanted, assigned, queue, ctx>>
    BY <1>10 DEF Has, To
  <2>2. [peer[s] EXCEPT !.has = @ \cup P] \in PeerRec
    BY <1>1 DEF PeerRec
  <2>3. p \in PeerRec /\ FillOrWait(p) \in {"loop", "fill"}
    BY <2>2, Records
  <2> HIDE DEF p
  <2>4. peer' \in [Session -> PeerRec]
    BY <2>1, <2>3, <1>1
  <2> QED
    BY <2>1, <2>3, <2>4, <1>1, <1>3, Before, GoesOn
<1> QED
  BY <1>4, <1>5, <1>6, <1>7, <1>8, <1>9, <1>10

(* Requests are repeated or taken back, and a block arrives. *)
LEMMA LoopSound ==
    ASSUME PickerAssumption, Sound, NEW s \in Session,
           \/ Tick(s)
           \/ \E p \in Piece, b \in Block : Arrives(s, p, b) \/ Reject(s, <<p, b>>)
    PROVE  Sound'
<1>1. /\ stored \subseteq Piece /\ wanted \in Choices /\ assigned \subseteq Piece
      /\ peer \in [Session -> PeerRec] /\ peer[s] \in PeerRec
  BY DEF Sound, TypeInv
<1>2. CASE Tick(s)
  <2>1. PICK c \in {ctx[s], [ctx[s] EXCEPT !.flight = {}]} :
             /\ ctx' = [ctx EXCEPT ![s] = c]
             /\ at' = [at EXCEPT ![s] = [pc |-> FillOrWait(peer[s]), hold |-> {}]]
             /\ UNCHANGED <<stored, wanted, assigned, queue, peer>>
    BY <1>2, Before DEF Tick, To
  <2>2. c \in CtxRec /\ c.flight \in {ctx[s].flight, {}}
    BY Before DEF CtxRec
  <2>3. IsFiniteSet(c.flight) /\ Cardinality(c.flight) <= Window
    <3>1. Cardinality({}) <= Window /\ IsFiniteSet({})
      BY Before, Records
    <3>2. IsFiniteSet(ctx[s].flight) /\ Cardinality(ctx[s].flight) <= Window
      BY Before
    <3> QED
      BY ONLY <2>2, <3>1, <3>2
  <2>4. [pc |-> FillOrWait(peer[s]), hold |-> {}] \in AtRec
    BY <1>1, Records DEF Stages
  <2> QED
    BY <2>1, <2>2, <2>3, <2>4, <1>1, Before, Records, GoesOn
<1>3. ASSUME NEW p \in Piece, NEW b \in Block, Arrives(s, p, b) PROVE Sound'
  <2>1. /\ at' = [at EXCEPT ![s] = [pc |-> "wait", hold |-> {<<p, b>>}]]
        /\ UNCHANGED <<stored, wanted, assigned, queue, peer, ctx>>
    BY <1>3 DEF Arrives, To
  <2>2. [pc |-> "wait", hold |-> {<<p, b>>}] \in AtRec
    BY Records DEF Stages
  <2> DEFINE a == [pc |-> "wait", hold |-> {<<p, b>>}]
  <2>3. a \in AtRec /\ a.pc = "wait" /\ a.hold \subseteq Piece \X Block
    BY <2>2
  <2> HIDE DEF a
  <2> QED
    BY <2>1, <2>3, <1>1, Before, GoesOn DEF a
<1>4. ASSUME NEW p \in Piece, NEW b \in Block, Reject(s, <<p, b>>) PROVE Sound'
  <2> DEFINE c == [ctx[s] EXCEPT !.flight = @ \ {<<p, b>>}]
  <2>1. /\ ctx' = [ctx EXCEPT ![s] = c] /\ at[s].pc = "loop" /\ at' = at
        /\ UNCHANGED <<stored, wanted, assigned, queue, peer>>
    BY <1>4 DEF Reject, In
  <2>2. c \in CtxRec /\ c.flight \subseteq ctx[s].flight
    BY Before DEF CtxRec
  <2>3. IsFiniteSet(c.flight) /\ Cardinality(c.flight) <= Cardinality(ctx[s].flight)
    BY <2>2, Before, FS_Subset
  <2>4. Cardinality(c.flight) \in Nat
    BY <2>3, FS_CardinalityType
  <2> HIDE DEF c
  <2>5. Cardinality(c.flight) <= Window
    BY <2>3, <2>4, Before
  <2> QED
    BY <2>1, <2>2, <2>3, <2>5, <1>1, Before, GoesOn
<1> QED
  BY <1>2, <1>3, <1>4

(* A block that arrived, up to its piece written and released. *)
LEMMA PieceSound ==
    ASSUME PickerAssumption, Sound, NEW s \in Session,
           Taken(s) \/ Check(s) \/ Write(s) \/ Release(s)
    PROVE  Sound'
<1>1. /\ stored \subseteq Piece /\ wanted \in Choices /\ assigned \subseteq Piece
      /\ peer \in [Session -> PeerRec] /\ peer[s] \in PeerRec
  BY DEF Sound, TypeInv
<1>2. /\ at[s].pc = "wait" => at[s].hold \subseteq Piece \X Block
      /\ at[s].pc \in {"check", "write", "release"} => at[s].hold \subseteq Piece
  BY DEF Sound, HandInv
<1>3. [pc |-> FillOrWait(peer[s]), hold |-> {}] \in AtRec
  BY <1>1, Records DEF Stages
<1>4. CASE Taken(s)
  <2>1. PICK x \in at[s].hold :
          LET c == [flight |-> ctx[s].flight \ {x}, blocks |-> ctx[s].blocks \cup {x}]
          IN /\ ctx' = [ctx EXCEPT ![s] = c]
             /\ IF {x[1]} \X Block \subseteq c.blocks
                THEN at' = [at EXCEPT ![s] = [pc |-> "check", hold |-> {x[1]}]]
                ELSE at' = [at EXCEPT ![s] = [pc |-> FillOrWait(peer[s]), hold |-> {}]]
    BY <1>4 DEF Taken, To
  <2>2. x \in Piece \X Block /\ {x[1]} \subseteq Piece
    BY <1>2, <1>4 DEF Taken, In
  <2> DEFINE c == [flight |-> ctx[s].flight \ {x}, blocks |-> ctx[s].blocks \cup {x}]
  <2>3. c \in CtxRec /\ c.flight \subseteq ctx[s].flight /\ ctx' = [ctx EXCEPT ![s] = c]
    BY <2>1, <2>2, Before DEF CtxRec
  <2> HIDE DEF c
  <2>4. IsFiniteSet(c.flight) /\ Cardinality(c.flight) <= Cardinality(ctx[s].flight)
    BY <2>3, Before, FS_Subset
  <2>5. Cardinality(c.flight) \in Nat
    BY <2>4, FS_CardinalityType
  <2>6. Cardinality(c.flight) <= Window
    BY <2>4, <2>5, Before
  <2>7. PICK a \in {[pc |-> "check", hold |-> {x[1]}],
                    [pc |-> FillOrWait(peer[s]), hold |-> {}]} :
          at' = [at EXCEPT ![s] = a]
    BY <2>1
  <2>8. [pc |-> "check", hold |-> {x[1]}] \in AtRec
    BY <2>2, Records DEF Stages
  <2>9. /\ a \in AtRec /\ a.pc \in {"check", "loop", "fill"}
        /\ a.pc = "check" => a.hold \subseteq Piece
    <3>1. FillOrWait(peer[s]) \in {"loop", "fill"}
      BY <1>1, Records
    <3>2. CASE a = [pc |-> "check", hold |-> {x[1]}]
      BY <3>2, <2>2, <2>8
    <3>3. CASE a = [pc |-> FillOrWait(peer[s]), hold |-> {}]
      BY <3>1, <3>3, <1>3
    <3> QED
      BY <2>7, <3>2, <3>3
  <2>10. UNCHANGED <<stored, wanted, assigned, queue, peer>>
    BY <1>4 DEF Taken
  <2> QED
    BY <2>3, <2>4, <2>6, <2>7, <2>9, <2>10, <1>1, Before, GoesOn
<1>5. CASE Check(s)
  <2>1. PICK pc \in {"release", "write"} : at' = [at EXCEPT ![s] = [pc |-> pc, hold |-> at[s].hold]]
    BY <1>5 DEF Check, To
  <2>2. at[s].hold \subseteq Piece /\ UNCHANGED <<stored, wanted, assigned, queue, peer, ctx>>
    BY <1>2, <1>5 DEF Check, In
  <2>3. [pc |-> pc, hold |-> at[s].hold] \in AtRec
    BY <2>1, <2>2, Records DEF Stages
  <2> QED
    BY <2>1, <2>2, <2>3, <1>1, Before, GoesOn
<1>6. CASE Write(s)
  <2>1. /\ at' = [at EXCEPT ![s] = [pc |-> "release", hold |-> at[s].hold]]
        /\ UNCHANGED <<wanted, assigned, queue, peer, ctx>> /\ at[s].hold \subseteq Piece
        /\ stored' \subseteq Piece
    BY <1>1, <1>2, <1>6 DEF Write, To, In
  <2>2. [pc |-> "release", hold |-> at[s].hold] \in AtRec
    BY <2>1, Records DEF Stages
  <2> QED
    BY <2>1, <2>2, <1>1, Before, GoesOn
<1>7. CASE Release(s)
  <2> DEFINE Others(X) == {x \in X : x[1] \notin at[s].hold}
             c == [flight |-> Others(ctx[s].flight), blocks |-> Others(ctx[s].blocks)]
             Q == queue[s] \ at[s].hold
  <2>1. /\ ctx' = [ctx EXCEPT ![s] = c] /\ queue' = [queue EXCEPT ![s] = Q]
        /\ at' = [at EXCEPT ![s] = [pc |-> FillOrWait(peer[s]), hold |-> {}]]
        /\ assigned' \subseteq Piece
        /\ UNCHANGED <<stored, wanted, peer>>
    BY <1>1, <1>7 DEF Release, To
  <2>2. c \in CtxRec /\ c.flight \subseteq ctx[s].flight
    BY Before DEF CtxRec
  <2>3. Q \in SUBSET Piece /\ Q \subseteq queue[s]
    BY Before
  <2> HIDE DEF c, Q
  <2>4. /\ IsFiniteSet(c.flight) /\ Cardinality(c.flight) <= Cardinality(ctx[s].flight)
        /\ IsFiniteSet(Q) /\ Cardinality(Q) <= Cardinality(queue[s])
    BY <2>2, <2>3, Before, FS_Subset
  <2>5. Cardinality(c.flight) \in Nat /\ Cardinality(Q) \in Nat
    BY <2>4, FS_CardinalityType
  <2>6. Cardinality(c.flight) <= Window /\ Cardinality(Q) <= Queue
    BY <2>4, <2>5, Before
  <2> QED
    BY <2>1, <2>2, <2>3, <2>4, <2>6, <1>1, <1>3, Records, GoesOn
<1> QED
  BY <1>4, <1>5, <1>6, <1>7

(* A session fills its pipeline, or takes a piece its peer suggests. *)
LEMMA FillSound ==
    ASSUME PickerAssumption, Sound, NEW s \in Session,
           \/ Ask(s) \/ Look(s) \/ Pick(s) \/ Push(s) \/ Filled(s)
           \/ \E p \in Piece : Suggest(s, p)
    PROVE  Sound'
<1>1. /\ stored \subseteq Piece /\ wanted \in Choices /\ assigned \subseteq Piece
      /\ peer \in [Session -> PeerRec] /\ peer[s] \in PeerRec
  BY DEF Sound, TypeInv
<1>2. /\ at[s].pc = "pick" => at[s].hold \subseteq Piece
      /\ at[s].pc \in {"pick", "picked", "suggested"} => Cardinality(queue[s]) < Queue
      /\ at[s].pc \in {"picked", "suggested"} => \E p \in Piece : at[s].hold = {p}
  BY DEF Sound, HandInv, RoomToPush
<1>3. \A pc \in {"loop", "fill"} :
        /\ [pc |-> pc, hold |-> {}] \in AtRec
        /\ pc \notin {"wait", "check", "write", "release", "pick", "picked", "suggested"}
  BY Records DEF Stages
<1>4. CASE Ask(s)
  <2>1. PICK b \in Unasked(s) : ctx' = [ctx EXCEPT ![s].flight = @ \cup {b}]
    BY <1>4 DEF Ask
  <2>2. b \in Piece \X Block /\ b \notin ctx[s].flight
    BY <2>1, Before DEF Unasked
  <2> DEFINE c == [ctx[s] EXCEPT !.flight = @ \cup {b}]
  <2>3. c \in CtxRec /\ c.flight = ctx[s].flight \cup {b} /\ ctx' = [ctx EXCEPT ![s] = c]
    BY <2>1, <2>2, Before DEF CtxRec
  <2> HIDE DEF c
  <2>4. /\ IsFiniteSet(c.flight)
        /\ Cardinality(c.flight) = Cardinality(ctx[s].flight) + 1
    <3>1. IsFiniteSet(ctx[s].flight)
      BY Before
    <3>2. /\ IsFiniteSet(ctx[s].flight \cup {b})
          /\ Cardinality(ctx[s].flight \cup {b}) = Cardinality(ctx[s].flight) + 1
      BY ONLY <2>2, <3>1, FS_AddElement
    <3> QED
      BY ONLY <2>3, <3>2
  <2>5. Cardinality(ctx[s].flight) < Window /\ at[s].pc = "fill"
        /\ UNCHANGED <<stored, wanted, assigned, queue, peer, at>>
    BY <1>4 DEF Ask, In
  <2>6. Cardinality(c.flight) <= Window
    BY <2>4, <2>5, Before
  <2> QED
    BY <2>3, <2>4, <2>5, <2>6, <1>1, Before, GoesOn
<1>5. CASE Look(s)
  <2> DEFINE X == (peer[s].has \cap wanted) \ stored
  <2>1. /\ at' = [at EXCEPT ![s] = [pc |-> "pick", hold |-> X]]
        /\ Cardinality(queue[s]) < Queue
        /\ UNCHANGED <<stored, wanted, assigned, queue, peer, ctx>>
    BY <1>5 DEF Look, To
  <2>2. X \subseteq Piece
    BY <1>1 DEF PeerRec
  <2>3. [pc |-> "pick", hold |-> X] \in AtRec
    BY <2>2, Records DEF Stages
  <2> HIDE DEF X
  <2> QED
    BY <2>1, <2>2, <2>3, <1>1, Before, GoesOn
<1>6. CASE Pick(s)
  <2>1. at[s].hold \subseteq Piece /\ Cardinality(queue[s]) < Queue
    BY <1>2, <1>6 DEF Pick, In
  <2>2. UNCHANGED <<stored, wanted, queue, peer, ctx>>
    BY <1>6 DEF Pick
  <2>3. ASSUME NEW p \in at[s].hold \ assigned, assigned' = assigned \cup {p},
               at' = [at EXCEPT ![s] = [pc |-> "picked", hold |-> {p}]]
        PROVE  Sound'
    <3>1. [pc |-> "picked", hold |-> {p}] \in AtRec /\ p \in Piece
      BY <2>1, Records DEF Stages
    <3> QED
      BY <2>1, <2>2, <2>3, <3>1, <1>1, Before, GoesOn
  <2>4. ASSUME at' = [at EXCEPT ![s] = [pc |-> "loop", hold |-> {}]], assigned' = assigned
        PROVE  Sound'
    BY <2>2, <2>4, <1>1, <1>3, Before, GoesOn
  <2> QED
    BY <2>3, <2>4, <1>6 DEF Pick, To
<1>7. CASE Push(s)
  <2>1. PICK p \in Piece : at[s].hold = {p}
    BY <1>2, <1>7 DEF Push
  <2>2. PICK pc \in {"fill", "loop"} :
          /\ at' = [at EXCEPT ![s] = [pc |-> pc, hold |-> {}]]
          /\ queue' = [queue EXCEPT ![s] = @ \cup {p}]
          /\ UNCHANGED <<stored, wanted, assigned, peer, ctx>>
    BY <1>7, <2>1 DEF Push, To
  <2> DEFINE Q == queue[s] \cup {p}
  <2>3. Q \in SUBSET Piece /\ queue' = [queue EXCEPT ![s] = Q]
    BY <2>2, Before
  <2>4. Cardinality(Q) <= Cardinality(queue[s]) + 1 /\ Cardinality(queue[s]) < Queue
    <3>1. IsFiniteSet(queue[s]) /\ Cardinality(queue[s]) \in Nat
      BY Before
    <3>2. Cardinality(Q) \in {Cardinality(queue[s]), Cardinality(queue[s]) + 1}
      BY <3>1, FS_AddElement
    <3>3. Cardinality(queue[s]) < Queue
      BY <1>2, <1>7 DEF Push
    <3> QED
      BY <3>1, <3>2, <3>3
  <2>5. IsFiniteSet(Q)
    BY Before, FS_AddElement
  <2>6. Cardinality(Q) \in Nat
    BY <2>5, FS_CardinalityType
  <2> HIDE DEF Q
  <2>7. Cardinality(Q) <= Queue
    BY <2>4, <2>6, Before
  <2> QED
    BY <2>2, <2>3, <2>7, <1>1, <1>3, Before, GoesOn
<1>8. CASE Filled(s)
  <2>1. /\ at' = [at EXCEPT ![s] = [pc |-> "loop", hold |-> {}]]
        /\ UNCHANGED <<stored, wanted, assigned, queue, peer, ctx>>
    BY <1>8 DEF Filled, To
  <2> QED
    BY <2>1, <1>1, <1>3, Before, GoesOn
<1>9. ASSUME NEW p \in Piece, Suggest(s, p) PROVE Sound'
  <2>1. /\ at' = [at EXCEPT ![s] = [pc |-> "suggested", hold |-> {p}]]
        /\ assigned' \subseteq Piece /\ Cardinality(queue[s]) < Queue
        /\ UNCHANGED <<stored, wanted, queue, peer, ctx>>
    BY <1>1, <1>9 DEF Suggest, To
  <2>2. [pc |-> "suggested", hold |-> {p}] \in AtRec
    BY Records DEF Stages
  <2> QED
    BY <2>1, <2>2, <1>1, Before, GoesOn
<1> QED
  BY <1>4, <1>5, <1>6, <1>7, <1>8, <1>9

LEMMA NextSound ==
    ASSUME PickerAssumption, Sound, [PickNext]_pickVars PROVE Sound'
<1>1. ASSUME NEW W \in Choices, Select(W) PROVE Sound'
  BY <1>1 DEF Sound, TypeInv, HandInv, RoomToPush, Select
<1>2. CASE UNCHANGED pickVars
  BY <1>2 DEF Sound, TypeInv, HandInv, RoomToPush, pickVars
<1> QED
  BY <1>1, <1>2, OuterSound, LoopSound, PieceSound, FillSound DEF PickNext, Inner

----------------------------------------------------------------------------
(* Who has taken what. *)

(* Pieces that two sessions may have: downloaded, or given back too late. *)
Excused == stored \cup late

(* A session that takes and gives back nothing. *)
LEMMA KeepsTaken ==
    ASSUME TakenInv, assigned' = assigned, Excused \subseteq Excused',
           \A s \in Session : Mine(s)' = Mine(s),
           \A s \in Session : at'[s].pc \in {"picked", "suggested"}
                                => at'[s].hold \cap queue'[s] \subseteq Excused'
    PROVE  TakenInv'
BY DEF TakenInv, Excused

(* A session that gives back X, all its own or excused by then. *)
LEMMA GivesTaken ==
    ASSUME TakenInv, NEW s \in Session, NEW X, assigned' = assigned \ X,
           Excused \subseteq Excused', X \subseteq Mine(s) \cup Excused',
           Mine(s)' \subseteq Mine(s), Mine(s) \ X \subseteq Mine(s)',
           Mine(s)' \cap X \subseteq Excused',
           \A t \in Session \ {s} : Mine(t)' = Mine(t),
           \A t \in Session : at'[t].pc \in {"picked", "suggested"}
                                => at'[t].hold \cap queue'[t] \subseteq Excused'
    PROVE  TakenInv'
<1>1. \A t \in Session : Mine(t)' \subseteq assigned' \cup Excused'
  <2> SUFFICES ASSUME NEW t \in Session, NEW p \in Mine(t)', p \notin Excused'
               PROVE  p \in assigned'
    OBVIOUS
  <2>1. p \in Mine(t) /\ p \in assigned
    BY DEF TakenInv, Excused
  <2>2. p \notin X
    BY <2>1 DEF TakenInv, Excused
  <2> QED
    BY <2>1, <2>2
<1>2. \A t, u \in Session : t # u => Mine(t)' \cap Mine(u)' \subseteq Excused'
  <2>1. \A t \in Session : Mine(t)' \subseteq Mine(t)
    OBVIOUS
  <2> QED
    BY <2>1 DEF TakenInv, Excused
<1>3. \A p \in assigned' : \E t \in Session : p \in Mine(t)'
  BY DEF TakenInv
<1> QED
  BY <1>1, <1>2, <1>3 DEF TakenInv, Excused

(* A session that takes a piece nobody has. *)
LEMMA TakesTaken ==
    ASSUME TakenInv, NEW s \in Session, NEW p, p \notin assigned,
           assigned' = assigned \cup {p}, Excused' = Excused,
           Mine(s)' = Mine(s) \cup {p},
           \A t \in Session \ {s} : Mine(t)' = Mine(t),
           \A t \in Session : at'[t].pc \in {"picked", "suggested"}
                                => at'[t].hold \cap queue'[t] \subseteq Excused'
    PROVE  TakenInv'
<1>1. \A t \in Session : Mine(t)' \subseteq assigned' \cup Excused'
  BY DEF TakenInv, Excused
<1>2. \A t, u \in Session : t # u => Mine(t)' \cap Mine(u)' \subseteq Excused'
  BY DEF TakenInv, Excused
<1>3. \A q \in assigned' : \E t \in Session : q \in Mine(t)'
  BY DEF TakenInv
<1> QED
  BY <1>1, <1>2, <1>3 DEF TakenInv, Excused

(* Where a session stands after a step. *)
LEMMA Stands ==
    ASSUME Sound, NEW s \in Session, NEW pc, NEW hold, To(s, pc, hold)
    PROVE  /\ \A t \in Session \ {s} : at'[t] = at[t]
           /\ at'[s].pc = pc /\ at'[s].hold = hold
<1>1. at \in [Session -> AtRec]
  BY DEF Sound, TypeInv
<1> QED
  BY <1>1 DEF To

LEMMA NextTaken ==
    ASSUME PickerAssumption, Sound, TakenInv, [PickNext]_pickVars PROVE TakenInv'
<1>1. at \in [Session -> AtRec] /\ queue \in [Session -> SUBSET Piece]
  BY DEF Sound, TypeInv
<1>2. \A t \in Session : at[t].pc \in {"picked", "suggested"}
                           => at[t].hold \cap queue[t] \subseteq Excused
  BY DEF TakenInv, Excused
<1>3. CASE UNCHANGED pickVars \/ \E W \in Choices : Select(W)
  <2>1. UNCHANGED <<assigned, stored, late, queue, at>>
    BY <1>3 DEF pickVars, Select
  <2> QED
    BY <2>1, <1>2, KeepsTaken DEF Mine, Excused
<1>4. ASSUME NEW s \in Session, UNCHANGED <<assigned, queue, late>>,
             stored \subseteq stored', \A t \in Session \ {s} : at'[t] = at[t],
             at[s].pc \notin {"picked", "suggested"}, at'[s].pc \notin {"picked", "suggested"}
      PROVE  TakenInv'
  <2>1. \A t \in Session : Mine(t)' = Mine(t)
    <3>1. Mine(s)' = queue'[s] /\ Mine(s) = queue[s]
      BY <1>4 DEF Mine
    <3>2. \A t \in Session \ {s} : Mine(t)' = Mine(t)
      BY <1>4 DEF Mine
    <3> QED
      BY <3>1, <3>2, <1>4
  <2>2. Excused \subseteq Excused'
    BY <1>4 DEF Excused
  <2>3. \A t \in Session : at'[t].pc \in {"picked", "suggested"}
                             => at'[t].hold \cap queue'[t] \subseteq Excused'
    BY <2>2, <1>2, <1>4
  <2> QED
    BY <2>1, <2>2, <2>3, <1>4, KeepsTaken
<1>5. \A p : FillOrWait(p) \in {"loop", "fill"}
  BY DEF FillOrWait
<1>6. ASSUME NEW s \in Session, HasNone(s) \/ \E b : Reject(s, b) \/ Ask(s) PROVE TakenInv'
  <2>1. UNCHANGED <<assigned, stored, late, queue, at>>
    BY <1>6 DEF HasNone, Reject, Ask
  <2> QED
    BY <2>1, <1>2, KeepsTaken DEF Mine, Excused
<1>7. ASSUME NEW s \in Session,
             \/ Join(s) \/ Unchoke(s) \/ Tick(s) \/ \E P \in SUBSET Piece : Has(s, P)
             \/ \E p \in Piece, b \in Block : Arrives(s, p, b)
      PROVE  TakenInv'
  <2>1. at[s].pc \in {"off", "loop"} /\ UNCHANGED <<assigned, queue, late, stored>>
    BY <1>7 DEF Join, Unchoke, Tick, Has, Arrives, In
  <2>2. \E pc \in {"loop", "wait", "fill"} : \E hold : To(s, pc, hold)
    <3>1. CASE Join(s)
      <4>1. To(s, "loop", {})
        BY <3>1 DEF Join
      <4> QED
        BY <4>1
    <3>2. CASE \E p \in Piece, b \in Block : Arrives(s, p, b)
      <4>1. PICK p \in Piece, b \in Block : Arrives(s, p, b)
        BY <3>2
      <4>2. To(s, "wait", {<<p, b>>})
        BY <4>1 DEF Arrives
      <4> QED
        BY <4>2
    <3>3. CASE Unchoke(s) \/ Tick(s) \/ \E P \in SUBSET Piece : Has(s, P)
      <4>1. PICK p : To(s, FillOrWait(p), {})
        BY <3>3 DEF Unchoke, Tick, Has
      <4> QED
        BY <4>1, <1>5
    <3> QED
      BY <3>1, <3>2, <3>3, <1>7
  <2>3. PICK pc \in {"loop", "wait", "fill"} : \E hold : To(s, pc, hold)
    BY <2>2
  <2>4. /\ \A t \in Session \ {s} : at'[t] = at[t]
        /\ at'[s].pc = pc
    BY <2>3, Stands
  <2> QED
    BY <2>1, <2>3, <2>4, <1>4
<1>9. ASSUME NEW s \in Session, Taken(s) \/ Check(s) \/ Write(s) \/ Look(s) \/ Filled(s)
      PROVE  TakenInv'
  <2>1. /\ at[s].pc \notin {"picked", "suggested"}
        /\ UNCHANGED <<assigned, queue, late>> /\ stored \subseteq stored'
    BY <1>9 DEF Taken, Check, Write, Look, Filled, In
  <2>2. \E pc \in {"loop", "fill", "check", "release", "write", "pick"} :
          \E hold : To(s, pc, hold)
    <3>1. CASE Taken(s)
      <4>1. \/ \E x : To(s, "check", {x[1]})
            \/ To(s, FillOrWait(peer[s]), {})
        BY <3>1 DEF Taken
      <4> QED
        BY <4>1, <1>5
    <3>2. CASE Check(s)
      <4>1. To(s, "release", at[s].hold) \/ To(s, "write", at[s].hold)
        BY <3>2 DEF Check
      <4> QED
        BY <4>1
    <3>3. CASE Write(s)
      <4>1. To(s, "release", at[s].hold)
        BY <3>3 DEF Write
      <4> QED
        BY <4>1
    <3>4. CASE Look(s)
      <4>1. To(s, "pick", (peer[s].has \cap wanted) \ stored)
        BY <3>4 DEF Look
      <4> QED
        BY <4>1
    <3>5. CASE Filled(s)
      <4>1. To(s, "loop", {})
        BY <3>5 DEF Filled
      <4> QED
        BY <4>1
    <3> QED
      BY <3>1, <3>2, <3>3, <3>4, <3>5, <1>9
  <2>3. PICK pc \in {"loop", "fill", "check", "release", "write", "pick"} : \E hold : To(s, pc, hold)
    BY <2>2
  <2>4. /\ \A t \in Session \ {s} : at'[t] = at[t]
        /\ at'[s].pc = pc
    BY <2>3, Stands
  <2> QED
    BY <2>1, <2>3, <2>4, <1>4
<1>10. ASSUME NEW s \in Session, Leave(s) \/ Evict(s) \/ Choke(s) PROVE TakenInv'
  <2>1. /\ queue' = [queue EXCEPT ![s] = {}] /\ assigned' = assigned \ queue[s]
        /\ UNCHANGED <<stored, late>>
        /\ at' = at \/ (/\ at' = [at EXCEPT ![s] = [pc |-> "off", hold |-> {}]]
                        /\ at[s].pc \notin {"picked", "suggested"})
    BY <1>10 DEF Leave, Evict, Choke, ReleaseAll, To, In
  <2>2. \A t \in Session \ {s} : queue'[t] = queue[t] /\ at'[t] = at[t]
    BY <2>1, <1>1
  <2>3. /\ queue'[s] = {} /\ Excused' = Excused
        /\ at'[s] = at[s] \/ (/\ at'[s].pc = "off"
                              /\ at[s].pc \notin {"picked", "suggested"})
    BY <2>1, <1>1 DEF Excused
  <2>4. \A t \in Session \ {s} : Mine(t)' = Mine(t)
    BY <2>2 DEF Mine
  <2>5. queue[s] \subseteq Mine(s) /\ Mine(s) \ queue[s] \subseteq Mine(s)'
        /\ Mine(s)' \subseteq Mine(s) /\ Mine(s)' \cap queue[s] \subseteq Excused'
    BY <2>3, <1>2 DEF Mine
  <2>6. \A t \in Session : at'[t].pc \in {"picked", "suggested"}
                             => at'[t].hold \cap queue'[t] \subseteq Excused'
    BY <2>2, <2>3, <1>2
  <2> QED
    BY <2>1, <2>3, <2>4, <2>5, <2>6, GivesTaken
<1>11. ASSUME NEW s \in Session, Release(s) PROVE TakenInv'
  <2> DEFINE X == at[s].hold
  <2>1. /\ queue' = [queue EXCEPT ![s] = @ \ X] /\ assigned' = assigned \ X
        /\ late' = late \cup (X \ (queue[s] \cup stored)) /\ stored' = stored
        /\ at' = [at EXCEPT ![s] = [pc |-> FillOrWait(peer[s]), hold |-> {}]]
        /\ at[s].pc = "release"
    BY <1>11 DEF Release, To, In
  <2>2. \A t \in Session \ {s} : queue'[t] = queue[t] /\ at'[t] = at[t]
    BY <2>1, <1>1
  <2>3. /\ queue'[s] = queue[s] \ X /\ at'[s].pc \notin {"picked", "suggested"}
        /\ Excused \subseteq Excused' /\ X \subseteq queue[s] \cup Excused'
    BY <2>1, <1>1 DEF Excused, FillOrWait
  <2> HIDE DEF X
  <2>4. \A t \in Session \ {s} : Mine(t)' = Mine(t)
    BY <2>2 DEF Mine
  <2>5. Mine(s) = queue[s] /\ Mine(s)' = queue[s] \ X
    BY <2>1, <2>3 DEF Mine
  <2>6. \A t \in Session : at'[t].pc \in {"picked", "suggested"}
                             => at'[t].hold \cap queue'[t] \subseteq Excused'
    BY <2>2, <2>3, <1>2
  <2> QED
    BY <2>1, <2>3, <2>4, <2>5, <2>6, GivesTaken
<1>12. ASSUME NEW s \in Session, NEW p, NEW pc \in {"picked", "suggested"}, p \notin assigned,
              assigned' = assigned \cup {p}, UNCHANGED <<stored, late, queue>>,
              at' = [at EXCEPT ![s] = [pc |-> pc, hold |-> {p}]],
              at[s].pc \notin {"picked", "suggested"}
       PROVE  TakenInv'
  <2>1. /\ \A t \in Session \ {s} : at'[t] = at[t] /\ queue'[t] = queue[t]
        /\ at'[s].pc \in {"picked", "suggested"} /\ at'[s].hold = {p} /\ queue'[s] = queue[s]
    BY <1>12, <1>1
  <2>2. \A t \in Session \ {s} : Mine(t)' = Mine(t)
    BY <2>1 DEF Mine
  <2>3. Mine(s) = queue[s] /\ Mine(s)' = queue[s] \cup {p} /\ Excused' = Excused
    BY <2>1, <1>12 DEF Mine, Excused
  <2>4. p \in queue[s] => p \in Excused
    BY <2>3, <1>12 DEF TakenInv, Excused
  <2>5. \A t \in Session : at'[t].pc \in {"picked", "suggested"}
                             => at'[t].hold \cap queue'[t] \subseteq Excused'
    BY <2>1, <2>3, <2>4, <1>2, <1>12
  <2> QED
    BY <2>2, <2>3, <2>5, <1>12, TakesTaken
<1>13. ASSUME NEW s \in Session, Pick(s) PROVE TakenInv'
  <2>1. at[s].pc = "pick" /\ UNCHANGED <<stored, late, queue>>
    BY <1>13 DEF Pick, In
  <2>2. \/ \E p : /\ p \notin assigned /\ assigned' = assigned \cup {p}
                  /\ at' = [at EXCEPT ![s] = [pc |-> "picked", hold |-> {p}]]
        \/ /\ assigned' = assigned
           /\ at' = [at EXCEPT ![s] = [pc |-> "loop", hold |-> {}]]
    BY <1>13 DEF Pick, To
  <2>3. CASE assigned' = assigned /\ at' = [at EXCEPT ![s] = [pc |-> "loop", hold |-> {}]]
    <3>1. /\ \A t \in Session \ {s} : at'[t] = at[t]
          /\ at'[s].pc \notin {"picked", "suggested"}
      BY <2>3, <1>1
    <3> QED
      BY <2>1, <2>3, <3>1, <1>4
  <2> QED
    BY <2>1, <2>2, <2>3, <1>12
<1>14. ASSUME NEW s \in Session, NEW p \in Piece, Suggest(s, p) PROVE TakenInv'
  BY <1>14, <1>12 DEF Suggest, To, In
<1>15. ASSUME NEW s \in Session, Push(s) PROVE TakenInv'
  <2>1. /\ at[s].pc \in {"picked", "suggested"}
        /\ queue' = [queue EXCEPT ![s] = @ \cup at[s].hold]
        /\ \E pc \in {"fill", "loop"} : at' = [at EXCEPT ![s] = [pc |-> pc, hold |-> {}]]
        /\ UNCHANGED <<assigned, stored, late>>
    BY <1>15 DEF Push, To
  <2>2. \A t \in Session \ {s} : queue'[t] = queue[t] /\ at'[t] = at[t]
    BY <2>1, <1>1
  <2>3. queue'[s] = queue[s] \cup at[s].hold /\ at'[s].pc \in {"fill", "loop"}
    BY <2>1, <1>1
  <2>4. \A t \in Session : Mine(t)' = Mine(t)
    BY <2>1, <2>2, <2>3 DEF Mine
  <2>5. \A t \in Session : at'[t].pc \in {"picked", "suggested"}
                             => at'[t].hold \cap queue'[t] \subseteq Excused'
    BY <2>1, <2>2, <2>3, <1>2 DEF Excused
  <2> QED
    BY <2>1, <2>4, <2>5, KeepsTaken DEF Excused
<1> QED
  BY <1>3, <1>6, <1>7, <1>9, <1>10, <1>11, <1>13, <1>14, <1>15
  DEF PickNext, Inner

----------------------------------------------------------------------------
(* The theorems. *)

LEMMA InitTaken == ASSUME PickInit PROVE TakenInv
  BY DEF PickInit, TakenInv, Mine, Off

LEMMA TakenSafe == TakenInv => NoPieceStuck /\ OneEach
<1>1. TakenInv => NoPieceStuck
  BY DEF TakenInv, Mine, NoPieceStuck
<1>2. TakenInv => OneEach
  <2> SUFFICES ASSUME TakenInv, NEW s \in Session, NEW t \in Session, s # t
               PROVE  queue[s] \cap queue[t] \subseteq stored \cup late
    BY DEF OneEach
  <2>1. queue[s] \subseteq Mine(s) /\ queue[t] \subseteq Mine(t)
    BY DEF Mine
  <2> QED
    BY <2>1 DEF TakenInv
<1> QED
  BY <1>1, <1>2

LEMMA PickHolds ==
    ASSUME PickerAssumption PROVE PickSpec => [](Sound /\ TakenInv)
<1>1. PickInit => Sound /\ TakenInv
  BY InitSound, InitTaken
<1>2. Sound /\ TakenInv /\ [PickNext]_pickVars => (Sound /\ TakenInv)'
  BY NextSound, NextTaken
<1> QED
  BY <1>1, <1>2, PTL DEF PickSpec

(* Types; and no session ever asks for more blocks than its pipeline holds *)
(* or queues more than MAX_QUEUED_PIECES, though it looks at its queue and *)
(* pushes to it in different regions.                                      *)
THEOREM PickTypeCorrect == ASSUME PickerAssumption PROVE PickSpec => []PickTypes
<1>1. Sound => PickTypes
  BY DEF Sound, TypeInv, PickTypes, CtxRec, PeerRec
<1> QED
  BY <1>1, PickHolds, PTL

(* A piece in `assigned` is always queued or in the hand of a session, so  *)
(* that somebody will download it or give it back (release_piece,          *)
(* release_all_pieces).                                                    *)
THEOREM NoneStuck == ASSUME PickerAssumption PROVE PickSpec => []NoPieceStuck
  BY TakenSafe, PickHolds, PTL

(* Two sessions never have the same missing piece in their queues, but for *)
(* one that an evicted session gave back a second time (assign_piece).     *)
THEOREM NoneTwice == ASSUME PickerAssumption PROVE PickSpec => []OneEach
  BY TakenSafe, PickHolds, PTL

----------------------------------------------------------------------------
(* The table of the sessions. *)

CellRec == [pc : {"free", "dial", "enter", "run", "end", "over", "adopt",
                  "adopted", "wait"},
            addr : Addr \cup {NoCell}, kind : {"out", "in", "hole"},
            kill : BOOLEAN, failed : BOOLEAN, evicted : BOOLEAN,
            shadowed : BOOLEAN, host : Cell \cup {NoCell}]

(* The stages in which a session has an entry, or has had one. *)
Held == {"dial", "run", "end", "adopted", "wait"}

(* A session that must be listed; one that dials is as well, since it runs *)
(* without another look at the table.                                      *)
Live(c) == cell[c].pc \in {"dial", "run"} /\ ~cell[c].kill /\ ~cell[c].shadowed

ListedInv ==
    /\ \A c \in Cell : Live(c) => table[cell[c].addr] = c
    /\ \A a \in Addr : table[a] # NoCell
         => cell[table[a]].addr = a /\ cell[table[a]].pc \in Held

AddrInv == \A c \in Cell : ~IsFree(c) => cell[c].addr \in Addr

(* Only an incoming session has a task that waits for it. *)
HostInv ==
    /\ \A c \in Cell : cell[c].host # NoCell
         => /\ cell[c].kind = "in" /\ cell[c].pc \in {"enter", "run", "end"}
            /\ cell[cell[c].host].pc = "wait"
    /\ \A c, d \in Cell : cell[c].host = cell[d].host /\ cell[c].host # NoCell => c = d
    /\ \A c \in Cell : cell[c].pc = "wait" => \E d \in Cell : cell[d].host = c

(* Who ends an outgoing session, killed, and who waits. *)
KindInv ==
    \A c \in Cell :
        /\ cell[c].pc \in {"dial", "over"} => cell[c].kind = "out"
        /\ cell[c].pc = "over" => cell[c].kill
        /\ cell[c].pc \in {"adopt", "adopted", "wait"} => cell[c].kind = "hole"

CoreInv ==
    /\ table \in [Addr -> Cell \cup {NoCell}]
    /\ cell \in [Cell -> CellRec]
    /\ ListedInv /\ AddrInv /\ HostInv /\ KindInv

(* Candidates, bans and counters, which do not look at the sessions. *)
Rest ==
    /\ pending \subseteq Addr /\ banning \subseteq banned /\ banned \subseteq Addr
    /\ Cardinality(pending) <= Room
    /\ fails \in [Addr -> 0..(MaxDials + 1)] /\ NeverRetried
    /\ punch \in [Addr -> [busy : BOOLEAN, tries : 0..MaxPunch]]

----------------------------------------------------------------------------
(* The sessions and their table. *)

LEMMA InitCore == ASSUME PeersAssumption, PeersInit PROVE CoreInv
<1>1. Free \in CellRec /\ Free.pc = "free" /\ Free.host = NoCell
  BY DEF Free, CellRec
<1>2. \A c \in Cell : cell[c].pc = "free" /\ cell[c].host = NoCell
  BY <1>1 DEF PeersInit
<1>3. /\ table \in [Addr -> Cell \cup {NoCell}] /\ cell \in [Cell -> CellRec]
      /\ \A a \in Addr : table[a] = NoCell
  BY <1>1 DEF PeersInit
<1> QED
  BY <1>2, <1>3 DEF CoreInv, ListedInv, Live, AddrInv, IsFree, HostInv, KindInv

(* A step that changes one session and leaves its entry, if it has one.    *)
LEMMA OneChanges ==
    ASSUME PeersAssumption, CoreInv, NEW c \in Cell, NEW r \in CellRec,
           cell' = [cell EXCEPT ![c] = r], table' = table,
           r.pc # "free" => r.addr \in Addr,
           r.host = cell[c].host,
           r.host # NoCell => r.kind = "in" /\ r.pc \in {"enter", "run", "end"},
           cell[c].pc # "wait", r.pc # "wait",
           r.pc # "over", r.pc = "dial" => r.kind = "out",
           r.pc \in {"adopt", "adopted"} => r.kind = "hole",
           \/ \A a \in Addr : table[a] # c
           \/ r.pc \in Held /\ r.addr = cell[c].addr,
           \/ r.pc \notin {"dial", "run"}
           \/ r.kill \/ r.shadowed
           \/ Live(c) /\ r.addr = cell[c].addr
    PROVE  CoreInv'
<1> USE DEF CoreInv
<1>1. /\ cell' \in [Cell -> CellRec] /\ cell'[c] = r
      /\ \A d \in Cell \ {c} : cell'[d] = cell[d]
  OBVIOUS
<1>2. ListedInv'
  BY <1>1 DEF ListedInv, Live
<1>3. AddrInv'
  BY <1>1 DEF AddrInv, IsFree
<1>4. HostInv'
  <2>1. \A d \in Cell : cell'[d].host = cell[d].host
    BY <1>1
  <2>2. \A d \in Cell : cell[d].pc = "wait" <=> cell'[d].pc = "wait"
    BY <1>1
  <2>3. \A d \in Cell : cell[d].host \in Cell \cup {NoCell}
    BY DEF CellRec
  <2>4. \A d \in Cell : cell'[d].host # NoCell
          => cell'[d].kind = "in" /\ cell'[d].pc \in {"enter", "run", "end"}
    BY <1>1, <2>1 DEF HostInv
  <2> QED
    BY <2>1, <2>2, <2>3, <2>4 DEF HostInv
<1>5. KindInv'
  BY <1>1 DEF KindInv
<1> QED
  BY <1>1, <1>2, <1>3, <1>4, <1>5

(* A session is entered in the table; the one that was there is shadowed.  *)
LEMMA Registers ==
    ASSUME PeersAssumption, CoreInv, NEW c \in Cell, NEW a \in Addr,
           NEW kind \in {"out", "in", "hole"}, NEW pc \in {"dial", "run", "adopted"},
           NEW host, host = cell[c].host, Register(c, a, kind, pc, host),
           \A x \in Addr : table[x] # c,
           cell[c].pc # "wait",
           host # NoCell => kind = "in" /\ pc = "run",
           pc = "dial" => kind = "out", pc = "adopted" => kind = "hole"
    PROVE  CoreInv'
<1> DEFINE r == [Free EXCEPT !.pc = pc, !.addr = a, !.kind = kind, !.host = host]
<1>1. r \in CellRec
  BY DEF Free, CellRec, CoreInv
<1>2. /\ r.pc = pc /\ r.addr = a /\ r.kind = kind /\ r.host = host
      /\ ~r.kill /\ ~r.shadowed
  BY DEF Free
<1>3. /\ table' = [table EXCEPT ![a] = c]
      /\ cell' = Registered([cell EXCEPT ![c] = r], c, a)
  BY DEF Register
<1> HIDE DEF r
<1>4. /\ cell' \in [Cell -> CellRec] /\ cell'[c] = r
      /\ \A d \in Cell \ {c} :
           cell'[d] = IF table[a] = d THEN [cell[d] EXCEPT !.shadowed = TRUE] ELSE cell[d]
  BY <1>1, <1>3 DEF CoreInv, CellRec, Registered
<1>5. /\ table' \in [Addr -> Cell \cup {NoCell}] /\ table'[a] = c
      /\ \A x \in Addr \ {a} : table'[x] = table[x]
  BY <1>3 DEF CoreInv
<1>6. \A d \in Cell \ {c} :
        /\ cell'[d].pc = cell[d].pc /\ cell'[d].addr = cell[d].addr
        /\ cell'[d].kind = cell[d].kind /\ cell'[d].kill = cell[d].kill
        /\ cell'[d].host = cell[d].host
        /\ ~cell'[d].shadowed => ~cell[d].shadowed /\ table[a] # d
  BY <1>4 DEF CoreInv, CellRec
<1>7. ListedInv'
  <2>1. ASSUME NEW d \in Cell, Live(d)' PROVE table'[cell'[d].addr] = d
    <3>1. CASE d = c
      BY <3>1, <1>2, <1>4, <1>5
    <3>2. CASE d # c
      <4>1. Live(d) /\ table[a] # d
        BY <3>2, <2>1, <1>6 DEF Live
      <4>2. table[cell[d].addr] = d /\ cell[d].addr \in Addr
        BY <4>1 DEF CoreInv, ListedInv, AddrInv, IsFree, Live
      <4> QED
        BY <3>2, <4>1, <4>2, <1>5, <1>6
    <3> QED
      BY <3>1, <3>2
  <2>2. ASSUME NEW x \in Addr, table'[x] # NoCell
        PROVE  cell'[table'[x]].addr = x /\ cell'[table'[x]].pc \in Held
    <3>1. CASE x = a
      BY <3>1, <1>2, <1>4, <1>5 DEF Held
    <3>2. CASE x # a
      <4>1. table[x] \in Cell \ {c} /\ table'[x] = table[x]
        BY <3>2, <2>2, <1>5 DEF CoreInv
      <4> QED
        BY <4>1, <2>2, <1>6 DEF CoreInv, ListedInv
    <3> QED
      BY <3>1, <3>2
  <2> QED
    BY <2>1, <2>2 DEF ListedInv
<1>8. AddrInv'
  BY <1>2, <1>4, <1>6 DEF AddrInv, IsFree, CoreInv
<1>9. HostInv'
  <2>1. \A d \in Cell : cell'[d].host = cell[d].host
    BY <1>2, <1>4, <1>6
  <2>2. \A d \in Cell : cell[d].pc = "wait" <=> cell'[d].pc = "wait"
    BY <1>2, <1>4, <1>6
  <2>3. \A d \in Cell : cell[d].host \in Cell \cup {NoCell}
    BY DEF CellRec, CoreInv
  <2>4. \A d \in Cell : cell'[d].host # NoCell
          => cell'[d].kind = "in" /\ cell'[d].pc \in {"enter", "run", "end"}
    BY <1>2, <1>4, <1>6, <2>1 DEF HostInv, CoreInv
  <2> QED
    BY <2>1, <2>2, <2>3, <2>4 DEF HostInv, CoreInv
<1>10. KindInv'
  BY <1>2, <1>4, <1>6 DEF KindInv, CoreInv
<1> QED
  BY <1>4, <1>5, <1>7, <1>8, <1>9, <1>10 DEF CoreInv

(* What is known of a session with an entry, and of one without. *)
LEMMA Entry ==
    ASSUME PeersAssumption, CoreInv, NEW c \in Cell
    PROVE  /\ cell[c] \in CellRec /\ NoCell \notin Cell
           /\ cell[c].pc \notin Held => \A a \in Addr : table[a] # c
           /\ cell[c].pc \notin {"enter", "run", "end"} => cell[c].host = NoCell
           /\ \A a \in Addr : table[a] = c => cell[c].addr = a
           /\ cell[c].pc # "free" => cell[c].addr \in Addr
<1>1. NoCell \notin Cell
  BY DEF PeersAssumption
<1> QED
  BY <1>1 DEF CoreInv, ListedInv, HostInv, AddrInv, IsFree

(* unregister_peer drops the entry of this session and no other. *)
LEMMA Unregisters ==
    ASSUME PeersAssumption, CoreInv, NEW c \in Cell, table' = Unregistered(c)
    PROVE  /\ table' \in [Addr -> Cell \cup {NoCell}]
           /\ \A a \in Addr : table'[a] = IF table[a] = c THEN NoCell ELSE table[a]
<1>1. \A a \in Addr : table[a] = c => a = cell[c].addr
  BY Entry
<1>2. CASE table[cell[c].addr] = c
  <2>1. table' = [table EXCEPT ![cell[c].addr] = NoCell]
    BY <1>2 DEF Unregistered
  <2> QED
    BY <1>1, <1>2, <2>1 DEF CoreInv
<1>3. CASE table[cell[c].addr] # c
  <2>1. table' = table
    BY <1>3 DEF Unregistered
  <2>2. \A a \in Addr : table[a] # c
    BY <1>1, <1>3
  <2> QED
    BY <2>1, <2>2 DEF CoreInv
<1> QED
  BY <1>2, <1>3

LEMMA OverCore == ASSUME PeersAssumption, CoreInv, NEW c \in Cell, Over(c) PROVE CoreInv'
<1> DEFINE h == cell[c].host
           r == IF cell[c].kind = "out" THEN [cell[c] EXCEPT !.pc = "over", !.kill = TRUE]
                ELSE Free
<1>1. /\ cell[c] \in CellRec /\ NoCell \notin Cell /\ Free \in CellRec
      /\ cell[c].pc = "end" /\ h \in Cell \cup {NoCell} /\ h # c
      /\ h # NoCell => cell[h].pc = "wait"
  BY Entry DEF Over, At, CoreInv, HostInv, CellRec, Free
<1>2. \/ cell[c].kind = "out" /\ r = [cell[c] EXCEPT !.pc = "over", !.kill = TRUE]
      \/ r = Free
  OBVIOUS
<1>3. r.pc \in {"over", "free"} /\ r.host = NoCell /\ r \in CellRec
  <2>1. cell[c].kind = "out" => h = NoCell
    BY DEF CoreInv, HostInv
  <2> QED
    BY <1>1, <1>2, <2>1 DEF CellRec, Free
<1>4. r.pc = "over" => r.kind = "out" /\ r.addr = cell[c].addr /\ r.kill
  BY <1>1, <1>2 DEF CellRec, Free
<1>5. /\ cell' = [d \in Cell |-> IF d = c THEN r
                                 ELSE IF d = h THEN [cell[d] EXCEPT !.pc = "end"] ELSE cell[d]]
      /\ table' = Unregistered(c)
  BY DEF Over
<1> HIDE DEF r
<1>6. /\ cell' \in [Cell -> CellRec] /\ cell'[c] = r
      /\ \A d \in Cell \ {c} :
           cell'[d] = IF d = h THEN [cell[d] EXCEPT !.pc = "end"] ELSE cell[d]
  BY <1>3, <1>5 DEF CoreInv, CellRec
<1>7. \A d \in Cell \ {c} :
        /\ cell'[d].pc = IF d = h THEN "end" ELSE cell[d].pc
        /\ cell'[d].addr = cell[d].addr /\ cell'[d].kind = cell[d].kind
        /\ cell'[d].host = cell[d].host /\ cell'[d].kill = cell[d].kill
        /\ cell'[d].shadowed = cell[d].shadowed
  BY <1>6 DEF CoreInv, CellRec
<1>8. /\ table' \in [Addr -> Cell \cup {NoCell}]
      /\ \A a \in Addr : table'[a] = IF table[a] = c THEN NoCell ELSE table[a]
  BY <1>5, Unregisters
<1>9. ListedInv'
  <2>1. ASSUME NEW d \in Cell, Live(d)' PROVE table'[cell'[d].addr] = d
    <3>1. d # c /\ Live(d)
      BY <2>1, <1>3, <1>6, <1>7 DEF Live
    <3>2. table[cell[d].addr] = d /\ cell[d].addr \in Addr
      BY <3>1, Entry DEF CoreInv, ListedInv, Live
    <3> QED
      BY <3>1, <3>2, <1>7, <1>8
  <2>2. ASSUME NEW x \in Addr, table'[x] # NoCell
        PROVE  cell'[table'[x]].addr = x /\ cell'[table'[x]].pc \in Held
    <3>1. table'[x] = table[x] /\ table[x] \in Cell \ {c}
      BY <2>2, <1>8 DEF CoreInv
    <3> QED
      BY <3>1, <2>2, <1>7 DEF CoreInv, ListedInv, Held
  <2> QED
    BY <2>1, <2>2 DEF ListedInv
<1>10. AddrInv'
  <2>1. ASSUME NEW d \in Cell, cell'[d].pc # "free" PROVE cell'[d].addr \in Addr
    <3>1. CASE d = c
      BY <3>1, <2>1, <1>3, <1>4, <1>6, <1>1, Entry
    <3>2. CASE d # c
      <4>1. cell[d].pc # "free"
        BY <3>2, <2>1, <1>1, <1>7
      <4> QED
        BY <4>1, <3>2, <1>7, Entry
    <3> QED
      BY <3>1, <3>2
  <2> QED
    BY <2>1 DEF AddrInv, IsFree
<1>11. HostInv'
  <2>1. \A d \in Cell : cell'[d].host = IF d = c THEN NoCell ELSE cell[d].host
    BY <1>3, <1>6, <1>7
  <2>2. \A d \in Cell : cell'[d].pc = "wait" <=> cell[d].pc = "wait" /\ d # h
    BY <1>1, <1>3, <1>6, <1>7
  <2>3. ASSUME NEW d \in Cell, cell'[d].host # NoCell
        PROVE  /\ cell'[d].kind = "in" /\ cell'[d].pc \in {"enter", "run", "end"}
               /\ cell'[cell'[d].host].pc = "wait"
    <3>1. d # c /\ cell[d].host = cell'[d].host /\ cell[d].host \in Cell
      BY <2>1, <2>3, Entry DEF CellRec
    <3>2. cell[d].host # h /\ cell[cell[d].host].pc = "wait"
          /\ cell[d].kind = "in" /\ cell[d].pc \in {"enter", "run", "end"}
      BY <3>1, <2>3 DEF CoreInv, HostInv
    <3> QED
      BY <3>1, <3>2, <2>2, <1>7
  <2>4. ASSUME NEW d \in Cell, cell'[d].pc = "wait" PROVE \E e \in Cell : cell'[e].host = d
    <3>1. PICK e \in Cell : cell[e].host = d
      BY <2>2, <2>4 DEF CoreInv, HostInv
    <3>2. e # c
      BY <3>1, <2>2, <2>4
    <3> QED
      BY <3>1, <3>2, <2>1
  <2>5. \A d, e \in Cell : cell'[d].host = cell'[e].host /\ cell'[d].host # NoCell => d = e
    BY <2>1 DEF CoreInv, HostInv
  <2> QED
    BY <2>3, <2>4, <2>5 DEF HostInv
<1>12. KindInv'
  BY <1>3, <1>4, <1>6, <1>7 DEF KindInv, CoreInv
<1> QED
  BY <1>6, <1>8, <1>9, <1>10, <1>11, <1>12 DEF CoreInv

(* Sessions are told to end, and may lose their entries: evictions, bans.  *)
LEMMA KilledCore ==
    ASSUME PeersAssumption, CoreInv, NEW K \in SUBSET Cell,
           cell' = [d \in Cell |-> IF d \in K THEN [cell[d] EXCEPT !.kill = TRUE, !.evicted = TRUE]
                                   ELSE cell[d]],
           table' \in [Addr -> Cell \cup {NoCell}],
           \A a \in Addr : table'[a] = table[a] \/ (table[a] \in K /\ table'[a] = NoCell)
    PROVE  CoreInv'
<1>1. /\ cell' \in [Cell -> CellRec]
      /\ \A d \in Cell :
           /\ cell'[d].pc = cell[d].pc /\ cell'[d].addr = cell[d].addr
           /\ cell'[d].kind = cell[d].kind /\ cell'[d].host = cell[d].host
           /\ cell'[d].shadowed = cell[d].shadowed
           /\ cell'[d].kill <=> cell[d].kill \/ d \in K
  <2> DEFINE Killed(r) == [r EXCEPT !.kill = TRUE, !.evicted = TRUE]
  <2>1. \A r \in CellRec :
          /\ Killed(r) \in CellRec /\ Killed(r).pc = r.pc /\ Killed(r).addr = r.addr
          /\ Killed(r).kind = r.kind /\ Killed(r).host = r.host
          /\ Killed(r).shadowed = r.shadowed /\ Killed(r).kill = TRUE
    BY DEF CellRec
  <2>2. \A d \in Cell : cell[d] \in CellRec
    BY DEF CoreInv
  <2>3. cell' = [d \in Cell |-> IF d \in K THEN Killed(cell[d]) ELSE cell[d]]
    OBVIOUS
  <2> HIDE DEF Killed
  <2> QED
    BY ONLY <2>1, <2>2, <2>3
<1>2. HostInv /\ ListedInv /\ \A d \in Cell : cell[d].host \in Cell \cup {NoCell}
  BY DEF CoreInv, CellRec
<1>3. ListedInv'
  <2>1. ASSUME NEW d \in Cell, Live(d)' PROVE table'[cell'[d].addr] = d
    <3>1. Live(d) /\ d \notin K
      BY <2>1, <1>1 DEF Live
    <3>2. table[cell[d].addr] = d /\ cell[d].addr \in Addr
      BY <3>1, Entry DEF CoreInv, ListedInv, Live
    <3> QED
      BY <3>1, <3>2, <1>1
  <2>2. ASSUME NEW x \in Addr, table'[x] # NoCell
        PROVE  cell'[table'[x]].addr = x /\ cell'[table'[x]].pc \in Held
    <3>1. table'[x] = table[x] /\ table[x] \in Cell /\ table[x] # NoCell
      BY <2>2 DEF CoreInv
    <3>2. cell[table[x]].addr = x /\ cell[table[x]].pc \in Held
      BY <3>1 DEF CoreInv, ListedInv
    <3> QED
      BY ONLY <3>1, <3>2, <1>1
  <2> QED
    BY <2>1, <2>2 DEF ListedInv
<1>4. AddrInv'
  BY <1>1 DEF CoreInv, AddrInv, IsFree
<1>5. HostInv'
  <2>2. \A d \in Cell : cell'[d].host # NoCell
          => /\ cell'[d].kind = "in" /\ cell'[d].pc \in {"enter", "run", "end"}
             /\ cell'[cell'[d].host].pc = "wait"
    BY ONLY <1>1, <1>2 DEF HostInv
  <2>3. \A d \in Cell : cell'[d].pc = "wait" => \E e \in Cell : cell'[e].host = d
    BY ONLY <1>1, <1>2 DEF HostInv
  <2>4. \A d, e \in Cell : cell'[d].host = cell'[e].host /\ cell'[d].host # NoCell => d = e
    BY ONLY <1>1, <1>2 DEF HostInv
  <2> QED
    BY <2>2, <2>3, <2>4 DEF HostInv
<1>6. KindInv'
  BY <1>1 DEF CoreInv, KindInv
<1> QED
  BY <1>1, <1>3, <1>4, <1>5, <1>6 DEF CoreInv

LEMMA EvictCore == ASSUME PeersAssumption, CoreInv, NEW c \in Cell, EvictPeer(c) PROVE CoreInv'
<1>1. /\ table' \in [Addr -> Cell \cup {NoCell}]
      /\ \A a \in Addr : table'[a] = IF table[a] = c THEN NoCell ELSE table[a]
  BY Unregisters DEF EvictPeer
<1>2. cell' = [d \in Cell |-> IF d \in {c} THEN [cell[d] EXCEPT !.kill = TRUE, !.evicted = TRUE]
                              ELSE cell[d]]
  BY DEF EvictPeer, CoreInv, CellRec
<1>3. \A a \in Addr : table'[a] = table[a] \/ (table[a] \in {c} /\ table'[a] = NoCell)
  BY <1>1
<1> QED
  BY <1>1, <1>2, <1>3, KilledCore

LEMMA BanKillsCore ==
    ASSUME PeersAssumption, CoreInv, NEW a \in Addr, BanKills(a) PROVE CoreInv'
<1> DEFINE K == {c \in Cell : table[a] = c}
<1>1. cell' = [d \in Cell |-> IF d \in K THEN [cell[d] EXCEPT !.kill = TRUE, !.evicted = TRUE]
                              ELSE cell[d]]
  BY DEF BanKills
<1>2. table' = table /\ K \in SUBSET Cell
  BY DEF BanKills
<1> HIDE DEF K
<1>3. table' \in [Addr -> Cell \cup {NoCell}] /\ \A x \in Addr : table'[x] = table[x]
  BY <1>2 DEF CoreInv
<1> QED
  BY <1>1, <1>2, <1>3, KilledCore

(* A session begins, or goes on where it is, or is over. *)
LEMMA GoesOnCore ==
    ASSUME PeersAssumption, CoreInv, NEW c \in Cell,
           DialFails(c) \/ DialWorks(c) \/ SessionEnds(c)
    PROVE  CoreInv'
<1>1. cell[c] \in CellRec /\ cell[c].pc \in {"dial", "run"} /\ cell[c].addr \in Addr
  BY Entry DEF DialFails, DialWorks, SessionEnds, At
<1>2. \E pc \in {"run", "end"}, failed \in BOOLEAN :
        /\ cell' = [cell EXCEPT ![c] = [cell[c] EXCEPT !.pc = pc, !.failed = failed]]
        /\ pc = "run" => cell[c].pc = "dial"
        /\ table' = table
  <2>1. CASE DialFails(c) \/ SessionEnds(c)
    <3>1. /\ cell' = [cell EXCEPT ![c] = [cell[c] EXCEPT !.pc = "end", !.failed = TRUE]]
          /\ table' = table
      BY <2>1, <1>1 DEF DialFails, SessionEnds, CoreInv, CellRec
    <3> QED
      BY <3>1
  <2>2. CASE DialWorks(c)
    <3> DEFINE pc == IF halted \/ cell[c].addr \in banned THEN "end" ELSE "run"
               failed == ~halted /\ cell[c].addr \in banned
    <3>1. /\ cell' = [cell EXCEPT ![c] = [cell[c] EXCEPT !.pc = pc, !.failed = failed]]
          /\ table' = table /\ cell[c].pc = "dial"
      BY <2>2, <1>1 DEF DialWorks, CoreInv, CellRec, At
    <3>2. pc \in {"run", "end"} /\ failed \in BOOLEAN
      OBVIOUS
    <3> QED
      BY <3>1, <3>2
  <2> QED
    BY <2>1, <2>2
<1>3. PICK pc \in {"run", "end"}, failed \in BOOLEAN :
        /\ cell' = [cell EXCEPT ![c] = [cell[c] EXCEPT !.pc = pc, !.failed = failed]]
        /\ pc = "run" => cell[c].pc = "dial"
        /\ table' = table
  BY <1>2
<1> DEFINE r == [cell[c] EXCEPT !.pc = pc, !.failed = failed]
<1>4. /\ r \in CellRec /\ r.pc = pc /\ r.addr = cell[c].addr /\ r.kind = cell[c].kind
      /\ r.host = cell[c].host /\ r.kill = cell[c].kill /\ r.shadowed = cell[c].shadowed
  BY <1>1 DEF CellRec
<1>5. cell' = [cell EXCEPT ![c] = r]
  BY <1>3
<1> HIDE DEF r
<1>6. /\ r.host # NoCell => r.kind = "in" /\ r.pc \in {"enter", "run", "end"}
      /\ r.pc \in Held
      /\ \/ r.pc \notin {"dial", "run"}
         \/ r.kill \/ r.shadowed
         \/ Live(c) /\ r.addr = cell[c].addr
  BY <1>1, <1>3, <1>4 DEF CoreInv, HostInv, Held, Live
<1> QED
  BY <1>1, <1>3, <1>4, <1>5, <1>6, OneChanges

LEMMA StartsCore ==
    ASSUME PeersAssumption, CoreInv, NEW c \in Cell, NEW a \in Addr,
           Accept(c, a) \/ PunchWorks(a, c)
    PROVE  CoreInv'
<1>1. PICK pc \in {"enter", "adopt"}, kind \in {"in", "hole"} :
        /\ cell' = [cell EXCEPT ![c] = [Free EXCEPT !.pc = pc, !.addr = a, !.kind = kind]]
        /\ pc = "adopt" => kind = "hole"
        /\ cell[c].pc = "free" /\ table' = table
  BY DEF Accept, PunchWorks, IsFree
<1> DEFINE r == [Free EXCEPT !.pc = pc, !.addr = a, !.kind = kind]
<1>2. /\ r \in CellRec /\ r.pc = pc /\ r.addr = a /\ r.kind = kind /\ r.host = NoCell
  BY DEF CellRec, Free
<1>3. cell' = [cell EXCEPT ![c] = r]
  BY <1>1
<1> HIDE DEF r
<1>4. cell[c].host = NoCell /\ \A x \in Addr : table[x] # c
  BY <1>1, Entry DEF Held
<1> QED
  BY <1>1, <1>2, <1>3, <1>4, OneChanges

LEMMA RetryCore == ASSUME PeersAssumption, CoreInv, NEW c \in Cell, Retry(c) PROVE CoreInv'
<1>1. cell[c].pc = "over" /\ cell' = [cell EXCEPT ![c] = Free] /\ table' = table
  BY DEF Retry, At
<1>2. Free \in CellRec /\ Free.pc = "free" /\ Free.host = NoCell
  BY DEF Free, CellRec
<1>3. cell[c].host = NoCell /\ \A x \in Addr : table[x] # c
  BY <1>1, Entry DEF Held
<1> QED
  BY <1>1, <1>2, <1>3, OneChanges

(* The steps that register a session. *)
LEMMA RegistersCore ==
    ASSUME PeersAssumption, CoreInv, NEW c \in Cell,
           Enter(c) \/ Adopt(c) \/ \E a \in Addr : Connect(c, a)
    PROVE  CoreInv'
<1>1. CASE Enter(c)
  <2>1. cell[c].pc = "enter" /\ Register(c, cell[c].addr, "in", "run", cell[c].host)
    BY <1>1 DEF Enter, At
  <2>2. cell[c].addr \in Addr /\ \A x \in Addr : table[x] # c
    BY <2>1, Entry DEF Held
  <2> QED
    BY <2>1, <2>2, Registers
<1>2. CASE Adopt(c)
  <2>1. cell[c].pc = "adopt" /\ Register(c, cell[c].addr, "hole", "adopted", NoCell)
    BY <1>2 DEF Adopt, At
  <2>2. cell[c].addr \in Addr /\ cell[c].host = NoCell /\ \A x \in Addr : table[x] # c
    BY <2>1, Entry DEF Held
  <2> QED
    BY <2>1, <2>2, Registers
<1>3. CASE \E a \in Addr : Connect(c, a)
  <2>1. PICK a \in Addr : Connect(c, a)
    BY <1>3
  <2>2. cell[c].pc = "free" /\ Register(c, a, "out", "dial", NoCell)
    BY <2>1 DEF Connect, IsFree
  <2>3. cell[c].host = NoCell /\ \A x \in Addr : table[x] # c
    BY <2>2, Entry DEF Held
  <2> QED
    BY <2>2, <2>3, Registers
<1> QED
  BY <1>1, <1>2, <1>3

(* A punched connection: turned away, or run as a session of its own.      *)
LEMMA AdoptRunsCore ==
    ASSUME PeersAssumption, CoreInv, NEW c \in Cell, NEW d \in Cell, AdoptRuns(c, d)
    PROVE  CoreInv'
<1>1. /\ cell[c].pc = "adopted" /\ cell[c] \in CellRec /\ cell[c].addr \in Addr
      /\ cell[c].host = NoCell /\ cell[c].kind = "hole" /\ table' = table
  BY Entry DEF AdoptRuns, At, CoreInv, KindInv
<1>2. CASE cell[c].addr \in banned
  <2> DEFINE r == [cell[c] EXCEPT !.pc = "end"]
  <2>1. cell' = [cell EXCEPT ![c] = r]
    BY <1>1, <1>2 DEF AdoptRuns, Goes, CoreInv, CellRec
  <2>2. r \in CellRec /\ r.pc = "end" /\ r.host = NoCell /\ r.addr = cell[c].addr
    BY <1>1 DEF CellRec
  <2> HIDE DEF r
  <2> QED
    BY <1>1, <2>1, <2>2, OneChanges DEF Held
<1>3. CASE cell[c].addr \notin banned
  <2> DEFINE w == [cell[c] EXCEPT !.pc = "wait"]
             e == [Free EXCEPT !.pc = "enter", !.addr = cell[c].addr, !.kind = "in",
                               !.host = c]
  <2>1. cell[d].pc = "free" /\ cell[d].host = NoCell /\ \A x \in Addr : table[x] # d
    BY <1>1, <1>3, Entry DEF AdoptRuns, IsFree, Held
  <2>2. cell' = [[cell EXCEPT ![c] = w] EXCEPT ![d] = e]
    BY <1>1, <1>3, <2>1 DEF AdoptRuns, CoreInv, CellRec
  <2>3. /\ w \in CellRec /\ w.pc = "wait" /\ w.addr = cell[c].addr /\ w.kind = "hole"
        /\ w.host = NoCell
    BY <1>1 DEF CellRec
  <2>4. /\ e \in CellRec /\ e.pc = "enter" /\ e.addr = cell[c].addr /\ e.kind = "in"
        /\ e.host = c
    BY <1>1 DEF CellRec, Free
  <2> HIDE DEF w, e
  <2>5. c # d
    BY <1>1, <2>1
  <2>6. /\ cell' \in [Cell -> CellRec] /\ cell'[c] = w /\ cell'[d] = e
        /\ \A x \in Cell \ {c, d} : cell'[x] = cell[x]
    BY <2>2, <2>3, <2>4, <2>5 DEF CoreInv
  <2>7. /\ ListedInv /\ HostInv /\ AddrInv /\ KindInv /\ NoCell \notin Cell
        /\ table \in [Addr -> Cell \cup {NoCell}]
        /\ \A x \in Cell : cell[x].host \in Cell \cup {NoCell}
    BY Entry DEF CoreInv, CellRec
  <2>8. ListedInv'
    <3>1. ASSUME NEW x \in Cell, Live(x)' PROVE table[cell'[x].addr] = x
      <4>1. x \notin {c, d}
        BY <3>1, <2>3, <2>4, <2>6 DEF Live
      <4> QED
        BY <4>1, <3>1, <2>6, <2>7 DEF Live, ListedInv
    <3>2. ASSUME NEW x \in Addr, table[x] # NoCell
          PROVE  cell'[table[x]].addr = x /\ cell'[table[x]].pc \in Held
      <4>1. table[x] \in Cell /\ table[x] # d
        BY <3>2, <2>1, <2>7
      <4>2. cell[table[x]].addr = x /\ cell[table[x]].pc \in Held
        BY <3>2, <2>7 DEF ListedInv
      <4>3. CASE table[x] = c
        BY <4>2, <4>3, <2>3, <2>6 DEF Held
      <4>4. CASE table[x] # c
        BY <4>1, <4>2, <4>4, <2>6
      <4> QED
        BY <4>3, <4>4
    <3> QED
      BY <3>1, <3>2, <1>1 DEF ListedInv
  <2>9. AddrInv'
    BY ONLY <1>1, <2>3, <2>4, <2>6, <2>7 DEF AddrInv, IsFree
  <2>10. HostInv'
    <3>1. \A x \in Cell : cell'[x].host = IF x = d THEN c ELSE cell[x].host
      BY <1>1, <2>3, <2>4, <2>6
    <3>2. \A x \in Cell : cell'[x].pc = "wait" <=> x = c \/ cell[x].pc = "wait"
      BY <1>1, <2>1, <2>3, <2>4, <2>5, <2>6
    <3>3. \A x \in Cell : cell[x].host # c
      BY <1>1, <2>7 DEF HostInv
    <3>4. ASSUME NEW x \in Cell, cell'[x].host # NoCell
          PROVE  /\ cell'[x].kind = "in" /\ cell'[x].pc \in {"enter", "run", "end"}
                 /\ cell'[cell'[x].host].pc = "wait"
      <4>1. CASE x = d
        BY <4>1, <2>3, <2>4, <2>6
      <4>2. CASE x # d
        <5>1. cell[x].host # NoCell /\ x # c /\ cell'[x] = cell[x]
          BY <4>2, <3>1, <3>4, <1>1, <2>6
        <5>2. /\ cell[x].kind = "in" /\ cell[x].pc \in {"enter", "run", "end"}
              /\ cell[cell[x].host].pc = "wait" /\ cell[x].host \in Cell
          BY <5>1, <2>7 DEF HostInv
        <5> QED
          BY <5>1, <5>2, <3>2
      <4> QED
        BY <4>1, <4>2
    <3>5. \A x, y \in Cell : cell'[x].host = cell'[y].host /\ cell'[x].host # NoCell => x = y
      BY ONLY <3>1, <3>3, <2>7 DEF HostInv
    <3>6. \A x \in Cell : cell'[x].pc = "wait" => \E y \in Cell : cell'[y].host = x
      <4>1. ASSUME NEW x \in Cell, cell'[x].pc = "wait"
            PROVE  \E y \in Cell : cell'[y].host = x
        <5>1. CASE x = c
          BY <5>1, <3>1
        <5>2. CASE x # c
          <6>1. PICK y \in Cell : cell[y].host = x
            BY <5>2, <4>1, <3>2, <2>7 DEF HostInv
          <6>2. y # d
            BY <6>1, <2>1, <2>7
          <6> QED
            BY <6>1, <6>2, <3>1
        <5> QED
          BY <5>1, <5>2
      <4> QED
        BY <4>1
    <3> QED
      BY <3>4, <3>5, <3>6 DEF HostInv
  <2>11. KindInv'
    BY ONLY <2>3, <2>4, <2>6, <2>7 DEF KindInv
  <2> QED
    BY <1>1, <2>6, <2>7, <2>8, <2>9, <2>10, <2>11 DEF CoreInv
<1> QED
  BY <1>2, <1>3

LEMMA NextCore == ASSUME PeersAssumption, CoreInv, [PeersNext]_peerVars PROVE CoreInv'
<1>1. CASE UNCHANGED <<table, cell>>
  BY <1>1 DEF CoreInv, ListedInv, Live, AddrInv, IsFree, HostInv, KindInv
<1>2. ASSUME NEW c \in Cell, SessionStep(c) \/ EvictPeer(c) PROVE CoreInv'
  <2>1. \/ DialFails(c) \/ DialWorks(c) \/ SessionEnds(c)
        \/ Enter(c) \/ Adopt(c) \/ Over(c) \/ Retry(c) \/ EvictPeer(c)
        \/ \E d \in Cell : AdoptRuns(c, d)
    BY <1>2 DEF SessionStep
  <2> QED
    BY <2>1, GoesOnCore, RegistersCore, OverCore, RetryCore, EvictCore, AdoptRunsCore
<1>3. ASSUME NEW c \in Cell, NEW a \in Addr, Connect(c, a) \/ Accept(c, a) \/ PunchWorks(a, c)
      PROVE  CoreInv'
  BY <1>3, RegistersCore, StartsCore
<1>4. ASSUME NEW a \in Addr, BanKills(a) PROVE CoreInv'
  BY <1>4, BanKillsCore
<1>5. ASSUME NEW a \in Addr,
             AddPeer(a) \/ Ban(a) \/ Unban(a) \/ Punch(a) \/ PunchFails(a)
      PROVE  UNCHANGED <<table, cell>>
  BY <1>5 DEF AddPeer, Ban, Unban, Punch, PunchFails
<1>6. Halt \/ UNCHANGED peerVars => UNCHANGED <<table, cell>>
  BY DEF Halt, peerVars
<1> QED
  BY <1>1, <1>2, <1>3, <1>4, <1>5, <1>6 DEF PeersNext

----------------------------------------------------------------------------
(* Candidates, bans and counters. *)

LEMMA Limits == ASSUME PeersAssumption
                PROVE  /\ Room \in Nat \ {0} /\ MaxDials \in Nat /\ MaxPunch \in Nat
                       /\ IsFiniteSet(Addr)
  BY DEF PeersAssumption

(* Fewer candidates are not too many, nor is one more while there is room. *)
LEMMA Candidates ==
    ASSUME PeersAssumption, Rest, NEW P,
           \/ P \subseteq pending
           \/ \E a \in Addr : P = pending \cup {a} /\ Cardinality(pending) < Room
    PROVE  P \subseteq Addr /\ Cardinality(P) <= Room
<1>1. IsFiniteSet(pending) /\ Cardinality(pending) \in Nat
  BY Limits, FS_Subset, FS_CardinalityType DEF Rest
<1>2. CASE P \subseteq pending
  <2>1. IsFiniteSet(P) /\ Cardinality(P) <= Cardinality(pending) /\ Cardinality(P) \in Nat
    BY <1>1, <1>2, FS_Subset, FS_CardinalityType
  <2> QED
    BY <2>1, <1>1, <1>2, Limits DEF Rest
<1>3. ASSUME NEW a \in Addr, P = pending \cup {a}, Cardinality(pending) < Room
      PROVE  P \subseteq Addr /\ Cardinality(P) <= Room
  <2>1. Cardinality(P) = Cardinality(pending) \/ Cardinality(P) = Cardinality(pending) + 1
    BY <1>1, <1>3, FS_AddElement
  <2> QED
    BY <2>1, <1>1, <1>3, Limits DEF Rest
<1> QED
  BY <1>2, <1>3

LEMMA InitRest == ASSUME PeersAssumption, PeersInit PROVE Rest
<1>1. Cardinality({}) = 0
  BY FS_EmptySet
<1> QED
  BY <1>1, Limits DEF PeersInit, Rest, NeverRetried

LEMMA NextRest == ASSUME PeersAssumption, CoreInv, Rest, [PeersNext]_peerVars PROVE Rest'
<1>1. CASE UNCHANGED <<pending, fails, banned, banning, punch>>
  BY <1>1 DEF Rest, NeverRetried
<1>2. ASSUME NEW a \in Addr, AddPeer(a) PROVE Rest'
  <2>1. pending' \subseteq Addr /\ Cardinality(pending') <= Room
    BY <1>2, Candidates DEF AddPeer
  <2> QED
    BY <2>1, <1>2, Limits DEF AddPeer, Rest, NeverRetried
<1>3. ASSUME NEW c \in Cell, NEW a \in Addr, Connect(c, a) PROVE Rest'
  <2>1. pending' \subseteq Addr /\ Cardinality(pending') <= Room
    BY <1>3, Candidates DEF Connect
  <2> QED
    BY <2>1, <1>3 DEF Connect, Rest, NeverRetried
<1>4. ASSUME NEW c \in Cell, Retry(c) PROVE UNCHANGED <<pending, fails, banned, banning, punch>>
  <2>1. cell[c].kill
    BY <1>4 DEF Retry, At, CoreInv, KindInv
  <2> QED
    BY <2>1, <1>4 DEF Retry
<1>5. ASSUME NEW a \in Addr, Ban(a) \/ Unban(a) PROVE Rest'
  BY <1>5 DEF Ban, Unban, Rest, NeverRetried
<1>6. ASSUME NEW a \in Addr, BanKills(a) PROVE Rest'
  <2>1. pending' \subseteq Addr /\ Cardinality(pending') <= Room
    BY <1>6, Candidates DEF BanKills
  <2> QED
    BY <2>1, <1>6 DEF BanKills, Rest, NeverRetried
<1>7. ASSUME NEW a \in Addr, Punch(a) \/ PunchFails(a) \/ \E c \in Cell : PunchWorks(a, c)
      PROVE  Rest'
  <2>1. /\ UNCHANGED <<pending, fails, banned, banning>>
        /\ \E n \in 0..MaxPunch, b \in BOOLEAN : punch' = [punch EXCEPT ![a] = [busy |-> b, tries |-> n]]
    <3>1. CASE Punch(a)
      <4>1. punch[a].tries + 1 \in 0..MaxPunch
        BY <3>1, Limits DEF Punch, Rest
      <4> QED
        BY <3>1, <4>1 DEF Punch
    <3>2. CASE PunchFails(a) \/ \E c \in Cell : PunchWorks(a, c)
      <4>1. punch[a].tries \in 0..MaxPunch
        BY DEF Rest
      <4>2. punch' = [punch EXCEPT ![a] = [busy |-> FALSE, tries |-> punch[a].tries]]
        BY <3>2 DEF PunchFails, PunchWorks, Rest
      <4> QED
        BY <3>2, <4>1, <4>2 DEF PunchFails, PunchWorks
    <3> QED
      BY <3>1, <3>2, <1>7
  <2> QED
    BY <2>1 DEF Rest, NeverRetried
<1>8. ASSUME NEW c \in Cell,
             \/ DialFails(c) \/ DialWorks(c) \/ Enter(c) \/ SessionEnds(c) \/ Over(c)
             \/ Adopt(c) \/ EvictPeer(c) \/ \E d \in Cell : AdoptRuns(c, d)
             \/ \E a \in Addr : Accept(c, a)
      PROVE  UNCHANGED <<pending, fails, banned, banning, punch>>
  BY <1>8 DEF DialFails, DialWorks, Enter, SessionEnds, Over, Adopt, EvictPeer, AdoptRuns, Accept
<1>9. Halt \/ UNCHANGED peerVars => UNCHANGED <<pending, fails, banned, banning, punch>>
  BY DEF Halt, peerVars
<1> QED
  BY <1>1, <1>2, <1>3, <1>4, <1>5, <1>6, <1>7, <1>8, <1>9 DEF PeersNext, SessionStep

----------------------------------------------------------------------------
(* The theorems. *)

LEMMA PeersHold == ASSUME PeersAssumption PROVE PeersSpec => [](CoreInv /\ Rest)
<1>1. PeersInit => CoreInv /\ Rest
  BY InitCore, InitRest
<1>2. CoreInv /\ Rest /\ [PeersNext]_peerVars => (CoreInv /\ Rest)'
  BY NextCore, NextRest
<1> QED
  BY <1>1, <1>2, PTL DEF PeersSpec

(* Types, with the limits on candidates, retries and punches: no address is *)
(* dialled or punched more often than the code allows.                      *)
THEOREM PeerTypeCorrect == ASSUME PeersAssumption PROVE PeersSpec => []PeersTypes
<1>1. CoreInv /\ Rest => PeersTypes
  BY DEF CoreInv, Rest, PeersTypes, CellRec
<1> QED
  BY <1>1, PeersHold, PTL

LEMMA EntriesOwned == CoreInv => SessionsListed
<1> SUFFICES ASSUME CoreInv PROVE SessionsListed
  OBVIOUS
<1>1. \A a \in Entries : a \in Addr /\ table[a] # NoCell
  BY DEF Entries
<1> QED
  BY <1>1 DEF CoreInv, ListedInv, Live, SessionsListed, At, Held

LEMMA HostsServed == ASSUME PeersAssumption, CoreInv PROVE HostsWait
<1>1. NoCell \notin Cell
  BY DEF PeersAssumption
<1> QED
  BY <1>1 DEF CoreInv, HostInv, HostsWait, At

(* unregister_peer and register_peer: the table has every session that runs *)
(* and is neither told to end nor replaced, and nothing without an owner.   *)
THEOREM AllListed == ASSUME PeersAssumption PROVE PeersSpec => []SessionsListed
  BY EntriesOwned, PeersHold, PTL

(* adopt_holepunched: whoever waits has a session of its own to wait for,   *)
(* and is found waiting when that is over.                                  *)
THEOREM NoneWaitsInVain == ASSUME PeersAssumption PROVE PeersSpec => []HostsWait
<1>1. CoreInv => HostsWait
  BY HostsServed
<1> QED
  BY <1>1, PeersHold, PTL

(* dial_and_run: the retries the code provides for never happen, since a    *)
(* session that is over is always one whose token is cancelled.             *)
THEOREM RetriesNever == ASSUME PeersAssumption PROVE PeersSpec => []NeverRetried
<1>1. Rest => NeverRetried
  BY DEF Rest
<1> QED
  BY <1>1, PeersHold, PTL

----------------------------------------------------------------------------
(* The metadata of a magnet link, and one life of the engine. *)

CONSTANTS
    Honest, Size, Sizes, Pipe, MaxLiars, NeedSelect,
    Pieces, SeedMode, MaxRuns, MaxSends, MaxLate

VARIABLES
    accum, requested, link, have, store, meta, installs, onDisk, verify, main, liars,
    unopened, stage, bits, disk, ctrl, pooled, session, down, cancel, seeding, ticker, shown, busy, sends,
    runs

Magnet == INSTANCE BtMagnet WITH MaxJoins <- MaxLiars, joins <- liars
Life == INSTANCE BtRun WITH Piece <- Pieces, late <- pooled, status <- shown

MagnetLinks ==
    /\ link \in [Session -> [pc : {"off", "top", "read", "install", "opened", "known", "run"},
                            asked : SUBSET Int]]
    /\ have \in [Session -> {"none", "aside", "applied"}]
    /\ store \in BOOLEAN /\ meta \in BOOLEAN

(* Whoever downloads knows the metadata, and once the store is visible a   *)
(* bitfield lies aside only while an installation is to apply it.          *)
MagnetInv ==
    /\ MagnetLinks
    /\ meta => store
    /\ \A s \in Session : /\ link[s].pc \in {"opened", "known"} => store
                          /\ link[s].pc \in {"known", "run"} => meta
    /\ store => \/ \E s \in Session : link[s].pc \in {"opened", "known"}
                \/ \A s \in Session : have[s] # "aside"

LEMMA MagnetStarts == ASSUME Magnet!MagnetInit PROVE MagnetInv
  BY DEF Magnet!MagnetInit, Magnet!NoLink, MagnetInv, MagnetLinks

LEMMA NextPiecesInt ==
    ASSUME NEW acc, NEW req, NEW n, NEW S \in Magnet!NextPieces(acc, req, n)
    PROVE  S \subseteq Int
<1>1. S \subseteq 0..(acc.size - 1)
  BY DEF Magnet!NextPieces
<1> QED
  BY <1>1

(* A session that neither installs nor has a bitfield put aside moves.     *)
LEMMA OneLinkMoves ==
    ASSUME MagnetInv, NEW s \in Session,
           \A t \in Session \ {s} : link'[t] = link[t],
           link[s].pc \notin {"opened", "known"}, link'[s].pc \notin {"opened", "known"},
           link'[s].pc = "run" => meta,
           MagnetLinks', UNCHANGED <<store, meta>>,
           \A t \in Session : have'[t] = "aside" => have[t] = "aside" \/ ~store
    PROVE  MagnetInv'
  BY DEF MagnetInv

LEMMA MagnetKept ==
    ASSUME Magnet!MagnetAssumption, MagnetInv, [Magnet!MagnetNext]_Magnet!magnetVars
    PROVE  MagnetInv'
<1> USE DEF MagnetLinks, Magnet!Stands, Magnet!Goes
<1>0. MagnetLinks
  BY DEF MagnetInv
<1>1. ASSUME NEW s \in Session, Magnet!Begin(s) PROVE MagnetInv'
  <2>1. /\ link[s].pc = "off" /\ have' = [have EXCEPT ![s] = "none"] /\ UNCHANGED <<store, meta>>
    BY <1>1 DEF Magnet!Begin
  <2>2. CASE meta
    <3>1. link' = [link EXCEPT ![s].pc = "run"]
      BY <1>1, <2>2 DEF Magnet!Begin
    <3> QED
      BY <1>0, <2>1, <2>2, <3>1, OneLinkMoves
  <2>3. CASE ~meta
    <3> DEFINE first == {0} \ accum.got
    <3>1. PICK more \in Magnet!NextPieces(accum, requested \cup first,
                                         Pipe - Magnet!Cardinality(first)) :
               link' = [link EXCEPT ![s] = [pc |-> "top", asked |-> first \cup more]]
      BY <1>1, <2>3 DEF Magnet!Begin
    <3>2. first \cup more \subseteq Int
      BY NextPiecesInt
    <3> HIDE DEF first
    <3> QED
      BY <1>0, <2>1, <3>1, <3>2, OneLinkMoves
  <2> QED
    BY <2>2, <2>3
<1>2. ASSUME NEW s \in Session, Magnet!Top(s) PROVE MagnetInv'
  <2>1. /\ link[s].pc = "top" /\ link' = [link EXCEPT ![s].pc = IF meta THEN "run" ELSE "read"]
        /\ UNCHANGED <<have, store, meta>>
    BY <1>2 DEF Magnet!Top
  <2> QED
    BY <1>0, <2>1, OneLinkMoves
<1>3. ASSUME NEW s \in Session, NEW i, NEW size, NEW true, Magnet!Piece(s, i, size, true)
      PROVE MagnetInv'
  <2>1. /\ link[s].pc = "read" /\ UNCHANGED <<have, store, meta>>
    BY <1>3 DEF Magnet!Piece
  <2>2. CASE meta
    <3>1. link' = [link EXCEPT ![s].pc = "run"]
      BY <1>3, <2>2 DEF Magnet!Piece
    <3> QED
      BY <1>0, <2>1, <2>2, <3>1, OneLinkMoves
  <2>3. CASE ~meta
    <3>1. \E acc, req, n : \E more \in Magnet!NextPieces(acc, req, n) :
               link' = [link EXCEPT ![s] = [pc |-> "top", asked |-> (link[s].asked \ {i}) \cup more]]
      BY <1>3, <2>3 DEF Magnet!Piece
    <3>2. PICK acc, req, n : \E more \in Magnet!NextPieces(acc, req, n) :
               link' = [link EXCEPT ![s] = [pc |-> "top", asked |-> (link[s].asked \ {i}) \cup more]]
      BY <3>1
    <3>3. PICK more \in Magnet!NextPieces(acc, req, n) :
               link' = [link EXCEPT ![s] = [pc |-> "top", asked |-> (link[s].asked \ {i}) \cup more]]
      BY <3>2
    <3>4. (link[s].asked \ {i}) \cup more \subseteq Int
      BY <1>0, NextPiecesInt
    <3> QED
      BY <1>0, <2>1, <3>3, <3>4, OneLinkMoves
  <2> QED
    BY <2>2, <2>3
<1>4. ASSUME NEW s \in Session, NEW i, NEW size, NEW true, Magnet!Completes(s, i, size, true)
      PROVE MagnetInv'
  <2>1. /\ link[s].pc = "read" /\ link' = [link EXCEPT ![s].pc = "install"]
        /\ UNCHANGED <<have, store, meta>>
    BY <1>4 DEF Magnet!Completes
  <2> QED
    BY <1>0, <2>1, OneLinkMoves
<1>5. ASSUME NEW s \in Session,
             \/ Magnet!Breaks(s) \/ Magnet!OpenFails(s)
             \/ \E i, size, true : Magnet!Poisoned(s, i, size, true)
      PROVE MagnetInv'
  <2>1. /\ link[s].pc \notin {"opened", "known"} /\ link' = [link EXCEPT ![s] = Magnet!NoLink]
        /\ UNCHANGED <<have, store, meta>>
    BY <1>5 DEF Magnet!Breaks, Magnet!OpenFails, Magnet!Poisoned
  <2> QED
    BY <1>0, <2>1, OneLinkMoves DEF Magnet!NoLink
<1>6. ASSUME NEW s \in Session, Magnet!Bitfield(s) PROVE MagnetInv'
  <2>1. /\ link[s].pc \in {"read", "run"}
        /\ have' = [have EXCEPT ![s] = IF store THEN "applied" ELSE "aside"]
        /\ link' = [link EXCEPT ![s].pc = IF @ = "read" THEN "top" ELSE @]
        /\ UNCHANGED <<store, meta>>
    BY <1>6 DEF Magnet!Bitfield
  <2>2. link[s].pc = "run" => meta
    BY DEF MagnetInv
  <2> QED
    BY <1>0, <2>1, <2>2, OneLinkMoves
<1>7. ASSUME NEW s \in Session, Magnet!OpenStore(s) PROVE MagnetInv'
  <2>1. /\ link[s].pc = "install" /\ link' = [link EXCEPT ![s].pc = "opened"]
        /\ store' = TRUE /\ UNCHANGED <<have, meta>>
    BY <1>7 DEF Magnet!OpenStore
  <2> QED
    BY <2>1 DEF MagnetInv
<1>8. ASSUME NEW s \in Session, Magnet!SetMeta(s) PROVE MagnetInv'
  <2>1. /\ link[s].pc = "opened" /\ link' = [link EXCEPT ![s].pc = "known"]
        /\ meta' = TRUE /\ UNCHANGED <<have, store>>
    BY <1>8 DEF Magnet!SetMeta
  <2> QED
    BY <2>1 DEF MagnetInv
<1>9. ASSUME NEW s \in Session, Magnet!ApplyAside(s) PROVE MagnetInv'
  <2>1. /\ link[s].pc = "known" /\ link' = [link EXCEPT ![s].pc = "run"]
        /\ have' = [t \in Session |-> IF have[t] = "aside" THEN "applied" ELSE have[t]]
        /\ UNCHANGED <<store, meta>>
    BY <1>9 DEF Magnet!ApplyAside
  <2> QED
    BY <2>1 DEF MagnetInv
<1>10. ASSUME UNCHANGED <<link, have, store, meta>> PROVE MagnetInv'
  BY <1>10 DEF MagnetInv
<1>11. Magnet!Fetched \/ Magnet!GivesUp \/ Magnet!Verified \/ UNCHANGED Magnet!magnetVars
       => UNCHANGED <<link, have, store, meta>>
  BY DEF Magnet!Fetched, Magnet!GivesUp, Magnet!Verified, Magnet!magnetVars
<1> QED
  BY <1>1, <1>2, <1>3, <1>4, <1>5, <1>6, <1>7, <1>8, <1>9, <1>10, <1>11
  DEF Magnet!MagnetNext, Magnet!Work, Magnet!Answer

LEMMA MagnetSafe == MagnetInv => Magnet!BitfieldsApplied
<1> SUFFICES ASSUME MagnetInv, \A s \in Session : link[s].pc \notin {"opened", "known"},
                    NEW s \in Session, link[s].pc = "run"
             PROVE  have[s] # "aside"
  BY DEF Magnet!BitfieldsApplied, Magnet!Stands
<1> QED
  BY DEF MagnetInv

(* apply_pending_peer_bitfields: no peer keeps a bitfield aside once it is *)
(* downloaded from, however its arrival, the installations of several      *)
(* sessions and their ends overlap.                                        *)
THEOREM BitfieldsKept ==
    ASSUME Magnet!MagnetAssumption
    PROVE  Magnet!MagnetSpec => []Magnet!BitfieldsApplied
<1>1. Magnet!MagnetInit => MagnetInv
  BY MagnetStarts
<1>2. MagnetInv /\ [Magnet!MagnetNext]_Magnet!magnetVars => MagnetInv'
  BY MagnetKept
<1> QED
  BY <1>1, <1>2, MagnetSafe, PTL DEF Magnet!MagnetSpec

----------------------------------------------------------------------------
(* What was captured to be saved was on disk, and nothing leaves the disk. *)
SavesTrue == \A saved \in ctrl \cup pooled : saved \subseteq disk

LEMMA SavesStart == ASSUME Life!RunInit PROVE SavesTrue
  BY DEF Life!RunInit, SavesTrue

LEMMA SavesKept == ASSUME SavesTrue, [Life!RunNext]_Life!runVars PROVE SavesTrue'
<1> USE DEF SavesTrue, Life!work, Life!Durable
<1>1. ASSUME UNCHANGED <<ctrl, disk, pooled>> PROVE SavesTrue'
  BY <1>1
<1>2. CASE Life!Verify \/ Life!NoListener
  BY <1>2 DEF Life!Verify, Life!NoListener, Life!VerifyExisting
<1>3. CASE Life!Announce \/ Life!RoundEnds \/ Life!SeedAnnounce
           \/ \E sent \in Life!Events : Life!Answered(sent)
  BY <1>1, <1>3 DEF Life!Announce, Life!RoundEnds, Life!SeedAnnounce,
     Life!Answered
<1>4. CASE \E x \in Pieces : Life!Accept(x)
  BY <1>4 DEF Life!Accept
<1>5. CASE Life!SaveLater
  BY <1>5 DEF Life!SaveLater
<1>6. CASE Life!SessionEnds \/ Life!Cancel \/ Life!TickReads \/ Life!TickShows
  BY <1>1, <1>6 DEF Life!SessionEnds, Life!Cancel, Life!TickReads, Life!TickShows
<1>7. CASE \E saved \in SUBSET Pieces : Life!WriteLate(saved)
  BY <1>7 DEF Life!WriteLate
<1>8. CASE Life!Finish
  BY <1>8 DEF Life!Finish
<1>9. CASE Life!Seed \/ Life!SeedEnds \/ Life!StopBackground \/ Life!SeeCancel \/ Life!Bye
  BY <1>1, <1>9 DEF Life!Seed, Life!SeedEnds, Life!StopBackground, Life!SeeCancel, Life!Bye
<1>10. CASE Life!Flush
  BY <1>10 DEF Life!Flush
<1>11. CASE Life!ForceSave
  BY <1>11 DEF Life!ForceSave
<1>12. CASE Life!Again
  BY <1>12 DEF Life!Again
<1>13. CASE UNCHANGED Life!runVars
  BY <1>1, <1>13 DEF Life!runVars
<1> QED
  BY <1>2, <1>3, <1>4, <1>5, <1>6, <1>7, <1>8, <1>9, <1>10, <1>11, <1>12, <1>13
  DEF Life!RunNext, Life!RunStep

LEMMA SavesSafe == SavesTrue => Life!CtrlTrue
  BY DEF SavesTrue, Life!CtrlTrue

(* The control file of an engine claims only what is on disk, whichever of *)
(* its saves, immediate or handed to the pool, is written last, over any   *)
(* number of runs of the task (save_resume, durable_bitfield).             *)
THEOREM SavesHonest == Life!RunSpec => []Life!CtrlTrue
<1>1. Life!RunInit => SavesTrue
  BY SavesStart
<1>2. SavesTrue /\ [Life!RunNext]_Life!runVars => SavesTrue'
  BY SavesKept
<1> QED
  BY <1>1, <1>2, SavesSafe, PTL DEF Life!RunSpec
=============================================================================
