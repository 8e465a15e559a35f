------------------------- MODULE PieceStoreProofs -------------------------
(***************************************************************************)
(* Proofs about PieceStore.                                                *)
(*                                                                         *)
(* The type invariant holds in every instance.  The others hold while      *)
(* nobody changes the selection, cuts a file or takes the power away       *)
(* (Untampered): with one of these they are not true (run HoleTrusted      *)
(* shows it for a file cut short, the README lists the others).            *)
(***************************************************************************)
EXTENDS MCBtData, FiniteSetTheorems, TLAPS

Untampered == Op \cap {"select", "trunc", "power"} = {}

----------------------------------------------------------------------------
(* Lemmas about the operators. *)

(* A torrent has finitely many cells. *)
LEMMA CellFinite == IsFiniteSet(Cell)
<1>1. IsFiniteSet(Piece)
  BY ConstantsAssumption, FS_Interval, SMT DEF Piece
<1>2. IsFiniteSet(Piece \X File)
  BY <1>1, ConstantsAssumption, FS_Product
<1> QED
  BY <1>2, FS_Subset DEF Cell

(* done_bytes_of returns a number. *)
LEMMA CountNat == ASSUME NEW M, NEW F PROVE Count(M, F) \in Nat
<1>1. IsFiniteSet({c \in Cell : c[1] \in M /\ c[2] \in F})
  BY CellFinite, FS_Subset
<1> QED
  BY <1>1, FS_CardinalityType DEF Count

(* done_bytes_of grows with the map. *)
LEMMA CountGrows ==
    ASSUME NEW M, NEW L, M \subseteq L, NEW F
    PROVE  Count(M, F) <= Count(L, F)
<1> DEFINE A == {c \in Cell : c[1] \in M /\ c[2] \in F}
           B == {c \in Cell : c[1] \in L /\ c[2] \in F}
<1>1. IsFiniteSet(B)
  BY CellFinite, FS_Subset
<1>2. A \subseteq B
  OBVIOUS
<1>3. Cardinality(A) <= Cardinality(B)
  BY <1>1, <1>2, FS_Subset
<1> QED
  BY <1>3 DEF Count

(* Taking the front off a sequence. *)
LEMMA FrontTaken ==
    ASSUME NEW S, NEW s \in Seq(S), s # <<>>
    PROVE  /\ Head(s) \in S
           /\ Tail(s) \in Seq(S)
           /\ Elems(s) = {Head(s)} \cup Elems(Tail(s))
<1>1. Len(s) \in Nat /\ Len(s) > 0 /\ DOMAIN s = 1..Len(s)
  OBVIOUS
<1>2. Head(s) = s[1] /\ Head(s) \in S /\ Tail(s) \in Seq(S)
  BY <1>1
<1>3. DOMAIN Tail(s) = 1 .. Len(s) - 1 /\ \A i \in 1 .. Len(s) - 1 : Tail(s)[i] = s[i + 1]
  BY <1>1, <1>2
<1>4. ASSUME NEW i \in DOMAIN s PROVE s[i] \in {Head(s)} \cup Elems(Tail(s))
  <2>1. CASE i = 1
    BY <2>1, <1>2
  <2>2. CASE i # 1
    <3>1. i - 1 \in 1 .. Len(s) - 1 /\ (i - 1) + 1 = i
      BY <2>2, <1>1, <1>4
    <3>2. Tail(s)[i - 1] = s[i]
      BY <3>1, <1>3
    <3> QED
      BY <3>1, <3>2, <1>3 DEF Elems
  <2> QED
    BY <2>1, <2>2
<1>5. ASSUME NEW i \in DOMAIN Tail(s) PROVE Tail(s)[i] \in Elems(s)
  <2>1. i \in 1 .. Len(s) - 1 /\ i + 1 \in 1..Len(s) /\ Tail(s)[i] = s[i + 1]
    BY <1>1, <1>3, <1>5
  <2> QED
    BY <2>1, <1>1 DEF Elems
<1>6. Head(s) \in Elems(s)
  BY <1>1, <1>2 DEF Elems
<1> QED
  BY <1>2, <1>4, <1>5, <1>6 DEF Elems

(* Adding to the end of one. *)
LEMMA BackAdded ==
    ASSUME NEW S, NEW s \in Seq(S), NEW p \in S
    PROVE  Append(s, p) \in Seq(S) /\ Elems(Append(s, p)) = Elems(s) \cup {p}
<1>1. Len(s) \in Nat /\ DOMAIN s = 1..Len(s)
  OBVIOUS
<1>2. /\ Append(s, p) \in Seq(S) /\ DOMAIN Append(s, p) = 1 .. Len(s) + 1
      /\ \A i \in 1..Len(s) : Append(s, p)[i] = s[i]
      /\ Append(s, p)[Len(s) + 1] = p
  BY <1>1
<1>3. Elems(s) \subseteq Elems(Append(s, p))
  <2>1. ASSUME NEW i \in DOMAIN s PROVE s[i] \in Elems(Append(s, p))
    <3>1. i \in DOMAIN Append(s, p) /\ Append(s, p)[i] = s[i]
      BY <1>1, <1>2, <2>1
    <3> QED
      BY <3>1 DEF Elems
  <2> QED
    BY <2>1 DEF Elems
<1>4. p \in Elems(Append(s, p))
  <2>1. Len(s) + 1 \in DOMAIN Append(s, p)
    BY <1>1, <1>2
  <2> QED
    BY <2>1, <1>2 DEF Elems
<1>5. ASSUME NEW i \in DOMAIN Append(s, p) PROVE Append(s, p)[i] \in Elems(s) \cup {p}
  <2>1. i \in 1..Len(s) \/ i = Len(s) + 1
    BY <1>1, <1>2, <1>5
  <2> QED
    BY <2>1, <1>1, <1>2 DEF Elems
<1> QED
  BY <1>2, <1>3, <1>4, <1>5 DEF Elems

(* Removing the entry of a piece keeps the others. *)
LEMMA EntryDropped ==
    ASSUME NEW S, NEW s \in Seq(S), NEW p
    PROVE  /\ Drop(s, p) \in Seq(S)
           /\ Elems(Drop(s, p)) \subseteq Elems(s)
           /\ Elems(s) \ {p} \subseteq Elems(Drop(s, p))
<1>1. CASE p \notin Elems(s)
  BY <1>1 DEF Drop
<1>2. CASE p \in Elems(s)
  <2> DEFINE k == CHOOSE i \in DOMAIN s : s[i] = p
             d == [i \in 1 .. Len(s) - 1 |-> IF i < k THEN s[i] ELSE s[i + 1]]
  <2>1. k \in DOMAIN s /\ s[k] = p
    BY <1>2 DEF Elems
  <2>2. Drop(s, p) = d
    BY <1>2 DEF Drop
  <2> HIDE DEF k
  <2>3. Len(s) \in Nat /\ DOMAIN s = 1..Len(s) /\ k \in 1..Len(s)
    BY <2>1
  <2>4. DOMAIN d = 1 .. Len(s) - 1
    OBVIOUS
  <2>5. ASSUME NEW i \in 1 .. Len(s) - 1 PROVE d[i] \in S /\ d[i] \in Elems(s)
    <3>1. i \in DOMAIN s /\ i + 1 \in DOMAIN s
      BY <2>3, <2>5
    <3>2. d[i] = s[i] \/ d[i] = s[i + 1]
      OBVIOUS
    <3> QED
      BY <3>1, <3>2, <2>3 DEF Elems
  <2>6. d \in Seq(S)
    <3>1. d \in [1 .. Len(s) - 1 -> S] /\ Len(s) - 1 \in Nat
      BY <2>3, <2>5
    <3> QED
      BY <3>1
  <2>7. Elems(d) \subseteq Elems(s)
    BY <2>4, <2>5 DEF Elems
  <2>8. ASSUME NEW i \in DOMAIN s, s[i] # p PROVE s[i] \in Elems(d)
    <3>1. CASE i < k
      <4>1. i \in 1 .. Len(s) - 1 /\ d[i] = s[i]
        BY <3>1, <2>3, <2>8
      <4> QED
        BY <4>1, <2>4 DEF Elems
    <3>2. CASE ~(i < k)
      <4>1. i > k
        BY <3>2, <2>1, <2>3, <2>8
      <4>2. i - 1 \in 1 .. Len(s) - 1 /\ ~(i - 1 < k) /\ (i - 1) + 1 = i
        BY <4>1, <2>3, <2>8
      <4>3. d[i - 1] = s[i]
        BY <4>2
      <4> QED
        BY <4>2, <4>3, <2>4 DEF Elems
    <3> QED
      BY <3>1, <3>2
  <2>9. Elems(s) \ {p} \subseteq Elems(d)
    BY <2>8 DEF Elems
  <2> QED
    BY <2>2, <2>6, <2>7, <2>9
<1> QED
  BY <1>1, <1>2

(* What is on disk stays there while cells are added. *)
LEMMA SafeGrows ==
    ASSUME disk \subseteq disk', sel' = sel PROVE Safe \subseteq Safe'
BY Zenon DEF Safe, Cells

(* A piece written with all the task's files open is on disk. *)
LEMMA WrittenSafe ==
    ASSUME NEW p \in Piece, opened = sel, sel' = sel, Written(p)
    PROVE  p \in Safe' /\ Safe \subseteq Safe'
<1>1. disk \subseteq disk'
  BY DEF Written
<1>2. Cells(p, sel)' \subseteq disk'
  BY DEF Written, Cells
<1> QED
  BY <1>1, <1>2, SafeGrows DEF Safe

----------------------------------------------------------------------------
(* Type correctness. *)

(* A session past its hash has a piece in hand. *)
PieceKnown ==
    \A w \in Peer : peer[w].pc \in {"hashed", "evict", "count"} => peer[w].piece \in Piece

TypeInv == TypeOK /\ PieceKnown

LEMMA InitTypeInv == Init => TypeInv
<1> SUFFICES ASSUME Init PROVE TypeInv
  OBVIOUS
<1>1. sel \subseteq File /\ len \in [File -> 0..N]
  BY ConstantsAssumption DEF Init, Selections
<1>4. cache \in Seq(Piece) /\ bytes \in Int /\ done \in Nat /\ saves \in [Slot -> (SUBSET Piece) \cup {NoFile}]
  BY DEF Init
<1>2. peer \in [Peer -> [pc : PeerPc, piece : Piece \cup {NoPiece}, val : Nat]]
  BY DEF Init, Idle, PeerPc
<1>3. PieceKnown
  BY DEF Init, Idle, PieceKnown
<1> QED
  BY <1>1, <1>2, <1>3, <1>4 DEF Init, TypeInv, TypeOK, EngPc

LEMMA TypeStep == TypeInv /\ [Next]_vars => TypeInv'
<1> SUFFICES ASSUME TypeInv, [Next]_vars PROVE TypeInv'
  OBVIOUS
<1> USE DEF TypeInv, TypeOK, PieceKnown, files, store
<1>1. Restored \subseteq Piece
  <2>1. CASE ctrl = NoFile
    BY <2>1 DEF Restored
  <2>2. CASE ctrl # NoFile
    BY <2>2 DEF Restored, TypeInv
  <2> QED
    BY <2>1, <2>2
<1>2. Durable \subseteq Piece
  BY DEF Durable
<1>3. \A p \in Piece : \A F : Cells(p, F) \subseteq Cell
  BY DEF Cells
<1>4. N \in 0..N /\ 0 \in 0..N
  BY ConstantsAssumption
<1>5. Idle \in [pc : PeerPc, piece : Piece \cup {NoPiece}, val : Nat]
  BY DEF Idle, PeerPc
<1>6. \A M, F : Count(M, F) \in Nat
  BY CountNat
<1>7. \A p \in Piece : PieceLen[p] \in Int
  BY ConstantsAssumption
<1> HIDE DEF TypeInv
<1>start. CASE Start
  <2> USE <1>start DEF Start
  <2>1. len' \in [File -> 0..N]
    BY <1>4 DEF TypeInv
  <2>2. cache' \in Seq(Piece) /\ bytes' \in Int
    OBVIOUS
  <2>3. eng' \in EngPc /\ done' \in Nat
    BY <1>6 DEF EngPc
  <2> QED
    BY <1>1, <2>1, <2>2, <2>3 DEF TypeInv
<1>startf. CASE StartFails
  <2>1. len' \in [File -> 0..N]
    BY <1>startf, <1>4 DEF StartFails, TypeInv
  <2> QED
    BY <1>startf, <2>1 DEF StartFails, TypeInv
<1>verify. CASE Verify
  <2> DEFINE good == {p \in Wanted(chosen) : Cells(p, File) \subseteq disk}
  <2>1. good \subseteq Piece
    BY DEF Wanted
  <2>2. map' \subseteq Piece /\ done' \in Nat /\ ctrl' \in (SUBSET Piece) \cup {NoFile}
    <3>1. CASE good = {}
      BY <1>verify, <3>1 DEF Verify, TypeInv
    <3>2. CASE good # {}
      <4>1. map' = good /\ done' = Count(good, chosen) /\ (ctrl' = good \/ ctrl' = ctrl)
        BY <1>verify, <3>2 DEF Verify, WriteCtrl
      <4>2. done' \in Nat
        BY <4>1, <1>6
      <4> QED
        BY <4>1, <4>2, <2>1 DEF TypeInv
    <3> QED
      BY <3>1, <3>2
  <2>3. eng' \in EngPc
    BY <1>verify DEF Verify, EngPc
  <2> QED
    BY <1>verify, <2>2, <2>3 DEF Verify, TypeInv
<1>listen. CASE Listen
  BY <1>listen DEF Listen, EngPc, TypeInv
<1>peer. ASSUME NEW w \in Peer,
               \/ \E p \in Piece : Accept(w, p)
               \/ AcceptDuplicate(w) \/ AcceptDirect(w) \/ AcceptCached(w) \/ Evict(w)
               \/ StoreDone(w) \/ SaveLater(w)
         PROVE TypeInv'
  <2>1. ASSUME NEW p \in Piece, Accept(w, p) PROVE TypeInv'
    <3>1. peer' \in [Peer -> [pc : PeerPc, piece : Piece \cup {NoPiece}, val : Nat]]
      BY <2>1 DEF Accept, Idle, PeerPc, TypeInv
    <3>2. PieceKnown'
      BY <2>1 DEF Accept, Idle, TypeInv
    <3> QED
      BY <2>1, <3>1, <3>2 DEF Accept, TypeInv
  <2>leave. ASSUME Leave(w)
            PROVE /\ peer' \in [Peer -> [pc : PeerPc, piece : Piece \cup {NoPiece}, val : Nat]]
                  /\ PieceKnown'
    BY <2>leave, <1>5 DEF Leave, Idle, TypeInv
  <2>mark. ASSUME NEW p \in Piece, Mark(w, p)
           PROVE /\ map' \subseteq Piece
                 /\ peer' \in [Peer -> [pc : PeerPc, piece : Piece \cup {NoPiece}, val : Nat]]
                 /\ PieceKnown'
    <3>1. Count(map \cup {p}, chosen) \in Nat
      BY <1>6
    <3> QED
      BY <2>mark, <3>1 DEF Mark, PeerPc, TypeInv
  <2>2. CASE AcceptDuplicate(w)
    BY <2>2, <2>leave DEF AcceptDuplicate, TypeInv
  <2>3. CASE AcceptDirect(w)
    <3>1. peer[w].piece \in Piece
      BY <2>3 DEF AcceptDirect, At, TypeInv
    <3>2. disk' \subseteq Cell
      BY <2>3, <3>1, <1>3 DEF AcceptDirect, Written, WriteFails, TypeInv
    <3>3. /\ map' \subseteq Piece /\ PieceKnown'
          /\ peer' \in [Peer -> [pc : PeerPc, piece : Piece \cup {NoPiece}, val : Nat]]
      <4>1. \/ Mark(w, peer[w].piece)
            \/ Leave(w) /\ map' = map
        BY <2>3 DEF AcceptDirect
      <4> QED
        BY <4>1, <3>1, <2>mark, <2>leave DEF TypeInv
    <3> QED
      BY <2>3, <3>2, <3>3 DEF AcceptDirect, TypeInv
  <2>4. CASE AcceptCached(w)
    <3>1. peer[w].piece \in Piece /\ peer[w].pc = "hashed"
      BY <2>4 DEF AcceptCached, At, TypeInv
    <3>2. Drop(cache, peer[w].piece) \in Seq(Piece)
      BY EntryDropped DEF TypeInv
    <3>3. cache' \in Seq(Piece)
      BY <2>4, <3>1, <3>2, BackAdded DEF AcceptCached
    <3>4. bytes' \in Int
      BY <2>4, <3>1, <1>7 DEF AcceptCached, TypeInv
    <3>5. /\ peer' \in [Peer -> [pc : PeerPc, piece : Piece \cup {NoPiece}, val : Nat]]
          /\ PieceKnown'
      BY <2>4, <3>1 DEF AcceptCached, PeerPc, TypeInv
    <3> QED
      BY <2>4, <3>3, <3>4, <3>5 DEF AcceptCached, TypeInv
  <2>5. CASE Evict(w)
    <3>1. peer[w].piece \in Piece
      BY <2>5 DEF Evict, At, TypeInv
    <3>2. CASE Mark(w, peer[w].piece) /\ UNCHANGED <<disk, cache, bytes>>
      BY <2>5, <3>1, <3>2, <2>mark DEF Evict, TypeInv
    <3>3. CASE /\ cache # <<>> /\ Written(Head(cache)) /\ cache' = Tail(cache)
               /\ bytes' = bytes - PieceLen[Head(cache)] /\ UNCHANGED <<map, peer>>
      <4>1. Head(cache) \in Piece /\ Tail(cache) \in Seq(Piece)
        BY <3>3, FrontTaken DEF TypeInv
      <4>2. disk' \subseteq Cell /\ bytes' \in Int
        BY <3>3, <4>1, <1>3, <1>7 DEF Written, TypeInv
      <4> QED
        BY <2>5, <3>3, <4>1, <4>2 DEF Evict, TypeInv
    <3>4. CASE /\ cache # <<>> /\ WriteFails(Head(cache)) /\ Leave(w) /\ UNCHANGED store
      <4>1. Head(cache) \in Piece
        BY <3>4, FrontTaken DEF TypeInv
      <4>2. disk' \subseteq Cell
        BY <3>4, <4>1, <1>3 DEF WriteFails, TypeInv
      <4> QED
        BY <2>5, <3>4, <4>2, <2>leave DEF Evict, TypeInv
    <3> QED
      BY <2>5, <3>2, <3>3, <3>4 DEF Evict
  <2>6. CASE StoreDone(w)
    <3>1. done' \in Nat
      BY <2>6 DEF StoreDone, TypeInv
    <3>2. /\ peer' \in [Peer -> [pc : PeerPc, piece : Piece \cup {NoPiece}, val : Nat]]
          /\ PieceKnown'
      BY <2>6 DEF StoreDone, Idle, PeerPc, TypeInv
    <3> QED
      BY <2>6, <3>1, <3>2 DEF StoreDone, TypeInv
  <2>7. CASE SaveLater(w)
    <3>1. saves' \in [Slot -> (SUBSET Piece) \cup {NoFile}]
      BY <2>7, <1>2 DEF SaveLater, TypeInv
    <3> QED
      BY <2>7, <3>1, <2>leave DEF SaveLater, TypeInv
  <2> QED
    BY <1>peer, <2>1, <2>2, <2>3, <2>4, <2>5, <2>6, <2>7
<1>lands. ASSUME NEW s \in Slot, SaveLands(s) PROVE TypeInv'
  <2>1. ctrl' \in (SUBSET Piece) \cup {NoFile}
    BY <1>lands DEF SaveLands, WriteCtrl, TypeInv
  <2>2. saves' \in [Slot -> (SUBSET Piece) \cup {NoFile}]
    BY <1>lands DEF SaveLands, TypeInv
  <2> QED
    BY <1>lands, <2>1, <2>2 DEF SaveLands, TypeInv
<1>pause. CASE Pause
  BY <1>pause DEF Pause, EngPc, TypeInv
<1>finish. CASE Finish
  BY <1>finish DEF Finish, EngPc, TypeInv
<1>flush. CASE Flush
  <2>1. AfterFlush \in EngPc
    BY DEF AfterFlush, EngPc
  <2>2. CASE cache = <<>>
    BY <1>flush, <2>1, <2>2 DEF Flush, TypeInv
  <2>3. CASE cache # <<>>
    <3>1. Head(cache) \in Piece /\ Tail(cache) \in Seq(Piece)
      BY <2>3, FrontTaken DEF TypeInv
    <3>2. disk' \subseteq Cell
      BY <1>flush, <2>3, <3>1, <1>3 DEF Flush, Written, WriteFails, TypeInv
    <3>3. cache' \in Seq(Piece) /\ bytes' \in Int
      <4>1. bytes - PieceLen[Head(cache)] \in Int
        BY <3>1, <1>7 DEF TypeInv
      <4> QED
        BY <1>flush, <2>3, <3>1, <4>1 DEF Flush, TypeInv
    <3>4. eng' \in EngPc /\ synced' = synced
      BY <1>flush, <2>1, <2>3 DEF Flush, TypeInv
    <3> QED
      BY <1>flush, <3>2, <3>3, <3>4 DEF Flush, TypeInv
  <2> QED
    BY <2>2, <2>3
<1>now. CASE SaveNow
  <2>1. ctrl' \in (SUBSET Piece) \cup {NoFile}
    BY <1>now, <1>2 DEF SaveNow, WriteCtrl, TypeInv
  <2> QED
    BY <1>now, <2>1 DEF SaveNow, EngPc, TypeInv
<1>delete. CASE DeleteCtrl
  BY <1>delete DEF DeleteCtrl, EngPc, TypeInv
<1>end. CASE End
  BY <1>end DEF End, EngPc, TypeInv
<1>select. ASSUME NEW F \in Selections, SelectFiles(F) PROVE TypeInv'
  <2>1. F \subseteq File
    BY DEF Selections
  <2>2. done' \in Nat /\ chosen' \subseteq File
    BY <1>select, <2>1, <1>6 DEF SelectFiles, TypeInv
  <2> QED
    BY <1>select, <2>1, <2>2 DEF SelectFiles, TypeInv
<1>trunc. ASSUME NEW f \in File, NEW k \in 0..N, Truncate(f, k) PROVE TypeInv'
  <2>1. len' \in [File -> 0..N] /\ disk' \subseteq Cell
    BY <1>trunc DEF Truncate, TypeInv
  <2>2. synced' \subseteq Cell
    BY <1>trunc, <2>1 DEF Truncate, TypeInv
  <2> QED
    BY <1>trunc, <2>1, <2>2 DEF Truncate, TypeInv
<1>die. ASSUME Die, disk' \subseteq Cell, synced' = synced, ctrl' = ctrl \/ ctrl' = NoFile
        PROVE TypeInv'
  <2>1. /\ peer' \in [Peer -> [pc : PeerPc, piece : Piece \cup {NoPiece}, val : Nat]]
        /\ PieceKnown'
    BY <1>die, <1>5 DEF Die, Idle
  <2>2. cache' \in Seq(Piece) /\ bytes' \in Int /\ done' \in Nat /\ eng' \in EngPc
    BY <1>die DEF Die, EngPc
  <2> QED
    BY <1>die, <2>1, <2>2 DEF Die, TypeInv
<1>crash. CASE Crash
  BY <1>crash, <1>die DEF Crash, TypeInv
<1>power. CASE PowerFailure
  <2>1. disk' \subseteq Cell
    BY <1>power DEF PowerFailure, TypeInv
  <2> QED
    BY <1>power, <2>1, <1>die DEF PowerFailure
<1>stutter. CASE UNCHANGED vars
  BY <1>stutter DEF vars, TypeInv
<1> QED
  BY <1>start, <1>startf, <1>verify, <1>listen, <1>peer, <1>lands, <1>pause, <1>finish,
     <1>flush, <1>now, <1>delete, <1>end, <1>select, <1>trunc, <1>crash, <1>power,
     <1>stutter DEF Next

(* Every variable keeps its type, whatever fails. *)
THEOREM TypeCorrect == Spec => []TypeOK
<1>1. Spec => []TypeInv
  BY InitTypeInv, TypeStep, PTL DEF Spec
<1>2. TypeInv => TypeOK
  BY DEF TypeInv
<1> QED
  BY <1>1, <1>2, PTL

----------------------------------------------------------------------------
(* The inductive invariant: where the bytes of every piece are. *)

(* No session is in accept_piece. *)
Quiet == \A w \in Peer : At(w, "idle")

(* An engine at work has the files of the task open. *)
OpenInv == eng # "off" \/ ~Quiet => opened = sel /\ chosen = sel

(* Before the network is up no session is in accept_piece. *)
IdleInv ==
    /\ eng \in {"verify", "listen"} => Quiet
    /\ eng = "verify" => map = {} /\ cache = <<>>

(* A piece that is done, or is about to be marked, is somewhere. *)
DoneInv == \A p \in map : p \in Elems(cache) \cup Safe
EvictInv ==
    \A w \in Peer : peer[w].pc = "evict" => peer[w].piece \in Elems(cache) \cup Safe

CacheOff == Limit = 0 => cache = <<>>

(* What is on record, or will be, is on disk. *)
ClaimInv ==
    /\ ctrl # NoFile => ctrl \subseteq Safe
    /\ \A s \in Slot : saves[s] # NoFile => saves[s] \subseteq Safe

DataInv == OpenInv /\ IdleInv /\ DoneInv /\ EvictInv /\ CacheOff /\ ClaimInv

(* Bytes move from the cache to the disk and never vanish. *)
LEMMA Somewhere ==
    ASSUME DoneInv, EvictInv, ClaimInv,
           Safe \subseteq Safe', Elems(cache) \subseteq Elems(cache)' \cup Safe'
    PROVE  /\ \A p \in map : p \in Elems(cache)' \cup Safe'
           /\ \A w \in Peer : peer[w].pc = "evict"
                                => peer[w].piece \in Elems(cache)' \cup Safe'
           /\ ctrl # NoFile => ctrl \subseteq Safe'
           /\ \A s \in Slot : saves[s] # NoFile => saves[s] \subseteq Safe'
BY Zenon DEF DoneInv, EvictInv, ClaimInv

LEMMA NothingCached == Elems(<<>>) = {}
BY DEF Elems

LEMMA SameSafe == ASSUME disk' = disk, sel' = sel PROVE Safe' = Safe
BY DEF Safe, Cells

(* A write that fails touches only its own piece. *)
LEMMA FailedSafe ==
    ASSUME NEW p \in Piece, sel' = sel, WriteFails(p)
    PROVE  Safe' = Safe \/ Safe' = Safe \cup {p}
<1>1. PICK D \in SUBSET Cells(p, opened) : disk' = disk \cup D
  BY DEF WriteFails
<1>2. Safe \subseteq Safe'
  BY <1>1, SafeGrows
<1>3. ASSUME NEW q \in Piece, q # p, q \in Safe' PROVE q \in Safe
  <2>1. Cells(q, sel) \subseteq disk \cup D
    BY <1>1, <1>3 DEF Safe, Cells
  <2>2. \A c \in Cells(q, sel) : c \notin D
    BY <1>1, <1>3 DEF Cells
  <2> QED
    BY <2>1, <2>2 DEF Safe
<1> QED
  BY <1>2, <1>3 DEF Safe

(* And so does one that succeeds. *)
LEMMA WrittenOne ==
    ASSUME NEW p \in Piece, opened = sel, sel' = sel, Written(p)
    PROVE  Safe' = Safe \cup {p}
<1>1. p \in Safe' /\ Safe \subseteq Safe'
  BY WrittenSafe
<1>2. ASSUME NEW q \in Piece, q # p, q \in Safe' PROVE q \in Safe
  <2>1. Cells(q, sel) \subseteq disk \cup Cells(p, opened)
    BY <1>2 DEF Safe, Cells, Written
  <2>2. \A c \in Cells(q, sel) : c \notin Cells(p, opened)
    BY <1>2 DEF Cells
  <2> QED
    BY <2>1, <2>2 DEF Safe
<1> QED
  BY <1>1, <1>2 DEF Safe

(* durable_bitfield claims only what is on disk. *)
LEMMA DurableSafe == ASSUME TypeInv, DataInv PROVE Durable \subseteq Safe
<1>1. CASE cache = <<>>
  BY <1>1, NothingCached DEF Durable, DataInv, DoneInv
<1>2. CASE cache # <<>>
  <2>1. Durable = map \ Elems(cache)
    BY <1>2 DEF Durable, DataInv, CacheOff
  <2> QED
    BY <2>1 DEF DataInv, DoneInv
<1> QED
  BY <1>1, <1>2

(* restore_resume takes over only what is on disk. *)
LEMMA RestoredSafe == ASSUME TypeInv, DataInv PROVE Restored \subseteq Safe
<1>1. CASE ctrl = NoFile
  BY <1>1 DEF Restored
<1>2. CASE ctrl # NoFile
  BY <1>2 DEF Restored, DataInv, ClaimInv
<1> QED
  BY <1>1, <1>2

(* So does verify_existing_data. *)
LEMMA VerifiedSafe ==
    ASSUME TypeInv, DataInv, eng = "verify"
    PROVE  {p \in Wanted(chosen) : Cells(p, File) \subseteq disk} \subseteq Safe
<1>1. ASSUME NEW p \in Piece, Cells(p, File) \subseteq disk PROVE p \in Safe
  <2>1. Cells(p, sel) \subseteq Cells(p, File)
    BY DEF Cells, TypeInv, TypeOK
  <2> QED
    BY <1>1, <2>1 DEF Safe
<1> QED
  BY <1>1 DEF Wanted

LEMMA InitDataInv == Init => DataInv
<1> SUFFICES ASSUME Init PROVE DataInv
  OBVIOUS
<1>1. Quiet
  BY DEF Init, Quiet, At, Idle
<1> QED
  BY <1>1 DEF Init, DataInv, OpenInv, IdleInv, DoneInv, EvictInv, CacheOff, ClaimInv, Idle

(* One round of an eviction or of a flush, or a direct write. *)
LEMMA PieceOut ==
    ASSUME TypeInv, DataInv, cache # <<>>, opened = sel, sel' = sel, cache' = Tail(cache),
           Written(Head(cache))
    PROVE  /\ Head(cache) \in Piece
           /\ Safe' = Safe \cup {Head(cache)}
           /\ Elems(cache) = {Head(cache)} \cup Elems(cache)'
           /\ CacheOff'
<1>1. /\ Head(cache) \in Piece
      /\ Elems(cache) = {Head(cache)} \cup Elems(Tail(cache))
  BY FrontTaken DEF TypeInv, TypeOK
<1>2. Elems(cache)' = Elems(Tail(cache))
  BY DEF Elems
<1> QED
  BY <1>1, <1>2, WrittenOne DEF DataInv, CacheOff

(* A session at work means the engine's files are the task's. *)
LEMMA AtWork ==
    ASSUME DataInv, NEW w \in Peer, peer[w].pc # "idle" PROVE opened = sel /\ chosen = sel
BY DEF DataInv, OpenInv, Quiet, At

LEMMA DataStep ==
    ASSUME Untampered, TypeInv, DataInv, [Next]_vars PROVE DataInv'
<1> USE DEF files, store
<1>same. ASSUME disk' = disk, sel' = sel, cache' = cache
         PROVE /\ Safe' = Safe /\ Elems(cache)' = Elems(cache) /\ CacheOff'
               /\ \A p \in map : p \in Elems(cache)' \cup Safe'
               /\ \A w \in Peer : peer[w].pc = "evict"
                                    => peer[w].piece \in Elems(cache)' \cup Safe'
               /\ ctrl # NoFile => ctrl \subseteq Safe'
               /\ \A s \in Slot : saves[s] # NoFile => saves[s] \subseteq Safe'
  <2>1. Safe' = Safe /\ Elems(cache)' = Elems(cache) /\ CacheOff'
    BY <1>same, SameSafe DEF Elems, DataInv, CacheOff
  <2> QED
    BY <2>1, Somewhere DEF DataInv
<1>leave. ASSUME NEW w \in Peer, Leave(w),
                 \A v \in Peer : peer[v].pc = "evict"
                                   => peer[v].piece \in Elems(cache)' \cup Safe'
          PROVE EvictInv' /\ (Quiet => Quiet')
  BY <1>leave DEF Leave, Idle, EvictInv, Quiet, At, TypeInv, TypeOK
<1>start. CASE Start
  <2>1. Safe' = Safe /\ Elems(cache)' = {} /\ CacheOff'
    BY <1>start, SameSafe, NothingCached DEF Start, CacheOff, Elems
  <2>2. DoneInv'
    BY <1>start, <2>1, RestoredSafe DEF Start, DoneInv
  <2>3. ClaimInv'
    BY <1>start, <2>1 DEF Start, ClaimInv, DataInv
  <2>4. Quiet' /\ EvictInv'
    BY <1>start DEF Start, Quiet, At, EvictInv
  <2>5. OpenInv' /\ IdleInv'
    BY <1>start, <2>4 DEF Start, OpenInv, IdleInv
  <2> QED
    BY <2>1, <2>2, <2>3, <2>4, <2>5 DEF DataInv
<1>startf. CASE StartFails
  BY <1>startf, <1>same DEF StartFails, DataInv, OpenInv, IdleInv, DoneInv, EvictInv,
     ClaimInv, Quiet, At
<1>verify. CASE Verify
  <2> DEFINE good == {p \in Wanted(chosen) : Cells(p, File) \subseteq disk}
  <2>1. Safe' = Safe /\ Elems(cache)' = Elems(cache) /\ CacheOff'
    BY <1>verify, <1>same DEF Verify
  <2>2. good \subseteq Safe
    BY <1>verify, VerifiedSafe DEF Verify
  <2>3. DoneInv' /\ ClaimInv'
    <3>1. CASE good = {}
      BY <1>verify, <3>1, <1>same DEF Verify, DoneInv, ClaimInv
    <3>2. CASE good # {}
      <4>1. map' = good /\ (ctrl' = good \/ ctrl' = ctrl)
        BY <1>verify, <3>2 DEF Verify, WriteCtrl
      <4> QED
        BY <1>verify, <4>1, <2>1, <2>2 DEF Verify, DoneInv, ClaimInv, DataInv
    <3> QED
      BY <3>1, <3>2
  <2>4. EvictInv' /\ OpenInv' /\ IdleInv'
    BY <1>verify, <2>1 DEF Verify, EvictInv, OpenInv, IdleInv, DataInv, Quiet, At
  <2> QED
    BY <2>1, <2>3, <2>4 DEF DataInv
<1>listen. CASE Listen
  BY <1>listen, <1>same DEF Listen, DataInv, OpenInv, IdleInv, DoneInv, EvictInv,
     ClaimInv, Quiet, At
<1>peer. ASSUME NEW w \in Peer,
               \/ \E p \in Piece : Accept(w, p)
               \/ AcceptDuplicate(w) \/ AcceptDirect(w) \/ AcceptCached(w) \/ Evict(w)
               \/ StoreDone(w) \/ SaveLater(w)
         PROVE DataInv'
  <2>run. eng \notin {"verify", "listen"} /\ eng' = eng /\ opened' = opened
          /\ chosen' = chosen /\ sel' = sel
    <3>1. eng \notin {"verify", "listen"}
      BY <1>peer DEF Accept, AcceptDuplicate, AcceptDirect, AcceptCached, Evict, StoreDone,
         SaveLater, At, DataInv, IdleInv, Quiet
    <3> QED
      BY <3>1, <1>peer DEF Accept, AcceptDuplicate, AcceptDirect, AcceptCached, Evict,
         StoreDone, SaveLater
  <2>open. opened = sel /\ chosen = sel
    <3>1. CASE \E p \in Piece : Accept(w, p)
      BY <3>1 DEF Accept, DataInv, OpenInv
    <3>2. CASE ~\E p \in Piece : Accept(w, p)
      <4>1. peer[w].pc # "idle"
        BY <3>2, <1>peer DEF AcceptDuplicate, AcceptDirect, AcceptCached, Evict, StoreDone,
           SaveLater, At
      <4> QED
        BY <4>1, AtWork
    <3> QED
      BY <3>1, <3>2
  <2>framed. OpenInv' /\ IdleInv'
    BY <2>run, <2>open DEF OpenInv, IdleInv
  <2>1. ASSUME NEW p \in Piece, Accept(w, p) PROVE DataInv'
    <3>1. EvictInv'
      BY <2>1, <1>same DEF Accept, Idle, EvictInv, TypeInv, TypeOK
    <3> QED
      BY <2>1, <3>1, <2>framed, <1>same DEF Accept, DataInv, DoneInv, ClaimInv
  <2>2. CASE AcceptDuplicate(w)
    BY <2>2, <2>framed, <1>same, <1>leave DEF AcceptDuplicate, DataInv, DoneInv, ClaimInv
  <2>3. CASE AcceptDirect(w)
    <3> DEFINE p == peer[w].piece
    <3>1. p \in Piece
      BY <2>3 DEF AcceptDirect, At, TypeInv, PieceKnown
    <3>2. Elems(cache)' = Elems(cache) /\ CacheOff'
      BY <2>3 DEF AcceptDirect, Elems, DataInv, CacheOff
    <3>3. CASE Written(p) /\ Mark(w, p)
      <4>1. Safe' = Safe \cup {p}
        BY <3>1, <3>3, <2>run, <2>open, WrittenOne
      <4>2. /\ \A q \in map : q \in Elems(cache)' \cup Safe'
            /\ \A v \in Peer : peer[v].pc = "evict"
                                 => peer[v].piece \in Elems(cache)' \cup Safe'
            /\ ctrl # NoFile => ctrl \subseteq Safe'
            /\ \A s \in Slot : saves[s] # NoFile => saves[s] \subseteq Safe'
        BY <4>1, <3>2, Somewhere DEF DataInv
      <4>3. DoneInv'
        BY <4>1, <4>2, <3>3 DEF Mark, DoneInv
      <4>4. EvictInv'
        BY <4>2, <3>3 DEF Mark, EvictInv, TypeInv, TypeOK
      <4>5. ClaimInv'
        BY <4>2, <2>3 DEF AcceptDirect, ClaimInv
      <4> QED
        BY <2>framed, <3>2, <4>3, <4>4, <4>5 DEF DataInv
    <3>4. CASE WriteFails(p) /\ Leave(w) /\ UNCHANGED map
      <4>1. Safe \subseteq Safe'
        BY <3>1, <3>4, <2>run, FailedSafe
      <4>2. /\ \A q \in map : q \in Elems(cache)' \cup Safe'
            /\ \A v \in Peer : peer[v].pc = "evict"
                                 => peer[v].piece \in Elems(cache)' \cup Safe'
            /\ ctrl # NoFile => ctrl \subseteq Safe'
            /\ \A s \in Slot : saves[s] # NoFile => saves[s] \subseteq Safe'
        BY <4>1, <3>2, Somewhere DEF DataInv
      <4>3. EvictInv'
        BY <4>2, <3>4, <1>leave
      <4>4. DoneInv' /\ ClaimInv'
        BY <4>2, <3>4, <2>3 DEF AcceptDirect, DoneInv, ClaimInv
      <4> QED
        BY <2>framed, <3>2, <4>3, <4>4 DEF DataInv
    <3> QED
      BY <2>3, <3>3, <3>4 DEF AcceptDirect
  <2>4. CASE AcceptCached(w)
    <3> DEFINE p == peer[w].piece
    <3>1. p \in Piece /\ peer[w].pc = "hashed"
      BY <2>4 DEF AcceptCached, At, TypeInv, PieceKnown
    <3>2. /\ Drop(cache, p) \in Seq(Piece)
          /\ Elems(cache) \ {p} \subseteq Elems(Drop(cache, p))
      BY EntryDropped DEF TypeInv, TypeOK
    <3>3. Elems(Append(Drop(cache, p), p)) = Elems(Drop(cache, p)) \cup {p}
      BY <3>1, <3>2, BackAdded
    <3>4. Elems(cache)' = Elems(Append(Drop(cache, p), p))
      BY <2>4 DEF AcceptCached, Elems
    <3>5. Elems(cache) \cup {p} \subseteq Elems(cache)'
      BY <3>2, <3>3, <3>4
    <3>6. Safe' = Safe
      BY <2>4, SameSafe DEF AcceptCached
    <3>7. /\ \A q \in map : q \in Elems(cache)' \cup Safe'
          /\ \A v \in Peer : peer[v].pc = "evict"
                               => peer[v].piece \in Elems(cache)' \cup Safe'
          /\ ctrl # NoFile => ctrl \subseteq Safe'
          /\ \A s \in Slot : saves[s] # NoFile => saves[s] \subseteq Safe'
      BY <3>5, <3>6, Somewhere DEF DataInv
    <3>8. EvictInv'
      BY <2>4, <3>5, <3>7 DEF AcceptCached, EvictInv, TypeInv, TypeOK
    <3>9. DoneInv' /\ ClaimInv'
      BY <2>4, <3>7 DEF AcceptCached, DoneInv, ClaimInv
    <3>10. CacheOff'
      BY <2>4 DEF AcceptCached, Direct, CacheOff
    <3> QED
      BY <2>framed, <3>8, <3>9, <3>10 DEF DataInv
  <2>5. CASE Evict(w)
    <3> DEFINE p == peer[w].piece
    <3>1. p \in Elems(cache) \cup Safe
      BY <2>5 DEF Evict, At, DataInv, EvictInv
    <3>2. CASE Mark(w, p) /\ UNCHANGED <<disk, cache, bytes>>
      <4>1. DoneInv'
        BY <3>1, <3>2, <1>same, <2>run DEF Mark, DoneInv
      <4>2. EvictInv'
        BY <3>2, <1>same, <2>run DEF Mark, EvictInv, TypeInv, TypeOK
      <4>3. ClaimInv' /\ CacheOff'
        BY <2>5, <3>2, <1>same, <2>run DEF Evict, ClaimInv
      <4> QED
        BY <2>framed, <4>1, <4>2, <4>3 DEF DataInv
    <3>3. CASE /\ cache # <<>> /\ Written(Head(cache)) /\ cache' = Tail(cache)
               /\ UNCHANGED <<map, peer>>
      <4>1. /\ Safe' = Safe \cup {Head(cache)} /\ CacheOff'
            /\ Elems(cache) = {Head(cache)} \cup Elems(cache)'
        BY <3>3, <2>run, <2>open, PieceOut
      <4>2. /\ \A q \in map : q \in Elems(cache)' \cup Safe'
            /\ \A v \in Peer : peer[v].pc = "evict"
                                 => peer[v].piece \in Elems(cache)' \cup Safe'
            /\ ctrl # NoFile => ctrl \subseteq Safe'
            /\ \A s \in Slot : saves[s] # NoFile => saves[s] \subseteq Safe'
        BY <4>1, Somewhere DEF DataInv
      <4> QED
        BY <2>5, <3>3, <4>1, <4>2, <2>framed DEF Evict, DataInv, DoneInv, EvictInv, ClaimInv
    <3>4. CASE cache # <<>> /\ WriteFails(Head(cache)) /\ Leave(w) /\ UNCHANGED store
      <4>1. Head(cache) \in Piece
        BY <3>4, FrontTaken DEF TypeInv, TypeOK
      <4>2. Safe \subseteq Safe' /\ Elems(cache)' = Elems(cache) /\ CacheOff'
        BY <3>4, <4>1, <2>run, FailedSafe DEF Elems, DataInv, CacheOff
      <4>3. /\ \A q \in map : q \in Elems(cache)' \cup Safe'
            /\ \A v \in Peer : peer[v].pc = "evict"
                                 => peer[v].piece \in Elems(cache)' \cup Safe'
            /\ ctrl # NoFile => ctrl \subseteq Safe'
            /\ \A s \in Slot : saves[s] # NoFile => saves[s] \subseteq Safe'
        BY <4>2, Somewhere DEF DataInv
      <4>4. EvictInv'
        BY <4>3, <3>4, <1>leave
      <4> QED
        BY <2>5, <3>4, <4>2, <4>3, <4>4, <2>framed DEF Evict, DataInv, DoneInv, ClaimInv
    <3> QED
      BY <2>5, <3>2, <3>3, <3>4 DEF Evict
  <2>6. CASE StoreDone(w)
    <3>1. EvictInv'
      BY <2>6, <1>same DEF StoreDone, Idle, EvictInv, TypeInv, TypeOK
    <3> QED
      BY <2>6, <3>1, <2>framed, <1>same DEF StoreDone, DataInv, DoneInv, ClaimInv
  <2>7. CASE SaveLater(w)
    <3>1. EvictInv'
      BY <2>7, <1>same, <1>leave DEF SaveLater
    <3>2. \A s \in Slot : saves'[s] = saves[s] \/ saves'[s] = Durable
      BY <2>7 DEF SaveLater, TypeInv, TypeOK
    <3>3. ClaimInv'
      BY <2>7, <3>2, <1>same, DurableSafe DEF SaveLater, ClaimInv
    <3> QED
      BY <2>7, <3>1, <3>3, <2>framed, <1>same DEF SaveLater, DataInv, DoneInv
  <2> QED
    BY <1>peer, <2>1, <2>2, <2>3, <2>4, <2>5, <2>6, <2>7
<1>lands. ASSUME NEW s \in Slot, SaveLands(s) PROVE DataInv'
  <2>1. ctrl' = saves[s] \/ ctrl' = ctrl
    BY <1>lands DEF SaveLands, WriteCtrl
  <2>2. \A t \in Slot : saves'[t] = saves[t] \/ saves'[t] = NoFile
    BY <1>lands DEF SaveLands, TypeInv, TypeOK
  <2>3. ClaimInv'
    BY <1>lands, <2>1, <2>2, <1>same DEF SaveLands, ClaimInv
  <2> QED
    BY <1>lands, <2>3, <1>same DEF SaveLands, DataInv, OpenInv, IdleInv, DoneInv, EvictInv,
       Quiet, At
<1>pause. CASE Pause
  BY <1>pause, <1>same DEF Pause, DataInv, OpenInv, IdleInv, DoneInv, EvictInv, ClaimInv
<1>finish. CASE Finish
  BY <1>finish, <1>same DEF Finish, DataInv, OpenInv, IdleInv, DoneInv, EvictInv, ClaimInv
<1>flush. CASE Flush
  <2>1. /\ opened = sel /\ chosen = sel /\ opened' = opened /\ chosen' = chosen
        /\ sel' = sel /\ eng' \notin {"verify", "listen"}
    BY <1>flush DEF Flush, DataInv, OpenInv, AfterFlush
  <2>2. OpenInv' /\ IdleInv'
    BY <2>1 DEF OpenInv, IdleInv
  <2>3. CASE cache = <<>>
    BY <1>flush, <2>2, <2>3, <1>same DEF Flush, DataInv, DoneInv, EvictInv, ClaimInv
  <2>4. CASE cache # <<>> /\ Written(Head(cache)) /\ cache' = Tail(cache)
    <3>1. /\ Safe' = Safe \cup {Head(cache)} /\ CacheOff'
          /\ Elems(cache) = {Head(cache)} \cup Elems(cache)'
      BY <2>1, <2>4, PieceOut
    <3>2. /\ \A q \in map : q \in Elems(cache)' \cup Safe'
          /\ \A v \in Peer : peer[v].pc = "evict"
                               => peer[v].piece \in Elems(cache)' \cup Safe'
          /\ ctrl # NoFile => ctrl \subseteq Safe'
          /\ \A s \in Slot : saves[s] # NoFile => saves[s] \subseteq Safe'
      BY <3>1, Somewhere DEF DataInv
    <3> QED
      BY <1>flush, <2>2, <3>1, <3>2 DEF Flush, DataInv, DoneInv, EvictInv, ClaimInv
  <2>5. CASE cache # <<>> /\ WriteFails(Head(cache)) /\ cache' = cache
    <3>1. Head(cache) \in Piece
      BY <2>5, FrontTaken DEF TypeInv, TypeOK
    <3>2. Safe \subseteq Safe' /\ Elems(cache)' = Elems(cache) /\ CacheOff'
      BY <2>1, <2>5, <3>1, FailedSafe DEF Elems, DataInv, CacheOff
    <3>3. /\ \A q \in map : q \in Elems(cache)' \cup Safe'
          /\ \A v \in Peer : peer[v].pc = "evict"
                               => peer[v].piece \in Elems(cache)' \cup Safe'
          /\ ctrl # NoFile => ctrl \subseteq Safe'
          /\ \A s \in Slot : saves[s] # NoFile => saves[s] \subseteq Safe'
      BY <3>2, Somewhere DEF DataInv
    <3> QED
      BY <1>flush, <2>2, <3>2, <3>3 DEF Flush, DataInv, DoneInv, EvictInv, ClaimInv
  <2> QED
    BY <1>flush, <2>3, <2>4, <2>5 DEF Flush
<1>now. CASE SaveNow
  <2>1. ctrl' = Durable \/ ctrl' = ctrl
    BY <1>now DEF SaveNow, WriteCtrl
  <2>2. ClaimInv'
    BY <1>now, <2>1, <1>same, DurableSafe DEF SaveNow, ClaimInv
  <2> QED
    BY <1>now, <2>2, <1>same DEF SaveNow, DataInv, OpenInv, IdleInv, DoneInv, EvictInv,
       Quiet, At
<1>delete. CASE DeleteCtrl
  BY <1>delete, <1>same DEF DeleteCtrl, DataInv, OpenInv, IdleInv, DoneInv, EvictInv,
     ClaimInv
<1>end. CASE End
  BY <1>end, <1>same DEF End, DataInv, OpenInv, IdleInv, DoneInv, EvictInv, ClaimInv,
     Quiet, At
<1>crash. CASE Crash
  <2>1. Safe' = Safe
    BY <1>crash, SameSafe DEF Crash, Die
  <2>2. Quiet' /\ EvictInv'
    BY <1>crash DEF Crash, Die, Quiet, At, Idle, EvictInv
  <2>3. ClaimInv'
    BY <1>crash, <2>1 DEF Crash, Die, ClaimInv, DataInv
  <2> QED
    BY <1>crash, <2>2, <2>3 DEF Crash, Die, DataInv, OpenInv, IdleInv, DoneInv, CacheOff
<1>tamper. ~(\E F \in Selections : SelectFiles(F)) /\ ~PowerFailure
           /\ ~(\E f \in File : \E k \in 0..N : Truncate(f, k))
  BY DEF Untampered, SelectFiles, PowerFailure, Truncate
<1>stutter. CASE UNCHANGED vars
  BY <1>stutter, <1>same DEF vars, DataInv, OpenInv, IdleInv, DoneInv, EvictInv, ClaimInv,
     Quiet, At
<1> QED
  BY <1>start, <1>startf, <1>verify, <1>listen, <1>peer, <1>lands, <1>pause, <1>finish,
     <1>flush, <1>now, <1>delete, <1>end, <1>crash, <1>tamper, <1>stutter DEF Next

----------------------------------------------------------------------------
(* What follows, in every behaviour without tampering. *)

LEMMA DataHolds ==
    ASSUME Untampered PROVE Spec => [](TypeInv /\ DataInv)
<1>1. Init => TypeInv /\ DataInv
  BY InitTypeInv, InitDataInv
<1>2. TypeInv /\ DataInv /\ [Next]_vars => (TypeInv /\ DataInv)'
  BY TypeStep, DataStep
<1> QED
  BY <1>1, <1>2, PTL DEF Spec

(* No piece counts as done whose bytes are nowhere: the write-back cache,  *)
(* its evictions and flushes, I/O errors, pauses and crashes together.     *)
THEOREM DoneStays == ASSUME Untampered PROVE Spec => []DoneOnDisk
<1>1. TypeInv /\ DataInv => DoneOnDisk
  <2> SUFFICES ASSUME TypeInv, DataInv, eng # "off", NEW p \in map, p \notin Elems(cache)
               PROVE Cells(p, opened) \subseteq disk
    BY DEF DoneOnDisk
  <2>1. opened = sel
    BY DEF DataInv, OpenInv
  <2>2. p \in Safe
    BY DEF DataInv, DoneInv
  <2> QED
    BY <2>1, <2>2 DEF Safe
<1> QED
  BY <1>1, DataHolds, PTL

(* The control file, and every save still on its way to it, claims only    *)
(* what is on disk: a crash of the process leaves no finished hole.        *)
THEOREM ClaimsSafe == ASSUME Untampered PROVE Spec => []ClaimOnDisk
<1>1. TypeInv /\ DataInv => ClaimOnDisk
  <2> SUFFICES ASSUME DataInv, NEW C \in Claims \ {NoFile}, NEW p \in C
               PROVE Cells(p, sel) \subseteq disk
    BY DEF ClaimOnDisk
  <2>1. C \subseteq Safe
    BY DEF Claims, DataInv, ClaimInv
  <2> QED
    BY <2>1 DEF Safe
<1> QED
  BY <1>1, DataHolds, PTL

----------------------------------------------------------------------------
(* The storage implements ResumeContract. *)

Claimed == UNION (Claims \ {NoFile})

LEMMA ClaimedSafe == ASSUME DataInv PROVE Claimed \subseteq Safe
BY DEF Claimed, Claims, DataInv, ClaimInv

LEMMA SameClaimed == ASSUME UNCHANGED <<ctrl, saves>> PROVE Claimed' = Claimed
BY DEF Claimed, Claims

(* The abstract actions, in terms of the storage. *)
LEMMA ToKeep ==
    ASSUME NEW p \in Piece, Elems(cache)' = Elems(cache) \cup {p}, Safe' = Safe,
           map' = map, Claimed' = Claimed
    PROVE  Contract!Next
BY DEF Contract!Next, Contract!Keep, Claimed

LEMMA ToSpill ==
    ASSUME NEW p \in Piece, Safe' = Safe \cup {p}, Elems(cache)' \subseteq Elems(cache),
           Elems(cache) \ {p} \subseteq Elems(cache)', map' = map, Claimed' = Claimed
    PROVE  Contract!Next
BY DEF Contract!Next, Contract!Spill, Claimed

LEMMA ToGain ==
    ASSUME NEW p \in Piece, Safe' = Safe \/ Safe' = Safe \cup {p},
           p \in Safe' \cup Elems(cache), map' = map \cup {p},
           Elems(cache)' = Elems(cache), Claimed' = Claimed
    PROVE  Contract!Next
BY DEF Contract!Next, Contract!Gain, Claimed

LEMMA ToRecord ==
    ASSUME Safe' = Safe, Elems(cache)' = Elems(cache), map' = map, Claimed' \subseteq Safe
    PROVE  Contract!Next
BY DEF Contract!Next, Contract!Record, Claimed

LEMMA ToRestart ==
    ASSUME Safe' = Safe, Elems(cache)' = {}, map' \subseteq Safe, Claimed' \subseteq Safe
    PROVE  Contract!Next
BY DEF Contract!Next, Contract!Restart, Claimed

LEMMA ToStutter ==
    ASSUME Safe' = Safe, Elems(cache)' = Elems(cache), map' = map, Claimed' = Claimed
    PROVE  UNCHANGED Contract!vars
BY DEF Contract!vars, Claimed

(* A write that fails gets a piece to the disk or changes nothing. *)
LEMMA ToFailed ==
    ASSUME NEW p \in Piece, sel' = sel, WriteFails(p),
           UNCHANGED <<map, cache, ctrl, saves>>
    PROVE  [Contract!Next]_(Contract!vars)
<1>1. Elems(cache)' = Elems(cache) /\ Claimed' = Claimed
  BY SameClaimed DEF Elems
<1>2. CASE Safe' = Safe
  BY <1>1, <1>2, ToStutter
<1>3. CASE Safe' = Safe \cup {p}
  BY <1>1, <1>3, ToSpill
<1> QED
  BY <1>2, <1>3, FailedSafe

(* Every step of the storage is a step of the contract, or none. *)
LEMMA StepMapped ==
    ASSUME Untampered, TypeInv, DataInv, [Next]_vars
    PROVE  [Contract!Next]_(Contract!vars)
<1> USE DEF files, store
<1>0. DataInv'
  BY DataStep
<1>claim. Claimed' \subseteq Safe'
  BY <1>0, ClaimedSafe DEF Claimed, Safe, Claims, DataInv, ClaimInv
<1>same. ASSUME UNCHANGED <<disk, sel, map, cache, ctrl, saves>>
         PROVE  [Contract!Next]_(Contract!vars)
  <2>1. Safe' = Safe /\ Elems(cache)' = Elems(cache) /\ Claimed' = Claimed
    BY <1>same, SameSafe, SameClaimed DEF Elems
  <2> QED
    BY <1>same, <2>1, ToStutter
<1>record. ASSUME UNCHANGED <<disk, sel, map, cache>>
           PROVE  [Contract!Next]_(Contract!vars)
  <2>1. Safe' = Safe /\ Elems(cache)' = Elems(cache)
    BY <1>record, SameSafe DEF Elems
  <2> QED
    BY <1>record, <1>claim, <2>1, ToRecord
<1>start. CASE Start
  <2>1. Safe' = Safe /\ Elems(cache)' = {}
    BY <1>start, SameSafe, NothingCached DEF Start, Elems
  <2>2. map' \subseteq Safe
    BY <1>start, RestoredSafe DEF Start
  <2> QED
    BY <1>claim, <2>1, <2>2, ToRestart
<1>startf. CASE StartFails
  BY <1>startf, <1>same DEF StartFails
<1>verify. CASE Verify
  <2> DEFINE good == {p \in Wanted(chosen) : Cells(p, File) \subseteq disk}
  <2>1. CASE good = {}
    BY <1>verify, <2>1, <1>same DEF Verify
  <2>2. CASE good # {}
    <3>1. map' \subseteq Safe
      BY <1>verify, <2>2, VerifiedSafe DEF Verify
    <3>2. Elems(cache)' = {}
      BY <1>verify, NothingCached DEF Verify, DataInv, IdleInv, Elems
    <3>3. Safe' = Safe
      BY <1>verify, SameSafe DEF Verify
    <3> QED
      BY <1>claim, <3>1, <3>2, <3>3, ToRestart
  <2> QED
    BY <2>1, <2>2
<1>listen. CASE Listen
  BY <1>listen, <1>same DEF Listen
<1>peer. ASSUME NEW w \in Peer,
               \/ \E p \in Piece : Accept(w, p)
               \/ AcceptDuplicate(w) \/ AcceptDirect(w) \/ AcceptCached(w) \/ Evict(w)
               \/ StoreDone(w) \/ SaveLater(w)
         PROVE [Contract!Next]_(Contract!vars)
  <2> DEFINE p == peer[w].piece
  <2>1. CASE \E q \in Piece : Accept(w, q)
    BY <2>1, <1>same DEF Accept
  <2>2. CASE AcceptDuplicate(w)
    BY <2>2, <1>same DEF AcceptDuplicate
  <2>3. CASE AcceptDirect(w)
    <3>1. p \in Piece /\ opened = sel /\ sel' = sel
      BY <2>3, AtWork DEF AcceptDirect, At, TypeInv, PieceKnown
    <3>2. Elems(cache)' = Elems(cache) /\ Claimed' = Claimed
      BY <2>3, SameClaimed DEF AcceptDirect, Elems
    <3>3. CASE Written(p) /\ Mark(w, p)
      <4>1. Safe' = Safe \cup {p} /\ map' = map \cup {p}
        BY <3>1, <3>3, WrittenOne DEF Mark
      <4> QED
        BY <3>1, <3>2, <4>1, ToGain
    <3>4. CASE WriteFails(p) /\ UNCHANGED map
      BY <2>3, <3>1, <3>4, ToFailed DEF AcceptDirect
    <3> QED
      BY <2>3, <3>3, <3>4 DEF AcceptDirect
  <2>4. CASE AcceptCached(w)
    <3>1. p \in Piece
      BY <2>4 DEF AcceptCached, At, TypeInv, PieceKnown
    <3>2. /\ Drop(cache, p) \in Seq(Piece)
          /\ Elems(Drop(cache, p)) \subseteq Elems(cache)
          /\ Elems(cache) \ {p} \subseteq Elems(Drop(cache, p))
      BY EntryDropped DEF TypeInv, TypeOK
    <3>3. Elems(Append(Drop(cache, p), p)) = Elems(Drop(cache, p)) \cup {p}
      BY <3>1, <3>2, BackAdded
    <3>4. Elems(cache)' = Elems(Append(Drop(cache, p), p))
      BY <2>4 DEF AcceptCached, Elems
    <3>5. Elems(cache)' = Elems(cache) \cup {p}
      BY <3>2, <3>3, <3>4
    <3>6. Safe' = Safe /\ Claimed' = Claimed /\ map' = map
      BY <2>4, SameSafe, SameClaimed DEF AcceptCached
    <3> QED
      BY <3>1, <3>5, <3>6, ToKeep
  <2>5. CASE Evict(w)
    <3>1. /\ p \in Piece /\ opened = sel /\ sel' = sel /\ Claimed' = Claimed
          /\ p \in Elems(cache) \cup Safe
      BY <2>5, AtWork, SameClaimed
         DEF Evict, At, TypeInv, PieceKnown, DataInv, EvictInv
    <3>2. CASE Mark(w, p) /\ UNCHANGED <<disk, cache, bytes>>
      <4>1. Safe' = Safe /\ Elems(cache)' = Elems(cache) /\ map' = map \cup {p}
        BY <3>1, <3>2, SameSafe DEF Elems, Mark
      <4> QED
        BY <3>1, <4>1, ToGain
    <3>3. CASE /\ cache # <<>> /\ Written(Head(cache)) /\ cache' = Tail(cache)
               /\ UNCHANGED map
      <4>1. /\ Head(cache) \in Piece /\ Safe' = Safe \cup {Head(cache)}
            /\ Elems(cache) = {Head(cache)} \cup Elems(cache)'
        BY <3>1, <3>3, PieceOut
      <4> QED
        BY <3>1, <3>3, <4>1, ToSpill
    <3>4. CASE cache # <<>> /\ WriteFails(Head(cache)) /\ UNCHANGED store
      <4>1. Head(cache) \in Piece
        BY <3>4, FrontTaken DEF TypeInv, TypeOK
      <4> QED
        BY <2>5, <3>1, <3>4, <4>1, ToFailed DEF Evict
    <3> QED
      BY <2>5, <3>2, <3>3, <3>4 DEF Evict
  <2>6. CASE StoreDone(w)
    BY <2>6, <1>same DEF StoreDone
  <2>7. CASE SaveLater(w)
    BY <2>7, <1>record DEF SaveLater
  <2> QED
    BY <1>peer, <2>1, <2>2, <2>3, <2>4, <2>5, <2>6, <2>7
<1>lands. CASE \E s \in Slot : SaveLands(s)
  BY <1>lands, <1>record DEF SaveLands
<1>pause. CASE Pause
  BY <1>pause, <1>same DEF Pause
<1>finish. CASE Finish
  BY <1>finish, <1>same DEF Finish
<1>flush. CASE Flush
  <2>1. opened = sel /\ sel' = sel /\ map' = map /\ Claimed' = Claimed
    BY <1>flush, SameClaimed DEF Flush, DataInv, OpenInv
  <2>2. CASE cache = <<>>
    BY <1>flush, <2>2, <1>same DEF Flush
  <2>3. CASE cache # <<>> /\ Written(Head(cache)) /\ cache' = Tail(cache)
    <3>1. /\ Head(cache) \in Piece /\ Safe' = Safe \cup {Head(cache)}
          /\ Elems(cache) = {Head(cache)} \cup Elems(cache)'
      BY <2>1, <2>3, PieceOut
    <3> QED
      BY <2>1, <3>1, ToSpill
  <2>4. CASE cache # <<>> /\ WriteFails(Head(cache)) /\ UNCHANGED cache
    <3>1. Head(cache) \in Piece
      BY <2>4, FrontTaken DEF TypeInv, TypeOK
    <3> QED
      BY <1>flush, <2>1, <2>4, <3>1, ToFailed DEF Flush
  <2> QED
    BY <1>flush, <2>2, <2>3, <2>4 DEF Flush
<1>now. CASE SaveNow
  BY <1>now, <1>record DEF SaveNow
<1>delete. CASE DeleteCtrl
  BY <1>delete, <1>record DEF DeleteCtrl
<1>end. CASE End
  BY <1>end, <1>same DEF End
<1>crash. CASE Crash
  <2>1. Safe' = Safe /\ Elems(cache)' = {} /\ map' \subseteq Safe
    BY <1>crash, SameSafe, NothingCached DEF Crash, Die, Elems
  <2> QED
    BY <1>claim, <2>1, ToRestart
<1>tamper. ~(\E F \in Selections : SelectFiles(F)) /\ ~PowerFailure
           /\ ~(\E f \in File : \E k \in 0..N : Truncate(f, k))
  BY DEF Untampered, SelectFiles, PowerFailure, Truncate
<1>stutter. CASE UNCHANGED vars
  BY <1>stutter, <1>same DEF vars
<1> QED
  BY <1>start, <1>startf, <1>verify, <1>listen, <1>peer, <1>lands, <1>pause, <1>finish,
     <1>flush, <1>now, <1>delete, <1>end, <1>crash, <1>tamper, <1>stutter DEF Next

(* The store, the control file and the engine together keep the contract   *)
(* of ResumeContract.                                                      *)
THEOREM Implements == ASSUME Untampered PROVE Spec => KeepsContract
<1>1. Init => Contract!Init
  <2> SUFFICES ASSUME Init PROVE Contract!Init
    OBVIOUS
  <2>1. Elems(cache) = {} /\ map = {}
    BY NothingCached DEF Init
  <2>2. UNION (Claims \ {NoFile}) = {}
    BY DEF Init, Claims
  <2>3. Safe \subseteq Piece
    BY DEF Safe
  <2> QED
    BY <2>1, <2>2, <2>3 DEF Contract!Init
<1>2. TypeInv /\ DataInv /\ [Next]_vars => [Contract!Next]_(Contract!vars)
  BY StepMapped
<1> QED
  BY <1>1, <1>2, DataHolds, PTL DEF Spec, KeepsContract, Contract!Spec

----------------------------------------------------------------------------
(* Progress. *)

(* What is stored, or will be by a session that has left the lock, counts  *)
(* no more than the map.                                                   *)
ProgInv ==
    /\ done <= Count(map, chosen)
    /\ \A w \in Peer : At(w, "count") => peer[w].val <= Count(map, chosen)

LEMMA ProgStep ==
    ASSUME Untampered, TypeInv, DataInv, ProgInv, [Next]_vars PROVE ProgInv'
<1> USE DEF files, store
<1>nat. done \in Nat /\ \A w \in Peer : peer[w].val \in Nat
  BY DEF TypeInv, TypeOK
<1>c. Count(map, chosen)' = Count(map', chosen')
  BY DEF Count
<1>same. ASSUME UNCHANGED <<map, chosen, done>>,
                \A w \in Peer : At(w, "count")' => peer'[w] = peer[w]
         PROVE  ProgInv'
  <2>1. Count(map, chosen)' = Count(map, chosen)
    BY <1>same, <1>c
  <2> QED
    BY <1>same, <2>1 DEF ProgInv, At
<1>leave. ASSUME NEW w \in Peer, Leave(w)
          PROVE  \A v \in Peer : At(v, "count")' => peer'[v] = peer[v]
  BY <1>leave DEF Leave, Idle, At, TypeInv, TypeOK
<1>quiet. ASSUME Quiet, UNCHANGED peer PROVE \A w \in Peer : ~At(w, "count")'
  BY <1>quiet DEF Quiet, At
<1>start. CASE Start
  <2>1. done' = Count(map', chosen')
    BY <1>start DEF Start
  <2>2. done' \in Nat
    BY <2>1, CountNat
  <2>3. \A w \in Peer : ~At(w, "count")'
    BY <1>start, <1>quiet DEF Start, Quiet
  <2> QED
    BY <1>c, <2>1, <2>2, <2>3 DEF ProgInv
<1>startf. CASE StartFails
  BY <1>startf, <1>same DEF StartFails, At
<1>verify. CASE Verify
  <2> DEFINE good == {p \in Wanted(chosen) : Cells(p, File) \subseteq disk}
  <2>1. CASE good = {}
    BY <1>verify, <2>1, <1>same DEF Verify, At
  <2>2. CASE good # {}
    <3>1. done' = Count(map', chosen')
      BY <1>verify, <2>2 DEF Verify
    <3>2. done' \in Nat
      BY <3>1, CountNat
    <3>3. \A w \in Peer : ~At(w, "count")'
      BY <1>verify, <1>quiet DEF Verify, DataInv, IdleInv
    <3> QED
      BY <1>c, <3>1, <3>2, <3>3 DEF ProgInv
  <2> QED
    BY <2>1, <2>2
<1>listen. CASE Listen
  BY <1>listen, <1>same DEF Listen, At
<1>mark. ASSUME NEW w \in Peer, NEW p, Mark(w, p), UNCHANGED <<chosen, done>>
         PROVE  ProgInv'
  <2> DEFINE c == Count(map \cup {p}, chosen)
  <2>1. Count(map, chosen) <= c
    BY CountGrows
  <2>2. c \in Nat /\ Count(map, chosen) \in Nat /\ Count(map, chosen)' = c
    BY <1>mark, <1>c, CountNat DEF Mark
  <2>3. ASSUME NEW v \in Peer, At(v, "count")' PROVE peer'[v].val <= c
    <3>1. CASE v = w
      BY <1>mark, <3>1, <2>2 DEF Mark, TypeInv, TypeOK
    <3>2. CASE v # w
      <4>1. peer'[v] = peer[v]
        BY <1>mark, <3>2 DEF Mark, TypeInv, TypeOK
      <4>2. peer[v].val <= Count(map, chosen) /\ peer[v].val \in Nat
        BY <2>3, <4>1, <1>nat DEF ProgInv, At
      <4> HIDE DEF c
      <4> QED
        BY <4>1, <4>2, <2>1, <2>2
    <3> QED
      BY <3>1, <3>2
  <2>4. done' <= c
    <3> HIDE DEF c
    <3> QED
      BY <1>mark, <2>1, <2>2, <1>nat DEF ProgInv
  <2> QED
    BY <2>2, <2>3, <2>4 DEF ProgInv
<1>peer. ASSUME NEW w \in Peer,
               \/ \E p \in Piece : Accept(w, p)
               \/ AcceptDuplicate(w) \/ AcceptDirect(w) \/ AcceptCached(w) \/ Evict(w)
               \/ StoreDone(w) \/ SaveLater(w)
         PROVE ProgInv'
  <2>1. ASSUME NEW p \in Piece, Accept(w, p) PROVE ProgInv'
    <3>1. \A v \in Peer : At(v, "count")' => peer'[v] = peer[v]
      BY <2>1 DEF Accept, Idle, At, TypeInv, TypeOK
    <3> QED
      BY <2>1, <3>1, <1>same DEF Accept
  <2>2. CASE AcceptDuplicate(w)
    BY <2>2, <1>leave, <1>same DEF AcceptDuplicate
  <2>3. CASE AcceptDirect(w)
    <3>1. \/ Mark(w, peer[w].piece)
          \/ Leave(w) /\ UNCHANGED map
      BY <2>3 DEF AcceptDirect
    <3>2. UNCHANGED <<chosen, done>>
      BY <2>3 DEF AcceptDirect
    <3> QED
      BY <3>1, <3>2, <1>mark, <1>leave, <1>same
  <2>4. CASE AcceptCached(w)
    <3>1. \A v \in Peer : At(v, "count")' => peer'[v] = peer[v]
      BY <2>4 DEF AcceptCached, At, TypeInv, TypeOK
    <3> QED
      BY <2>4, <3>1, <1>same DEF AcceptCached
  <2>5. CASE Evict(w)
    <3>1. \/ Mark(w, peer[w].piece)
          \/ UNCHANGED <<map, peer>>
          \/ Leave(w) /\ UNCHANGED map
      BY <2>5 DEF Evict
    <3>2. UNCHANGED <<chosen, done>>
      BY <2>5 DEF Evict
    <3>3. CASE UNCHANGED <<map, peer>>
      BY <3>2, <3>3, <1>same DEF At
    <3> QED
      BY <3>1, <3>2, <3>3, <1>mark, <1>leave, <1>same
  <2>6. CASE StoreDone(w)
    <3>1. done' <= Count(map, chosen) /\ Count(map, chosen)' = Count(map, chosen)
      BY <2>6, <1>c DEF StoreDone, ProgInv
    <3>2. \A v \in Peer : At(v, "count")' => peer'[v] = peer[v]
      BY <2>6 DEF StoreDone, Idle, At, TypeInv, TypeOK
    <3> QED
      BY <3>1, <3>2 DEF ProgInv, At
  <2>7. CASE SaveLater(w)
    BY <2>7, <1>leave, <1>same DEF SaveLater
  <2> QED
    BY <1>peer, <2>1, <2>2, <2>3, <2>4, <2>5, <2>6, <2>7
<1>calm. ASSUME UNCHANGED <<map, chosen, done, peer>> PROVE ProgInv'
  BY <1>calm, <1>same DEF At
<1>rest. CASE (\E s \in Slot : SaveLands(s)) \/ Pause \/ Finish \/ Flush \/ SaveNow
              \/ DeleteCtrl \/ End
  BY <1>rest, <1>calm DEF SaveLands, Pause, Finish, Flush, SaveNow, DeleteCtrl, End
<1>crash. CASE Crash
  <2>1. done' = 0 /\ Count(map, chosen)' \in Nat
    BY <1>crash, <1>c, CountNat DEF Crash, Die
  <2>2. \A w \in Peer : ~At(w, "count")'
    BY <1>crash DEF Crash, Die, Idle, At
  <2> QED
    BY <2>1, <2>2 DEF ProgInv
<1>tamper. ~(\E F \in Selections : SelectFiles(F)) /\ ~PowerFailure
           /\ ~(\E f \in File : \E k \in 0..N : Truncate(f, k))
  BY DEF Untampered, SelectFiles, PowerFailure, Truncate
<1>stutter. CASE UNCHANGED vars
  BY <1>stutter, <1>calm DEF vars
<1> QED
  BY <1>start, <1>startf, <1>verify, <1>listen, <1>peer, <1>rest, <1>crash, <1>tamper,
     <1>stutter DEF Next

(* The progress shown is never ahead of the bitmap, for any number of      *)
(* sessions that store their counts late and in any order.                 *)
THEOREM ProgressHonest == ASSUME Untampered PROVE Spec => []ProgressNotAhead
<1>1. Init => ProgInv
  <2> SUFFICES ASSUME Init PROVE ProgInv
    OBVIOUS
  <2>1. done = 0 /\ Count(map, chosen) \in Nat /\ \A w \in Peer : ~At(w, "count")
    BY CountNat DEF Init, Idle, At
  <2> QED
    BY <2>1 DEF ProgInv
<1>2. TypeInv /\ DataInv /\ ProgInv /\ [Next]_vars => ProgInv'
  BY ProgStep
<1>3. ProgInv => ProgressNotAhead
  BY DEF ProgInv, ProgressNotAhead, Count, ChosenCells
<1> QED
  BY <1>1, <1>2, <1>3, DataHolds, PTL DEF Spec

----------------------------------------------------------------------------
(* Completion. *)

(* From the last flush on, the wanted pieces are on their way to the disk. *)
FinInv ==
    /\ eng = "finflush" => Wanted(chosen) \subseteq map
    /\ eng \in {"delete", "done"} \/ complete => chosen = sel /\ Wanted(chosen) \subseteq Safe

LEMMA FinStep ==
    ASSUME Untampered, "ioerr" \notin Op, TypeInv, DataInv, FinInv, [Next]_vars
    PROVE  FinInv'
<1> USE DEF files, store
<1>tamper. ~(\E F \in Selections : SelectFiles(F)) /\ ~PowerFailure
           /\ ~(\E f \in File : \E k \in 0..N : Truncate(f, k))
  BY DEF Untampered, SelectFiles, PowerFailure, Truncate
<1>start. CASE Start
  BY <1>start DEF Start, FinInv
<1>keep. ASSUME UNCHANGED <<sel, chosen, complete>>, Safe \subseteq Safe',
                \/ eng' = eng /\ map \subseteq map'
                \/ eng' \in {"off", "listen", "run", "flush", "save"}
         PROVE  FinInv'
  <2>1. Wanted(chosen)' = Wanted(chosen)
    BY <1>keep DEF Wanted
  <2> QED
    BY <1>keep, <2>1 DEF FinInv
<1>early. CASE StartFails \/ Verify \/ Listen
  <2>1. Safe \subseteq Safe'
    BY <1>early, SafeGrows DEF StartFails, Verify, Listen
  <2> QED
    BY <1>early, <2>1, <1>keep DEF StartFails, Verify, Listen
<1>peer. ASSUME NEW w \in Peer,
               \/ \E p \in Piece : Accept(w, p)
               \/ AcceptDuplicate(w) \/ AcceptDirect(w) \/ AcceptCached(w) \/ Evict(w)
               \/ StoreDone(w) \/ SaveLater(w)
         PROVE FinInv'
  <2>1. disk \subseteq disk' /\ map \subseteq map' /\ UNCHANGED <<sel, chosen, complete, eng>>
    BY <1>peer DEF Accept, AcceptDuplicate, AcceptDirect, AcceptCached, Evict, StoreDone,
       SaveLater, Written, WriteFails, Mark
  <2> QED
    BY <2>1, SafeGrows, <1>keep
<1>calm. CASE (\E s \in Slot : SaveLands(s)) \/ Pause \/ SaveNow
  <2>1. Safe \subseteq Safe'
    BY <1>calm, SafeGrows DEF SaveLands, Pause, SaveNow
  <2> QED
    BY <1>calm, <2>1, <1>keep DEF SaveLands, Pause, SaveNow
<1>finish. CASE Finish
  <2>1. Safe' = Safe /\ Wanted(chosen)' = Wanted(chosen)
    BY <1>finish, SameSafe DEF Finish, Wanted
  <2> QED
    BY <1>finish, <2>1 DEF Finish, FinInv
<1>flush. CASE Flush
  <2>1. disk \subseteq disk' /\ UNCHANGED <<sel, chosen, complete, map>>
    BY <1>flush DEF Flush, Written, WriteFails
  <2>2. Safe \subseteq Safe' /\ Wanted(chosen)' = Wanted(chosen)
    BY <2>1, SafeGrows DEF Wanted
  <2>3. CASE eng' = eng
    BY <2>1, <2>2, <2>3, <1>keep
  <2>4. CASE eng' # eng
    <3>1. cache = <<>> /\ eng' = AfterFlush
      BY <1>flush, <2>4 DEF Flush, WriteFails
    <3>2. CASE eng = "flush"
      BY <3>1, <3>2, <2>1, <2>2, <1>keep DEF AfterFlush
    <3>3. CASE eng = "finflush"
      <4>1. chosen = sel /\ Wanted(chosen) \subseteq map
        BY <3>3 DEF FinInv, DataInv, OpenInv
      <4>2. map \subseteq Safe
        BY <3>1, NothingCached DEF DataInv, DoneInv
      <4> QED
        BY <3>1, <3>3, <4>1, <4>2, <2>1, <2>2 DEF AfterFlush, FinInv
    <3> QED
      BY <1>flush, <3>2, <3>3 DEF Flush
  <2> QED
    BY <2>3, <2>4
<1>end. CASE DeleteCtrl \/ End
  <2>1. Safe' = Safe /\ Wanted(chosen)' = Wanted(chosen)
    BY <1>end, SameSafe DEF DeleteCtrl, End, Wanted
  <2> QED
    BY <1>end, <2>1 DEF DeleteCtrl, End, FinInv
<1>crash. CASE Crash
  <2>1. Safe \subseteq Safe'
    BY <1>crash, SafeGrows DEF Crash, Die
  <2> QED
    BY <1>crash, <2>1, <1>keep DEF Crash, Die
<1>stutter. CASE UNCHANGED vars
  BY <1>stutter, SameSafe, <1>keep DEF vars
<1> QED
  BY <1>start, <1>early, <1>peer, <1>calm, <1>finish, <1>flush, <1>end, <1>crash, <1>tamper,
     <1>stutter DEF Next

LEMMA FinStarts == ASSUME Init PROVE FinInv
  BY DEF Init, FinInv

LEMMA FinSafe == FinInv => CompleteOnDisk
  BY DEF FinInv, CompleteOnDisk, Safe

(* When no write fails, a task that is Complete has all its wanted data on *)
(* disk, however it was paused and restarted (FinishLoses shows what an    *)
(* error of the last flush does).                                          *)
THEOREM CompletionSafe ==
    ASSUME Untampered, "ioerr" \notin Op PROVE Spec => []CompleteOnDisk
<1>1. Init => FinInv
  BY FinStarts
<1>2. TypeInv /\ DataInv /\ FinInv /\ [Next]_vars => FinInv'
  BY FinStep
<1> QED
  BY <1>1, <1>2, FinSafe, DataHolds, PTL DEF Spec

----------------------------------------------------------------------------
(* The write-back cache. *)

Once(s) == \A i, j \in DOMAIN s : s[i] = s[j] => i = j

LEMMA OnceTail ==
    ASSUME NEW S, NEW s \in Seq(S), s # <<>>, Once(s)
    PROVE  Once(Tail(s)) /\ Head(s) \notin Elems(Tail(s))
<1>1. Len(s) \in Nat /\ Len(s) > 0 /\ DOMAIN s = 1..Len(s) /\ Head(s) = s[1]
  OBVIOUS
<1>2. DOMAIN Tail(s) = 1 .. Len(s) - 1 /\ \A i \in 1 .. Len(s) - 1 : Tail(s)[i] = s[i + 1]
  BY <1>1
<1>3. ASSUME NEW i \in DOMAIN Tail(s), NEW j \in DOMAIN Tail(s), Tail(s)[i] = Tail(s)[j]
      PROVE  i = j
  <2>1. /\ i + 1 \in DOMAIN s /\ Tail(s)[i] = s[i + 1]
        /\ j + 1 \in DOMAIN s /\ Tail(s)[j] = s[j + 1]
    BY <1>1, <1>2
  <2>2. i + 1 = j + 1
    BY <1>3, <2>1 DEF Once
  <2> QED
    BY <1>1, <1>2, <2>2
<1>4. ASSUME NEW i \in DOMAIN Tail(s) PROVE Tail(s)[i] # Head(s)
  <2>1. i + 1 \in DOMAIN s /\ 1 \in DOMAIN s /\ i + 1 # 1 /\ Tail(s)[i] = s[i + 1]
    BY <1>1, <1>2
  <2> QED
    BY <1>1, <2>1 DEF Once
<1> QED
  BY <1>3, <1>4 DEF Once, Elems

LEMMA OnceDropped ==
    ASSUME NEW S, NEW s \in Seq(S), NEW p, Once(s)
    PROVE  Once(Drop(s, p)) /\ p \notin Elems(Drop(s, p))
<1>1. CASE p \notin Elems(s)
  BY <1>1 DEF Drop
<1>2. CASE p \in Elems(s)
  <2> DEFINE k == CHOOSE i \in DOMAIN s : s[i] = p
             d == [i \in 1 .. Len(s) - 1 |-> IF i < k THEN s[i] ELSE s[i + 1]]
             g(i) == IF i < k THEN i ELSE i + 1
  <2>1. k \in DOMAIN s /\ s[k] = p
    BY <1>2 DEF Elems
  <2>2. Drop(s, p) = d
    BY <1>2 DEF Drop
  <2> HIDE DEF k
  <2>3. Len(s) \in Nat /\ DOMAIN s = 1..Len(s) /\ k \in 1..Len(s)
    BY <2>1
  <2>4. DOMAIN d = 1 .. Len(s) - 1
    OBVIOUS
  <2>5. ASSUME NEW i \in 1 .. Len(s) - 1
        PROVE  d[i] = s[g(i)] /\ g(i) \in DOMAIN s /\ g(i) # k
    BY <2>3
  <2>6. ASSUME NEW i \in 1 .. Len(s) - 1, NEW j \in 1 .. Len(s) - 1, d[i] = d[j] PROVE i = j
    <3>1. g(i) = g(j)
      BY <2>5, <2>6 DEF Once
    <3> QED
      BY <2>3, <3>1
  <2>7. ASSUME NEW i \in 1 .. Len(s) - 1 PROVE d[i] # p
    <3>1. g(i) \in DOMAIN s /\ g(i) # k /\ d[i] = s[g(i)]
      BY <2>5
    <3> QED
      BY <2>1, <3>1 DEF Once
  <2> HIDE DEF d, g
  <2> QED
    BY <2>2, <2>4, <2>6, <2>7 DEF Once, Elems
<1> QED
  BY <1>1, <1>2

LEMMA OnceAdded ==
    ASSUME NEW S, NEW s \in Seq(S), NEW p \in S, Once(s), p \notin Elems(s)
    PROVE  Once(Append(s, p))
<1>1. Len(s) \in Nat /\ DOMAIN s = 1..Len(s)
  OBVIOUS
<1>2. /\ DOMAIN Append(s, p) = 1 .. Len(s) + 1
      /\ \A i \in 1..Len(s) : Append(s, p)[i] = s[i] /\ s[i] # p
      /\ Append(s, p)[Len(s) + 1] = p
  BY <1>1 DEF Elems
<1>3. ASSUME NEW i \in DOMAIN Append(s, p), NEW j \in DOMAIN Append(s, p),
             Append(s, p)[i] = Append(s, p)[j]
      PROVE  i = j
  <2>1. (i \in DOMAIN s \/ i = Len(s) + 1) /\ (j \in DOMAIN s \/ j = Len(s) + 1)
    BY <1>1, <1>2
  <2> QED
    BY <1>1, <1>2, <1>3, <2>1 DEF Once
<1> QED
  BY <1>3 DEF Once

(* One piece more takes its length more. *)
LEMMA UnitsAdded ==
    ASSUME NEW P \in SUBSET Piece, NEW p \in Piece, p \notin P, IsFiniteSet(Units(P))
    PROVE  /\ IsFiniteSet(Units(P \cup {p}))
           /\ Cardinality(Units(P \cup {p})) = Cardinality(Units(P)) + PieceLen[p]
<1> DEFINE T == {p} \X (1 .. PieceLen[p])
<1>1. PieceLen[p] \in Nat \ {0}
  BY ConstantsAssumption
<1>2. IsFiniteSet(1 .. PieceLen[p]) /\ Cardinality(1 .. PieceLen[p]) = PieceLen[p]
  BY <1>1, FS_Interval
<1>3. IsFiniteSet({p}) /\ Cardinality({p}) = 1
  BY FS_Singleton
<1>4. IsFiniteSet(T) /\ Cardinality(T) = Cardinality({p}) * Cardinality(1 .. PieceLen[p])
  BY <1>2, <1>3, FS_Product
<1>5. Units(P \cup {p}) = Units(P) \cup T /\ Units(P) \cap T = {}
  BY DEF Units
<1> HIDE DEF T
<1>6. /\ IsFiniteSet(Units(P) \cup T)
      /\ Cardinality(Units(P) \cup T)
         = Cardinality(Units(P)) + Cardinality(T) - Cardinality(Units(P) \cap T)
  BY <1>4, FS_Union
<1>7. Cardinality(Units(P) \cap T) = 0 /\ Cardinality(Units(P)) \in Nat
  BY <1>5, FS_EmptySet, FS_CardinalityType
<1>8. Cardinality(T) = PieceLen[p]
  BY <1>1, <1>2, <1>3, <1>4
<1>9. Cardinality(Units(P) \cup T) = Cardinality(Units(P)) + PieceLen[p]
  BY <1>1, <1>6, <1>7, <1>8
<1> QED
  BY <1>5, <1>6, <1>9

(* Everything cached is a piece. *)
LEMMA ElemsIn == ASSUME NEW S, NEW s \in Seq(S) PROVE Elems(s) \subseteq S
<1>1. \A i \in DOMAIN s : s[i] \in S
  OBVIOUS
<1> QED
  BY <1>1 DEF Elems

CacheInv == CacheBounded /\ CacheAccounted /\ IsFiniteSet(Units(Elems(cache)))

LEMMA NoUnits ==
    /\ IsFiniteSet(Units(Elems(<<>>))) /\ Cardinality(Units(Elems(<<>>))) = 0
    /\ Once(<<>>)
<1>1. Units({}) = {} /\ Once(<<>>)
  BY DEF Units, Once
<1> QED
  BY <1>1, NothingCached, FS_EmptySet

LEMMA CacheStarts == Init => CacheInv
  BY NoUnits, ConstantsAssumption DEF Init, CacheInv, CacheBounded, CacheAccounted, Once

(* The oldest piece leaves the cache, and its bytes with it. *)
LEMMA OldestOut ==
    ASSUME TypeInv, CacheInv, cache # <<>>, cache' = Tail(cache),
           bytes' = bytes - PieceLen[Head(cache)]
    PROVE  CacheAccounted' /\ IsFiniteSet(Units(Elems(cache)))'
<1> DEFINE P == Elems(Tail(cache))
<1>1. /\ Head(cache) \in Piece /\ Elems(cache) = {Head(cache)} \cup P
      /\ P \subseteq Elems(cache) /\ Elems(cache) \subseteq Piece
  <2>1. cache \in Seq(Piece)
    BY DEF TypeInv, TypeOK
  <2> QED
    BY <2>1, FrontTaken, ElemsIn
<1>2. Once(Tail(cache)) /\ Head(cache) \notin P
  BY OnceTail DEF TypeInv, TypeOK, CacheInv, CacheAccounted, Once
<1>3. Units(P) \subseteq Units(Elems(cache))
  BY <1>1 DEF Units
<1>4. IsFiniteSet(Units(P)) /\ Cardinality(Units(P)) \in Nat
  BY <1>3, FS_Subset, FS_CardinalityType DEF CacheInv
<1>5. Elems(cache) = P \cup {Head(cache)} /\ PieceLen[Head(cache)] \in Nat
  BY <1>1, ConstantsAssumption
<1>6. Cardinality(Units(Elems(cache))) = Cardinality(Units(P)) + PieceLen[Head(cache)]
  BY <1>1, <1>2, <1>4, <1>5, UnitsAdded
<1>7. bytes' = Cardinality(Units(P))
  BY <1>4, <1>5, <1>6 DEF CacheInv, CacheAccounted
<1>8. Elems(cache)' = P
  OBVIOUS
<1> QED
  BY <1>2, <1>4, <1>7, <1>8 DEF CacheAccounted, Once

LEMMA CacheStep ==
    ASSUME "ioerr" \notin Op, TypeInv, CacheInv, [Next]_vars
    PROVE  CacheInv'
<1> USE DEF files, store
<1>same. ASSUME UNCHANGED <<cache, bytes>>, ~Locked' => ~Locked PROVE CacheInv'
  BY <1>same DEF CacheInv, CacheBounded, CacheAccounted
<1>empty. ASSUME cache' = <<>>, bytes' = 0 PROVE CacheInv'
  <2>1. Elems(cache)' = Elems(<<>>) /\ Limit \in Nat
    BY <1>empty, ConstantsAssumption
  <2> QED
    BY <1>empty, <2>1, NoUnits DEF CacheInv, CacheBounded, CacheAccounted, Once
<1>start. CASE Start \/ Crash \/ PowerFailure
  BY <1>start, <1>empty DEF Start, Crash, PowerFailure, Die
<1>eng. CASE StartFails \/ Verify \/ Listen \/ SaveNow \/ DeleteCtrl \/ End
  <2>1. ~Locked' => ~Locked
    BY <1>eng DEF StartFails, Verify, Listen, SaveNow, DeleteCtrl, End, Locked
  <2> QED
    BY <1>eng, <2>1, <1>same DEF StartFails, Verify, Listen, SaveNow, DeleteCtrl, End
<1>lock. CASE Pause \/ Finish
  BY <1>lock, <1>same DEF Pause, Finish
<1>calm. CASE \/ \E s \in Slot : SaveLands(s)
              \/ \E F \in Selections : SelectFiles(F)
              \/ \E f \in File : \E k \in 0..N : Truncate(f, k)
              \/ UNCHANGED vars
  <2>1. UNCHANGED <<cache, bytes, eng, peer>>
    BY <1>calm DEF SaveLands, SelectFiles, Truncate, vars
  <2> QED
    BY <2>1, <1>same DEF Locked
<1>peer. ASSUME NEW w \in Peer,
               \/ \E p \in Piece : Accept(w, p)
               \/ AcceptDuplicate(w) \/ AcceptDirect(w) \/ StoreDone(w) \/ SaveLater(w)
         PROVE CacheInv'
  <2>1. UNCHANGED <<cache, bytes, eng>> /\ ~At(w, "evict")
    BY <1>peer DEF Accept, AcceptDuplicate, AcceptDirect, StoreDone, SaveLater, At
  <2>2. \A v \in Peer : v # w => peer'[v] = peer[v]
    BY <1>peer DEF Accept, AcceptDuplicate, AcceptDirect, StoreDone, SaveLater, Leave, Mark,
       TypeInv, TypeOK
  <2>3. ~Locked' => ~Locked
    BY <2>1, <2>2 DEF Locked, At
  <2> QED
    BY <2>1, <2>3, <1>same
<1>cached. ASSUME NEW w \in Peer, AcceptCached(w) PROVE CacheInv'
  <2> DEFINE p == peer[w].piece
             d == Drop(cache, p)
             P == Elems(d)
  <2>1. /\ p \in Piece /\ cache' = Append(d, p)
        /\ bytes' = IF p \in Elems(cache) THEN bytes ELSE bytes + PieceLen[p]
    BY <1>cached DEF AcceptCached, TypeInv, PieceKnown, At
  <2>2. peer'[w].pc = "evict"
    BY <1>cached DEF AcceptCached, TypeInv, TypeOK
  <2>3. Locked'
    BY <2>2 DEF Locked
  <2>4. cache \in Seq(Piece) /\ Once(cache)
    BY DEF TypeInv, TypeOK, CacheInv, CacheAccounted, Once
  <2> HIDE DEF p
  <2>5. /\ d \in Seq(Piece) /\ P \subseteq Elems(cache)
        /\ Elems(cache) \ {p} \subseteq P
    BY <2>4, EntryDropped
  <2>6. Once(d) /\ p \notin P
    BY <2>4, OnceDropped
  <2>7. P \subseteq Piece /\ Units(P) \subseteq Units(Elems(cache))
    <3>1. P \subseteq Piece
      BY <2>5, ElemsIn
    <3> QED
      BY <2>5, <3>1 DEF Units
  <2> HIDE DEF d, P
  <2>8. Elems(Append(d, p)) = P \cup {p}
    BY <2>1, <2>5, BackAdded DEF P
  <2>9. Once(Append(d, p))
    BY <2>1, <2>5, <2>6, OnceAdded DEF P
  <2>10. IsFiniteSet(Units(P)) /\ Cardinality(Units(P)) \in Nat
    BY <2>7, FS_Subset, FS_CardinalityType DEF CacheInv
  <2>11. /\ IsFiniteSet(Units(P \cup {p}))
         /\ Cardinality(Units(P \cup {p})) = Cardinality(Units(P)) + PieceLen[p]
    BY <2>1, <2>6, <2>7, <2>10, UnitsAdded
  <2>12. bytes' = Cardinality(Units(P \cup {p}))
    <3>1. CASE p \in Elems(cache)
      <4>1. P \cup {p} = Elems(cache)
        BY <3>1, <2>5
      <4> QED
        BY <2>1, <3>1, <4>1 DEF CacheInv, CacheAccounted
    <3>2. CASE p \notin Elems(cache)
      <4>1. P = Elems(cache)
        BY <3>2, <2>5
      <4> QED
        BY <2>1, <2>11, <3>2, <4>1 DEF CacheInv, CacheAccounted
    <3> QED
      BY <3>1, <3>2
  <2>13. Elems(cache)' = P \cup {p}
    BY <2>1, <2>8
  <2> QED
    BY <2>1, <2>3, <2>9, <2>11, <2>12, <2>13 DEF CacheInv, CacheBounded, CacheAccounted, Once
<1>nothing. cache = <<>> => bytes <= Limit
  BY NoUnits, ConstantsAssumption DEF CacheInv, CacheAccounted
<1>evict. ASSUME NEW w \in Peer, Evict(w) PROVE CacheInv'
  <2>1. CASE UNCHANGED <<cache, bytes>>
    <3>1. bytes <= Limit
      BY <1>evict, <2>1, <1>nothing DEF Evict, WriteFails
    <3> QED
      BY <2>1, <3>1 DEF CacheInv, CacheBounded, CacheAccounted
  <2>2. CASE cache # <<>> /\ cache' = Tail(cache) /\ bytes' = bytes - PieceLen[Head(cache)]
             /\ UNCHANGED <<eng, peer>>
    <3>1. Locked'
      BY <1>evict, <2>2 DEF Evict, At, Locked
    <3> QED
      BY <2>2, <3>1, OldestOut DEF CacheInv, CacheBounded
  <2> QED
    BY <1>evict, <2>1, <2>2 DEF Evict, WriteFails
<1>flush. CASE Flush
  <2>1. CASE cache = <<>>
    <3>1. UNCHANGED <<cache, bytes>>
      BY <1>flush, <2>1 DEF Flush
    <3> QED
      BY <2>1, <3>1, <1>nothing DEF CacheInv, CacheBounded, CacheAccounted
  <2>2. CASE cache # <<>>
    <3>1. cache' = Tail(cache) /\ bytes' = bytes - PieceLen[Head(cache)] /\ eng' = eng
      BY <1>flush, <2>2 DEF Flush, WriteFails
    <3>2. Locked'
      BY <1>flush, <3>1 DEF Flush, Locked
    <3> QED
      BY <2>2, <3>1, <3>2, OldestOut DEF CacheInv, CacheBounded
  <2> QED
    BY <2>1, <2>2
<1> QED
  BY <1>start, <1>eng, <1>lock, <1>calm, <1>peer, <1>cached, <1>evict, <1>flush DEF Next

----------------------------------------------------------------------------
(* The behaviours of MCBtData: its storage, and the table of the sessions,  *)
(* of which BtEngineProofs proves the invariant.  The picker, the metadata  *)
(* and the engine's life are not parts of MCBtData: their constants and     *)
(* variables do not matter here.                                            *)

EP == INSTANCE BtEngineProofs WITH
    Cell <- Sess, NoCell <- NoSess, Room <- 2, Cap <- 2, MaxDials <- 1, MaxPunch <- 1,
    Session <- {}, Steady <- {}, Block <- {}, Window <- 0, Queue <- 0, Choices <- {},
    MaxJoins <- 0, Faulty <- FALSE, Honest <- {}, Size <- 0, Sizes <- {}, Pipe <- 0,
    MaxLiars <- 0, NeedSelect <- FALSE, Pieces <- {}, SeedMode <- FALSE, MaxRuns <- 0,
    MaxSends <- 0, MaxLate <- 0,
    stored <- 0, wanted <- 0, assigned <- 0, queue <- 0, peer <- 0, ctx <- 0, at <- 0,
    joins <- 0, late <- 0, accum <- 0, requested <- 0, link <- 0, have <- 0, store <- 0,
    meta <- 0, installs <- 0, onDisk <- 0, verify <- 0, main <- 0, liars <- 0, stage <- 0,
    bits <- 0, pooled <- 0, session <- 0, down <- 0, cancel <- 0, seeding <- 0, ticker <- 0,
    shown <- 0, busy <- 0, sends <- 0, unopened <- 0

LEMMA PartSteps ==
    ASSUME [PartsNext]_allVars
    PROVE  /\ part' = part
           /\ part = "storage" => [Next]_vars
           /\ part = "peers" => [PE!PeersNext]_PE!peerVars
<1>1. CASE UNCHANGED allVars
  BY <1>1 DEF allVars, vars, peer_vars, PE!peerVars
<1>2. CASE PartsNext
  BY <1>2 DEF PartsNext
<1> QED
  BY <1>1, <1>2

(* Definitions of the component are the same in both instances. *)
LEMMA PEAgrees ==
    /\ PE!PeersAssumption => EP!PeersAssumption
    /\ PE!PeersInit => EP!PeersInit
    /\ [PE!PeersNext]_PE!peerVars => [EP!PeersNext]_EP!peerVars
    /\ EP!SessionsListed => PE!SessionsListed
    /\ EP!HostsWait => PE!HostsWait
  BY Zenon DEF
      PE!PeersAssumption, EP!PeersAssumption, PE!PeersInit, EP!PeersInit, PE!PeersNext,
      EP!PeersNext, PE!peerVars, EP!peerVars, PE!SessionsListed, EP!SessionsListed,
      PE!HostsWait, EP!HostsWait, PE!Free, EP!Free, PE!SessionStep, EP!SessionStep,
      PE!EvictPeer, EP!EvictPeer, PE!Connect, EP!Connect, PE!Accept, EP!Accept,
      PE!PunchWorks, EP!PunchWorks, PE!AddPeer, EP!AddPeer, PE!Ban, EP!Ban, PE!BanKills,
      EP!BanKills, PE!Unban, EP!Unban, PE!Punch, EP!Punch, PE!PunchFails, EP!PunchFails,
      PE!Halt, EP!Halt, PE!At, EP!At, PE!Entries, EP!Entries, PE!DialFails, EP!DialFails,
      PE!DialWorks, EP!DialWorks, PE!Enter, EP!Enter, PE!SessionEnds, EP!SessionEnds,
      PE!Over, EP!Over, PE!Retry, EP!Retry, PE!Adopt, EP!Adopt, PE!AdoptRuns, EP!AdoptRuns,
      PE!Unregistered, EP!Unregistered, PE!IsFree, EP!IsFree, PE!Register, EP!Register,
      PE!RetryLater, EP!RetryLater, PE!Goes, EP!Goes, PE!Registered, EP!Registered,
      PE!IsFiniteSet, EP!IsFiniteSet, PE!Cardinality, EP!Cardinality

(* Completed of the run: while nobody tampers with the files and no write   *)
(* fails, the storage among the parts of MCBtData has all the wanted data   *)
(* of a Complete task on disk (finish).                                     *)
THEOREM StorageCompletes ==
    ASSUME Untampered, "ioerr" \notin Op PROVE PartsSpec => []Completed
<1> DEFINE Inv == part = "storage" => TypeInv /\ DataInv /\ FinInv
<1>1. PartsInit => Inv
  BY InitTypeInv, InitDataInv, FinStarts DEF PartsInit
<1>2. Inv /\ [PartsNext]_allVars => Inv'
  BY PartSteps, TypeStep, DataStep, FinStep
<1>3. Inv => Completed
  BY FinSafe DEF Completed
<1> QED
  BY <1>1, <1>2, <1>3, PTL DEF PartsSpec

(* CacheSound of the run: while no write fails, write_cache_bytes is what   *)
(* the cache holds, and the limit bounds it whenever the lock is free.      *)
THEOREM CacheHonest == ASSUME "ioerr" \notin Op PROVE PartsSpec => []CacheSound
<1> DEFINE Inv == part = "storage" => TypeInv /\ CacheInv
<1>1. PartsInit => Inv
  BY InitTypeInv, CacheStarts DEF PartsInit
<1>2. Inv /\ [PartsNext]_allVars => Inv'
  BY PartSteps, TypeStep, CacheStep
<1>3. Inv => CacheSound
  BY DEF CacheInv, CacheSound
<1> QED
  BY <1>1, <1>2, <1>3, PTL DEF PartsSpec

(* SessionsListed of the run: the table has every session that runs and is  *)
(* neither told to end nor replaced, what it lists has an owner, and every  *)
(* task of a punched connection waits for a session that will end its wait. *)
THEOREM SessionsFound == PartsSpec => []SessionsListed
<1> DEFINE Inv == part = "peers" => EP!CoreInv /\ EP!Rest
<1>1. PartsInit => Inv
  BY PEAgrees, PartConstants, EP!InitCore, EP!InitRest DEF PartsInit
<1>2. Inv /\ [PartsNext]_allVars => Inv'
  BY PartSteps, PEAgrees, PartConstants, EP!NextCore, EP!NextRest
<1>3. Inv => SessionsListed
  BY PEAgrees, PartConstants, EP!EntriesOwned, EP!HostsServed DEF SessionsListed
<1> QED
  BY <1>1, <1>2, <1>3, PTL DEF PartsSpec
=============================================================================
