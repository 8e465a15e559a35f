----------------------------- MODULE HttpProofs -----------------------------
(***************************************************************************)
(* Proofs about the HTTP downloads, for every file, set of workers,        *)
(* handlers, rebuild threads, drivers and bounds.                          *)
(*                                                                         *)
(* HttpClient: the client follows the options when its rebuilds do not     *)
(* overlap, and whoever waits for one has somebody to wait for.            *)
(*                                                                         *)
(* HttpDownload: no range of a file is ever lost between the workers, and  *)
(* what is on disk is true whatever stops the download.  The facts about   *)
(* tables of segments come first: what cutting, marking and saving do to a *)
(* table, and who holds its segments.                                      *)
(***************************************************************************)
EXTENDS HttpDownload, HttpClient, FiniteSetTheorems, TLAPS

----------------------------------------------------------------------------
(* The client that all downloads share. *)

(* Every variable keeps its type. *)
THEOREM ClientTypeCorrect == Spec => []TypeOK
<1>1. Init => TypeOK
  <2> SUFFICES ASSUME Init PROVE TypeOK
    OBVIOUS
  <2> USE ConstantsAssumption DEF Init, CallPc, BuildPc, DriverPc
  <2>1. option \in Value /\ sig \in Value \cup {NoSig} /\ client \in Value
    OBVIOUS
  <2>2. busy \in BOOLEAN /\ serial \in BOOLEAN /\ missed \in BOOLEAN
    OBVIOUS
  <2>3. call \in [Caller -> [pc : CallPc, val : Value]]
    OBVIOUS
  <2>4. build \in [Builder -> [pc : BuildPc, val : Value]]
    OBVIOUS
  <2>5. driver \in [Driver -> [pc : DriverPc, client : Value]]
    OBVIOUS
  <2>6. pushes \in 0..MaxPush
    OBVIOUS
  <2>7. QED
    BY <2>1, <2>2, <2>3, <2>4, <2>5, <2>6 DEF TypeOK
<1>2. TypeOK /\ [Next]_vars => TypeOK'
  <2> SUFFICES ASSUME TypeOK, [Next]_vars PROVE TypeOK'
    OBVIOUS
  <2> USE ConstantsAssumption DEF TypeOK, CallPc, BuildPc, DriverPc
  <2>1. ASSUME NEW c \in Caller, NEW v \in Value, SetOption(c, v) PROVE TypeOK'
    BY <2>1 DEF SetOption
  <2>6. ASSUME NEW c \in Caller, NEW v \in Value, ChangeFails(c, v) PROVE TypeOK'
    BY <2>6 DEF ChangeFails
  <2>7. ASSUME NEW c \in Caller, ModesRefused(c) PROVE TypeOK'
    BY <2>7 DEF ModesRefused
  <2>2. ASSUME NEW c \in Caller, Rebuild(c) PROVE TypeOK'
    <3>1. CASE ReadSig(c)
      BY <3>1 DEF ReadSig
    <3>2. CASE Claim(c)
      BY <3>2 DEF Claim
    <3>3. CASE SetBusy(c)
      BY <3>3 DEF SetBusy
    <3>4. CASE Spawn(c)
      <4>1. PICK b \in Builder :
               build' = [build EXCEPT ![b] = [pc |-> "build", val |-> call[c].val]]
        BY <3>4 DEF Spawn
      <4>2. build' \in [Builder -> [pc : BuildPc, val : Value]]
        BY <4>1
      <4>3. QED
        BY <3>4, <4>2 DEF Spawn
    <3>5. QED
      BY <2>2, <3>1, <3>2, <3>3, <3>4 DEF Rebuild
  <2>3. ASSUME NEW b \in Builder, BuildStep(b) PROVE TypeOK'
    <3>1. CASE Build(b)
      BY <3>1 DEF Build
    <3>2. CASE BuildPanic(b)
      BY <3>2 DEF BuildPanic
    <3>3. CASE GuardDrop(b)
      BY <3>3 DEF GuardDrop
    <3>4. QED
      BY <2>3, <3>1, <3>2, <3>3 DEF BuildStep
  <2>4. ASSUME NEW d \in Driver,
               Start(d) \/ WaitReady(d) \/ Attempt(d) \/ Finish(d)
        PROVE  TypeOK'
    BY <2>4 DEF Start, WaitReady, Attempt, Finish
  <2>5. ASSUME vars' = vars PROVE TypeOK'
    BY <2>5 DEF vars
  <2> QED
    BY <2>1, <2>2, <2>3, <2>4, <2>5, <2>6, <2>7 DEF Next
<1>3. QED
  BY <1>1, <1>2, PTL DEF Spec

(* client_busy is never left set: a builder whose guard clears it is alive *)
(* or about to be spawned, so wait_client_ready waits for somebody.        *)
THEOREM GateHasKeeper == Spec => []BusyHasBuilder
<1>1. Init => BusyHasBuilder
  BY DEF Init, BusyHasBuilder
<1>2. TypeOK /\ BusyHasBuilder /\ [Next]_vars => BusyHasBuilder'
  <2> SUFFICES ASSUME TypeOK, BusyHasBuilder, [Next]_vars PROVE BusyHasBuilder'
    OBVIOUS
  <2> USE DEF TypeOK, BusyHasBuilder, Rebuilding
  <2>1. ASSUME NEW c \in Caller, NEW v \in Value, SetOption(c, v)
        PROVE  BusyHasBuilder'
    BY <2>1 DEF SetOption
  <2>6. ASSUME NEW c \in Caller, NEW v \in Value, ChangeFails(c, v) PROVE BusyHasBuilder'
    BY <2>6 DEF ChangeFails
  <2>7. ASSUME NEW c \in Caller, ModesRefused(c) PROVE BusyHasBuilder'
    BY <2>7 DEF ModesRefused
  <2>2. ASSUME NEW c \in Caller, Rebuild(c) PROVE BusyHasBuilder'
    <3>1. CASE ReadSig(c)
      BY <3>1 DEF ReadSig
    <3>2. CASE Claim(c)
      BY <3>2 DEF Claim
    <3>3. CASE SetBusy(c)
      BY <3>3 DEF SetBusy
    <3>4. CASE Spawn(c)
      BY <3>4 DEF Spawn
    <3>5. QED
      BY <2>2, <3>1, <3>2, <3>3, <3>4 DEF Rebuild
  <2>3. ASSUME NEW b \in Builder, BuildStep(b) PROVE BusyHasBuilder'
    BY <2>3 DEF BuildStep, Build, BuildPanic, GuardDrop
  <2>4. ASSUME NEW d \in Driver,
               Start(d) \/ WaitReady(d) \/ Attempt(d) \/ Finish(d)
        PROVE  BusyHasBuilder'
    BY <2>4 DEF Start, WaitReady, Attempt, Finish
  <2>5. ASSUME vars' = vars PROVE BusyHasBuilder'
    BY <2>5 DEF vars
  <2> QED
    BY <2>1, <2>2, <2>3, <2>4, <2>5, <2>6, <2>7 DEF Next
<1>3. QED
  BY <1>1, <1>2, ClientTypeCorrect, PTL DEF Spec

----------------------------------------------------------------------------
(* The client in use was built from the signature claimed, if any was. *)
Built == sig = client \/ (sig = NoSig /\ client = Default)

NoCall == \A c \in Caller : call[c].pc = "idle"
NoBuild == \A b \in Builder : build[b].pc = "free"
OnlyCall(c) == \A e \in Caller \ {c} : call[e].pc = "idle"
OnlyBuild(b) == \A e \in Builder \ {b} : build[e].pc = "free"

(* What the options ask for, but for changes that returned an error. *)
Follows(v) == missed \/ v = option

(* While rebuilds come one after the other, at most one is under way, and  *)
(* each of its stages knows what the options ask for.                      *)
SerialInv ==
    serial =>
        \/ NoCall /\ NoBuild /\ Built /\ Follows(client)
        \/ NoBuild /\ \E c \in Caller :
             /\ OnlyCall(c)
             /\ \/ call[c].pc = "read" /\ Built
                \/ call[c].pc = "claim" /\ Built /\ Follows(call[c].val)
                \/ call[c].pc \in {"busy", "spawn"} /\ Follows(sig)
                   /\ call[c].val = sig
        \/ NoCall /\ \E b \in Builder :
             /\ OnlyBuild(b)
             /\ build[b].pc # "free" /\ Follows(sig)
             /\ IF build[b].pc = "build" THEN build[b].val = sig
                                         ELSE client = sig

(* Rebuilds that neither overlap nor panic leave the client the options    *)
(* ask for, though rebuild_http_client skips some of them, unless the last *)
(* change ended with an error and no rebuild has followed.                 *)
THEOREM SerialClient == Spec => []ClientCurrent
<1>1. Init => SerialInv
  BY DEF Init, SerialInv, NoCall, NoBuild, Built, Follows
<1>2. TypeOK /\ SerialInv /\ [Next]_vars => SerialInv'
  <2> SUFFICES ASSUME TypeOK, SerialInv, [Next]_vars, serial' PROVE SerialInv'
    BY DEF SerialInv
  <2> USE ConstantsAssumption DEF TypeOK, SerialInv, NoCall, NoBuild, OnlyCall, OnlyBuild,
          Built, Follows
  <2>1. ASSUME NEW c \in Caller, NEW v \in Value, SetOption(c, v) PROVE SerialInv'
    BY <2>1 DEF SetOption, Idle
  <2>6. ASSUME NEW c \in Caller, NEW v \in Value, ChangeFails(c, v) PROVE SerialInv'
    BY <2>6 DEF ChangeFails
  <2>7. ASSUME NEW c \in Caller, ModesRefused(c) PROVE SerialInv'
    BY <2>7 DEF ModesRefused
  <2>2. ASSUME NEW c \in Caller, Rebuild(c) PROVE SerialInv'
    <3>1. CASE ReadSig(c)
      BY <3>1 DEF ReadSig
    <3>2. CASE Claim(c)
      BY <3>2 DEF Claim
    <3>3. CASE SetBusy(c)
      BY <3>3 DEF SetBusy
    <3>4. CASE Spawn(c)
      BY <3>4 DEF Spawn
    <3>5. QED
      BY <2>2, <3>1, <3>2, <3>3, <3>4 DEF Rebuild
  <2>3. ASSUME NEW b \in Builder, BuildStep(b) PROVE SerialInv'
    <3>1. CASE Build(b)
      BY <3>1 DEF Build
    <3>2. CASE BuildPanic(b)
      BY <3>2 DEF BuildPanic
    <3>3. CASE GuardDrop(b)
      BY <3>3 DEF GuardDrop
    <3>4. QED
      BY <2>3, <3>1, <3>2, <3>3 DEF BuildStep
  <2>4. ASSUME NEW d \in Driver,
               Start(d) \/ WaitReady(d) \/ Attempt(d) \/ Finish(d)
        PROVE  SerialInv'
    <3>1. UNCHANGED <<option, sig, client, call, build, serial, missed>>
      BY <2>4 DEF Start, WaitReady, Attempt, Finish
    <3>2. QED
      BY ONLY SerialInv, <3>1 DEF SerialInv, NoCall, NoBuild, OnlyCall, OnlyBuild, Built,
         Follows
  <2>5. ASSUME vars' = vars PROVE SerialInv'
    BY <2>5 DEF vars
  <2> QED
    BY <2>1, <2>2, <2>3, <2>4, <2>5, <2>6, <2>7 DEF Next
<1>3. SerialInv => ClientCurrent
  BY DEF SerialInv, ClientCurrent, Idle, NoCall, NoBuild, Follows
<1>4. QED
  BY <1>1, <1>2, <1>3, ClientTypeCorrect, PTL DEF Spec

----------------------------------------------------------------------------
(* Numbers and sequences. *)

(* Products and quotients, as Cut needs them. *)
LEMMA MulMono == ASSUME NEW a \in Nat, NEW b \in Nat, NEW n \in Nat, a <= b PROVE n * a <= n * b
<1>1. PICK d \in Nat : b = a + d
  OBVIOUS
<1>2. n * b = n * a + n * d
  BY <1>1
<1>3. n * d \in Nat /\ n * a \in Nat
  OBVIOUS
<1> QED BY <1>2, <1>3

LEMMA DivStep ==
    ASSUME NEW a \in Nat, NEW b \in Nat, NEW n \in Nat \ {0}, a + n <= b
    PROVE  a \div n + 1 <= b \div n
<1>1. /\ a \div n \in Nat /\ b \div n \in Nat
      /\ n * (a \div n) <= a /\ a < n * (a \div n) + n
      /\ n * (b \div n) <= b /\ b < n * (b \div n) + n
  OBVIOUS
<1>2. SUFFICES ASSUME b \div n <= a \div n PROVE FALSE
  BY <1>1
<1>3. n * (b \div n) <= n * (a \div n)
  BY <1>1, <1>2, MulMono
<1> QED BY <1>1, <1>3

LEMMA DivMono ==
    ASSUME NEW a \in Nat, NEW b \in Nat, NEW n \in Nat \ {0}, a <= b
    PROVE  a \div n <= b \div n
<1>1. /\ a \div n \in Nat /\ b \div n \in Nat
      /\ n * (a \div n) <= a
      /\ b < n * (b \div n) + n
  OBVIOUS
<1>2. SUFFICES ASSUME b \div n + 1 <= a \div n PROVE FALSE
  BY <1>1
<1>3. n * (b \div n + 1) <= n * (a \div n)
  BY <1>1, <1>2, MulMono
<1>4. n * (b \div n + 1) = n * (b \div n) + n
  BY <1>1
<1> QED BY <1>1, <1>3, <1>4

(* Nth counts a set of numbers: every one has its place. *)
LEMMA NthCounts ==
    ASSUME NEW K \in SUBSET Nat, IsFiniteSet(K)
    PROVE  /\ Cardinality(K) \in Nat
           /\ \A k \in 1..Cardinality(K) : Nth(K, k) \in K
           /\ \A k, l \in 1..Cardinality(K) : Nth(K, k) = Nth(K, l) => k = l
           /\ \A x \in K : \E k \in 1..Cardinality(K) : Nth(K, k) = x
           /\ \A k \in 1..Cardinality(K) : Cardinality({y \in K : y <= Nth(K, k)}) = k
<1> DEFINE Below(i) == {j \in K : j <= i}
           f == [i \in K |-> Cardinality(Below(i))]
<1>1. Cardinality(K) \in Nat
  BY FS_CardinalityType
<1>2. ASSUME NEW i \in K
      PROVE  IsFiniteSet(Below(i)) /\ Cardinality(Below(i)) \in 1..Cardinality(K)
  <2>1. Below(i) \in SUBSET K /\ i \in Below(i)
    OBVIOUS
  <2>2. IsFiniteSet(Below(i)) /\ Cardinality(Below(i)) <= Cardinality(K)
    BY <2>1, FS_Subset
  <2>3. Cardinality(Below(i)) \in Nat /\ Cardinality(Below(i)) # 0
    BY <2>1, <2>2, FS_CardinalityType, FS_EmptySet
  <2> QED BY <1>1, <2>2, <2>3
<1>3. ASSUME NEW i \in K, NEW j \in K, i < j
      PROVE  Cardinality(Below(i)) # Cardinality(Below(j))
  <2>0. i \in Nat /\ j \in Nat /\ \A k \in K : k \in Nat
    OBVIOUS
  <2>1. (\A k \in Below(i) : k \in Below(j)) /\ j \in Below(j) /\ j \notin Below(i)
    BY <1>3, <2>0
  <2> QED BY <1>2, <2>1, FS_Subset
<1>4. \A i, j \in K : f[i] = f[j] => i = j
  BY <1>3
<1>5. f \in Injection(K, 1..Cardinality(K))
  BY <1>2, <1>4 DEF Injection, IsInjective
<1>6. f \in Surjection(K, 1..Cardinality(K))
  <2>1. Cardinality(1..Cardinality(K)) = Cardinality(K) /\ IsFiniteSet(1..Cardinality(K))
    BY <1>1, FS_Interval
  <2> QED BY <1>5, <2>1, FS_Injection
<1>7. \A k \in 1..Cardinality(K) : Nth(K, k) \in K /\ f[Nth(K, k)] = k
  <2>1. \A k \in 1..Cardinality(K) : \E x \in K : f[x] = k
    BY <1>6 DEF Surjection
  <2>2. \A k \in 1..Cardinality(K) : \E x \in K : Cardinality({y \in K : y <= x}) = k
    BY <2>1
  <2> QED BY <2>2 DEF Nth
<1>8. \A x \in K : f[x] \in 1..Cardinality(K) /\ Nth(K, f[x]) = x
  BY <1>2, <1>4, <1>7
<1> QED BY <1>1, <1>7, <1>8

(* A finite set of numbers has a smallest one. *)
LEMMA Smallest ==
    ASSUME NEW S \in SUBSET Nat, IsFiniteSet(S), S # {}
    PROVE  \E x \in S : \A y \in S : x <= y
<1>1. Cardinality(S) \in Nat /\ Cardinality(S) # 0
  BY FS_CardinalityType, FS_EmptySet
<1>2. PICK x \in S : Cardinality({y \in S : y <= x}) = 1
  <2>1. 1 \in 1..Cardinality(S)
    BY <1>1
  <2>2. Nth(S, 1) \in S /\ Cardinality({y \in S : y <= Nth(S, 1)}) = 1
    BY <2>1, NthCounts
  <2> QED BY <2>2
<1> DEFINE B == {y \in S : y <= x}
<1>3. IsFiniteSet(B)
  BY FS_Subset
<1>4. PICK z : B = {z}
  BY <1>2, <1>3, FS_Singleton
<1>5. x \in Nat /\ \A y \in S : y \in Nat
  OBVIOUS
<1>6. \A y \in S : y <= x => y = x
  BY <1>4, <1>5
<1>7. \A y \in S : x <= y
  BY <1>5, <1>6
<1> QED BY <1>7

(* Sequences: one element added, the first one taken. *)
LEMMA AppendOne ==
    ASSUME NEW S, NEW q \in Seq(S), NEW x \in S
    PROVE  /\ Append(q, x) \in Seq(S)
           /\ \A k \in DOMAIN Append(q, x) :
                Append(q, x)[k] = x \/ (k \in DOMAIN q /\ Append(q, x)[k] = q[k])
<1>1. Append(q, x) \in Seq(S) /\ Len(Append(q, x)) = Len(q) + 1 /\ Len(q) \in Nat
  OBVIOUS
<1>2. DOMAIN Append(q, x) = 1..(Len(q) + 1) /\ DOMAIN q = 1..Len(q)
  BY <1>1
<1>3. Append(q, x)[Len(q) + 1] = x /\ \A k \in 1..Len(q) : Append(q, x)[k] = q[k]
  OBVIOUS
<1>4. \A k \in 1..(Len(q) + 1) : k = Len(q) + 1 \/ k \in 1..Len(q)
  BY <1>1
<1> QED BY <1>1, <1>2, <1>3, <1>4

LEMMA HeadTail ==
    ASSUME NEW S, NEW q \in Seq(S), q # <<>>
    PROVE  /\ 1 \in DOMAIN q /\ Head(q) = q[1] /\ Tail(q) \in Seq(S)
           /\ \A k \in DOMAIN Tail(q) : k + 1 \in DOMAIN q /\ Tail(q)[k] = q[k + 1]
<1>1. Len(q) \in Nat /\ Len(q) # 0 /\ DOMAIN q = 1..Len(q)
  OBVIOUS
<1>2. Tail(q) \in Seq(S) /\ Len(Tail(q)) = Len(q) - 1
  BY <1>1
<1>3. DOMAIN Tail(q) = 1..(Len(q) - 1)
  BY <1>1, <1>2
<1>4. \A k \in 1..(Len(q) - 1) : k + 1 \in 1..Len(q) /\ Tail(q)[k] = q[k + 1]
  BY <1>1
<1> QED BY <1>1, <1>2, <1>3, <1>4

----------------------------------------------------------------------------
(* Tables. *)

(* A segment of the table, the units it covers and those it lacks. *)
SegRec == [s : Nat, e : Nat, w : Nat, done : BOOLEAN, queued : BOOLEAN, holders : Nat]

Covers(x, p) == x.s <= p /\ p < x.e

Lacks(x, p) == x.s + x.w <= p /\ p < x.e

(* A segment within [base, Total), done when its watermark is its end. *)
Fits(x, base) ==
    /\ base <= x.s /\ x.s + x.w <= x.e /\ x.e <= Total
    /\ x.done <=> x.s + x.w = x.e

(* A table: segments that fit, and tile the file from base on. *)
Table(t, base) ==
    /\ t \in Seq(SegRec)
    /\ \A i \in DOMAIN t : Fits(t[i], base)
    /\ \A p \in base..(Total - 1) : \E i \in DOMAIN t : Covers(t[i], p)
    /\ \A i, j \in DOMAIN t : \A p \in Nat : Covers(t[i], p) /\ Covers(t[j], p) => i = j

(* A table is a sequence, its indices are positive. *)
LEMMA TableDomain ==
    ASSUME NEW base, NEW t, Table(t, base)
    PROVE  /\ t \in Seq(SegRec) /\ Len(t) \in Nat /\ DOMAIN t = 1..Len(t)
           /\ DOMAIN t \subseteq Nat \ {0}
<1>1. t \in Seq(SegRec)
  BY DEF Table
<1>2. Len(t) \in Nat /\ DOMAIN t = 1..Len(t)
  BY <1>1
<1> QED BY <1>1, <1>2

(* What is missing can be counted. *)
LEMMA MissingFinite ==
    ASSUME NEW t
    PROVE  IsFiniteSet(Missing(t)) /\ Cardinality(Missing(t)) \in Nat
<1>1. IsFiniteSet(Pos)
  BY SplitAssumption, FS_Interval DEF Pos
<1>2. Missing(t) \in SUBSET Pos
  BY DEF Missing
<1> QED BY <1>1, <1>2, FS_Subset, FS_CardinalityType

(* u is t with the rests of some segments cut off and appended, queued. *)
Grown(t, u) ==
    /\ Len(t) <= Len(u)
    /\ \A i \in DOMAIN t : /\ u[i].s = t[i].s /\ u[i].w = t[i].w /\ u[i].e <= t[i].e
                           /\ u[i].queued = t[i].queued /\ u[i].holders = t[i].holders
                           /\ t[i].done => u[i].done
    /\ \A i \in DOMAIN u \ DOMAIN t : /\ u[i].queued /\ u[i].holders = 0
                                      /\ ~u[i].done /\ u[i].w = 0

(* Cutting rests off segments loses no unit and doubles none (split_off). *)
LEMMA SplitOffTable ==
    ASSUME NEW base \in Nat, NEW t, Table(t, base), NEW cut,
           DOMAIN cut \subseteq DOMAIN t,
           \A i \in DOMAIN cut : cut[i] \in Nat /\ t[i].s + t[i].w <= cut[i] /\ cut[i] < t[i].e
    PROVE  /\ Table(SplitOff(t, cut), base) /\ Grown(t, SplitOff(t, cut))
           /\ Missing(SplitOff(t, cut)) = Missing(t)
           /\ Len(SplitOff(t, cut)) \in {Len(t), Len(t) + Cardinality(DOMAIN cut)}
           /\ Len(t) + Cardinality(DOMAIN cut) <= MaxSegs =>
                Len(SplitOff(t, cut)) = Len(t) + Cardinality(DOMAIN cut)
<1> DEFINE C == DOMAIN cut
           n == Cardinality(C)
           m == Len(t)
           u == SplitOff(t, cut)
<1>1. /\ m \in Nat /\ DOMAIN t = 1..m /\ \A i \in 1..m : t[i] \in SegRec
  BY DEF Table
<1>2. IsFiniteSet(C) /\ C \in SUBSET Nat /\ n \in Nat
  <2>1. IsFiniteSet(1..m) /\ C \in SUBSET (1..m)
    BY <1>1, FS_Interval
  <2>2. IsFiniteSet(C)
    BY <2>1, FS_Subset
  <2> QED BY <2>1, <2>2, FS_CardinalityType
<1>3. CASE m + n > MaxSegs
  <2>1. u = t
    BY <1>3 DEF SplitOff
  <2>2. ~ (m + n <= MaxSegs)
    BY <1>1, <1>2, <1>3, SplitAssumption
  <2> QED BY <1>1, <2>1, <2>2 DEF Grown, SegRec
<1>4. CASE ~ (m + n > MaxSegs)
  <2> DEFINE Old(i) == IF i \in C THEN [t[i] EXCEPT !.e = cut[i],
                                          !.done = @ \/ cut[i] = t[i].s + t[i].w]
                       ELSE t[i]
             New(i) == Fresh(cut[Nth(C, i - m)], t[Nth(C, i - m)].e)
  <2>1. u = [i \in 1..(m + n) |-> IF i > m THEN New(i) ELSE Old(i)]
    BY <1>4 DEF SplitOff
  <2>2. ASSUME NEW i \in 1..m
        PROVE  /\ Old(i) \in SegRec /\ Fits(Old(i), base)
               /\ Old(i).s = t[i].s /\ Old(i).w = t[i].w
               /\ Old(i).e = IF i \in C THEN cut[i] ELSE t[i].e
               /\ Old(i).queued = t[i].queued /\ Old(i).holders = t[i].holders
               /\ Old(i).e <= t[i].e
               /\ t[i].done => Old(i).done
    <3>1. Fits(t[i], base) /\ t[i] \in SegRec
      BY <1>1 DEF Table
    <3>2. CASE i \in C
      <4>1. cut[i] \in Nat /\ t[i].s + t[i].w <= cut[i] /\ cut[i] < t[i].e /\ t[i].e <= Total /\ Total \in Nat
        BY <3>1, <3>2, SplitAssumption DEF Fits
      <4>2. t[i].done = FALSE
        BY <3>1, <4>1 DEF Fits, SegRec
      <4> DEFINE d == cut[i] = t[i].s + t[i].w
      <4>3. Old(i) = [t[i] EXCEPT !.e = cut[i], !.done = d]
        BY <3>2, <4>2
      <4>4. /\ Old(i).s = t[i].s /\ Old(i).w = t[i].w /\ Old(i).e = cut[i]
            /\ Old(i).queued = t[i].queued /\ Old(i).holders = t[i].holders
            /\ Old(i).done = d /\ Old(i) \in SegRec
        BY <3>1, <4>1, <4>3 DEF SegRec
      <4>5. t[i].s \in Nat /\ t[i].w \in Nat /\ t[i].e \in Nat /\ base <= t[i].s
        BY <3>1 DEF SegRec, Fits
      <4> HIDE DEF Old
      <4>6. base <= Old(i).s /\ Old(i).s + Old(i).w <= Old(i).e /\ Old(i).e <= Total /\ Old(i).e <= t[i].e
        BY <4>1, <4>4, <4>5
      <4>7. Old(i).done <=> cut[i] = t[i].s + t[i].w
        BY <4>4, Zenon
      <4>8. Old(i).done <=> Old(i).s + Old(i).w = Old(i).e
        BY <4>4, <4>7, Zenon
      <4> QED BY <3>2, <4>2, <4>4, <4>6, <4>8 DEF Fits
    <3>3. CASE i \notin C
      BY <3>1, <3>3, SplitAssumption DEF Fits, SegRec
    <3> QED BY <3>2, <3>3
  <2>3. ASSUME NEW i \in (m + 1)..(m + n)
        PROVE  LET j == Nth(C, i - m)
               IN /\ j \in C /\ New(i) \in SegRec /\ Fits(New(i), base)
                  /\ New(i).s = cut[j] /\ New(i).e = t[j].e /\ New(i).w = 0
                  /\ New(i).queued = TRUE /\ New(i).holders = 0 /\ New(i).done = FALSE
    <3> DEFINE j == Nth(C, i - m)
    <3>1. i - m \in 1..n
      BY <1>1, <1>2
    <3>2. j \in C
      BY <1>2, <3>1, NthCounts
    <3> HIDE DEF j
    <3>3. j \in 1..m /\ Fits(t[j], base) /\ t[j] \in SegRec /\ cut[j] \in Nat
          /\ t[j].s + t[j].w <= cut[j] /\ cut[j] < t[j].e
      BY <1>1, <3>2 DEF Table
    <3>4. New(i) = Fresh(cut[j], t[j].e)
      BY DEF j
    <3>5. Total \in Nat
      BY SplitAssumption
    <3>6. /\ Fresh(cut[j], t[j].e) \in SegRec /\ Fits(Fresh(cut[j], t[j].e), base)
      BY <3>3, <3>5 DEF Fresh, SegRec, Fits
    <3>7. /\ New(i).s = cut[j] /\ New(i).e = t[j].e /\ New(i).w = 0
          /\ New(i).queued = TRUE /\ New(i).holders = 0 /\ New(i).done = FALSE
      BY <3>4 DEF Fresh
    <3> QED BY <3>2, <3>4, <3>6, <3>7 DEF j
  <2> HIDE DEF Old, New, u, C, n, m
  <2>4. /\ DOMAIN u = 1..(m + n) /\ u \in Seq(SegRec) /\ Len(u) = m + n
        /\ \A i \in 1..m : u[i] = Old(i)
        /\ \A i \in (m + 1)..(m + n) : u[i] = New(i)
    <3>1. \A i \in 1..(m + n) : (IF i > m THEN New(i) ELSE Old(i)) \in SegRec
      <4> TAKE i \in 1..(m + n)
      <4>1. CASE i > m
        <5>1. i \in (m + 1)..(m + n)
          BY <1>1, <1>2, <4>1
        <5> QED BY <2>3, <4>1, <5>1
      <4>2. CASE ~ (i > m)
        BY <1>1, <1>2, <2>2, <4>2
      <4> QED BY <4>1, <4>2
    <3>2. u \in [1..(m + n) -> SegRec] /\ m + n \in Nat
      BY <1>1, <1>2, <2>1, <3>1
    <3>3. DOMAIN u = 1..(m + n) /\ u \in Seq(SegRec) /\ Len(u) = m + n
      BY <3>2
    <3> QED BY <1>1, <1>2, <2>1, <3>3
  <2> DEFINE N == (m + 1)..(m + n)
             par(i) == Nth(C, i - m)
  <2>5. /\ \A i \in N : par(i) \in C
        /\ \A i, k \in N : par(i) = par(k) => i = k
        /\ \A j \in C : \E i \in N : par(i) = j
    <3>1. \A i \in N : i - m \in 1..n
      BY <1>1, <1>2
    <3>2. \A l \in 1..n : m + l \in N /\ (m + l) - m = l
      BY <1>1, <1>2
    <3>3. /\ \A k \in 1..n : Nth(C, k) \in C
          /\ \A k, l \in 1..n : Nth(C, k) = Nth(C, l) => k = l
          /\ \A x \in C : \E k \in 1..n : Nth(C, k) = x
      BY <1>2, NthCounts DEF n
    <3>4. \A i \in N : par(i) \in C
      BY <3>1, <3>3
    <3>5. \A i, k \in N : par(i) = par(k) => i = k
      <4> TAKE i, k \in N
      <4>1. par(i) = par(k) => i - m = k - m
        BY <3>1, <3>3
      <4>2. i \in Int /\ k \in Int /\ m \in Int
        BY <1>1, <1>2
      <4> QED BY <4>1, <4>2
    <3>6. \A j \in C : \E i \in N : par(i) = j
      BY <3>2, <3>3
    <3> QED BY <3>4, <3>5, <3>6
  <2>6. \A i \in N : /\ u[i].s = cut[par(i)] /\ u[i].e = t[par(i)].e /\ u[i].w = 0
                    /\ u[i].queued = TRUE /\ u[i].holders = 0 /\ u[i].done = FALSE
                    /\ u[i] \in SegRec /\ Fits(u[i], base)
    BY <2>3, <2>4
  <2>7. \A i \in 1..m : /\ u[i].s = t[i].s /\ u[i].w = t[i].w /\ u[i].e <= t[i].e
                       /\ u[i].e = (IF i \in C THEN cut[i] ELSE t[i].e)
                       /\ u[i].queued = t[i].queued /\ u[i].holders = t[i].holders
                       /\ u[i] \in SegRec /\ Fits(u[i], base)
    BY <2>2, <2>4
  <2>d. \A i \in 1..m : t[i].done => u[i].done
    BY <2>2, <2>4
  <2> HIDE DEF par
  <2>8. \A i \in DOMAIN u : i \in 1..m \/ i \in N
    BY <1>1, <1>2, <2>4
  <2>9. \A i \in C : /\ cut[i] \in Nat /\ t[i].s + t[i].w <= cut[i] /\ cut[i] < t[i].e
                    /\ t[i] \in SegRec /\ i \in 1..m
    BY <1>1 DEF C
  <2>10. ASSUME NEW i \in 1..m, NEW p \in Nat
         PROVE  /\ Covers(u[i], p) <=> Covers(t[i], p) /\ (i \in C => p < cut[i])
                /\ Lacks(u[i], p) <=> Lacks(t[i], p) /\ (i \in C => p < cut[i])
    <3>1. t[i].s \in Nat /\ t[i].e \in Nat /\ t[i].w \in Nat
      BY <1>1 DEF SegRec
    <3>2. CASE i \in C
      BY <2>7, <2>9, <3>1, <3>2 DEF Covers, Lacks
    <3>3. CASE i \notin C
      BY <2>7, <3>1, <3>3 DEF Covers, Lacks
    <3> QED BY <3>2, <3>3
  <2>11. ASSUME NEW i \in N, NEW p \in Nat
         PROVE  /\ Covers(u[i], p) <=> Covers(t[par(i)], p) /\ cut[par(i)] <= p
                /\ Lacks(u[i], p) <=> Lacks(t[par(i)], p) /\ cut[par(i)] <= p
    <3>1. /\ par(i) \in C /\ u[i].s = cut[par(i)] /\ u[i].e = t[par(i)].e /\ u[i].w = 0
      BY <2>5, <2>6
    <3>2. PICK j \in C : j = par(i)
      BY <3>1
    <3>3. /\ t[j].s \in Nat /\ t[j].e \in Nat /\ t[j].w \in Nat
          /\ cut[j] \in Nat /\ t[j].s + t[j].w <= cut[j] /\ cut[j] < t[j].e
      BY <2>9 DEF SegRec
    <3>4. u[i].s = cut[j] /\ u[i].e = t[j].e /\ u[i].w = 0
      BY <3>1, <3>2
    <3>5. /\ Covers(u[i], p) <=> Covers(t[j], p) /\ cut[j] <= p
          /\ Lacks(u[i], p) <=> Lacks(t[j], p) /\ cut[j] <= p
      BY <3>3, <3>4 DEF Covers, Lacks
    <3> QED BY <3>2, <3>5
  <2>12. 1..m \subseteq DOMAIN u /\ N \subseteq DOMAIN u
    BY <1>1, <1>2, <2>4
  <2>13. ASSUME NEW p \in Nat, NEW i \in 1..m
         PROVE  /\ Covers(t[i], p) => \E k \in DOMAIN u : Covers(u[k], p)
                /\ Lacks(t[i], p) => \E k \in DOMAIN u : Lacks(u[k], p)
    <3>1. CASE i \in C /\ cut[i] <= p
      <4>1. PICK k \in N : par(k) = i
        BY <2>5, <3>1
      <4>2. /\ Covers(u[k], p) <=> Covers(t[i], p) /\ cut[i] <= p
            /\ Lacks(u[k], p) <=> Lacks(t[i], p) /\ cut[i] <= p
        BY <2>11, <4>1
      <4> QED BY <2>12, <3>1, <4>2
    <3>2. CASE ~ (i \in C /\ cut[i] <= p)
      <4>1. i \in C => p < cut[i]
        BY <2>9, <3>2
      <4> QED BY <2>10, <2>12, <4>1
    <3> QED BY <3>1, <3>2
  <2>14. ASSUME NEW i \in DOMAIN u, NEW k \in DOMAIN u, NEW p \in Nat,
                Covers(u[i], p), Covers(u[k], p)
         PROVE  i = k
    <3>1. \A a, b \in 1..m : Covers(t[a], p) /\ Covers(t[b], p) => a = b
      BY <1>1 DEF Table
    <3>2. \A a \in 1..m, b \in N : ~ (Covers(u[a], p) /\ Covers(u[b], p))
      <4> SUFFICES ASSUME NEW a \in 1..m, NEW b \in N, Covers(u[a], p), Covers(u[b], p)
                   PROVE  FALSE
        OBVIOUS
      <4>1. par(b) \in C /\ par(b) \in 1..m /\ cut[par(b)] \in Nat
        BY <2>5, <2>9
      <4>2. Covers(t[a], p) /\ Covers(t[par(b)], p) /\ cut[par(b)] <= p
            /\ (a \in C => p < cut[a])
        BY <2>10, <2>11
      <4>3. a = par(b)
        BY <3>1, <4>1, <4>2
      <4> QED BY <4>1, <4>2, <4>3
    <3>3. CASE i \in 1..m /\ k \in 1..m
      BY <2>10, <2>14, <3>1, <3>3
    <3>4. CASE i \in N /\ k \in N
      <4>1. par(i) \in 1..m /\ par(k) \in 1..m
        BY <2>5, <2>9, <3>4
      <4>2. Covers(t[par(i)], p) /\ Covers(t[par(k)], p)
        BY <2>11, <2>14, <3>4
      <4>3. par(i) = par(k)
        BY <3>1, <4>1, <4>2
      <4> QED BY <2>5, <3>4, <4>3
    <3> QED BY <2>8, <2>14, <3>2, <3>3, <3>4
  <2>15. Table(u, base)
    <3>1. \A i \in DOMAIN u : Fits(u[i], base)
      BY <2>6, <2>7, <2>8
    <3>2. \A p \in base..(Total - 1) : \E i \in DOMAIN u : Covers(u[i], p)
      <4> TAKE p \in base..(Total - 1)
      <4>1. p \in Nat
        BY SplitAssumption
      <4>2. PICK i \in 1..m : Covers(t[i], p)
        BY <1>1 DEF Table
      <4> QED BY <2>13, <4>1, <4>2
    <3> QED BY <2>4, <2>14, <3>1, <3>2 DEF Table
  <2>16. Missing(u) = Missing(t)
    <3>1. Pos \subseteq Nat
      BY SplitAssumption DEF Pos
    <3>2. \A p \in Pos : (\E i \in DOMAIN u : Lacks(u[i], p)) <=> \E i \in 1..m : Lacks(t[i], p)
      <4> TAKE p \in Pos
      <4>0. p \in Nat
        BY <3>1
      <4>1. ASSUME NEW i \in DOMAIN u, Lacks(u[i], p) PROVE \E j \in 1..m : Lacks(t[j], p)
        <5>1. CASE i \in 1..m
          BY <2>10, <4>0, <4>1, <5>1
        <5>2. CASE i \in N
          <6>1. par(i) \in 1..m
            BY <2>5, <2>9, <5>2
          <6> QED BY <2>11, <4>0, <4>1, <5>2, <6>1
        <5> QED BY <2>8, <5>1, <5>2
      <4> QED BY <2>13, <4>0, <4>1
    <3> QED BY <1>1, <3>2 DEF Missing, Lacks
  <2>17. Grown(t, u)
    <3>1. m <= m + n
      BY <1>1, <1>2
    <3>2. \A i \in DOMAIN u \ DOMAIN t : i \in N
      BY <1>1, <2>8
    <3> QED BY <1>1, <2>4, <2>6, <2>7, <2>d, <3>1, <3>2 DEF Grown, m
  <2> QED BY <2>4, <2>15, <2>16, <2>17 DEF u, m, n, C
<1> QED BY <1>3, <1>4

(* handoff cuts segments, each at its watermark or in the middle of its    *)
(* rest.                                                                   *)
LEMMA HandoffTable ==
    ASSUME NEW base \in Nat, NEW t, Table(t, base), NEW I \in SUBSET (DOMAIN t),
           NEW whole \in BOOLEAN, NEW force \in BOOLEAN
    PROVE  /\ Table(Handoff(t, I, whole, force), base)
           /\ Grown(t, Handoff(t, I, whole, force))
           /\ Missing(Handoff(t, I, whole, force)) = Missing(t)
<1> DEFINE C == {j \in I : Left(t[j]) > 0 /\ (force \/ Left(t[j]) >= HandoffMin)}
           At1(i) == t[i].s + t[i].w + IF whole \/ Left(t[i]) <= WholeMax THEN 0
                                       ELSE Left(t[i]) \div 2
           cut == [i \in C |-> At1(i)]
<1>1. Handoff(t, I, whole, force) = SplitOff(t, cut)
  BY DEF Handoff
<1>2. ASSUME NEW i \in C
      PROVE  At1(i) \in Nat /\ t[i].s + t[i].w <= At1(i) /\ At1(i) < t[i].e
  <2>1. t[i] \in SegRec /\ Fits(t[i], base) /\ Left(t[i]) > 0
    BY DEF Table
  <2>2. t[i].s \in Nat /\ t[i].w \in Nat /\ t[i].e \in Nat /\ t[i].s + t[i].w < t[i].e
    BY <2>1 DEF SegRec, Fits, Left
  <2>3. Left(t[i]) \in Nat /\ Left(t[i]) = t[i].e - (t[i].s + t[i].w)
    BY <2>2 DEF Left
  <2>4. Left(t[i]) \div 2 \in Nat /\ Left(t[i]) \div 2 < Left(t[i])
    BY <2>1, <2>3
  <2>5. CASE whole \/ Left(t[i]) <= WholeMax
    BY <2>2, <2>5
  <2>6. CASE ~ (whole \/ Left(t[i]) <= WholeMax)
    <3>1. At1(i) = t[i].s + t[i].w + Left(t[i]) \div 2
      BY <2>6
    <3> HIDE DEF At1
    <3> QED BY <2>2, <2>3, <2>4, <3>1
  <2> QED BY <2>5, <2>6
<1> HIDE DEF At1
<1>3. DOMAIN cut = C /\ C \subseteq DOMAIN t /\ \A i \in C : cut[i] = At1(i)
  OBVIOUS
<1> HIDE DEF cut, C
<1> QED BY <1>1, <1>2, <1>3, SplitOffTable

(* A cut within the rest of one segment (try_steal, shrink_seg). *)
LEMMA SplitOneTable ==
    ASSUME NEW base \in Nat, NEW t, Table(t, base), NEW i \in DOMAIN t, NEW at \in Nat,
           t[i].s + t[i].w <= at, at < t[i].e
    PROVE  /\ Table(SplitOne(t, i, at), base)
           /\ Grown(t, SplitOne(t, i, at))
           /\ Missing(SplitOne(t, i, at)) = Missing(t)
           /\ Len(t) < MaxSegs => Len(SplitOne(t, i, at)) = Len(t) + 1
<1> DEFINE cut == [j \in {i} |-> at]
<1>1. SplitOne(t, i, at) = SplitOff(t, cut)
  BY DEF SplitOne
<1>2. DOMAIN cut = {i} /\ cut[i] = at /\ Cardinality({i}) = 1
  BY FS_Singleton
<1> HIDE DEF cut
<1>3. /\ Table(SplitOff(t, cut), base) /\ Grown(t, SplitOff(t, cut))
      /\ Missing(SplitOff(t, cut)) = Missing(t)
      /\ Len(t) + 1 <= MaxSegs => Len(SplitOff(t, cut)) = Len(t) + 1
  BY <1>2, SplitOffTable
<1>4. Len(t) \in Nat /\ MaxSegs \in Nat
  BY SplitAssumption DEF Table
<1> QED BY <1>1, <1>3, <1>4

(* The middle of a rest of 2 * MinSplit is a place to cut. *)
LEMMA HalfCut ==
    ASSUME NEW base, NEW t, Table(t, base), NEW i \in DOMAIN t, Left(t[i]) >= 2 * MinSplit
    PROVE  Half(t[i]) \in Nat /\ t[i].s + t[i].w <= Half(t[i]) /\ Half(t[i]) < t[i].e
<1>1. t[i] \in SegRec /\ MinSplit \in Nat \ {0}
  BY SplitAssumption DEF Table
<1>2. t[i].s \in Nat /\ t[i].w \in Nat /\ t[i].e \in Nat
  BY <1>1 DEF SegRec
<1> DEFINE l == Left(t[i])
<1>3. l \in Int /\ l = t[i].e - t[i].s - t[i].w /\ l >= 2
  BY <1>1, <1>2 DEF Left
<1> HIDE DEF l
<1>4. l \div 2 \in Nat /\ l \div 2 < l
  BY <1>3
<1>5. Half(t[i]) = t[i].s + t[i].w + l \div 2
  BY DEF Half, l
<1> QED BY <1>2, <1>3, <1>4, <1>5

(* A chunk that joins the watermark of its segment. *)
Joined(t, k, p) == [t EXCEPT ![k].w = p + 1 - t[k].s, ![k].done = p + 1 = t[k].e]

(* A chunk at the watermark of a segment is no longer missing; nothing     *)
(* else changes.                                                           *)
LEMMA JoinTable ==
    ASSUME NEW base \in Nat, NEW t, Table(t, base), NEW k \in DOMAIN t, NEW p \in Nat,
           p = t[k].s + t[k].w, p < t[k].e, NEW u, u = Joined(t, k, p)
    PROVE  /\ Table(u, base) /\ DOMAIN u = DOMAIN t
           /\ p \in Missing(t) /\ Missing(u) = Missing(t) \ {p}
           /\ \A i \in DOMAIN t : /\ u[i].queued = t[i].queued /\ u[i].holders = t[i].holders
                                  /\ u[i].s = t[i].s /\ u[i].e = t[i].e
                                  /\ i # k => u[i] = t[i]
           /\ u[k].w = p + 1 - t[k].s
<1> DEFINE d == p + 1 = t[k].e
           x == [t[k] EXCEPT !.w = p + 1 - t[k].s, !.done = d]
<1>1. t \in Seq(SegRec) /\ t[k] \in SegRec /\ Fits(t[k], base) /\ Total \in Nat
  BY SplitAssumption DEF Table
<1>2. u = [t EXCEPT ![k] = x]
  BY <1>1 DEF SegRec, Joined
<1>3. t[k].s \in Nat /\ t[k].w \in Nat /\ t[k].e \in Nat /\ t[k].e <= Total /\ base <= t[k].s
  BY <1>1 DEF SegRec, Fits
<1>4. /\ x.s = t[k].s /\ x.w = p + 1 - t[k].s /\ x.e = t[k].e /\ x.done = d
      /\ x.queued = t[k].queued /\ x.holders = t[k].holders
  BY <1>1 DEF SegRec
<1>5. p + 1 - t[k].s \in Nat
  BY <1>3
<1>6. x \in SegRec
  BY <1>1, <1>5 DEF SegRec
<1>7. Fits(x, base)
  <2>1. base <= x.s /\ x.s + x.w <= x.e /\ x.e <= Total /\ x.s + x.w = p + 1
    BY <1>3, <1>4
  <2>2. x.done <=> p + 1 = t[k].e
    BY <1>4, Zenon
  <2>3. x.done <=> x.s + x.w = x.e
    BY <1>4, <2>1, <2>2
  <2> QED BY <2>1, <2>3 DEF Fits
<1> HIDE DEF x
<1>8. DOMAIN u = DOMAIN t /\ u[k] = x /\ \A i \in DOMAIN t : i # k => u[i] = t[i]
  BY <1>1, <1>2
<1>9. u \in Seq(SegRec)
  <2>1. PICK n \in Nat : t \in [1..n -> SegRec]
    BY <1>1
  <2>2. u \in [1..n -> SegRec]
    BY <1>2, <1>6, <2>1
  <2> QED BY <2>1, <2>2
<1>10. \A i \in DOMAIN t : /\ u[i].queued = t[i].queued /\ u[i].holders = t[i].holders
                           /\ u[i].s = t[i].s /\ u[i].e = t[i].e
  BY <1>4, <1>8
<1>11. Table(u, base)
  <2>1. \A i \in DOMAIN u : Fits(u[i], base)
    BY <1>7, <1>8 DEF Table
  <2> QED BY <1>8, <1>9, <1>10, <2>1 DEF Table, Covers
<1>12. p \in Pos
  BY <1>1, <1>3 DEF Pos
<1>13. p \in Missing(t)
  BY <1>1, <1>12 DEF Missing
<1>14. ASSUME NEW q \in Pos
       PROVE  (\E i \in DOMAIN u : Lacks(u[i], q)) <=> (\E i \in DOMAIN t : Lacks(t[i], q)) /\ q # p
  <2>0. q \in Nat
    BY SplitAssumption DEF Pos
  <2>1. Lacks(u[k], q) <=> Lacks(t[k], q) /\ q # p
    BY <1>3, <1>4, <1>8, <2>0 DEF Lacks
  <2>2. \A i \in DOMAIN t : i # k => Lacks(u[i], q) = Lacks(t[i], q)
    BY <1>8
  <2>3. \A i \in DOMAIN t : i # k => ~Lacks(t[i], p)
    <3> SUFFICES ASSUME NEW i \in DOMAIN t, Lacks(t[i], p) PROVE i = k
      OBVIOUS
    <3>1. t[i] \in SegRec
      BY DEF Table
    <3>2. Covers(t[i], p) /\ Covers(t[k], p)
      BY <1>3, <3>1 DEF Lacks, Covers, SegRec
    <3> QED BY <3>2 DEF Table
  <2> QED BY <1>8, <2>1, <2>2, <2>3
<1>15. Missing(u) = Missing(t) \ {p}
  BY <1>14 DEF Missing, Lacks
<1> QED BY <1>4, <1>8, <1>10, <1>11, <1>13, <1>15

(* u is t with other marks: who holds a segment and whether it is queued. *)
Relabel(t, u) ==
    /\ u \in Seq(SegRec) /\ DOMAIN u = DOMAIN t
    /\ \A i \in DOMAIN t : /\ u[i].s = t[i].s /\ u[i].e = t[i].e /\ u[i].w = t[i].w
                           /\ u[i].done = t[i].done

(* Marks do not matter to what a table covers. *)
LEMMA RelabelTable ==
    ASSUME NEW base, NEW t, NEW u, Table(t, base), Relabel(t, u)
    PROVE  Table(u, base) /\ Missing(u) = Missing(t)
<1>1. \A i \in DOMAIN u : Fits(u[i], base)
  BY DEF Table, Relabel, Fits
<1>2. Table(u, base)
  BY <1>1 DEF Table, Relabel, Covers
<1>3. Missing(u) = Missing(t)
  BY DEF Missing, Relabel
<1> QED BY <1>2, <1>3

(* One segment of a table replaced. *)
LEMMA SetSeg ==
    ASSUME NEW t \in Seq(SegRec), NEW k \in DOMAIN t, NEW x \in SegRec
    PROVE  /\ [t EXCEPT ![k] = x] \in Seq(SegRec)
           /\ DOMAIN [t EXCEPT ![k] = x] = DOMAIN t
           /\ [t EXCEPT ![k] = x][k] = x
           /\ \A i \in DOMAIN t : i # k => [t EXCEPT ![k] = x][i] = t[i]
<1>1. PICK n \in Nat : t \in [1..n -> SegRec]
  OBVIOUS
<1>2. [t EXCEPT ![k] = x] \in [1..n -> SegRec]
  BY <1>1
<1> QED BY <1>1, <1>2

(* A segment given back: its holder goes, and unfinished it is queued      *)
(* (next_work).                                                            *)
LEMMA ReleasedTable ==
    ASSUME NEW base, NEW t, Table(t, base), NEW g, g = 0 \/ g \in DOMAIN t
    PROVE  /\ Relabel(t, Released(t, g))
           /\ \A i \in DOMAIN t : i # g => Released(t, g)[i] = t[i]
           /\ g # 0 => /\ Released(t, g)[g].holders = Most(t[g].holders - 1, 0)
                       /\ t[g].queued => Released(t, g)[g].queued
                       /\ ~t[g].done /\ t[g].holders = 1 => Released(t, g)[g].queued
                       /\ Released(t, g)[g].queued => t[g].queued \/ Most(t[g].holders - 1, 0) = 0
<1>0. t \in Seq(SegRec)
  BY DEF Table
<1>1. CASE g = 0
  <2>1. Released(t, g) = t
    BY <1>1 DEF Released
  <2> QED BY <1>0, <1>1, <2>1 DEF Relabel
<1>2. CASE g # 0
  <2> DEFINE h == Most(t[g].holders - 1, 0)
             back == ~t[g].done /\ Left(t[g]) > 0 /\ ~t[g].queued /\ h = 0
             q == t[g].queued \/ back
             x == [t[g] EXCEPT !.holders = h, !.queued = q]
  <2>1. g \in DOMAIN t /\ t[g] \in SegRec /\ Fits(t[g], base)
    BY <1>2 DEF Table
  <2>2. Released(t, g) = [t EXCEPT ![g] = x]
    BY <1>0, <1>2, <2>1 DEF Released, SegRec
  <2>3. h \in Nat /\ q \in BOOLEAN
    BY <2>1 DEF Most, SegRec
  <2>4. /\ x \in SegRec /\ x.s = t[g].s /\ x.e = t[g].e /\ x.w = t[g].w /\ x.done = t[g].done
        /\ x.holders = h /\ x.queued = q
    BY <2>1, <2>3 DEF SegRec
  <2>5. ~t[g].done => Left(t[g]) > 0
    BY <2>1 DEF Fits, SegRec, Left
  <2>6. t[g].holders = 1 => h = 0
    BY DEF Most
  <2>7. /\ t[g].queued => q
        /\ ~t[g].done /\ t[g].holders = 1 => q
        /\ q => t[g].queued \/ h = 0
    BY <2>5, <2>6
  <2> HIDE DEF x, q, h
  <2>8. /\ Released(t, g) \in Seq(SegRec) /\ DOMAIN Released(t, g) = DOMAIN t
        /\ Released(t, g)[g] = x /\ \A i \in DOMAIN t : i # g => Released(t, g)[i] = t[i]
    BY <1>0, <2>1, <2>2, <2>4, SetSeg
  <2>9. Relabel(t, Released(t, g))
    BY <2>4, <2>8 DEF Relabel
  <2> QED BY <2>4, <2>7, <2>8, <2>9 DEF h
<1> QED BY <1>1, <1>2

(* A free segment is given to a worker. *)
Assigned(t, i) == [t EXCEPT ![i].queued = FALSE, ![i].holders = @ + 1]

(* u has written what t has, and nothing else. *)
SameWritten(t, u) ==
    \A i \in DOMAIN u : u[i].w = 0 \/ (i \in DOMAIN t /\ u[i].s = t[i].s /\ u[i].w = t[i].w)

(* What cutting and marking do to a table. *)
Reshaped(t, u, base) ==
    /\ Table(u, base) /\ Missing(u) = Missing(t) /\ SameWritten(t, u)
    /\ DOMAIN t \subseteq DOMAIN u

(* Reshaping is transitive; marking and cutting are instances of it. *)
LEMMA ReshapedTwice ==
    ASSUME NEW base, NEW t, NEW u, NEW v, Reshaped(t, u, base), Reshaped(u, v, base)
    PROVE  Reshaped(t, v, base)
<1>1. SameWritten(t, v)
  BY DEF Reshaped, SameWritten
<1> QED BY <1>1 DEF Reshaped

LEMMA RelabelReshaped ==
    ASSUME NEW base, NEW t, NEW u, Table(t, base), Relabel(t, u)
    PROVE  Reshaped(t, u, base)
BY RelabelTable DEF Reshaped, Relabel, SameWritten

LEMMA GrownReshaped ==
    ASSUME NEW base, NEW t, NEW u, Table(t, base), Table(u, base), Grown(t, u),
           Missing(u) = Missing(t)
    PROVE  Reshaped(t, u, base)
<1>1. t \in Seq(SegRec) /\ u \in Seq(SegRec)
  BY DEF Table
<1>2. DOMAIN t \subseteq DOMAIN u
  BY <1>1 DEF Grown
<1>3. SameWritten(t, u)
  BY DEF Grown, SameWritten
<1> QED BY <1>2, <1>3 DEF Reshaped

(* Assigning changes the marks of one segment. *)
LEMMA AssignedTable ==
    ASSUME NEW base, NEW t, Table(t, base), NEW i \in DOMAIN t
    PROVE  /\ Reshaped(t, Assigned(t, i), base) /\ DOMAIN Assigned(t, i) = DOMAIN t
           /\ ~Assigned(t, i)[i].queued /\ Assigned(t, i)[i].holders = t[i].holders + 1
           /\ \A j \in DOMAIN t : j # i => Assigned(t, i)[j] = t[j]
<1> DEFINE x == [t[i] EXCEPT !.queued = FALSE, !.holders = t[i].holders + 1]
<1>1. t \in Seq(SegRec) /\ t[i] \in SegRec
  BY DEF Table
<1>a. t[i].holders + 1 \in Nat
  BY <1>1 DEF SegRec
<1>2. /\ x \in SegRec /\ x.s = t[i].s /\ x.e = t[i].e /\ x.w = t[i].w /\ x.done = t[i].done
      /\ x.queued = FALSE /\ x.holders = t[i].holders + 1
  BY <1>1, <1>a DEF SegRec
<1>3. Assigned(t, i) = [t EXCEPT ![i] = x]
  BY <1>1 DEF Assigned, SegRec
<1> HIDE DEF x
<1>4. /\ Assigned(t, i) \in Seq(SegRec) /\ DOMAIN Assigned(t, i) = DOMAIN t
      /\ Assigned(t, i)[i] = x /\ \A j \in DOMAIN t : j # i => Assigned(t, i)[j] = t[j]
  BY <1>1, <1>2, <1>3, SetSeg
<1>5. Relabel(t, Assigned(t, i))
  BY <1>2, <1>4 DEF Relabel
<1> QED BY <1>2, <1>4, <1>5, RelabelReshaped

----------------------------------------------------------------------------
(* Control files. *)

(* A segment in the control file. *)
CtrlSeg == [s : Nat, w : Nat, e : Nat]

(* A control file whose segments tile the file from its base on. *)
Ctrl(c) ==
    /\ c \in [base : Nat, segs : SUBSET CtrlSeg]
    /\ c.base <= Total
    /\ \A x \in c.segs : c.base <= x.s /\ x.s < x.e /\ x.s + x.w <= x.e /\ x.e <= Total
    /\ \A p \in c.base..(Total - 1) : \E x \in c.segs : Covers(x, p)
    /\ \A x, y \in c.segs : \A p \in Nat : Covers(x, p) /\ Covers(y, p) => x = y

(* What a control file claims, and what a table has written, is among the  *)
(* bytes G.                                                                *)
Claims(c, G) == /\ 0..(c.base - 1) \subseteq G
                /\ \A x \in c.segs : x.s..(x.s + x.w - 1) \subseteq G

Written(t, G) == \A i \in DOMAIN t : t[i].s..(t[i].s + t[i].w - 1) \subseteq G

(* A claim stands while bytes are added. *)
LEMMA ClaimsMonotone ==
    ASSUME NEW c, NEW G, NEW H, Claims(c, G), G \subseteq H
    PROVE  Claims(c, H)
BY DEF Claims

(* A reshaped table claims nothing that was not written. *)
LEMMA WrittenReshaped ==
    ASSUME NEW base, NEW t, NEW u, NEW G, Reshaped(t, u, base), Written(t, G)
    PROVE  Written(u, G)
<1> SUFFICES ASSUME NEW i \in DOMAIN u, NEW q \in u[i].s..(u[i].s + u[i].w - 1) PROVE q \in G
  BY DEF Written
<1>1. CASE u[i].w = 0
  <2>0. u[i] \in SegRec
    BY DEF Reshaped, Table
  <2>1. u[i].s \in Nat
    BY <2>0 DEF SegRec
  <2> QED BY <1>1, <2>1
<1>2. CASE i \in DOMAIN t /\ u[i].s = t[i].s /\ u[i].w = t[i].w
  BY <1>2 DEF Written
<1> QED BY <1>1, <1>2 DEF Reshaped, SameWritten

(* The segments of a control file differ in their starts. *)
LEMMA CtrlStarts ==
    ASSUME NEW c, Ctrl(c)
    PROVE  LET K == {x.s : x \in c.segs}
           IN /\ K \in SUBSET Nat /\ IsFiniteSet(K) /\ IsFiniteSet(c.segs)
              /\ Cardinality(K) = Cardinality(c.segs) /\ Cardinality(K) \in Nat
              /\ \A x, y \in c.segs : x.s = y.s => x = y
<1> DEFINE K == {x.s : x \in c.segs}
           f == [x \in c.segs |-> x.s]
<1>1. Total \in Nat
  BY SplitAssumption
<1>2. \A x \in c.segs : x.s \in Nat /\ x.e \in Nat /\ x.s < x.e /\ x.e <= Total
  BY DEF Ctrl, CtrlSeg
<1>3. \A x, y \in c.segs : x.s = y.s => x = y
  <2> SUFFICES ASSUME NEW x \in c.segs, NEW y \in c.segs, x.s = y.s PROVE x = y
    OBVIOUS
  <2>1. Covers(x, x.s) /\ Covers(y, x.s) /\ x.s \in Nat
    BY <1>2 DEF Covers
  <2> QED BY <2>1 DEF Ctrl
<1>4. K \in SUBSET (0..Total) /\ K \in SUBSET Nat
  BY <1>1, <1>2
<1>5. IsFiniteSet(K) /\ Cardinality(K) \in Nat
  <2> HIDE DEF K
  <2>1. IsFiniteSet(0..Total)
    BY <1>1, FS_Interval
  <2>2. IsFiniteSet(K)
    BY <1>4, <2>1, FS_Subset
  <2> QED BY <2>2, FS_CardinalityType
<1>6. f \in Injection(c.segs, K)
  BY <1>3 DEF Injection, IsInjective
<1>7. f \in Surjection(c.segs, K)
  BY DEF Surjection
<1> QED BY <1>3, <1>4, <1>5, <1>6, <1>7, FS_Injection

(* A start makes a table of a control file: its segments, in order,        *)
(* unheld.                                                                 *)
LEMMA RestoredTable ==
    ASSUME NEW c, Ctrl(c)
    PROVE  /\ Table(Restored(c), c.base)
           /\ \A i \in DOMAIN Restored(c) :
                /\ Restored(c)[i].holders = 0 /\ Restored(c)[i].queued = ~Restored(c)[i].done
                /\ \E x \in c.segs : /\ Restored(c)[i].s = x.s /\ Restored(c)[i].w = x.w
                                     /\ Restored(c)[i].e = x.e
<1> DEFINE K == {x.s : x \in c.segs}
           n == Cardinality(c.segs)
           t == Restored(c)
           X(i) == CHOOSE y \in c.segs : y.s = Nth(K, i)
           R(x) == [s |-> x.s, e |-> x.e, w |-> x.w, done |-> x.w >= x.e - x.s,
                    queued |-> ~(x.w >= x.e - x.s), holders |-> 0]
<1>1. /\ K \in SUBSET Nat /\ IsFiniteSet(K) /\ Cardinality(K) = n /\ n \in Nat
      /\ \A x, y \in c.segs : x.s = y.s => x = y
  BY CtrlStarts
<1>2. \A i \in 1..n : X(i) \in c.segs /\ X(i).s = Nth(K, i)
  <2>1. \A i \in 1..n : Nth(K, i) \in K
    BY <1>1, NthCounts
  <2>2. \A i \in 1..n : \E y \in c.segs : y.s = Nth(K, i)
    BY <2>1
  <2> QED BY <2>2
<1>3. \A x \in c.segs : \E i \in 1..n : X(i) = x
  <2> SUFFICES ASSUME NEW x \in c.segs PROVE \E i \in 1..n : X(i) = x
    OBVIOUS
  <2>0. x.s \in K
    OBVIOUS
  <2>1. PICK i \in 1..n : Nth(K, i) = x.s
    <3> HIDE DEF K, n
    <3> QED BY <1>1, <2>0, NthCounts
  <2>2. X(i) \in c.segs /\ X(i).s = x.s
    BY <1>2, <2>1
  <2>3. X(i) = x
    BY <1>1, <2>2
  <2> QED BY <2>3
<1>4. \A i, j \in 1..n : X(i) = X(j) => i = j
  <2> SUFFICES ASSUME NEW i \in 1..n, NEW j \in 1..n, X(i) = X(j) PROVE i = j
    OBVIOUS
  <2>1. Nth(K, i) = Nth(K, j)
    BY <1>2
  <2> QED BY <1>1, <2>1, NthCounts
<1>5. t = [i \in 1..n |-> R(X(i))]
  BY DEF Restored
<1> HIDE DEF X, K, n, t
<1>6. ASSUME NEW x \in c.segs
      PROVE  /\ R(x) \in SegRec /\ Fits(R(x), c.base) /\ R(x).queued = ~R(x).done
             /\ R(x).s = x.s /\ R(x).w = x.w /\ R(x).e = x.e /\ R(x).holders = 0
             /\ \A p \in Nat : Covers(R(x), p) <=> Covers(x, p)
  <2>1. /\ x.s \in Nat /\ x.w \in Nat /\ x.e \in Nat /\ c.base \in Nat /\ Total \in Nat
        /\ c.base <= x.s /\ x.s < x.e /\ x.s + x.w <= x.e /\ x.e <= Total
    BY SplitAssumption DEF Ctrl, CtrlSeg
  <2>2. (x.w >= x.e - x.s) <=> x.s + x.w = x.e
    BY <2>1
  <2>3. R(x) \in SegRec
    BY <2>1 DEF SegRec
  <2>4. Fits(R(x), c.base)
    BY <2>1, <2>2 DEF Fits
  <2> QED BY <2>3, <2>4 DEF Covers
<1> HIDE DEF R
<1>7. \A i \in 1..n : t[i] = R(X(i)) /\ X(i) \in c.segs
  BY <1>2, <1>5
<1>8. t \in Seq(SegRec) /\ DOMAIN t = 1..n
  <2>1. t \in [1..n -> SegRec]
    BY <1>2, <1>5, <1>6
  <2> QED BY <1>1, <2>1
<1>9. Table(t, c.base)
  <2>1. \A i \in DOMAIN t : Fits(t[i], c.base)
    BY <1>6, <1>7, <1>8
  <2>2. \A p \in c.base..(Total - 1) : \E i \in DOMAIN t : Covers(t[i], p)
    <3> TAKE p \in c.base..(Total - 1)
    <3>1. PICK x \in c.segs : Covers(x, p)
      BY DEF Ctrl
    <3>2. p \in Nat
      BY SplitAssumption DEF Ctrl
    <3>3. PICK i \in 1..n : X(i) = x
      BY <1>3
    <3>4. Covers(t[i], p)
      BY <1>6, <1>7, <3>1, <3>2, <3>3
    <3> QED BY <1>8, <3>4
  <2>3. \A i, j \in DOMAIN t : \A p \in Nat : Covers(t[i], p) /\ Covers(t[j], p) => i = j
    <3> SUFFICES ASSUME NEW i \in 1..n, NEW j \in 1..n, NEW p \in Nat,
                        Covers(t[i], p), Covers(t[j], p)
                 PROVE  i = j
      BY <1>8
    <3>1. Covers(X(i), p) /\ Covers(X(j), p)
      BY <1>6, <1>7
    <3>2. X(i) = X(j)
      BY <1>7, <3>1 DEF Ctrl
    <3> QED BY <1>4, <3>2
  <2> QED BY <1>8, <2>1, <2>2, <2>3 DEF Table
<1>10. \A i \in DOMAIN t : /\ t[i].holders = 0 /\ t[i].queued = ~t[i].done
                           /\ \E x \in c.segs : t[i].s = x.s /\ t[i].w = x.w /\ t[i].e = x.e
  BY <1>6, <1>7, <1>8
<1> QED BY <1>9, <1>10 DEF t

(* A snapshot of a table is a control file that claims what the table has  *)
(* written.                                                                *)
LEMMA SnapshotCtrl ==
    ASSUME NEW base \in Nat, base <= Total, NEW t, Table(t, base)
    PROVE  /\ Ctrl(Snapshot(base, t)) /\ Snapshot(base, t).base = base
           /\ Snapshot(base, t) # NoCtrl
           /\ \A G : 0..(base - 1) \subseteq G /\ Written(t, G) => Claims(Snapshot(base, t), G)
<1> DEFINE c == Snapshot(base, t)
           D == {j \in DOMAIN t : t[j].e > t[j].s}
           S(i) == [s |-> t[i].s, w |-> t[i].w, e |-> t[i].e]
<1>1. c.base = base /\ c.segs = {S(i) : i \in D}
  BY DEF Snapshot
<1>2. \A i \in D : /\ t[i].s \in Nat /\ t[i].w \in Nat /\ t[i].e \in Nat /\ S(i) \in CtrlSeg
                   /\ base <= t[i].s /\ t[i].s < t[i].e /\ t[i].s + t[i].w <= t[i].e
                   /\ t[i].e <= Total /\ i \in DOMAIN t
  <2> TAKE i \in D
  <2>1. t[i] \in SegRec /\ Fits(t[i], base) /\ t[i].e > t[i].s
    BY DEF Table
  <2> QED BY <2>1 DEF SegRec, CtrlSeg, Fits
<1>3. c \in [base : Nat, segs : SUBSET CtrlSeg]
  BY <1>2 DEF Snapshot
<1>4. \A i \in DOMAIN t : \A p \in Nat : Covers(t[i], p) => i \in D /\ Covers(S(i), p)
  <2> SUFFICES ASSUME NEW i \in DOMAIN t, NEW p \in Nat, Covers(t[i], p)
               PROVE  i \in D /\ Covers(S(i), p)
    OBVIOUS
  <2>0. t[i] \in SegRec
    BY DEF Table
  <2>1. t[i].s \in Nat /\ t[i].e \in Nat
    BY <2>0 DEF SegRec
  <2> QED BY <2>1 DEF Covers
<1>5. \A i \in D : \A p \in Nat : Covers(S(i), p) => Covers(t[i], p)
  BY DEF Covers
<1>6. \A x \in c.segs : c.base <= x.s /\ x.s < x.e /\ x.s + x.w <= x.e /\ x.e <= Total
  BY <1>1, <1>2
<1>7. \A p \in c.base..(Total - 1) : \E x \in c.segs : Covers(x, p)
  <2> TAKE p \in c.base..(Total - 1)
  <2>1. p \in Nat /\ p \in base..(Total - 1)
    BY <1>1, SplitAssumption
  <2>2. PICK i \in DOMAIN t : Covers(t[i], p)
    BY <2>1 DEF Table
  <2> QED BY <1>1, <1>4, <2>1, <2>2
<1>8. \A x, y \in c.segs : \A p \in Nat : Covers(x, p) /\ Covers(y, p) => x = y
  <2> SUFFICES ASSUME NEW i \in D, NEW j \in D, NEW p \in Nat, Covers(S(i), p), Covers(S(j), p)
               PROVE  S(i) = S(j)
    BY <1>1
  <2>1. i = j
    BY <1>5 DEF Table
  <2> QED BY <2>1
<1>9. Ctrl(c)
  BY <1>1, <1>3, <1>6, <1>7, <1>8 DEF Ctrl
<1>10. c # NoCtrl
  BY <1>3, SplitAssumption DEF CtrlSeg
<1>11. ASSUME NEW G, 0..(base - 1) \subseteq G, Written(t, G) PROVE Claims(c, G)
  BY <1>1, <1>11 DEF Claims, Written
<1> QED BY <1>1, <1>9, <1>10, <1>11

(* A control file that claims nothing beyond the file is believed. *)
LEMMA ClaimsUsable ==
    ASSUME NEW c, Ctrl(c), c # NoCtrl, c.segs # {}, disk.len \in Nat,
           disk.good \subseteq 0..(disk.len - 1), Claims(c, disk.good)
    PROVE  Usable(c)
<1>1. ASSUME NEW x \in c.segs, x.w # 0 PROVE x.s + x.w <= disk.len
  <2>1. x.s \in Nat /\ x.w \in Nat /\ x.s + x.w - 1 \in x.s..(x.s + x.w - 1)
    BY <1>1 DEF Ctrl, CtrlSeg
  <2>2. x.s + x.w - 1 \in 0..(disk.len - 1)
    BY <2>1 DEF Claims
  <2> QED BY <2>1, <2>2
<1>2. ASSUME NEW p \in c.base..(Total - 1)
      PROVE  Cardinality({x \in c.segs : x.s <= p /\ p < x.e}) = 1
  <2>1. p \in Nat
    BY SplitAssumption DEF Ctrl
  <2>2. PICK x \in c.segs : Covers(x, p)
    BY DEF Ctrl
  <2>3. \A y \in c.segs : Covers(y, p) => y = x
    BY <2>1, <2>2 DEF Ctrl
  <2>4. {y \in c.segs : y.s <= p /\ p < y.e} = {x}
    BY <2>2, <2>3 DEF Covers
  <2> QED BY <2>4, FS_Singleton
<1> QED BY <1>1, <1>2 DEF Usable

(* There is a worker. *)
LEMMA ConnCount == Cardinality(Conn) \in Nat /\ Cardinality(Conn) >= 1
<1>1. IsFiniteSet(Conn) /\ Conn # {}
  BY SplitAssumption
<1> QED BY <1>1, FS_CardinalityType, FS_EmptySet

(* The first cut of a file is a table of segments of equal length, all     *)
(* queued.                                                                 *)
LEMMA CutTable ==
    ASSUME NEW base \in Nat, base <= Total
    PROVE  /\ Table(Cut(base), base)
           /\ \A i \in DOMAIN Cut(base) : /\ Cut(base)[i].holders = 0 /\ Cut(base)[i].queued = TRUE
                                          /\ Cut(base)[i].w = 0 /\ Cut(base)[i].done = FALSE
<1> DEFINE rest == Total - base
           n == IF rest = 0 THEN 0 ELSE Least(Least(Splits, 2 * Cardinality(Conn)), rest)
           t == Cut(base)
           Edge(i) == base + (rest * i) \div n
<1>0. Total \in Nat /\ Splits \in Nat \ {0} /\ rest \in Nat /\ base + rest = Total
  BY SplitAssumption
<1>1. n \in Nat /\ n <= rest /\ (rest # 0 => n # 0)
  BY <1>0, ConnCount DEF Least
<1>2. t = [i \in 1..n |-> Fresh(Edge(i - 1), Edge(i))]
  <2>1. t = [i \in 1..n |-> Fresh(base + (rest * (i - 1)) \div n, base + (rest * i) \div n)]
    BY DEF Cut
  <2> QED BY <2>1
<1> HIDE DEF n, rest, t
<1>3. ASSUME n # 0
      PROVE  /\ \A i \in 0..n : Edge(i) \in Nat /\ base <= Edge(i) /\ Edge(i) <= Total
             /\ Edge(0) = base /\ Edge(n) = Total
             /\ \A i \in 1..n : Edge(i - 1) + 1 <= Edge(i)
             /\ \A i, j \in 0..n : i <= j => Edge(i) <= Edge(j)
  <2>1. \A i \in 0..n : rest * i \in Nat /\ rest * i <= rest * n
    BY <1>0, <1>1, MulMono
  <2>2. (rest * n) \div n = rest /\ (rest * 0) \div n = 0
    <3>1. rest * n = n * rest /\ rest * 0 = 0
      BY <1>0, <1>1
    <3> DEFINE q == (n * rest) \div n
    <3>2. q \in Nat /\ n * q <= n * rest /\ n * rest < n * q + n
      BY <1>0, <1>1, <1>3
    <3> HIDE DEF q
    <3>3. ~ (q + 1 <= rest)
      <4> SUFFICES ASSUME q + 1 <= rest PROVE FALSE
        OBVIOUS
      <4>1. n * (q + 1) <= n * rest
        BY <1>0, <1>1, <3>2, MulMono
      <4>2. n * (q + 1) = n * q + n
        BY <1>1, <3>2
      <4> QED BY <1>0, <1>1, <3>2, <4>1, <4>2
    <3>4. ~ (rest + 1 <= q)
      <4> SUFFICES ASSUME rest + 1 <= q PROVE FALSE
        OBVIOUS
      <4>1. n * (rest + 1) <= n * q
        BY <1>0, <1>1, <3>2, MulMono
      <4>2. n * (rest + 1) = n * rest + n
        BY <1>0, <1>1
      <4> QED BY <1>0, <1>1, <1>3, <3>2, <4>1, <4>2
    <3>5. q = rest
      BY <1>0, <3>2, <3>3, <3>4
    <3>6. 0 \div n = 0
      BY <1>1, <1>3
    <3> QED BY <3>1, <3>5, <3>6 DEF q
  <2>3. \A i, j \in 0..n : i <= j => (rest * i) \div n <= (rest * j) \div n
    <3> SUFFICES ASSUME NEW i \in 0..n, NEW j \in 0..n, i <= j
                 PROVE  (rest * i) \div n <= (rest * j) \div n
      OBVIOUS
    <3>1. rest * i <= rest * j
      BY <1>0, <1>1, MulMono
    <3> QED BY <1>1, <1>3, <2>1, <3>1, DivMono
  <2>4. \A i \in 0..n : (rest * i) \div n \in Nat /\ (rest * i) \div n <= rest
    <3> TAKE i \in 0..n
    <3>1. (rest * i) \div n <= (rest * n) \div n
      BY <1>1, <2>3
    <3>2. rest * i \in Nat
      BY <2>1
    <3> QED BY <1>1, <1>3, <2>2, <3>1, <3>2
  <2>5. \A i \in 1..n : (rest * (i - 1)) \div n + 1 <= (rest * i) \div n
    <3> TAKE i \in 1..n
    <3>1. rest * i = rest * (i - 1) + rest /\ i - 1 \in 0..n /\ i \in 0..n
      BY <1>0, <1>1
    <3>2. rest * (i - 1) + n <= rest * i
      BY <1>0, <1>1, <2>1, <3>1
    <3> QED BY <1>1, <1>3, <2>1, <3>1, <3>2, DivStep
  <2>6. \A i \in 0..n : Edge(i) = base + (rest * i) \div n
    OBVIOUS
  <2>7. \A i \in 1..n : i - 1 \in 0..n /\ i \in 0..n
    BY <1>1
  <2>8. 0 \in 0..n /\ n \in 0..n
    BY <1>1
  <2> HIDE DEF Edge
  <2>9. \A i \in 0..n : Edge(i) \in Nat /\ base <= Edge(i) /\ Edge(i) <= Total
    BY <1>0, <2>4, <2>6
  <2>10. Edge(0) = base /\ Edge(n) = Total
    <3>1. Edge(0) = base + (rest * 0) \div n /\ Edge(n) = base + (rest * n) \div n
      BY <2>6, <2>8
    <3> QED BY <1>0, <2>2, <3>1
  <2>11. \A i \in 1..n : Edge(i - 1) + 1 <= Edge(i)
    BY <1>0, <2>4, <2>5, <2>6, <2>7
  <2>12. \A i, j \in 0..n : i <= j => Edge(i) <= Edge(j)
    BY <1>0, <2>3, <2>4, <2>6
  <2> QED BY <2>9, <2>10, <2>11, <2>12
<1> HIDE DEF Edge
<1>4. \A i \in 1..n : /\ n # 0 /\ i - 1 \in 0..n /\ i \in 0..n
                      /\ t[i] = Fresh(Edge(i - 1), Edge(i))
  BY <1>1, <1>2
<1>5. ASSUME NEW i \in 1..n
      PROVE  /\ t[i] \in SegRec /\ Fits(t[i], base) /\ t[i].s = Edge(i - 1) /\ t[i].e = Edge(i)
             /\ t[i].w = 0 /\ t[i].holders = 0 /\ t[i].queued = TRUE /\ t[i].done = FALSE
  <2>0. t[i] = [s |-> Edge(i - 1), e |-> Edge(i), w |-> 0, done |-> FALSE,
                queued |-> TRUE, holders |-> 0]
    <3>1. t[i] = Fresh(Edge(i - 1), Edge(i))
      BY <1>4
    <3> QED BY <3>1 DEF Fresh
  <2>1. /\ Edge(i - 1) \in Nat /\ Edge(i) \in Nat /\ base <= Edge(i - 1) /\ Edge(i) <= Total
        /\ Edge(i - 1) + 1 <= Edge(i)
    BY <1>3, <1>4
  <2>2. /\ t[i].s = Edge(i - 1) /\ t[i].e = Edge(i) /\ t[i].w = 0 /\ t[i].holders = 0
        /\ t[i].queued = TRUE /\ t[i].done = FALSE
    BY <2>0
  <2>3. t[i] \in SegRec
    BY <2>0, <2>1 DEF SegRec
  <2>4. Fits(t[i], base)
    BY <1>0, <2>1, <2>2 DEF Fits
  <2> QED BY <2>2, <2>3, <2>4
<1>6. t \in Seq(SegRec) /\ DOMAIN t = 1..n
  <2>1. DOMAIN t = 1..n /\ t \in [1..n -> SegRec]
    BY <1>2, <1>5
  <2> QED BY <1>1, <2>1
<1>7. \A p \in base..(Total - 1) : \E i \in DOMAIN t : Covers(t[i], p)
  <2> TAKE p \in base..(Total - 1)
  <2>1. n # 0 /\ p \in Nat /\ base <= p /\ p < Total
    BY <1>0, <1>1
  <2> DEFINE J == {i \in 0..n : p < Edge(i)}
  <2>2. n \in J /\ J \in SUBSET Nat /\ IsFiniteSet(0..n)
    BY <1>1, <1>3, <2>1, FS_Interval
  <2>3. IsFiniteSet(J)
    BY <2>2, FS_Subset
  <2>4. PICK i \in J : \A j \in J : i <= j
    BY <2>2, <2>3, Smallest
  <2>5. i # 0
    BY <1>3, <2>1, <2>4
  <2>6. i \in 1..n /\ i - 1 \in 0..n /\ i - 1 \notin J
    BY <1>1, <2>2, <2>4, <2>5
  <2>7. Edge(i - 1) <= p /\ p < Edge(i)
    BY <1>3, <2>1, <2>4, <2>6
  <2> QED BY <1>5, <1>6, <2>6, <2>7 DEF Covers
<1>8. \A i, j \in DOMAIN t : \A p \in Nat : Covers(t[i], p) /\ Covers(t[j], p) => i = j
  <2>1. \A i, j \in 1..n : \A p \in Nat : i < j => ~ (Covers(t[i], p) /\ Covers(t[j], p))
    <3> SUFFICES ASSUME NEW i \in 1..n, NEW j \in 1..n, NEW p \in Nat, i < j,
                        Covers(t[i], p), Covers(t[j], p)
                 PROVE  FALSE
      OBVIOUS
    <3>1. i \in 0..n /\ j - 1 \in 0..n /\ i <= j - 1
      BY <1>1
    <3>2. Edge(i) <= Edge(j - 1) /\ Edge(i) \in Nat /\ Edge(j - 1) \in Nat
      BY <1>3, <1>4, <3>1
    <3>3. p < Edge(i) /\ Edge(j - 1) <= p
      BY <1>5 DEF Covers
    <3> QED BY <3>2, <3>3
  <2> QED BY <1>1, <1>6, <2>1
<1>9. Table(t, base)
  BY <1>5, <1>6, <1>7, <1>8 DEF Table
<1> QED BY <1>5, <1>6, <1>9 DEF t

----------------------------------------------------------------------------
(* Who holds what. *)

(* Every unfinished segment is queued or held, by one worker and not both; *)
(* h gives the workers.                                                    *)
Keeps(t, h) ==
    \A i \in DOMAIN t :
        /\ t[i].holders = 0 => h[i] = {}
        /\ t[i].holders # 0 => t[i].holders = 1 /\ \E c \in Conn : h[i] = {c}
        /\ t[i].queued => t[i].holders = 0
        /\ t[i].done \/ t[i].queued \/ t[i].holders = 1

(* The workers that hold each segment, and the same without c. *)
Hold == [i \in Nat |-> Holders(i)]

HoldBut(c) == [i \in Nat |-> Holders(i) \ {c}]

(* Cutting leaves holders alone, and what is cut off is queued. *)
LEMMA GrownKeeps ==
    ASSUME NEW base, NEW t, NEW u, NEW h, Table(t, base), Table(u, base), Grown(t, u),
           Keeps(t, h), \A i \in DOMAIN u \ DOMAIN t : h[i] = {}
    PROVE  Keeps(u, h)
<1> SUFFICES ASSUME NEW i \in DOMAIN u
             PROVE  /\ u[i].holders = 0 => h[i] = {}
                    /\ u[i].holders # 0 => u[i].holders = 1 /\ \E c \in Conn : h[i] = {c}
                    /\ u[i].queued => u[i].holders = 0
                    /\ u[i].done \/ u[i].queued \/ u[i].holders = 1
  BY DEF Keeps
<1>1. CASE i \in DOMAIN t
  <2>1. u[i].holders = t[i].holders /\ u[i].queued = t[i].queued /\ (t[i].done => u[i].done)
    BY <1>1 DEF Grown
  <2> QED BY <1>1, <2>1 DEF Keeps
<1>2. CASE i \notin DOMAIN t
  BY <1>2 DEF Grown
<1> QED BY <1>1, <1>2

(* When c gives its segment back, the table is right for the others. *)
LEMMA ReleasedKeeps ==
    ASSUME NEW base, NEW t, Table(t, base), NEW c \in Conn, NEW g, g = 0 \/ g \in DOMAIN t,
           Keeps(t, Hold), \A i \in DOMAIN t : c \in Hold[i] <=> i = g
    PROVE  Keeps(Released(t, g), HoldBut(c))
<1>0. t \in Seq(SegRec)
  BY DEF Table
<1>1. /\ Relabel(t, Released(t, g))
      /\ \A i \in DOMAIN t : i # g => Released(t, g)[i] = t[i]
      /\ g # 0 => /\ Released(t, g)[g].holders = Most(t[g].holders - 1, 0)
                  /\ ~t[g].done /\ t[g].holders = 1 => Released(t, g)[g].queued
                  /\ Released(t, g)[g].queued => t[g].queued \/ Most(t[g].holders - 1, 0) = 0
  BY ReleasedTable
<1>2. DOMAIN Released(t, g) = DOMAIN t /\ DOMAIN t \subseteq Nat
  BY <1>0, <1>1 DEF Relabel
<1>3. \A i \in DOMAIN t : Hold[i] = Holders(i) /\ HoldBut(c)[i] = Holders(i) \ {c}
  BY <1>2 DEF Hold, HoldBut
<1> SUFFICES ASSUME NEW i \in DOMAIN t
             PROVE  LET u == Released(t, g) h == HoldBut(c) IN
                    /\ u[i].holders = 0 => h[i] = {}
                    /\ u[i].holders # 0 => u[i].holders = 1 /\ \E d \in Conn : h[i] = {d}
                    /\ u[i].queued => u[i].holders = 0
                    /\ u[i].done \/ u[i].queued \/ u[i].holders = 1
  BY <1>2 DEF Keeps
<1>4. CASE i # g
  <2>1. HoldBut(c)[i] = Hold[i]
    BY <1>3, <1>4
  <2> QED BY <1>1, <1>4, <2>1 DEF Keeps
<1>5. CASE i = g
  <2>1. g # 0 /\ c \in Hold[g]
    BY <1>0, <1>5
  <2>2. t[g].holders = 1 /\ Hold[g] = {c}
    BY <1>5, <2>1 DEF Keeps
  <2>3. HoldBut(c)[g] = {}
    BY <1>3, <1>5, <2>2
  <2>4. Released(t, g)[g].holders = 0
    BY <1>1, <2>1, <2>2 DEF Most
  <2>5. Released(t, g)[g].done = t[g].done
    BY <1>1, <1>5 DEF Relabel
  <2> QED BY <1>1, <1>5, <2>1, <2>2, <2>3, <2>4, <2>5
<1> QED BY <1>4, <1>5

(* A segment that was free is held by its new worker alone. *)
LEMMA AssignedKeeps ==
    ASSUME NEW base, NEW t, Table(t, base), NEW i \in DOMAIN t, NEW c \in Conn,
           NEW h, NEW hh, Keeps(t, h), t[i].holders = 0, hh[i] = {c},
           \A j \in DOMAIN t : j # i => hh[j] = h[j]
    PROVE  Keeps(Assigned(t, i), hh)
<1>0. /\ DOMAIN Assigned(t, i) = DOMAIN t
      /\ ~Assigned(t, i)[i].queued /\ Assigned(t, i)[i].holders = t[i].holders + 1
      /\ \A j \in DOMAIN t : j # i => Assigned(t, i)[j] = t[j]
  BY AssignedTable
<1>1. /\ DOMAIN Assigned(t, i) = DOMAIN t
      /\ ~Assigned(t, i)[i].queued /\ Assigned(t, i)[i].holders = 1
      /\ \A j \in DOMAIN t : j # i => Assigned(t, i)[j] = t[j]
  BY <1>0
<1> SUFFICES ASSUME NEW k \in DOMAIN t
             PROVE  LET u == Assigned(t, i) IN
                    /\ u[k].holders = 0 => hh[k] = {}
                    /\ u[k].holders # 0 => u[k].holders = 1 /\ \E d \in Conn : hh[k] = {d}
                    /\ u[k].queued => u[k].holders = 0
                    /\ u[k].done \/ u[k].queued \/ u[k].holders = 1
  BY <1>1 DEF Keeps
<1>2. CASE k = i
  BY <1>1, <1>2
<1>3. CASE k # i
  BY <1>1, <1>3 DEF Keeps
<1> QED BY <1>2, <1>3

----------------------------------------------------------------------------
(* The inductive invariant. *)

(* The stages of download_split: at work, in Finish, over. *)
Running == split \in {"run", "stop", "cancelled"}

Ending == split \in {"success", "discard", "drop", "preserve", "keep"}

Ended == split \in {"ok", "nosplit", "paused", "io", "net"}

(* The types that do not depend on bounds. *)
ConnRec == [pc : {"off", "ask", "vain", "get", "put"}, seg : Nat, pos : Nat,
            fails : Nat, shorts : Nat, give : Nat]

WrRec == [base : Nat, todo : Nat, alive : Nat, want : Int,
          fatal : {"none", "io", "net", "nosplit"}, fin : BOOLEAN]

JobRec == [cf : [base : Nat, segs : SUBSET CtrlSeg], synced : BOOLEAN]

DrvRec == [at : {"idle", "split", "one", "fresh", "net", "io", "paused", "error", "done"},
           try : Nat, reset : BOOLEAN, done : Int, was : Int, torn : BOOLEAN]

File(f) == /\ f \in [len : Nat, good : SUBSET Nat]
           /\ f.len <= Total /\ f.good \subseteq 0..(f.len - 1)

(* Types, with the control files well formed. *)
Types ==
    /\ File(disk) /\ File(stable)
    /\ ctrl # NoCtrl => Ctrl(ctrl)
    /\ jobs \in Seq(JobRec) /\ \A k \in DOMAIN jobs : Ctrl(jobs[k].cf)
    /\ wr \in WrRec /\ wr.base <= Total
    /\ conn \in [Conn -> ConnRec]
    /\ Running \/ Ending \/ Ended \/ split = "off"
    /\ drv \in DrvRec
    /\ sink \in [pos : Nat, idle : Nat] /\ sink.pos <= Total

(* The table tiles the file, and todo counts what it lacks. *)
TableInv ==
    split # "off" => /\ Table(segs, wr.base)
                     /\ wr.todo = Cardinality(Missing(segs))
                     /\ wr.fin <=> wr.todo = 0

(* Workers hold segments of the table; joined ones only their last chunk. *)
PlaceInv ==
    /\ split = "run" => \A c \in Conn :
         /\ conn[c].pc \in {"vain", "get", "put"} => conn[c].seg \in DOMAIN segs
         /\ conn[c].pc = "ask" => conn[c].give = 0 \/ conn[c].give \in DOMAIN segs
    /\ split \in {"stop", "cancelled"} => \A c \in Conn :
         /\ conn[c].pc \in {"put", "off"}
         /\ conn[c].pc = "put" => conn[c].seg \in DOMAIN segs
    /\ ~Running => \A c \in Conn : conn[c].pc = "off"

(* Until a fatal error, segments are queued or held. *)
HoldInv == split = "run" /\ wr.fatal = "none" => Keeps(segs, Hold)

Busy == {c \in Conn : conn[c].pc # "off"}

(* Until the download is over, alive counts the workers, at least one. *)
CountInv ==
    split = "run" /\ ~Over => wr.alive = Cardinality(Busy) /\ wr.alive >= 1

(* How the driver, download_split, the control file and the sync thread go *)
(* together.                                                               *)
ModeInv ==
    /\ drv.at = "split" <=> split # "off"
    /\ jobs # <<>> => Running
    /\ drv.at \in {"fresh", "one"} => ctrl = NoCtrl
    /\ site # "ranges" => ctrl = NoCtrl /\ split = "off"
    /\ drv.at = "one" => disk.len <= sink.pos
    /\ Running \/ Ending => ctrl # NoCtrl /\ ctrl.base = wr.base
    /\ \A k \in DOMAIN jobs : jobs[k].cf.base = wr.base
    /\ split = "stop" => Over
    /\ split = "preserve" => wr.fatal \in {"io", "net"}
    /\ split = "discard" => wr.fatal = "nosplit"
    /\ split \in {"ok", "nosplit"} => ctrl = NoCtrl

(* What is on disk at any time: a control file whose claims are synced, or *)
(* no holes.                                                               *)
HoleFree(f) == f.good = 0..(f.len - 1)

RestOK ==
    \/ ctrl # NoCtrl /\ Claims(ctrl, stable.good) /\ stable.good \subseteq disk.good
    \/ /\ HoleFree(disk) /\ HoleFree(stable)
       /\ ctrl # NoCtrl => disk = stable /\ ctrl.base <= disk.len

(* Unless a reset has torn the file: what is at rest is right, what runs   *)
(* has written what its table says, what the sync thread holds is on disk, *)
(* what it has synced is stable, and Finish cuts at the first hole.        *)
DataInv ==
    ~drv.torn =>
        /\ RestOK
        /\ Running \/ split \in {"preserve", "keep"} =>
             /\ Claims(ctrl, stable.good) /\ stable.good \subseteq disk.good
             /\ Written(segs, disk.good)
        /\ \A k \in DOMAIN jobs : /\ Claims(jobs[k].cf, disk.good)
                                  /\ jobs[k].synced => Claims(jobs[k].cf, stable.good)
        /\ split \in {"preserve", "keep", "success", "discard", "drop"} => disk = stable
        /\ split \in {"success", "discard", "drop"} => HoleFree(disk)
        /\ split \in {"success", "ok"} \/ drv.at = "done" => disk.len = Total /\ HoleFree(disk)

(* The inductive invariant. *)
HttpInv == Types /\ TableInv /\ PlaceInv /\ HoldInv /\ CountInv /\ ModeInv /\ DataInv

----------------------------------------------------------------------------
(* The workers. *)

(* Whom a segment belongs to does not change with the stage of its holder. *)
SameHold(c, r) == \/ r.pc \in {"vain", "get", "put"} /\ r.seg = conn[c].seg
                  \/ r.pc = "ask" /\ r.give = conn[c].seg

(* A worker that keeps its segment. *)
LEMMA HoldersKept ==
    ASSUME conn \in [Conn -> ConnRec], NEW c \in Conn, conn[c].pc \in {"vain", "get", "put"},
           NEW r \in ConnRec, conn' = [conn EXCEPT ![c] = r], SameHold(c, r)
    PROVE  Hold' = Hold
<1>1. ASSUME NEW i \in Nat, NEW d \in Conn
      PROVE  (\/ conn'[d].pc \in {"vain", "get", "put"} /\ conn'[d].seg = i
              \/ conn'[d].pc = "ask" /\ conn'[d].give = i)
             <=> (\/ conn[d].pc \in {"vain", "get", "put"} /\ conn[d].seg = i
                  \/ conn[d].pc = "ask" /\ conn[d].give = i)
  <2>1. CASE d = c
    BY <2>1 DEF SameHold, ConnRec
  <2>2. CASE d # c
    BY <2>2
  <2> QED BY <2>1, <2>2
<1>2. \A i \in Nat : Holders(i)' = Holders(i)
  BY <1>1 DEF Holders
<1> QED BY <1>2 DEF Hold

(* A fatal error changes nothing else of the writer. *)
LEMMA FatalWr ==
    ASSUME wr \in WrRec, NEW e \in {"io", "net", "nosplit"}
    PROVE  /\ Fatal(e) \in WrRec /\ Fatal(e).fatal # "none"
           /\ Fatal(e).base = wr.base /\ Fatal(e).todo = wr.todo /\ Fatal(e).fin = wr.fin
           /\ Fatal(e).alive = wr.alive
BY DEF Fatal, WrRec

(* A step of a worker with its segment that leaves table and files alone. *)
LEMMA WorkerStep ==
    ASSUME HttpInv, NEW c \in Conn, NEW r \in ConnRec,
           split = "run", conn[c].pc \in {"vain", "get", "put"},
           conn' = [conn EXCEPT ![c] = r],
           \/ wr' = wr /\ SameHold(c, r)
           \/ /\ \E e \in {"io", "net", "nosplit"} : wr' = Fatal(e)
              /\ r.pc = "off" \/ SameHold(c, r),
           UNCHANGED <<disk, stable, ctrl, jobs, segs, split, trouble, drv, sink, site>>
    PROVE  HttpInv'
<1>0. Types /\ TableInv /\ PlaceInv /\ HoldInv /\ CountInv /\ ModeInv /\ DataInv
  BY DEF HttpInv
<1>1. wr \in WrRec /\ conn \in [Conn -> ConnRec]
  BY <1>0 DEF Types
<1>2. /\ wr' \in WrRec /\ wr'.base = wr.base /\ wr'.todo = wr.todo /\ wr'.fin = wr.fin
      /\ wr' = wr \/ wr'.fatal # "none"
  BY <1>1, FatalWr
<1>3. conn' \in [Conn -> ConnRec] /\ conn'[c] = r /\ \A d \in Conn \ {c} : conn'[d] = conn[d]
  BY <1>1
<1>4. Types'
  BY <1>0, <1>2, <1>3 DEF Types, File, Ctrl, Running, Ending, Ended
<1>5. TableInv'
  BY <1>0, <1>2 DEF TableInv, Table, Missing
<1>6. PlaceInv'
  BY <1>0, <1>3 DEF PlaceInv, SameHold, Running
<1>7. HoldInv'
  <2>1. CASE wr' = wr /\ SameHold(c, r)
    BY <1>0, <1>1, <2>1, HoldersKept DEF HoldInv, Keeps
  <2>2. CASE wr'.fatal # "none"
    BY <2>2 DEF HoldInv
  <2> QED BY <2>1, <2>2, <1>1, FatalWr
<1>8. CountInv'
  <2>1. CASE wr' = wr /\ SameHold(c, r)
    <3>1. Busy' = Busy
      BY <1>3, <2>1 DEF Busy, SameHold
    <3> QED BY <1>0, <2>1, <3>1 DEF CountInv, Over
  <2>2. CASE wr'.fatal # "none"
    BY <2>2 DEF CountInv, Over
  <2> QED BY <2>1, <2>2, <1>1, FatalWr
<1>9. ModeInv'
  BY <1>0, <1>2 DEF ModeInv, Running, Ending, Over
<1>10. DataInv'
  BY <1>0 DEF DataInv, RestOK, HoleFree, Claims, Written, Running
<1> QED BY <1>4, <1>5, <1>6, <1>7, <1>8, <1>9, <1>10 DEF HttpInv

(* A last chunk of a worker that is being joined, and not written. *)
LEMMA LateStep ==
    ASSUME HttpInv, NEW c \in Conn, NEW r \in ConnRec,
           split \in {"stop", "cancelled"}, r.pc = "off",
           conn' = [conn EXCEPT ![c] = r],
           wr' = wr \/ \E e \in {"io", "net", "nosplit"} : wr' = Fatal(e),
           UNCHANGED <<disk, stable, ctrl, jobs, segs, split, trouble, drv, sink, site>>
    PROVE  HttpInv'
<1>0. Types /\ TableInv /\ PlaceInv /\ HoldInv /\ CountInv /\ ModeInv /\ DataInv
  BY DEF HttpInv
<1>1. wr \in WrRec /\ conn \in [Conn -> ConnRec]
  BY <1>0 DEF Types
<1>2. /\ wr' \in WrRec /\ wr'.base = wr.base /\ wr'.todo = wr.todo /\ wr'.fin = wr.fin
      /\ wr' = wr \/ wr'.fatal # "none"
  BY <1>1, FatalWr
<1>3. conn' \in [Conn -> ConnRec] /\ conn'[c] = r /\ \A d \in Conn \ {c} : conn'[d] = conn[d]
  BY <1>1
<1>4. Types'
  BY <1>0, <1>2, <1>3 DEF Types, File, Ctrl, Running, Ending, Ended
<1>5. TableInv'
  BY <1>0, <1>2 DEF TableInv, Table, Missing
<1>6. PlaceInv'
  BY <1>0, <1>3 DEF PlaceInv, Running
<1>7. HoldInv' /\ CountInv'
  BY DEF HoldInv, CountInv
<1>8. ModeInv'
  BY <1>0, <1>2 DEF ModeInv, Running, Ending, Over
<1>9. DataInv'
  BY <1>0 DEF DataInv, RestOK, HoleFree, Claims, Written, Running
<1> QED BY <1>4, <1>5, <1>6, <1>7, <1>8, <1>9 DEF HttpInv

(* The steps of a worker with a segment. *)
LEMMA RunWorker ==
    ASSUME HttpInv, NEW c \in Conn, UNCHANGED <<drv, sink, site>>,
           \/ SegmentOver(c) \/ Ignored(c) \/ Chunk(c) \/ ShortRead(c)
           \/ NetError(c) \/ Panic(c) \/ WriteFails(c)
    PROVE  HttpInv'
<1>0. conn \in [Conn -> ConnRec] /\ conn[c] \in ConnRec
  BY DEF HttpInv, Types
<1>1. Nobody \in ConnRec /\ Nobody.pc = "off"
  BY DEF Nobody, ConnRec
<1>2. Give(c) \in ConnRec /\ SameHold(c, Give(c))
  BY <1>0 DEF Give, Nobody, ConnRec, SameHold
<1>3. CASE SegmentOver(c)
  BY <1>2, <1>3, WorkerStep DEF SegmentOver
<1>4. CASE Ignored(c)
  BY <1>1, <1>4, WorkerStep DEF Ignored, At
<1>5. CASE Chunk(c)
  <2> DEFINE r == [conn[c] EXCEPT !.pc = "put"]
  <2>1. r \in ConnRec /\ SameHold(c, r) /\ conn' = [conn EXCEPT ![c] = r]
    BY <1>0, <1>5 DEF Chunk, ConnRec, SameHold
  <2> QED BY <1>5, <2>1, WorkerStep DEF Chunk, At
<1>6. ASSUME NEW f \in Nat, NEW s \in Nat, Fails(c, f, s),
             conn[c].pc \in {"vain", "get"}, split = "run",
             UNCHANGED <<disk, stable, ctrl, jobs, segs, split, trouble>>
      PROVE  HttpInv'
  <2>1. CASE f >= MaxFail
    <3>1. conn' = [conn EXCEPT ![c] = Nobody] /\ wr' = Fatal("net")
      BY <1>6, <2>1 DEF Fails
    <3> QED BY <1>1, <1>6, <3>1, WorkerStep
  <2>2. CASE ~ (f >= MaxFail)
    <3> DEFINE r == [Give(c) EXCEPT !.fails = f, !.shorts = s]
    <3>1. conn' = [conn EXCEPT ![c] = r] /\ wr' = wr
      BY <1>6, <2>2 DEF Fails
    <3>2. r \in ConnRec /\ SameHold(c, r)
      BY <1>2 DEF ConnRec, SameHold
    <3> HIDE DEF r
    <3> QED BY <1>6, <3>1, <3>2, WorkerStep
  <2> QED BY <2>1, <2>2
<1>7. conn[c].fails \in Nat /\ conn[c].shorts \in Nat
  BY <1>0 DEF ConnRec
<1>8. CASE ShortRead(c)
  <2>1. /\ conn[c].pc \in {"vain", "get"} /\ split = "run"
        /\ UNCHANGED <<disk, stable, ctrl, jobs, segs, split, trouble>>
        /\ \/ Fails(c, conn[c].fails + 1, 0)
           \/ Fails(c, conn[c].fails, conn[c].shorts + 1)
    BY <1>8 DEF ShortRead
  <2> QED BY <1>6, <1>7, <2>1
<1>9. CASE NetError(c)
  <2>1. /\ conn[c].pc \in {"vain", "get"} /\ split = "run"
        /\ UNCHANGED <<disk, stable, ctrl, jobs, segs, split, trouble>>
        /\ Fails(c, conn[c].fails + 1, conn[c].shorts)
    BY <1>9 DEF NetError
  <2> QED BY <1>6, <1>7, <2>1
<1>10. CASE Panic(c)
  BY <1>1, <1>10, WorkerStep DEF Panic
<1>11. CASE WriteFails(c)
  <2> DEFINE r == [conn[c] EXCEPT !.pc = IF split = "run" THEN "get" ELSE "off", !.pos = @ + 1]
  <2>1. r \in ConnRec /\ conn' = [conn EXCEPT ![c] = r] /\ r.seg = conn[c].seg
        /\ r.pc = IF split = "run" THEN "get" ELSE "off"
    BY <1>0, <1>11 DEF WriteFails, Sent, ConnRec
  <2>2. /\ conn[c].pc = "put" /\ wr' = Fatal("io")
        /\ UNCHANGED <<disk, stable, ctrl, jobs, segs, split, trouble>>
    BY <1>11 DEF WriteFails
  <2>3. Running
    BY <2>2 DEF HttpInv, PlaceInv
  <2> HIDE DEF r
  <2>4. CASE split = "run"
    BY <2>1, <2>2, <2>4, WorkerStep DEF SameHold
  <2>5. CASE split \in {"stop", "cancelled"}
    BY <2>1, <2>2, <2>5, LateStep
  <2> QED BY <2>3, <2>4, <2>5 DEF Running
<1> QED BY <1>3, <1>4, <1>5, <1>8, <1>9, <1>10, <1>11

(* A chunk reaches the writer (on_write). *)
LEMMA WriteStep ==
    ASSUME HttpInv, NEW c \in Conn, OnWrite(c), UNCHANGED <<drv, sink, site>>
    PROVE  HttpInv'
<1> DEFINE k == conn[c].seg
           p == conn[c].pos
           r == [conn[c] EXCEPT !.pc = IF split = "run" THEN "get" ELSE "off", !.pos = @ + 1]
<1>0. Types /\ TableInv /\ PlaceInv /\ HoldInv /\ CountInv /\ ModeInv /\ DataInv
  BY DEF HttpInv
<1>1. conn \in [Conn -> ConnRec] /\ conn[c] \in ConnRec /\ wr \in WrRec /\ conn[c].pc = "put"
  BY <1>0 DEF Types, OnWrite
<1>2. r \in ConnRec /\ conn' = [conn EXCEPT ![c] = r] /\ r.seg = k
      /\ r.pc = IF split = "run" THEN "get" ELSE "off"
  BY <1>1 DEF OnWrite, Sent, ConnRec
<1>3. Running /\ UNCHANGED <<stable, ctrl, jobs, split, trouble>>
  BY <1>0, <1>1 DEF PlaceInv, OnWrite
<1> HIDE DEF r
<1>4. CASE ~Joins(c)
  <2>1. UNCHANGED <<disk, segs, wr>>
    BY <1>4 DEF OnWrite
  <2>2. CASE split = "run"
    BY <1>1, <1>2, <1>3, <2>1, <2>2, WorkerStep DEF SameHold
  <2>3. CASE split \in {"stop", "cancelled"}
    BY <1>2, <1>3, <2>1, <2>3, LateStep
  <2> QED BY <1>3, <2>2, <2>3 DEF Running
<1>5. CASE Joins(c)
  <2>1. /\ disk' = [len |-> Most(disk.len, p + 1), good |-> disk.good \cup {p}]
        /\ segs' = [segs EXCEPT ![k].w = p + 1 - segs[k].s, ![k].done = p + 1 = segs[k].e]
        /\ wr' = [wr EXCEPT !.todo = @ - 1, !.fin = wr.todo = 1]
    BY <1>5 DEF OnWrite
  <2>2. /\ k \in DOMAIN segs /\ Table(segs, wr.base) /\ p \in Nat /\ wr.base \in Nat
        /\ p = segs[k].s + segs[k].w /\ p < segs[k].e /\ wr.fatal = "none"
        /\ wr.todo = Cardinality(Missing(segs)) /\ (wr.fin <=> wr.todo = 0)
        /\ split # "off"
    <3>1. split # "off"
      BY <1>3 DEF Running
    <3>2. k \in DOMAIN segs
      BY <1>0, <1>1, <1>3 DEF PlaceInv, Running
    <3>3. p \in Nat /\ wr.base \in Nat
      BY <1>1 DEF ConnRec, WrRec
    <3> QED BY <1>0, <1>5, <3>1, <3>2, <3>3 DEF TableInv, Joins
  <2> HIDE DEF k, p
  <2>a. segs' = Joined(segs, k, p)
    BY <2>1 DEF Joined
  <2>3. /\ Table(segs', wr.base) /\ DOMAIN segs' = DOMAIN segs
        /\ p \in Missing(segs) /\ Missing(segs') = Missing(segs) \ {p}
        /\ \A i \in DOMAIN segs :
             /\ segs'[i].queued = segs[i].queued /\ segs'[i].holders = segs[i].holders
             /\ segs'[i].s = segs[i].s /\ segs'[i].e = segs[i].e
             /\ i # k => segs'[i] = segs[i]
        /\ segs'[k].w = p + 1 - segs[k].s
    BY <2>a, <2>2, JoinTable
  <2>4. /\ wr.todo \in Nat /\ wr.todo # 0 /\ Cardinality(Missing(segs')) = wr.todo - 1
    <3>1. IsFiniteSet(Missing(segs)) /\ Cardinality(Missing(segs)) \in Nat
      BY MissingFinite
    <3>2. Cardinality(Missing(segs')) = Cardinality(Missing(segs)) - 1
      BY <2>3, <3>1, FS_RemoveElement
    <3>3. Cardinality(Missing(segs)) # 0
      BY <2>3, <3>1, FS_EmptySet
    <3> QED BY <2>2, <3>1, <3>2, <3>3
  <2>5. /\ wr' \in WrRec /\ wr'.base = wr.base /\ wr'.todo = wr.todo - 1
        /\ (wr'.fin <=> wr'.todo = 0) /\ wr'.fatal = "none" /\ wr'.alive = wr.alive
    <3> DEFINE f == wr.todo = 1
    <3>1. wr' = [wr EXCEPT !.todo = wr.todo - 1, !.fin = f]
      BY <2>1
    <3>2. f \in BOOLEAN /\ wr.todo - 1 \in Nat
      BY <2>4
    <3>3. wr'.fin = f /\ wr'.todo = wr.todo - 1 /\ wr' \in WrRec /\ wr'.base = wr.base
          /\ wr'.fatal = wr.fatal /\ wr'.alive = wr.alive
      BY <1>1, <3>1, <3>2 DEF WrRec
    <3>4. wr'.fin <=> wr.todo = 1
      BY <3>3, Zenon
    <3>5. wr'.fin <=> wr'.todo = 0
      BY <2>4, <3>3, <3>4
    <3> QED BY <2>2, <3>3, <3>5
  <2>6. ~Over /\ split \in {"run", "cancelled"}
    <3>1. ~Over
      BY <2>2, <2>4 DEF Over
    <3> QED BY <1>0, <1>3, <3>1 DEF ModeInv, Running
  <2>7. conn' \in [Conn -> ConnRec] /\ conn'[c] = r /\ \A d \in Conn \ {c} : conn'[d] = conn[d]
    BY <1>1, <1>2
  <2>8. p < Total /\ Total \in Nat
    <3>1. segs[k] \in SegRec /\ Fits(segs[k], wr.base) /\ Total \in Nat
      BY <2>2, SplitAssumption DEF Table
    <3> QED BY <2>2, <3>1 DEF Fits, SegRec
  <2>9. File(disk') /\ disk.good \subseteq disk'.good /\ p \in disk'.good
    <3>1. File(disk)
      BY <1>0 DEF Types
    <3>2. disk'.good = disk.good \cup {p} /\ disk'.len = Most(disk.len, p + 1)
          /\ disk' \in [len : Nat, good : SUBSET Nat]
      BY <2>1, <2>2, <3>1 DEF File, Most
    <3>3. disk'.len <= Total /\ disk.len <= disk'.len /\ p + 1 <= disk'.len
          /\ disk.len \in Nat /\ disk'.len \in Nat
      BY <2>2, <2>8, <3>1, <3>2 DEF File, Most
    <3>4. disk'.good \subseteq 0..(disk'.len - 1)
      BY <2>2, <3>1, <3>2, <3>3 DEF File
    <3> QED BY <3>2, <3>3, <3>4 DEF File
  <2>10. Types'
    BY <1>0, <1>3, <2>5, <2>7, <2>9 DEF Types, File, Ctrl, Running, Ending, Ended
  <2>11. TableInv'
    BY <2>2, <2>3, <2>4, <2>5 DEF TableInv
  <2>12. PlaceInv'
    BY <1>0, <1>2, <1>3, <2>2, <2>3, <2>7 DEF PlaceInv, Running
  <2>13. HoldInv'
    <3> SUFFICES ASSUME split' = "run" PROVE Keeps(segs', Hold')
      BY DEF HoldInv
    <3>1. SameHold(c, r) /\ split = "run" /\ conn[c].pc \in {"vain", "get", "put"}
      BY <1>1, <1>2, <1>3, <2>2 DEF SameHold, k
    <3>2. Hold' = Hold
      BY <1>1, <1>2, <3>1, HoldersKept
    <3>3. Keeps(segs, Hold)
      BY <1>0, <2>2, <3>1 DEF HoldInv
    <3>4. k \in Nat /\ c \in Hold[k]
      BY <1>1 DEF Hold, Holders, k, ConnRec
    <3>5. segs[k].holders = 1
      BY <2>2, <3>3, <3>4 DEF Keeps
    <3>6. ASSUME NEW i \in DOMAIN segs
          PROVE  segs'[i].done \/ segs'[i].queued \/ segs'[i].holders = 1
      <4>1. CASE i = k
        BY <2>3, <3>5, <4>1
      <4>2. CASE i # k
        BY <2>3, <3>3, <4>2 DEF Keeps
      <4> QED BY <4>1, <4>2
    <3> QED BY <2>3, <3>2, <3>3, <3>6 DEF Keeps
  <2>14. CountInv'
    <3> SUFFICES ASSUME split' = "run" PROVE wr'.alive = Cardinality(Busy') /\ wr'.alive >= 1
      BY DEF CountInv
    <3>1. Busy' = Busy
      BY <1>1, <1>2, <1>3, <2>7 DEF Busy
    <3> QED BY <1>0, <1>3, <2>5, <2>6, <3>1 DEF CountInv
  <2>15. ModeInv'
    BY <1>0, <1>3, <2>5, <2>6 DEF ModeInv, Running, Ending, DrvRec
  <2>16. DataInv'
    <3> SUFFICES ASSUME ~drv.torn PROVE DataInv'
      BY DEF DataInv
    <3>1. /\ Claims(ctrl, stable.good) /\ stable.good \subseteq disk.good /\ ctrl # NoCtrl
          /\ Written(segs, disk.good)
          /\ \A j \in DOMAIN jobs : /\ Claims(jobs[j].cf, disk.good)
                                    /\ jobs[j].synced => Claims(jobs[j].cf, stable.good)
      BY <1>0, <1>3 DEF DataInv, ModeInv
    <3>2. Written(segs', disk'.good)
      <4> SUFFICES ASSUME NEW i \in DOMAIN segs, NEW q \in segs'[i].s..(segs'[i].s + segs'[i].w - 1)
                   PROVE  q \in disk'.good
        BY <2>3 DEF Written
      <4>1. CASE i # k
        <5>1. q \in segs[i].s..(segs[i].s + segs[i].w - 1)
          BY <2>3, <4>1
        <5> QED BY <2>9, <3>1, <5>1 DEF Written
      <4>2. CASE i = k
        <5>0. segs[k] \in SegRec
          BY <2>2 DEF Table
        <5>1. segs[k].s \in Nat /\ segs[k].w \in Nat
          BY <5>0 DEF SegRec
        <5>2. q \in segs[k].s..p
          BY <2>2, <2>3, <4>2, <5>1
        <5>3. q = p \/ q \in segs[k].s..(segs[k].s + segs[k].w - 1)
          BY <2>2, <5>1, <5>2
        <5> QED BY <2>2, <2>9, <3>1, <5>3 DEF Written
      <4> QED BY <4>1, <4>2
    <3>3. \A j \in DOMAIN jobs : Claims(jobs[j].cf, disk'.good)
      BY <2>9, <3>1, ClaimsMonotone
    <3>4. RestOK'
      BY <1>3, <2>9, <3>1 DEF RestOK
    <3>5. drv'.at = "split" /\ split' \in {"run", "cancelled"}
      BY <1>0, <1>3, <2>6 DEF ModeInv
    <3> QED BY <1>3, <2>9, <3>1, <3>2, <3>3, <3>4, <3>5 DEF DataInv
  <2> QED BY <2>10, <2>11, <2>12, <2>13, <2>14, <2>15, <2>16 DEF HttpInv
<1> QED BY <1>4, <1>5

----------------------------------------------------------------------------
(* The writer. *)

(* A step of the writer that reshapes the table, and may ask for a save. *)
LEMMA TableStep ==
    ASSUME HttpInv, split = "run", Reshaped(segs, segs', wr.base),
           UNCHANGED <<disk, stable, ctrl, split, trouble, drv, sink, site>>,
           wr' \in WrRec, wr'.base = wr.base, wr'.todo = wr.todo, wr'.fin = wr.fin,
           wr'.fatal = wr.fatal,
           conn' \in [Conn -> ConnRec],
           \/ jobs' = jobs
           \/ jobs' = Append(jobs, [cf |-> Snapshot(wr.base, segs'), synced |-> FALSE]),
           PlaceInv', HoldInv', CountInv'
    PROVE  HttpInv'
<1> DEFINE b == wr.base
           j == [cf |-> Snapshot(b, segs'), synced |-> FALSE]
<1>0. Types /\ TableInv /\ ModeInv /\ DataInv
  BY DEF HttpInv
<1>1. b \in Nat /\ b <= Total
  BY <1>0 DEF Types, WrRec
<1>2. Table(segs', b) /\ Missing(segs') = Missing(segs)
  BY DEF Reshaped
<1>3. /\ Ctrl(Snapshot(b, segs')) /\ Snapshot(b, segs').base = b
      /\ \A G : 0..(b - 1) \subseteq G /\ Written(segs', G) => Claims(Snapshot(b, segs'), G)
  BY <1>1, <1>2, SnapshotCtrl
<1>4. j \in JobRec /\ j.cf = Snapshot(b, segs') /\ j.synced = FALSE
  BY <1>3 DEF JobRec, Ctrl
<1>5. jobs \in Seq(JobRec) /\ (jobs' = jobs \/ jobs' = Append(jobs, j))
  BY <1>0 DEF Types
<1> HIDE DEF j
<1>6. /\ jobs' \in Seq(JobRec)
      /\ \A k \in DOMAIN jobs' : jobs'[k] = j \/ (k \in DOMAIN jobs /\ jobs'[k] = jobs[k])
  <2>1. CASE jobs' = jobs
    BY <1>5, <2>1
  <2>2. CASE jobs' = Append(jobs, j)
    BY <1>4, <1>5, <2>2, AppendOne
  <2> QED BY <1>5, <2>1, <2>2
<1>7. \A k \in DOMAIN jobs' : Ctrl(jobs'[k].cf) /\ jobs'[k].cf.base = wr.base
  BY <1>0, <1>3, <1>4, <1>6 DEF Types, ModeInv
<1>8. Types'
  BY <1>0, <1>6, <1>7 DEF Types, File, Ctrl, Running, Ending, Ended
<1>9. TableInv'
  BY <1>0, <1>2 DEF TableInv
<1>10. ModeInv'
  BY <1>0, <1>7 DEF ModeInv, Running, Ending
<1>11. DataInv'
  <2> SUFFICES ASSUME ~drv.torn PROVE DataInv'
    BY DEF DataInv
  <2>1. /\ Claims(ctrl, stable.good) /\ stable.good \subseteq disk.good /\ RestOK
        /\ Written(segs, disk.good)
        /\ \A k \in DOMAIN jobs : /\ Claims(jobs[k].cf, disk.good)
                                  /\ jobs[k].synced => Claims(jobs[k].cf, stable.good)
        /\ ctrl.base = b
    BY <1>0 DEF DataInv, ModeInv, Running
  <2>2. Written(segs', disk.good)
    BY <2>1, WrittenReshaped
  <2>3. 0..(b - 1) \subseteq disk.good
    BY <2>1 DEF Claims
  <2>4. Claims(j.cf, disk.good)
    BY <1>3, <1>4, <2>2, <2>3
  <2>5. \A k \in DOMAIN jobs' : /\ Claims(jobs'[k].cf, disk.good)
                                /\ jobs'[k].synced => Claims(jobs'[k].cf, stable.good)
    BY <1>4, <1>6, <2>1, <2>4
  <2>6. drv'.at = "split" /\ RestOK'
    BY <1>0, <2>1 DEF ModeInv, RestOK, HoleFree
  <2> QED BY <2>1, <2>2, <2>5, <2>6 DEF DataInv
<1> QED BY <1>8, <1>9, <1>10, <1>11 DEF HttpInv

(* Only segments of the table have holders. *)
LEMMA NoHolder ==
    ASSUME HttpInv, split = "run", NEW i \in Nat \ {0}, i \notin DOMAIN segs
    PROVE  Holders(i) = {}
<1> SUFFICES ASSUME NEW d \in Conn, d \in Holders(i) PROVE FALSE
  BY DEF Holders
<1> QED BY DEF Holders, HttpInv, PlaceInv

(* Leases that expire, and the watchdog: ranges are cut off segments.      *)
LEMMA HandoffKeeps ==
    ASSUME HttpInv, split = "run", NEW h, NEW t, Reshaped(segs, t, wr.base),
           \A i \in Nat : h[i] \subseteq Holders(i),
           wr.fatal = "none" => Keeps(t, h),
           NEW u, Table(u, wr.base), Grown(t, u), Missing(u) = Missing(t)
    PROVE  /\ Reshaped(segs, u, wr.base)
           /\ wr.fatal = "none" => Keeps(u, h)
<1>1. Table(t, wr.base)
  BY DEF Reshaped
<1>2. Reshaped(segs, u, wr.base)
  BY <1>1, GrownReshaped, ReshapedTwice
<1>3. ASSUME NEW i \in DOMAIN u \ DOMAIN t PROVE h[i] = {}
  <2>1. i \in Nat \ {0} /\ i \notin DOMAIN segs
    BY TableDomain DEF Reshaped
  <2>2. Holders(i) = {}
    BY <2>1, NoHolder
  <2> QED BY <2>1, <2>2
<1>4. ASSUME wr.fatal = "none" PROVE Keeps(u, h)
  BY <1>1, <1>3, <1>4, GrownKeeps
<1> QED BY <1>2, <1>4

(* ensure_spare changes only the workers wanted. *)
LEMMA SpareWr ==
    ASSUME wr \in WrRec, NEW w, w = wr \/ w = Spare(wr)
    PROVE  /\ w \in WrRec /\ w.base = wr.base /\ w.todo = wr.todo /\ w.fin = wr.fin
           /\ w.fatal = wr.fatal /\ w.alive = wr.alive
<1>1. CASE w = wr
  BY <1>1
<1>2. CASE w = Spare(wr)
  <2> DEFINE x == Most(wr.want, Least(wr.alive + 1, Cardinality(Conn)))
  <2>1. w = [wr EXCEPT !.want = x]
    BY <1>2 DEF Spare
  <2>2. x \in Int
    BY ConnCount DEF Most, Least, WrRec
  <2> HIDE DEF x
  <2> QED BY <2>1, <2>2 DEF WrRec
<1> QED BY <1>1, <1>2

(* A worker asks for work: what it held is free. *)
LEMMA Asking ==
    ASSUME HttpInv, NEW c \in Conn, split = "run", conn[c].pc = "ask"
    PROVE  /\ Table(segs, wr.base) /\ wr.base \in Nat
           /\ Reshaped(segs, Released(segs, conn[c].give), wr.base)
           /\ DOMAIN Released(segs, conn[c].give) = DOMAIN segs
           /\ wr.fatal = "none" => Keeps(Released(segs, conn[c].give), HoldBut(c))
<1> DEFINE g == conn[c].give
<1>0. /\ Types /\ TableInv /\ PlaceInv /\ HoldInv
  BY DEF HttpInv
<1>1. conn[c] \in ConnRec /\ wr \in WrRec
  BY <1>0 DEF Types
<1>2. wr.base \in Nat /\ g \in Nat /\ Table(segs, wr.base)
  BY <1>0, <1>1 DEF WrRec, ConnRec, TableInv
<1>3. g = 0 \/ g \in DOMAIN segs
  BY <1>0 DEF PlaceInv
<1>4. Relabel(segs, Released(segs, g))
  BY <1>2, <1>3, ReleasedTable
<1>5. Reshaped(segs, Released(segs, g), wr.base) /\ DOMAIN Released(segs, g) = DOMAIN segs
  BY <1>2, <1>4, RelabelReshaped DEF Relabel
<1>6. ASSUME wr.fatal = "none" PROVE Keeps(Released(segs, g), HoldBut(c))
  <2>1. Keeps(segs, Hold)
    BY <1>0, <1>6 DEF HoldInv
  <2>2. \A i \in DOMAIN segs : c \in Hold[i] <=> i = g
    <3>1. \A i \in DOMAIN segs : i \in Nat
      BY <1>2, TableDomain
    <3> QED BY <3>1 DEF Hold, Holders
  <2> QED BY <1>2, <1>3, <2>1, <2>2, ReleasedKeeps
<1> QED BY <1>2, <1>5, <1>6

(* The writer's answer to a worker: a segment of its own ... *)
LEMMA AssignStep ==
    ASSUME HttpInv, NEW c \in Conn, split = "run", conn[c].pc = "ask",
           NEW t, Reshaped(segs, t, wr.base), wr.fatal = "none" => Keeps(t, HoldBut(c)),
           NEW i \in DOMAIN t, wr.fatal = "none" => t[i].holders = 0, Assign(t, c, i),
           wr' \in WrRec, wr'.base = wr.base, wr'.todo = wr.todo, wr'.fin = wr.fin,
           wr'.fatal = wr.fatal, wr'.alive = wr.alive,
           UNCHANGED <<disk, stable, ctrl, jobs, split, trouble, drv, sink, site>>
    PROVE  HttpInv'
<1> DEFINE pc == IF "ignores" \in trouble /\ t[i].s + t[i].w # 0 THEN "vain" ELSE "get"
           r == [conn[c] EXCEPT !.pc = pc, !.seg = i, !.pos = t[i].s + t[i].w, !.give = 0]
<1>0. Types /\ TableInv /\ PlaceInv /\ HoldInv /\ CountInv
  BY DEF HttpInv
<1>1. conn \in [Conn -> ConnRec] /\ conn[c] \in ConnRec
  BY <1>0 DEF Types
<1>2. Table(t, wr.base) /\ t[i] \in SegRec /\ i \in Nat \ {0}
  BY TableDomain DEF Reshaped, Table
<1>3. segs' = Assigned(t, i) /\ conn' = [conn EXCEPT ![c] = r]
  BY <1>1 DEF Assign, Assigned, ConnRec
<1>4. t[i].s + t[i].w \in Nat /\ pc \in {"vain", "get"}
  BY <1>2 DEF SegRec
<1>5. r \in ConnRec /\ r.pc = pc /\ r.seg = i /\ r.give = 0
  BY <1>1, <1>2, <1>4 DEF ConnRec
<1> HIDE DEF r, pc
<1>6. conn' \in [Conn -> ConnRec] /\ conn'[c] = r /\ \A d \in Conn \ {c} : conn'[d] = conn[d]
  BY <1>1, <1>3, <1>5
<1>7. Reshaped(t, segs', wr.base) /\ DOMAIN segs' = DOMAIN t
  BY <1>2, <1>3, AssignedTable
<1>8. Reshaped(segs, segs', wr.base)
  BY <1>7, ReshapedTwice
<1>9. DOMAIN segs \subseteq DOMAIN segs'
  BY <1>8 DEF Reshaped
<1>10. PlaceInv'
  BY <1>0, <1>4, <1>5, <1>6, <1>7, <1>9 DEF PlaceInv, Running
<1>11. ASSUME NEW j \in Nat
       PROVE  Hold'[j] = (IF j = i THEN HoldBut(c)[j] \cup {c} ELSE HoldBut(c)[j])
  <2>1. Hold'[j] = Holders(j)' /\ HoldBut(c)[j] = Holders(j) \ {c}
    BY DEF Hold, HoldBut
  <2>2. \A d \in Conn : d # c => (d \in Holders(j)' <=> d \in Holders(j))
    BY <1>6 DEF Holders
  <2>3. c \in Holders(j)' <=> j = i
    BY <1>4, <1>5, <1>6 DEF Holders
  <2>4. Holders(j)' \subseteq Conn /\ Holders(j) \subseteq Conn
    BY DEF Holders
  <2> QED BY <2>1, <2>2, <2>3, <2>4
<1>12. HoldInv'
  <2> SUFFICES ASSUME wr.fatal = "none" PROVE Keeps(segs', Hold')
    BY DEF HoldInv
  <2>1. Keeps(t, HoldBut(c)) /\ t[i].holders = 0
    OBVIOUS
  <2>2. HoldBut(c)[i] = {}
    BY <2>1 DEF Keeps
  <2>3. Hold'[i] = {c} /\ \A j \in DOMAIN t : j # i => Hold'[j] = HoldBut(c)[j]
    <3>1. DOMAIN t \subseteq Nat
      BY <1>2, TableDomain
    <3> QED BY <1>2, <1>11, <2>2, <3>1
  <2> DEFINE hh == Hold'
  <2>4. hh[i] = {c} /\ \A j \in DOMAIN t : j # i => hh[j] = HoldBut(c)[j]
    BY <2>3
  <2> HIDE DEF hh
  <2>5. Keeps(Assigned(t, i), hh)
    BY <1>2, <2>1, <2>4, AssignedKeeps
  <2> QED BY <1>3, <2>5 DEF hh
<1>13. CountInv'
  <2>1. Busy' = Busy
    BY <1>4, <1>5, <1>6 DEF Busy
  <2> QED BY <1>0, <2>1 DEF CountInv, Over
<1> QED BY <1>6, <1>8, <1>10, <1>12, <1>13, TableStep

(* ... or nothing for now, or its leave. *)
LEMMA NoWorkStep ==
    ASSUME HttpInv, NEW c \in Conn, split = "run", conn[c].pc = "ask",
           Reshaped(segs, segs', wr.base), wr.fatal = "none" => Keeps(segs', HoldBut(c)),
           NEW r \in ConnRec, conn' = [conn EXCEPT ![c] = r],
           r.pc = "off" \/ (r.pc = "ask" /\ r.give = 0),
           wr' \in WrRec, wr'.base = wr.base, wr'.todo = wr.todo, wr'.fin = wr.fin,
           wr'.fatal = wr.fatal, CountInv',
           UNCHANGED <<disk, stable, ctrl, jobs, split, trouble, drv, sink, site>>
    PROVE  HttpInv'
<1>0. Types /\ TableInv /\ PlaceInv /\ HoldInv /\ CountInv
  BY DEF HttpInv
<1>1. conn \in [Conn -> ConnRec]
  BY <1>0 DEF Types
<1>2. conn' \in [Conn -> ConnRec] /\ conn'[c] = r /\ \A d \in Conn \ {c} : conn'[d] = conn[d]
  BY <1>1
<1>3. DOMAIN segs \subseteq DOMAIN segs'
  BY DEF Reshaped
<1>4. PlaceInv'
  BY <1>0, <1>2, <1>3 DEF PlaceInv, Running
<1>5. ASSUME NEW j \in Nat \ {0} PROVE Hold'[j] = HoldBut(c)[j]
  <2>1. Hold'[j] = Holders(j)' /\ HoldBut(c)[j] = Holders(j) \ {c}
    BY DEF Hold, HoldBut
  <2>2. \A d \in Conn : d # c => (d \in Holders(j)' <=> d \in Holders(j))
    BY <1>2 DEF Holders
  <2>3. c \notin Holders(j)'
    BY <1>2 DEF Holders
  <2>4. Holders(j)' \subseteq Conn /\ Holders(j) \subseteq Conn
    BY DEF Holders
  <2> QED BY <2>1, <2>2, <2>3, <2>4
<1>6. HoldInv'
  <2> SUFFICES ASSUME wr.fatal = "none" PROVE Keeps(segs', Hold')
    BY DEF HoldInv
  <2>1. Keeps(segs', HoldBut(c))
    OBVIOUS
  <2>2. Table(segs', wr.base)
    BY DEF Reshaped
  <2> DEFINE u == segs'
  <2>3. \A j \in DOMAIN u : Hold'[j] = HoldBut(c)[j]
    BY <1>5, <2>2, TableDomain
  <2> QED BY <2>1, <2>3 DEF Keeps
<1> QED BY <1>2, <1>4, <1>6, TableStep

(* A worker asks when the download is over. *)
LEMMA NextDoneStep ==
    ASSUME HttpInv, NEW c \in Conn, NextDone(c), UNCHANGED <<drv, sink, site>>
    PROVE  HttpInv'
<1>0. wr \in WrRec
  BY DEF HttpInv, Types
<1>1. /\ split = "run" /\ conn[c].pc = "ask" /\ Over
      /\ segs' = Released(segs, conn[c].give)
      /\ wr' = [wr EXCEPT !.want = 0] /\ conn' = [conn EXCEPT ![c] = Nobody]
      /\ UNCHANGED <<disk, stable, ctrl, jobs, split, trouble>>
  BY DEF NextDone
<1>2. /\ wr' \in WrRec /\ wr'.base = wr.base /\ wr'.todo = wr.todo /\ wr'.fin = wr.fin
      /\ wr'.fatal = wr.fatal
  BY <1>0, <1>1 DEF WrRec
<1>3. CountInv'
  BY <1>1, <1>2 DEF CountInv, Over
<1>4. Nobody \in ConnRec /\ Nobody.pc = "off"
  BY DEF Nobody, ConnRec
<1>5. /\ Reshaped(segs, segs', wr.base)
      /\ wr.fatal = "none" => Keeps(segs', HoldBut(c))
  BY <1>1, Asking
<1> QED BY <1>1, <1>2, <1>3, <1>4, <1>5, NoWorkStep

(* A worker asks for work: handoff, then a queued segment, half of one,    *)
(* its leave, or a pause.                                                  *)
LEMMA NextWorkStep ==
    ASSUME HttpInv, NEW c \in Conn, NextWork(c), UNCHANGED <<drv, sink, site>>
    PROVE  HttpInv'
<1> DEFINE t0 == Released(segs, conn[c].give)
<1>0. wr \in WrRec /\ CountInv /\ conn \in [Conn -> ConnRec] /\ conn[c] \in ConnRec
  BY DEF HttpInv, Types
<1>1. /\ split = "run" /\ conn[c].pc = "ask" /\ ~Over
      /\ UNCHANGED <<disk, stable, ctrl, jobs, split, trouble>>
  BY DEF NextWork
<1>2. /\ Reshaped(segs, t0, wr.base) /\ (wr.fatal = "none" => Keeps(t0, HoldBut(c)))
      /\ wr.base \in Nat
  BY <1>1, Asking
<1>h. \A i \in Nat : HoldBut(c)[i] \subseteq Holders(i)
  BY DEF HoldBut
<1>3. PICK I \in SUBSET Expired(t0) :
         LET t == Handoff(t0, I, FALSE, FALSE)
             w == IF Len(t) > Len(segs) THEN Spare(wr) ELSE wr
         IN \/ \E i \in Ready(t) : Assign(t, c, i) /\ wr' = w
            \/ /\ Ready(t) = {}
               /\ \E i \in Stealable(t) :
                    Assign(SplitOne(t, i, Half(t[i])), c, Len(t) + 1)
               /\ wr' = w
            \/ /\ Ready(t) = {} /\ Stealable(t) = {}
               /\ segs' = t
               /\ IF conn[c].fails >= 2 /\ w.alive > 1
                  THEN /\ conn' = [conn EXCEPT ![c] = Nobody]
                       /\ wr' = [w EXCEPT !.alive = @ - 1, !.want = w.alive - 1]
                  ELSE /\ conn' = [conn EXCEPT ![c].give = 0]
                       /\ wr' = w
  BY DEF NextWork
<1> DEFINE t == Handoff(t0, I, FALSE, FALSE)
           w == IF Len(t) > Len(segs) THEN Spare(wr) ELSE wr
<1>4. I \in SUBSET (DOMAIN t0)
  BY <1>3 DEF Expired
<1> HIDE DEF t0
<1>5. Table(t, wr.base) /\ Grown(t0, t) /\ Missing(t) = Missing(t0)
  <2>1. Table(t0, wr.base)
    BY <1>2 DEF Reshaped
  <2> QED BY <1>2, <1>4, <2>1, HandoffTable
<1>6. /\ w \in WrRec /\ w.base = wr.base /\ w.todo = wr.todo /\ w.fin = wr.fin
      /\ w.fatal = wr.fatal /\ w.alive = wr.alive
  BY <1>0, SpareWr
<1>7. \/ \E i \in Ready(t) : Assign(t, c, i) /\ wr' = w
      \/ /\ \E i \in Stealable(t) : Assign(SplitOne(t, i, Half(t[i])), c, Len(t) + 1)
         /\ wr' = w
      \/ /\ segs' = t
         /\ IF conn[c].fails >= 2 /\ w.alive > 1
            THEN /\ conn' = [conn EXCEPT ![c] = Nobody]
                 /\ wr' = [w EXCEPT !.alive = @ - 1, !.want = w.alive - 1]
            ELSE /\ conn' = [conn EXCEPT ![c].give = 0]
                 /\ wr' = w
  BY <1>3
<1> HIDE DEF t, w
<1>8. Reshaped(segs, t, wr.base) /\ (wr.fatal = "none" => Keeps(t, HoldBut(c)))
  BY <1>1, <1>2, <1>5, <1>h, HandoffKeeps
<1>9. CASE \E i \in Ready(t) : Assign(t, c, i) /\ wr' = w
  <2>1. PICK i \in Ready(t) : Assign(t, c, i) /\ wr' = w
    BY <1>9
  <2>2. i \in DOMAIN t /\ t[i].queued
    BY DEF Ready
  <2>3. wr.fatal = "none" => t[i].holders = 0
    BY <1>8, <2>2 DEF Keeps
  <2> QED BY <1>1, <1>6, <1>8, <2>1, <2>2, <2>3, AssignStep
<1>10. CASE /\ \E i \in Stealable(t) : Assign(SplitOne(t, i, Half(t[i])), c, Len(t) + 1)
            /\ wr' = w
  <2>1. PICK i \in Stealable(t) : Assign(SplitOne(t, i, Half(t[i])), c, Len(t) + 1)
    BY <1>10
  <2>2. i \in DOMAIN t /\ Left(t[i]) >= 2 * MinSplit /\ Len(t) < MaxSegs
    BY DEF Stealable
  <2>3. Half(t[i]) \in Nat /\ t[i].s + t[i].w <= Half(t[i]) /\ Half(t[i]) < t[i].e
    BY <1>5, <2>2, HalfCut
  <2> DEFINE u == SplitOne(t, i, Half(t[i]))
  <2>4. /\ Table(u, wr.base) /\ Grown(t, u) /\ Missing(u) = Missing(t)
        /\ Len(u) = Len(t) + 1
    BY <1>2, <1>5, <2>2, <2>3, SplitOneTable
  <2>5. Assign(u, c, Len(t) + 1)
    BY <2>1
  <2> HIDE DEF u
  <2>6. Reshaped(segs, u, wr.base) /\ (wr.fatal = "none" => Keeps(u, HoldBut(c)))
    BY <1>1, <1>8, <2>4, <1>h, HandoffKeeps
  <2>7. Len(t) + 1 \in DOMAIN u /\ Len(t) + 1 \notin DOMAIN t
    BY <1>5, <2>4, TableDomain
  <2>8. u[Len(t) + 1].holders = 0
    BY <2>4, <2>7 DEF Grown
  <2> QED BY <1>1, <1>6, <1>10, <2>5, <2>6, <2>7, <2>8, AssignStep
<1>11. CASE /\ segs' = t
            /\ IF conn[c].fails >= 2 /\ w.alive > 1
               THEN /\ conn' = [conn EXCEPT ![c] = Nobody]
                    /\ wr' = [w EXCEPT !.alive = @ - 1, !.want = w.alive - 1]
               ELSE /\ conn' = [conn EXCEPT ![c].give = 0]
                    /\ wr' = w
  <2>0. /\ Reshaped(segs, segs', wr.base) /\ (wr.fatal = "none" => Keeps(segs', HoldBut(c)))
        /\ wr.alive = Cardinality(Busy) /\ wr.alive >= 1
    BY <1>0, <1>1, <1>8, <1>11 DEF CountInv
  <2>1. CASE conn[c].fails >= 2 /\ w.alive > 1
    <3>1. conn' = [conn EXCEPT ![c] = Nobody]
          /\ wr' = [w EXCEPT !.alive = w.alive - 1, !.want = w.alive - 1]
      BY <1>11, <2>1
    <3>2. w.alive \in Nat /\ w.alive - 1 \in Nat /\ w.alive - 1 >= 1 /\ w.alive - 1 \in Int
      BY <1>6, <2>1 DEF WrRec
    <3>3. /\ wr' \in WrRec /\ wr'.base = wr.base /\ wr'.todo = wr.todo /\ wr'.fin = wr.fin
          /\ wr'.fatal = wr.fatal /\ wr'.alive = wr.alive - 1
      BY <1>6, <3>1, <3>2 DEF WrRec
    <3>4. Nobody \in ConnRec /\ Nobody.pc = "off"
      BY DEF Nobody, ConnRec
    <3>5. Busy' = Busy \ {c} /\ c \in Busy
      BY <1>0, <1>1, <3>1, <3>4 DEF Busy
    <3>6. IsFiniteSet(Busy)
      <4>1. Busy \in SUBSET Conn
        BY DEF Busy
      <4> QED BY <4>1, SplitAssumption, FS_Subset
    <3>7. Cardinality(Busy') = Cardinality(Busy) - 1
      BY <3>5, <3>6, FS_RemoveElement
    <3>8. CountInv'
      BY <1>6, <2>0, <3>2, <3>3, <3>7 DEF CountInv
    <3> QED BY <1>1, <2>0, <3>1, <3>3, <3>4, <3>8, NoWorkStep
  <2>2. CASE ~ (conn[c].fails >= 2 /\ w.alive > 1)
    <3> DEFINE r == [conn[c] EXCEPT !.give = 0]
    <3>1. conn' = [conn EXCEPT ![c] = r] /\ wr' = w
      BY <1>0, <1>11, <2>2
    <3>2. r \in ConnRec /\ r.pc = "ask" /\ r.give = 0
      BY <1>0, <1>1 DEF ConnRec
    <3> HIDE DEF r
    <3>3. Busy' = Busy
      BY <1>0, <1>1, <3>1, <3>2 DEF Busy
    <3>4. CountInv'
      BY <1>6, <2>0, <3>1, <3>3 DEF CountInv
    <3> QED BY <1>1, <1>6, <2>0, <3>1, <3>2, <3>4, NoWorkStep
  <2> QED BY <2>1, <2>2
<1> QED BY <1>7, <1>9, <1>10, <1>11

(* A step of the writer on its own, which leaves the workers alone. *)
LEMMA OwnStep ==
    ASSUME HttpInv, split = "run", Reshaped(segs, segs', wr.base),
           wr.fatal = "none" => Keeps(segs', Hold),
           UNCHANGED <<disk, stable, ctrl, conn, split, trouble, drv, sink, site>>,
           wr' \in WrRec, wr'.base = wr.base, wr'.todo = wr.todo, wr'.fin = wr.fin,
           wr'.fatal = wr.fatal, wr'.alive = wr.alive,
           \/ jobs' = jobs
           \/ jobs' = Append(jobs, [cf |-> Snapshot(wr.base, segs'), synced |-> FALSE])
    PROVE  HttpInv'
<1>0. Types /\ PlaceInv /\ CountInv
  BY DEF HttpInv
<1>1. DOMAIN segs \subseteq DOMAIN segs'
  BY DEF Reshaped
<1>2. PlaceInv'
  BY <1>0, <1>1 DEF PlaceInv, Running
<1>3. Hold' = Hold /\ Busy' = Busy
  BY DEF Hold, Holders, Busy
<1>4. HoldInv'
  BY <1>3 DEF HoldInv, Keeps
<1>5. CountInv'
  BY <1>0, <1>3 DEF CountInv, Over
<1>6. conn' \in [Conn -> ConnRec]
  BY <1>0 DEF Types
<1> QED BY <1>2, <1>4, <1>5, <1>6, TableStep

(* The table of a running download. *)
LEMMA RunTable ==
    ASSUME HttpInv, split = "run"
    PROVE  /\ wr \in WrRec /\ wr.base \in Nat /\ Table(segs, wr.base)
           /\ Reshaped(segs, segs, wr.base)
           /\ wr.fatal = "none" => Keeps(segs, Hold)
           /\ \A i \in Nat : Hold[i] \subseteq Holders(i)
<1>1. wr \in WrRec /\ wr.base \in Nat /\ Table(segs, wr.base)
  BY DEF HttpInv, Types, TableInv, WrRec
<1>2. SameWritten(segs, segs)
  BY DEF SameWritten
<1> QED BY <1>1, <1>2 DEF HttpInv, HoldInv, Hold, Reshaped

(* The tick: leases, watchdog, and a save. *)
LEMMA BeatStep ==
    ASSUME HttpInv, Beat, UNCHANGED <<drv, sink, site>>
    PROVE  HttpInv'
<1>0. split = "run" /\ UNCHANGED <<disk, stable, ctrl, conn, split, trouble>>
  BY DEF Beat
<1>1. /\ wr \in WrRec /\ wr.base \in Nat /\ Table(segs, wr.base)
      /\ Reshaped(segs, segs, wr.base)
      /\ wr.fatal = "none" => Keeps(segs, Hold)
      /\ \A i \in Nat : Hold[i] \subseteq Holders(i)
  BY <1>0, RunTable
<1>2. PICK I \in SUBSET Expired(segs), dog \in Lease, late \in Late :
         LET t == Handoff(segs, I, FALSE, FALSE)
             J == IF dog /\ ~Over
                  THEN {i \in DOMAIN t : ~t[i].done /\ ~t[i].queued /\ Left(t[i]) > 0}
                  ELSE {}
             u == Handoff(t, J, TRUE, TRUE)
         IN /\ segs' = u
            /\ wr' = IF Len(u) > Len(segs) THEN Spare(wr) ELSE wr
            /\ jobs' = IF late /\ Len(jobs) < MaxJobs
                       THEN Append(jobs, [cf |-> Snapshot(wr.base, u), synced |-> FALSE])
                       ELSE jobs
  BY DEF Beat
<1> DEFINE t == Handoff(segs, I, FALSE, FALSE)
           J == IF dog /\ ~Over
                THEN {i \in DOMAIN t : ~t[i].done /\ ~t[i].queued /\ Left(t[i]) > 0}
                ELSE {}
           u == Handoff(t, J, TRUE, TRUE)
<1>3. /\ segs' = u
      /\ wr' = wr \/ wr' = Spare(wr)
      /\ jobs' = jobs \/ jobs' = Append(jobs, [cf |-> Snapshot(wr.base, u), synced |-> FALSE])
  BY <1>2
<1>4. I \in SUBSET (DOMAIN segs)
  BY <1>2 DEF Expired
<1>5. J \in SUBSET (DOMAIN t)
  OBVIOUS
<1>6. Table(t, wr.base) /\ Grown(segs, t) /\ Missing(t) = Missing(segs)
  BY <1>1, <1>4, HandoffTable
<1> HIDE DEF t, J
<1>7. Table(u, wr.base) /\ Grown(t, u) /\ Missing(u) = Missing(t)
  BY <1>1, <1>5, <1>6, HandoffTable
<1> HIDE DEF u
<1>8. Reshaped(segs, t, wr.base) /\ (wr.fatal = "none" => Keeps(t, Hold))
  BY <1>0, <1>1, <1>6, HandoffKeeps
<1>9. Reshaped(segs, u, wr.base) /\ (wr.fatal = "none" => Keeps(u, Hold))
  BY <1>0, <1>1, <1>7, <1>8, HandoffKeeps
<1>10. /\ wr' \in WrRec /\ wr'.base = wr.base /\ wr'.todo = wr.todo /\ wr'.fin = wr.fin
       /\ wr'.fatal = wr.fatal /\ wr'.alive = wr.alive
  BY <1>1, <1>3, SpareWr
<1> QED BY <1>0, <1>3, <1>9, <1>10, OwnStep

(* The adaptive scheduler: shrink, retire, spawn. *)
LEMMA AdaptStep ==
    ASSUME HttpInv, Adapt, UNCHANGED <<drv, sink, site>>
    PROVE  HttpInv'
<1>0. split = "run" /\ UNCHANGED <<disk, stable, ctrl, jobs, conn, split, trouble>>
  BY DEF Adapt
<1>1. /\ wr \in WrRec /\ wr.base \in Nat /\ Table(segs, wr.base)
      /\ Reshaped(segs, segs, wr.base)
      /\ wr.fatal = "none" => Keeps(segs, Hold)
      /\ \A i \in Nat : Hold[i] \subseteq Holders(i)
  BY <1>0, RunTable
<1>2. ASSUME NEW u, segs' = u, Table(u, wr.base), Grown(segs, u), Missing(u) = Missing(segs),
             wr' = wr \/ wr' = Spare(wr)
      PROVE  HttpInv'
  <2>1. Reshaped(segs, u, wr.base) /\ (wr.fatal = "none" => Keeps(u, Hold))
    BY <1>0, <1>1, <1>2, HandoffKeeps
  <2>2. /\ wr' \in WrRec /\ wr'.base = wr.base /\ wr'.todo = wr.todo /\ wr'.fin = wr.fin
        /\ wr'.fatal = wr.fatal /\ wr'.alive = wr.alive
    BY <1>1, <1>2, SpareWr
  <2> QED BY <1>0, <1>2, <2>1, <2>2, OwnStep
<1>3. CASE \E i \in Ids, n \in MinSplit..Total :
              /\ Shrinkable(i) /\ n <= Left(segs[i]) - MinSplit /\ Len(segs) < MaxSegs
              /\ segs' = SplitOne(segs, i, segs[i].e - n)
              /\ UNCHANGED wr
  <2>1. PICK i \in Ids, n \in MinSplit..Total :
              /\ Shrinkable(i) /\ n <= Left(segs[i]) - MinSplit
              /\ segs' = SplitOne(segs, i, segs[i].e - n)
              /\ UNCHANGED wr
    BY <1>3
  <2>2. i \in DOMAIN segs /\ segs[i] \in SegRec /\ MinSplit \in Nat \ {0} /\ Total \in Nat
    BY <1>1, SplitAssumption DEF Ids, Table
  <2>3. segs[i].s \in Nat /\ segs[i].w \in Nat /\ segs[i].e \in Nat
    BY <2>2 DEF SegRec
  <2>4. n \in Nat /\ n >= 1 /\ n < segs[i].e - segs[i].s - segs[i].w
    BY <2>1, <2>2, <2>3 DEF Left
  <2> DEFINE at == segs[i].e - n
  <2>5. at \in Nat /\ segs[i].s + segs[i].w <= at /\ at < segs[i].e
    BY <2>3, <2>4
  <2>6. segs' = SplitOne(segs, i, at)
    BY <2>1
  <2> HIDE DEF at
  <2>7. /\ Table(SplitOne(segs, i, at), wr.base) /\ Grown(segs, SplitOne(segs, i, at))
        /\ Missing(SplitOne(segs, i, at)) = Missing(segs)
    BY <1>1, <2>2, <2>5, SplitOneTable
  <2> QED BY <1>2, <2>1, <2>6, <2>7
<1>4. CASE \E i \in Ids :
              /\ segs' = Handoff(segs, {i}, FALSE, FALSE)
              /\ segs' # segs
              /\ wr' = Spare(wr)
  <2>1. PICK i \in Ids : segs' = Handoff(segs, {i}, FALSE, FALSE) /\ wr' = Spare(wr)
    BY <1>4
  <2> DEFINE I == {i}
             u == Handoff(segs, I, FALSE, FALSE)
  <2>2. I \in SUBSET (DOMAIN segs)
    BY DEF Ids
  <2> HIDE DEF I
  <2>3. Table(u, wr.base) /\ Grown(segs, u) /\ Missing(u) = Missing(segs)
    BY <1>1, <2>2, HandoffTable
  <2>4. segs' = u
    BY <2>1 DEF I
  <2> QED BY <1>2, <2>1, <2>3, <2>4
<1>5. CASE /\ wr' = [wr EXCEPT !.want =
                      LET cap == Least(Cardinality(Conn), 2 * Len(segs))
                          goal == Most(Least(cap, Most(2 * wr.alive, wr.alive + 1)), wr.alive)
                      IN IF goal > wr.alive THEN goal ELSE @]
           /\ UNCHANGED segs
  <2> DEFINE cap == Least(Cardinality(Conn), 2 * Len(segs))
             goal == Most(Least(cap, Most(2 * wr.alive, wr.alive + 1)), wr.alive)
             x == IF goal > wr.alive THEN goal ELSE wr.want
  <2>1. wr' = [wr EXCEPT !.want = x]
    BY <1>5
  <2>2. wr.alive \in Nat /\ wr.want \in Int /\ Len(segs) \in Nat /\ Cardinality(Conn) \in Nat
    BY <1>1, TableDomain, ConnCount DEF WrRec
  <2>3. x \in Int
    <3>1. cap \in Int
      BY <2>2 DEF Least
    <3> HIDE DEF cap
    <3>2. goal \in Int
      BY <2>2, <3>1 DEF Least, Most
    <3> QED BY <2>2, <3>2
  <2> HIDE DEF x
  <2>4. /\ wr' \in WrRec /\ wr'.base = wr.base /\ wr'.todo = wr.todo /\ wr'.fin = wr.fin
        /\ wr'.fatal = wr.fatal /\ wr'.alive = wr.alive
    BY <1>1, <2>1, <2>3 DEF WrRec
  <2> QED BY <1>0, <1>1, <1>5, <2>4, OwnStep
<1> QED BY <1>3, <1>4, <1>5 DEF Adapt

(* A worker joins. *)
LEMMA GrowStep ==
    ASSUME HttpInv, NEW c \in Conn, Grow(c), UNCHANGED <<drv, sink, site>>
    PROVE  HttpInv'
<1> DEFINE r == [Nobody EXCEPT !.pc = "ask"]
<1>0. /\ Types /\ PlaceInv /\ CountInv /\ HoldInv
  BY DEF HttpInv
<1>1. /\ split = "run" /\ conn[c].pc = "off" /\ ~Over
      /\ conn' = [conn EXCEPT ![c] = r]
      /\ wr' = [wr EXCEPT !.alive = @ + 1]
      /\ UNCHANGED <<disk, stable, ctrl, jobs, segs, split, trouble>>
  BY DEF Grow
<1>2. /\ wr \in WrRec /\ Table(segs, wr.base) /\ Reshaped(segs, segs, wr.base)
  BY <1>1, RunTable
<1>3. /\ wr' \in WrRec /\ wr'.base = wr.base /\ wr'.todo = wr.todo /\ wr'.fin = wr.fin
      /\ wr'.fatal = wr.fatal /\ wr'.alive = wr.alive + 1
  BY <1>1, <1>2 DEF WrRec
<1>4. r \in ConnRec /\ r.pc = "ask" /\ r.give = 0
  BY DEF ConnRec, Nobody
<1> HIDE DEF r
<1>5. conn' \in [Conn -> ConnRec] /\ conn'[c] = r /\ \A d \in Conn \ {c} : conn'[d] = conn[d]
  BY <1>0, <1>1, <1>4 DEF Types
<1>6. PlaceInv'
  BY <1>0, <1>1, <1>4, <1>5 DEF PlaceInv, Running
<1>7. ASSUME NEW j \in Nat \ {0} PROVE Hold'[j] = Hold[j]
  <2>1. \A d \in Conn : d \in Holders(j)' <=> d \in Holders(j)
    BY <1>1, <1>4, <1>5 DEF Holders
  <2>2. Holders(j)' \subseteq Conn /\ Holders(j) \subseteq Conn
    BY DEF Holders
  <2> QED BY <2>1, <2>2 DEF Hold
<1>8. HoldInv'
  <2>1. \A j \in DOMAIN segs : Hold'[j] = Hold[j]
    BY <1>2, <1>7, TableDomain
  <2> QED BY <1>0, <1>1, <1>3, <2>1 DEF HoldInv, Keeps
<1>9. CountInv'
  <2>1. Busy' = Busy \cup {c} /\ c \notin Busy
    BY <1>1, <1>4, <1>5 DEF Busy
  <2>2. IsFiniteSet(Busy)
    <3>1. Busy \in SUBSET Conn
      BY DEF Busy
    <3> QED BY <3>1, SplitAssumption, FS_Subset
  <2>3. Cardinality(Busy') = Cardinality(Busy) + 1
    BY <2>1, <2>2, FS_AddElement
  <2>4. wr.alive \in Nat
    BY <1>2 DEF WrRec
  <2> QED BY <1>0, <1>1, <1>3, <2>3, <2>4 DEF CountInv
<1> QED BY <1>1, <1>2, <1>3, <1>5, <1>6, <1>8, <1>9, TableStep

----------------------------------------------------------------------------
(* The sync thread, and the end of download_split. *)

(* A step of the sync thread. *)
LEMMA SyncedStep ==
    ASSUME HttpInv, Running, File(stable'),
           UNCHANGED <<disk, segs, wr, conn, split, trouble, drv, sink, site>>,
           ctrl' # NoCtrl, Ctrl(ctrl'), ctrl'.base = wr.base,
           jobs' \in Seq(JobRec),
           \A k \in DOMAIN jobs' : Ctrl(jobs'[k].cf) /\ jobs'[k].cf.base = wr.base,
           ~drv.torn =>
              /\ Claims(ctrl', stable'.good) /\ stable'.good \subseteq disk.good
              /\ \A k \in DOMAIN jobs' :
                   /\ Claims(jobs'[k].cf, disk.good)
                   /\ jobs'[k].synced => Claims(jobs'[k].cf, stable'.good)
    PROVE  HttpInv'
<1>0. Types /\ TableInv /\ PlaceInv /\ HoldInv /\ CountInv /\ ModeInv /\ DataInv
  BY DEF HttpInv
<1>1. Types'
  BY <1>0 DEF Types, File, Running
<1>2. TableInv' /\ PlaceInv'
  BY <1>0 DEF TableInv, PlaceInv, Running
<1>3. HoldInv' /\ CountInv'
  BY <1>0 DEF HoldInv, Hold, Holders, CountInv, Busy, Over
<1>4. drv.at = "split" /\ site = "ranges" /\ split \in {"run", "stop", "cancelled"}
  BY <1>0 DEF ModeInv, Running
<1>5. ModeInv'
  BY <1>0, <1>4 DEF ModeInv, Running, Over
<1>6. DataInv'
  <2> SUFFICES ASSUME ~drv.torn PROVE DataInv'
    BY DEF DataInv
  <2>1. RestOK' /\ Written(segs, disk.good)
    BY <1>0 DEF RestOK, DataInv
  <2> QED BY <1>4, <2>1 DEF DataInv
<1> QED BY <1>1, <1>2, <1>3, <1>5, <1>6 DEF HttpInv

(* The sync thread: the data, then the control file. *)
LEMMA SyncStepInv ==
    ASSUME HttpInv, SyncStep, UNCHANGED <<drv, sink, site>>
    PROVE  HttpInv'
<1>0. Types /\ ModeInv /\ DataInv
  BY DEF HttpInv
<1>1. jobs # <<>> /\ UNCHANGED <<disk, segs, wr, conn, split, trouble>>
  BY DEF SyncStep, SyncData, SyncFails, SyncCtrl
<1>2. Running /\ ctrl # NoCtrl /\ Ctrl(ctrl) /\ ctrl.base = wr.base
  BY <1>0, <1>1 DEF ModeInv, Types
<1>3. /\ File(disk) /\ File(stable) /\ jobs \in Seq(JobRec)
      /\ \A k \in DOMAIN jobs : Ctrl(jobs[k].cf) /\ jobs[k].cf.base = wr.base
  BY <1>0 DEF Types, ModeInv
<1>4. ~drv.torn =>
        /\ Claims(ctrl, stable.good) /\ stable.good \subseteq disk.good
        /\ \A k \in DOMAIN jobs : /\ Claims(jobs[k].cf, disk.good)
                                  /\ jobs[k].synced => Claims(jobs[k].cf, stable.good)
  BY <1>0, <1>2 DEF DataInv
<1>5. /\ 1 \in DOMAIN jobs /\ Head(jobs) = jobs[1] /\ Tail(jobs) \in Seq(JobRec)
      /\ \A k \in DOMAIN Tail(jobs) : k + 1 \in DOMAIN jobs /\ Tail(jobs)[k] = jobs[k + 1]
  BY <1>1, <1>3, HeadTail
<1>6. CASE SyncData
  <2>1. stable' = disk /\ ctrl' = ctrl /\ jobs' = [jobs EXCEPT ![1].synced = TRUE]
    BY <1>6 DEF SyncData
  <2>2. /\ jobs' \in Seq(JobRec) /\ DOMAIN jobs' = DOMAIN jobs
        /\ \A k \in DOMAIN jobs : jobs'[k].cf = jobs[k].cf
    <3> DEFINE x == [jobs[1] EXCEPT !.synced = TRUE]
    <3>1. PICK n \in Nat : jobs \in [1..n -> JobRec]
      BY <1>3
    <3>2. jobs' = [jobs EXCEPT ![1] = x] /\ x \in JobRec /\ x.cf = jobs[1].cf
      BY <1>5, <2>1, <3>1 DEF JobRec
    <3> HIDE DEF x
    <3>3. jobs' \in [1..n -> JobRec] /\ DOMAIN jobs' = DOMAIN jobs
      BY <3>1, <3>2
    <3>4. \A k \in DOMAIN jobs : jobs'[k] = IF k = 1 THEN x ELSE jobs[k]
      BY <3>1, <3>2
    <3>5. jobs' \in Seq(JobRec)
      BY <3>3
    <3>6. \A k \in DOMAIN jobs : jobs'[k].cf = jobs[k].cf
      BY <3>2, <3>4
    <3> QED BY <3>3, <3>5, <3>6
  <2>3. ~drv.torn =>
          /\ Claims(ctrl', stable'.good) /\ stable'.good \subseteq disk.good
          /\ \A k \in DOMAIN jobs' : /\ Claims(jobs'[k].cf, disk.good)
                                     /\ jobs'[k].synced => Claims(jobs'[k].cf, stable'.good)
    BY <1>4, <2>1, <2>2, ClaimsMonotone
  <2> QED BY <1>1, <1>2, <1>3, <2>1, <2>2, <2>3, SyncedStep
<1>7. CASE SyncFails
  <2>1. UNCHANGED <<stable, ctrl>> /\ jobs' = Tail(jobs)
    BY <1>7 DEF SyncFails
  <2> QED BY <1>1, <1>2, <1>3, <1>4, <1>5, <2>1, SyncedStep
<1>8. CASE SyncCtrl
  <2>1. stable' = stable /\ ctrl' = jobs[1].cf /\ jobs' = Tail(jobs) /\ jobs[1].synced
    BY <1>5, <1>8 DEF SyncCtrl
  <2>2. Ctrl(ctrl') /\ ctrl' # NoCtrl /\ ctrl'.base = wr.base
    BY <1>3, <1>5, <2>1, SplitAssumption DEF Ctrl, CtrlSeg
  <2> QED BY <1>1, <1>2, <1>3, <1>4, <1>5, <2>1, <2>2, SyncedStep
<1> QED BY <1>6, <1>7, <1>8 DEF SyncStep

(* The workers are stopped. *)
LEMMA StopStep ==
    ASSUME HttpInv, NEW x \in BOOLEAN, Stop(x), UNCHANGED <<drv, sink, site>>
    PROVE  HttpInv'
<1>0. Types /\ TableInv /\ PlaceInv /\ HoldInv /\ CountInv /\ ModeInv /\ DataInv
  BY DEF HttpInv
<1>1. /\ split = "run" /\ split' \in {"stop", "cancelled"} /\ (split' = "stop" => Over)
      /\ conn' = [c \in Conn |-> IF conn[c].pc = "put" THEN conn[c] ELSE Nobody]
      /\ UNCHANGED <<disk, stable, ctrl, jobs, segs, wr, trouble>>
  BY DEF Stop
<1>2. Nobody \in ConnRec /\ Nobody.pc = "off"
  BY DEF Nobody, ConnRec
<1>3. Types'
  <2>1. conn' \in [Conn -> ConnRec]
    BY <1>0, <1>1, <1>2 DEF Types
  <2> QED BY <1>0, <1>1, <2>1 DEF Types, File, Running
<1>4. TableInv'
  BY <1>0, <1>1 DEF TableInv
<1>5. PlaceInv'
  BY <1>0, <1>1, <1>2 DEF PlaceInv, Running
<1>6. HoldInv' /\ CountInv'
  BY <1>1 DEF HoldInv, CountInv
<1>7. ModeInv'
  BY <1>0, <1>1 DEF ModeInv, Running, Ending, Over
<1>8. DataInv'
  BY <1>0, <1>1 DEF DataInv, ModeInv, Running, RestOK, HoleFree
<1> QED BY <1>3, <1>4, <1>5, <1>6, <1>7, <1>8 DEF HttpInv

(* Up to Prefix a running download has every byte. *)
LEMMA PrefixGood ==
    ASSUME HttpInv, Running
    PROVE  /\ Prefix \in Nat /\ wr.base <= Prefix /\ Prefix <= Total
           /\ Missing(segs) = {} => Prefix = Total
           /\ ~drv.torn => 0..(Prefix - 1) \subseteq disk.good
<1>0. /\ Types /\ TableInv /\ ModeInv /\ DataInv
  BY DEF HttpInv
<1>1. /\ Table(segs, wr.base) /\ wr.base \in Nat /\ wr.base <= Total /\ Total \in Nat
  BY <1>0, SplitAssumption DEF TableInv, Types, WrRec, Running
<1>2. Missing(segs) \in SUBSET Nat
  BY <1>1 DEF Missing, Pos
<1>3. \A p \in Missing(segs) : wr.base <= p /\ p <= Total
  <2> SUFFICES ASSUME NEW p \in Missing(segs) PROVE wr.base <= p /\ p <= Total
    OBVIOUS
  <2>1. PICK i \in DOMAIN segs : segs[i].s + segs[i].w <= p /\ p < segs[i].e
    BY DEF Missing
  <2>2. segs[i] \in SegRec /\ Fits(segs[i], wr.base) /\ p \in Nat
    BY <1>1, <1>2 DEF Table
  <2> QED BY <1>1, <2>1, <2>2 DEF SegRec, Fits
<1>4. /\ Prefix \in Nat /\ wr.base <= Prefix /\ Prefix <= Total
      /\ Missing(segs) = {} => Prefix = Total
      /\ \A p \in Missing(segs) : Prefix <= p
  <2>1. CASE Missing(segs) = {}
    BY <1>1, <2>1 DEF Prefix
  <2>2. CASE Missing(segs) # {}
    <3>1. \E x \in Missing(segs) : \A y \in Missing(segs) : x <= y
      BY <1>2, <2>2, MissingFinite, Smallest
    <3>2. Prefix = CHOOSE x \in Missing(segs) : \A y \in Missing(segs) : x <= y
      BY <2>2 DEF Prefix, Min
    <3>3. Prefix \in Missing(segs) /\ \A p \in Missing(segs) : Prefix <= p
      BY <3>1, <3>2
    <3> QED BY <1>2, <1>3, <2>2, <3>3
  <2> QED BY <2>1, <2>2
<1>5. ASSUME ~drv.torn, NEW p \in 0..(Prefix - 1) PROVE p \in disk.good
  <2>1. /\ 0..(ctrl.base - 1) \subseteq disk.good /\ Written(segs, disk.good) /\ ctrl.base = wr.base
    BY <1>0, <1>5 DEF DataInv, ModeInv, Claims
  <2>2. p \in Nat /\ p < Total /\ p \notin Missing(segs)
    BY <1>1, <1>4
  <2>3. CASE p < wr.base
    BY <1>1, <2>1, <2>2, <2>3
  <2>4. CASE ~ (p < wr.base)
    <3>1. p \in wr.base..(Total - 1) /\ p \in Pos
      BY <1>1, <2>2, <2>4 DEF Pos
    <3>2. PICK i \in DOMAIN segs : Covers(segs[i], p)
      BY <1>1, <3>1 DEF Table
    <3>3. ~ (segs[i].s + segs[i].w <= p /\ p < segs[i].e)
      BY <2>2, <3>1 DEF Missing
    <3>4. segs[i] \in SegRec
      BY <1>1 DEF Table
    <3>5. segs[i].s \in Nat /\ segs[i].w \in Nat /\ segs[i].e \in Nat
      BY <3>4 DEF SegRec
    <3>6. p \in segs[i].s..(segs[i].s + segs[i].w - 1)
      BY <2>2, <3>2, <3>3, <3>5 DEF Covers
    <3> QED BY <2>1, <3>6 DEF Written
  <2> QED BY <2>3, <2>4
<1> QED BY <1>4, <1>5

(* set_len. *)
LEMMA ResizedFile ==
    ASSUME NEW f, File(f), NEW n \in Nat, n <= Total
    PROVE  /\ File(Resize(f, n)) /\ Resize(f, n).len = n
           /\ Resize(f, n).good = f.good \cap 0..(n - 1)
           /\ 0..(n - 1) \subseteq f.good => HoleFree(Resize(f, n))
<1>1. Resize(f, n).len = n /\ Resize(f, n).good = f.good \cap 0..(n - 1)
  BY DEF Resize
<1>2. f.good \cap 0..(n - 1) \in SUBSET Nat
  BY DEF File
<1>3. Resize(f, n) \in [len : Nat, good : SUBSET Nat]
  BY <1>2 DEF Resize
<1> QED BY <1>1, <1>3 DEF File, HoleFree

(* The workers are joined, and the sync thread is drained. *)
Drained == split \in {"stop", "cancelled"} /\ jobs = <<>> /\ \A c \in Conn : conn[c].pc # "put"

(* Finish sets the length: all of it when nothing is missing, the prefix   *)
(* when the download is given up.                                          *)
LEMMA FinishFileStep ==
    ASSUME HttpInv, FinishFile, UNCHANGED <<drv, sink, site>>
    PROVE  HttpInv'
<1>0. Types /\ TableInv /\ PlaceInv /\ HoldInv /\ CountInv /\ ModeInv /\ DataInv
  BY DEF HttpInv
<1>1. /\ Drained /\ Running /\ split' = Mode /\ stable' = disk'
      /\ UNCHANGED <<ctrl, jobs, segs, wr, conn, trouble>>
      /\ disk' = CASE Mode = "success" -> Resize(disk, Total)
                   [] Mode \in {"discard", "drop"} -> Resize(disk, Prefix)
                   [] OTHER -> disk
  BY DEF FinishFile, Drained, Running
<1>2. /\ \A c \in Conn : conn[c].pc = "off"
      /\ split # "off" /\ split \in {"stop", "cancelled"} /\ jobs = <<>>
  BY <1>0, <1>1 DEF PlaceInv, Drained
<1>3. /\ wr \in WrRec /\ wr.fatal \in {"none", "io", "net", "nosplit"}
      /\ ctrl # NoCtrl /\ ctrl.base = wr.base /\ drv.at = "split" /\ site = "ranges"
  BY <1>0, <1>1, <1>2 DEF Types, WrRec, ModeInv
<1>4. /\ Mode \in {"success", "discard", "drop", "preserve", "keep"}
      /\ Mode = "preserve" => wr.fatal \in {"io", "net"}
      /\ Mode = "discard" => wr.fatal = "nosplit"
      /\ Mode = "success" => split = "stop" /\ wr.fatal = "none"
  <2>1. CASE split = "stop" /\ wr.fatal = "none"
    BY <2>1 DEF Mode
  <2>2. CASE ~(split = "stop" /\ wr.fatal = "none") /\ wr.fatal = "nosplit"
    BY <1>2, <2>2 DEF Mode
  <2>3. CASE ~(split = "stop" /\ wr.fatal = "none") /\ wr.fatal # "nosplit"
    <3>1. Mode = IF split = "stop" THEN "preserve" ELSE "keep"
      BY <2>3 DEF Mode
    <3> QED BY <1>2, <1>3, <2>3, <3>1
  <2> QED BY <2>1, <2>2, <2>3
<1>5. /\ Prefix \in Nat /\ wr.base <= Prefix /\ Prefix <= Total
      /\ Missing(segs) = {} => Prefix = Total
      /\ ~drv.torn => 0..(Prefix - 1) \subseteq disk.good
  BY <1>1, PrefixGood
<1>6. Mode = "success" => Prefix = Total
  <2> SUFFICES ASSUME Mode = "success" PROVE Missing(segs) = {}
    BY <1>5
  <2>1. wr.fin
    BY <1>0, <1>4 DEF ModeInv, Over
  <2>2. Cardinality(Missing(segs)) = 0
    BY <1>0, <1>2, <2>1 DEF TableInv
  <2> QED BY <2>2, MissingFinite, FS_EmptySet
<1> HIDE DEF Mode
<1>7. \/ Mode \in {"success", "discard", "drop"} /\ disk' = Resize(disk, Prefix)
      \/ Mode \in {"preserve", "keep"} /\ disk' = disk
  BY <1>1, <1>4, <1>6
<1>8. /\ File(disk)
      /\ File(Resize(disk, Prefix)) /\ Resize(disk, Prefix).len = Prefix
      /\ ~drv.torn => HoleFree(Resize(disk, Prefix))
  BY <1>0, <1>5, ResizedFile DEF Types
<1>9. File(disk') /\ File(stable')
  BY <1>1, <1>7, <1>8
<1>10. Types'
  BY <1>0, <1>1, <1>4, <1>9 DEF Types, File, Ending
<1>11. TableInv' /\ PlaceInv'
  BY <1>0, <1>1, <1>2, <1>4 DEF TableInv, PlaceInv, Running
<1>12. HoldInv' /\ CountInv'
  BY <1>1, <1>4 DEF HoldInv, CountInv
<1>13. ModeInv'
  BY <1>0, <1>1, <1>2, <1>3, <1>4 DEF ModeInv, Running, Ending
<1>14. DataInv'
  <2> SUFFICES ASSUME ~drv.torn PROVE DataInv'
    BY <1>1 DEF DataInv
  <2>1. /\ Claims(ctrl, stable.good) /\ stable.good \subseteq disk.good
        /\ Written(segs, disk.good)
    BY <1>0, <1>1 DEF DataInv
  <2>2. CASE Mode \in {"success", "discard", "drop"} /\ disk' = Resize(disk, Prefix)
    <3>1. HoleFree(disk') /\ disk'.len = Prefix /\ disk' = stable'
      BY <1>1, <1>8, <2>2
    <3>2. RestOK'
      BY <1>1, <1>3, <1>5, <3>1 DEF RestOK, HoleFree
    <3> QED BY <1>1, <1>2, <1>3, <1>6, <2>2, <3>1, <3>2 DEF DataInv, Running
  <2>3. CASE Mode \in {"preserve", "keep"} /\ disk' = disk
    <3>1. Claims(ctrl, disk.good)
      BY <2>1, ClaimsMonotone
    <3>2. RestOK'
      BY <1>1, <1>3, <2>3, <3>1 DEF RestOK
    <3> QED BY <1>1, <1>2, <1>3, <2>1, <2>3, <3>1, <3>2 DEF DataInv, Running
  <2> QED BY <1>7, <2>2, <2>3
<1> QED BY <1>10, <1>11, <1>12, <1>13, <1>14 DEF HttpInv

(* Finish leaves the last table, or no control file. *)
LEMMA FinishCtrlStep ==
    ASSUME HttpInv, FinishCtrl, UNCHANGED <<drv, sink, site>>
    PROVE  HttpInv'
<1>0. Types /\ TableInv /\ PlaceInv /\ HoldInv /\ CountInv /\ ModeInv /\ DataInv
  BY DEF HttpInv
<1>1. /\ split \in {"success", "discard", "drop", "preserve", "keep"}
      /\ ctrl' = IF split \in {"preserve", "keep"} THEN Snapshot(wr.base, segs) ELSE NoCtrl
      /\ split' = CASE split = "success" -> "ok"
                    [] split \in {"drop", "keep"} -> "paused"
                    [] OTHER -> wr.fatal
      /\ UNCHANGED <<disk, stable, jobs, segs, wr, conn, trouble>>
  BY DEF FinishCtrl
<1>2. /\ Ending /\ ~Running /\ split # "off" /\ jobs = <<>> /\ drv.at = "split"
      /\ site = "ranges"
  BY <1>0, <1>1 DEF Ending, Running, ModeInv
<1>3. /\ split = "success" => split' = "ok" /\ ctrl' = NoCtrl
      /\ split = "drop" => split' = "paused" /\ ctrl' = NoCtrl
      /\ split = "keep" => split' = "paused" /\ ctrl' = Snapshot(wr.base, segs)
      /\ split = "discard" => split' = "nosplit" /\ ctrl' = NoCtrl
      /\ split = "preserve" => split' \in {"io", "net"} /\ ctrl' = Snapshot(wr.base, segs)
  BY <1>0, <1>1 DEF ModeInv
<1>4. Ended' /\ ~Running' /\ ~Ending' /\ split' # "off"
  BY <1>1, <1>3 DEF Ended, Running, Ending
<1>5. Table(segs, wr.base) /\ wr.base \in Nat /\ wr.base <= Total
  BY <1>0, <1>2 DEF TableInv, Types, WrRec
<1>6. /\ Ctrl(Snapshot(wr.base, segs)) /\ Snapshot(wr.base, segs).base = wr.base
      /\ Snapshot(wr.base, segs) # NoCtrl
      /\ \A G : 0..(wr.base - 1) \subseteq G /\ Written(segs, G) => Claims(Snapshot(wr.base, segs), G)
  BY <1>5, SnapshotCtrl
<1>7. Types'
  BY <1>0, <1>1, <1>3, <1>4, <1>6 DEF Types, File
<1>8. TableInv' /\ PlaceInv'
  BY <1>0, <1>1, <1>2, <1>4 DEF TableInv, PlaceInv, Running
<1>9. HoldInv' /\ CountInv'
  BY <1>4 DEF HoldInv, CountInv, Running
<1>10. ModeInv'
  BY <1>0, <1>1, <1>2, <1>3, <1>4 DEF ModeInv, Running, Ending
<1>11. DataInv'
  <2> SUFFICES ASSUME ~drv.torn PROVE DataInv'
    BY DEF DataInv
  <2>1. disk = stable
    BY <1>0, <1>1 DEF DataInv
  <2>2. CASE split \in {"preserve", "keep"}
    <3>1. Claims(ctrl, disk.good) /\ Written(segs, disk.good) /\ ctrl.base = wr.base
      BY <1>0, <1>2, <2>1, <2>2 DEF DataInv, ModeInv
    <3>2. Claims(Snapshot(wr.base, segs), disk.good)
      BY <1>6, <3>1 DEF Claims
    <3>3. RestOK'
      BY <1>1, <1>3, <1>6, <2>1, <2>2, <3>2 DEF RestOK
    <3> QED BY <1>1, <1>2, <1>3, <1>4, <2>2, <3>3 DEF DataInv, Running
  <2>3. CASE split \in {"success", "discard", "drop"}
    <3>1. HoleFree(disk) /\ HoleFree(stable) /\ ctrl' = NoCtrl
      BY <1>0, <1>3, <2>1, <2>3 DEF DataInv
    <3>2. RestOK'
      BY <1>1, <3>1 DEF RestOK, HoleFree
    <3>3. split' = "ok" => disk.len = Total
      BY <1>0, <1>3, <2>3 DEF DataInv
    <3> QED BY <1>1, <1>2, <1>3, <1>4, <2>3, <3>1, <3>2, <3>3 DEF DataInv, Running, HoleFree
  <2> QED BY <1>1, <2>2, <2>3
<1> QED BY <1>7, <1>8, <1>9, <1>10, <1>11 DEF HttpInv

(* Finish fails, and leaves the control file of before. *)
LEMMA FinishFailsStep ==
    ASSUME HttpInv, FinishFails, UNCHANGED <<drv, sink, site>>
    PROVE  HttpInv'
<1>0. Types /\ TableInv /\ PlaceInv /\ HoldInv /\ CountInv /\ ModeInv /\ DataInv
  BY DEF HttpInv
<1>1. /\ Drained /\ split' \in {"paused", "io"}
      /\ UNCHANGED <<disk, stable, ctrl, jobs, segs, wr, conn, trouble>>
  BY DEF FinishFails, Drained
<1>2. /\ \A c \in Conn : conn[c].pc = "off"
      /\ split # "off" /\ split \in {"stop", "cancelled"} /\ jobs = <<>>
      /\ drv.at = "split" /\ site = "ranges"
  BY <1>0, <1>1 DEF PlaceInv, Drained, ModeInv
<1>3. Types'
  BY <1>0, <1>1 DEF Types, File, Ended
<1>4. TableInv' /\ PlaceInv'
  BY <1>0, <1>1, <1>2 DEF TableInv, PlaceInv, Running
<1>5. HoldInv' /\ CountInv'
  BY <1>1 DEF HoldInv, CountInv
<1>6. ModeInv'
  BY <1>0, <1>1, <1>2 DEF ModeInv, Running, Ending
<1>7. DataInv'
  BY <1>0, <1>1, <1>2 DEF DataInv, RestOK, HoleFree, Running
<1> QED BY <1>3, <1>4, <1>5, <1>6, <1>7 DEF HttpInv

(* All steps of download_split. *)
LEMMA SplitStep ==
    ASSUME HttpInv, SplitNext, UNCHANGED <<drv, sink, site>>
    PROVE  HttpInv'
<1>1. ASSUME NEW c \in Conn, ConnStep(c) \/ Grow(c) PROVE HttpInv'
  BY <1>1, NextDoneStep, NextWorkStep, WriteStep, RunWorker, GrowStep DEF ConnStep
<1>2. ASSUME FinishStep PROVE HttpInv'
  <2>1. CASE Stop(FALSE)
    BY <2>1, StopStep
  <2> QED BY <1>2, <2>1, FinishFileStep, FinishCtrlStep, FinishFailsStep DEF FinishStep
<1> QED BY <1>1, <1>2, BeatStep, AdaptStep, SyncStepInv DEF SplitNext

----------------------------------------------------------------------------
(* The driver. *)

(* A step of the driver while download_split is not at work. *)
LEMMA IdleStep ==
    ASSUME HttpInv, split = "off", drv.at # "split",
           UNCHANGED <<jobs, segs, wr, conn, split, trouble, site>>,
           File(disk'), File(stable'), ctrl' = ctrl \/ ctrl' = NoCtrl,
           drv' \in DrvRec, drv'.at # "split",
           sink' \in [pos : Nat, idle : Nat], sink'.pos <= Total,
           drv'.at \in {"fresh", "one"} => ctrl' = NoCtrl,
           drv'.at = "one" => disk'.len <= sink'.pos,
           ~drv'.torn => RestOK' /\ (drv'.at = "done" => disk'.len = Total /\ HoleFree(disk'))
    PROVE  HttpInv'
<1>0. Types /\ TableInv /\ PlaceInv /\ HoldInv /\ CountInv /\ ModeInv /\ DataInv
  BY DEF HttpInv
<1>1. jobs = <<>> /\ ~Running /\ ~Ending
  BY <1>0 DEF ModeInv, Running, Ending
<1>2. Types'
  BY <1>0 DEF Types
<1>3. TableInv' /\ PlaceInv' /\ HoldInv' /\ CountInv'
  BY <1>0, <1>1 DEF TableInv, PlaceInv, HoldInv, CountInv, Running
<1>4. ModeInv'
  BY <1>0, <1>1 DEF ModeInv, Running, Ending
<1>5. DataInv'
  BY <1>1 DEF DataInv, Running
<1> QED BY <1>2, <1>3, <1>4, <1>5 DEF HttpInv

(* Without control file and reset, no file has holes. *)
LEMMA NoHoles ==
    ASSUME HttpInv, ctrl = NoCtrl, ~drv.torn
    PROVE  HoleFree(disk) /\ HoleFree(stable)
BY DEF HttpInv, DataInv, RestOK

(* Files without holes need no control file. *)
LEMMA HoleFreeRest ==
    ASSUME ctrl' = NoCtrl, HoleFree(disk'), HoleFree(stable')
    PROVE  RestOK'
BY DEF RestOK, HoleFree

(* What the steps of the driver use of the invariant. *)
LEMMA DrvType ==
    ASSUME HttpInv
    PROVE  /\ drv \in DrvRec /\ sink \in [pos : Nat, idle : Nat] /\ sink.pos <= Total
           /\ sink.pos \in Nat /\ sink.idle \in Nat /\ Total \in Nat
           /\ NoSink \in [pos : Nat, idle : Nat] /\ NoSink.pos <= Total
           /\ File(disk) /\ File(stable) /\ disk.len \in Nat /\ stable.len \in Nat
           /\ (drv.at = "split" <=> split # "off")
           /\ (drv.at \in {"fresh", "one"} => ctrl = NoCtrl)
           /\ (site # "ranges" => ctrl = NoCtrl)
           /\ (drv.at = "one" => disk.len <= sink.pos)
<1>1. Types /\ ModeInv /\ Total \in Nat
  BY SplitAssumption DEF HttpInv
<1>2. File(disk) /\ File(stable) /\ disk.len \in Nat /\ stable.len \in Nat
  BY <1>1 DEF Types, File
<1>3. NoSink \in [pos : Nat, idle : Nat] /\ NoSink.pos <= Total
  BY <1>1 DEF NoSink
<1> QED BY <1>1, <1>2, <1>3 DEF Types, ModeInv

(* The buffer of the single connection joins the end of the file. *)
LEMMA SpilledFile ==
    ASSUME HttpInv, drv.at = "one"
    PROVE  /\ File(Spilled) /\ Spilled.len = sink.pos
           /\ ~drv.torn => HoleFree(Spilled) /\ HoleFree(stable)
<1>1. /\ File(disk) /\ disk.len \in Nat /\ sink.pos \in Nat /\ sink.pos <= Total
      /\ disk.len <= sink.pos /\ Total \in Nat /\ ctrl = NoCtrl
  BY DrvType
<1>2. Spilled.len = sink.pos /\ Spilled.good = disk.good \cup disk.len..(sink.pos - 1)
  BY DEF Spilled
<1>3. disk.good \subseteq 0..(disk.len - 1)
  BY <1>1 DEF File
<1>4. Spilled.good \in SUBSET Nat /\ Spilled.good \subseteq 0..(sink.pos - 1)
  BY <1>1, <1>2, <1>3
<1>5. Spilled \in [len : Nat, good : SUBSET Nat]
  BY <1>1, <1>2, <1>4 DEF Spilled
<1>6. File(Spilled)
  BY <1>1, <1>2, <1>4, <1>5 DEF File
<1>7. ASSUME ~drv.torn PROVE HoleFree(Spilled) /\ HoleFree(stable)
  <2>1. disk.good = 0..(disk.len - 1) /\ HoleFree(stable)
    BY <1>1, <1>7, NoHoles DEF HoleFree
  <2>2. Spilled.good = 0..(sink.pos - 1)
    BY <1>1, <1>2, <2>1
  <2> QED BY <1>2, <2>1, <2>2 DEF HoleFree
<1> QED BY <1>2, <1>6, <1>7

(* A step that only the driver's own state takes. *)
LEMMA DriverStep ==
    ASSUME HttpInv, drv.at # "split", UNCHANGED <<splitVars, site>>,
           drv' \in DrvRec, drv'.at \notin {"split", "done", "fresh"}, drv'.torn = drv.torn,
           sink' \in [pos : Nat, idle : Nat], sink'.pos <= Total,
           drv'.at = "one" => drv.at = "one" /\ sink.pos <= sink'.pos
    PROVE  HttpInv'
<1>1. /\ UNCHANGED <<disk, stable, ctrl, jobs, segs, wr, conn, split, trouble, site>>
  BY DEF splitVars
<1>2. split = "off" /\ File(disk') /\ File(stable')
  BY <1>1, DrvType DEF File
<1>3. drv'.at \in {"fresh", "one"} => ctrl' = NoCtrl
  BY <1>1, DrvType
<1>4. sink'.pos \in Nat
  OBVIOUS
<1>5. drv'.at = "one" => disk'.len <= sink'.pos
  BY <1>1, <1>4, DrvType
<1>6. ~drv'.torn => RestOK'
  BY <1>1 DEF HttpInv, DataInv, RestOK, HoleFree
<1> QED BY <1>1, <1>2, <1>3, <1>5, <1>6, IdleStep

(* Failures, retries, and chunks that stay in the buffer. *)
LEMMA SmallSteps ==
    ASSUME HttpInv,
           TryFails("io") \/ TryFails("net") \/ OneChunk \/ OneFails \/ Retry \/ Again
    PROVE  HttpInv'
<1>0. /\ drv \in DrvRec /\ sink \in [pos : Nat, idle : Nat] /\ sink.pos <= Total
      /\ sink.pos \in Nat /\ Total \in Nat
      /\ NoSink \in [pos : Nat, idle : Nat] /\ NoSink.pos <= Total
  BY DrvType
<1>1. ASSUME NEW e \in {"io", "net"}, TryFails(e) PROVE HttpInv'
  <2>1. drv' \in DrvRec /\ drv'.at = e /\ drv'.torn = drv.torn
    BY <1>0, <1>1 DEF TryFails, DrvRec
  <2> QED BY <1>0, <1>1, <2>1, DriverStep DEF TryFails
<1>2. CASE OneChunk
  <2>1. sink.pos + 1 \in Nat /\ sink.pos + 1 <= Total /\ sink.pos + 1 \in Int
    BY <1>0, <1>2 DEF OneChunk
  <2>2. drv' \in DrvRec /\ drv'.at = "one" /\ drv.at = "one" /\ drv'.torn = drv.torn
    BY <1>0, <1>2, <2>1 DEF OneChunk, DrvRec
  <2>3. sink' \in [pos : Nat, idle : Nat] /\ sink'.pos = sink.pos + 1
    BY <1>2, <2>1 DEF OneChunk
  <2>4. UNCHANGED <<splitVars, site>>
    BY <1>2 DEF OneChunk
  <2>5. sink.pos <= sink'.pos
    BY <1>0, <2>3
  <2> QED BY <2>1, <2>2, <2>3, <2>4, <2>5, DriverStep
<1>3. CASE OneFails
  <2>1. drv' \in DrvRec /\ drv'.at = "io" /\ drv.at = "one" /\ drv'.torn = drv.torn
    BY <1>0, <1>3 DEF OneFails, DrvRec
  <2> QED BY <1>0, <1>3, <2>1, DriverStep DEF OneFails
<1>4. CASE Retry
  <2>1. drv' \in DrvRec /\ drv'.at \in {"idle", "error"} /\ drv'.torn = drv.torn
        /\ drv.at # "split"
    <3>1. drv.try + 1 \in Nat
      BY <1>0 DEF DrvRec
    <3> QED BY <1>0, <1>4, <3>1 DEF Retry, DrvRec
  <2> QED BY <1>0, <1>4, <2>1, DriverStep DEF Retry
<1>5. CASE Again
  <2>1. drv' \in DrvRec /\ drv'.at = "idle" /\ drv'.torn = drv.torn /\ drv.at # "split"
    BY <1>0, <1>5 DEF Again, DrvRec
  <2> QED BY <1>0, <1>5, <2>1, DriverStep DEF Again
<1> QED BY <1>1, <1>2, <1>3, <1>4, <1>5

(* A file of full length without control file is whole. *)
LEMMA TryWholeStep == ASSUME HttpInv, TryWhole PROVE HttpInv'
<1>0. /\ drv \in DrvRec /\ sink \in [pos : Nat, idle : Nat] /\ sink.pos <= Total /\ Total \in Nat
  BY DrvType
<1>1. /\ drv.at = "idle" /\ ctrl = NoCtrl /\ disk.len = Total
      /\ UNCHANGED <<disk, stable, ctrl, jobs, segs, wr, conn, split, trouble, sink, site>>
  BY DEF TryWhole, splitVars
<1>2. drv' \in DrvRec /\ drv'.at = "done" /\ drv'.torn = drv.torn
  <2>1. Total \in Int
    BY <1>0
  <2> QED BY <1>0, <2>1 DEF TryWhole, DrvRec
<1>3. ~drv.torn => HoleFree(disk) /\ HoleFree(stable)
  BY <1>1, NoHoles
<1>4. ~drv.torn => RestOK' /\ HoleFree(disk')
  BY <1>1, <1>3 DEF RestOK, HoleFree
<1>5. File(disk') /\ File(stable') /\ split = "off"
  BY <1>1, DrvType DEF File
<1> QED BY <1>0, <1>1, <1>2, <1>4, <1>5, IdleStep

(* The single connection begins, at the end of a file without holes or     *)
(* anew.                                                                   *)
LEMMA TryOneStep == ASSUME HttpInv, TryOne PROVE HttpInv'
<1> DEFINE from == IF site = "unsized" /\ drv.at = "idle" THEN disk.len ELSE 0
           least == Least(stable.len, from)
<1>0. /\ drv \in DrvRec /\ Total \in Nat
      /\ File(disk) /\ File(stable) /\ disk.len \in Nat /\ stable.len \in Nat
  BY DrvType
<1>1. /\ drv.at \in {"idle", "fresh"} /\ (site # "ranges" \/ drv.at = "fresh")
      /\ sink' = [pos |-> from, idle |-> 0]
      /\ disk' = Resize(disk, from)
      /\ drv' = [drv EXCEPT !.at = "one", !.was = drv.done, !.done = from]
      /\ stable' = Resize(stable, least)
      /\ UNCHANGED <<ctrl, jobs, segs, wr, conn, split, trouble, site>>
  BY DEF TryOne
<1>2. ctrl = NoCtrl /\ split = "off"
  BY <1>1, DrvType
<1>3. disk.len <= Total /\ stable.len <= Total
  BY <1>0 DEF File
<1>4. from \in Nat /\ from \in Int /\ from <= disk.len /\ from <= Total
  BY <1>0, <1>3
<1> HIDE DEF from
<1>5. least \in Nat /\ least <= stable.len /\ least <= Total
  BY <1>0, <1>3, <1>4 DEF Least
<1> HIDE DEF least
<1>6. drv' \in DrvRec /\ drv'.at = "one" /\ drv'.torn = drv.torn
  BY <1>0, <1>1, <1>4 DEF DrvRec
<1>7. sink' \in [pos : Nat, idle : Nat] /\ sink'.pos = from
  BY <1>1, <1>4
<1>8. /\ File(disk') /\ disk'.len = from /\ (0..(from - 1) \subseteq disk.good => HoleFree(disk'))
      /\ File(stable') /\ (0..(least - 1) \subseteq stable.good => HoleFree(stable'))
  BY <1>0, <1>1, <1>4, <1>5, ResizedFile
<1>9. ~drv.torn => RestOK'
  <2> SUFFICES ASSUME ~drv.torn PROVE RestOK'
    OBVIOUS
  <2>1. disk.good = 0..(disk.len - 1) /\ stable.good = 0..(stable.len - 1)
    BY <1>2, NoHoles DEF HoleFree
  <2>2. 0..(from - 1) \subseteq disk.good /\ 0..(least - 1) \subseteq stable.good
    BY <1>0, <1>4, <1>5, <2>1
  <2> QED BY <1>1, <1>2, <1>8, <2>2, HoleFreeRest
<1> QED BY <1>1, <1>2, <1>4, <1>6, <1>7, <1>8, <1>9, IdleStep

(* The single connection writes its buffer. *)
LEMMA SpillStep ==
    ASSUME HttpInv, drv.at = "one", disk' = Spilled,
           UNCHANGED <<ctrl, jobs, segs, wr, conn, split, trouble, site>>,
           stable' = stable \/ stable' = disk',
           drv' \in DrvRec, drv'.at \notin {"split", "fresh"}, drv'.torn = drv.torn,
           drv'.at = "done" => sink.pos = Total,
           \/ sink' = sink
           \/ sink' = NoSink /\ drv'.at # "one"
    PROVE  HttpInv'
<1>1. /\ File(Spilled) /\ Spilled.len = sink.pos
      /\ ~drv.torn => HoleFree(Spilled) /\ HoleFree(stable)
  BY SpilledFile
<1>2. split = "off" /\ ctrl = NoCtrl /\ File(stable) /\ sink.pos \in Nat
  BY DrvType
<1>3. File(disk') /\ File(stable')
  BY <1>1, <1>2
<1>4. ~drv.torn => RestOK' /\ HoleFree(disk')
  BY <1>1, <1>2, HoleFreeRest
<1>5. sink' \in [pos : Nat, idle : Nat] /\ sink'.pos <= Total
  BY DrvType
<1>6. drv'.at = "one" => disk'.len <= sink'.pos
  BY <1>1, <1>2
<1>7. drv'.at = "done" => disk'.len = Total
  BY <1>1
<1> QED BY <1>2, <1>3, <1>4, <1>5, <1>6, <1>7, IdleStep

(* The steps of the single connection that write. *)
LEMMA OneSteps ==
    ASSUME HttpInv, OneSpill \/ OneStall \/ OneEnds
    PROVE  HttpInv'
<1>0. /\ drv \in DrvRec /\ sink \in [pos : Nat, idle : Nat] /\ sink.pos <= Total
      /\ sink.pos \in Nat /\ sink.idle \in Nat
  BY DrvType
<1>1. CASE OneSpill
  <2>1. drv.at = "one" /\ drv' = drv /\ sink' = sink /\ stable' = stable /\ disk' = Spilled
        /\ UNCHANGED <<ctrl, jobs, segs, wr, conn, split, trouble, site>>
    BY <1>1 DEF OneSpill
  <2> QED BY <1>0, <2>1, SpillStep
<1>2. CASE OneStall
  <2>1. drv.at = "one" /\ UNCHANGED <<stable, ctrl, jobs, segs, wr, conn, split, trouble, site>>
    BY <1>2 DEF OneStall
  <2>2. CASE sink.idle + 1 < MaxStall
    <3>1. sink' = [sink EXCEPT !.idle = sink.idle + 1] /\ UNCHANGED <<disk, drv>>
      BY <1>2, <2>2 DEF OneStall
    <3>2. sink.idle + 1 \in Nat
      BY <1>0
    <3>3. sink' \in [pos : Nat, idle : Nat] /\ sink'.pos = sink.pos
      BY <1>0, <3>1, <3>2
    <3>4. UNCHANGED <<splitVars, site>> /\ sink.pos <= sink'.pos /\ drv'.torn = drv.torn
      BY <1>0, <2>1, <3>1, <3>3 DEF splitVars
    <3> QED BY <1>0, <2>1, <3>1, <3>3, <3>4, DriverStep
  <2>3. CASE ~ (sink.idle + 1 < MaxStall)
    <3>1. disk' = Spilled /\ drv' = [drv EXCEPT !.at = "net"] /\ sink' = NoSink
      BY <1>2, <2>3 DEF OneStall
    <3>2. drv' \in DrvRec /\ drv'.at = "net" /\ drv'.torn = drv.torn
      BY <1>0, <3>1 DEF DrvRec
    <3> QED BY <2>1, <3>1, <3>2, SpillStep
  <2> QED BY <2>2, <2>3
<1>3. CASE OneEnds
  <2>1. /\ drv.at = "one" /\ sink.pos = Total /\ sink' = NoSink /\ disk' = Spilled /\ stable' = disk'
        /\ drv' = [drv EXCEPT !.at = "done"]
        /\ UNCHANGED <<ctrl, jobs, segs, wr, conn, split, trouble, site>>
    BY <1>3 DEF OneEnds
  <2>2. drv' \in DrvRec /\ drv'.at = "done" /\ drv'.torn = drv.torn
    BY <1>0, <2>1 DEF DrvRec
  <2> QED BY <2>1, <2>2, SpillStep
<1> QED BY <1>1, <1>2, <1>3

(* Pause. *)
LEMMA PauseStep == ASSUME HttpInv, Pause PROVE HttpInv'
<1>1. CASE drv.at = "split" /\ Stop(TRUE) /\ UNCHANGED <<drv, sink, site>>
  BY <1>1, StopStep
<1>2. CASE /\ drv.at = "one" /\ disk' = Spilled /\ drv' = [drv EXCEPT !.at = "paused"]
           /\ sink' = NoSink
           /\ UNCHANGED <<stable, ctrl, jobs, segs, wr, conn, split, trouble, site>>
  <2>1. drv' \in DrvRec /\ drv'.at = "paused" /\ drv'.torn = drv.torn
    BY <1>2, DrvType DEF DrvRec
  <2> QED BY <1>2, <2>1, SpillStep
<1> QED BY <1>1, <1>2 DEF Pause

(* A file with as many right bytes as its length has no holes. *)
LEMMA UnholedFile ==
    ASSUME NEW f, File(f), ~Holed(f)
    PROVE  HoleFree(f)
<1> DEFINE S == 0..(f.len - 1)
<1>1. f.len \in Nat /\ f.good \in SUBSET S
  BY DEF File
<1>2. IsFiniteSet(S) /\ Cardinality(S) = f.len
  <2>1. Cardinality(S) = IF 0 > f.len - 1 THEN 0 ELSE f.len - 1 - 0 + 1
    BY <1>1, FS_Interval
  <2>2. IsFiniteSet(S)
    BY <1>1, FS_Interval
  <2> HIDE DEF S
  <2> QED BY <1>1, <2>1, <2>2
<1> HIDE DEF S
<1>3. IsFiniteSet(f.good) /\ Cardinality(f.good) <= Cardinality(S)
      /\ (Cardinality(f.good) = Cardinality(S) => f.good = S)
  BY <1>1, <1>2, FS_Subset
<1>4. Cardinality(f.good) \in Nat
  BY <1>3, FS_CardinalityType
<1>5. Cardinality(f.good) = Cardinality(S)
  BY <1>1, <1>2, <1>3, <1>4 DEF Holed
<1> QED BY <1>3, <1>5 DEF HoleFree, S

(* No file has no holes. *)
LEMMA EmptyFile == File(NoFile) /\ HoleFree(NoFile) /\ NoFile.len = 0
BY SplitAssumption DEF File, HoleFree, NoFile

(* reset_task_path drops the control file; over a hole the file is torn. *)
LEMMA ResetStep == ASSUME HttpInv, ResetPath PROVE HttpInv'
<1> DEFINE h == ctrl # NoCtrl /\ (Holed(disk) \/ Holed(stable))
<1>0. /\ drv \in DrvRec /\ File(disk) /\ File(stable)
      /\ sink \in [pos : Nat, idle : Nat] /\ sink.pos <= Total
  BY DrvType
<1>1. /\ drv.at = "io" /\ split = "off" /\ ctrl' = NoCtrl
      /\ drv' = [drv EXCEPT !.at = "idle", !.reset = TRUE, !.torn = drv.torn \/ h]
      /\ \/ disk' = disk /\ stable' = stable
         \/ disk' = NoFile /\ stable' = NoFile
      /\ UNCHANGED <<jobs, segs, wr, conn, split, trouble, sink, site>>
  BY DEF ResetPath
<1>2. drv' \in DrvRec /\ drv'.at = "idle" /\ drv'.torn = (drv.torn \/ h)
  BY <1>0, <1>1 DEF DrvRec
<1>3. File(disk') /\ File(stable')
  BY <1>0, <1>1, EmptyFile
<1>4. ASSUME ~drv'.torn PROVE RestOK'
  <2>1. ~drv.torn /\ ~h
    BY <1>2, <1>4
  <2>2. HoleFree(disk) /\ HoleFree(stable)
    BY <1>0, <2>1, NoHoles, UnholedFile
  <2>3. HoleFree(disk') /\ HoleFree(stable')
    BY <1>1, <2>2, EmptyFile
  <2> QED BY <1>1, <2>3, HoleFreeRest
<1> QED BY <1>0, <1>1, <1>2, <1>3, <1>4, IdleStep

(* No writer, no worker. *)
LEMMA NothingRuns ==
    NoWriter \in WrRec /\ NoWriter.base = 0 /\ Nobody \in ConnRec /\ Nobody.pc = "off"
BY DEF NoWriter, WrRec, Nobody, ConnRec

(* download_split is over, by its end or with the process. *)
LEMMA ClearStep ==
    ASSUME HttpInv, Clear, split' = "off", jobs' = <<>>,
           UNCHANGED <<stable, ctrl, trouble, site>>, disk' = disk \/ disk' = stable,
           drv' \in DrvRec, drv'.torn = drv.torn, drv'.at \notin {"split", "one"},
           drv'.at = "fresh" => ctrl = NoCtrl,
           drv'.at = "done" => split = "ok" /\ disk' = disk,
           sink' \in [pos : Nat, idle : Nat], sink'.pos <= Total
    PROVE  HttpInv'
<1>0. Types /\ ModeInv /\ DataInv
  BY DEF HttpInv
<1>1. segs' = <<>> /\ wr' = NoWriter /\ conn' = [c \in Conn |-> Nobody]
  BY DEF Clear
<1>2. /\ wr' \in WrRec /\ wr'.base <= Total /\ conn' \in [Conn -> ConnRec]
      /\ \A c \in Conn : conn'[c].pc = "off"
  BY <1>1, NothingRuns, SplitAssumption
<1>3. File(disk') /\ File(stable')
  BY <1>0 DEF Types
<1>4. Types'
  <2>1. jobs' \in Seq(JobRec) /\ DOMAIN jobs' = {}
    OBVIOUS
  <2> QED BY <1>0, <1>2, <1>3, <2>1 DEF Types
<1>5. TableInv' /\ PlaceInv' /\ HoldInv' /\ CountInv'
  BY <1>2 DEF TableInv, PlaceInv, HoldInv, CountInv, Running
<1>6. ModeInv'
  BY <1>0 DEF ModeInv, Running, Ending
<1>7. DataInv'
  <2> SUFFICES ASSUME ~drv.torn PROVE DataInv'
    BY DEF DataInv
  <2>1. RestOK
    BY <1>0 DEF DataInv
  <2>2. RestOK'
    <3>1. CASE disk' = disk
      BY <2>1, <3>1 DEF RestOK, HoleFree
    <3>2. CASE disk' = stable
      BY <2>1, <3>2 DEF RestOK, HoleFree
    <3> QED BY <3>1, <3>2
  <2>3. drv'.at = "done" => disk'.len = Total /\ HoleFree(disk')
    BY <1>0 DEF DataInv, HoleFree
  <2> QED BY <2>2, <2>3 DEF DataInv, Running
<1> QED BY <1>4, <1>5, <1>6, <1>7 DEF HttpInv

(* download_split returns. *)
LEMMA SplitEndsStep == ASSUME HttpInv, SplitEnds PROVE HttpInv'
<1> DEFINE at == CASE split = "ok" -> "done" [] split = "nosplit" -> "fresh" [] OTHER -> split
<1>0. /\ drv \in DrvRec /\ sink \in [pos : Nat, idle : Nat] /\ sink.pos <= Total /\ Total \in Nat
  BY DrvType
<1>1. /\ split \in {"ok", "nosplit", "paused", "io", "net"} /\ split' = "off" /\ Clear
      /\ drv' = [drv EXCEPT !.at = at, !.done = Total - wr.todo]
      /\ UNCHANGED <<disk, stable, ctrl, jobs, trouble, sink, site>>
  BY DEF SplitEnds
<1>2. /\ at \in {"done", "fresh", "paused", "io", "net"}
      /\ at = "done" => split = "ok"
      /\ at = "fresh" => split = "nosplit"
  BY <1>1
<1> HIDE DEF at
<1>3. Total - wr.todo \in Int
  BY <1>0 DEF HttpInv, Types, WrRec
<1>4. drv' \in DrvRec /\ drv'.at = at /\ drv'.torn = drv.torn
  BY <1>0, <1>1, <1>2, <1>3 DEF DrvRec
<1>5. jobs' = <<>> /\ (at = "fresh" => ctrl = NoCtrl)
  BY <1>1, <1>2 DEF HttpInv, ModeInv, Running
<1> QED BY <1>0, <1>1, <1>2, <1>4, <1>5, ClearStep

(* The process dies, with or without the data that was not synced. *)
LEMMA DieStep == ASSUME HttpInv, NEW x \in BOOLEAN, Die(x) PROVE HttpInv'
<1>1. /\ split' = "off" /\ jobs' = <<>> /\ Clear /\ (disk' = disk \/ disk' = stable)
      /\ drv' = [drv EXCEPT !.at = "paused"] /\ sink' = NoSink
      /\ UNCHANGED <<stable, ctrl, trouble, site>>
  BY DEF Die
<1>2. drv' \in DrvRec /\ drv'.at = "paused" /\ drv'.torn = drv.torn
  BY <1>1, DrvType DEF DrvRec
<1>3. sink' \in [pos : Nat, idle : Nat] /\ sink'.pos <= Total
  BY <1>1, DrvType
<1> QED BY <1>1, <1>2, <1>3, ClearStep

(* What a start believes is on disk: a control file that claims less than  *)
(* the disk has, or the file as a prefix when it has no holes.             *)
LEMMA BelievedDisk ==
    ASSUME HttpInv, ~drv.torn
    PROVE  /\ Usable(ctrl) => Claims(ctrl, disk.good)
           /\ ~Usable(ctrl) => HoleFree(disk)
<1>0. RestOK /\ Types
  BY DEF HttpInv, DataInv
<1>1. File(disk) /\ disk.len \in Nat /\ Total \in Nat
  BY DrvType
<1>2. CASE ctrl # NoCtrl /\ Claims(ctrl, stable.good) /\ stable.good \subseteq disk.good
  <2>1. Claims(ctrl, disk.good) /\ Ctrl(ctrl)
    BY <1>0, <1>2, ClaimsMonotone DEF Types
  <2>2. ASSUME ~Usable(ctrl) PROVE HoleFree(disk)
    <3>1. ctrl.segs = {}
      BY <1>1, <1>2, <2>1, <2>2, ClaimsUsable DEF File
    <3>2. ctrl.base \in Nat /\ ctrl.base <= Total
      BY <2>1 DEF Ctrl
    <3>3. ctrl.base = Total
      <4> SUFFICES ASSUME ctrl.base < Total PROVE FALSE
        BY <1>1, <3>2
      <4>1. ctrl.base \in ctrl.base..(Total - 1)
        BY <1>1, <3>2
      <4> QED BY <2>1, <3>1, <4>1 DEF Ctrl
    <3>4. 0..(Total - 1) \subseteq disk.good
      BY <2>1, <3>3 DEF Claims
    <3>5. disk.good \subseteq 0..(disk.len - 1) /\ disk.len <= Total
      BY <1>1 DEF File
    <3>6. 0..(disk.len - 1) \subseteq 0..(Total - 1)
      BY <1>1, <3>5
    <3> QED BY <3>4, <3>5, <3>6 DEF HoleFree
  <2> QED BY <2>1, <2>2
<1>3. CASE /\ HoleFree(disk) /\ HoleFree(stable)
           /\ ctrl # NoCtrl => disk = stable /\ ctrl.base <= disk.len
  <2>1. ASSUME Usable(ctrl) PROVE Claims(ctrl, disk.good)
    <3>1. ctrl # NoCtrl /\ \A s \in ctrl.segs : s.w = 0 \/ s.s + s.w <= disk.len
      BY <2>1 DEF Usable
    <3>2. Ctrl(ctrl) /\ ctrl.base <= disk.len
      BY <1>0, <1>3, <3>1 DEF Types
    <3>3. ctrl.base \in Nat /\ \A s \in ctrl.segs : s.s \in Nat /\ s.w \in Nat
      BY <3>2 DEF Ctrl, CtrlSeg
    <3>4. disk.good = 0..(disk.len - 1)
      BY <1>3 DEF HoleFree
    <3>5. 0..(ctrl.base - 1) \subseteq disk.good
      BY <1>1, <3>2, <3>3, <3>4
    <3>6. \A s \in ctrl.segs : s.s..(s.s + s.w - 1) \subseteq disk.good
      BY <1>1, <3>1, <3>3, <3>4
    <3> QED BY <3>5, <3>6 DEF Claims
  <2> QED BY <1>3, <2>1
<1> QED BY <1>0, <1>2, <1>3 DEF RestOK

(* bootstrap: the first table of a start. *)
LEMMA BootstrapStep == ASSUME HttpInv, TrySplit PROVE HttpInv'
<1> DEFINE ok == Usable(ctrl)
           base == IF ok THEN ctrl.base ELSE Least(disk.len, Total)
           t == IF ok THEN Restored(ctrl) ELSE Cut(base)
           todo == Cardinality(Missing(t))
           n == Least(Cardinality(Conn), Most(Len(t), 1))
           f == IF ok \/ disk.len <= Total THEN disk
                ELSE [len |-> Total, good |-> disk.good]
           fin == todo = 0
<1>0. /\ Types /\ ModeInv
  BY DEF HttpInv
<1>1. /\ drv.at = "idle" /\ site = "ranges" /\ split = "off"
      /\ drv' = [drv EXCEPT !.at = "split", !.was = drv.done]
      /\ disk' = f /\ stable' = f /\ segs' = t /\ ctrl' = Snapshot(base, t)
      /\ wr' = [base |-> base, todo |-> todo, alive |-> n, want |-> n,
                fatal |-> "none", fin |-> fin]
      /\ \E on \in SUBSET Conn :
           /\ Cardinality(on) = n
           /\ conn' = [c \in Conn |->
                        [Nobody EXCEPT !.pc = IF c \in on THEN "ask" ELSE "off"]]
      /\ split' = "run"
      /\ UNCHANGED <<jobs, trouble, sink, site>>
  BY DEF TrySplit, Bootstrap
<1>2. /\ File(disk) /\ disk.len \in Nat /\ Total \in Nat /\ disk.len <= Total
      /\ drv \in DrvRec /\ jobs = <<>>
  <2>1. jobs = <<>>
    BY <1>0, <1>1 DEF ModeInv, Running
  <2> QED BY <2>1, DrvType DEF File
<1>3. disk' = disk /\ stable' = disk
  BY <1>1, <1>2
<1>4. ok => ctrl # NoCtrl /\ Ctrl(ctrl)
  BY <1>0 DEF Usable, Types
<1>5. base \in Nat /\ base <= Total
  BY <1>2, <1>4 DEF Least, Ctrl
<1>6. /\ Table(t, base)
      /\ \A i \in DOMAIN t : t[i].holders = 0 /\ t[i].queued = ~t[i].done
  <2>1. CASE ok
    BY <1>4, <2>1, RestoredTable
  <2>2. CASE ~ok
    <3>1. t = Cut(base)
      BY <2>2
    <3> HIDE DEF t, base
    <3> QED BY <1>5, <3>1, CutTable
  <2> QED BY <2>1, <2>2
<1>7. ~drv.torn => 0..(base - 1) \subseteq disk.good /\ Written(t, disk.good)
  <2> SUFFICES ASSUME ~drv.torn
               PROVE  0..(base - 1) \subseteq disk.good /\ Written(t, disk.good)
    OBVIOUS
  <2>1. CASE ok
    <3>1. Claims(ctrl, disk.good) /\ base = ctrl.base /\ t = Restored(ctrl)
      BY <2>1, BelievedDisk
    <3>2. \A i \in DOMAIN Restored(ctrl) : \E x \in ctrl.segs :
             Restored(ctrl)[i].s = x.s /\ Restored(ctrl)[i].w = x.w
      BY <1>4, <2>1, RestoredTable
    <3>3. Written(Restored(ctrl), disk.good)
      BY <3>1, <3>2 DEF Written, Claims
    <3> QED BY <3>1, <3>3 DEF Claims
  <2>2. CASE ~ok
    <3>1. base = disk.len /\ t = Cut(base)
      BY <1>2, <2>2 DEF Least
    <3>2. disk.good = 0..(disk.len - 1)
      BY <2>2, BelievedDisk DEF HoleFree
    <3> HIDE DEF t, base
    <3>3. \A i \in DOMAIN t : t[i].w = 0 /\ t[i] \in SegRec
      <4>1. \A i \in DOMAIN t : t[i].w = 0
        BY <1>5, <3>1, CutTable
      <4>2. \A i \in DOMAIN t : t[i] \in SegRec
        BY <1>6 DEF Table
      <4> QED BY <4>1, <4>2
    <3>4. Written(t, disk.good)
      <4> SUFFICES ASSUME NEW i \in DOMAIN t, NEW q \in t[i].s..(t[i].s + t[i].w - 1) PROVE FALSE
        BY DEF Written
      <4>1. t[i].w = 0 /\ t[i].s \in Nat
        BY <3>3 DEF SegRec
      <4> QED BY <4>1
    <3> QED BY <3>1, <3>2, <3>4
  <2> QED BY <2>1, <2>2
<1> HIDE DEF ok, base, t
<1>8. todo \in Nat /\ Len(t) \in Nat /\ DOMAIN t \subseteq Nat \ {0}
  BY <1>6, MissingFinite, TableDomain
<1>9. n \in Nat /\ n \in Int /\ n >= 1
  BY <1>8, ConnCount DEF Least, Most
<1> HIDE DEF n, todo
<1>10. /\ wr' \in WrRec /\ wr'.base = base /\ wr'.todo = todo /\ wr'.alive = n
       /\ wr'.fatal = "none" /\ (wr'.fin <=> todo = 0)
  <2>1. fin \in BOOLEAN
    BY <1>8
  <2>2. wr'.fin = fin /\ wr'.base = base /\ wr'.todo = todo /\ wr'.alive = n
        /\ wr'.fatal = "none"
    BY <1>1
  <2> HIDE DEF fin
  <2>3. wr' \in WrRec
    BY <1>1, <1>5, <1>8, <1>9, <2>1 DEF WrRec
  <2>4. wr'.fin <=> todo = 0
    BY <2>2, Zenon DEF fin
  <2> QED BY <2>2, <2>3, <2>4
<1>11. PICK on \in SUBSET Conn :
           /\ Cardinality(on) = n
           /\ conn' = [c \in Conn |->
                        [Nobody EXCEPT !.pc = IF c \in on THEN "ask" ELSE "off"]]
  BY <1>1
<1>12. /\ conn' \in [Conn -> ConnRec]
       /\ \A c \in Conn : /\ conn'[c].pc = IF c \in on THEN "ask" ELSE "off"
                          /\ conn'[c].give = 0
  <2>1. ASSUME NEW c \in Conn
        PROVE  /\ conn'[c] \in ConnRec /\ conn'[c].give = 0
               /\ conn'[c].pc = IF c \in on THEN "ask" ELSE "off"
    <3> DEFINE pc == IF c \in on THEN "ask" ELSE "off"
    <3>1. conn'[c] = [Nobody EXCEPT !.pc = pc]
      BY <1>11
    <3>2. pc \in {"ask", "off"}
      OBVIOUS
    <3> HIDE DEF pc
    <3>3. conn'[c] \in ConnRec /\ conn'[c].give = 0 /\ conn'[c].pc = pc
      BY <3>1, <3>2 DEF Nobody, ConnRec
    <3> QED BY <3>3 DEF pc
  <2> QED BY <1>11, <2>1
<1>13. /\ Ctrl(ctrl') /\ ctrl'.base = base /\ ctrl' # NoCtrl
       /\ \A G : 0..(base - 1) \subseteq G /\ Written(t, G) => Claims(ctrl', G)
  BY <1>1, <1>5, <1>6, SnapshotCtrl
<1>14. drv' \in DrvRec /\ drv'.at = "split" /\ drv'.torn = drv.torn
  BY <1>1, <1>2 DEF DrvRec
<1>15. Types'
  <2>1. jobs' = jobs /\ split' = "run" /\ sink' = sink
    BY <1>1
  <2> QED BY <1>0, <1>3, <1>5, <1>10, <1>12, <1>13, <1>14, <2>1 DEF Types, File, Running
<1>16. TableInv'
  BY <1>1, <1>6, <1>10 DEF TableInv, todo
<1>17. PlaceInv'
  BY <1>1, <1>12 DEF PlaceInv, Running
<1>18. HoldInv'
  <2>1. \A i \in DOMAIN t : Hold'[i] = {}
    BY <1>8, <1>12 DEF Hold, Holders
  <2>2. Keeps(segs', Hold')
    BY <1>1, <1>6, <2>1 DEF Keeps
  <2> QED BY <2>2 DEF HoldInv
<1>19. CountInv'
  <2>1. Busy' = on
    BY <1>12 DEF Busy
  <2> QED BY <1>9, <1>10, <1>11, <2>1 DEF CountInv
<1>20. ModeInv'
  BY <1>1, <1>2, <1>10, <1>13, <1>14 DEF ModeInv, Running, Ending
<1>21. DataInv'
  <2> SUFFICES ASSUME ~drv.torn PROVE DataInv'
    BY <1>14 DEF DataInv
  <2>1. Claims(ctrl', disk.good) /\ Written(segs', disk.good)
    BY <1>1, <1>7, <1>13
  <2>2. RestOK'
    BY <1>3, <1>13, <2>1 DEF RestOK
  <2> QED BY <1>1, <1>2, <1>3, <1>14, <2>1, <2>2 DEF DataInv
<1> QED BY <1>15, <1>16, <1>17, <1>18, <1>19, <1>20, <1>21 DEF HttpInv

----------------------------------------------------------------------------
(* The theorems. *)

(* Initially. *)
LEMMA InitInv == ASSUME HttpInit PROVE HttpInv
<1>1. /\ disk = NoFile /\ stable = NoFile /\ ctrl = NoCtrl /\ jobs = <<>> /\ segs = <<>>
      /\ wr = NoWriter /\ conn = [c \in Conn |-> Nobody] /\ split = "off" /\ sink = NoSink
      /\ drv = [at |-> "idle", try |-> 1, reset |-> FALSE, done |-> 0, was |-> 0,
                torn |-> FALSE]
  BY DEF HttpInit
<1>2. File(disk) /\ File(stable) /\ HoleFree(disk) /\ HoleFree(stable)
  BY <1>1, EmptyFile
<1>3. Types
  <2>1. drv \in DrvRec /\ drv.at = "idle"
    BY <1>1 DEF DrvRec
  <2>2. sink \in [pos : Nat, idle : Nat] /\ sink.pos <= Total
    BY <1>1, SplitAssumption DEF NoSink
  <2>3. wr \in WrRec /\ wr.base <= Total /\ conn \in [Conn -> ConnRec]
    BY <1>1, NothingRuns, SplitAssumption
  <2>4. jobs \in Seq(JobRec) /\ DOMAIN jobs = {}
    BY <1>1
  <2> QED BY <1>1, <1>2, <2>1, <2>2, <2>3, <2>4 DEF Types
<1>4. TableInv /\ PlaceInv /\ HoldInv /\ CountInv
  BY <1>1, NothingRuns DEF TableInv, PlaceInv, HoldInv, CountInv, Running
<1>5. drv.at = "idle"
  BY <1>1
<1>6. ModeInv
  BY <1>1, <1>5 DEF ModeInv, Running, Ending
<1>7. DataInv
  BY <1>1, <1>2, <1>5 DEF DataInv, RestOK, Running
<1> QED BY <1>3, <1>4, <1>6, <1>7 DEF HttpInv

(* Stuttering. *)
LEMMA StutterInv == ASSUME HttpInv, UNCHANGED httpVars PROVE HttpInv'
<1>1. UNCHANGED <<disk, stable, ctrl, jobs, segs, wr, conn, split, trouble, drv, sink, site>>
  BY DEF httpVars
<1>2. Types'
  BY <1>1 DEF HttpInv, Types, Running, Ending, Ended
<1>3. TableInv' /\ PlaceInv'
  BY <1>1 DEF HttpInv, TableInv, PlaceInv, Running
<1>4. HoldInv' /\ CountInv'
  BY <1>1 DEF HttpInv, HoldInv, Hold, Holders, CountInv, Busy, Over
<1>5. ModeInv'
  BY <1>1 DEF HttpInv, ModeInv, Running, Ending, Over
<1>6. DataInv'
  BY <1>1 DEF HttpInv, DataInv, RestOK, HoleFree, Running
<1> QED BY <1>2, <1>3, <1>4, <1>5, <1>6 DEF HttpInv

(* Every step keeps the invariant. *)
LEMMA NextInv == ASSUME HttpInv, [HttpNext]_httpVars PROVE HttpInv'
<1>1. CASE SplitNext /\ UNCHANGED <<drv, sink, site>>
  BY <1>1, SplitStep
<1>2. CASE DriveStep
  BY <1>2, TryWholeStep, BootstrapStep, TryOneStep, SmallSteps, SplitEndsStep, OneSteps,
     ResetStep DEF DriveStep
<1>3. CASE Pause \/ Again
  BY <1>3, PauseStep, SmallSteps
<1>4. CASE Die(TRUE)
  BY <1>4, DieStep
<1>5. CASE Die(FALSE)
  BY <1>5, DieStep
<1> QED BY <1>1, <1>2, <1>3, <1>4, <1>5, StutterInv DEF HttpNext

(* The invariant implies the properties. *)
LEMMA InvRanges == ASSUME HttpInv PROVE NoRangeLost
<1> SUFFICES ASSUME split = "run" PROVE NoRangeLost
  BY DEF NoRangeLost
<1>0. Types /\ TableInv /\ HoldInv /\ CountInv
  BY DEF HttpInv
<1>1. Table(segs, wr.base) /\ wr.todo = Cardinality(Missing(segs)) /\ wr.base \in Nat
      /\ Total \in Nat
  BY <1>0, SplitAssumption DEF TableInv, Types, WrRec
<1>2. ASSUME NEW p \in wr.base..(Total - 1)
      PROVE  Cardinality({i \in Ids : segs[i].s <= p /\ p < segs[i].e}) = 1
  <2>0. p \in Nat
    BY <1>1
  <2>1. PICK i \in DOMAIN segs : Covers(segs[i], p)
    BY <1>1 DEF Table
  <2>2. \A j \in DOMAIN segs : Covers(segs[j], p) => j = i
    BY <1>1, <2>0, <2>1 DEF Table
  <2>3. {j \in Ids : segs[j].s <= p /\ p < segs[j].e} = {i}
    BY <2>1, <2>2 DEF Ids, Covers
  <2> QED BY <2>3, FS_Singleton
<1>3. ASSUME wr.fatal = "none", NEW i \in Ids
      PROVE  /\ segs[i].holders = Cardinality(Holders(i)) /\ segs[i].holders <= 1
             /\ Left(segs[i]) > 0 => segs[i].queued \/ Holders(i) # {}
             /\ segs[i].done <=> Left(segs[i]) = 0 /\ segs[i].e >= segs[i].s
  <2>1. i \in DOMAIN segs /\ i \in Nat /\ segs[i] \in SegRec /\ Fits(segs[i], wr.base)
    BY <1>1, TableDomain DEF Ids, Table
  <2>2. Keeps(segs, Hold) /\ Hold[i] = Holders(i)
    BY <1>0, <1>3, <2>1 DEF HoldInv, Hold
  <2>3. /\ segs[i].holders = 0 => Holders(i) = {}
        /\ segs[i].holders # 0 => segs[i].holders = 1 /\ \E c \in Conn : Holders(i) = {c}
        /\ segs[i].done \/ segs[i].queued \/ segs[i].holders = 1
    BY <2>1, <2>2 DEF Keeps
  <2>4. segs[i].holders = Cardinality(Holders(i)) /\ segs[i].holders <= 1
    <3>1. CASE segs[i].holders = 0
      BY <2>3, <3>1, FS_EmptySet
    <3>2. CASE segs[i].holders # 0
      BY <2>3, <3>2, FS_Singleton
    <3> QED BY <3>1, <3>2
  <2>5. segs[i].done <=> Left(segs[i]) = 0
    BY <2>1 DEF Fits, SegRec, Left
  <2>6. segs[i].e >= segs[i].s
    BY <2>1 DEF Fits, SegRec
  <2>7. Left(segs[i]) > 0 => ~segs[i].done
    BY <2>1, <2>5 DEF SegRec, Left
  <2> QED BY <2>3, <2>4, <2>5, <2>6, <2>7
<1>4. ASSUME ~Over PROVE \E c \in Conn : conn[c].pc # "off"
  <2>1. Cardinality(Busy) >= 1
    BY <1>0, <1>4 DEF CountInv
  <2>2. Busy # {}
    BY <2>1, FS_EmptySet
  <2> QED BY <2>2 DEF Busy
<1> QED BY <1>1, <1>2, <1>3, <1>4 DEF NoRangeLost

LEMMA InvDisk == ASSUME HttpInv PROVE DiskTrue
<1>0. DataInv /\ Types
  BY DEF HttpInv
<1>1. ASSUME Usable(ctrl), ~drv.torn PROVE Claims(ctrl, stable.good)
  <2>1. Claims(ctrl, disk.good)
    BY <1>1, BelievedDisk
  <2>2. ctrl # NoCtrl
    BY <1>1 DEF Usable
  <2> QED BY <1>0, <1>1, <2>1, <2>2 DEF DataInv, RestOK
<1>2. ClaimsSynced
  BY <1>1 DEF ClaimsSynced, Claims
<1>3. Whole
  BY <1>0 DEF Whole, DataInv, HoleFree, Pos
<1> QED BY <1>2, <1>3 DEF DiskTrue

(* No range of a download is lost, whatever is handed off, stolen, shrunk  *)
(* or given back, and in whatever order (next_work, handoff, try_steal,    *)
(* shrink_seg, on_write): the segments tile the file, each unfinished one  *)
(* is queued or held by one worker, and todo counts what is missing.       *)
THEOREM RangesKept == HttpSpec => []NoRangeLost
<1>1. HttpSpec => []HttpInv
  BY InitInv, NextInv, PTL DEF HttpSpec
<1>2. HttpInv => NoRangeLost
  BY InvRanges
<1> QED BY <1>1, <1>2, PTL

(* What a download has on disk is true after any crash, power failure,     *)
(* pause, retry and fallback: the control file claims only synced bytes    *)
(* (save_ctrl, CtrlSyncer), and a finished file has every byte (bootstrap, *)
(* finish, try_uri), unless a reset has torn it.                           *)
THEOREM DiskKept == HttpSpec => []DiskTrue
<1>1. HttpSpec => []HttpInv
  BY InitInv, NextInv, PTL DEF HttpSpec
<1>2. HttpInv => DiskTrue
  BY InvDisk
<1> QED BY <1>1, <1>2, PTL
=============================================================================
