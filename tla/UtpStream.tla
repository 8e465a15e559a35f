------------------------------ MODULE UtpStream ------------------------------
(***************************************************************************)
(* One uTP connection (xfer-transport): the initiator "a" and the          *)
(* responder "b", each a UtpConnection driven by its UtpManager, over UDP, *)
(* which loses, repeats and reorders datagrams.  Data is a number: the     *)
(* k-th segment an end writes carries k and, on the wire, the sequence     *)
(* number SeqNr(e, k), which wraps at Width (65536 in the code).           *)
(* Windows are counted in segments; delay samples, RTT estimation and      *)
(* packet sizes decide only when a timer fires, so that Timeout may happen *)
(* whenever the code arms it.                                              *)
(***************************************************************************)
EXTENDS Integers, Sequences, FiniteSets, FiniteSetsExt

CONSTANTS
    Width,      \* sequence numbers, u16 in the code
    Starts,     \* first sequence numbers of the responder, random in the code
    Writes,     \* segments each end writes
    Flight,     \* largest congestion window
    Reorder,    \* REORDER_WINDOW
    RecvRoom,   \* RECV_WINDOW
    MaxSyn,     \* SYN attempts, 4 in the code
    MaxRto,     \* consecutive timeouts, 5 in the code
    InTransit,  \* datagrams the network holds, the others are lost
    Lossy,      \* whether the network loses and repeats datagrams
    Slow,       \* whether an application may leave its channel full
    Closing     \* the ends that may close

UtpAssumption ==
    /\ Width \in Nat \ {0} /\ Width % 2 = 0
    /\ Starts \subseteq 0 .. Width - 1

VARIABLES ep, first, net
utpVars == <<ep, first, net>>

End == {"a", "b"}
OtherEnd(e) == IF e = "a" THEN "b" ELSE "a"

SeqNr(e, k) == ((IF e = "a" THEN 2 ELSE first) + k - 1) % Width
Succ(s) == (s + 1) % Width
SeqLeq(s, t) == (s - t) % Width = 0 \/ (s - t) % Width >= Width \div 2

Fresh(st, ack) ==
    [st |-> st, sent |-> 0, acked |-> 0, pend |-> 0, written |-> 0, fin |-> "no", finAt |-> 0,
     win |-> Flight, open |-> TRUE, rtos |-> 0, last |-> 0, fixed |-> -1,
     ack |-> ack, early |-> <<>>, got |-> <<>>, unread |-> 0, eof |-> FALSE, err |-> FALSE]

Packet(e, type, x, nr, k) ==
    [to |-> OtherEnd(e), type |-> type, seq |-> nr, ack |-> x.ack, val |-> k,
     open |-> type # "SYN" /\ x.unread + Cardinality(DOMAIN x.early) < RecvRoom]
Control(e, type, x) ==
    Packet(e, type, x, CASE type = "SYN"   -> 1
                         [] type = "FIN"   -> SeqNr(e, x.finAt)
                         [] type = "STATE" -> SeqNr(e, x.sent + 1), 0)
Data(e, x, k) == Packet(e, "DATA", x, SeqNr(e, k), k)

Ack(e, x) == {Control(e, "STATE", x)}

UtpInit ==
    /\ first \in Starts
    /\ ep = [e \in End |-> Fresh(IF e = "a" THEN "SynSent" ELSE "none", 0)]
    /\ net = {Control("a", "SYN", Fresh("SynSent", 0))}

Sends(e, x, old, out) ==
    /\ ep' = [ep EXCEPT ![e] = x]
    /\ net' = IF Cardinality(old \cup out) <= InTransit THEN old \cup out
              ELSE CHOOSE n \in SUBSET (old \cup out) :
                       old \subseteq n /\ Cardinality(n) = InTransit
    /\ UNCHANGED first
-----------------------------------------------------------------------------
(* Reception *)

EofReceived(x) == x.eof /\ x.unread = 0 /\ DOMAIN x.early = {}

\* How many buffered segments follow the last one in order: the loop looks at
\* the numerically smallest key only
Follow(x) ==
    LET early == DOMAIN x.early
        next == Succ(x.ack)
    IN IF early = {} \/ next # Min(early) THEN 0
       ELSE Max({n \in 1 .. Cardinality(early) : next .. next + n - 1 \subseteq early})

Drained(x) ==
    LET n == Follow(x)
        keys == {(x.ack + i) % Width : i \in 1 .. n}
    IN [x EXCEPT !.got = @ \o [i \in 1 .. n |-> x.early[(x.ack + i) % Width]],
                 !.unread = IF Slow THEN @ + n + 1 ELSE 0,
                 !.ack = (@ + n) % Width,
                 !.early = [s \in DOMAIN x.early \ keys |-> x.early[s]]]

OnData(x, p) ==
    IF SeqLeq(p.seq, x.ack) THEN x
    ELSE IF p.seq = Succ(x.ack)
         THEN Drained([x EXCEPT !.got = Append(@, p.val), !.ack = p.seq])
    ELSE IF Cardinality(DOMAIN x.early) < Reorder
         THEN [x EXCEPT !.early = [s \in DOMAIN @ \cup {p.seq} |->
                                       IF s = p.seq THEN p.val ELSE @[s]]]
    ELSE x

OnFin(x, p) ==
    IF p.seq = Succ(x.ack) /\ ~x.eof THEN [x EXCEPT !.ack = p.seq, !.eof = TRUE] ELSE x

\* on_ack: what is acknowledged leaves the queue, the window opens
Popped(e, x, n) ==
    LET gone == {k \in x.acked .. x.sent : \A i \in x.acked + 1 .. k : SeqLeq(SeqNr(e, i), n)}
        fin == IF x.fin = "sent" /\ SeqLeq(SeqNr(e, x.finAt), n) THEN "acked" ELSE x.fin
    IN [x EXCEPT !.acked = Max(gone),
                 !.win = IF Max(gone) > x.acked /\ @ < Flight THEN @ + 1 ELSE @,
                 !.fin = fin,
                 !.last = n]

\* finish_close_if_idle
Idle(x) == IF x.fin = "acked" /\ EofReceived(x) THEN [x EXCEPT !.st = "Closed"] ELSE x

\* A repeated acknowledgement or three later segments acknowledged selectively
\* send the oldest segment again, once
FastAgain(e, x, y, n) ==
    /\ n = x.last
    /\ y.acked < y.sent
    /\ SeqNr(e, y.acked + 1) = Succ(n)
    /\ y.fixed # Succ(n)

OnAck(e, x, n, old, reply) ==
    LET y == Popped(e, x, n)
        again == {Data(e, y, y.acked + 1)}
        ack == IF reply THEN Ack(e, y) ELSE {}
    IN \/ Sends(e, Idle(y), old, ack)
       \/ /\ FastAgain(e, x, y, n)
          /\ Sends(e, Idle([y EXCEPT !.fixed = Succ(n), !.win = Max({1, @ \div 2})]),
                   old, again \cup ack)

Live(e) == ep[e].st \notin {"none", "Closed"}

HandleSyn(p, old) ==
    LET new == Fresh("SynRecv", 1) IN
    CASE ep["b"].st = "none" -> Sends("b", new, old, Ack("b", new))
      [] ep["b"].st \in {"SynRecv", "Connected"} ->
             Sends("b", [ep["b"] EXCEPT !.rtos = 0, !.open = FALSE], old, Ack("b", ep["b"]))
      [] OTHER -> Sends("b", ep["b"], old, {})

\* The handshake ends; a STATE carries the number the responder will use next
Joins(x, p, ack) ==
    IF x.st = "SynSent" THEN [x EXCEPT !.st = "Connected", !.ack = ack]
    ELSE IF x.st = "SynRecv" /\ p.type # "STATE" THEN [x EXCEPT !.st = "Connected"]
    ELSE x
JoinedAtNext(x, p) == Joins(x, p, p.seq)
Joined(x, p) == Joins(x, p, IF p.type = "STATE" THEN (p.seq - 1) % Width ELSE p.seq)

\* handle_packet after the header was read
Handle(p, old) ==
    LET e == p.to
        x == [ep[e] EXCEPT !.rtos = 0, !.open = p.open]
        joined == Joined(x, p)
    IN CASE p.type = "SYN"   -> HandleSyn(p, old)
         [] ~Live(e)         -> Sends(e, ep[e], old, {})
         [] p.type = "STATE" -> OnAck(e, joined, p.ack, old, FALSE)
         [] p.type = "DATA"  -> OnAck(e, OnData(joined, p), p.ack, old, TRUE)
         [] p.type = "FIN"   -> OnAck(e, OnFin(joined, p), p.ack, old, TRUE)

Deliver(p) == Handle(p, net \ {p})
Repeat(p) == Lossy /\ Handle(p, net)
Lose(p) == Lossy /\ net' = net \ {p} /\ UNCHANGED <<ep, first>>
-----------------------------------------------------------------------------
(* Timers and the application *)

\* process_tick past its timers: the end of the stream goes out first, then
\* what the windows let through
CanSend(x) == IF x.st \in {"Connected", "FinSent"} /\ x.open
              THEN Max({0, Min({x.pend, x.win - (x.sent - x.acked)})}) ELSE 0

Tick(e, x) ==
    LET ends == x.fin = "pending"
        y == IF ends THEN [x EXCEPT !.fin = "sent", !.finAt = x.sent + 1, !.st = "FinSent"] ELSE x
        n == CanSend(y)
        out == {Data(e, y, k) : k \in x.sent + 1 .. x.sent + n}
               \cup (IF ends THEN {Control(e, "FIN", y)} ELSE {})
    IN Sends(e, [y EXCEPT !.sent = @ + n, !.pend = @ - n], net, out)

Flush(e) == Live(e) /\ CanSend(ep[e]) > 0 /\ Tick(e, ep[e])

Write(e) ==
    /\ Live(e) /\ ep[e].written < Writes[e]
    /\ Tick(e, [ep[e] EXCEPT !.pend = @ + 1, !.written = @ + 1])

Close(e) ==
    /\ e \in Closing
    /\ Live(e) /\ ep[e].fin = "no"
    /\ IF ep[e].st = "SynSent" THEN Sends(e, [ep[e] EXCEPT !.st = "Closed"], net, {})
       ELSE Tick(e, [ep[e] EXCEPT !.fin = "pending"])

\* The application takes what was handed over
Read(e) ==
    /\ Live(e) /\ ep[e].unread > 0
    /\ Sends(e, [ep[e] EXCEPT !.unread = 0], net, {})

\* handle_timeout
Armed(x) ==
    x.st = "SynSent" \/ (x.st # "none" /\ (x.acked < x.sent \/ (x.fin = "sent" /\ x.st = "FinSent")))

Timeout(e) ==
    LET x == ep[e]
        dead == x.rtos + 1 >= (IF x.st = "SynSent" THEN MaxSyn ELSE MaxRto)
        y == [x EXCEPT !.rtos = @ + 1, !.win = IF x.st = "SynSent" THEN @ ELSE 1]
        again == IF x.st = "SynSent" THEN {Control(e, "SYN", y)}
                 ELSE {Data(e, y, k) : k \in x.acked + 1 .. x.sent}
                      \cup (IF x.fin = "sent" THEN {Control(e, "FIN", y)} ELSE {})
    IN /\ Live(e) /\ Armed(x)
       /\ IF dead THEN Sends(e, [y EXCEPT !.err = TRUE, !.st = "Closed"], net, {})
          ELSE Sends(e, y, net, again)

\* Later traffic of the session (requests, keep-alives) carries the window again
Nudge(e) ==
    /\ Live(e) /\ ep[e].st # "SynSent"
    /\ ~ep[OtherEnd(e)].open /\ ep[e].unread < RecvRoom
    /\ Sends(e, ep[e], net, Ack(e, ep[e]))

UtpNext ==
    \/ \E p \in net : Deliver(p) \/ Repeat(p) \/ Lose(p)
    \/ \E e \in End : Flush(e) \/ Write(e) \/ Close(e) \/ Read(e) \/ Timeout(e) \/ Nudge(e)

UtpSpec == UtpInit /\ [][UtpNext]_utpVars

-----------------------------------------------------------------------------
UtpTypes ==
    /\ first \in Starts
    /\ \A e \in End : /\ ep[e].ack \in 0 .. Width - 1
                      /\ DOMAIN ep[e].early \subseteq 0 .. Width - 1
                      /\ ep[e].acked <= ep[e].sent
                      /\ ep[e].win \in 1 .. Flight

\* What an end reads is what the other wrote, in that order and without a gap,
\* and what is acknowledged was handed over; a writer that ended its stream is
\* excepted, since a segment written before process_tick sent the FIN may share
\* the FIN's number
StreamInOrder ==
    \A e \in End : ep[e].fin = "no" =>
        \A i \in DOMAIN ep[OtherEnd(e)].got : ep[OtherEnd(e)].got[i] = i
AckedArrived ==
    \A e \in End : (~ep[e].err /\ ep[e].fin = "no") =>
        ep[e].acked <= Len(ep[OtherEnd(e)].got)
StreamKept == StreamInOrder /\ AckedArrived
=============================================================================
