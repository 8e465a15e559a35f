----------------------------- MODULE UdpTracker -----------------------------
(* One announce to a UDP tracker (crates/xfer-discovery/src/udp_tracker.rs,*)
(* BEP 15): a connect exchange, then an announce exchange, each with its   *)
(* own transaction id, sent again after a growing delay until ten seconds  *)
(* are over.  Time is counted in half seconds.  The network loses, delays, *)
(* doubles and reorders datagrams.                                         *)
EXTENDS Naturals, FiniteSets

CONSTANTS
  FirstDelay, MaxDelay, Deadline,  \* 500 ms, 5 s and 10 s: 1, 10 and 20
  Lossy,       \* TRUE: datagrams may be lost or doubled
  Refuses      \* TRUE: the tracker may answer with an error

UdpTrackerAssumption ==
  /\ {FirstDelay, MaxDelay, Deadline} \subseteq Nat \ {0}
  /\ {Lossy, Refuses} \subseteq BOOLEAN

VARIABLES
  at,     \* "connect", "announce", "done", or why it failed
  clock,  \* half seconds since this exchange began
  delay,  \* how long the next answer is waited for
  waits,  \* a request was sent and its answer is waited for
  net,    \* requests and answers under way
  answers,\* answers the tracker has sent (all that Lossy may double)
  given   \* the ids it was told: the connection id in use, or 0

udpVars == <<at, clock, delay, waits, net, answers, given>>

Exchanges == {"connect", "announce"}
Packet == [kind : {"request", "answer", "error"}, tid : Exchanges, cid : 0..1, copy : 0..Deadline]

UdpTypes ==
  /\ at \in Exchanges \cup {"done", "timeout", "protocol", "refused"}
  /\ clock \in 0..Deadline /\ delay \in FirstDelay..(2 * MaxDelay)
  /\ waits \in BOOLEAN
  /\ net \subseteq Packet /\ answers \subseteq Packet
  /\ given \in 0..1

UdpInit ==
  /\ at = "connect"
  /\ clock = 0 /\ delay = FirstDelay /\ waits = FALSE
  /\ net = {} /\ answers = {} /\ given = 0

----------------------------------------------------------------------------
(* connect_with_retry and announce_with_retry share their shape.  A         *)
(* datagram is told from its copies by the time it was sent at.             *)
Send ==
  /\ at \in Exchanges /\ ~waits /\ clock < Deadline
  /\ net' = net \cup {[kind |-> "request", tid |-> at, cid |-> given, copy |-> clock]}
  /\ waits' = TRUE
  /\ UNCHANGED <<at, clock, delay, answers, given>>

Least(a, b) == IF a < b THEN a ELSE b

(* The delay is over without an answer.                                     *)
Elapse ==
  /\ waits
  /\ clock' = Least(clock + delay, Deadline)
  /\ delay' = Least(2 * delay, MaxDelay)
  /\ waits' = FALSE
  /\ UNCHANGED <<at, net, answers, given>>

Expired == clock = Deadline

GiveUp ==
  /\ at \in Exchanges /\ ~waits /\ Expired
  /\ at' = "timeout"
  /\ UNCHANGED <<clock, delay, waits, net, answers, given>>

(* parse_connect_response and parse_announce_response: the transaction id   *)
(* of this exchange.                                                        *)
Mine(p) == p.tid = at

(* recv_from: whatever datagram comes first ends the wait and the loop.     *)
Receive(p) ==
  /\ waits /\ p \in net /\ p.kind # "request"
  /\ net' = net \ {p}
  /\ waits' = FALSE
  /\ IF ~Mine(p) THEN at' = "protocol" /\ UNCHANGED <<clock, delay, given>>
     ELSE IF p.kind = "error" THEN at' = "refused" /\ UNCHANGED <<clock, delay, given>>
     ELSE IF at = "connect"
     THEN /\ at' = "announce"
          /\ given' = p.cid
          /\ clock' = 0 /\ delay' = FirstDelay
     ELSE at' = "done" /\ UNCHANGED <<clock, delay, given>>
  /\ UNCHANGED answers

----------------------------------------------------------------------------
(* The tracker answers every request that reaches it.                       *)
Answer(p) ==
  /\ p \in net /\ p.kind = "request"
  /\ \E kind \in IF Refuses THEN {"answer", "error"} ELSE {"answer"} :
       LET a == [p EXCEPT !.kind = kind, !.cid = 1]
       IN net' = (net \ {p}) \cup {a} /\ answers' = answers \cup {a}
  /\ UNCHANGED <<at, clock, delay, waits, given>>

Lose(p) ==
  /\ Lossy /\ p \in net
  /\ net' = net \ {p}
  /\ UNCHANGED <<at, clock, delay, waits, answers, given>>

Double(p) ==
  /\ Lossy /\ p \in answers
  /\ net' = net \cup {p}
  /\ UNCHANGED <<at, clock, delay, waits, answers, given>>

UdpNext ==
  \/ Send \/ Elapse \/ GiveUp
  \/ \E p \in net : Receive(p) \/ Answer(p) \/ Lose(p)
  \/ \E p \in answers : Double(p)

UdpSpec == UdpInit /\ [][UdpNext]_udpVars
UdpFairSpec == UdpSpec /\ WF_udpVars(Send) /\ WF_udpVars(Elapse) /\ WF_udpVars(GiveUp)

----------------------------------------------------------------------------
(* An announce that succeeds was sent with the connection id of this        *)
(* tracker and answered by it, whatever arrived in between.                 *)
AnsweredTruly ==
  at = "done" => given = 1 /\ \E p \in answers : p.tid = "announce" /\ p.kind = "answer"

(* The exchange comes to an end, even if no datagram ever gets through.     *)
UdpEnds == <>(at \notin Exchanges)

(* A tracker that answers every request, over a network that loses nothing, *)
(* is not reported as broken; "重发策略（§7.7）：5s 首次重发、10s 放弃" has the     *)
(* first repetition after five seconds, the code has it after half of one,  *)
(* and the second answer to a repeated connect fails the announce.          *)
SlowTrackerHeard == at # "protocol"
=============================================================================
