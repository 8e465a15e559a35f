----------------------------- MODULE SecureLink -----------------------------
(* Setting up an encrypted peer connection: pe_handshake_initiator and     *)
(* pe_handshake_responder of crates/xfer-bt/src/mse.rs, and run_peer_inner *)
(* in engine.rs, which dials again in plain text when the negotiation      *)
(* failed.  A token on the wire stands for a field of the handshake or for *)
(* a message; an encrypted one carries its position in the key stream and  *)
(* can be decrypted at that position only.                                 *)
EXTENDS Naturals, Sequences, SequencesExt

CONSTANTS
  ModesA, ModesB, \* EncryptionMode of the end that dials and of the other
  Chunk,          \* bound: tokens one read of the scan returns
  Msgs,           \* bound: messages each end sends after the handshake
  Late            \* TRUE: MSE_TIMEOUT may pass on the side that dials

SecureLinkAssumption ==
  /\ ModesA \cup ModesB \subseteq {"prefer", "force", "plain"}
  /\ Chunk \in Nat \ {0} /\ Msgs \in Nat /\ Late \in BOOLEAN

Ends == {"a", "b"}
Other(e) == IF e = "a" THEN "b" ELSE "a"

VARIABLES
  enc,   \* end -> EncryptionMode, read when its handshake begins
  at,    \* end -> where it is in the handshake; "up", or "lost"
  wire,  \* end -> tokens on their way to it
  rest,  \* end -> tokens its scan read beyond the marker
  wpos,  \* end -> key stream position of what it sends
  rpos,  \* end -> key stream position of what it receives
  rc4,   \* end -> the stream after the handshake is encrypted
  told,  \* end -> messages sent
  got,   \* end -> messages received
  again, \* the dialling end is at its second attempt, in plain text
  late   \* a timeout has passed

linkVars == <<enc, at, wire, rest, wpos, rpos, rc4, told, got, again, late>>

LinkInit ==
  /\ enc \in [Ends -> {"prefer", "force", "plain"}]
  /\ enc["a"] \in ModesA /\ enc["b"] \in ModesB
  /\ at = [e \in Ends |-> "begin"]
  /\ wire = [e \in Ends |-> <<>>] /\ rest = [e \in Ends |-> <<>>]
  /\ wpos = [e \in Ends |-> 1] /\ rpos = [e \in Ends |-> 1]
  /\ rc4 = [e \in Ends |-> FALSE]
  /\ told = [e \in Ends |-> 0] /\ got = [e \in Ends |-> <<>>]
  /\ again = FALSE /\ late = FALSE

Clear == 0  \* the position of a token that is not encrypted
Token(k, v, p) == [k |-> k, v |-> v, pos |-> p]
Pads == {<<>>, <<Token("pad", 0, Clear)>>}
Keys(pad) == <<Token("key", 0, Clear)>> \o pad

Sends(e, ts) == [wire EXCEPT ![Other(e)] = @ \o ts]
Takes(e, ts) == [wire EXCEPT ![Other(e)] = @ \o ts, ![e] = Tail(@)]

(* RawBuf::read_exact_into, read_pending: what the scan left comes first.   *)
Ready(e) == rest[e] \o wire[e]
Consume(e) ==
  IF rest[e] # <<>> THEN rest' = [rest EXCEPT ![e] = Tail(@)] /\ UNCHANGED wire
                    ELSE wire' = [wire EXCEPT ![e] = Tail(@)] /\ UNCHANGED rest
ConsumeSending(e, ts) ==
  IF rest[e] # <<>> THEN rest' = [rest EXCEPT ![e] = Tail(@)] /\ wire' = Sends(e, ts)
                    ELSE wire' = Takes(e, ts) /\ UNCHANGED rest

Next1(e) == Head(Ready(e))
Clean(e) == Next1(e).pos = rpos[e]

Goes(e, s) == at' = [at EXCEPT ![e] = s]
Same == UNCHANGED <<enc, told, got, again, late>>

----------------------------------------------------------------------------
(* scan_sync reads on until the marker is in what it read; what was read    *)
(* beyond the marker is returned.  Mutant: it is thrown away.               *)
KeptNothing(ts, i) == <<>>
Kept(ts, i) == SubSeq(ts, i + 1, Len(ts))

Scan(e, marker, then) ==
  /\ wire[e] # <<>>
  /\ \E n \in 1..Chunk :
       /\ n <= Len(wire[e])
       /\ LET read == SubSeq(wire[e], 1, n)
              hits == {i \in 1..n : read[i].k = marker /\ read[i].pos \in {Clear, rpos[e]}}
          IN /\ wire' = [wire EXCEPT ![e] = SubSeq(@, n + 1, Len(@))]
             /\ IF hits = {} THEN UNCHANGED <<at, rest>>
                ELSE LET i == CHOOSE i \in hits : \A j \in hits : i <= j
                     IN Goes(e, then) /\ rest' = [rest EXCEPT ![e] = Kept(read, i)]
  /\ UNCHANGED <<wpos, rpos, rc4>> /\ Same

(* pe_handshake_initiator, or the handshake in plain text.                  *)
Dial ==
  /\ at["a"] = "begin"
  /\ IF enc["a"] = "plain" \/ again
     THEN Goes("a", "answer") /\ wire' = Sends("a", <<Token("bt", 0, Clear)>>)
     ELSE Goes("a", "key") /\ \E pad \in Pads : wire' = Sends("a", Keys(pad))
  /\ UNCHANGED <<rest, wpos, rpos, rc4>> /\ Same

Provide == IF enc["a"] = "force" THEN {"rc4"} ELSE {"rc4", "plain"}

(* Ya is answered: the hashes, the offer and the handshake in one go.       *)
Offer ==
  /\ at["a"] = "key" /\ wire["a"] # <<>>
  /\ IF Head(wire["a"]).k # "key" THEN Goes("a", "failed") /\ UNCHANGED <<wire, wpos>>
     ELSE /\ Goes("a", "scan")
          /\ wire' = Takes("a", <<Token("sync", 0, Clear), Token("offer", Provide, 1), Token("bt", 0, 2)>>)
          /\ wpos' = [wpos EXCEPT !["a"] = 3]
  /\ UNCHANGED <<rest, rpos, rc4>> /\ Same

FindVC == at["a"] = "scan" /\ Scan("a", "vc", "select")

(* The marker used up the key stream of the eight zero bytes.               *)
Chosen ==
  /\ at["a"] = "select" /\ Ready("a") # <<>>
  /\ LET t == Next1("a")
     IN IF t.k = "select" /\ t.pos = 2
        THEN /\ Goes("a", "hello") /\ rc4' = [rc4 EXCEPT !["a"] = t.v = "rc4"]
             /\ rpos' = [rpos EXCEPT !["a"] = 3]
        ELSE Goes("a", "failed") /\ UNCHANGED <<rc4, rpos>>
  /\ Consume("a") /\ UNCHANGED wpos /\ Same

Hello ==
  /\ at["a"] = "hello" /\ Ready("a") # <<>>
  /\ LET t == Next1("a")
     IN IF t.k = "bt" /\ t.pos = IF rc4["a"] THEN rpos["a"] ELSE Clear
        THEN Goes("a", "up") /\ rpos' = [rpos EXCEPT !["a"] = @ + 1]
        ELSE Goes("a", "failed") /\ UNCHANGED rpos
  /\ Consume("a") /\ UNCHANGED <<wpos, rc4>> /\ Same

(* read_handshake of the side that dialled in plain text.                   *)
PlainHello ==
  /\ at["a"] = "answer" /\ wire["a"] # <<>>
  /\ Goes("a", IF Head(wire["a"]).k = "bt" THEN "up" ELSE "failed")
  /\ wire' = [wire EXCEPT !["a"] = Tail(@)]
  /\ UNCHANGED <<rest, wpos, rpos, rc4>> /\ Same

----------------------------------------------------------------------------
(* The responder looks at the first twenty bytes: a plain handshake is      *)
(* answered unless encryption is forced, anything else is a key unless      *)
(* encryption is off.                                                       *)
Greeted ==
  /\ at["b"] = "begin" /\ wire["b"] # <<>>
  /\ LET t == Head(wire["b"])
     IN \/ /\ t.k = "bt" /\ enc["b"] # "force"
           /\ Goes("b", "up") /\ wire' = Takes("b", <<Token("bt", 0, Clear)>>)
        \/ /\ t.k = "key" /\ enc["b"] # "plain"
           /\ Goes("b", "scan") /\ \E pad \in Pads : wire' = Takes("b", Keys(pad))
        \/ /\ (t.k = "bt" /\ enc["b"] = "force") \/ (t.k = "key" /\ enc["b"] = "plain")
           /\ Goes("b", "failed") /\ UNCHANGED wire
  /\ UNCHANGED <<rest, wpos, rpos, rc4>> /\ Same

FindSync == at["b"] = "scan" /\ Scan("b", "sync", "offer")

(* crypto_provide: RC4 when it is offered.                                  *)
Select(offered) == IF "rc4" \in offered THEN "rc4" ELSE "plain"

Offered ==
  /\ at["b"] = "offer" /\ Ready("b") # <<>>
  /\ IF Next1("b").k = "offer" /\ Clean("b")
     THEN /\ Goes("b", "ia") /\ rpos' = [rpos EXCEPT !["b"] = @ + 1]
          /\ rc4' = [rc4 EXCEPT !["b"] = Select(Next1("b").v) = "rc4"]
     ELSE Goes("b", "failed") /\ UNCHANGED <<rpos, rc4>>
  /\ Consume("b") /\ UNCHANGED wpos /\ Same

(* IA is read; the selection and our handshake follow.                      *)
Reply ==
  /\ at["b"] = "ia" /\ Ready("b") # <<>>
  /\ IF Next1("b").k = "bt" /\ Clean("b")
     THEN /\ Goes("b", "up")
          /\ rpos' = [rpos EXCEPT !["b"] = @ + 1] /\ wpos' = [wpos EXCEPT !["b"] = 4]
          /\ ConsumeSending("b", <<Token("vc", 0, 1),
                                   Token("select", IF rc4["b"] THEN "rc4" ELSE "plain", 2),
                                   Token("bt", 0, IF rc4["b"] THEN 3 ELSE Clear)>>)
     ELSE Goes("b", "failed") /\ Consume("b") /\ UNCHANGED <<rpos, wpos>>
  /\ UNCHANGED rc4 /\ Same

----------------------------------------------------------------------------
(* A message of the session, through write_encrypted when rc4.              *)
Say(e) ==
  /\ at[e] = "up" /\ told[e] < Msgs
  /\ told' = [told EXCEPT ![e] = @ + 1]
  /\ wire' = Sends(e, <<Token("msg", told[e] + 1, IF rc4[e] THEN wpos[e] ELSE Clear)>>)
  /\ wpos' = [wpos EXCEPT ![e] = @ + 1]
  /\ UNCHANGED <<enc, at, rest, rpos, rc4, got, again, late>>

(* PeerReader over PeerStream; what cannot be decrypted is garbage.         *)
Hear(e) ==
  /\ at[e] = "up" /\ Ready(e) # <<>>
  /\ LET t == Next1(e)
         sane == t.k = "msg" /\ t.pos = IF rc4[e] THEN rpos[e] ELSE Clear
     IN got' = [got EXCEPT ![e] = Append(@, IF sane THEN t.v ELSE 0)]
  /\ rpos' = [rpos EXCEPT ![e] = @ + 1]
  /\ Consume(e)
  /\ UNCHANGED <<enc, at, wpos, rc4, told, again, late>>

(* An end that failed closes the connection; the other reads what is left   *)
(* and then fails too.                                                      *)
Closed(e) ==
  /\ at[Other(e)] \in {"failed", "lost"} /\ Ready(e) = <<>>
  /\ at[e] \notin {"failed", "lost"}
  /\ Goes(e, "failed")
  /\ UNCHANGED <<wire, rest, wpos, rpos, rc4>> /\ Same

TimesOut ==
  /\ Late /\ at["a"] \in {"key", "scan", "select", "hello"}
  /\ Goes("a", "failed")
  /\ late' = TRUE
  /\ UNCHANGED <<enc, wire, rest, wpos, rpos, rc4, told, got, again>>

(* libtorrent's pe_enabled: plain text is tried once.                       *)
Falls == enc["a"] = "prefer" /\ ~again

Redial ==
  /\ at["a"] = "failed" /\ Falls
  /\ again' = TRUE
  /\ at' = [e \in Ends |-> "begin"]
  /\ wire' = [e \in Ends |-> <<>>] /\ rest' = [e \in Ends |-> <<>>]
  /\ wpos' = [e \in Ends |-> 1] /\ rpos' = [e \in Ends |-> 1]
  /\ rc4' = [e \in Ends |-> FALSE]
  /\ told' = [e \in Ends |-> 0] /\ got' = [e \in Ends |-> <<>>]
  /\ UNCHANGED <<enc, late>>

GivesUp ==
  /\ at["a"] = "failed" /\ ~Falls
  /\ Goes("a", "lost")
  /\ UNCHANGED <<wire, rest, wpos, rpos, rc4>> /\ Same

LinkNext ==
  \/ Dial \/ Offer \/ FindVC \/ Chosen \/ Hello \/ PlainHello
  \/ Greeted \/ FindSync \/ Offered \/ Reply
  \/ \E e \in Ends : Say(e) \/ Hear(e) \/ Closed(e)
  \/ TimesOut \/ Redial \/ GivesUp

LinkSpec == LinkInit /\ [][LinkNext]_linkVars

----------------------------------------------------------------------------
Compatible == {enc["a"], enc["b"]} # {"force", "plain"}

(* Two ends that are up talk the same way, never against the mode of        *)
(* either; what one reads is what the other wrote, from the first byte on;  *)
(* and modes that go together do not fail unless a timeout is in play.      *)
LinkSound ==
  /\ at["a"] = "up" /\ at["b"] = "up" =>
       /\ rc4["a"] = rc4["b"]
       /\ \A e \in Ends : enc[e] = "force" => rc4[e]
       /\ \A e \in Ends : enc[e] = "plain" => ~rc4[e]
  /\ \A e \in Ends : got[e] = [i \in 1..Len(got[e]) |-> i]
  /\ at["a"] = "lost" => late \/ ~Compatible
=============================================================================
