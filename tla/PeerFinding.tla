---------------------------- MODULE PeerFinding ----------------------------
(* Two ways peers hear of each other.  Local discovery (BEP 14): spawn_lsd *)
(* in crates/xfer-bt/src/engine.rs over crates/xfer-discovery/src/lsd.rs;  *)
(* on one host only one task can bind port 6771, the others only send.     *)
(* Peer exchange (BEP 11): send_pex_message and handle_extension_message   *)
(* over crates/xfer-discovery/src/pex.rs, one exchange per session that    *)
(* sends what changed since its last message.                              *)
EXTENDS Naturals, Sequences, FiniteSets, SequencesExt

CONSTANTS
  Host, Torrent,
  NoTorrent,   \* the port is free
  Peer,        \* addresses PEX tells of
  V6,          \* those of them that are IPv6
  MaxStops,    \* bound: times a task is stopped
  MaxChanges   \* bound: changes of the set of connected peers

VARIABLES
  tasks,    \* host -> the torrents it runs
  bound,    \* host -> the task whose socket has port 6771
  buffer,   \* host -> announces in the buffer of that socket
  local,    \* host -> torrent -> hosts discovered
  stops,
  linked,   \* peers the engine is connected to
  sent,     \* PexExchange.sent of a session
  wire,     \* the messages of that session not yet read
  view,     \* what its remote end has made of them
  changes

lsdVars == <<tasks, bound, buffer, local, stops>>
pexVars == <<linked, sent, wire, view, changes>>
findVars == <<tasks, bound, buffer, local, stops, linked, sent, wire, view, changes>>

FindInit ==
  /\ tasks = [h \in Host |-> {}]
  /\ bound = [h \in Host |-> NoTorrent]
  /\ buffer = [h \in Host |-> {}]
  /\ local = [h \in Host |-> [t \in Torrent |-> {}]]
  /\ stops = 0
  /\ linked = {} /\ sent = {} /\ wire = <<>> /\ view = {}
  /\ changes = 0

----------------------------------------------------------------------------
(* spawn_lsd: Lsd::new binds the port, or Lsd::sender_only is used.         *)
Start(h, t) ==
  /\ t \notin tasks[h]
  /\ tasks' = [tasks EXCEPT ![h] = @ \cup {t}]
  /\ bound' = [bound EXCEPT ![h] = IF @ = NoTorrent THEN t ELSE @]
  /\ UNCHANGED <<buffer, local, stops, pexVars>>

(* The task ends and its socket is dropped; nobody else takes the port.     *)
Stop(h, t) ==
  /\ t \in tasks[h] /\ stops < MaxStops
  /\ stops' = stops + 1
  /\ tasks' = [tasks EXCEPT ![h] = @ \ {t}]
  /\ bound' = [bound EXCEPT ![h] = IF @ = t THEN NoTorrent ELSE @]
  /\ buffer' = [buffer EXCEPT ![h] = IF bound[h] = t THEN {} ELSE @]
  /\ UNCHANGED <<local, pexVars>>

(* Lsd::announce, a multicast datagram to every host whose port is bound.   *)
Announce(h, t) ==
  /\ t \in tasks[h]
  /\ buffer' = [g \in Host |-> IF bound[g] # NoTorrent THEN buffer[g] \cup {<<h, t>>} ELSE buffer[g]]
  /\ UNCHANGED <<tasks, bound, local, stops, pexVars>>

(* parse_announce_message: this task's torrent, and not its own cookie.     *)
Takes(h, m) == m[2] = bound[h] /\ m[1] # h

(* Lsd::listen reads what is there; what it does not take is gone.          *)
Listen(h) ==
  /\ buffer[h] # {}
  /\ buffer' = [buffer EXCEPT ![h] = {}]
  /\ local' = [local EXCEPT ![h] = [t \in Torrent |->
                 @[t] \cup {m[1] : m \in {n \in buffer[h] : n[2] = t /\ Takes(h, n)}}]]
  /\ UNCHANGED <<tasks, bound, stops, pexVars>>

----------------------------------------------------------------------------
Change ==
  /\ changes < MaxChanges
  /\ changes' = changes + 1
  /\ linked' \in SUBSET Peer
  /\ UNCHANGED <<lsdVars, sent, wire, view>>

SentNow == linked

(* generate_message and encode: IPv6 peers are remembered but not encoded;  *)
(* an exchange without a change sends nothing.                              *)
SendPex ==
  /\ sent # linked
  /\ sent' = SentNow
  /\ wire' = Append(wire, [added |-> (linked \ sent) \ V6, dropped |-> (sent \ linked) \ V6])
  /\ UNCHANGED <<lsdVars, linked, view, changes>>

(* The remote end, which keeps a list of what the session told it of.       *)
ReadPex ==
  /\ wire # <<>>
  /\ wire' = Tail(wire)
  /\ view' = (view \ Head(wire).dropped) \cup Head(wire).added
  /\ UNCHANGED <<lsdVars, linked, sent, changes>>

FindNext ==
  \/ \E h \in Host :
       \/ \E t \in Torrent : Start(h, t) \/ Stop(h, t) \/ Announce(h, t)
       \/ Listen(h)
  \/ Change \/ SendPex \/ ReadPex

FindSpec == FindInit /\ [][FindNext]_findVars

(* LSD_ANNOUNCE_INTERVAL and the 5 s of listening come round again.         *)
FindFairness ==
  /\ \A h \in Host : WF_findVars(Listen(h)) /\ \A t \in Torrent : WF_findVars(Announce(h, t))
  /\ WF_findVars(SendPex) /\ WF_findVars(ReadPex)

FindFairSpec == FindSpec /\ FindFairness

----------------------------------------------------------------------------
(* What the remote end of a session has been told adds up to the peers we   *)
(* are connected to, once everything is told and read.                      *)
PexAgrees == wire = <<>> /\ sent = linked => view = linked \ V6

(* Two hosts that keep running the same torrent find each other: "对端收到    *)
(* announce 后会主动连入，本端发现能力交给首个任务的监听，整体发现不受影响".  The        *)
(* listening task takes announces of its own torrent only, and when it ends *)
(* nobody listens.                                                          *)
LsdFinds ==
  \A h, g \in Host, t \in Torrent :
    h # g => (<>[](t \in tasks[h] /\ t \in tasks[g]) => <>(g \in local[h][t] \/ h \in local[g][t]))
=============================================================================
