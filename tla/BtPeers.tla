------------------------------ MODULE BtPeers ------------------------------
(***************************************************************************)
(* The peers of a BT task (engine.rs): candidates, the table of registered *)
(* sessions, outgoing and incoming connections, eviction, bans, retries    *)
(* and UDP hole punching, until the engine stops.                          *)
(*                                                                         *)
(* A session is a cell (PeerCell).  The table has one cell per address;    *)
(* a session registers itself or is registered by its caller, which is     *)
(* also who unregisters it.  What a session does is in BtPicker.           *)
(***************************************************************************)
EXTENDS Integers, FiniteSets

CONSTANTS
    Addr,       \* addresses, each with an IP of its own
    Cell,       \* PeerCells, used again when their session is over
    NoCell,     \* no entry in the table
    Room,       \* max_peers * 2, the candidates kept
    Cap,        \* max_peers * COLD_START_BURST
    MaxDials,   \* MAX_DIAL_RETRIES
    MaxPunch    \* MAX_HOLEPUNCH_ATTEMPTS

PeersAssumption ==
    /\ {Room, Cap, MaxDials, MaxPunch} \subseteq Nat \ {0}
    /\ IsFiniteSet(Addr) /\ NoCell \notin Cell

VARIABLES
    pending,    \* candidates
    table,      \* peers: the cell registered under an address
    cell,       \* the sessions and the tasks that hold them
    fails,      \* dial_failures
    banned,     \* banned
    banning,    \* ban_ip has entered the address, and not yet gone on
    punch,      \* holepunch_inflight, holepunch_attempts
    halted      \* shutdown

peerVars == <<pending, table, cell, fails, banned, banning, punch, halted>>

Free == [pc |-> "free", addr |-> NoCell, kind |-> "out", kill |-> FALSE,
         failed |-> FALSE, evicted |-> FALSE, shadowed |-> FALSE, host |-> NoCell]

PeersInit ==
    /\ pending = {} /\ banned = {} /\ banning = {}
    /\ table = [a \in Addr |-> NoCell]
    /\ cell = [c \in Cell |-> Free]
    /\ fails = [a \in Addr |-> 0]
    /\ punch = [a \in Addr |-> [busy |-> FALSE, tries |-> 0]]
    /\ halted = FALSE

IsFree(c) == cell[c].pc = "free"
At(c, pc) == cell[c].pc = pc
Goes(c, pc) == cell' = [cell EXCEPT ![c].pc = pc]

(* register_peer, under an address that another session may hold: that one *)
(* goes on without an entry.                                               *)
Registered(f, c, a) ==
    [d \in Cell |-> IF d # c /\ table[a] = d THEN [f[d] EXCEPT !.shadowed = TRUE]
                    ELSE f[d]]

Register(c, a, kind, pc, host) ==
    /\ table' = [table EXCEPT ![a] = c]
    /\ cell' = Registered([cell EXCEPT ![c] = [Free EXCEPT !.pc = pc, !.addr = a,
                                                           !.kind = kind, !.host = host]],
                          c, a)

(* Mutant: the entry is removed whoever holds it. *)
UnregisteredByAddress(c) ==
    [table EXCEPT ![cell[c].addr] = NoCell]

(* unregister_peer: only the entry of this session is removed. *)
Unregistered(c) ==
    IF table[cell[c].addr] = c THEN [table EXCEPT ![cell[c].addr] = NoCell] ELSE table

Entries == {a \in Addr : table[a] # NoCell}

----------------------------------------------------------------------------
(* add_peers: trackers, DHT, PEX and LSD.  A new candidate has all its     *)
(* retries again.                                                          *)
AddPeer(a) ==
    /\ a \notin pending /\ table[a] = NoCell
    /\ Cardinality(pending) < Room
    /\ pending' = pending \cup {a}
    /\ fails' = [fails EXCEPT ![a] = 0]
    /\ UNCHANGED <<table, cell, banned, banning, punch, halted>>

(* connect_pending_limited drops the banned, connect_pending_seed does     *)
(* not; both register before they dial.                                    *)
Connect(c, a) ==
    /\ ~halted /\ IsFree(c)
    /\ Cardinality(Entries) < Cap
    /\ \/ a \in pending \ banned /\ pending' = (pending \ banned) \ {a}
       \/ a \in pending /\ pending' = pending \ {a}
    /\ Register(c, a, "out", "dial", NoCell)
    /\ UNCHANGED <<fails, banned, banning, punch, halted>>

(* dial_and_run: uTP, then TCP. *)
DialFails(c) ==
    /\ At(c, "dial")
    /\ cell' = [cell EXCEPT ![c].pc = "end", ![c].failed = TRUE]
    /\ UNCHANGED <<pending, table, fails, banned, banning, punch, halted>>

(* Connected: nothing more when the engine stops; run_peer turns away the  *)
(* banned.                                                                 *)
DialWorks(c) ==
    /\ At(c, "dial")
    /\ cell' = [cell EXCEPT
                  ![c].pc = IF halted \/ cell[c].addr \in banned THEN "end" ELSE "run",
                  ![c].failed = ~halted /\ cell[c].addr \in banned]
    /\ UNCHANGED <<pending, table, fails, banned, banning, punch, halted>>

(* The accept loops and run_peer, up to the last look at the bans.         *)
Accept(c, a) ==
    /\ ~halted /\ IsFree(c) /\ a \notin banned
    /\ cell' = [cell EXCEPT ![c] = [Free EXCEPT !.pc = "enter", !.addr = a, !.kind = "in"]]
    /\ UNCHANGED <<pending, table, fails, banned, banning, punch, halted>>

(* run_peer without a cell: an incoming session registers itself. *)
Enter(c) ==
    /\ At(c, "enter")
    /\ Register(c, cell[c].addr, "in", "run", cell[c].host)
    /\ UNCHANGED <<pending, fails, banned, banning, punch, halted>>

(* A session ends, by an error, its kill token or the shutdown: in every   *)
(* case run_peer returns an error.                                         *)
SessionEnds(c) ==
    /\ At(c, "run")
    /\ cell' = [cell EXCEPT ![c].pc = "end", ![c].failed = TRUE]
    /\ UNCHANGED <<pending, table, fails, banned, banning, punch, halted>>

(* Whoever registered the session unregisters it, which also kills it.     *)
Over(c) ==
    /\ At(c, "end")
    /\ table' = Unregistered(c)
    /\ cell' = [d \in Cell |->
                 IF d = c THEN IF cell[c].kind = "out"
                               THEN [cell[c] EXCEPT !.pc = "over", !.kill = TRUE]
                               ELSE Free
                 ELSE IF d = cell[c].host THEN [cell[d] EXCEPT !.pc = "end"]
                 ELSE cell[d]]
    /\ UNCHANGED <<pending, fails, banned, banning, punch, halted>>

(* retry_later: the address is a candidate again, MAX_DIAL_RETRIES times.  *)
RetryLater(a) ==
    /\ fails' = [fails EXCEPT ![a] = IF @ > MaxDials THEN @ ELSE @ + 1]
    /\ pending' = IF fails[a] < MaxDials /\ Cardinality(pending) < Room /\ table[a] = NoCell
                  THEN pending \cup {a} ELSE pending

(* The end of the task of an outgoing session: a failure is retried unless *)
(* the cell was killed.                                                    *)
Retry(c) ==
    /\ At(c, "over")
    /\ IF cell[c].failed /\ ~cell[c].kill /\ ~halted
       THEN RetryLater(cell[c].addr)
       ELSE UNCHANGED <<pending, fails>>
    /\ cell' = [cell EXCEPT ![c] = Free]
    /\ UNCHANGED <<table, banned, banning, punch, halted>>

(* prune_dead_peers, evict_slow_peers and run_peer_schedule unregister     *)
(* sessions that still run.                                                *)
EvictPeer(c) ==
    /\ ~halted
    /\ \E a \in Addr : table[a] = c
    /\ table' = Unregistered(c)
    /\ cell' = [cell EXCEPT ![c].kill = TRUE, ![c].evicted = TRUE]
    /\ UNCHANGED <<pending, fails, banned, banning, punch, halted>>

----------------------------------------------------------------------------
(* ban_ip: the address is entered, then the registered session is killed   *)
(* and the candidate dropped.                                              *)
Ban(a) ==
    /\ a \notin banned
    /\ banned' = banned \cup {a} /\ banning' = banning \cup {a}
    /\ UNCHANGED <<pending, table, cell, fails, punch, halted>>

BanKills(a) ==
    /\ a \in banning
    /\ banning' = banning \ {a}
    /\ pending' = pending \ {a}
    /\ cell' = [c \in Cell |-> IF table[a] = c
                               THEN [cell[c] EXCEPT !.kill = TRUE, !.evicted = TRUE]
                               ELSE cell[c]]
    /\ UNCHANGED <<table, fails, banned, punch, halted>>

(* unban_ip, or the ban's time is over. *)
Unban(a) ==
    /\ a \in banned \ banning
    /\ banned' = banned \ {a}
    /\ UNCHANGED <<pending, table, cell, fails, banning, punch, halted>>

----------------------------------------------------------------------------
(* handle_holepunch_message (Connect) and spawn_holepunch: one attempt at  *)
(* a time, and so many for an address.                                     *)
Punch(a) ==
    /\ \E c \in Cell : At(c, "run")
    /\ table[a] = NoCell /\ a \notin banned /\ ~halted /\ ~punch[a].busy
    /\ punch[a].tries < MaxPunch
    /\ punch' = [punch EXCEPT ![a] = [busy |-> TRUE, tries |-> @.tries + 1]]
    /\ UNCHANGED <<pending, table, cell, fails, banned, banning, halted>>

(* holepunch_attempt gives up, at its deadline or at the shutdown. *)
PunchFails(a) ==
    /\ punch[a].busy
    /\ punch' = [punch EXCEPT ![a].busy = FALSE]
    /\ UNCHANGED <<pending, table, cell, fails, banned, banning, halted>>

(* adopt_holepunched starts a task, which registers a cell ...             *)
PunchWorks(a, c) ==
    /\ punch[a].busy /\ ~halted /\ IsFree(c)
    /\ punch' = [punch EXCEPT ![a].busy = FALSE]
    /\ cell' = [cell EXCEPT ![c] = [Free EXCEPT !.pc = "adopt", !.addr = a, !.kind = "hole"]]
    /\ UNCHANGED <<pending, table, fails, banned, banning, halted>>

Adopt(c) ==
    /\ At(c, "adopt")
    /\ Register(c, cell[c].addr, "hole", "adopted", NoCell)
    /\ UNCHANGED <<pending, fails, banned, banning, punch, halted>>

(* ... and runs the session with another one, registered as incoming.      *)
AdoptRuns(c, d) ==
    /\ At(c, "adopted")
    /\ IF cell[c].addr \in banned
       THEN Goes(c, "end")
       ELSE /\ IsFree(d)
            /\ cell' = [cell EXCEPT
                         ![c].pc = "wait",
                         ![d] = [Free EXCEPT !.pc = "enter", !.addr = cell[c].addr,
                                             !.kind = "in", !.host = c]]
    /\ UNCHANGED <<pending, table, fails, banned, banning, punch, halted>>

----------------------------------------------------------------------------
(* stop_background. *)
Halt ==
    /\ ~halted /\ halted' = TRUE
    /\ UNCHANGED <<pending, table, cell, fails, banned, banning, punch>>

SessionStep(c) ==
    \/ DialFails(c) \/ DialWorks(c) \/ Enter(c) \/ SessionEnds(c)
    \/ Over(c) \/ Retry(c) \/ Adopt(c) \/ \E d \in Cell : AdoptRuns(c, d)

PeersNext ==
    \/ \E c \in Cell : SessionStep(c) \/ EvictPeer(c)
    \/ \E c \in Cell, a \in Addr : Connect(c, a) \/ Accept(c, a) \/ PunchWorks(a, c)
    \/ \E a \in Addr : \/ AddPeer(a) \/ Ban(a) \/ BanKills(a) \/ Unban(a)
                       \/ Punch(a) \/ PunchFails(a)
    \/ Halt

PeersSpec == PeersInit /\ [][PeersNext]_peerVars

----------------------------------------------------------------------------
PeersTypes ==
    /\ pending \subseteq Addr /\ banning \subseteq banned /\ banned \subseteq Addr
    /\ Cardinality(pending) <= Room
    /\ table \in [Addr -> Cell \cup {NoCell}]
    /\ cell \in [Cell -> [pc : {"free", "dial", "enter", "run", "end", "over", "adopt",
                                "adopted", "wait"},
                          addr : Addr \cup {NoCell}, kind : {"out", "in", "hole"},
                          kill : BOOLEAN, failed : BOOLEAN, evicted : BOOLEAN,
                          shadowed : BOOLEAN, host : Cell \cup {NoCell}]]
    /\ fails \in [Addr -> 0..(MaxDials + 1)]
    /\ punch \in [Addr -> [busy : BOOLEAN, tries : 0..MaxPunch]]

(* Eviction, pruning, bans and the limits see sessions through the table:  *)
(* a session that runs is in it under its address unless it was told to    *)
(* end or a newer one took its place, and what the table holds still has   *)
(* an owner who will remove it (unregister_peer: an entry removed by       *)
(* address alone would be that of a newer session).                        *)
SessionsListed ==
    /\ \A c \in Cell : At(c, "run") /\ ~cell[c].kill /\ ~cell[c].shadowed
                         => table[cell[c].addr] = c
    /\ \A a \in Entries : /\ cell[table[a]].addr = a
                          /\ cell[table[a]].pc \in {"dial", "run", "end", "adopted", "wait"}

(* adopt_holepunched: a task that runs a punched connection waits for one  *)
(* session, its own, and a session that has such a task finds it waiting   *)
(* when it is over, however often its entry was taken or evicted: none     *)
(* waits for a session that is gone, and none is passed over.              *)
HostsWait ==
    /\ \A c \in Cell : At(c, "wait") => \E d \in Cell : cell[d].host = c
    /\ \A c, d \in Cell : cell[c].host = d
                            => At(d, "wait") /\ \A e \in Cell : cell[e].host = d => e = c

(* No failed address is ever tried again: when dial_and_run is over, its    *)
(* session has been unregistered, which cancels the token that retry_later  *)
(* is guarded by, so that a failure looks like an eviction.                 *)
NeverRetried == \A a \in Addr : fails[a] = 0
=============================================================================
