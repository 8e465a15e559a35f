-------------------------------- MODULE Bans --------------------------------
(* The list of banned BT addresses (manager.rs: bt_bans) and the copy every *)
(* running torrent engine keeps of it (engine.rs: banned).  The user bans   *)
(* and unbans one address, a subscription replaces the permanent part of    *)
(* the list, a starting engine is given the list, and each of these goes    *)
(* over the engines after it let the list's lock go.                        *)
(* Abstracted: a ban with an end is "timed" until Expire; connections that  *)
(* a ban cuts are those of BtPeers; parsing of addresses.                   *)
EXTENDS FiniteSets, Naturals, Sequences, SequencesExt

CONSTANTS
  Ip,
  Engine,
  Caller,  \* RPC calls served at the same time
  Overlap, \* TRUE: calls and the start of an engine may overlap
  MaxTimed \* bound: timed bans

BansAssumption == Overlap \in BOOLEAN /\ MaxTimed \in Nat
                   /\ IsFiniteSet(Caller) /\ IsFiniteSet(Ip)

VARIABLES
  list,    \* bt_bans: "none", or the end and the origin of the ban
  banned,  \* each engine's copy: "none", "timed", "forever"
  engines, \* bt_engines
  job,     \* what each caller, and each starting engine, has still to do
  saved,   \* the list in the session file
  timed,   \* count for MaxTimed
  owed     \* history: addresses with a timed ban of the user still to run

bansVars == <<list, banned, engines, job, saved, timed, owed>>

Entry == [end : {"timed", "forever"}, manual : BOOLEAN]
NoEntry == [end |-> "none", manual |-> FALSE]
Actors == Caller \cup Engine

(* What is still to be done, in order.                                      *)
Idle == <<>>

BansTypes ==
  /\ list \in [Ip -> Entry \cup {NoEntry}] /\ saved \in [Ip -> Entry \cup {NoEntry}]
  /\ banned \in [Engine -> [Ip -> {"none", "timed", "forever"}]]
  /\ engines \subseteq Engine /\ owed \subseteq Ip
  /\ timed \in 0..MaxTimed
  /\ DOMAIN job = Actors
  /\ \A a \in Actors : \A k \in DOMAIN job[a] :
       job[a][k].do \in {"snapshot", "sync", "unban", "read", "copy"}

BansInit ==
  /\ list = [i \in Ip |-> NoEntry] /\ saved = list
  /\ banned = [e \in Engine |-> [i \in Ip |-> "none"]]
  /\ engines = {} /\ owed = {} /\ timed = 0
  /\ job = [a \in Actors |-> Idle]

----------------------------------------------------------------------------
Quiet == \A a \in Actors : job[a] = Idle
MayStart(a) == job[a] = Idle /\ (Overlap \/ Quiet)
Listed == {i \in Ip : list[i] # NoEntry}
Order(d, e, i) == [do |-> d, engine |-> e, ip |-> i]

(* apply_bans_to_running, one engine: what is not on the list any more is   *)
(* unbanned, the rest banned.  snap is the list as it was read.             *)
Synced(snap, e) == [i \in Ip |-> snap[i].end]

(* The list is read with its lock, the engines are gone over without it.    *)
Snapshot(a) ==
  /\ job[a] # Idle /\ Head(job[a]).do = "snapshot"
  /\ job' = [job EXCEPT ![a] = SetToSeq({[do |-> "sync", engine |-> e, snap |-> list] : e \in engines})]
  /\ saved' = IF engines = {} THEN list ELSE saved
  /\ UNCHANGED <<list, banned, engines, timed, owed>>

ToSync == <<[do |-> "snapshot"]>>

Sync(a) ==
  /\ job[a] # Idle /\ Head(job[a]).do = "sync"
  /\ LET o == Head(job[a]) IN banned' = [banned EXCEPT ![o.engine] = Synced(o.snap, o.engine)]
  /\ job' = [job EXCEPT ![a] = Tail(@)]
  /\ saved' = IF Tail(job[a]) = Idle THEN list ELSE saved
  /\ UNCHANGED <<list, engines, timed, owed>>

(* ban_peer_ip.                                                             *)
Ban(c, i, end) ==
  /\ MayStart(c)
  /\ end = "timed" => timed < MaxTimed
  /\ timed' = IF end = "timed" THEN timed + 1 ELSE timed
  /\ list' = [list EXCEPT ![i] = [end |-> end, manual |-> TRUE]]
  /\ owed' = IF end = "timed" THEN owed \cup {i} ELSE owed \ {i}
  /\ job' = [job EXCEPT ![c] = ToSync]
  /\ UNCHANGED <<banned, engines, saved>>

(* unban_peer_ip tells the engines whether or not the address was listed.   *)
Unban(c, i) ==
  /\ MayStart(c)
  /\ list' = [list EXCEPT ![i] = NoEntry]
  /\ owed' = owed \ {i}
  /\ job' = [job EXCEPT ![c] = SetToSeq({Order("unban", e, i) : e \in engines})]
  /\ saved' = IF engines = {} THEN list' ELSE saved
  /\ UNCHANGED <<banned, engines, timed>>

UnbanAt(a) ==
  /\ job[a] # Idle /\ Head(job[a]).do = "unban"
  /\ LET o == Head(job[a]) IN banned' = [banned EXCEPT ![o.engine][o.ip] = "none"]
  /\ job' = [job EXCEPT ![a] = Tail(@)]
  /\ saved' = IF Tail(job[a]) = Idle THEN list ELSE saved
  /\ UNCHANGED <<list, engines, timed, owed>>

(* change_global_option with a list of addresses: its permanent bans        *)
(* replace the permanent bans there are.                                    *)
Replaced(given) ==
  [i \in Ip |-> CASE i \in given -> [end |-> "forever", manual |-> FALSE]
                  [] list[i].end = "forever" -> NoEntry
                  [] OTHER -> list[i]]

Replace(c, given) ==
  /\ MayStart(c)
  /\ list' = Replaced(given)
  /\ job' = [job EXCEPT ![c] = ToSync]
  /\ UNCHANGED <<banned, engines, saved, timed, owed>>

(* The end of a ban: it is dropped from the list, and from the engines'     *)
(* copies, where it is next looked at.                                      *)
Ended(m, i) == [m EXCEPT ![i] = IF @ = "timed" THEN "none" ELSE @]
Expire(i) ==
  /\ i \in owed
  /\ list' = [list EXCEPT ![i] = IF @.end = "timed" THEN NoEntry ELSE @]
  /\ saved' = [saved EXCEPT ![i] = IF @.end = "timed" THEN NoEntry ELSE @]
  /\ banned' = [e \in Engine |-> Ended(banned[e], i)]
  /\ owed' = owed \ {i}
  /\ job' = [a \in Actors |-> [k \in DOMAIN job[a] |->
               LET o == job[a][k] IN
               CASE o.do = "sync" /\ o.snap[i].end = "timed" -> [o EXCEPT !.snap[i] = NoEntry]
                 [] o.do = "copy" /\ o.ip = i /\ o.end = "timed" -> [o EXCEPT !.end = "none"]
                 [] OTHER -> o]]
  /\ UNCHANGED <<engines, timed>>

----------------------------------------------------------------------------
(* drive_bt_download: the engine is registered, then given the list.        *)
StartEngine(e) ==
  /\ e \notin engines /\ MayStart(e)
  /\ engines' = engines \cup {e}
  /\ job' = [job EXCEPT ![e] = <<[do |-> "read"]>>]
  /\ UNCHANGED <<list, banned, saved, timed, owed>>

Handed == Listed

ReadList(e) ==
  /\ job[e] # Idle /\ Head(job[e]).do = "read"
  /\ job' = [job EXCEPT ![e] = SetToSeq(
       {[do |-> "copy", engine |-> e, ip |-> i, end |-> list[i].end] : i \in Handed})]
  /\ UNCHANGED <<list, banned, engines, saved, timed, owed>>

Copy(e) ==
  /\ job[e] # Idle /\ Head(job[e]).do = "copy"
  /\ LET o == Head(job[e]) IN
     banned' = IF o.end = "none" THEN banned ELSE [banned EXCEPT ![e][o.ip] = o.end]
  /\ job' = [job EXCEPT ![e] = Tail(@)]
  /\ UNCHANGED <<list, engines, saved, timed, owed>>

StopEngine(e) ==
  /\ e \in engines /\ job[e] = Idle
  /\ \A c \in Caller : \A k \in DOMAIN job[c] : job[c][k].do # "snapshot" => job[c][k].engine # e
  /\ engines' = engines \ {e}
  /\ banned' = [banned EXCEPT ![e] = [i \in Ip |-> "none"]]
  /\ UNCHANGED <<list, job, saved, timed, owed>>

(* The application is started again and reads the session.                  *)
Restart ==
  /\ Quiet /\ engines = {}
  /\ list' = saved
  /\ UNCHANGED <<banned, engines, job, saved, timed, owed>>

BansNext ==
  \/ \E c \in Caller, i \in Ip : Unban(c, i) \/ \E end \in {"timed", "forever"} : Ban(c, i, end)
  \/ \E c \in Caller : \E given \in SUBSET Ip : Replace(c, given)
  \/ \E c \in Caller : Snapshot(c) \/ Sync(c) \/ UnbanAt(c)
  \/ \E e \in Engine : StartEngine(e) \/ ReadList(e) \/ Copy(e) \/ StopEngine(e)
  \/ \E i \in Ip : Expire(i)
  \/ Restart

BansSpec == BansInit /\ [][BansNext]_bansVars

----------------------------------------------------------------------------
(* When no call and no engine's start is under way, every running engine    *)
(* bans the addresses of the list, each with its end: "立即下发所有活动 BT      *)
(* 引擎".  Calls that overlap may leave an engine with an older list.          *)
EnginesAgree == Quiet => \A e \in engines, i \in Ip : banned[e][i] = list[i].end

(* "限时封禁不受影响": replacing the list does not end a timed ban the user set. *)
TimedKept == \A i \in owed : list[i] # NoEntry

=============================================================================
