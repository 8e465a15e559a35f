---------------------------- MODULE PortMapping ----------------------------
(* The port mapping of one torrent engine: spawn_port_mapping in           *)
(* crates/xfer-bt/src/engine.rs over map_port and unmap_port of            *)
(* crates/xfer-discovery/src/upnp.rs.  Both protocols are mapped by        *)
(* NAT-PMP or, when that fails, by UPnP; the lease is renewed long before  *)
(* it is over, and given back when the engine stops.  Time is counted in   *)
(* renewal intervals (40 minutes); an exchange with the router takes none. *)
EXTENDS Naturals, Sequences

CONSTANTS
  Lease,     \* PORT_MAPPING_LEASE_SECS / PORT_MAPPING_RENEW_SECS: 3
  MaxFails   \* bound: requests the router does not answer

PortMappingAssumption == Lease \in Nat /\ Lease > 1 /\ MaxFails \in Nat

Protocols == <<"tcp", "udp">>
Methods == {"pmp", "upnp"}

VARIABLES
  router, \* protocol -> method -> what is left of the lease; 0: no mapping
  pmp,    \* the router speaks NAT-PMP
  stage,  \* "map", "idle", "unmap", "over"
  next,   \* which protocol is dealt with
  due,    \* time until the next renewal
  missed, \* protocol -> rounds in a row that failed, or "never" mapped
  fails,
  down    \* engine.shutdown

mapVars == <<router, pmp, stage, next, due, missed, fails, down>>

MapTypes ==
  /\ router \in [{"tcp", "udp"} -> [Methods -> 0..Lease]]
  /\ pmp \in BOOLEAN /\ down \in BOOLEAN
  /\ stage \in {"map", "idle", "unmap", "over"}
  /\ next \in 1..2 /\ due \in 0..1
  /\ missed \in [{"tcp", "udp"} -> 0..(Lease + 1)]
  /\ fails \in 0..MaxFails

Never == Lease + 1

(* resolve_gateway, probe_nat_pmp_gateway: does it speak NAT-PMP?           *)
Gateways == BOOLEAN

MapInit ==
  /\ router = [p \in {"tcp", "udp"} |-> [m \in Methods |-> 0]]
  /\ pmp \in Gateways
  /\ stage = "map" /\ next = 1 /\ due = 0
  /\ missed = [p \in {"tcp", "udp"} |-> Never]
  /\ fails = 0 /\ down = FALSE

Proto == Protocols[next]

(* One request to the router is answered, or is not.                        *)
Fails == fails < MaxFails /\ fails' = fails + 1
Works == UNCHANGED fails

(* map_port goes through both protocols, unmap_port is called for each.     *)
Onwards(then) ==
  IF next < Len(Protocols) THEN next' = next + 1 /\ UNCHANGED stage ELSE next' = 1 /\ stage' = then

Renewed(m) ==
  /\ router' = [router EXCEPT ![Proto][m] = Lease]
  /\ missed' = [missed EXCEPT ![Proto] = 0]

Missed(n) == IF n >= Lease THEN n ELSE n + 1

PmpMaps == pmp /\ Works /\ Renewed("pmp")
UpnpMaps == (IF pmp THEN Fails ELSE Works) /\ Renewed("upnp")
NothingMaps ==
  /\ Fails
  /\ missed' = [missed EXCEPT ![Proto] = Missed(@)]
  /\ UNCHANGED router

(* map_port: NAT-PMP first, UPnP when that fails.                           *)
MapOne ==
  /\ stage = "map"
  /\ Onwards("idle")
  /\ due' = 1
  /\ PmpMaps \/ UpnpMaps \/ NothingMaps
  /\ UNCHANGED <<pmp, down>>

Spent(n) == IF n = 0 THEN 0 ELSE n - 1

Hour ==
  /\ stage = "idle" /\ due > 0
  /\ due' = due - 1
  /\ router' = [p \in DOMAIN router |-> [m \in Methods |-> Spent(router[p][m])]]
  /\ UNCHANGED <<pmp, stage, next, missed, fails, down>>

Renew ==
  /\ stage = "idle" /\ due = 0
  /\ stage' = "map"
  /\ UNCHANGED <<router, pmp, next, due, missed, fails, down>>

Shutdown ==
  /\ ~down
  /\ down' = TRUE
  /\ UNCHANGED <<router, pmp, stage, next, due, missed, fails>>

SeeShutdown ==
  /\ stage = "idle" /\ down
  /\ stage' = "unmap"
  /\ UNCHANGED <<router, pmp, next, due, missed, fails, down>>

PmpUnmaps == pmp /\ Works /\ router' = [router EXCEPT ![Proto]["pmp"] = 0]
UpnpUnmaps == (IF pmp THEN Fails ELSE Works) /\ router' = [router EXCEPT ![Proto]["upnp"] = 0]
NothingUnmaps == Fails /\ UNCHANGED router

(* unmap_port: NAT-PMP, and UPnP only when that fails.                      *)
UnmapOne ==
  /\ stage = "unmap"
  /\ Onwards("over")
  /\ PmpUnmaps \/ UpnpUnmaps \/ NothingUnmaps
  /\ UNCHANGED <<pmp, due, missed, down>>

(* Leases nobody gave back run out.                                         *)
Expire ==
  /\ stage = "over"
  /\ router' = [p \in DOMAIN router |-> [m \in Methods |-> Spent(router[p][m])]]
  /\ UNCHANGED <<pmp, stage, next, due, missed, fails, down>>

MapNext ==
  \/ MapOne \/ Hour \/ Renew \/ Shutdown \/ SeeShutdown \/ UnmapOne \/ Expire

MapSpec == MapInit /\ [][MapNext]_mapVars

----------------------------------------------------------------------------
(* While the engine runs, a protocol that was mapped stays mapped through   *)
(* a failed renewal; and an engine that stopped leaves no mapping behind    *)
(* when the router answered every time.                                     *)
MappedAndReturned ==
  /\ stage = "idle" =>
       \A p \in DOMAIN router :
         missed[p] <= 1 => router[p]["pmp"] > 0 \/ router[p]["upnp"] > 0
  /\ stage = "over" /\ fails = 0 => \A p \in DOMAIN router, m \in Methods : router[p][m] = 0
=============================================================================
