----------------------------- MODULE LanControl ----------------------------
(***************************************************************************)
(* The switch of the local network transfer (xfer-lan, controller.rs): the *)
(* settings, the service they start and stop, and the calls that do so at  *)
(* the same time.  A service listens from its start to its stop; changes   *)
(* of its name and directory leave it running and are not modelled.        *)
(***************************************************************************)
EXTENDS FiniteSets

CONSTANTS
    Call,       \* calls that may run at the same time
    Service,    \* services, used again when stopped
    NoService   \* no service; nobody

ControlAssumption == IsFiniteSet(Call) /\ NoService \notin Service \cup Call

VARIABLES
    enabled,    \* config.enabled
    stored,     \* lan-config.json
    current,    \* the service there is
    listening,  \* services whose listener and loops run
    lock,       \* op_lock
    call        \* where each call stands

controlVars == <<enabled, stored, current, listening, lock, call>>

(* LanController::start: the service is started if it is switched on (and  *)
(* can be), unless the start is deferred.                                  *)
Boots(on) ==
    /\ enabled' = on /\ lock' = NoService /\ call' = [c \in Call |-> "none"]
    /\ \/ current' = NoService /\ listening' = {}
       \/ on /\ \E s \in Service : current' = s /\ listening' = {s}

ControlInit ==
    /\ stored \in BOOLEAN /\ enabled = stored
    /\ lock = NoService /\ call = [c \in Call |-> "none"]
    /\ current = NoService /\ listening = {}

To(c, pc) == call' = [call EXCEPT ![c] = pc]
Free == lock = NoService

(* ensure_started looks at the settings and the service, and again at the  *)
(* service when it has the lock.                                           *)
Ensure(c) ==
    /\ call[c] = "none" /\ enabled /\ current = NoService
    /\ To(c, "ensure")
    /\ UNCHANGED <<enabled, stored, current, listening, lock>>

Ensured(c) ==
    /\ call[c] = "ensure" /\ Free
    /\ IF current # NoService
       THEN To(c, "none") /\ UNCHANGED lock
       ELSE lock' = c /\ To(c, "start")
    /\ UNCHANGED <<enabled, stored, current, listening>>

(* set_config: the settings are saved, then taken over, then the service   *)
(* is stopped, kept or started; or they are refused, or cannot be saved.   *)
SetConfig(c) ==
    /\ call[c] = "none" /\ Free
    /\ stored' \in BOOLEAN /\ enabled' = stored'
    /\ lock' = c /\ To(c, "apply")
    /\ UNCHANGED <<current, listening>>

Apply(c) ==
    /\ call[c] = "apply"
    /\ IF enabled /\ current = NoService
       THEN To(c, "start") /\ UNCHANGED <<current, listening, lock>>
       ELSE /\ IF enabled THEN UNCHANGED <<current, listening>>
               ELSE current' = NoService /\ listening' = listening \ {current}
            /\ lock' = NoService /\ To(c, "none")
    /\ UNCHANGED <<enabled, stored>>

(* start_service: LanService::start opens the listener, or fails. *)
Start(c) ==
    /\ call[c] = "start"
    /\ \/ \E s \in Service \ listening :
            listening' = listening \cup {s} /\ current' = s
       \/ UNCHANGED <<listening, current>>
    /\ lock' = NoService /\ To(c, "none")
    /\ UNCHANGED <<enabled, stored>>

(* stop, of the whole engine, takes no lock. *)
Stop ==
    /\ current' = NoService /\ listening' = listening \ {current}
    /\ UNCHANGED <<enabled, stored, lock, call>>

Restart == Boots(stored) /\ UNCHANGED stored

ControlNext ==
    \/ \E c \in Call : Ensure(c) \/ Ensured(c) \/ SetConfig(c) \/ Apply(c) \/ Start(c)
    \/ Stop \/ Restart

ControlSpec == ControlInit /\ [][ControlNext]_controlVars

----------------------------------------------------------------------------
(* However calls overlap, at most one service listens, and it is the one   *)
(* the controller can stop (op_lock: quick switching must not start and    *)
(* stop at the same time).                                                 *)
OneService == listening \subseteq {current}

(* With the transfer switched off nothing listens, once no call is under   *)
(* way (controller.rs: closed, neither discovery nor receiving runs).      *)
OffIsOff == Free /\ ~enabled => listening = {}
=============================================================================
