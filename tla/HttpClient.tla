---------------------------- MODULE HttpClient ----------------------------
(***************************************************************************)
(* The HTTP client of xfer-engine (manager.rs), rebuilt in a background    *)
(* thread whenever user-agent, all-proxy or no-proxy changes, and the gate *)
(* that keeps a starting download waiting for a rebuild in progress.       *)
(*                                                                         *)
(* A value stands for the triple of the three options, and a client for    *)
(* the value it was built from.                                            *)
(***************************************************************************)
EXTENDS Naturals, FiniteSets

CONSTANTS
    Value,      \* option triples
    Default,    \* the triple of build_client(), no option set
    NoSig,      \* client_sig = None
    Caller,     \* RPC handlers and the command line
    Builder,    \* bound: rebuild threads alive at once
    Driver,     \* download drivers
    MaxPush,    \* bound: option changes
    MayPanic    \* may build_client_with panic?

ASSUME ConstantsAssumption ==
    /\ Default \in Value /\ NoSig \notin Value
    /\ MaxPush \in Nat /\ MayPanic \in BOOLEAN

VARIABLES
    option,     \* Inner::global_options
    sig,        \* client_sig
    busy,       \* client_busy
    client,     \* client
    call,       \* the handlers
    build,      \* the rebuild threads
    driver,     \* the drivers and the client each works with
    pushes,     \* option changes so far
    serial,     \* history: no rebuild overlapped another, none panicked
    missed      \* history: the last change returned an error, unseen by a rebuild

vars == <<option, sig, busy, client, call, build, driver, pushes, serial, missed>>

CallPc == {"idle", "read", "claim", "busy", "spawn"}
BuildPc == {"free", "build", "drop"}
DriverPc == {"off", "wait", "ready", "running"}

TypeOK ==
    /\ option \in Value
    /\ sig \in Value \cup {NoSig}
    /\ busy \in BOOLEAN
    /\ client \in Value
    /\ call \in [Caller -> [pc : CallPc, val : Value]]
    /\ build \in [Builder -> [pc : BuildPc, val : Value]]
    /\ driver \in [Driver -> [pc : DriverPc, client : Value]]
    /\ pushes \in 0..MaxPush
    /\ serial \in BOOLEAN /\ missed \in BOOLEAN

Init ==
    /\ option = Default
    /\ sig = NoSig
    /\ busy = FALSE
    /\ client = Default
    /\ call = [c \in Caller |-> [pc |-> "idle", val |-> Default]]
    /\ build = [b \in Builder |-> [pc |-> "free", val |-> Default]]
    /\ driver = [d \in Driver |-> [pc |-> "off", client |-> Default]]
    /\ pushes = 0
    /\ serial = TRUE
    /\ missed = FALSE

(* No rebuild is under way. *)
Idle ==
    /\ \A c \in Caller : call[c].pc = "idle"
    /\ \A b \in Builder : build[b].pc = "free"

----------------------------------------------------------------------------
(* set_initial_options and change_global_option, the region of `inner`. *)
SetOption(c, v) ==
    /\ call[c].pc = "idle" /\ pushes < MaxPush
    /\ option' = v
    /\ pushes' = pushes + 1
    /\ serial' = (serial /\ Idle)
    /\ call' = [call EXCEPT ![c].pc = "read"]
    /\ UNCHANGED <<sig, busy, client, build, driver, missed>>

(* change_global_option meets a bad key behind one it has stored: it leaves *)
(* with Err, the option stays and nobody is told to rebuild.               *)
ChangeFails(c, v) ==
    /\ call[c].pc = "idle" /\ pushes < MaxPush
    /\ option' = v
    /\ pushes' = pushes + 1
    /\ missed' = TRUE
    /\ UNCHANGED <<sig, busy, client, call, build, driver, serial>>

(* An engine refuses the modes set with the option: `?` skips the rebuild. *)
ModesRefused(c) ==
    /\ call[c].pc = "read"
    /\ call' = [call EXCEPT ![c].pc = "idle"]
    /\ missed' = TRUE
    /\ UNCHANGED <<option, sig, busy, client, build, driver, pushes, serial>>

(* rebuild_http_client: the wanted signature is read in a region of its own. *)
ReadSig(c) ==
    /\ call[c].pc = "read"
    /\ call' = [call EXCEPT ![c] = [pc |-> "claim", val |-> option]]
    /\ missed' = FALSE
    /\ UNCHANGED <<option, sig, busy, client, build, driver, pushes, serial>>

(* Mutant: only the first signature is ever claimed. *)
ClaimOnce(c) ==
    /\ call[c].pc = "claim"
    /\ call' = [call EXCEPT ![c].pc = IF sig = NoSig THEN "busy" ELSE "idle"]
    /\ sig' = IF sig = NoSig THEN call[c].val ELSE sig
    /\ UNCHANGED <<option, busy, client, build, driver, pushes, serial, missed>>

(* Skip a rebuild that would change nothing, else claim the signature. *)
Claim(c) ==
    /\ call[c].pc = "claim"
    /\ call' = [call EXCEPT ![c].pc = IF sig = call[c].val THEN "idle" ELSE "busy"]
    /\ sig' = call[c].val
    /\ UNCHANGED <<option, busy, client, build, driver, pushes, serial, missed>>

SetBusy(c) ==
    /\ call[c].pc = "busy"
    /\ busy' = TRUE
    /\ call' = [call EXCEPT ![c].pc = "spawn"]
    /\ UNCHANGED <<option, sig, client, build, driver, pushes, serial, missed>>

Spawn(c) ==
    /\ call[c].pc = "spawn"
    /\ \E b \in Builder :
         /\ build[b].pc = "free"
         /\ build' = [build EXCEPT ![b] = [pc |-> "build", val |-> call[c].val]]
    /\ call' = [call EXCEPT ![c].pc = "idle"]
    /\ UNCHANGED <<option, sig, busy, client, driver, pushes, serial, missed>>

(* The thread builds the client and puts it in place. *)
Build(b) ==
    /\ build[b].pc = "build"
    /\ client' = build[b].val
    /\ build' = [build EXCEPT ![b].pc = "drop"]
    /\ UNCHANGED <<option, sig, busy, call, driver, pushes, serial, missed>>

(* Mutant: the unwinding thread does not run the guard. *)
BuildPanicUnguarded(b) ==
    /\ MayPanic /\ build[b].pc = "build"
    /\ build' = [build EXCEPT ![b].pc = "free"]
    /\ serial' = FALSE
    /\ UNCHANGED <<option, sig, busy, client, call, driver, pushes, missed>>

(* build_client_with panics; the old client stays. *)
BuildPanic(b) ==
    /\ MayPanic /\ build[b].pc = "build"
    /\ build' = [build EXCEPT ![b].pc = "drop"]
    /\ serial' = FALSE
    /\ UNCHANGED <<option, sig, busy, client, call, driver, pushes, missed>>

(* Mutant: watch::Sender::send, which fails while nobody is subscribed. *)
GuardDropSend(b) ==
    /\ build[b].pc = "drop"
    /\ busy' = (busy /\ \A d \in Driver : driver[d].pc # "wait")
    /\ build' = [build EXCEPT ![b].pc = "free"]
    /\ UNCHANGED <<option, sig, client, call, driver, pushes, serial, missed>>

(* ClientBuildGuard::drop *)
GuardDrop(b) ==
    /\ build[b].pc = "drop"
    /\ busy' = FALSE
    /\ build' = [build EXCEPT ![b].pc = "free"]
    /\ UNCHANGED <<option, sig, client, call, driver, pushes, serial, missed>>

(* A worker starts a download driver. *)
Start(d) ==
    /\ driver[d].pc = "off"
    /\ driver' = [driver EXCEPT ![d].pc = "wait"]
    /\ UNCHANGED <<option, sig, busy, client, call, build, pushes, serial, missed>>

(* wait_client_ready: the watch channel always shows the current value. *)
WaitReady(d) ==
    /\ driver[d].pc = "wait" /\ ~busy
    /\ driver' = [driver EXCEPT ![d].pc = "ready"]
    /\ UNCHANGED <<option, sig, busy, client, call, build, pushes, serial, missed>>

(* Each attempt of drive_download clones the client of the moment. *)
Attempt(d) ==
    /\ driver[d].pc \in {"ready", "running"}
    /\ driver' = [driver EXCEPT ![d] = [pc |-> "running", client |-> client]]
    /\ UNCHANGED <<option, sig, busy, client, call, build, pushes, serial, missed>>

(* The driver returns. *)
Finish(d) ==
    /\ driver[d].pc = "running"
    /\ driver' = [driver EXCEPT ![d] = [pc |-> "off", client |-> Default]]
    /\ UNCHANGED <<option, sig, busy, client, call, build, pushes, serial, missed>>

Rebuild(c) == ReadSig(c) \/ Claim(c) \/ SetBusy(c) \/ Spawn(c)
(* From the gate to the first attempt. *)
Enter(d) == WaitReady(d) \/ (driver[d].pc = "ready" /\ Attempt(d))
BuildStep(b) == Build(b) \/ BuildPanic(b) \/ GuardDrop(b)

Next ==
    \/ \E c \in Caller : Rebuild(c) \/ ModesRefused(c)
    \/ \E c \in Caller, v \in Value : SetOption(c, v) \/ ChangeFails(c, v)
    \/ \E b \in Builder : BuildStep(b)
    \/ \E d \in Driver : Start(d) \/ WaitReady(d) \/ Attempt(d) \/ Finish(d)

Spec == Init /\ [][Next]_vars

(* Threads and futures that can go on do; nobody must push an option or    *)
(* start a download.                                                       *)
FairSpec ==
    /\ Spec
    /\ \A c \in Caller : WF_vars(Rebuild(c))
    /\ \A b \in Builder : WF_vars(BuildStep(b))
    /\ \A d \in Driver : WF_vars(Enter(d))

----------------------------------------------------------------------------
(* Properties. *)

Rebuilding ==
    \/ \E b \in Builder : build[b].pc # "free"
    \/ \E c \in Caller : call[c].pc = "spawn"

(* The gate never stays shut: busy is set only while a thread that clears  *)
(* it is alive or about to be spawned, whether builds overlap or panic.    *)
BusyHasBuilder == busy => Rebuilding

(* Unless rebuilds overlapped or panicked, the client is the one the       *)
(* options ask for once all of them are dealt with: rebuild_http_client    *)
(* skips a rebuild only when it would change nothing.  A change that        *)
(* returned an error behind a stored option leaves the old client until the *)
(* next rebuild, which catches up with it.                                 *)
ClientCurrent == Idle /\ serial /\ ~missed => client = option

(* A download that waits at the gate gets to run. *)
GateOpens == \A d \in Driver : driver[d].pc = "wait" ~> driver[d].pc = "running"
=============================================================================
