------------------------------- MODULE Events -------------------------------
(* What a client of the RPC WebSocket sees of the tasks.  The engine sends  *)
(* its events on a broadcast channel after it changed the status and after  *)
(* it let the lock go (manager.rs: emit); a connection turns them into      *)
(* frames of the protocol its first request used (xfer-rpc/transport.rs):   *)
(* the compatible frames carry only the event, the native progress frame    *)
(* the status at the time it is made.                                       *)
(* Abstracted: the methods that change no status and send no event; batches *)
(* and multicall, which are their calls one by one; the token.              *)
EXTENDS Naturals, Sequences, SequencesExt

CONSTANTS
  Gid,
  Cap,        \* capacity of the broadcast channel, 256 in the code
  Slow,       \* TRUE: a connection may be a second of events behind
  MaxResumes  \* bound: resumptions and additions

EventsAssumption == Cap \in Nat \ {0} /\ Slow \in BOOLEAN /\ MaxResumes \in Nat

VARIABLES
  status,   \* of each task
  started,  \* tasks set active whose start is not announced yet
  running,  \* tasks with a worker (and its ticker)
  unsaid,   \* events whose status is set and that are still to be sent
  channel,  \* the events this connection has not received
  proto,    \* the connection: "none", "new", "compat", "native"
  asked,    \* it subscribed to the native events
  view,     \* the status of each task as the client knows it
  resumes

task_vars == <<status, started, running, unsaid, resumes>>
eventsVars == <<task_vars, channel, proto, asked, view>>

Ended == {"paused", "complete", "error", "gone"}
Statuses == Ended \cup {"waiting", "active"}
EventOf(s) == CASE s = "paused" -> "pause" [] s = "gone" -> "stop" [] OTHER -> s
StatusOf(e) ==
  CASE e = "start" -> "active" [] e = "pause" -> "paused" [] e = "stop" -> "gone" [] OTHER -> e
Events == {"start", "progress"} \cup {EventOf(s) : s \in Ended}

EventsTypes ==
  /\ status \in [Gid -> Statuses] /\ view \in [Gid -> Statuses]
  /\ started \subseteq Gid /\ running \subseteq Gid
  /\ unsaid \subseteq Events \X Gid
  /\ channel \in BoundedSeq(Events \X Gid, Cap)
  /\ proto \in {"none", "new", "compat", "native"} /\ asked \in BOOLEAN
  /\ resumes \in 0..MaxResumes

EventsInit ==
  /\ status = [g \in Gid |-> "gone"] /\ view = [g \in Gid |-> "gone"]
  /\ started = {} /\ running = {} /\ unsaid = {} /\ resumes = 0
  /\ channel = <<>> /\ proto = "none" /\ asked = FALSE

----------------------------------------------------------------------------
(* The engine.                                                              *)
Emit(e, g) ==
  channel' = CASE proto = "none" -> channel
               [] Len(channel) = Cap -> Append(Tail(channel), <<e, g>>)
               [] OTHER -> Append(channel, <<e, g>>)

Becomes(g, s) == status' = [status EXCEPT ![g] = s]

(* Adding and resuming queue the task and announce nothing.                 *)
Queued(g) ==
  /\ status[g] \in {"gone", "paused", "error"} /\ resumes < MaxResumes
  /\ resumes' = resumes + 1
  /\ Becomes(g, "waiting")
  /\ UNCHANGED <<started, running, unsaid, channel, proto, asked, view>>

Launches(g) ==
  /\ status[g] = "waiting"
  /\ Becomes(g, "active")
  /\ started' = started \cup {g}
  /\ UNCHANGED <<running, unsaid, resumes, channel, proto, asked, view>>

Announces(g) ==
  /\ g \in started
  /\ Emit("start", g)
  /\ started' = started \ {g} /\ running' = running \cup {g}
  /\ UNCHANGED <<status, unsaid, resumes, proto, asked, view>>

(* speed_ticker, once a second while the worker runs.                       *)
Ticks(g) ==
  /\ g \in running
  /\ Slow \/ \A i \in DOMAIN channel : channel[i] # <<"progress", g>>
  /\ proto # "none"
  /\ Emit("progress", g)
  /\ UNCHANGED <<task_vars, proto, asked, view>>

WorkerEnds(g, s) ==
  /\ g \in running /\ status[g] = "active"
  /\ Becomes(g, s)
  /\ running' = running \ {g}
  /\ unsaid' = unsaid \cup {<<EventOf(s), g>>}
  /\ UNCHANGED <<started, resumes, channel, proto, asked, view>>

(* pause and remove of a task that has no worker.                           *)
Idles(g, s) ==
  /\ \/ s = "paused" /\ status[g] = "waiting"
     \/ s = "gone" /\ status[g] \in {"waiting", "paused", "complete", "error"}
  /\ Becomes(g, s)
  /\ unsaid' = unsaid \cup {<<EventOf(s), g>>}
  /\ UNCHANGED <<started, running, resumes, channel, proto, asked, view>>

Says(u) ==
  /\ u \in unsaid
  /\ Emit(u[1], u[2])
  /\ unsaid' = unsaid \ {u}
  /\ UNCHANGED <<status, started, running, resumes, proto, asked, view>>

----------------------------------------------------------------------------
(* The connection.                                                          *)
Connects ==
  /\ proto = "none"
  /\ proto' = "new" /\ asked' = FALSE /\ channel' = <<>>
  /\ UNCHANGED <<task_vars, view>>

Closes ==
  /\ proto # "none"
  /\ proto' = "none" /\ channel' = <<>> /\ asked' = FALSE
  /\ view' = [g \in Gid |-> "gone"]
  /\ UNCHANGED task_vars

Family(p) == IF proto = "new" THEN p ELSE proto

(* task.list, or tellActive, tellWaiting and tellStopped.                   *)
Lists(p) ==
  /\ proto # "none"
  /\ proto' = Family(p)
  /\ view' = status
  /\ UNCHANGED <<task_vars, channel, asked>>

Subscribes ==
  /\ proto # "none"
  /\ proto' = Family("native") /\ asked' = TRUE
  /\ UNCHANGED <<task_vars, channel, view>>

Frame(e, g) ==
  CASE e # "progress" -> StatusOf(e)
    [] proto = "native" /\ status[g] # "gone" -> status[g]
    [] OTHER -> view[g]

Receives ==
  /\ channel # <<>>
  /\ channel' = Tail(channel)
  /\ LET e == Head(channel)[1]  g == Head(channel)[2] IN
     view' = IF proto = "compat" \/ (proto = "native" /\ asked)
             THEN [view EXCEPT ![g] = Frame(e, g)] ELSE view
  /\ UNCHANGED <<task_vars, proto, asked>>

----------------------------------------------------------------------------
EventsNext ==
  \/ \E g \in Gid :
       \/ Queued(g) \/ Launches(g) \/ Announces(g) \/ Ticks(g)
       \/ \E s \in Ended : WorkerEnds(g, s) \/ Idles(g, s)
  \/ \E u \in unsaid : Says(u)
  \/ Connects \/ Closes \/ Subscribes \/ Receives
  \/ \E p \in {"compat", "native"} : Lists(p)

EventsSpec == EventsInit /\ [][EventsNext]_eventsVars

EventsFairness ==
  /\ \A g \in Gid : WF_eventsVars(Announces(g)) /\ WF_eventsVars(Ticks(g))
  /\ WF_eventsVars(\E u \in unsaid : Says(u))
  /\ WF_eventsVars(Receives)

EventsFairSpec == EventsSpec /\ EventsFairness

----------------------------------------------------------------------------
Subscribed == proto = "native" /\ asked

(* A native subscriber sees that a task runs, whatever order the events     *)
(* came in: the progress frames bring the status itself.                    *)
ViewSettles ==
  \A g \in Gid :
    <>[](Subscribed /\ status[g] = "active") => <>[](view[g] = "active")

(* "客户端无需轮询": with every event sent and received, a client that listed  *)
(* the tasks knows which ones are not waiting and what became of them.      *)
Knows ==
  (Subscribed \/ proto = "compat") /\ channel = <<>> /\ unsaid = {} /\ started = {} =>
    \A g \in Gid : view[g] \in {"paused", "complete", "error"} => status[g] # "active"

=============================================================================
