------------------------------ MODULE Handover ------------------------------
(* `xferrust mcp` serves an agent over stdio (src/main.rs).  When the       *)
(* application already offers MCP, it relays every line to it; otherwise it *)
(* runs an engine of its own, and gives way as soon as the application is   *)
(* up: it pauses its tasks, saves its session, stops the LAN service, sets  *)
(* handed_over, and from then on forwards the lines to the application or,  *)
(* when that has no MCP, refuses what would start a download.  The tasks of *)
(* the session reach the application when it starts (McpImport).            *)
(* Abstracted: JSON and formatting; a failing read of a file; the arguments *)
(* of a tool other than the task it names; queries are one tool.            *)
EXTENDS Naturals

CONSTANTS
  Gid,
  Tools,       \* the tools the agent calls
  Mcp,         \* the application's mcp-enabled setting
  Racing,      \* TRUE: a line may be handled while the watcher hands over
  MaxStarts,   \* bound: starts of the application
  MaxLaunches  \* bound: launches of the stdio process

HandoverAssumption ==
  /\ Tools \subseteq {"add", "resume", "pause", "remove", "query", "lan"}
  /\ Mcp \in BOOLEAN /\ Racing \in BOOLEAN
  /\ MaxStarts \in Nat /\ MaxLaunches \in Nat \ {0}

VARIABLES
  app,      \* "off", "booted" (session read), "listening"
  listed,   \* the tasks the application has
  appRuns,  \* those it runs
  mode,     \* "off", "relay", "embedded"
  local,    \* the tasks of the stdio process's engine
  session,  \* those saved in mcp/session.json
  watcher,  \* the next step of the task that waits for the application
  handed,   \* handed_over
  relay,    \* relay: lines go to the application
  lanUp,    \* the stdio process holds the LAN discovery port
  step,     \* where the request loop is
  call,     \* the tool being called, and the task it names
  starts, launches

local_vars == <<mode, local, session, watcher, handed, relay, lanUp, launches>>
loop_vars == <<step, call>>
app_vars == <<app, listed, appRuns, starts>>
handoverVars == <<local_vars, loop_vars, app_vars>>

Calls == [tool : Tools, gid : Gid]

HandoverTypes ==
  /\ app \in {"off", "booted", "listening"}
  /\ listed \subseteq Gid /\ appRuns \subseteq Gid /\ session \subseteq Gid
  /\ mode \in {"off", "relay", "embedded"}
  /\ local \in [Gid -> {"none", "waiting", "active", "stopping", "leaving", "paused"}]
  /\ watcher \in {"probe", "save", "lan", "give", "health", "done"}
  /\ handed \in BOOLEAN /\ relay \in BOOLEAN /\ lanUp \in BOOLEAN
  /\ step \in {"idle", "picked", "forward", "gate", "act"}
  /\ call \in Calls
  /\ starts \in 0..MaxStarts /\ launches \in 0..MaxLaunches

HandoverInit ==
  /\ app = "off" /\ listed = {} /\ appRuns = {} /\ starts = 0
  /\ mode = "off" /\ local = [g \in Gid |-> "none"] /\ session = {}
  /\ watcher = "probe" /\ handed = FALSE /\ relay = FALSE /\ lanUp = FALSE
  /\ step = "idle" /\ call \in Calls /\ launches = 0

----------------------------------------------------------------------------
(* The application.                                                         *)
Boot ==
  /\ app = "off" /\ starts < MaxStarts
  /\ app' = "booted" /\ starts' = starts + 1
  /\ listed' = listed \cup session
  /\ UNCHANGED <<appRuns, local_vars, loop_vars>>

Serves ==
  /\ app = "booted"
  /\ app' = "listening"
  /\ UNCHANGED <<listed, appRuns, starts, local_vars, loop_vars>>

Leaves ==
  /\ app = "listening"
  /\ app' = "off" /\ appRuns' = {}
  /\ UNCHANGED <<listed, starts, local_vars, loop_vars>>

(* A task that was taken over is paused until the user resumes it.          *)
UserResumes(g) ==
  /\ app # "off" /\ g \in listed
  /\ appRuns' = appRuns \cup {g}
  /\ UNCHANGED <<app, listed, starts, local_vars, loop_vars>>

(* A tool called at the application.                                        *)
Remote(c) ==
  /\ listed' = CASE c.tool = "add" -> listed \cup {c.gid}
                 [] c.tool = "remove" -> listed \ {c.gid}
                 [] OTHER -> listed
  /\ appRuns' = CASE c.tool = "add" -> appRuns \cup {c.gid}
                  [] c.tool = "resume" -> appRuns \cup ({c.gid} \cap listed)
                  [] c.tool \in {"pause", "remove"} -> appRuns \ {c.gid}
                  [] OTHER -> appRuns

----------------------------------------------------------------------------
(* The engine of the stdio process.  Every change of a task saves the       *)
(* session; an active task goes on until its worker notices.                *)
Launch ==
  /\ mode = "off" /\ launches < MaxLaunches
  /\ launches' = launches + 1
  /\ IF app = "listening" /\ Mcp
     THEN mode' = "relay" /\ UNCHANGED local
     ELSE mode' = "embedded" /\ local' = [g \in Gid |-> IF g \in session THEN "paused" ELSE "none"]
  /\ watcher' = "probe" /\ handed' = FALSE /\ relay' = FALSE /\ lanUp' = FALSE
  /\ UNCHANGED <<session, app_vars, loop_vars>>

Scheduled(g) ==
  /\ local[g] = "waiting"
  /\ local' = [local EXCEPT ![g] = "active"]
  /\ UNCHANGED <<mode, session, watcher, handed, relay, lanUp, launches, app_vars, loop_vars>>

Stopped(g) ==
  /\ local[g] \in {"stopping", "leaving"}
  /\ local' = [local EXCEPT ![g] = IF local[g] = "stopping" THEN "paused" ELSE "none"]
  /\ session' = IF local[g] = "leaving" THEN session \ {g} ELSE session
  /\ UNCHANGED <<mode, watcher, handed, relay, lanUp, launches, app_vars, loop_vars>>

Pausing(s) == CASE s = "waiting" -> "paused" [] s = "active" -> "stopping" [] OTHER -> s

Handled(c) ==
  LET s == local[c.gid] IN
  /\ local' = [local EXCEPT ![c.gid] =
       CASE c.tool = "add" /\ s = "none" -> "waiting"
         [] c.tool = "resume" /\ s = "paused" -> "waiting"
         [] c.tool = "pause" -> Pausing(s)
         [] c.tool = "remove" /\ s \in {"active", "stopping"} -> "leaving"
         [] c.tool = "remove" /\ s \in {"waiting", "paused"} -> "none"
         [] OTHER -> s]
  /\ session' = CASE c.tool = "add" -> session \cup {c.gid}
                  [] c.tool = "remove" /\ s \in {"waiting", "paused"} -> session \ {c.gid}
                  [] OTHER -> session

Quit ==
  /\ mode # "off" /\ step = "idle"
  /\ mode' = "off" /\ local' = [g \in Gid |-> "none"] /\ lanUp' = FALSE
  /\ UNCHANGED <<session, watcher, handed, relay, launches, app_vars, loop_vars>>

----------------------------------------------------------------------------
(* The task that looks for the application every 400 ms.                    *)
Moves(from, to) ==
  /\ mode = "embedded" /\ watcher = from /\ watcher' = to
  /\ Racing \/ step = "idle"
  /\ UNCHANGED <<mode, launches, app_vars, loop_vars>>

PausedAll == [g \in Gid |-> Pausing(local[g])]

Probe ==
  /\ app = "listening"
  /\ Moves("probe", "save")
  /\ local' = PausedAll
  /\ UNCHANGED <<session, handed, relay, lanUp>>

SavesSession ==
  /\ Moves("save", "lan")
  /\ session' = {g \in Gid : local[g] # "none"}
  /\ UNCHANGED <<local, handed, relay, lanUp>>

StopsLan ==
  /\ Moves("lan", "give")
  /\ lanUp' = FALSE
  /\ UNCHANGED <<local, session, handed, relay>>

Gives ==
  /\ Moves("give", "health")
  /\ handed' = TRUE
  /\ UNCHANGED <<local, session, relay, lanUp>>

Health ==
  /\ Moves("health", "done")
  /\ relay' = (Mcp /\ app = "listening")
  /\ UNCHANGED <<local, session, handed, lanUp>>

----------------------------------------------------------------------------
(* The request loop.                                                        *)
Read(c) ==
  /\ mode # "off" /\ step = "idle"
  /\ Racing \/ watcher \in {"probe", "done"} \/ mode = "relay"
  /\ step' = "picked" /\ call' = c
  /\ UNCHANGED <<local_vars, app_vars>>

Goes(from, to) == step = from /\ step' = to /\ UNCHANGED call

PickUp ==
  /\ Goes("picked", IF relay \/ mode = "relay" THEN "forward" ELSE "gate")
  /\ UNCHANGED <<local_vars, app_vars>>

Forwarded ==
  /\ app = "listening"
  /\ Goes("forward", "idle")
  /\ Remote(call)
  /\ UNCHANGED <<app, starts, local_vars>>

(* No answer: the relaying process reports an error, the embedded one falls *)
(* back to its own engine and never forwards again.  The application may    *)
(* have done the call.                                                      *)
ForwardFails ==
  /\ Goes("forward", IF mode = "relay" THEN "idle" ELSE "gate")
  /\ relay' = FALSE
  /\ (app = "listening" /\ Remote(call)) \/ UNCHANGED <<listed, appRuns>>
  /\ UNCHANGED <<mode, local, session, watcher, handed, lanUp, launches, app, starts>>

Refuses == {"add", "resume"}

Refused ==
  /\ handed /\ ~relay /\ call.tool \in Refuses
  /\ Goes("gate", "idle")
  /\ UNCHANGED <<local_vars, app_vars>>

Passes ==
  /\ ~(handed /\ ~relay /\ call.tool \in Refuses)
  /\ Goes("gate", "act")
  /\ UNCHANGED <<local_vars, app_vars>>

NeedsLan == {"lan"}

Act ==
  /\ Goes("act", "idle")
  /\ lanUp' = (lanUp \/ call.tool \in NeedsLan)
  /\ Handled(call)
  /\ UNCHANGED <<mode, watcher, handed, relay, launches, app_vars>>

----------------------------------------------------------------------------
Watches == Probe \/ SavesSession \/ StopsLan \/ Gives \/ Health
Loop == PickUp \/ Forwarded \/ ForwardFails \/ Refused \/ Passes \/ Act

HandoverNext ==
  \/ Boot \/ Serves \/ Leaves \/ Launch \/ Quit
  \/ \E g \in Gid : UserResumes(g) \/ Scheduled(g) \/ Stopped(g)
  \/ Watches
  \/ \E c \in Calls : Read(c)
  \/ Loop

HandoverSpec == HandoverInit /\ [][HandoverNext]_handoverVars

(* The watcher is a task of its own that no request blocks: when Racing is  *)
(* FALSE it only waits for its turn.  A worker notices its cancellation and *)
(* a call that was read is served; the agent and the user may do nothing.   *)
HandoverFairness ==
  /\ SF_handoverVars(Watches)
  /\ WF_handoverVars(Loop)
  /\ \A g \in Gid : WF_handoverVars(Stopped(g))

HandoverFairSpec == HandoverSpec /\ HandoverFairness

----------------------------------------------------------------------------
(* "应用中途启动时本进程立刻让位：暂停全部任务、保存会话、停掉互传服务"：once the  *)
(* application has taken over, the stdio process's engine starts nothing,   *)
(* what it had is in the session file, and while it forwards it leaves the  *)
(* discovery port alone.                                                    *)
Yielded ==
  mode = "embedded" /\ handed =>
    /\ \A g \in Gid : local[g] \notin {"waiting", "active"}
    /\ \A g \in Gid : local[g] # "none" => g \in session
    /\ relay => ~lanUp

(* "不能让它们并存": no task is worked on by both engines.                    *)
OneEngine == \A g \in appRuns : local[g] \notin {"active", "stopping"}

(* The application being up ends what the stdio process is doing.           *)
Quiet == \A g \in Gid : local[g] \notin {"waiting", "active", "stopping"}
GivesWay == app = "listening" /\ mode = "embedded" ~> Quiet \/ app # "listening" \/ mode # "embedded"

=============================================================================
