------------------------------- MODULE MCHttp -------------------------------
(* HttpDownload with its segments and the HTTP client all downloads share,  *)
(* for TLC.  A behaviour is of one of them, `part`; the other stands still  *)
(* in an initial state of its own, so that one run checks both.             *)
EXTENDS HttpDownload, HttpClient

VARIABLE part    \* "http", "client"

(* What may go wrong together. *)
MCTroubles == {{"save", "crash", "power"}, {"save", "sync", "pause"}, {"short"},
               {"error"}, {"io"}, {"panic"}, {"adapt", "lease"},
               {"ignores", "save", "crash"}}

allVars == <<part, httpVars, vars>>

PartsInit ==
    /\ part \in {"http", "client"}
    /\ HttpInit /\ (part # "http" => trouble = {"short"} /\ site = "plain")
    /\ Init

PartsNext ==
    \/ part = "http" /\ HttpNext /\ UNCHANGED <<part, vars>>
    \/ part = "client" /\ Next /\ UNCHANGED <<part, httpVars>>

(* Each part's own fairness. *)
PartsFairness ==
    /\ \A c \in Conn :
         /\ WF_httpVars(part = "http" /\ ConnStep(c) /\ Rest)
         /\ WF_httpVars(part = "http" /\ Grow(c) /\ Rest)
    /\ WF_httpVars(part = "http" /\ SyncStep /\ Rest)
    /\ WF_httpVars(part = "http" /\ FinishStep /\ Rest)
    /\ WF_httpVars(part = "http" /\ DriveStep)
    /\ \A c \in Caller : WF_vars(part = "client" /\ Rebuild(c))
    /\ \A b \in Builder : WF_vars(part = "client" /\ BuildStep(b))
    /\ \A d \in Driver : WF_vars(part = "client" /\ Enter(d))

PartsSpec == PartsInit /\ [][PartsNext]_allVars /\ PartsFairness

(* A download, whatever fails, comes to rest done, failed or paused         *)
(* (HttpDownload's DownloadEnds); and a driver that waits for the client    *)
(* gets past the gate (HttpClient's GateOpens).                             *)
HttpEnds == /\ part = "http" => DownloadEnds
            /\ GateOpens
=============================================================================
