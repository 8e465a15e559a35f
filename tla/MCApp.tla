-------------------------------- MODULE MCApp --------------------------------
(* The application around the downloads, for TLC: the LAN transfer, the     *)
(* peer sources (DHT, UDP tracker, local discovery, PEX), the port mapping, *)
(* encrypted links, the terminal, the MCP process, the event stream, the    *)
(* claims on paths, the bans and the choice of files.                       *)
(*                                                                          *)
(* A behaviour is of one of these, `part`, with one choice of constants.    *)
(* The parts share the variables: each uses as many as its module has, in   *)
(* the order in which that declares them, and the rest stay Unused.         *)
EXTENDS Naturals, Sequences, FiniteSets

CONSTANTS t1, t2, h1, h2, h3, p1, p2, q1, q2, x1, x2, e1, c1, c2, c3, Nobody

VARIABLES part, a, b, c, d, e, f, g, h, i, j, k, l, m, n, o

allVars == <<part, a, b, c, d, e, f, g, h, i, j, k, l, m, n, o>>

LA == INSTANCE LanTransfer WITH
    Task <- {t1, t2}, Size <- 1, Lengths <- {1}, Nobody <- Nobody, Racing <- FALSE,
    MaxTrouble <- 0,
    out <- a, in <- b, stop <- c, tx <- d, link <- e, rx <- f, disk <- g, data <- h, trouble <- i

(* One file, which may have changed its length, and something that breaks. *)
LB == INSTANCE LanTransfer WITH
    Task <- {t1}, Size <- 2, Lengths <- {1, 2, 3}, Nobody <- Nobody, Racing <- FALSE,
    MaxTrouble <- 1,
    out <- a, in <- b, stop <- c, tx <- d, link <- e, rx <- f, disk <- g, data <- h, trouble <- i

LC == INSTANCE LanControl WITH
    Call <- {c1, c2, c3}, Service <- {x1, x2}, NoService <- Nobody,
    enabled <- a, stored <- b, current <- c, listening <- d, lock <- e, call <- f

(* Two lookups at once, then one of several rounds, then the announcements. *)
DA == INSTANCE Dht WITH
    Node <- {1, 2}, K <- 1, Tid <- {t1}, Lookup <- {q1, q2}, Rounds <- 1, Hash <- {},
    Hashes <- 2, Peer <- {}, PeersEach <- 1, InNet <- 1, NoQuery <- Nobody,
    live <- a, spare <- b, pending <- c, net <- d, look <- e, order <- f, known <- g
DB == INSTANCE Dht WITH
    Node <- {1, 2}, K <- 1, Tid <- {t1}, Lookup <- {q1}, Rounds <- 2, Hash <- {},
    Hashes <- 2, Peer <- {}, PeersEach <- 1, InNet <- 2, NoQuery <- Nobody,
    live <- a, spare <- b, pending <- c, net <- d, look <- e, order <- f, known <- g
DC == INSTANCE Dht WITH
    Node <- {}, K <- 1, Tid <- {t1}, Lookup <- {}, Rounds <- 1, Hash <- {h1, h2, h3},
    Hashes <- 2, Peer <- {p1, p2}, PeersEach <- 1, InNet <- 1, NoQuery <- Nobody,
    live <- a, spare <- b, pending <- c, net <- d, look <- e, order <- f, known <- g

UD == INSTANCE UdpTracker WITH
    FirstDelay <- 1, MaxDelay <- 2, Deadline <- 3, Lossy <- TRUE, Refuses <- TRUE,
    at <- a, clock <- b, delay <- c, waits <- d, net <- e, answers <- f, given <- g

PF == INSTANCE PeerFinding WITH
    Host <- {h1, h2}, Torrent <- {t1}, NoTorrent <- Nobody, Peer <- {p1, p2}, V6 <- {p2},
    MaxStops <- 1, MaxChanges <- 2,
    tasks <- a, bound <- b, buffer <- c, local <- d, stops <- e, linked <- f, sent <- g,
    wire <- h, view <- i, changes <- j

PM == INSTANCE PortMapping WITH
    Lease <- 3, MaxFails <- 4,
    router <- a, pmp <- b, stage <- c, next <- d, due <- e, missed <- f, fails <- g, down <- h

SL == INSTANCE SecureLink WITH
    ModesA <- {"prefer", "force", "plain"}, ModesB <- {"prefer", "force", "plain"},
    Chunk <- 4, Msgs <- 2, Late <- TRUE,
    enc <- a, at <- b, wire <- c, rest <- d, wpos <- e, rpos <- f, rc4 <- g, told <- h,
    got <- i, again <- j, late <- k

(* Two tasks and the keys that move; one task and every dialog while other  *)
(* clients act; the settings and their list.                                *)
TA == INSTANCE Tui WITH
    N <- 2, Keys <- {"down", "enter", "x", "tab"}, Tabs <- {"All", "Downloading"}, Rows <- 0,
    Rpc <- FALSE,
    real <- a, urls <- b, tasks <- c, ui <- d, main <- e, hub <- f, draw <- g
TB == INSTANCE Tui WITH
    N <- 1, Keys <- {"enter", "x", "q", "a", "s", "?", "u"}, Tabs <- {"All"}, Rows <- 0,
    Rpc <- TRUE,
    real <- a, urls <- b, tasks <- c, ui <- d, main <- e, hub <- f, draw <- g
TC == INSTANCE Tui WITH
    N <- 0, Keys <- {"down", "tab", "s", "a", "enter", "esc"}, Tabs <- {"All"}, Rows <- 2,
    Rpc <- TRUE,
    real <- a, urls <- b, tasks <- c, ui <- d, main <- e, hub <- f, draw <- g

HO == INSTANCE Handover WITH
    Gid <- {t1}, Tools <- {"add", "resume", "pause", "remove", "query", "lan"}, Mcp <- TRUE,
    Racing <- FALSE, MaxStarts <- 2, MaxLaunches <- 2,
    app <- a, listed <- b, appRuns <- c, mode <- d, local <- e, session <- f, watcher <- g,
    handed <- h, relay <- i, lanUp <- j, step <- k, call <- l, starts <- m, launches <- n

EV == INSTANCE Events WITH
    Gid <- {t1}, Cap <- 2, Slow <- FALSE, MaxResumes <- 2,
    status <- a, started <- b, running <- c, unsaid <- d, channel <- e, proto <- f, asked <- g,
    view <- h, resumes <- i

MI == INSTANCE McpImport WITH
    Gid <- {t1, t2}, MaxImported <- 2, MaxCrashes <- 2, FullDisk <- FALSE,
    mcp <- a, session <- b, imported <- c, tasks <- d, added <- e, stage <- f, deleted <- g,
    crashes <- h

(* Two tasks that want one name, then one over restarts. *)
PA == INSTANCE TargetPaths WITH
    Task <- {t1, t2}, Ranges <- {t1}, Listed <- {t2}, LastName <- 1, MaxRestarts <- 0,
    status <- a, path <- b, claims <- c, file <- d, ctrl <- e, try <- f, clash <- g,
    intent <- h, saved <- i, restarts <- j
PB == INSTANCE TargetPaths WITH
    Task <- {t1}, Ranges <- {t1}, Listed <- {}, LastName <- 1, MaxRestarts <- 2,
    status <- a, path <- b, claims <- c, file <- d, ctrl <- e, try <- f, clash <- g,
    intent <- h, saved <- i, restarts <- j

BA == INSTANCE Bans WITH
    Ip <- {x1, x2}, Engine <- {e1}, Caller <- {c1}, Overlap <- FALSE, MaxTimed <- 2,
    list <- a, banned <- b, engines <- c, job <- d, saved <- e, timed <- f, owed <- g

SE == INSTANCE Selecting WITH
    File <- {x1, x2}, Magnet <- TRUE, Racing <- FALSE, MaxPauses <- 2, MaxCrashes <- 1,
    MaxChoices <- 2,
    status <- a, queued <- b, intent <- c, cancelled <- d, awaiting <- e, chosen <- f,
    meta <- g, worker <- h, opened <- i, wants <- j, done <- k, data <- l, pauses <- m,
    crashes <- n, choices <- o

ASSUME LanConstants == LA!LanAssumption /\ LB!LanAssumption /\ LC!ControlAssumption
ASSUME SourceConstants ==
    /\ DA!DhtAssumption /\ DB!DhtAssumption /\ DC!DhtAssumption /\ UD!UdpTrackerAssumption
    /\ PM!PortMappingAssumption /\ SL!SecureLinkAssumption
ASSUME FrontConstants ==
    /\ TA!TuiAssumption /\ TB!TuiAssumption /\ TC!TuiAssumption
    /\ HO!HandoverAssumption /\ EV!EventsAssumption
ASSUME KeptConstants ==
    /\ MI!McpImportAssumption /\ PA!TargetPathsAssumption /\ PB!TargetPathsAssumption
    /\ BA!BansAssumption /\ SE!SelectingAssumption

----------------------------------------------------------------------------
(* The variables a part does not use. *)
Idle15 == TRUE
Idle14 == o = Nobody
Idle11 == l = Nobody /\ m = Nobody /\ n = Nobody /\ Idle14
Idle10 == k = Nobody /\ Idle11
Idle9 == j = Nobody /\ Idle10
Idle8 == i = Nobody /\ Idle9
Idle7 == h = Nobody /\ Idle8
Idle6 == g = Nobody /\ Idle7

AppInit ==
    \/ part = "lan" /\ LA!LanInit /\ Idle9
    \/ part = "broken lan" /\ LB!LanInit /\ Idle9
    \/ part = "lan switch" /\ LC!ControlInit /\ Idle6
    \/ part = "dht" /\ DA!DhtInit /\ Idle7
    \/ part = "dht rounds" /\ DB!DhtInit /\ Idle7
    \/ part = "dht peers" /\ DC!DhtInit /\ Idle7
    \/ part = "udp" /\ UD!UdpInit /\ Idle7
    \/ part = "find" /\ PF!FindInit /\ Idle10
    \/ part = "mapping" /\ PM!MapInit /\ Idle8
    \/ part = "link" /\ SL!LinkInit /\ Idle11
    \/ part = "cursor" /\ TA!TuiInit /\ Idle7
    \/ part = "dialogs" /\ TB!TuiInit /\ Idle7
    \/ part = "settings" /\ TC!TuiInit /\ Idle7
    \/ part = "handover" /\ HO!HandoverInit /\ Idle14
    \/ part = "events" /\ EV!EventsInit /\ Idle9
    \/ part = "import" /\ MI!McpInit /\ Idle8
    \/ part = "paths" /\ PA!PathsInit /\ Idle10
    \/ part = "old paths" /\ PB!PathsInit /\ Idle10
    \/ part = "bans" /\ BA!BansInit /\ Idle7
    \/ part = "choice" /\ SE!SelectingInit /\ Idle15

(* A step of a part that has so many variables. *)
Of6(name, step) == part = name /\ step /\ UNCHANGED <<part, g, h, i, j, k, l, m, n, o>>
Of7(name, step) == part = name /\ step /\ UNCHANGED <<part, h, i, j, k, l, m, n, o>>
Of8(name, step) == part = name /\ step /\ UNCHANGED <<part, i, j, k, l, m, n, o>>
Of9(name, step) == part = name /\ step /\ UNCHANGED <<part, j, k, l, m, n, o>>
Of10(name, step) == part = name /\ step /\ UNCHANGED <<part, k, l, m, n, o>>
Of11(name, step) == part = name /\ step /\ UNCHANGED <<part, l, m, n, o>>
Of14(name, step) == part = name /\ step /\ UNCHANGED <<part, o>>
Of15(name, step) == part = name /\ step /\ UNCHANGED part

AppNext ==
    \/ Of9("lan", LA!LanNext)
    \/ Of9("broken lan", LB!LanNext)
    \/ Of6("lan switch", LC!ControlNext)
    \/ Of7("dht", DA!DhtNext)
    \/ Of7("dht rounds", DB!DhtNext)
    \/ Of7("dht peers", DC!DhtNext)
    \/ Of7("udp", UD!UdpNext)
    \/ Of10("find", PF!FindNext)
    \/ Of8("mapping", PM!MapNext)
    \/ Of11("link", SL!LinkNext)
    \/ Of7("cursor", TA!TuiNext)
    \/ Of7("dialogs", TB!TuiNext)
    \/ Of7("settings", TC!TuiNext)
    \/ Of14("handover", HO!HandoverNext)
    \/ Of9("events", EV!EventsNext)
    \/ Of8("import", MI!McpNext)
    \/ Of10("paths", PA!PathsNext)
    \/ Of10("old paths", PB!PathsNext)
    \/ Of7("bans", BA!BansNext)
    \/ Of15("choice", SE!SelectingNext)

(* The fairness of each part.  A behaviour is of one part for ever, so that *)
(* conditions of different parts may share one formula.                     *)
AppFairness ==
    /\ WF_allVars(\/ Of9("lan", LA!SendStep) \/ Of9("broken lan", LB!SendStep)
                  \/ Of7("dht", DA!LookStep(q1)) \/ Of7("dht rounds", DB!LookStep(q1))
                  \/ Of7("udp", UD!Send \/ UD!Elapse \/ UD!GiveUp)
                  \/ Of10("find", PF!Listen(h1))
                  \/ Of14("handover", HO!Loop)
                  \/ Of9("events", EV!Announces(t1))
                  \/ Of15("choice", SE!Work))
    /\ WF_allVars(\/ Of9("lan", LA!ReceiveStep(t1)) \/ Of9("broken lan", LB!ReceiveStep(t1))
                  \/ Of7("dht", DA!LookStep(q2))
                  \/ Of10("find", PF!Listen(h2))
                  \/ Of14("handover", HO!Stopped(t1))
                  \/ Of9("events", EV!Ticks(t1))
                  \/ Of15("choice", SE!Fetch(x1)))
    /\ WF_allVars(\/ Of9("lan", LA!ReceiveStep(t2))
                  \/ Of10("find", PF!Announce(h1, t1))
                  \/ Of9("events", \E u \in d : EV!Says(u))
                  \/ Of15("choice", SE!Fetch(x2)))
    /\ WF_allVars(\/ Of10("find", PF!Announce(h2, t1))
                  \/ Of9("events", EV!Receives))
    /\ SF_allVars(Of14("handover", HO!Watches))

AppSpec == AppInit /\ [][AppNext]_allVars /\ AppFairness

----------------------------------------------------------------------------
(* A file that arrived over the LAN is whole and under a name of its own,   *)
(* what either side calls done is there, and at most one service listens.   *)
LanWhole ==
    /\ part = "lan" => LA!WholeOrNothing
    /\ part = "broken lan" => LB!WholeOrNothing
    /\ part = "lan switch" => LC!OneService

(* What the peer sources keep and hand out is true: the DHT's bucket and    *)
(* its pending answers, announced peers, a tracker's answer, what PEX told, *)
(* the router's mappings, and both ends' view of an encrypted link.         *)
SourcesTrue ==
    /\ part = "dht" => DA!BucketSound /\ DA!AnswersOwn
    /\ part = "dht rounds" => DB!BucketSound /\ DB!AnswersOwn
    /\ part = "dht peers" => DC!KnownBounded
    /\ part = "udp" => UD!AnsweredTruly
    /\ part = "find" => PF!PexAgrees
    /\ part = "mapping" => PM!MappedAndReturned
    /\ part = "link" => SL!LinkSound

(* The terminal's cursors and dialogs fit what the engine has, and the MCP  *)
(* process that gave way starts nothing.                                    *)
FrontsSound ==
    /\ part = "cursor" => TA!ScreenSound
    /\ part = "dialogs" => TB!ScreenSound
    /\ part = "settings" => TC!ScreenSound
    /\ part = "handover" => HO!Yielded

(* What the application keeps of its tasks agrees: no claim on a path is    *)
(* leaked, no task of the MCP process is lost over a crash, every engine    *)
(* bans what the list bans, and what is marked of a chosen file is on disk. *)
KeptInStep ==
    /\ part = "paths" => PA!ClaimsHeld
    /\ part = "old paths" => PB!ClaimsHeld
    /\ part = "import" => MI!NothingLost
    /\ part = "bans" => BA!EnginesAgree
    /\ part = "choice" => SE!ChosenOnDisk

(* What a part waits for, and that it has come. *)
Waits ==
    \/ part = "lan" /\ a[t1] \in LA!Open
    \/ part = "broken lan" /\ a[t1] \in LB!Open
    \/ part \in {"dht", "dht rounds"} /\ e[q1].pc # "off"
    \/ part = "udp"
    \/ part = "find" /\ e = 1 /\ t1 \in a[h1] \cap a[h2]
    \/ part = "handover" /\ a = "listening" /\ d = "embedded"
    \/ part = "events" /\ EV!Subscribed /\ a[t1] = "active"
    \/ part = "choice" /\ a = "active"
Served ==
    \/ part = "lan" /\ a[t1] \notin LA!Open
    \/ part = "broken lan" /\ a[t1] \notin LB!Open
    \/ part \in {"dht", "dht rounds"} /\ e[q1].pc \in {"over", "off"}
    \/ part = "udp" /\ a \notin UD!Exchanges
    \/ part = "find" /\ (h1 \in d[h2][t1] \/ h2 \in d[h1][t1])
    \/ part = "handover" /\ (HO!Quiet \/ a # "listening" \/ d # "embedded")
    \/ part = "events" /\ (h[t1] = "active" \/ a[t1] # "active" \/ ~EV!Subscribed)
    \/ part = "choice" /\ a \in {"complete", "paused"}

(* Nothing waits for ever: a file in the serial queue of the LAN transfer,  *)
(* a lookup nobody answers, an announce no datagram of which gets through,  *)
(* two hosts with one torrent, the MCP process that must give way, a        *)
(* subscriber to whom a task runs, a task whose files are chosen.           *)
AppGoesOn == Waits ~> Served
=============================================================================
