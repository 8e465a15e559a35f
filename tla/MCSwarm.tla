------------------------------ MODULE MCSwarm ------------------------------
(* What must go on in a BT task, for TLC: its subscriptions and its         *)
(* metadata are fetched, its pieces picked and given out, its engine        *)
(* stopped.  A behaviour is of one of these, `part`; the others stand still *)
(* in an initial state of their own, so that one run checks them all.       *)
EXTENDS Naturals, Sequences

CONSTANTS u1, u2, s1, c1, x1, x2, b1, t1, t2, Nobody, Manual, Background

VARIABLES
    part,
    global, sources, subs, last, taskUrls, engine, pending, subKick, proc, lists,
    stored, wanted, assigned, queued, peer, ctx, at, joins, late,
    accum, requested, link, have, store, meta, installs, onDisk, verify, main, liars, unopened,
    turn, keen, choked, lucky, round, seeds, idle, moves,
    stage, bits, disk, ctrl, pooled, session, down, cancel, seeding, ticker, shown, busy,
    sends, runs

TS == INSTANCE TrackerSubs WITH
    Url <- {u1, u2}, Sub <- {s1}, NoSub <- Nobody, Handler <- {c1}, Refresher <- Background,
    Asked <- {"addSub", "remove", "hour"}, Legacy <- {u2}, MaxPending <- 1,
    savedLists <- lists

PI == INSTANCE BtPicker WITH
    Session <- {t1, t2}, Steady <- {t1}, Piece <- {x1, x2}, Block <- {b1}, Window <- 1,
    Queue <- 1, Choices <- {{x1, x2}}, MaxJoins <- 1, Faulty <- TRUE, queue <- queued

MA == INSTANCE BtMagnet WITH
    Session <- {t1, t2}, Honest <- {t1}, Size <- 2, Sizes <- {1, 2}, Pipe <- 2, MaxJoins <- 2,
    NeedSelect <- FALSE, joins <- liars

UP == INSTANCE BtUpload WITH
    Guest <- {t1, t2}, NoGuest <- Nobody, Regular <- 1, seeding <- seeds

RU == INSTANCE BtRun WITH
    Piece <- {x1}, SeedMode <- TRUE, MaxRuns <- 2, MaxSends <- 1, MaxLate <- 1, late <- pooled,
    status <- shown

ASSUME PartConstants ==
    PI!PickerAssumption /\ MA!MagnetAssumption /\ UP!UploadAssumption /\ RU!BtRunAssumption

(* Model values that the lists must tell apart. *)
ASSUME PartsApart == Nobody # s1 /\ Manual \notin {s1, Nobody} /\ Background # c1

subs_vars == <<global, sources, subs, last, taskUrls, engine, pending, subKick, proc, lists>>
pick_vars == <<stored, wanted, assigned, queued, peer, ctx, at, joins, late>>
magnet_vars == <<accum, requested, link, have, store, meta, installs, onDisk, verify, main,
                 liars, unopened>>
upload_vars == <<turn, keen, choked, lucky, round, seeds, idle>>
run_vars == <<stage, bits, disk, ctrl, pooled, session, down, cancel, seeding, ticker, shown,
              busy, sends, runs>>
allVars == <<part, subs_vars, pick_vars, magnet_vars, upload_vars, moves, run_vars>>

PartsInit ==
    /\ part \in {"subs", "pick", "magnet", "upload", "run"}
    /\ TS!SubsInit
    /\ PI!PickInit
    /\ MA!MagnetInit /\ (part # "magnet" => ~onDisk)
    /\ UP!UploadInit /\ moves = 0
    /\ RU!RunInit /\ (part # "run" => disk = {})

(* Peers come, go and change their minds a few times, then no more: two     *)
(* that came and asked, of whom one changed his mind, are six moves.        *)
MaxMoves == 6
Moves ==
    IF keen' = keen /\ idle' = idle /\ UP!Connected' = UP!Connected THEN UNCHANGED moves
    ELSE moves < MaxMoves /\ moves' = moves + 1

(* A step of one part, the others standing still. *)
Subs(step) ==
    /\ part = "subs" /\ step
    /\ UNCHANGED <<part, pick_vars, magnet_vars, upload_vars, moves, run_vars>>
Pick(step) ==
    /\ part = "pick" /\ step
    /\ UNCHANGED <<part, subs_vars, magnet_vars, upload_vars, moves, run_vars>>
Magnet(step) ==
    /\ part = "magnet" /\ step
    /\ UNCHANGED <<part, subs_vars, pick_vars, upload_vars, moves, run_vars>>
Upload(step) ==
    /\ part = "upload" /\ step /\ Moves
    /\ UNCHANGED <<part, subs_vars, pick_vars, magnet_vars, run_vars>>
Run(step) ==
    /\ part = "run" /\ step
    /\ UNCHANGED <<part, subs_vars, pick_vars, magnet_vars, upload_vars, moves>>

PartsNext ==
    \/ Subs(TS!SubsNext)
    \/ Pick(PI!PickNext)
    \/ Magnet(MA!MagnetNext)
    \/ Upload(UP!UploadNext)
    \/ Run(RU!RunNext)

(* decide_choking gives the slot to h; the session of h sees that it has it. *)
Lucky(h) == round = 0 /\ UP!Rolls /\ \E g \in {t1, t2} : UP!Decide(g) /\ lucky'.who = h
Sees(h) == UP!Decide(h) /\ lucky.who = h /\ ~UP!Rolls
Installs(s) == MA!OpenStore(s) \/ MA!OpenFails(s) \/ MA!SetMeta(s) \/ MA!ApplyAside(s)

(* The fairness of each part.  A behaviour is of one part for ever, so that *)
(* conditions of different parts may share one formula.                     *)
PartsFairness ==
    /\ WF_allVars(\/ Subs(TS!Refresh) \/ Pick(PI!Inner(t1)) \/ Magnet(Installs(t1))
                  \/ Upload(UP!NextWindow)
                  \/ Run(RU!RunStep /\ (stage # "seed" \/ cancel)))
    /\ WF_allVars(\/ Subs(TS!GoesOn(c1)) \/ Pick(PI!Inner(t2)) \/ Magnet(Installs(t2))
                  \/ Upload(UP!Decide(t1)) \/ Run(RU!Announce))
    /\ WF_allVars(\/ Pick(PI!Join(t1)) \/ Magnet(MA!Fetched \/ MA!Verified)
                  \/ Upload(UP!Decide(t2)) \/ Run(RU!RoundEnds))
    /\ WF_allVars(\/ Pick(PI!Has(t1, {x1, x2})) \/ Magnet(MA!Begin(t1)) \/ Run(RU!Answered("started")))
    /\ WF_allVars(\/ Pick(PI!Unchoke(t1)) \/ Magnet(link[t1].asked = {} /\ MA!Breaks(t1))
                  \/ Run(RU!Answered("none")))
    /\ WF_allVars(\/ Pick(PI!Tick(t1)) \/ Magnet(MA!Breaks(t2)) \/ Run(RU!Answered("completed")))
    /\ WF_allVars(Magnet(MA!GivesUp /\ unopened) \/ Run(RU!Answered("stopped")))
    /\ SF_allVars(\/ Pick(PI!Leave(t2)) \/ Magnet(MA!Top(t1)) \/ Upload(Lucky(t1)))
    /\ SF_allVars(\/ Pick(PI!Arrives(t1, x1, b1)) \/ Magnet(MA!Top(t2)) \/ Upload(Lucky(t2)))
    /\ SF_allVars(\/ Pick(PI!Arrives(t1, x2, b1)) \/ Magnet(MA!Answer(t1, TRUE))
                  \/ Upload(Sees(t1)))

PartsSpec == PartsInit /\ [][PartsNext]_allVars /\ PartsFairness

----------------------------------------------------------------------------
(* With nothing in flight a subscription claims what it last delivered.     *)
ClaimsAreLast == part = "subs" => TS!ClaimsAreLast

(* No piece is assigned to nobody, and none to two sessions.                *)
PiecesAssigned == part = "pick" => PI!NoPieceStuck /\ PI!OneEach

(* A bitfield that came before the metadata is applied, and the control     *)
(* file of an engine that comes and goes is never ahead of the disk.        *)
EngineTrue ==
    /\ part = "magnet" => MA!BitfieldsApplied
    /\ part = "run" => RU!CtrlTrue

(* What a part waits for, and that it has come. *)
Waits ==
    \/ part = "subs" /\ \E i \in DOMAIN pending : pending[i] = s1
    \/ part \in {"pick", "magnet"}
    \/ part = "upload" /\ moves = MaxMoves /\ idle /\ t1 \in keen
    \/ part = "run" /\ cancel
Served ==
    \/ part = "subs" /\ (TS!Fetching(s1) \/ subs[s1] # "on")
    \/ part = "pick" /\ wanted \subseteq stored
    \/ part = "magnet" /\ (meta \/ main = "over")
    \/ part = "upload" /\ t1 \notin choked
    \/ part = "run" /\ (~cancel \/ (stage = "over" /\ ~busy))

(* What a swarm waits for comes in the end: a pending subscription is       *)
(* fetched, the metadata and every wanted piece arrive whatever liars and   *)
(* deserters do, whoever asks is unchoked when peers no longer come and go, *)
(* and a cancelled engine ends with its announces (`cancel` is of the next  *)
(* one where that begins before the round of announces is over).            *)
SwarmGoesOn == Waits ~> Served
=============================================================================
