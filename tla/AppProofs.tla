----------------------------- MODULE AppProofs -----------------------------
(* What AppPartProofs proves of the parts of the application, lifted to the *)
(* instances of MCApp: the invariants of its run hold in every behaviour.   *)
(* Two instances of a component that MCApp gives other constants belong to  *)
(* two instances of the proofs.                                             *)
EXTENDS MCApp, TLAPS

K1 == INSTANCE AppPartProofs WITH
    Task <- {t1, t2}, Ranges <- {t1}, Listed <- {t2}, LastName <- 1, MaxRestarts <- 0,
    Gid <- {t1, t2}, MaxImported <- 2, MaxCrashes <- 2, FullDisk <- FALSE,
    File <- {x1, x2}, Magnet <- TRUE, Racing <- FALSE, MaxPauses <- 2, MaxFalls <- 1,
    MaxChoices <- 2,
    Ip <- {x1, x2}, Engine <- {e1}, Caller <- {c1}, Overlap <- FALSE, MaxTimed <- 2,
    Size <- 1, Lengths <- {1}, Nobody <- Nobody, MaxTrouble <- 0,
    Call <- {c1, c2, c3}, Service <- {x1, x2}, NoService <- Nobody,
    Tools <- {"add", "resume", "pause", "remove", "query", "lan"}, Mcp <- TRUE, MaxStarts <- 2,
    MaxLaunches <- 2, Lease <- 3, MaxFails <- 4,
    status <- a, path <- b, claims <- c, file <- d, ctrl <- e, try <- f, clash <- g,
    intent <- h, saved <- i, restarts <- j,
    mcp <- a, session <- b, imported <- c, tasks <- d, added <- e, stage <- f, deleted <- g,
    crashes <- h,
    queued <- b, wish <- c, cancelled <- d, awaiting <- e, chosen <- f, meta <- g, worker <- h,
    opened <- i, wants <- j, done <- k, data <- l, pauses <- m, falls <- n, choices <- o,
    list <- a, banned <- b, engines <- c, job <- d, kept <- e, timed <- f, owed <- g,
    out <- a, in <- b, stop <- c, tx <- d, link <- e, rx <- f, disk <- g, bytes <- h,
    trouble <- i,
    enabled <- a, stored <- b, current <- c, listening <- d, lock <- e, call <- f,
    app <- a, listed <- b, appRuns <- c, mode <- d, local <- e, entries <- f, watcher <- g,
    handed <- h, relay <- i, lanUp <- j, step <- k, told <- l, starts <- m, launches <- n,
    router <- a, pmp <- b, round <- c, next <- d, due <- e, missed <- f, fails <- g, down <- h

K2 == INSTANCE AppPartProofs WITH
    Task <- {t1}, Ranges <- {t1}, Listed <- {}, LastName <- 1, MaxRestarts <- 2,
    Gid <- {t1}, MaxImported <- 2, MaxCrashes <- 2, FullDisk <- FALSE,
    File <- {x1, x2}, Magnet <- TRUE, Racing <- FALSE, MaxPauses <- 2, MaxFalls <- 1,
    MaxChoices <- 2,
    Ip <- {x1, x2}, Engine <- {e1}, Caller <- {c1}, Overlap <- FALSE, MaxTimed <- 2,
    Size <- 2, Lengths <- {1, 2, 3}, Nobody <- Nobody, MaxTrouble <- 1,
    Call <- {c1, c2, c3}, Service <- {x1, x2}, NoService <- Nobody,
    Tools <- {"add", "resume", "pause", "remove", "query", "lan"}, Mcp <- TRUE, MaxStarts <- 2,
    MaxLaunches <- 2, Lease <- 3, MaxFails <- 4,
    status <- a, path <- b, claims <- c, file <- d, ctrl <- e, try <- f, clash <- g,
    intent <- h, saved <- i, restarts <- j,
    mcp <- a, session <- b, imported <- c, tasks <- d, added <- e, stage <- f, deleted <- g,
    crashes <- h,
    queued <- b, wish <- c, cancelled <- d, awaiting <- e, chosen <- f, meta <- g, worker <- h,
    opened <- i, wants <- j, done <- k, data <- l, pauses <- m, falls <- n, choices <- o,
    list <- a, banned <- b, engines <- c, job <- d, kept <- e, timed <- f, owed <- g,
    out <- a, in <- b, stop <- c, tx <- d, link <- e, rx <- f, disk <- g, bytes <- h,
    trouble <- i,
    enabled <- a, stored <- b, current <- c, listening <- d, lock <- e, call <- f,
    app <- a, listed <- b, appRuns <- c, mode <- d, local <- e, entries <- f, watcher <- g,
    handed <- h, relay <- i, lanUp <- j, step <- k, told <- l, starts <- m, launches <- n,
    router <- a, pmp <- b, round <- c, next <- d, due <- e, missed <- f, fails <- g, down <- h

----------------------------------------------------------------------------
(* A behaviour stays in its part, and its steps are that part's.            *)
LEMMA PartSteps ==
    ASSUME [AppNext]_allVars
    PROVE  /\ part' = part
           /\ part = "paths" => [PA!PathsNext]_PA!pathVars
           /\ part = "old paths" => [PB!PathsNext]_PB!pathVars
           /\ part = "import" => [MI!McpNext]_MI!mcpVars
           /\ part = "bans" => [BA!BansNext]_BA!bansVars
           /\ part = "choice" => [SE!SelectingNext]_SE!selectingVars
           /\ part = "lan" => [LA!LanNext]_LA!lanVars
           /\ part = "broken lan" => [LB!LanNext]_LB!lanVars
           /\ part = "lan switch" => [LC!ControlNext]_LC!controlVars
<1>1. CASE UNCHANGED allVars
  BY <1>1 DEF allVars, PA!pathVars, PB!pathVars, MI!mcpVars, BA!bansVars, SE!selectingVars,
     SE!counts, SE!task_vars, SE!engine_vars, LA!lanVars, LB!lanVars, LC!controlVars
<1>2. CASE AppNext
  BY <1>2 DEF AppNext, Of6, Of7, Of8, Of9, Of10, Of11, Of14, Of15
<1> QED
  BY <1>1, <1>2

LEMMA PartStarts ==
    ASSUME AppInit
    PROVE  /\ part = "paths" => PA!PathsInit
           /\ part = "old paths" => PB!PathsInit
           /\ part = "import" => MI!McpInit
           /\ part = "bans" => BA!BansInit
           /\ part = "choice" => SE!SelectingInit
           /\ part = "lan" => LA!LanInit
           /\ part = "broken lan" => LB!LanInit
           /\ part = "lan switch" => LC!ControlInit
  BY DEF AppInit

LEMMA PAAgrees ==
    /\ PA!TargetPathsAssumption => K1!Paths!TargetPathsAssumption
    /\ PA!PathsInit => K1!Paths!PathsInit
    /\ [PA!PathsNext]_PA!pathVars => [K1!Paths!PathsNext]_K1!Paths!pathVars
    /\ K1!Paths!ClaimsHeld => PA!ClaimsHeld
  BY Zenon DEF
      PA!TargetPathsAssumption, K1!Paths!TargetPathsAssumption, PA!PathsInit,
      K1!Paths!PathsInit, PA!PathsNext, K1!Paths!PathsNext, PA!pathVars, K1!Paths!pathVars,
      PA!ClaimsHeld, K1!Paths!ClaimsHeld, PA!NoPath, K1!Paths!NoPath, PA!Candidate,
      K1!Paths!Candidate, PA!Add, K1!Paths!Add, PA!Launch, K1!Paths!Launch, PA!Look,
      K1!Paths!Look, PA!Claim, K1!Paths!Claim, PA!Write, K1!Paths!Write, PA!ResetPath,
      K1!Paths!ResetPath, PA!Complete, K1!Paths!Complete, PA!Fail, K1!Paths!Fail, PA!Cancel,
      K1!Paths!Cancel, PA!Stop, K1!Paths!Stop, PA!PauseWaiting, K1!Paths!PauseWaiting,
      PA!Unpause, K1!Paths!Unpause, PA!Remove, K1!Paths!Remove, PA!Purge, K1!Paths!Purge,
      PA!SaveSession, K1!Paths!SaveSession, PA!Restart, K1!Paths!Restart, PA!Save,
      K1!Paths!Save, PA!Looking, K1!Paths!Looking, PA!Resumable, K1!Paths!Resumable,
      PA!Refused, K1!Paths!Refused, PA!Released, K1!Paths!Released, PA!Cleared,
      K1!Paths!Cleared, PA!Erased, K1!Paths!Erased, PA!Ended, K1!Paths!Ended, PA!Entry,
      K1!Paths!Entry

LEMMA PBAgrees ==
    /\ PB!TargetPathsAssumption => K2!Paths!TargetPathsAssumption
    /\ PB!PathsInit => K2!Paths!PathsInit
    /\ [PB!PathsNext]_PB!pathVars => [K2!Paths!PathsNext]_K2!Paths!pathVars
    /\ K2!Paths!ClaimsHeld => PB!ClaimsHeld
  BY Zenon DEF
      PB!TargetPathsAssumption, K2!Paths!TargetPathsAssumption, PB!PathsInit,
      K2!Paths!PathsInit, PB!PathsNext, K2!Paths!PathsNext, PB!pathVars, K2!Paths!pathVars,
      PB!ClaimsHeld, K2!Paths!ClaimsHeld, PB!NoPath, K2!Paths!NoPath, PB!Candidate,
      K2!Paths!Candidate, PB!Add, K2!Paths!Add, PB!Launch, K2!Paths!Launch, PB!Look,
      K2!Paths!Look, PB!Claim, K2!Paths!Claim, PB!Write, K2!Paths!Write, PB!ResetPath,
      K2!Paths!ResetPath, PB!Complete, K2!Paths!Complete, PB!Fail, K2!Paths!Fail, PB!Cancel,
      K2!Paths!Cancel, PB!Stop, K2!Paths!Stop, PB!PauseWaiting, K2!Paths!PauseWaiting,
      PB!Unpause, K2!Paths!Unpause, PB!Remove, K2!Paths!Remove, PB!Purge, K2!Paths!Purge,
      PB!SaveSession, K2!Paths!SaveSession, PB!Restart, K2!Paths!Restart, PB!Save,
      K2!Paths!Save, PB!Looking, K2!Paths!Looking, PB!Resumable, K2!Paths!Resumable,
      PB!Refused, K2!Paths!Refused, PB!Released, K2!Paths!Released, PB!Cleared,
      K2!Paths!Cleared, PB!Erased, K2!Paths!Erased, PB!Ended, K2!Paths!Ended, PB!Entry,
      K2!Paths!Entry

LEMMA MIAgrees ==
    /\ MI!McpImportAssumption => K1!Import!McpImportAssumption
    /\ MI!McpInit => K1!Import!McpInit
    /\ [MI!McpNext]_MI!mcpVars => [K1!Import!McpNext]_K1!Import!mcpVars
    /\ K1!Import!NothingLost => MI!NothingLost
  BY Zenon DEF
      MI!McpImportAssumption, K1!Import!McpImportAssumption, MI!McpInit, K1!Import!McpInit,
      MI!McpNext, K1!Import!McpNext, MI!mcpVars, K1!Import!mcpVars, MI!NothingLost,
      K1!Import!NothingLost, MI!AddAlone, K1!Import!AddAlone, MI!Delete, K1!Import!Delete,
      MI!Boot, K1!Import!Boot, MI!WriteSession, K1!Import!WriteSession, MI!WriteImported,
      K1!Import!WriteImported, MI!SaveAgain, K1!Import!SaveAgain, MI!Quit, K1!Import!Quit,
      MI!Kill, K1!Import!Kill, MI!Stored, K1!Import!Stored, MI!Known, K1!Import!Known,
      MI!First, K1!Import!First, MI!Second, K1!Import!Second, MI!Kept, K1!Import!Kept,
      MI!SetToSeq, K1!Import!SetToSeq, MI!IsInjective, K1!Import!IsInjective,
      MI!Cardinality, K1!Import!Cardinality, MI!ToSet, K1!Import!ToSet

LEMMA BAAgrees ==
    /\ BA!BansAssumption => K1!Banning!BansAssumption
    /\ BA!BansInit => K1!Banning!BansInit
    /\ [BA!BansNext]_BA!bansVars => [K1!Banning!BansNext]_K1!Banning!bansVars
    /\ K1!Banning!EnginesAgree => BA!EnginesAgree
  BY Zenon DEF
      BA!BansAssumption, K1!Banning!BansAssumption, BA!BansInit, K1!Banning!BansInit,
      BA!BansNext, K1!Banning!BansNext, BA!bansVars, K1!Banning!bansVars, BA!EnginesAgree,
      K1!Banning!EnginesAgree, BA!NoEntry, K1!Banning!NoEntry, BA!Actors, K1!Banning!Actors,
      BA!Idle, K1!Banning!Idle, BA!Unban, K1!Banning!Unban, BA!Ban, K1!Banning!Ban,
      BA!Replace, K1!Banning!Replace, BA!Snapshot, K1!Banning!Snapshot, BA!Sync,
      K1!Banning!Sync, BA!UnbanAt, K1!Banning!UnbanAt, BA!StartEngine,
      K1!Banning!StartEngine, BA!ReadList, K1!Banning!ReadList, BA!Copy, K1!Banning!Copy,
      BA!StopEngine, K1!Banning!StopEngine, BA!Expire, K1!Banning!Expire, BA!Restart,
      K1!Banning!Restart, BA!Quiet, K1!Banning!Quiet, BA!MayStart, K1!Banning!MayStart,
      BA!Order, K1!Banning!Order, BA!ToSync, K1!Banning!ToSync, BA!Replaced,
      K1!Banning!Replaced, BA!Synced, K1!Banning!Synced, BA!Handed, K1!Banning!Handed,
      BA!Ended, K1!Banning!Ended, BA!Listed, K1!Banning!Listed, BA!IsFiniteSet,
      K1!Banning!IsFiniteSet, BA!SetToSeq, K1!Banning!SetToSeq, BA!IsInjective,
      K1!Banning!IsInjective, BA!Cardinality, K1!Banning!Cardinality

LEMMA SEAgrees ==
    /\ SE!SelectingAssumption => K1!Choice!SelectingAssumption
    /\ SE!SelectingInit => K1!Choice!SelectingInit
    /\ [SE!SelectingNext]_SE!selectingVars => [K1!Choice!SelectingNext]_K1!Choice!selectingVars
    /\ K1!Choice!ChosenOnDisk => SE!ChosenOnDisk
  BY Zenon DEF
      SE!SelectingAssumption, K1!Choice!SelectingAssumption, SE!SelectingInit,
      K1!Choice!SelectingInit, SE!SelectingNext, K1!Choice!SelectingNext, SE!selectingVars,
      K1!Choice!selectingVars, SE!ChosenOnDisk, K1!Choice!ChosenOnDisk, SE!NoChoice,
      K1!Choice!NoChoice, SE!Work, K1!Choice!Work, SE!Pause, K1!Choice!Pause, SE!Unpause,
      K1!Choice!Unpause, SE!Crash, K1!Choice!Crash, SE!Fetch, K1!Choice!Fetch, SE!Choices,
      K1!Choice!Choices, SE!Select, K1!Choice!Select, SE!task_vars, K1!Choice!task_vars,
      SE!engine_vars, K1!Choice!engine_vars, SE!counts, K1!Choice!counts, SE!Schedule,
      K1!Choice!Schedule, SE!Register, K1!Choice!Register, SE!LearnMeta,
      K1!Choice!LearnMeta, SE!Ticker, K1!Choice!Ticker, SE!Complete, K1!Choice!Complete,
      SE!Stopped, K1!Choice!Stopped, SE!Restarted, K1!Choice!Restarted, SE!Covers,
      K1!Choice!Covers, SE!FilesOf, K1!Choice!FilesOf, SE!IsFiniteSet,
      K1!Choice!IsFiniteSet, SE!Cardinality, K1!Choice!Cardinality

LEMMA LAAgrees ==
    /\ LA!LanAssumption => K1!Lan!LanAssumption
    /\ LA!LanInit => K1!Lan!LanInit
    /\ [LA!LanNext]_LA!lanVars => [K1!Lan!LanNext]_K1!Lan!lanVars
    /\ K1!Lan!WholeOrNothing => LA!WholeOrNothing
  BY Zenon DEF
      LA!LanAssumption, K1!Lan!LanAssumption, LA!LanInit, K1!Lan!LanInit, LA!LanNext,
      K1!Lan!LanNext, LA!lanVars, K1!Lan!lanVars, LA!WholeOrNothing, K1!Lan!WholeOrNothing,
      LA!NoTx, K1!Lan!NoTx, LA!NoLink, K1!Lan!NoLink, LA!NoRx, K1!Lan!NoRx, LA!CrashOut,
      K1!Lan!CrashOut, LA!CrashIn, K1!Lan!CrashIn, LA!SendStep, K1!Lan!SendStep,
      LA!ReceiveStep, K1!Lan!ReceiveStep, LA!UserStep, K1!Lan!UserStep, LA!Cut, K1!Lan!Cut,
      LA!Whole, K1!Lan!Whole, LA!Delivered, K1!Lan!Delivered, LA!Restored, K1!Lan!Restored,
      LA!Over, K1!Lan!Over, LA!Take, K1!Lan!Take, LA!NoConnection, K1!Lan!NoConnection,
      LA!Connect, K1!Lan!Connect, LA!Accepted, K1!Lan!Accepted, LA!SendChunk,
      K1!Lan!SendChunk, LA!SendFails, K1!Lan!SendFails, LA!Receipt, K1!Lan!Receipt,
      LA!Reserve, K1!Lan!Reserve, LA!Create, K1!Lan!Create, LA!Refuse, K1!Lan!Refuse,
      LA!Accept, K1!Lan!Accept, LA!Frame, K1!Lan!Frame, LA!End, K1!Lan!End, LA!Rename,
      K1!Lan!Rename, LA!Abort, K1!Lan!Abort, LA!Queue, K1!Lan!Queue, LA!CancelOut,
      K1!Lan!CancelOut, LA!CancelIn, K1!Lan!CancelIn, LA!RemoveOut, K1!Lan!RemoveOut,
      LA!RemoveIn, K1!Lan!RemoveIn, LA!Open, K1!Lan!Open, LA!Failing, K1!Lan!Failing, LA!Up,
      K1!Lan!Up, LA!Replies, K1!Lan!Replies, LA!Alive, K1!Lan!Alive, LA!Completed,
      K1!Lan!Completed, LA!Says, K1!Lan!Says, LA!Alone, K1!Lan!Alone, LA!Took, K1!Lan!Took,
      LA!FreePair, K1!Lan!FreePair, LA!Part, K1!Lan!Part, LA!Down, K1!Lan!Down, LA!Without,
      K1!Lan!Without, LA!Put, K1!Lan!Put, LA!Final, K1!Lan!Final, LA!UniqueFinal,
      K1!Lan!UniqueFinal, LA!Failed, K1!Lan!Failed, LA!Cancelled, K1!Lan!Cancelled,
      LA!Naming, K1!Lan!Naming, LA!IsFiniteSet, K1!Lan!IsFiniteSet, LA!Min, K1!Lan!Min,
      LA!Cardinality, K1!Lan!Cardinality, LA!Max, K1!Lan!Max

LEMMA LBAgrees ==
    /\ LB!LanAssumption => K2!Lan!LanAssumption
    /\ LB!LanInit => K2!Lan!LanInit
    /\ [LB!LanNext]_LB!lanVars => [K2!Lan!LanNext]_K2!Lan!lanVars
    /\ K2!Lan!WholeOrNothing => LB!WholeOrNothing
  BY Zenon DEF
      LB!LanAssumption, K2!Lan!LanAssumption, LB!LanInit, K2!Lan!LanInit, LB!LanNext,
      K2!Lan!LanNext, LB!lanVars, K2!Lan!lanVars, LB!WholeOrNothing, K2!Lan!WholeOrNothing,
      LB!NoTx, K2!Lan!NoTx, LB!NoLink, K2!Lan!NoLink, LB!NoRx, K2!Lan!NoRx, LB!CrashOut,
      K2!Lan!CrashOut, LB!CrashIn, K2!Lan!CrashIn, LB!SendStep, K2!Lan!SendStep,
      LB!ReceiveStep, K2!Lan!ReceiveStep, LB!UserStep, K2!Lan!UserStep, LB!Cut, K2!Lan!Cut,
      LB!Whole, K2!Lan!Whole, LB!Delivered, K2!Lan!Delivered, LB!Restored, K2!Lan!Restored,
      LB!Over, K2!Lan!Over, LB!Take, K2!Lan!Take, LB!NoConnection, K2!Lan!NoConnection,
      LB!Connect, K2!Lan!Connect, LB!Accepted, K2!Lan!Accepted, LB!SendChunk,
      K2!Lan!SendChunk, LB!SendFails, K2!Lan!SendFails, LB!Receipt, K2!Lan!Receipt,
      LB!Reserve, K2!Lan!Reserve, LB!Create, K2!Lan!Create, LB!Refuse, K2!Lan!Refuse,
      LB!Accept, K2!Lan!Accept, LB!Frame, K2!Lan!Frame, LB!End, K2!Lan!End, LB!Rename,
      K2!Lan!Rename, LB!Abort, K2!Lan!Abort, LB!Queue, K2!Lan!Queue, LB!CancelOut,
      K2!Lan!CancelOut, LB!CancelIn, K2!Lan!CancelIn, LB!RemoveOut, K2!Lan!RemoveOut,
      LB!RemoveIn, K2!Lan!RemoveIn, LB!Open, K2!Lan!Open, LB!Failing, K2!Lan!Failing, LB!Up,
      K2!Lan!Up, LB!Replies, K2!Lan!Replies, LB!Alive, K2!Lan!Alive, LB!Completed,
      K2!Lan!Completed, LB!Says, K2!Lan!Says, LB!Alone, K2!Lan!Alone, LB!Took, K2!Lan!Took,
      LB!FreePair, K2!Lan!FreePair, LB!Part, K2!Lan!Part, LB!Down, K2!Lan!Down, LB!Without,
      K2!Lan!Without, LB!Put, K2!Lan!Put, LB!Final, K2!Lan!Final, LB!UniqueFinal,
      K2!Lan!UniqueFinal, LB!Failed, K2!Lan!Failed, LB!Cancelled, K2!Lan!Cancelled,
      LB!Naming, K2!Lan!Naming, LB!IsFiniteSet, K2!Lan!IsFiniteSet, LB!Min, K2!Lan!Min,
      LB!Cardinality, K2!Lan!Cardinality, LB!Max, K2!Lan!Max

LEMMA LCAgrees ==
    /\ LC!ControlAssumption => K1!Switch!ControlAssumption
    /\ LC!ControlInit => K1!Switch!ControlInit
    /\ [LC!ControlNext]_LC!controlVars => [K1!Switch!ControlNext]_K1!Switch!controlVars
    /\ K1!Switch!OneService => LC!OneService
  BY Zenon DEF
      LC!ControlAssumption, K1!Switch!ControlAssumption, LC!ControlInit,
      K1!Switch!ControlInit, LC!ControlNext, K1!Switch!ControlNext, LC!controlVars,
      K1!Switch!controlVars, LC!OneService, K1!Switch!OneService, LC!Ensure,
      K1!Switch!Ensure, LC!Ensured, K1!Switch!Ensured, LC!SetConfig, K1!Switch!SetConfig,
      LC!Apply, K1!Switch!Apply, LC!Start, K1!Switch!Start, LC!Stop, K1!Switch!Stop,
      LC!Restart, K1!Switch!Restart, LC!To, K1!Switch!To, LC!Free, K1!Switch!Free, LC!Boots,
      K1!Switch!Boots, LC!IsFiniteSet, K1!Switch!IsFiniteSet

----------------------------------------------------------------------------
(* What the application keeps of its tasks. *)

KeptInv ==
    /\ part = "paths" => K1!ClaimInv
    /\ part = "old paths" => K2!ClaimInv
    /\ part = "import" => K1!ImportInv
    /\ part = "bans" => K1!BansInv
    /\ part = "choice" => K1!ChoiceInv

(* No claim on a path is leaked, no task of the MCP process is lost over a *)
(* crash, every engine bans what the list bans, and what is marked of a    *)
(* chosen file is on disk: KeptInStep of the run, in every behaviour.      *)
THEOREM AllKept == AppSpec => []KeptInStep
<1>1. AppInit => KeptInv
  BY PartStarts, PAAgrees, PBAgrees, MIAgrees, BAAgrees, SEAgrees, KeptConstants,
     K1!ClaimsStart, K2!ClaimsStart, K1!ImportStarts, K1!BansStart, K1!ChoiceStarts DEF KeptInv
<1>2. ASSUME KeptInv, [AppNext]_allVars PROVE KeptInv'
  <2>1. part' = part /\ (part = "paths" => K1!ClaimInv')
    BY <1>2, PartSteps, PAAgrees, KeptConstants, K1!PathTypesKept, K1!ClaimsHeldKept
    DEF KeptInv, K1!ClaimInv
  <2>2. part = "old paths" => K2!ClaimInv'
    BY <1>2, PartSteps, PBAgrees, KeptConstants, K2!PathTypesKept, K2!ClaimsHeldKept
    DEF KeptInv, K2!ClaimInv
  <2>3. part = "import" => K1!ImportInv'
    BY <1>2, PartSteps, MIAgrees, KeptConstants, K1!ImportKept DEF KeptInv
  <2>4. part = "bans" => K1!BansInv'
    BY <1>2, PartSteps, BAAgrees, KeptConstants, K1!BansKept DEF KeptInv
  <2>5. part = "choice" => K1!ChoiceInv'
    BY <1>2, PartSteps, SEAgrees, K1!ChoiceKept DEF KeptInv
  <2> QED
    BY <2>1, <2>2, <2>3, <2>4, <2>5 DEF KeptInv
<1>3. KeptInv => KeptInStep
  BY PAAgrees, PBAgrees, MIAgrees, BAAgrees, SEAgrees, K1!ImportSafe, K1!BansSafe,
     K1!ChoiceSafe DEF KeptInv, KeptInStep, K1!ClaimInv, K2!ClaimInv
<1> QED
  BY <1>1, <1>2, <1>3, PTL DEF AppSpec

----------------------------------------------------------------------------
(* The LAN transfer. *)

LanInvs ==
    /\ part = "lan" => K1!LanInv
    /\ part = "broken lan" => K2!LanInv
    /\ part = "lan switch" => K1!SwitchInv

(* A file that arrived over the LAN is whole and under a name of its own,   *)
(* what either side calls done is there, whatever breaks, and one service   *)
(* listens at most: LanWhole of the run, in every behaviour.                *)
THEOREM LanDelivers == AppSpec => []LanWhole
<1>1. AppInit => LanInvs
  BY PartStarts, LAAgrees, LBAgrees, LCAgrees, LanConstants, K1!LanStarts, K2!LanStarts,
     K1!SwitchStarts DEF LanInvs
<1>2. ASSUME LanInvs, [AppNext]_allVars PROVE LanInvs'
  <2>1. part' = part /\ (part = "lan" => K1!LanInv')
    BY <1>2, PartSteps, LAAgrees, LanConstants, K1!LanKept DEF LanInvs
  <2>2. part = "broken lan" => K2!LanInv'
    BY <1>2, PartSteps, LBAgrees, LanConstants, K2!LanKept DEF LanInvs
  <2>3. part = "lan switch" => K1!SwitchInv'
    BY <1>2, PartSteps, LCAgrees, K1!SwitchKept DEF LanInvs
  <2> QED
    BY <2>1, <2>2, <2>3 DEF LanInvs
<1>3. LanInvs => LanWhole
  BY LAAgrees, LBAgrees, LCAgrees, K1!LanSafe, K2!LanSafe, K1!SwitchSafe DEF LanInvs, LanWhole
<1> QED
  BY <1>1, <1>2, <1>3, PTL DEF AppSpec
=============================================================================
