----------------------------- MODULE RunProofs -----------------------------
(* What ManagerProofs proves of the tracker lists and BtEngineProofs of the *)
(* picker, of the metadata of a magnet link and of a life of the engine,    *)
(* lifted to the instances of MCSwarm, and what StreamProofs proves of the  *)
(* recordings and of SFTP, lifted to those of MCStreams: the invariants of  *)
(* these runs hold in every behaviour of them.                              *)
EXTENDS MCSwarm, MCStreams, TLAPS

(* The table of the sessions is not a part of MCSwarm (PieceStoreProofs has *)
(* it): its constants and variables do not matter here.                     *)
SW == INSTANCE BtEngineProofs WITH
    Session <- {t1, t2}, Steady <- {t1}, Piece <- {x1, x2}, Block <- {b1}, Window <- 1,
    Queue <- 1, Choices <- {{x1, x2}}, MaxJoins <- 1, Faulty <- TRUE, queue <- queued,
    Honest <- {t1}, Size <- 2, Sizes <- {1, 2}, Pipe <- 2, MaxLiars <- 2, NeedSelect <- FALSE,
    Pieces <- {x1}, SeedMode <- TRUE, MaxRuns <- 2, MaxSends <- 1, MaxLate <- 1,
    Addr <- {}, Cell <- {}, NoCell <- Nobody, Room <- 0, Cap <- 0, MaxDials <- 0, MaxPunch <- 0,
    table <- 0, cell <- 0, fails <- 0, banned <- 0, banning <- 0, punch <- 0, halted <- 0

(* The tracker lists are proved about together with the tasks, which are    *)
(* no part of MCSwarm: there are none here.                                 *)
MG == INSTANCE ManagerProofs WITH
    Url <- {u1, u2}, Sub <- {s1}, NoSub <- Nobody, Handler <- {c1}, Refresher <- Background,
    Asked <- {"addSub", "remove", "hour"}, Legacy <- {u2}, MaxPending <- 1,
    savedLists <- lists,
    Gid <- {}, NoGid <- Nobody, Caller <- {}, Worker <- {}, Op <- {}, Limits <- {1},
    InitLimit <- 1, MaxResults <- 1, Bt <- {}, Ask <- {}, Single <- {},
    tasks <- 0, queue <- 0, active <- 0, stopped <- 0, limit <- 0, status <- 0, intent <- 0,
    cancelled <- 0, sel <- 0, kick <- 0, sched <- 0, call <- 0, run <- 0, saved <- 0

----------------------------------------------------------------------------
(* A behaviour stays in its part, and its steps are that part's.            *)
LEMMA PartSteps ==
    ASSUME [PartsNext]_allVars
    PROVE  /\ part' = part
           /\ part = "subs" => [TS!SubsNext]_TS!subsVars
           /\ part = "pick" => [PI!PickNext]_PI!pickVars
           /\ part = "magnet" => [MA!MagnetNext]_MA!magnetVars
           /\ part = "run" => [RU!RunNext]_RU!runVars
<1>1. CASE UNCHANGED allVars
  BY <1>1
     DEF allVars, subs_vars, pick_vars, magnet_vars, run_vars, TS!subsVars, PI!pickVars,
         MA!magnetVars, RU!runVars
<1>2. CASE PartsNext
  BY <1>2 DEF PartsNext, Subs, Pick, Magnet, Upload, Run
<1> QED
  BY <1>1, <1>2

(* Definitions of the components are the same in both instances. *)
LEMMA TSAgrees ==
    /\ TS!SubsInit => MG!SubsInit
    /\ [TS!SubsNext]_TS!subsVars => [MG!SubsNext]_MG!subsVars
    /\ MG!ClaimsAreLast => TS!ClaimsAreLast
  BY Zenon DEF
      TS!SubsInit, MG!SubsInit, TS!SubsNext, MG!SubsNext, TS!subsVars, MG!subsVars,
      TS!ClaimsAreLast, MG!ClaimsAreLast, TS!Proc, MG!Proc, TS!IdleProc, MG!IdleProc,
      TS!Snapshot, MG!Snapshot, TS!Call, MG!Call, TS!GoesOn, MG!GoesOn, TS!SubWake,
      MG!SubWake, TS!TakePending, MG!TakePending, TS!HourTick, MG!HourTick, TS!Engine,
      MG!Engine, TS!SaveLists, MG!SaveLists, TS!Crash, MG!Crash, TS!AllIdle, MG!AllIdle,
      TS!Claims, MG!Claims, TS!AddTracker, MG!AddTracker, TS!RemoveTracker,
      MG!RemoveTracker, TS!AddTaskTracker, MG!AddTaskTracker, TS!ReplaceTrackers,
      MG!ReplaceTrackers, TS!AddSubscription, MG!AddSubscription, TS!RemoveSubscription,
      MG!RemoveSubscription, TS!ToggleSubscription, MG!ToggleSubscription, TS!RefreshOne,
      MG!RefreshOne, TS!RefreshAll, MG!RefreshAll, TS!DeltaTask, MG!DeltaTask,
      TS!DeltaEngine, MG!DeltaEngine, TS!Untask, MG!Untask, TS!Push, MG!Push, TS!Notify,
      MG!Notify, TS!Unclaim, MG!Unclaim, TS!NextSub, MG!NextSub, TS!Sync, MG!Sync,
      TS!SetLast, MG!SetLast, TS!Save, MG!Save, TS!Fetch, MG!Fetch, TS!ProcAt, MG!ProcAt,
      TS!ProcTo, MG!ProcTo, TS!lists, MG!lists, TS!Become, MG!Become, TS!Enabled,
      MG!Enabled, TS!Orders, MG!Orders, TS!EngineStart, MG!EngineStart, TS!EngineGlobal,
      MG!EngineGlobal, TS!EngineRegister, MG!EngineRegister, TS!EngineStop, MG!EngineStop,
      TS!MayCall, MG!MayCall, TS!UnclaimAll, MG!UnclaimAll, TS!Released, MG!Released,
      TS!Without, MG!Without, TS!OtherProvides, MG!OtherProvides, TS!Cardinality,
      MG!Cardinality

LEMMA PIAgrees ==
    /\ PI!PickerAssumption => SW!PickerAssumption
    /\ PI!PickInit => SW!PickInit
    /\ [PI!PickNext]_PI!pickVars => [SW!PickNext]_SW!pickVars
    /\ SW!NoPieceStuck => PI!NoPieceStuck
    /\ SW!OneEach => PI!OneEach
  BY Zenon DEF
      PI!PickerAssumption, SW!PickerAssumption, PI!PickInit, SW!PickInit, PI!PickNext,
      SW!PickNext, PI!pickVars, SW!pickVars, PI!NoPieceStuck, SW!NoPieceStuck, PI!OneEach,
      SW!OneEach, PI!Unknown, SW!Unknown, PI!Empty, SW!Empty, PI!Off, SW!Off, PI!Join,
      SW!Join, PI!Leave, SW!Leave, PI!Evict, SW!Evict, PI!HasNone, SW!HasNone, PI!Choke,
      SW!Choke, PI!Unchoke, SW!Unchoke, PI!Tick, SW!Tick, PI!Inner, SW!Inner, PI!Has,
      SW!Has, PI!Suggest, SW!Suggest, PI!Arrives, SW!Arrives, PI!Reject, SW!Reject,
      PI!Select, SW!Select, PI!In, SW!In, PI!To, SW!To, PI!ReleaseAll, SW!ReleaseAll,
      PI!Interested, SW!Interested, PI!FillOrWait, SW!FillOrWait, PI!Taken, SW!Taken,
      PI!Check, SW!Check, PI!Write, SW!Write, PI!Release, SW!Release, PI!Ask, SW!Ask,
      PI!Look, SW!Look, PI!Pick, SW!Pick, PI!Push, SW!Push, PI!Filled, SW!Filled,
      PI!AllDone, SW!AllDone, PI!Unasked, SW!Unasked, PI!IsFiniteSet, SW!IsFiniteSet,
      PI!Cardinality, SW!Cardinality

LEMMA MAAgrees ==
    /\ MA!MagnetAssumption => SW!Magnet!MagnetAssumption
    /\ MA!MagnetInit => SW!Magnet!MagnetInit
    /\ [MA!MagnetNext]_MA!magnetVars => [SW!Magnet!MagnetNext]_SW!Magnet!magnetVars
    /\ SW!Magnet!BitfieldsApplied => MA!BitfieldsApplied
  BY Zenon DEF
      MA!MagnetAssumption, SW!Magnet!MagnetAssumption, MA!MagnetInit, SW!Magnet!MagnetInit,
      MA!MagnetNext, SW!Magnet!MagnetNext, MA!magnetVars, SW!Magnet!magnetVars,
      MA!BitfieldsApplied, SW!Magnet!BitfieldsApplied, MA!NoAccum, SW!Magnet!NoAccum,
      MA!NoLink, SW!Magnet!NoLink, MA!Work, SW!Magnet!Work, MA!Breaks, SW!Magnet!Breaks,
      MA!Answer, SW!Magnet!Answer, MA!Fetched, SW!Magnet!Fetched, MA!GivesUp,
      SW!Magnet!GivesUp, MA!Verified, SW!Magnet!Verified, MA!Stands, SW!Magnet!Stands,
      MA!Begin, SW!Magnet!Begin, MA!Top, SW!Magnet!Top, MA!OpenStore, SW!Magnet!OpenStore,
      MA!OpenFails, SW!Magnet!OpenFails,
      MA!SetMeta, SW!Magnet!SetMeta, MA!ApplyAside, SW!Magnet!ApplyAside, MA!Bitfield,
      SW!Magnet!Bitfield, MA!Released, SW!Magnet!Released, MA!Piece, SW!Magnet!Piece,
      MA!Completes, SW!Magnet!Completes, MA!Poisoned, SW!Magnet!Poisoned, MA!Goes,
      SW!Magnet!Goes, MA!NextPieces, SW!Magnet!NextPieces, MA!Collected,
      SW!Magnet!Collected, MA!Whole, SW!Magnet!Whole, MA!Cardinality, SW!Magnet!Cardinality

LEMMA RUAgrees ==
    /\ RU!BtRunAssumption => SW!Life!BtRunAssumption
    /\ RU!RunInit => SW!Life!RunInit
    /\ [RU!RunNext]_RU!runVars => [SW!Life!RunNext]_SW!Life!runVars
    /\ SW!Life!CtrlTrue => RU!CtrlTrue
  BY Zenon DEF
      RU!BtRunAssumption, SW!Life!BtRunAssumption, RU!RunInit, SW!Life!RunInit, RU!RunNext,
      SW!Life!RunNext, RU!runVars, SW!Life!runVars, RU!CtrlTrue, SW!Life!CtrlTrue,
      RU!RunStep, SW!Life!RunStep, RU!Announce, SW!Life!Announce, RU!SeedAnnounce,
      SW!Life!SeedAnnounce, RU!RoundEnds, SW!Life!RoundEnds, RU!Events, SW!Life!Events,
      RU!Answered, SW!Life!Answered, RU!Accept, SW!Life!Accept,
      RU!SaveLater, SW!Life!SaveLater, RU!SessionEnds, SW!Life!SessionEnds, RU!WriteLate,
      SW!Life!WriteLate, RU!Cancel, SW!Life!Cancel, RU!Again, SW!Life!Again, RU!TickReads,
      SW!Life!TickReads, RU!TickShows, SW!Life!TickShows, RU!Verify, SW!Life!Verify,
      RU!VerifyExisting, SW!Life!VerifyExisting,
      RU!NoListener, SW!Life!NoListener, RU!Finish, SW!Life!Finish, RU!Seed, SW!Life!Seed,
      RU!SeedEnds, SW!Life!SeedEnds, RU!StopBackground, SW!Life!StopBackground,
      RU!SeeCancel, SW!Life!SeeCancel, RU!Flush, SW!Life!Flush, RU!ForceSave,
      SW!Life!ForceSave, RU!Bye, SW!Life!Bye, RU!work, SW!Life!work, RU!shown,
      SW!Life!shown, RU!Rested, SW!Life!Rested, RU!talk, SW!Life!talk, RU!Durable,
      SW!Life!Durable, RU!Cancelled, SW!Life!Cancelled, RU!IsFiniteSet, SW!Life!IsFiniteSet,
      RU!Cardinality, SW!Life!Cardinality

(* What ManagerProofs assumes of the constants of the lists holds of them    *)
(* here, and nothing of what it does here takes a list back.                *)
LEMMA MGConstants ==
    MG!SubsAssumption /\ MG!ConstantsAssumption /\ MG!Undisturbed
<1>1. MG!IsFiniteSet({s1})
  <2>1. <<s1>> \in Seq({s1}) /\ \A s \in {s1} : \E n \in 1..Len(<<s1>>) : <<s1>>[n] = s
    OBVIOUS
  <2> QED
    BY <2>1 DEF MG!IsFiniteSet
<1>2. MG!IsFiniteSet({})
  <2>1. <<>> \in Seq({})
    OBVIOUS
  <2> QED
    BY <2>1 DEF MG!IsFiniteSet
<1> QED
  BY <1>1, <1>2, PartsApart DEF MG!SubsAssumption, MG!ConstantsAssumption, MG!Requests,
     MG!Undisturbed

----------------------------------------------------------------------------
SwarmInv ==
    /\ part = "subs" => MG!ListInv /\ MG!ClaimsInv
    /\ part = "pick" => SW!Sound /\ SW!TakenInv
    /\ part = "magnet" => SW!MagnetInv
    /\ part = "run" => SW!SavesTrue

LEMMA SwarmHolds == PartsSpec => []SwarmInv
<1>1. PartsInit => SwarmInv
  <2>1. TS!SubsInit => MG!ListInv /\ MG!ClaimsInv
    BY TSAgrees, MGConstants, MG!SubsTypeInit, MG!ClaimsStart
  <2> QED
    BY <2>1, PIAgrees, MAAgrees, RUAgrees, PartConstants, SW!InitSound, SW!InitTaken,
       SW!MagnetStarts, SW!SavesStart DEF PartsInit, SwarmInv
<1>2. ASSUME SwarmInv, [PartsNext]_allVars PROVE SwarmInv'
  <2>1. part' = part /\ (part = "pick" => (SW!Sound /\ SW!TakenInv)')
    BY <1>2, PartSteps, PIAgrees, PartConstants, SW!NextSound, SW!NextTaken DEF SwarmInv
  <2>2. part = "magnet" => SW!MagnetInv'
    BY <1>2, PartSteps, MAAgrees, PartConstants, SW!MagnetKept DEF SwarmInv
  <2>3. part = "run" => SW!SavesTrue'
    BY <1>2, PartSteps, RUAgrees, SW!SavesKept DEF SwarmInv
  <2>4. ASSUME part = "subs" PROVE (MG!ListInv /\ MG!ClaimsInv)'
    <3>1. MG!ListInv /\ MG!ClaimsInv /\ [MG!SubsNext]_MG!subsVars
      BY <1>2, <2>4, PartSteps, TSAgrees DEF SwarmInv
    <3>2. MG!SubsTypeInv
      BY <3>1 DEF MG!ListInv
    <3> QED
      BY <3>1, <3>2, MGConstants, MG!Step, MG!ClaimsStep
  <2> QED
    BY <2>1, <2>2, <2>3, <2>4 DEF SwarmInv
<1> QED
  BY <1>1, <1>2, PTL DEF PartsSpec

(* ClaimsAreLast of the run, in every behaviour: with nothing in flight a   *)
(* subscription claims what it last delivered (sync_subscription).          *)
THEOREM ClaimsDelivered == PartsSpec => []ClaimsAreLast
<1>1. SwarmInv => ClaimsAreLast
  BY TSAgrees, MGConstants, MG!ClaimsSafe DEF SwarmInv, ClaimsAreLast
<1> QED
  BY <1>1, SwarmHolds, PTL

(* PiecesAssigned of the run, in every behaviour: no piece is assigned to   *)
(* nobody, and none to two sessions (assign_piece, release_piece).          *)
THEOREM AllAssigned == PartsSpec => []PiecesAssigned
<1>1. SwarmInv => PiecesAssigned
  BY PIAgrees, SW!TakenSafe DEF SwarmInv, PiecesAssigned
<1> QED
  BY <1>1, SwarmHolds, PTL

(* EngineTrue of the run, in every behaviour: a bitfield that came before   *)
(* the metadata is applied, and the control file of an engine that comes    *)
(* and goes is never ahead of the disk.                                     *)
THEOREM EngineHonest == PartsSpec => []EngineTrue
<1>1. SwarmInv => EngineTrue
  BY MAAgrees, RUAgrees, SW!MagnetSafe, SW!SavesSafe DEF SwarmInv, EngineTrue
<1> QED
  BY <1>1, SwarmHolds, PTL

----------------------------------------------------------------------------
(* The downloads of MCStreams: the recording of a stream that runs away     *)
(* from the recorder, and of one that waits for it.                         *)
ST == INSTANCE StreamProofs WITH
    Pieces <- 3, Attempts <- 2, Touched <- FALSE, Mishaps <- 2, NoFile <- NoCtrl,
    MaxTags <- 3, Finite <- TRUE, FlvGoneLimit <- 2, EmptyLimit <- 2, MaxTroubles <- 1,
    MaxPauses <- 1, MaxCrashes <- 1, NoProbe <- NoCtrl,
    MapOf <- <<1, 2>>, Window <- 2, Behind <- TRUE, Conns <- 1, MaxTries <- 2, GoneLimit <- 1,
    Budgets <- {Budget(1, 0, 0, 0, 1), Budget(0, 2, 0, 0, 1), Budget(0, 0, 1, 0, 0)}
SL == INSTANCE StreamProofs WITH
    Pieces <- 3, Attempts <- 2, Touched <- FALSE, Mishaps <- 2, NoFile <- NoCtrl,
    MaxTags <- 3, Finite <- TRUE, FlvGoneLimit <- 2, EmptyLimit <- 2, MaxTroubles <- 1,
    MaxPauses <- 1, MaxCrashes <- 1, NoProbe <- NoCtrl,
    MapOf <- <<1, 2, 2>>, Window <- 2, Behind <- FALSE, Conns <- 1, MaxTries <- 1, GoneLimit <- 1,
    Budgets <- {Budget(0, 0, 1, 1, 0)}

(* A behaviour stays with its download, and its steps are that download's.  *)
LEMMA DownloadSteps ==
    ASSUME [StreamsNext]_streamVars
    PROVE  /\ download' = download
           /\ [SF!SftpNext]_SF!sftpVars
           /\ [FL!FlvNext]_FL!flvVars
           /\ download = "waiting" => [LW!LiveNext]_LW!liveVars
           /\ download # "waiting" => [LV!LiveNext]_LV!liveVars
<1> USE DEF streamVars, hls_vars, live_vars, flv_vars, sftp_vars, SF!sftpVars, FL!flvVars,
    FL!site_vars, FL!disk_vars, FL!rec_vars, FL!task_vars, FL!counts, LW!liveVars, LV!liveVars
<1>1. CASE UNCHANGED streamVars
  BY <1>1
<1>2. CASE StreamsNext
  BY <1>2 DEF StreamsNext
<1> QED
  BY <1>1, <1>2

(* Definitions of the components are the same in both instances. *)
LEMMA SFAgrees ==
    /\ SF!SftpAssumption => ST!Remote!SftpAssumption
    /\ SF!SftpInit => ST!Remote!SftpInit
    /\ [SF!SftpNext]_SF!sftpVars => [ST!Remote!SftpNext]_ST!Remote!sftpVars
    /\ ST!Remote!SftpWhole => SF!SftpWhole
  BY Zenon DEF
      SF!SftpAssumption, ST!Remote!SftpAssumption, SF!SftpInit, ST!Remote!SftpInit,
      SF!SftpNext, ST!Remote!SftpNext, SF!sftpVars, ST!Remote!sftpVars, SF!SftpWhole,
      ST!Remote!SftpWhole, SF!NoRun, ST!Remote!NoRun, SF!NoSave, ST!Remote!NoSave, SF!Shut,
      ST!Remote!Shut, SF!Start, ST!Remote!Start, SF!Open, ST!Remote!Open, SF!OpenFails,
      ST!Remote!OpenFails, SF!Over, ST!Remote!Over, SF!FinishSync, ST!Remote!FinishSync,
      SF!FinishFails, ST!Remote!FinishFails, SF!FinishCtrl, ST!Remote!FinishCtrl, SF!Take, ST!Remote!Take, SF!Write,
      ST!Remote!Write, SF!Mark, ST!Remote!Mark, SF!Fails, ST!Remote!Fails, SF!Snapshot,
      ST!Remote!Snapshot, SF!Sync, ST!Remote!Sync, SF!WriteCtrl, ST!Remote!WriteCtrl,
      SF!SaveFails, ST!Remote!SaveFails, SF!Pause, ST!Remote!Pause, SF!Unpause,
      ST!Remote!Unpause, SF!Touch, ST!Remote!Touch, SF!Crash, ST!Remote!Crash,
      SF!SftpComplete, ST!Remote!SftpComplete, SF!Piece, ST!Remote!Piece, SF!Mishap,
      ST!Remote!Mishap, SF!Ends, ST!Remote!Ends, SF!AllShut, ST!Remote!AllShut,
      SF!SyncTarget, ST!Remote!SyncTarget, SF!SaveEnds, ST!Remote!SaveEnds, SF!Cardinality,
      ST!Remote!Cardinality

LEMMA FLAgrees ==
    /\ FL!FlvAssumption => ST!Flv!FlvAssumption
    /\ FL!FlvInit => ST!Flv!FlvInit
    /\ [FL!FlvNext]_FL!flvVars => [ST!Flv!FlvNext]_ST!Flv!flvVars
    /\ ST!Flv!TimelineClosed => FL!TimelineClosed
  BY Zenon DEF
      FL!FlvAssumption, ST!Flv!FlvAssumption, FL!FlvInit, ST!Flv!FlvInit, FL!FlvNext,
      ST!Flv!FlvNext, FL!flvVars, ST!Flv!flvVars, FL!TimelineClosed, ST!Flv!TimelineClosed,
      FL!NewParser, ST!Flv!NewParser, FL!NoLink, ST!Flv!NoLink, FL!Records, ST!Flv!Records,
      FL!Air, ST!Flv!Air, FL!Closes, ST!Flv!Closes, FL!Resume, ST!Flv!Resume, FL!Fails,
      ST!Flv!Fails, FL!ReadScript, ST!Flv!ReadScript, FL!ReadJunk, ST!Flv!ReadJunk,
      FL!Pause, ST!Flv!Pause, FL!Crash, ST!Flv!Crash, FL!site_vars, ST!Flv!site_vars,
      FL!disk_vars, ST!Flv!disk_vars, FL!rec_vars, ST!Flv!rec_vars, FL!task_vars,
      ST!Flv!task_vars, FL!counts, ST!Flv!counts, FL!Contiguous, ST!Flv!Contiguous,
      FL!EndsAt, ST!Flv!EndsAt, FL!Top, ST!Flv!Top, FL!Missing, ST!Flv!Missing,
      FL!GoneDelay, ST!Flv!GoneDelay, FL!Opens, ST!Flv!Opens, FL!ReadHeader,
      ST!Flv!ReadHeader, FL!ReadMedia, ST!Flv!ReadMedia, FL!Break, ST!Flv!Break,
      FL!BackedOff, ST!Flv!BackedOff, FL!PauseSeen, ST!Flv!PauseSeen, FL!PauseInBackoff,
      ST!Flv!PauseInBackoff, FL!End, ST!Flv!End, FL!Reading, ST!Flv!Reading, FL!Script,
      ST!Flv!Script, FL!Got, ST!Flv!Got, FL!Medias, ST!Flv!Medias, FL!Follow, ST!Flv!Follow,
      FL!LastMedia, ST!Flv!LastMedia, FL!CtrlOf, ST!Flv!CtrlOf, FL!BeginSegment,
      ST!Flv!BeginSegment, FL!Header, ST!Flv!Header, FL!Mapped, ST!Flv!Mapped, FL!Media,
      ST!Flv!Media, FL!Empties, ST!Flv!Empties, FL!Written, ST!Flv!Written

(* For the recordings the operators that take a least or a greatest number  *)
(* come first.                                                              *)
LEMMA LVApplies == \A r, p, renewed : LV!Apply(r, p, renewed) = ST!Live!Apply(r, p, renewed)
<1>1. \A S : LV!Min(S) = ST!Live!Min(S) /\ LV!Max(S) = ST!Live!Max(S)
  BY DEF LV!Min, LV!Max, ST!Live!Min, ST!Live!Max
<1>2. \A r, lo : LV!Slide(r, lo) = ST!Live!Slide(r, lo)
  BY <1>1 DEF
      LV!Slide, ST!Live!Slide, LV!Stale, ST!Live!Stale, LV!Only, ST!Live!Only, LV!SegKey,
      ST!Live!SegKey, LV!MapKey, ST!Live!MapKey
<1>3. ASSUME NEW r, NEW p PROVE LV!Consider(r, p) = ST!Live!Consider(r, p)
  <2> DEFINE new == LV!Unseen(r, p)
             ahead == {s \in new : s > p.lo /\ s > r.head}
             ready == new \ ahead
             maps == {LV!MapKey(s) : s \in ahead}
  <2>1. new = ST!Live!Unseen(r, p)
    BY DEF LV!Unseen, ST!Live!Unseen
  <2>2. maps = {ST!Live!MapKey(s) : s \in ahead} /\ LV!Lead = ST!Live!Lead
    BY DEF LV!MapKey, ST!Live!MapKey, LV!Lead, ST!Live!Lead
  <2>3. LV!Min(ready) = ST!Live!Min(ready)
    BY <1>1
  <2> HIDE DEF new, ahead, ready, maps
  <2> QED
    BY <2>1, <2>2, <2>3 DEF LV!Consider, ST!Live!Consider, LV!Queued, ST!Live!Queued, new,
       ahead, ready, maps
<1>4. ASSUME NEW r, NEW p, NEW renewed
      PROVE  LV!Enqueue(r, p, renewed) = ST!Live!Enqueue(r, p, renewed)
  <2>1. LV!Max({p.lo, r.head}) = ST!Live!Max({p.lo, r.head})
    BY <1>1
  <2>2. LV!Max({r.tail, p.hi}) = ST!Live!Max({r.tail, p.hi})
    BY <1>1
  <2> DEFINE offered == {LV!SegKey(s) : s \in LV!Max({p.lo, r.head})..p.hi}
  <2> DEFINE fresh == {k \in offered : k \notin DOMAIN r.items
                                         \/ (renewed /\ LV!Is(r, k, "failed"))}
  <2>3. offered = {ST!Live!SegKey(s) : s \in ST!Live!Max({p.lo, r.head})..p.hi}
    BY <2>1 DEF LV!SegKey, ST!Live!SegKey
  <2> HIDE DEF offered
  <2>4. fresh = {k \in offered : k \notin DOMAIN r.items
                                  \/ (renewed /\ ST!Live!Is(r, k, "failed"))}
    BY DEF LV!Is, ST!Live!Is
  <2> HIDE DEF fresh
  <2>5. LV!Enqueue(r, p, renewed) = [r EXCEPT
           !.items = [k \in DOMAIN @ \cup fresh |-> IF k \in fresh THEN LV!Queued(0) ELSE @[k]],
           !.tail = LV!Max({@, p.hi}), !.end = @ \/ p.over]
    BY DEF LV!Enqueue, offered, fresh
  <2>6. ST!Live!Enqueue(r, p, renewed) = [r EXCEPT
           !.items = [k \in DOMAIN @ \cup fresh |-> IF k \in fresh THEN LV!Queued(0) ELSE @[k]],
           !.tail = ST!Live!Max({@, p.hi}), !.end = @ \/ p.over]
    BY <2>3, <2>4 DEF ST!Live!Enqueue, LV!Queued, ST!Live!Queued
  <2> QED
    BY <2>2, <2>5, <2>6
<1> QED
  BY <1>2, <1>3, <1>4 DEF LV!Apply, ST!Live!Apply

LEMMA LVSaves == ST!Live!SavedExact => LV!SavedExact
<1>1. \A S : LV!Max(S) = ST!Live!Max(S)
  BY DEF LV!Max, ST!Live!Max
<1> QED
  BY <1>1 DEF
      LV!SavedExact, ST!Live!SavedExact, LV!MapsOf, ST!Live!MapsOf, LV!SegsOf,
      ST!Live!SegsOf, LV!Written, ST!Live!Written

LEMMA LVAgrees ==
    /\ LV!LiveAssumption => ST!Live!LiveAssumption
    /\ LV!LiveInit => ST!Live!LiveInit
    /\ [LV!LiveNext]_LV!liveVars => [ST!Live!LiveNext]_ST!Live!liveVars
    /\ ST!Live!RecordedInOrder => LV!RecordedInOrder
    /\ ST!Live!OnlyLostSkipped => LV!OnlyLostSkipped
  BY LVApplies, Zenon DEF
      LV!LiveAssumption, ST!Live!LiveAssumption, LV!LiveInit, ST!Live!LiveInit, LV!LiveNext,
      ST!Live!LiveNext, LV!liveVars, ST!Live!liveVars, LV!RecordedInOrder,
      ST!Live!RecordedInOrder, LV!OnlyLostSkipped, ST!Live!OnlyLostSkipped, LV!Troubles,
      ST!Live!Troubles, LV!No, ST!Live!No, LV!Nothing, ST!Live!Nothing, LV!NoRec,
      ST!Live!NoRec, LV!LiveStep, ST!Live!LiveStep, LV!Stream, ST!Live!Stream, LV!Manifest,
      ST!Live!Manifest, LV!Spill, ST!Live!Spill, LV!Save, ST!Live!Save, LV!Pause,
      ST!Live!Pause, LV!Resume, ST!Live!Resume, LV!Kill, ST!Live!Kill, LV!SegsOf,
      ST!Live!SegsOf, LV!Written, ST!Live!Written, LV!Begin, ST!Live!Begin, LV!SpliceOne,
      ST!Live!SpliceOne, LV!Finish, ST!Live!Finish, LV!GiveUp, ST!Live!GiveUp, LV!Key,
      ST!Live!Key, LV!Dispatch, ST!Live!Dispatch, LV!Filled, ST!Live!Filled, LV!Fetched,
      ST!Live!Fetched, LV!Missed, ST!Live!Missed, LV!Produce, ST!Live!Produce, LV!EndList,
      ST!Live!EndList, LV!Fetch, ST!Live!Fetch, LV!Reload, ST!Live!Reload, LV!CtrlOf,
      ST!Live!CtrlOf, LV!Trouble, ST!Live!Trouble, LV!Suspend, ST!Live!Suspend, LV!Swept,
      ST!Live!Swept, LV!Next2, ST!Live!Next2, LV!Is, ST!Live!Is, LV!Spliced,
      ST!Live!Spliced, LV!Only, ST!Live!Only, LV!Drained, ST!Live!Drained, LV!Flying,
      ST!Live!Flying, LV!Blocked, ST!Live!Blocked, LV!Lead, ST!Live!Lead, LV!End,
      ST!Live!End, LV!Before, ST!Live!Before, LV!Put, ST!Live!Put, LV!Stale, ST!Live!Stale,
      LV!MapKey, ST!Live!MapKey, LV!SegKey, ST!Live!SegKey, LV!Queued, ST!Live!Queued,
      LV!SaveFails, ST!Live!SaveFails, LV!DiskFails, ST!Live!DiskFails, LV!Torn, ST!Live!Torn,
      LV!Failed, ST!Live!Failed, LV!Done, ST!Live!Done, LV!Cardinality, ST!Live!Cardinality

LEMMA LWApplies == \A r, p, renewed : LW!Apply(r, p, renewed) = SL!Live!Apply(r, p, renewed)
<1>1. \A S : LW!Min(S) = SL!Live!Min(S) /\ LW!Max(S) = SL!Live!Max(S)
  BY DEF LW!Min, LW!Max, SL!Live!Min, SL!Live!Max
<1>2. \A r, lo : LW!Slide(r, lo) = SL!Live!Slide(r, lo)
  BY <1>1 DEF
      LW!Slide, SL!Live!Slide, LW!Stale, SL!Live!Stale, LW!Only, SL!Live!Only, LW!SegKey,
      SL!Live!SegKey, LW!MapKey, SL!Live!MapKey
<1>3. ASSUME NEW r, NEW p PROVE LW!Consider(r, p) = SL!Live!Consider(r, p)
  <2> DEFINE new == LW!Unseen(r, p)
             ahead == {s \in new : s > p.lo /\ s > r.head}
             ready == new \ ahead
             maps == {LW!MapKey(s) : s \in ahead}
  <2>1. new = SL!Live!Unseen(r, p)
    BY DEF LW!Unseen, SL!Live!Unseen
  <2>2. maps = {SL!Live!MapKey(s) : s \in ahead} /\ LW!Lead = SL!Live!Lead
    BY DEF LW!MapKey, SL!Live!MapKey, LW!Lead, SL!Live!Lead
  <2>3. LW!Min(ready) = SL!Live!Min(ready)
    BY <1>1
  <2> HIDE DEF new, ahead, ready, maps
  <2> QED
    BY <2>1, <2>2, <2>3 DEF LW!Consider, SL!Live!Consider, LW!Queued, SL!Live!Queued, new,
       ahead, ready, maps
<1>4. ASSUME NEW r, NEW p, NEW renewed
      PROVE  LW!Enqueue(r, p, renewed) = SL!Live!Enqueue(r, p, renewed)
  <2>1. LW!Max({p.lo, r.head}) = SL!Live!Max({p.lo, r.head})
    BY <1>1
  <2>2. LW!Max({r.tail, p.hi}) = SL!Live!Max({r.tail, p.hi})
    BY <1>1
  <2> DEFINE offered == {LW!SegKey(s) : s \in LW!Max({p.lo, r.head})..p.hi}
  <2> DEFINE fresh == {k \in offered : k \notin DOMAIN r.items
                                         \/ (renewed /\ LW!Is(r, k, "failed"))}
  <2>3. offered = {SL!Live!SegKey(s) : s \in SL!Live!Max({p.lo, r.head})..p.hi}
    BY <2>1 DEF LW!SegKey, SL!Live!SegKey
  <2> HIDE DEF offered
  <2>4. fresh = {k \in offered : k \notin DOMAIN r.items
                                  \/ (renewed /\ SL!Live!Is(r, k, "failed"))}
    BY DEF LW!Is, SL!Live!Is
  <2> HIDE DEF fresh
  <2>5. LW!Enqueue(r, p, renewed) = [r EXCEPT
           !.items = [k \in DOMAIN @ \cup fresh |-> IF k \in fresh THEN LW!Queued(0) ELSE @[k]],
           !.tail = LW!Max({@, p.hi}), !.end = @ \/ p.over]
    BY DEF LW!Enqueue, offered, fresh
  <2>6. SL!Live!Enqueue(r, p, renewed) = [r EXCEPT
           !.items = [k \in DOMAIN @ \cup fresh |-> IF k \in fresh THEN LW!Queued(0) ELSE @[k]],
           !.tail = SL!Live!Max({@, p.hi}), !.end = @ \/ p.over]
    BY <2>3, <2>4 DEF SL!Live!Enqueue, LW!Queued, SL!Live!Queued
  <2> QED
    BY <2>2, <2>5, <2>6
<1> QED
  BY <1>2, <1>3, <1>4 DEF LW!Apply, SL!Live!Apply

LEMMA LWSaves == SL!Live!SavedExact => LW!SavedExact
<1>1. \A S : LW!Max(S) = SL!Live!Max(S)
  BY DEF LW!Max, SL!Live!Max
<1> QED
  BY <1>1 DEF
      LW!SavedExact, SL!Live!SavedExact, LW!MapsOf, SL!Live!MapsOf, LW!SegsOf,
      SL!Live!SegsOf, LW!Written, SL!Live!Written

LEMMA LWAgrees ==
    /\ LW!LiveAssumption => SL!Live!LiveAssumption
    /\ LW!LiveInit => SL!Live!LiveInit
    /\ [LW!LiveNext]_LW!liveVars => [SL!Live!LiveNext]_SL!Live!liveVars
    /\ SL!Live!RecordedInOrder => LW!RecordedInOrder
    /\ SL!Live!OnlyLostSkipped => LW!OnlyLostSkipped
  BY LWApplies, Zenon DEF
      LW!LiveAssumption, SL!Live!LiveAssumption, LW!LiveInit, SL!Live!LiveInit, LW!LiveNext,
      SL!Live!LiveNext, LW!liveVars, SL!Live!liveVars, LW!RecordedInOrder,
      SL!Live!RecordedInOrder, LW!OnlyLostSkipped, SL!Live!OnlyLostSkipped, LW!Troubles,
      SL!Live!Troubles, LW!No, SL!Live!No, LW!Nothing, SL!Live!Nothing, LW!NoRec,
      SL!Live!NoRec, LW!LiveStep, SL!Live!LiveStep, LW!Stream, SL!Live!Stream, LW!Manifest,
      SL!Live!Manifest, LW!Spill, SL!Live!Spill, LW!Save, SL!Live!Save, LW!Pause,
      SL!Live!Pause, LW!Resume, SL!Live!Resume, LW!Kill, SL!Live!Kill, LW!SegsOf,
      SL!Live!SegsOf, LW!Written, SL!Live!Written, LW!Begin, SL!Live!Begin, LW!SpliceOne,
      SL!Live!SpliceOne, LW!Finish, SL!Live!Finish, LW!GiveUp, SL!Live!GiveUp, LW!Key,
      SL!Live!Key, LW!Dispatch, SL!Live!Dispatch, LW!Filled, SL!Live!Filled, LW!Fetched,
      SL!Live!Fetched, LW!Missed, SL!Live!Missed, LW!Produce, SL!Live!Produce, LW!EndList,
      SL!Live!EndList, LW!Fetch, SL!Live!Fetch, LW!Reload, SL!Live!Reload, LW!CtrlOf,
      SL!Live!CtrlOf, LW!Trouble, SL!Live!Trouble, LW!Suspend, SL!Live!Suspend, LW!Swept,
      SL!Live!Swept, LW!Next2, SL!Live!Next2, LW!Is, SL!Live!Is, LW!Spliced,
      SL!Live!Spliced, LW!Only, SL!Live!Only, LW!Drained, SL!Live!Drained, LW!Flying,
      SL!Live!Flying, LW!Blocked, SL!Live!Blocked, LW!Lead, SL!Live!Lead, LW!End,
      SL!Live!End, LW!Before, SL!Live!Before, LW!Put, SL!Live!Put, LW!Stale, SL!Live!Stale,
      LW!MapKey, SL!Live!MapKey, LW!SegKey, SL!Live!SegKey, LW!Queued, SL!Live!Queued,
      LW!SaveFails, SL!Live!SaveFails, LW!DiskFails, SL!Live!DiskFails, LW!Torn, SL!Live!Torn,
      LW!Failed, SL!Live!Failed, LW!Done, SL!Live!Done, LW!Cardinality, SL!Live!Cardinality

(* What a recording is asked for does not depend on the stream it is of. *)
LEMMA LiveSame == LW!RecordedInOrder /\ LW!SavedExact => LV!RecordedInOrder /\ LV!SavedExact
<1>1. \A S : LV!Max(S) = LW!Max(S)
  BY DEF LV!Max, LW!Max
<1>2. LW!SavedExact => LV!SavedExact
  BY <1>1 DEF LV!SavedExact, LW!SavedExact, LV!SegsOf, LW!SegsOf, LV!MapsOf, LW!MapsOf,
     LV!Written, LW!Written
<1>3. LW!RecordedInOrder => LV!RecordedInOrder
  BY Zenon DEF
      LV!RecordedInOrder, LW!RecordedInOrder, LV!SegsOf, LW!SegsOf, LV!Written, LW!Written
<1> QED
  BY <1>2, <1>3

----------------------------------------------------------------------------
StreamsInv ==
    /\ ST!RemoteInv
    /\ ST!FlvInv
    /\ ~muddled => IF download = "waiting" THEN SL!LiveInv ELSE ST!LiveInv

LEMMA StreamsHold == StreamsSpec => []StreamsInv
<1>1. StreamsInit => StreamsInv
  BY SFAgrees, FLAgrees, LVAgrees, LWAgrees, StreamConstants, ST!RemoteStarts, ST!FlvStarts,
     ST!LiveStarts, SL!LiveStarts DEF StreamsInit, StreamsInv
<1>2. ASSUME StreamsInv, [StreamsNext]_streamVars PROVE StreamsInv'
  <2>1. ST!RemoteInv' /\ ST!FlvInv'
    BY <1>2, DownloadSteps, SFAgrees, FLAgrees, StreamConstants, ST!RemoteKept, ST!FlvKept
       DEF StreamsInv
  <2>2. ASSUME ~muddled' PROVE IF download = "waiting" THEN SL!LiveInv' ELSE ST!LiveInv'
    <3>1. CASE download = "waiting"
      <4>1. [SL!Live!LiveNext]_(SL!Live!liveVars)
        BY <1>2, <3>1, DownloadSteps, LWAgrees
      <4>2. ~muddled
        BY <2>2, <4>1, SL!MuddledStays, Zenon
      <4>3. SL!LiveInv
        BY <1>2, <3>1, <4>2 DEF StreamsInv
      <4> QED
        BY <2>2, <3>1, <4>1, <4>3, StreamConstants, LWAgrees, SL!LiveKept
    <3>2. CASE download # "waiting"
      <4>1. [ST!Live!LiveNext]_(ST!Live!liveVars)
        BY <1>2, <3>2, DownloadSteps, LVAgrees
      <4>2. ~muddled
        BY <2>2, <4>1, ST!MuddledStays, Zenon
      <4>3. ST!LiveInv
        BY <1>2, <3>2, <4>2 DEF StreamsInv
      <4> QED
        BY <2>2, <3>2, <4>1, <4>3, StreamConstants, LVAgrees, ST!LiveKept
    <3> QED
      BY <3>1, <3>2
  <2> QED
    BY <1>2, <2>1, <2>2, DownloadSteps DEF StreamsInv
<1> QED
  BY <1>1, <1>2, PTL DEF StreamsSpec

(* SftpWhole of the run, in every behaviour: the saved bitmap never vouches *)
(* for a piece that a crash could take away (worker, save, finish).         *)
THEOREM PiecesSafe == StreamsSpec => []SftpWhole
<1>1. StreamsInv => SftpWhole
  BY SFAgrees, ST!RemoteSafe DEF StreamsInv, SftpWhole
<1> QED
  BY <1>1, StreamsHold, PTL

(* TimelineClosed of the run, in every behaviour: a recording of FLV is one *)
(* timeline over its connections, pauses and crashes (record_flv, map_ts).  *)
THEOREM OneLine == StreamsSpec => []TimelineClosed
<1>1. StreamsInv => TimelineClosed
  BY FLAgrees, ST!FlvSafe DEF StreamsInv, TimelineClosed
<1> QED
  BY <1>1, StreamsHold, PTL

(* RecordedInOrder of the run, in every behaviour: a live recording has its *)
(* segments in order and once, and a control file it goes on from says what *)
(* is in it, writes that fail included (LiveState::apply, splice_one,       *)
(* save_ctrl).                                                              *)
THEOREM InOrder == StreamsSpec => []RecordedInOrder
<1>1. StreamsInv => RecordedInOrder
  <2>1. SUFFICES ASSUME StreamsInv PROVE RecordedInOrder
    OBVIOUS
  <2>2. CASE download = "waiting"
    BY <2>1, <2>2, LWAgrees, LWSaves, LiveSame, SL!LiveSafe DEF StreamsInv, RecordedInOrder
  <2>3. CASE download # "waiting"
    BY <2>1, <2>3, LVAgrees, LVSaves, ST!LiveSafe DEF StreamsInv, RecordedInOrder
  <2> QED
    BY <2>2, <2>3
<1> QED
  BY <1>1, StreamsHold, PTL

(* OnlyLostSkipped of the run, in every behaviour: a live recording skips   *)
(* only what the server no longer offers (LiveState::apply).                *)
THEOREM NothingMissed == StreamsSpec => []OnlyLostSkipped
<1>1. StreamsInv => OnlyLostSkipped
  BY LVAgrees, LWAgrees, ST!LiveSafe, SL!LiveSafe DEF StreamsInv, OnlyLostSkipped
<1> QED
  BY <1>1, StreamsHold, PTL
=============================================================================
