------------------------------ MODULE MCStreams ------------------------------
(* The downloads that are not of one file over HTTP, for TLC: HLS           *)
(* playlists, live recordings of HLS and of FLV, SFTP.  A behaviour is of   *)
(* one of them, `download`; the others stand still in an initial state of   *)
(* their own, so that one run checks them all.                              *)
EXTENDS Naturals, Sequences

CONSTANTS NoCtrl, Chan

VARIABLES
    download,
    prod, segf, plst, run, jobs, hlsPhase, left, past, world,
    source, reply, product, files, saved, rec, recStage, luck, muddled,
    site, now, status, phase, file, synced, flvCtrl, parser, flvPending, dirty,
    flvLink, goneStreak, emptyStreak, silent, exit, cancelled, troubles, pauses, crashes,
    target, sftpCtrl, dl, chan, saver, stands, mishaps

World(m, s, p, f) == [mode |-> m, sites |-> s, plans |-> p, faults |-> f]
Faults(p, c, n, a, d) == [pause |-> p, crash |-> c, net |-> n, deny |-> a, disk |-> d]
MCWorlds == {
    World("unordered", {"range", "whole"}, {"A"}, Faults(1, 1, 0, 0, 0)),
    World("unordered", {"range", "whole"}, {"A"}, Faults(0, 1, 0, 0, 1)),
    World("unordered", {"range", "whole"}, {"A"}, Faults(1, 0, 1, 1, 0)),
    World("unordered", {"range"}, {"A"}, Faults(1, 2, 0, 0, 0)),
    World("unordered", {"range"}, {"A", "B"}, Faults(1, 1, 0, 0, 0)),
    World("unordered", {"whole"}, {"A", "B"}, Faults(1, 0, 0, 0, 0)),
    World("ordered", {"range"}, {"A"}, Faults(1, 0, 1, 1, 1)),
    World("ordered", {"whole"}, {"A"}, Faults(1, 1, 1, 0, 0))}

PL == INSTANCE Playlist WITH
    Size <- <<2, 1, 2>>, Secret <- {2}, Conns <- 2, Retries <- 2, Attempts <- 2,
    ReadyMax <- 2, Worlds <- MCWorlds, NoPlan <- NoCtrl, phase <- hlsPhase

Budget(p, c, f, g, d) == [pause |-> p, crash |-> c, fail |-> f, gone |-> g, disk |-> d,
                          renew |-> f]

(* The stream runs away from the recorder, or waits for it. *)
LV == INSTANCE LiveRecord WITH
    MapOf <- <<1, 2>>, Window <- 2, Behind <- TRUE, Conns <- 1, MaxTries <- 2, GoneLimit <- 1,
    Budgets <- {Budget(1, 0, 0, 0, 1), Budget(0, 2, 0, 0, 1), Budget(0, 0, 1, 0, 0)}, stage <- recStage
LW == INSTANCE LiveRecord WITH
    MapOf <- <<1, 2, 2>>, Window <- 2, Behind <- FALSE, Conns <- 1, MaxTries <- 1, GoneLimit <- 1,
    Budgets <- {Budget(0, 0, 1, 1, 0)}, stage <- recStage

FL == INSTANCE FlvRecord WITH
    MaxTags <- 3, Finite <- TRUE, GoneLimit <- 2, EmptyLimit <- 2, MaxTroubles <- 1,
    MaxPauses <- 1, MaxCrashes <- 1, NoProbe <- NoCtrl, ctrl <- flvCtrl,
    link <- flvLink, pending <- flvPending

SF == INSTANCE Sftp WITH
    Pieces <- 3, Attempts <- 2, Touched <- FALSE, Mishaps <- 2, NoFile <- NoCtrl,
    ctrl <- sftpCtrl

ASSUME StreamConstants ==
    /\ PL!PlaylistAssumption /\ LV!LiveAssumption /\ LW!LiveAssumption
    /\ FL!FlvAssumption /\ SF!SftpAssumption

hls_vars == <<prod, segf, plst, run, jobs, hlsPhase, left, past, world>>
live_vars == <<source, reply, product, files, saved, rec, recStage, luck, muddled>>
flv_vars == <<site, now, status, phase, file, synced, flvCtrl, parser, flvPending, dirty, flvLink,
              goneStreak, emptyStreak, silent, exit, cancelled, troubles, pauses, crashes>>
sftp_vars == <<target, sftpCtrl, dl, chan, saver, stands, mishaps>>
streamVars == <<download, hls_vars, live_vars, flv_vars, sftp_vars>>

StreamsInit ==
    /\ download \in {"hls", "live", "waiting", "flv", "sftp"}
    /\ PL!PlayInit /\ (download # "hls" => world = CHOOSE w \in MCWorlds : TRUE)
    /\ IF download = "waiting" THEN LW!LiveInit
       ELSE LV!LiveInit /\ (download # "live" => luck = Budget(0, 0, 1, 0, 0))
    /\ FL!FlvInit
    /\ SF!SftpInit

StreamsNext ==
    \/ /\ download = "hls" /\ PL!PlayNext
       /\ UNCHANGED <<download, live_vars, flv_vars, sftp_vars>>
    \/ /\ download = "live" /\ LV!LiveNext
       /\ UNCHANGED <<download, hls_vars, flv_vars, sftp_vars>>
    \/ /\ download = "waiting" /\ LW!LiveNext
       /\ UNCHANGED <<download, hls_vars, flv_vars, sftp_vars>>
    \/ /\ download = "flv" /\ FL!FlvNext
       /\ UNCHANGED <<download, hls_vars, live_vars, sftp_vars>>
    \/ /\ download = "sftp" /\ SF!SftpNext
       /\ UNCHANGED <<download, hls_vars, live_vars, flv_vars>>

(* Each part's own fairness. *)
StreamsFairness ==
    /\ WF_hls_vars(download = "hls" /\ PL!PlayStep)
    /\ WF_live_vars(download = "waiting" /\ LW!Stream)
    /\ WF_live_vars(download = "waiting" /\ LW!Manifest)
    /\ WF_live_vars(download = "waiting" /\ LW!LiveStep)
    /\ WF_flv_vars(download = "flv" /\ FL!Records)

StreamsSpec == StreamsInit /\ [][StreamsNext]_streamVars /\ StreamsFairness

----------------------------------------------------------------------------
(* A playlist's product is the segments counted, in order, and whole when   *)
(* it is finished; a segment marked done has all its bytes in its file.     *)
PlaylistTrue == PL!PrefixTrue /\ PL!DoneWhole /\ PL!ProductExact

(* A pause loses nothing of a playlist that is on disk.                     *)
PauseKeeps == PL!PauseKeeps

(* A live recording has its segments in order and once, and its control     *)
(* file says exactly what is in it.                                         *)
RecordedInOrder == LV!RecordedInOrder /\ LV!SavedExact

(* It skips only what the server no longer offers.                          *)
OnlyLostSkipped == IF download = "waiting" THEN LW!OnlyLostSkipped ELSE LV!OnlyLostSkipped

(* An FLV recording is one timeline from 0 without a gap over all its       *)
(* connections, and its control file says where that goes on.               *)
TimelineClosed == FL!TimelineClosed

(* SFTP: a bitmap never vouches for a piece that a crash could take away,   *)
(* and a finished file has every piece.                                     *)
SftpWhole == SF!SftpWhole

(* Every download comes to an end: a playlist, a recording whose stream is  *)
(* over, whatever fails on the way.                                         *)
StreamsEnd ==
    []<>(/\ download = "hls" => PL!Rests
         /\ download = "waiting" => LW!Rests
         /\ download = "flv" => FL!Rests)
=============================================================================
