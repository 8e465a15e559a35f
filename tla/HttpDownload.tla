---------------------------- MODULE HttpDownload ----------------------------
(***************************************************************************)
(* An HTTP task of xfer-engine (manager.rs, drive_download and try_uri):   *)
(* attempts over the URIs, each by several connections (HttpSplit) or by   *)
(* one (download_with and ResumeSink), the reset of a path that cannot be  *)
(* written, pauses, crashes and restarts.                                  *)
(***************************************************************************)
EXTENDS HttpSplit

CONSTANTS
    MaxTry,     \* URI_TRANSIENT_ATTEMPTS, over all URIs
    MaxStall,   \* MAX_STALL_ATTEMPTS
    Troubles    \* the sets of troubles a behaviour may meet

VARIABLES
    drv,        \* drive_download: where it stands, its attempts, its reset,
                \* the task's progress now and when the attempt began;
                \* torn: a reset has dropped the control file of a file with
                \* holes, written or on the medium (history)
    sink,       \* the single connection: position, idle attempts
    site        \* what the servers offer

httpVars == <<disk, stable, ctrl, jobs, segs, wr, conn, split, trouble,
              drv, sink, site>>

NoSink == [pos |-> 0, idle |-> 0]

HttpInit ==
    /\ disk = NoFile /\ stable = NoFile
    /\ ctrl = NoCtrl
    /\ jobs = <<>> /\ segs = <<>> /\ wr = NoWriter
    /\ conn = [c \in Conn |-> Nobody]
    /\ split = "off"
    /\ trouble \in Troubles
    /\ drv = [at |-> "idle", try |-> 1, reset |-> FALSE, done |-> 0, was |-> 0,
              torn |-> FALSE]
    /\ sink = NoSink
    /\ site \in IF "ignores" \in trouble THEN {"ranges"}
                ELSE {"ranges", "plain", "unsized"}

Clear ==
    /\ segs' = <<>> /\ wr' = NoWriter
    /\ conn' = [c \in Conn |-> Nobody]

(* try_uri: the probe, and the way it decides.  A file of full length and  *)
(* without control file is complete; with ranges and a length, several     *)
(* connections; else one, from the end of the file when it may resume.     *)
TryWhole ==
    /\ drv.at = "idle" /\ site = "ranges"
    /\ ctrl = NoCtrl /\ disk.len = Total
    /\ drv' = [drv EXCEPT !.at = "done", !.done = Total]
    /\ UNCHANGED <<splitVars, sink, site>>

TrySplit ==
    /\ drv.at = "idle" /\ site = "ranges"
    /\ ctrl # NoCtrl \/ disk.len # Total
    /\ Bootstrap
    /\ drv' = [drv EXCEPT !.at = "split", !.was = drv.done]
    /\ UNCHANGED <<sink, site>>

(* The first response of the single connection: begin() truncates or       *)
(* appends at the length read before.                                      *)
TryOne ==
    /\ drv.at \in {"idle", "fresh"} /\ (site # "ranges" \/ drv.at = "fresh")
    /\ LET from == IF site = "unsized" /\ drv.at = "idle" THEN disk.len ELSE 0
       IN /\ sink' = [pos |-> from, idle |-> 0]
          /\ disk' = Resize(disk, from)
          /\ drv' = [drv EXCEPT !.at = "one", !.was = drv.done, !.done = from]
          /\ stable' = Resize(stable, Least(stable.len, from))
    /\ UNCHANGED <<ctrl, jobs, segs, wr, conn, split, trouble, site>>

(* The probe fails, or the first save of the control file does (full disk). *)
TryFails(e) ==
    /\ drv.at = "idle" /\ split = "off"
    /\ IF e = "io" THEN "io" \in trouble ELSE "error" \in trouble
    /\ drv' = [drv EXCEPT !.at = e, !.was = drv.done]
    /\ UNCHANGED <<splitVars, sink, site>>

(* What download_split returned. *)
SplitEnds ==
    /\ drv.at = "split" /\ split \in {"ok", "nosplit", "paused", "io", "net"}
    /\ drv' = [drv EXCEPT !.at = CASE split = "ok" -> "done"
                                   [] split = "nosplit" -> "fresh"
                                   [] OTHER -> split,
                          !.done = Total - wr.todo]
    /\ split' = "off"
    /\ Clear
    /\ UNCHANGED <<disk, stable, ctrl, jobs, trouble, sink, site>>

(* The single connection: write_chunk fills the buffer, which spills.      *)
Spilled == [len |-> sink.pos, good |-> disk.good \cup disk.len..(sink.pos - 1)]

OneChunk ==
    /\ drv.at = "one" /\ sink.pos < Total
    /\ sink' = [pos |-> sink.pos + 1, idle |-> 0]
    /\ drv' = [drv EXCEPT !.done = sink.pos + 1]
    /\ UNCHANGED <<splitVars, site>>

OneSpill ==
    /\ drv.at = "one" /\ disk.len < sink.pos
    /\ disk' = Spilled
    /\ UNCHANGED <<stable, ctrl, jobs, segs, wr, conn, split, trouble, drv, sink, site>>

(* The connection falls silent: reconnect from pos, or give up; what the   *)
(* buffer holds is written when the sink is dropped.                       *)
OneStall ==
    /\ drv.at = "one" /\ "short" \in trouble
    /\ IF sink.idle + 1 < MaxStall
       THEN /\ sink' = [sink EXCEPT !.idle = @ + 1]
            /\ UNCHANGED <<disk, drv>>
       ELSE /\ disk' = Spilled
            /\ drv' = [drv EXCEPT !.at = "net"]
            /\ sink' = NoSink
    /\ UNCHANGED <<stable, ctrl, jobs, segs, wr, conn, split, trouble, site>>

(* A write fails: the buffer is lost. *)
OneFails ==
    /\ drv.at = "one" /\ "io" \in trouble
    /\ drv' = [drv EXCEPT !.at = "io"]
    /\ sink' = NoSink
    /\ UNCHANGED <<splitVars, site>>

(* The end of the stream: flush and sync. *)
OneEnds ==
    /\ drv.at = "one" /\ sink.pos = Total
    /\ disk' = Spilled
    /\ stable' = disk'
    /\ drv' = [drv EXCEPT !.at = "done"]
    /\ sink' = NoSink
    /\ UNCHANGED <<ctrl, jobs, segs, wr, conn, split, trouble, site>>

(* drive_download, after a failure: one reset of the path when a write     *)
(* fails without progress, retries when it is transient, else the end.     *)
Retry ==
    /\ drv.at \in {"net", "io"} /\ split = "off"
    /\ ~(drv.at = "io" /\ ~drv.reset /\ drv.done = drv.was)
    /\ drv' = IF drv.at = "net" /\ drv.try < MaxTry
              THEN [drv EXCEPT !.at = "idle", !.try = @ + 1]
              ELSE [drv EXCEPT !.at = "error"]
    /\ UNCHANGED <<splitVars, sink, site>>

Holed(f) == Cardinality(f.good) < f.len

(* reset_task_path: the control file goes, the data stays; a whole file    *)
(* is left alone under another name.                                       *)
ResetPath ==
    /\ drv.at = "io" /\ split = "off"
    /\ ~drv.reset /\ drv.done = drv.was
    /\ drv' = [drv EXCEPT !.at = "idle", !.reset = TRUE,
                          !.torn = @ \/ (ctrl # NoCtrl /\ (Holed(disk) \/ Holed(stable)))]
    /\ ctrl' = NoCtrl
    /\ disk' = IF disk.len < Total /\ site # "plain" THEN disk ELSE NoFile
    /\ stable' = IF disk.len < Total /\ site # "plain" THEN stable ELSE NoFile
    /\ UNCHANGED <<jobs, segs, wr, conn, split, trouble, sink, site>>

----------------------------------------------------------------------------
(* Pause, while the driver runs: cancellation. *)
Pause ==
    /\ "pause" \in trouble
    /\ \/ /\ drv.at = "split" /\ Stop(TRUE)
          /\ UNCHANGED <<drv, sink, site>>
       \/ /\ drv.at = "one"
          /\ disk' = Spilled
          /\ drv' = [drv EXCEPT !.at = "paused"]
          /\ sink' = NoSink
          /\ UNCHANGED <<stable, ctrl, jobs, segs, wr, conn, split, trouble, site>>

(* The task starts again: unpause, a retry by hand, or the next start of   *)
(* the program.                                                            *)
Again ==
    /\ drv.at \in {"paused", "error"}
    /\ drv' = [drv EXCEPT !.at = "idle", !.try = 1, !.reset = FALSE]
    /\ UNCHANGED <<splitVars, sink, site>>

(* The process dies; at a power failure, what was not synced is lost, too. *)
Die(power) ==
    /\ drv.at \in {"idle", "split", "one", "paused", "error"}
    /\ IF power THEN "power" \in trouble ELSE "crash" \in trouble
    /\ drv' = [drv EXCEPT !.at = "paused"]
    /\ split' = "off" /\ jobs' = <<>> /\ Clear
    /\ disk' = IF power THEN stable ELSE disk
    /\ sink' = NoSink
    /\ UNCHANGED <<stable, ctrl, trouble, site>>

DriveStep ==
    \/ TryWhole \/ TrySplit \/ TryOne \/ TryFails("io") \/ TryFails("net")
    \/ SplitEnds
    \/ OneChunk \/ OneSpill \/ OneStall \/ OneFails \/ OneEnds
    \/ Retry \/ ResetPath

HttpNext ==
    \/ SplitNext /\ UNCHANGED <<drv, sink, site>>
    \/ DriveStep \/ Pause \/ Again
    \/ Die(TRUE) \/ Die(FALSE)

HttpSpec == HttpInit /\ [][HttpNext]_httpVars

(* The writer, the sync thread, the workers and the driver are threads and *)
(* coroutines that always run again; timeouts bound what a server delays.  *)
Rest == UNCHANGED <<drv, sink, site>>

HttpFairness ==
    /\ \A c \in Conn : WF_httpVars(ConnStep(c) /\ Rest) /\ WF_httpVars(Grow(c) /\ Rest)
    /\ WF_httpVars(SyncStep /\ Rest) /\ WF_httpVars(FinishStep /\ Rest)
    /\ WF_httpVars(DriveStep)

HttpFairSpec == HttpSpec /\ HttpFairness

----------------------------------------------------------------------------
HttpTypes ==
    /\ SplitTypes
    /\ drv.at \in {"idle", "split", "one", "fresh", "net", "io", "paused", "error", "done"}
    /\ drv.try \in 1..MaxTry /\ {drv.done, drv.was} \subseteq 0..Total
    /\ sink \in [pos : 0..Total, idle : 0..(MaxStall - 1)]

(* A control file that a start would believe claims only bytes that a      *)
(* power failure leaves in place (save_ctrl: the snapshot is older than    *)
(* the sync that precedes its write; finish drains the sync thread).       *)
ClaimsSynced ==
    Usable(ctrl) /\ ~drv.torn =>
        /\ 0..(ctrl.base - 1) \subseteq stable.good
        /\ \A s \in ctrl.segs : s.s..(s.s + s.w - 1) \subseteq stable.good

(* A finished task has every byte of the resource on disk: no pause, crash *)
(* or power failure, retry or fallback to one connection ever makes a hole *)
(* count as data (bootstrap: a skipped hole is a false completion and a    *)
(* corrupt file), unless a reset has dropped the control file over one.    *)
Whole == drv.at = "done" /\ ~drv.torn => disk.len = Total /\ disk.good = Pos

(* What a download has on disk: its control file claims only bytes that    *)
(* survive a crash, and a finished file holds every byte.                  *)
DiskTrue == ClaimsSynced /\ Whole

(* reset_task_path: the data stays, so that a retry at the same path can   *)
(* go on from the length of the file.                                      *)
ResumesWhole == drv.at = "done" => disk.good = Pos

(* Every run of the driver ends, in completion, failure or pause.          *)
DownloadEnds ==
    drv.at \in {"idle", "split", "one", "fresh", "net", "io"}
        ~> drv.at \in {"done", "error", "paused"}
=============================================================================
