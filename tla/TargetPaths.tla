---------------------------- MODULE TargetPaths ----------------------------
(* Where a task's file is put (crates/xfer-engine/src/manager.rs):          *)
(* resolve_path and its variants call claim_path, which tries name, name.1,*)
(* name.2, ... until one is neither in Inner.claims nor taken on disk.  The *)
(* length on disk is read before the lock, the claim is tested and taken    *)
(* under it.  A claim is dropped when the task ends or is removed, kept     *)
(* over a pause, and not rebuilt by restore_tasks after a restart, though   *)
(* the path of the task is.                                                 *)
EXTENDS Naturals, FiniteSets

CONSTANTS
  Task,       \* gids; all ask for the same base name in the same directory
  Ranges,     \* the plain tasks whose server accepts Range requests
  Listed,     \* tasks (HLS, FLV, SFTP) that resume from a control file only
  LastName,   \* bound: the last candidate is name.LastName
  MaxRestarts \* bound: restarts of the application

TargetPathsAssumption == LastName \in Nat /\ MaxRestarts \in Nat

NoPath == LastName + 1

VARIABLES
  status, \* task -> none, waiting, active, stopping (cancelled), paused, ...
  path,   \* task -> shared.path, or NoPath
  claims, \* Inner.claims
  file,   \* candidate -> "none", "part" or "full": what is on disk
  ctrl,   \* candidates that have a control file
  try,    \* task -> the candidate claim_path is at
  clash,  \* task -> disk_conflict, or "unread": read outside the lock
  intent, \* task -> what the cancelled worker is to become
  saved,  \* the session file: status and path of each task
  restarts

pathVars == <<status, path, claims, file, ctrl, try, clash, intent, saved, restarts>>

Candidate == 0..LastName
Ended == {"complete", "error"}

PathsTypes ==
  /\ status \in [Task -> {"none", "waiting", "active", "stopping", "paused", "removed"} \cup Ended]
  /\ path \in [Task -> Candidate \cup {NoPath}]
  /\ claims \subseteq Candidate
  /\ file \in [Candidate -> {"none", "part", "full"}]
  /\ ctrl \subseteq Candidate
  /\ try \in [Task -> Candidate]
  /\ clash \in [Task -> {"unread", "free", "taken"}]
  /\ intent \in [Task -> {"none", "pause", "remove", "delete"}]
  /\ saved \in [Task -> [status : {"none", "paused"} \cup Ended, path : Candidate \cup {NoPath}]]
  /\ restarts \in 0..MaxRestarts

PathsInit ==
  /\ status = [t \in Task |-> "none"]
  /\ path = [t \in Task |-> NoPath]
  /\ claims = {}
  /\ file = [n \in Candidate |-> "none"]
  /\ ctrl = {}
  /\ try = [t \in Task |-> 0]
  /\ clash = [t \in Task |-> "unread"]
  /\ intent = [t \in Task |-> "none"]
  /\ saved = [t \in Task |-> [status |-> "none", path |-> NoPath]]
  /\ restarts = 0

----------------------------------------------------------------------------
(* save_session_now with session_json, at the end of every operation: what  *)
(* runs or waits is stored so that restore_tasks makes it Paused.           *)
Entry(s, p) ==
  [status |-> IF s \in Ended \cup {"none"} THEN s ELSE IF s = "removed" THEN "none" ELSE "paused",
   path |-> p]

Save == saved' = [t \in Task |-> Entry(status'[t], path'[t])]

Add(t) ==
  /\ status[t] = "none"
  /\ status' = [status EXCEPT ![t] = "waiting"]
  /\ UNCHANGED <<path, claims, file, ctrl, try, clash, intent, restarts>>
  /\ Save

(* fill_slots and run_task: the worker probes, then resolves the path; a    *)
(* task that has one keeps it without claiming it.                          *)
Launch(t) ==
  /\ status[t] = "waiting"
  /\ status' = [status EXCEPT ![t] = "active"]
  /\ try' = [try EXCEPT ![t] = 0]
  /\ clash' = [clash EXCEPT ![t] = "unread"]
  /\ UNCHANGED <<path, claims, file, ctrl, intent, saved, restarts>>

(* can_resume of resolve_path (an unfinished file and a server that takes   *)
(* Range) and of the playlist, FLV and SFTP variants (a control file).      *)
Resumable(t, n) ==
  IF t \in Listed THEN n \in ctrl ELSE t \in Ranges /\ file[n] = "part"

Looking(t) == status[t] \in {"active", "stopping"} /\ path[t] = NoPath

(* existing_len(&candidate), before the lock.                               *)
Look(t) ==
  /\ Looking(t)
  /\ clash[t] = "unread"
  /\ clash' = [clash EXCEPT ![t] =
                 IF file[try[t]] = "none" \/ Resumable(t, try[t]) THEN "free" ELSE "taken"]
  /\ UNCHANGED <<status, path, claims, file, ctrl, try, intent, saved, restarts>>

Refused(t) == clash[t] = "taken" \/ try[t] \in claims

(* The critical section of claim_path.                                      *)
Claim(t) ==
  /\ Looking(t)
  /\ clash[t] # "unread"
  /\ clash' = [clash EXCEPT ![t] = "unread"]
  /\ IF Refused(t)
     THEN /\ try[t] < LastName
          /\ try' = [try EXCEPT ![t] = @ + 1]
          /\ UNCHANGED <<path, claims>>
     ELSE /\ claims' = claims \cup {try[t]}
          /\ path' = [path EXCEPT ![t] = try[t]]
          /\ UNCHANGED try
  /\ UNCHANGED <<status, file, ctrl, intent, saved, restarts>>

(* The download puts bytes and a control file at its path.                  *)
Write(t) ==
  /\ status[t] = "active" /\ path[t] # NoPath
  /\ file' = [file EXCEPT ![path[t]] = "part"]
  /\ ctrl' = ctrl \cup {path[t]}
  /\ UNCHANGED <<status, path, claims, try, clash, intent, saved, restarts>>

(* reset_task_path: the path cannot be opened, or it must be found again.   *)
ResetPath(t) ==
  /\ status[t] = "active" /\ path[t] # NoPath
  /\ path' = [path EXCEPT ![t] = NoPath]
  /\ ctrl' = ctrl \ {path[t]}
  /\ claims' = claims \ {path[t]}
  /\ try' = [try EXCEPT ![t] = 0]
  /\ UNCHANGED <<status, file, clash, intent, saved, restarts>>

----------------------------------------------------------------------------
(* Mutant. *)
ReleasedNever(t) == claims

(* run_task once the worker has returned.                                   *)
Released(t) == claims \ {path[t]}

Complete(t) ==
  /\ status[t] = "active" /\ path[t] # NoPath
  /\ status' = [status EXCEPT ![t] = "complete"]
  /\ file' = [file EXCEPT ![path[t]] = "full"]
  /\ ctrl' = ctrl \ {path[t]}
  /\ claims' = Released(t)
  /\ UNCHANGED <<path, try, clash, intent, restarts>>
  /\ Save

Fail(t) ==
  /\ status[t] = "active"
  /\ status' = [status EXCEPT ![t] = "error"]
  /\ claims' = Released(t)
  /\ UNCHANGED <<path, file, ctrl, try, clash, intent, restarts>>
  /\ Save

(* delete_task_ctrl, and delete_task_files when the files go as well.       *)
Cleared(t) == ctrl' = ctrl \ {path[t]}
Erased(t) ==
  file' = [n \in Candidate |-> IF n = path[t] /\ intent'[t] = "delete" THEN "none" ELSE file[n]]

(* pause and remove_with_files on a running task only cancel its worker.    *)
Cancel(t) ==
  /\ status[t] \in {"active", "stopping"}
  /\ status' = [status EXCEPT ![t] = "stopping"]
  /\ \E i \in {"pause", "remove", "delete"} : intent' = [intent EXCEPT ![t] = i]
  /\ UNCHANGED <<path, claims, file, ctrl, try, clash, saved, restarts>>

Stop(t) ==
  /\ status[t] = "stopping"
  /\ UNCHANGED intent
  /\ IF intent[t] = "pause"
     THEN /\ status' = [status EXCEPT ![t] = "paused"]
          /\ UNCHANGED <<claims, file, ctrl>>
     ELSE /\ status' = [status EXCEPT ![t] = "removed"]
          /\ claims' = Released(t)
          /\ Cleared(t) /\ Erased(t)
  /\ UNCHANGED <<path, try, clash, restarts>>
  /\ Save

PauseWaiting(t) ==
  /\ status[t] = "waiting"
  /\ status' = [status EXCEPT ![t] = "paused"]
  /\ UNCHANGED <<path, claims, file, ctrl, try, clash, intent, restarts>>
  /\ Save

(* unpause: a failed task is run again on its old path as well.             *)
Unpause(t) ==
  /\ status[t] \in {"paused", "error"}
  /\ status' = [status EXCEPT ![t] = "waiting"]
  /\ intent' = [intent EXCEPT ![t] = "none"]
  /\ UNCHANGED <<path, claims, file, ctrl, try, clash, restarts>>
  /\ Save

(* finish_removed on a task that does not run.                              *)
Remove(t) ==
  /\ status[t] \in {"waiting", "paused"} \cup Ended
  /\ \E i \in {"remove", "delete"} : intent' = [intent EXCEPT ![t] = i]
  /\ status' = [status EXCEPT ![t] = "removed"]
  /\ claims' = Released(t)
  /\ Cleared(t) /\ Erased(t)
  /\ UNCHANGED <<path, try, clash, restarts>>
  /\ Save

(* remove_download_result and purge_download_result.                        *)
Purge(t) ==
  /\ status[t] \in Ended
  /\ status' = [status EXCEPT ![t] = "removed"]
  /\ Cleared(t)
  /\ UNCHANGED <<path, claims, file, try, clash, intent, restarts>>
  /\ Save

(* save_session_now every 30 seconds and at saveSession.                    *)
SaveSession ==
  /\ UNCHANGED <<status, path, claims, file, ctrl, try, clash, intent, restarts>>
  /\ Save

(* The process ends at any moment; start_with_session reads the file and    *)
(* restore_tasks makes the tasks of it.                                     *)
Restart ==
  /\ restarts < MaxRestarts
  /\ restarts' = restarts + 1
  /\ status' = [t \in Task |-> IF saved[t].status = "none" /\ status[t] # "none"
                               THEN "removed" ELSE saved[t].status]
  /\ path' = [t \in Task |-> saved[t].path]
  /\ claims' = {}
  /\ clash' = [t \in Task |-> "unread"]
  /\ intent' = [t \in Task |-> "none"]
  /\ UNCHANGED <<file, ctrl, try, saved>>

PathsNext ==
  \/ \E t \in Task :
       \/ Add(t) \/ Launch(t) \/ Look(t) \/ Claim(t) \/ Write(t) \/ ResetPath(t)
       \/ Complete(t) \/ Fail(t) \/ Cancel(t) \/ Stop(t) \/ PauseWaiting(t)
       \/ Unpause(t) \/ Remove(t) \/ Purge(t)
  \/ SaveSession \/ Restart

PathsSpec == PathsInit /\ [][PathsNext]_pathVars

----------------------------------------------------------------------------
(* No claim is leaked: a name in `claims` is the path of a task that still  *)
(* has work to do.  A leaked one would push every later task of that name   *)
(* to name.1 until the program is restarted.                                *)
ClaimsHeld ==
  \A n \in claims :
    \E t \in Task : path[t] = n /\ status[t] \in {"waiting", "active", "stopping", "paused"}

(* Two running tasks never write to one file.  claim_path is there for it   *)
(* ("占用一个不与磁盘/其他任务冲突的目标路径"); a path kept by a paused task over a   *)
(* restart, or by a failed task that is run again, is not claimed.          *)
PathsApart ==
  \A t, u \in Task :
    t # u /\ status[t] = "active" /\ status[u] = "active" /\ path[t] # NoPath => path[t] # path[u]

=============================================================================
