----------------------------- MODULE McpImport -----------------------------
(* The tasks a stand-alone MCP process left in mcp/session.json and how the *)
(* application takes them over when it starts: import_mcp_tasks in          *)
(* crates/xfer-engine/src/manager.rs.  The gids taken over are recorded in  *)
(* mcp/imported.json so that a task the user deletes does not come back.    *)
(* Both files are replaced by rename (write_json_file), one after the other;*)
(* a write that fails is only logged.                                       *)
EXTENDS Naturals, Sequences, FiniteSets, SequencesExt

CONSTANTS
  Gid,
  MaxImported,  \* MAX_IMPORTED, 2000 in the code
  MaxCrashes,   \* bound: times the process is killed
  FullDisk      \* TRUE: writing a file may fail

McpImportAssumption == MaxImported \in Nat \ {0} /\ MaxCrashes \in Nat /\ FullDisk \in BOOLEAN

VARIABLES
  mcp,      \* the tasks in mcp/session.json
  session,  \* the tasks in session.json
  imported, \* imported.json, oldest first
  tasks,    \* the tasks of the running application
  added,    \* the tasks this start takes over
  stage,    \* "down", "merged" (to write session), "written", "up"
  deleted,  \* history: tasks the user deleted and whose removal was saved
  crashes

mcpVars == <<mcp, session, imported, tasks, added, stage, deleted, crashes>>

McpTypes ==
  /\ mcp \subseteq Gid /\ session \subseteq Gid /\ tasks \subseteq Gid /\ deleted \subseteq Gid
  /\ imported \in BoundedSeq(Gid, MaxImported)
  /\ added \in BoundedSeq(Gid, Cardinality(Gid))
  /\ stage \in {"down", "merged", "written", "up"}
  /\ crashes \in 0..MaxCrashes

McpInit ==
  /\ mcp = {} /\ session = {} /\ tasks = {} /\ deleted = {}
  /\ imported = <<>> /\ added = <<>>
  /\ stage = "down" /\ crashes = 0

(* The stand-alone process runs only while the application does not.        *)
AddAlone(g) ==
  /\ stage = "down"
  /\ mcp' = mcp \cup {g}
  /\ UNCHANGED <<session, imported, tasks, added, stage, deleted, crashes>>

Known == ToSet(imported) \cup session

(* start_with_session: the session is read, then import_mcp_tasks merges.   *)
Boot ==
  /\ stage = "down"
  /\ added' = SetToSeq(mcp \ Known)
  /\ tasks' = session \cup (mcp \ Known)
  /\ stage' = IF mcp \subseteq Known THEN "up" ELSE "merged"
  /\ UNCHANGED <<mcp, session, imported, deleted, crashes>>

(* write_json_file, one file: all of it or, when it fails, none.            *)
Stored(f, v) == f' = v \/ (FullDisk /\ f' = f)

Kept(s) == IF Len(s) > MaxImported THEN SubSeq(s, Len(s) - MaxImported + 1, Len(s)) ELSE s

First == Stored(session, tasks) /\ UNCHANGED imported
Second == Stored(imported, Kept(imported \o added)) /\ UNCHANGED session

WriteSession ==
  /\ stage = "merged"
  /\ stage' = "written"
  /\ First
  /\ UNCHANGED <<mcp, tasks, added, deleted, crashes>>

WriteImported ==
  /\ stage = "written"
  /\ stage' = "up"
  /\ Second
  /\ UNCHANGED <<mcp, tasks, added, deleted, crashes>>

(* finish_removed and save_session_now: the user deletes a task.            *)
Delete(g) ==
  /\ stage = "up" /\ g \in tasks
  /\ tasks' = tasks \ {g}
  /\ Stored(session, tasks')
  /\ deleted' = IF session' = tasks' THEN deleted \cup {g} ELSE deleted
  /\ UNCHANGED <<mcp, imported, added, stage, crashes>>

(* Any other operation saves the session as well.                           *)
SaveAgain ==
  /\ stage = "up"
  /\ Stored(session, tasks)
  /\ UNCHANGED <<mcp, imported, tasks, added, stage, deleted, crashes>>

Quit ==
  /\ stage = "up" /\ session = tasks
  /\ stage' = "down"
  /\ tasks' = {}
  /\ UNCHANGED <<mcp, session, imported, added, deleted, crashes>>

Kill ==
  /\ stage # "down" /\ crashes < MaxCrashes
  /\ crashes' = crashes + 1
  /\ stage' = "down"
  /\ tasks' = {}
  /\ UNCHANGED <<mcp, session, imported, added, deleted>>

McpNext ==
  \/ \E g \in Gid : AddAlone(g) \/ Delete(g)
  \/ Boot \/ WriteSession \/ WriteImported \/ SaveAgain \/ Quit \/ Kill

McpSpec == McpInit /\ [][McpNext]_mcpVars

----------------------------------------------------------------------------
(* Once the application is up, every task of the stand-alone process is     *)
(* listed, unless the user deleted it: the session is written before the    *)
(* gid is recorded, so that a crash in between imports the task again.      *)
NothingLost == stage = "up" => mcp \subseteq tasks \cup deleted

(* A task the user deleted does not come back: "用户在应用里删掉某条记录后，      *)
(* 只要那份独立会话还在，也不该把它"复活"".  A crash between the two writes         *)
(* leaves the gid known only through session.json, from which deleting the  *)
(* task removes it.                                                         *)
NotResurrected == deleted \cap tasks = {}

=============================================================================
