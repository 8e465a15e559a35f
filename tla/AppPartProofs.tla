--------------------------- MODULE AppPartProofs ---------------------------
(* Proofs about parts of the application around the downloads, for every    *)
(* value of their constants: the claims on paths, the import of the MCP     *)
(* process' session, the bans, the choice of files, the LAN transfer and    *)
(* its switch, the MCP process that gives way and the port mapping.  A      *)
(* constant or a variable whose name two components share with another      *)
(* meaning has one of them renamed here.                                    *)
EXTENDS Integers, Sequences, SequencesExt, FiniteSetTheorems, WellFoundedInduction, TLAPS

CONSTANTS
    Task, Ranges, Listed, LastName, MaxRestarts,
    Gid, MaxImported, MaxCrashes, FullDisk,
    File, Magnet, Racing, MaxPauses, MaxFalls, MaxChoices,
    Ip, Engine, Caller, Overlap, MaxTimed,
    Size, Lengths, Nobody, MaxTrouble,
    Call, Service, NoService,
    Tools, Mcp, MaxStarts, MaxLaunches,
    Lease, MaxFails

VARIABLES
    status, path, claims, file, ctrl, try, clash, intent, saved, restarts,
    mcp, session, imported, tasks, added, stage, deleted, crashes,
    queued, wish, cancelled, awaiting, chosen, meta, worker, opened, wants, done, data, pauses,
    falls, choices,
    list, banned, engines, job, kept, timed, owed,
    out, in, stop, tx, link, rx, disk, bytes, trouble,
    enabled, stored, current, listening, lock, call,
    app, listed, appRuns, mode, local, entries, watcher, handed, relay, lanUp, step, told,
    starts, launches,
    router, pmp, round, next, due, missed, fails, down

Paths == INSTANCE TargetPaths
Import == INSTANCE McpImport
Choice == INSTANCE Selecting WITH intent <- wish, crashes <- falls, MaxCrashes <- MaxFalls
Banning == INSTANCE Bans WITH saved <- kept
Lan == INSTANCE LanTransfer WITH data <- bytes
Switch == INSTANCE LanControl
Yield == INSTANCE Handover WITH session <- entries, call <- told
Mapping == INSTANCE PortMapping WITH stage <- round

----------------------------------------------------------------------------
(* Sequences that list a finite set. *)

(* SetToSeq lists a finite set, each element once. *)
LEMMA SeqOfSet ==
    ASSUME NEW S, IsFiniteSet(S)
    PROVE  /\ \A T : S \subseteq T => SetToSeq(S) \in Seq(T)
           /\ Len(SetToSeq(S)) = Cardinality(S)
           /\ ToSet(SetToSeq(S)) = S
           /\ \A i, j \in 1..Cardinality(S) : SetToSeq(S)[i] = SetToSeq(S)[j] => i = j
<1> DEFINE n == Cardinality(S)
           s == SetToSeq(S)
<1>1. n \in Nat /\ ExistsBijection(1..n, S)
  BY FS_CardinalityType
<1>2. \E f \in [1..n -> S] : IsInjective(f)
  BY <1>1 DEF ExistsBijection, Bijection, Injection, IsInjective
<1>3. s \in [1..n -> S] /\ IsInjective(s)
  BY <1>2 DEF SetToSeq
<1>4. s \in Injection(1..n, S) /\ IsFiniteSet(1..n) /\ Cardinality(1..n) = n
  BY <1>1, <1>3, FS_Interval DEF Injection
<1>5. s \in Surjection(1..n, S)
  BY <1>4, FS_Injection
<1>6. ToSet(s) = S
  BY <1>3, <1>5 DEF ToSet, Surjection
<1>7. ASSUME NEW T, S \subseteq T PROVE s \in Seq(T)
  <2>1. s \in [1..n -> T]
    BY <1>3, <1>7
  <2> QED
    BY <1>1, <2>1
<1>8. Len(s) = n /\ \A i, j \in 1..n : s[i] = s[j] => i = j
  BY <1>1, <1>3 DEF IsInjective
<1> QED
  BY <1>6, <1>7, <1>8

(* SetToSeq lists what is in the set and nothing else. *)
LEMMA SeqMembers ==
    ASSUME NEW S, IsFiniteSet(S)
    PROVE  /\ \A k \in 1..Len(SetToSeq(S)) : SetToSeq(S)[k] \in S
           /\ \A x \in S : \E k \in 1..Len(SetToSeq(S)) : SetToSeq(S)[k] = x
<1> DEFINE s == SetToSeq(S)
<1>1. s \in Seq(S) /\ ToSet(s) = S
  BY SeqOfSet
<1> HIDE DEF s
<1>2. \A k \in 1..Len(s) : s[k] \in S
  BY <1>1
<1>3. \A x \in S : \E k \in DOMAIN s : s[k] = x
  BY <1>1 DEF ToSet
<1>4. DOMAIN s = 1..Len(s)
  BY <1>1
<1> QED
  BY <1>2, <1>3, <1>4 DEF s

(* The image of a finite set under a function is finite. *)
LEMMA FiniteImage ==
    ASSUME NEW S, IsFiniteSet(S), NEW f, f = [x \in S |-> f[x]]
    PROVE  IsFiniteSet({f[x] : x \in S})
<1>1. f \in Surjection(S, {f[x] : x \in S})
  BY DEF Surjection
<1> QED
  BY <1>1, FS_Surjection

----------------------------------------------------------------------------
(* Claims on paths. *)

(* What the proof needs of the types. *)
PathTypes ==
    /\ status \in [Task -> {"none", "waiting", "active", "stopping", "paused", "removed",
                            "complete", "error"}]
    /\ path \in [Task -> Paths!Candidate \cup {Paths!NoPath}]
    /\ claims \subseteq Paths!Candidate
    /\ try \in [Task -> Paths!Candidate]
    /\ saved \in [Task -> [status : {"none", "paused", "complete", "error"},
                           path : Paths!Candidate \cup {Paths!NoPath}]]

ClaimInv == PathTypes /\ Paths!ClaimsHeld

AtWork == {"waiting", "active", "stopping", "paused"}

(* NoPath is no candidate. *)
LEMMA NoPathApart ==
    ASSUME Paths!TargetPathsAssumption PROVE Paths!NoPath \notin Paths!Candidate
  BY DEF Paths!TargetPathsAssumption, Paths!NoPath, Paths!Candidate

(* A step that moves one task keeps the claims held, if that task stays at *)
(* work on its path or its claim goes.                                     *)
LEMMA OneTaskMoves ==
    ASSUME ClaimInv, NEW t \in Task,
           claims' \subseteq claims,
           \A u \in Task \ {t} : status'[u] = status[u] /\ path'[u] = path[u],
           \/ status'[t] \in AtWork /\ path'[t] = path[t]
           \/ path[t] \notin claims'
    PROVE  Paths!ClaimsHeld'
<1> SUFFICES ASSUME NEW n \in claims'
             PROVE  \E u \in Task : path'[u] = n /\ status'[u] \in AtWork
  BY DEF Paths!ClaimsHeld, AtWork
<1>1. PICK u \in Task : path[u] = n /\ status[u] \in AtWork
  BY DEF ClaimInv, Paths!ClaimsHeld, AtWork
<1> QED
  BY <1>1

LEMMA SaveTypes ==
    ASSUME Paths!Save,
           status' \in [Task -> {"none", "waiting", "active", "stopping", "paused", "removed",
                                 "complete", "error"}],
           path' \in [Task -> Paths!Candidate \cup {Paths!NoPath}]
    PROVE  saved' \in [Task -> [status : {"none", "paused", "complete", "error"},
                                path : Paths!Candidate \cup {Paths!NoPath}]]
  BY DEF Paths!Save, Paths!Entry, Paths!Ended

LEMMA PathTypesKept ==
    ASSUME Paths!TargetPathsAssumption, PathTypes, [Paths!PathsNext]_Paths!pathVars
    PROVE  PathTypes'
<1> USE DEF PathTypes
<1>0. 0 \in Paths!Candidate /\ \A n \in Paths!Candidate : n < LastName => n + 1 \in Paths!Candidate
  BY DEF Paths!Candidate, Paths!TargetPathsAssumption
<1>1. ASSUME NEW t \in Task, Paths!Add(t) PROVE PathTypes'
  BY <1>1, SaveTypes DEF Paths!Add
<1>2. ASSUME NEW t \in Task, Paths!Launch(t) PROVE PathTypes'
  BY <1>0, <1>2 DEF Paths!Launch
<1>3. ASSUME NEW t \in Task, Paths!Look(t) PROVE PathTypes'
  BY <1>3 DEF Paths!Look
<1>4. ASSUME NEW t \in Task, Paths!Claim(t) PROVE PathTypes'
  BY <1>0, <1>4 DEF Paths!Claim
<1>5. ASSUME NEW t \in Task, Paths!Write(t) PROVE PathTypes'
  BY <1>5 DEF Paths!Write
<1>6. ASSUME NEW t \in Task, Paths!ResetPath(t) PROVE PathTypes'
  BY <1>0, <1>6 DEF Paths!ResetPath
<1>7. ASSUME NEW t \in Task, Paths!Complete(t) PROVE PathTypes'
  BY <1>7, SaveTypes DEF Paths!Complete, Paths!Released
<1>8. ASSUME NEW t \in Task, Paths!Fail(t) PROVE PathTypes'
  BY <1>8, SaveTypes DEF Paths!Fail, Paths!Released
<1>9. ASSUME NEW t \in Task, Paths!Cancel(t) PROVE PathTypes'
  BY <1>9 DEF Paths!Cancel
<1>10. ASSUME NEW t \in Task, Paths!Stop(t) PROVE PathTypes'
  BY <1>10, SaveTypes DEF Paths!Stop, Paths!Released
<1>11. ASSUME NEW t \in Task, Paths!PauseWaiting(t) PROVE PathTypes'
  BY <1>11, SaveTypes DEF Paths!PauseWaiting
<1>12. ASSUME NEW t \in Task, Paths!Unpause(t) PROVE PathTypes'
  BY <1>12, SaveTypes DEF Paths!Unpause
<1>13. ASSUME NEW t \in Task, Paths!Remove(t) PROVE PathTypes'
  BY <1>13, SaveTypes DEF Paths!Remove, Paths!Released
<1>14. ASSUME NEW t \in Task, Paths!Purge(t) PROVE PathTypes'
  BY <1>14, SaveTypes DEF Paths!Purge
<1>15. ASSUME Paths!SaveSession PROVE PathTypes'
  BY <1>15, SaveTypes DEF Paths!SaveSession
<1>16. ASSUME Paths!Restart PROVE PathTypes'
  BY <1>16 DEF Paths!Restart
<1>17. ASSUME UNCHANGED Paths!pathVars PROVE PathTypes'
  BY <1>17 DEF Paths!pathVars
<1> QED
  BY <1>1, <1>2, <1>3, <1>4, <1>5, <1>6, <1>7, <1>8, <1>9, <1>10, <1>11, <1>12, <1>13,
     <1>14, <1>15, <1>16, <1>17 DEF Paths!PathsNext

LEMMA ClaimsHeldKept ==
    ASSUME Paths!TargetPathsAssumption, ClaimInv, [Paths!PathsNext]_Paths!pathVars
    PROVE  Paths!ClaimsHeld'
<1> USE DEF ClaimInv, PathTypes, AtWork
<1>1. ASSUME NEW t \in Task, Paths!Add(t) PROVE Paths!ClaimsHeld'
  BY <1>1, OneTaskMoves DEF Paths!Add
<1>2. ASSUME NEW t \in Task, Paths!Launch(t) PROVE Paths!ClaimsHeld'
  BY <1>2, OneTaskMoves DEF Paths!Launch
<1>3. ASSUME NEW t \in Task, Paths!Look(t) PROVE Paths!ClaimsHeld'
  BY <1>3 DEF Paths!Look, Paths!ClaimsHeld
<1>4. ASSUME NEW t \in Task, Paths!Claim(t) PROVE Paths!ClaimsHeld'
  <2>1. CASE UNCHANGED <<status, path, claims>>
    BY <2>1 DEF Paths!ClaimsHeld
  <2>2. CASE ~Paths!Refused(t)
    <3>1. /\ status' = status /\ status[t] \in {"active", "stopping"} /\ path[t] = Paths!NoPath
          /\ claims' = claims \cup {try[t]} /\ path' = [path EXCEPT ![t] = try[t]]
      BY <1>4, <2>2 DEF Paths!Claim, Paths!Looking
    <3> SUFFICES ASSUME NEW n \in claims'
                 PROVE  \E u \in Task : path'[u] = n /\ status'[u] \in AtWork
      BY DEF Paths!ClaimsHeld, AtWork
    <3>2. CASE n = try[t]
      BY <3>1, <3>2
    <3>3. CASE n \in claims
      <4>1. PICK u \in Task : path[u] = n /\ status[u] \in AtWork
        BY <3>3 DEF Paths!ClaimsHeld
      <4> QED
        BY <4>1, <3>1, <3>3, NoPathApart
    <3> QED
      BY <3>1, <3>2, <3>3
  <2> QED
    BY <1>4, <2>1, <2>2 DEF Paths!Claim
<1>5. ASSUME NEW t \in Task, Paths!Write(t) PROVE Paths!ClaimsHeld'
  BY <1>5 DEF Paths!Write, Paths!ClaimsHeld
<1>6. ASSUME NEW t \in Task, Paths!ResetPath(t) PROVE Paths!ClaimsHeld'
  BY <1>6, OneTaskMoves DEF Paths!ResetPath
<1>7. ASSUME NEW t \in Task, Paths!Complete(t) PROVE Paths!ClaimsHeld'
  BY <1>7, OneTaskMoves DEF Paths!Complete, Paths!Released
<1>8. ASSUME NEW t \in Task, Paths!Fail(t) PROVE Paths!ClaimsHeld'
  BY <1>8, OneTaskMoves DEF Paths!Fail, Paths!Released
<1>9. ASSUME NEW t \in Task, Paths!Cancel(t) PROVE Paths!ClaimsHeld'
  BY <1>9, OneTaskMoves DEF Paths!Cancel
<1>10. ASSUME NEW t \in Task, Paths!Stop(t) PROVE Paths!ClaimsHeld'
  BY <1>10, OneTaskMoves DEF Paths!Stop, Paths!Released
<1>11. ASSUME NEW t \in Task, Paths!PauseWaiting(t) PROVE Paths!ClaimsHeld'
  BY <1>11, OneTaskMoves DEF Paths!PauseWaiting
<1>12. ASSUME NEW t \in Task, Paths!Unpause(t) PROVE Paths!ClaimsHeld'
  BY <1>12, OneTaskMoves DEF Paths!Unpause
<1>13. ASSUME NEW t \in Task, Paths!Remove(t) PROVE Paths!ClaimsHeld'
  BY <1>13, OneTaskMoves DEF Paths!Remove, Paths!Released
<1>14. ASSUME NEW t \in Task, Paths!Purge(t) PROVE Paths!ClaimsHeld'
  <2> SUFFICES ASSUME NEW n \in claims
               PROVE  \E u \in Task : path'[u] = n /\ status'[u] \in AtWork
    BY <1>14 DEF Paths!ClaimsHeld, Paths!Purge
  <2>1. PICK u \in Task : path[u] = n /\ status[u] \in AtWork
    BY DEF Paths!ClaimsHeld
  <2> QED
    BY <2>1, <1>14 DEF Paths!Purge, Paths!Ended
<1>15. ASSUME Paths!SaveSession PROVE Paths!ClaimsHeld'
  BY <1>15 DEF Paths!SaveSession, Paths!ClaimsHeld
<1>16. ASSUME Paths!Restart PROVE Paths!ClaimsHeld'
  BY <1>16 DEF Paths!Restart, Paths!ClaimsHeld
<1>17. ASSUME UNCHANGED Paths!pathVars PROVE Paths!ClaimsHeld'
  BY <1>17 DEF Paths!pathVars, Paths!ClaimsHeld
<1> QED
  BY <1>1, <1>2, <1>3, <1>4, <1>5, <1>6, <1>7, <1>8, <1>9, <1>10, <1>11, <1>12, <1>13,
     <1>14, <1>15, <1>16, <1>17 DEF Paths!PathsNext

LEMMA ClaimsStart == ASSUME Paths!TargetPathsAssumption, Paths!PathsInit PROVE ClaimInv
  BY DEF Paths!TargetPathsAssumption, Paths!PathsInit, ClaimInv, PathTypes, Paths!ClaimsHeld,
         Paths!Candidate

(* A name in `claims` is the path of a task that still has work to do:     *)
(* whatever is paused, cancelled, run again, removed or restored, no claim *)
(* is left behind (reset_task_path, run_task, finish_removed).             *)
THEOREM NoClaimLeaks ==
    ASSUME Paths!TargetPathsAssumption PROVE Paths!PathsSpec => []Paths!ClaimsHeld
<1>1. Paths!PathsInit => ClaimInv
  BY ClaimsStart
<1>2. ClaimInv /\ [Paths!PathsNext]_Paths!pathVars => ClaimInv'
  BY PathTypesKept, ClaimsHeldKept DEF ClaimInv
<1>3. ClaimInv => Paths!ClaimsHeld
  BY DEF ClaimInv
<1> QED
  BY <1>1, <1>2, <1>3, PTL DEF Paths!PathsSpec

----------------------------------------------------------------------------
(* The import of the session of the stand-alone MCP process. *)

(* Operators of the libraries, seen through the instances. *)
LEMMA ImportLibrary ==
    /\ \A s : Import!ToSet(s) = ToSet(s)
    /\ \A S : Import!SetToSeq(S) = SetToSeq(S)
<1>1. \A S : Import!Cardinality(S) = Cardinality(S)
  BY DEF Import!Cardinality, Cardinality
<1> QED
  BY <1>1 DEF Import!ToSet, ToSet, Import!SetToSeq, SetToSeq, Import!IsInjective, IsInjective

(* A gid is recorded as imported only when the session has its task, or    *)
(* had it and the user deleted it.                                         *)
ImportInv ==
    /\ stage \in {"down", "merged", "written", "up"}
    /\ IsFiniteSet(mcp) /\ imported \in Seq(Gid) /\ added \in Seq(Gid)
    /\ mcp \subseteq Gid
    /\ ToSet(imported) \subseteq session \cup deleted
    /\ stage \in {"merged", "written"} => ToSet(added) \subseteq tasks
    /\ stage \in {"written", "up"} => session = tasks
    /\ stage = "merged" => session \subseteq tasks
    /\ stage # "down" => mcp \subseteq tasks \cup deleted

LEMMA ImportStarts == Import!McpInit => ImportInv
  BY FS_EmptySet DEF Import!McpInit, ImportInv, ToSet

LEMMA KeptOf ==
    ASSUME Import!McpImportAssumption, NEW s \in Seq(Gid)
    PROVE  Import!Kept(s) \in Seq(Gid) /\ ToSet(Import!Kept(s)) \subseteq ToSet(s)
  BY DEF Import!McpImportAssumption, Import!Kept, ToSet

LEMMA ImportKept ==
    ASSUME Import!McpImportAssumption, ~FullDisk, ImportInv,
           [Import!McpNext]_Import!mcpVars
    PROVE  ImportInv'
<1> USE DEF ImportInv
<1>1. ASSUME NEW g \in Gid, Import!AddAlone(g) PROVE ImportInv'
  BY <1>1, FS_AddElement DEF Import!AddAlone
<1>2. ASSUME NEW g \in Gid, Import!Delete(g) PROVE ImportInv'
  BY <1>2 DEF Import!Delete, Import!Stored
<1>3. ASSUME Import!Boot PROVE ImportInv'
  <2> DEFINE new == mcp \ Import!Known
  <2>1. Import!Known = ToSet(imported) \cup session
    BY ImportLibrary DEF Import!Known
  <2>2. IsFiniteSet(new) /\ new \subseteq Gid
    BY FS_Subset
  <2>3. added' = SetToSeq(new) /\ tasks' = session \cup new
    BY <1>3, ImportLibrary DEF Import!Boot
  <2>4. added' \in Seq(Gid) /\ ToSet(added)' = new
    <3>1. SetToSeq(new) \in Seq(Gid) /\ ToSet(SetToSeq(new)) = new
      BY <2>2, SeqOfSet
    <3> QED
      BY <2>3, <3>1
  <2>5. stage' = (IF mcp \subseteq Import!Known THEN "up" ELSE "merged")
        /\ UNCHANGED <<mcp, session, imported, deleted>>
    BY <1>3 DEF Import!Boot
  <2> QED
    BY <2>1, <2>3, <2>4, <2>5
<1>4. ASSUME Import!WriteSession PROVE ImportInv'
  BY <1>4 DEF Import!WriteSession, Import!First, Import!Stored
<1>5. ASSUME Import!WriteImported PROVE ImportInv'
  <2>1. /\ stage = "written" /\ stage' = "up"
        /\ imported' = Import!Kept(imported \o added)
        /\ UNCHANGED <<mcp, session, tasks, added, deleted>>
    BY <1>5 DEF Import!WriteImported, Import!Second, Import!Stored
  <2>2. imported \o added \in Seq(Gid)
        /\ ToSet(imported \o added) \subseteq ToSet(imported) \cup ToSet(added)
    BY DEF ToSet
  <2>3. imported' \in Seq(Gid) /\ ToSet(imported') \subseteq ToSet(imported) \cup ToSet(added)
    BY <2>1, <2>2, KeptOf
  <2> QED
    BY <2>1, <2>3
<1>6. ASSUME Import!SaveAgain PROVE ImportInv'
  BY <1>6 DEF Import!SaveAgain, Import!Stored
<1>7. ASSUME Import!Quit PROVE ImportInv'
  BY <1>7 DEF Import!Quit
<1>8. ASSUME Import!Kill PROVE ImportInv'
  BY <1>8 DEF Import!Kill
<1>9. ASSUME UNCHANGED Import!mcpVars PROVE ImportInv'
  BY <1>9 DEF Import!mcpVars
<1> QED
  BY <1>1, <1>2, <1>3, <1>4, <1>5, <1>6, <1>7, <1>8, <1>9 DEF Import!McpNext

LEMMA ImportSafe == ImportInv => Import!NothingLost
  BY DEF ImportInv, Import!NothingLost

(* When files can be written, every task the stand-alone process left is   *)
(* listed once the application is up, unless the user deleted it, at       *)
(* whatever step of an earlier start the process was killed.               *)
THEOREM ImportComplete ==
    ASSUME Import!McpImportAssumption, ~FullDisk
    PROVE  Import!McpSpec => []Import!NothingLost
  BY ImportSafe, ImportStarts, ImportKept, PTL DEF Import!McpSpec

----------------------------------------------------------------------------
(* The choice of files. *)

(* An engine wants only files it has opened, and no engine that has its    *)
(* files is set to start again.                                            *)
ChoiceInv ==
    /\ status \in {"waiting", "active", "paused", "complete"}
    /\ worker \in {"none", "building", "running", "ending"}
    /\ chosen \subseteq File /\ opened \subseteq File
    /\ wants \subseteq opened /\ done \subseteq data
    /\ worker \in {"building", "running"} => status = "active" /\ ~queued
    /\ status = "complete" => /\ worker = "none" /\ ~queued
                              /\ wants \subseteq data /\ wants # {}

LEMMA ChoiceStarts == Choice!SelectingInit => ChoiceInv
  BY DEF Choice!SelectingInit, ChoiceInv, Choice!NoChoice

LEMMA ChoiceKept ==
    ASSUME ChoiceInv, [Choice!SelectingNext]_Choice!selectingVars
    PROVE  ChoiceInv'
<1> USE DEF ChoiceInv, Choice!counts, Choice!task_vars, Choice!engine_vars
<1>1. ASSUME Choice!Schedule PROVE ChoiceInv'
  BY <1>1 DEF Choice!Schedule, Choice!FilesOf, Choice!NoChoice
<1>2. ASSUME Choice!Register PROVE ChoiceInv'
  BY <1>2 DEF Choice!Register
<1>3. ASSUME Choice!LearnMeta PROVE ChoiceInv'
  BY <1>3 DEF Choice!LearnMeta
<1>4. ASSUME NEW f \in File, Choice!Fetch(f) PROVE ChoiceInv'
  BY <1>4 DEF Choice!Fetch
<1>5. ASSUME Choice!Ticker PROVE ChoiceInv'
  BY <1>5 DEF Choice!Ticker
<1>6. ASSUME Choice!Complete PROVE ChoiceInv'
  BY <1>6 DEF Choice!Complete
<1>7. ASSUME Choice!Stopped PROVE ChoiceInv'
  BY <1>7 DEF Choice!Stopped
<1>8. ASSUME Choice!Restarted PROVE ChoiceInv'
  BY <1>8 DEF Choice!Restarted
<1>9. ASSUME NEW c \in Choice!Choices, Choice!Select(c) PROVE ChoiceInv'
  BY <1>9 DEF Choice!Select, Choice!Choices, Choice!Covers
<1>10. ASSUME Choice!Pause PROVE ChoiceInv'
  BY <1>10 DEF Choice!Pause
<1>11. ASSUME Choice!Unpause PROVE ChoiceInv'
  BY <1>11 DEF Choice!Unpause
<1>12. ASSUME Choice!Crash PROVE ChoiceInv'
  BY <1>12 DEF Choice!Crash
<1>13. ASSUME UNCHANGED Choice!selectingVars PROVE ChoiceInv'
  BY <1>13 DEF Choice!selectingVars
<1> QED
  BY <1>1, <1>2, <1>3, <1>4, <1>5, <1>6, <1>7, <1>8, <1>9, <1>10, <1>11, <1>12, <1>13
  DEF Choice!SelectingNext, Choice!Work

LEMMA ChoiceSafe == ChoiceInv => Choice!ChosenOnDisk
  BY DEF ChoiceInv, Choice!ChosenOnDisk

(* What is marked of a chosen file is on disk, whatever is chosen while    *)
(* the engine runs, pauses or is built, and a complete task has all that   *)
(* was chosen, which is something.                                         *)
THEOREM ChosenKept == Choice!SelectingSpec => []Choice!ChosenOnDisk
  BY ChoiceSafe, ChoiceStarts, ChoiceKept, PTL DEF Choice!SelectingSpec

----------------------------------------------------------------------------
(* Bans. *)

(* Operators of the libraries, seen through the instance of Bans. *)
LEMMA BansLibrary ==
    \A S : Banning!SetToSeq(S) = SetToSeq(S) /\ Banning!IsFiniteSet(S) = IsFiniteSet(S)
<1>1. \A S : Banning!Cardinality(S) = Cardinality(S)
  BY DEF Banning!Cardinality, Cardinality
<1>2. \A S : Banning!IsFiniteSet(S) = IsFiniteSet(S)
  BY DEF Banning!IsFiniteSet, IsFiniteSet
<1> QED
  BY <1>1, <1>2 DEF Banning!SetToSeq, SetToSeq, Banning!IsInjective, IsInjective

Ends == {"none", "timed", "forever"}
Bans == [Ip -> Banning!Entry \cup {Banning!NoEntry}]

(* What an actor may have to do. *)
Steps ==
    [do : {"snapshot", "read"}] \cup [do : {"sync"}, engine : Engine, snap : Bans]
    \cup [do : {"unban"}, engine : Engine, ip : Ip]
    \cup [do : {"copy"}, engine : Engine, ip : Ip, end : Ends]

BanTypes ==
    /\ list \in Bans /\ kept \in Bans
    /\ banned \in [Engine -> [Ip -> Ends]]
    /\ engines \subseteq Engine /\ IsFiniteSet(engines)
    /\ job \in [Banning!Actors -> Seq(Steps)]

(* The copy of an engine is the list. *)
Agrees(e) == \A i \in Ip : banned[e][i] = list[i].end

(* What an actor that is under way has done of its work: the engines that  *)
(* do not have the list yet are those it still has to go to.               *)
Syncs(a) ==
    /\ a \in Caller
    /\ \A k \in 1..Len(job[a]) :
         job[a][k].do = "sync" /\ job[a][k].snap = list /\ job[a][k].engine \in engines
    /\ \A e \in engines : Agrees(e) \/ \E k \in 1..Len(job[a]) : job[a][k].engine = e
Unbans(a) ==
    /\ a \in Caller
    /\ \E i \in Ip :
        /\ list[i] = Banning!NoEntry
        /\ \A k \in 1..Len(job[a]) :
             job[a][k].do = "unban" /\ job[a][k].ip = i /\ job[a][k].engine \in engines
        /\ \A e \in engines :
             /\ \A j \in Ip \ {i} : banned[e][j] = list[j].end
             /\ banned[e][i] = "none" \/ \E k \in 1..Len(job[a]) : job[a][k].engine = e
Copies(a) ==
    /\ a \in engines /\ \A e \in engines \ {a} : Agrees(e)
    /\ \A k \in 1..Len(job[a]) : job[a][k].do = "copy" /\ job[a][k].end = list[job[a][k].ip].end
    /\ \A i \in Ip : \/ banned[a][i] = list[i].end
                     \/ banned[a][i] = "none" /\ \E k \in 1..Len(job[a]) : job[a][k].ip = i
Starts(a) ==
    /\ Len(job[a]) = 1 /\ job[a][1].do = "read"
    /\ a \in engines /\ \A e \in engines \ {a} : Agrees(e)
    /\ \A i \in Ip : banned[a][i] = "none"
Begins(a) == Len(job[a]) = 1 /\ job[a][1].do = "snapshot"

BansInv ==
    /\ BanTypes
    /\ \A e \in Engine \ engines : \A i \in Ip : banned[e][i] = "none"
    /\ \A a, b \in Banning!Actors :
         a # b => job[a] = Banning!Idle \/ job[b] = Banning!Idle
    /\ \A a \in Banning!Actors :
         job[a] # Banning!Idle => Syncs(a) \/ Unbans(a) \/ Copies(a) \/ Starts(a) \/ Begins(a)
    /\ Banning!Quiet => \A e \in engines : Agrees(e)

LEMMA BansStart == ASSUME Banning!BansInit PROVE BansInv
<1>1. BanTypes
  BY FS_EmptySet DEF Banning!BansInit, BanTypes, Bans, Banning!Idle, Ends
<1> QED
  BY <1>1 DEF Banning!BansInit, BansInv

LEMMA BanTypesKept ==
    ASSUME Banning!BansAssumption, BanTypes, [Banning!BansNext]_Banning!bansVars
    PROVE  BanTypes'
<1> USE DEF BanTypes
<1>0. /\ Caller \subseteq Banning!Actors /\ Engine \subseteq Banning!Actors
      /\ <<>> \in Seq(Steps) /\ Banning!NoEntry \in Banning!Entry \cup {Banning!NoEntry}
      /\ \A s \in Seq(Steps) : s # <<>> => /\ Tail(s) \in Seq(Steps) /\ Head(s) = s[1]
                                           /\ s[1] \in Steps
  BY DEF Banning!Actors
<1>1. ASSUME NEW c \in Caller, NEW i \in Ip, Banning!Unban(c, i) PROVE BanTypes'
  <2> DEFINE todo == {Banning!Order("unban", e, i) : e \in engines}
  <2>1. IsFiniteSet(todo)
    <3> DEFINE f == [e \in engines |-> Banning!Order("unban", e, i)]
    <3>1. f = [e \in engines |-> f[e]] /\ todo = {f[e] : e \in engines}
      OBVIOUS
    <3>2. IsFiniteSet(engines)
      OBVIOUS
    <3> HIDE DEF f
    <3>3. IsFiniteSet({f[e] : e \in engines})
      BY ONLY <3>1, <3>2, FiniteImage
    <3> QED
      BY <3>1, <3>3
  <2>2. todo \subseteq Steps
    BY DEF Banning!Order, Steps
  <2>3. SetToSeq(todo) \in Seq(Steps)
    BY <2>1, <2>2, SeqOfSet
  <2>4. /\ list' = [list EXCEPT ![i] = Banning!NoEntry] /\ kept' \in {list', kept}
        /\ job' = [job EXCEPT ![c] = SetToSeq(todo)] /\ UNCHANGED <<banned, engines>>
    BY <1>1, BansLibrary DEF Banning!Unban
  <2>5. list' \in Bans
    BY <2>4 DEF Bans
  <2> QED
    BY <1>0, <2>3, <2>4, <2>5
<1>2. ASSUME NEW c \in Caller, NEW i \in Ip, NEW end \in {"timed", "forever"},
             Banning!Ban(c, i, end)
      PROVE  BanTypes'
  <2>1. /\ list' = [list EXCEPT ![i] = [end |-> end, manual |-> TRUE]]
        /\ job' = [job EXCEPT ![c] = Banning!ToSync] /\ UNCHANGED <<banned, engines, kept>>
    BY <1>2 DEF Banning!Ban
  <2>2. list' \in Bans
    BY <2>1 DEF Bans, Banning!Entry
  <2>3. Banning!ToSync \in Seq(Steps)
    BY DEF Banning!ToSync, Steps
  <2> QED
    BY <1>0, <2>1, <2>2, <2>3
<1>3. ASSUME NEW c \in Caller, NEW given \in SUBSET Ip, Banning!Replace(c, given)
      PROVE  BanTypes'
  <2>1. /\ list' = Banning!Replaced(given)
        /\ job' = [job EXCEPT ![c] = Banning!ToSync] /\ UNCHANGED <<banned, engines, kept>>
    BY <1>3 DEF Banning!Replace
  <2>2. list' \in Bans
    BY <2>1 DEF Bans, Banning!Entry, Banning!Replaced
  <2>3. Banning!ToSync \in Seq(Steps)
    BY DEF Banning!ToSync, Steps
  <2> QED
    BY <1>0, <2>1, <2>2, <2>3
<1>4. ASSUME NEW c \in Caller, Banning!Snapshot(c) PROVE BanTypes'
  <2> DEFINE todo == {[do |-> "sync", engine |-> e, snap |-> list] : e \in engines}
  <2>1. IsFiniteSet(todo)
    <3> DEFINE f == [e \in engines |-> [do |-> "sync", engine |-> e, snap |-> list]]
    <3>1. f = [e \in engines |-> f[e]] /\ todo = {f[e] : e \in engines}
      OBVIOUS
    <3>2. IsFiniteSet(engines)
      OBVIOUS
    <3> HIDE DEF f
    <3>3. IsFiniteSet({f[e] : e \in engines})
      BY ONLY <3>1, <3>2, FiniteImage
    <3> QED
      BY <3>1, <3>3
  <2>2. todo \subseteq Steps
    BY DEF Steps
  <2>3. SetToSeq(todo) \in Seq(Steps)
    BY <2>1, <2>2, SeqOfSet
  <2>4. /\ job' = [job EXCEPT ![c] = SetToSeq(todo)] /\ UNCHANGED <<list, banned, engines>>
        /\ kept' \in {list, kept}
    BY <1>4, BansLibrary DEF Banning!Snapshot
  <2> QED
    BY <1>0, <2>3, <2>4
<1>5. ASSUME NEW c \in Caller, Banning!Sync(c) PROVE BanTypes'
  <2> DEFINE o == job[c][1]
  <2>1. /\ job[c] # <<>> /\ o.do = "sync"
        /\ banned' = [banned EXCEPT ![o.engine] = Banning!Synced(o.snap, o.engine)]
        /\ job' = [job EXCEPT ![c] = Tail(@)] /\ kept' \in {list, kept}
        /\ UNCHANGED <<list, engines>>
    BY <1>0, <1>5 DEF Banning!Sync, Banning!Idle
  <2>2. o \in Steps /\ Tail(job[c]) \in Seq(Steps)
    BY <1>0, <2>1
  <2>3. o.engine \in Engine /\ o.snap \in Bans
    BY <2>1, <2>2 DEF Steps
  <2>4. Banning!Synced(o.snap, o.engine) \in [Ip -> Ends]
    BY <2>3 DEF Banning!Synced, Bans, Banning!Entry, Banning!NoEntry, Ends
  <2> HIDE DEF o
  <2> QED
    BY <1>0, <2>1, <2>2, <2>3, <2>4
<1>6. ASSUME NEW c \in Caller, Banning!UnbanAt(c) PROVE BanTypes'
  <2> DEFINE o == job[c][1]
  <2>1. /\ job[c] # <<>> /\ o.do = "unban"
        /\ banned' = [banned EXCEPT ![o.engine][o.ip] = "none"]
        /\ job' = [job EXCEPT ![c] = Tail(@)] /\ kept' \in {list, kept}
        /\ UNCHANGED <<list, engines>>
    BY <1>0, <1>6 DEF Banning!UnbanAt, Banning!Idle
  <2>2. o \in Steps /\ Tail(job[c]) \in Seq(Steps)
    BY <1>0, <2>1
  <2>3. o.engine \in Engine /\ o.ip \in Ip
    BY <2>1, <2>2 DEF Steps
  <2> HIDE DEF o
  <2> QED
    BY <1>0, <2>1, <2>2, <2>3 DEF Ends
<1>7. ASSUME NEW e \in Engine, Banning!StartEngine(e) PROVE BanTypes'
  <2>1. <<[do |-> "read"]>> \in Seq(Steps)
    BY DEF Steps
  <2> QED
    BY <1>0, <1>7, <2>1, FS_AddElement DEF Banning!StartEngine
<1>8. ASSUME NEW e \in Engine, Banning!ReadList(e) PROVE BanTypes'
  <2> DEFINE todo == {[do |-> "copy", engine |-> e, ip |-> i, end |-> list[i].end]
                        : i \in Banning!Listed}
  <2>1. IsFiniteSet(Banning!Listed)
    BY FS_Subset, BansLibrary
    DEF Banning!Listed, Banning!BansAssumption
  <2>2. IsFiniteSet(todo)
    <3> DEFINE f == [i \in Banning!Listed |->
                       [do |-> "copy", engine |-> e, ip |-> i, end |-> list[i].end]]
    <3>1. /\ f = [i \in Banning!Listed |-> f[i]]
          /\ todo = {f[i] : i \in Banning!Listed}
      OBVIOUS
    <3> HIDE DEF f
    <3> QED
      BY <2>1, <3>1, FiniteImage
  <2>3. todo \subseteq Steps
    BY DEF Steps, Banning!Listed, Bans, Banning!Entry, Banning!NoEntry, Ends
  <2>4. SetToSeq(todo) \in Seq(Steps)
    BY <2>2, <2>3, SeqOfSet
  <2>5. job' = [job EXCEPT ![e] = SetToSeq(todo)] /\ UNCHANGED <<list, banned, engines, kept>>
    BY <1>8, BansLibrary DEF Banning!ReadList, Banning!Handed
  <2> QED
    BY <1>0, <2>4, <2>5
<1>9. ASSUME NEW e \in Engine, Banning!Copy(e) PROVE BanTypes'
  <2> DEFINE o == job[e][1]
  <2>1. /\ job[e] # <<>> /\ o.do = "copy"
        /\ banned' \in {banned, [banned EXCEPT ![e][o.ip] = o.end]}
        /\ job' = [job EXCEPT ![e] = Tail(@)] /\ UNCHANGED <<list, engines, kept>>
    BY <1>0, <1>9 DEF Banning!Copy, Banning!Idle
  <2>2. o \in Steps /\ Tail(job[e]) \in Seq(Steps)
    BY <1>0, <2>1
  <2>3. o.end \in Ends /\ o.ip \in Ip
    BY <2>1, <2>2 DEF Steps
  <2> HIDE DEF o
  <2>4. [banned[e] EXCEPT ![o.ip] = o.end] \in [Ip -> Ends]
    BY <2>3
  <2>41. banned' \in [Engine -> [Ip -> Ends]]
    <3>1. CASE banned' = banned
      BY <3>1
    <3>2. CASE banned' = [banned EXCEPT ![e][o.ip] = o.end]
      BY <2>4, <3>2
    <3> QED
      BY <2>1, <3>1, <3>2
  <2>5. job' \in [Banning!Actors -> Seq(Steps)]
    BY <1>0, <2>1, <2>2
  <2> QED
    BY <2>1, <2>41, <2>5
<1>10. ASSUME NEW e \in Engine, Banning!StopEngine(e) PROVE BanTypes'
  <2>1. /\ engines' = engines \ {e} /\ UNCHANGED <<list, job, kept>>
        /\ banned' = [banned EXCEPT ![e] = [i \in Ip |-> "none"]]
    BY <1>10 DEF Banning!StopEngine
  <2>2. [i \in Ip |-> "none"] \in [Ip -> Ends]
    BY DEF Ends
  <2>3. IsFiniteSet(engines')
    BY <2>1, FS_RemoveElement
  <2>4. banned' \in [Engine -> [Ip -> Ends]]
    BY <2>1, <2>2
  <2>5. engines' \subseteq Engine
    BY <2>1
  <2> QED
    BY <2>1, <2>3, <2>4, <2>5
<1>11. ASSUME NEW i \in Ip, Banning!Expire(i) PROVE BanTypes'
  <2>1. list' \in Bans /\ kept' \in Bans
    BY <1>11 DEF Banning!Expire, Bans
  <2>2. banned' \in [Engine -> [Ip -> Ends]]
    BY <1>11 DEF Banning!Expire, Banning!Ended, Ends
  <2>3. UNCHANGED engines
    BY <1>11 DEF Banning!Expire
  <2>4. ASSUME NEW a \in Banning!Actors PROVE job'[a] \in Seq(Steps)
    <3> DEFINE Out(o) ==
                 CASE o.do = "sync" /\ o.snap[i].end = "timed" ->
                        [o EXCEPT !.snap[i] = Banning!NoEntry]
                   [] o.do = "copy" /\ o.ip = i /\ o.end = "timed" -> [o EXCEPT !.end = "none"]
                   [] OTHER -> o
    <3>1. job'[a] = [k \in 1..Len(job[a]) |-> Out(job[a][k])]
      BY <1>11 DEF Banning!Expire
    <3>2. ASSUME NEW o \in Steps PROVE Out(o) \in Steps
      BY DEF Steps, Bans, Ends
    <3> HIDE DEF Out
    <3> QED
      BY <3>1, <3>2
  <2> QED
    <3>1. job' = [a \in Banning!Actors |-> job'[a]]
      BY <1>11 DEF Banning!Expire
    <3> QED
      BY <2>1, <2>2, <2>3, <2>4, <3>1
<1>12. ASSUME Banning!Restart PROVE BanTypes'
  <2>1. list' = kept /\ UNCHANGED <<banned, engines, job, kept>>
    BY <1>12 DEF Banning!Restart
  <2> QED
    BY <2>1
<1>13. ASSUME UNCHANGED Banning!bansVars PROVE BanTypes'
  BY <1>13 DEF Banning!bansVars
<1> QED
  BY <1>1, <1>2, <1>3, <1>4, <1>5, <1>6, <1>7, <1>8, <1>9, <1>10, <1>11, <1>12, <1>13
  DEF Banning!BansNext

(* What an actor under way may be doing. *)
Doing(a) == Syncs(a) \/ Unbans(a) \/ Copies(a) \/ Starts(a) \/ Begins(a)

LEMMA OneActor ==
    ASSUME BanTypes', NEW a \in Banning!Actors,
           \A b \in Banning!Actors \ {a} : job'[b] = Banning!Idle, Doing(a)',
           \A e \in Engine \ engines' : \A i \in Ip : banned'[e][i] = "none"
    PROVE  BansInv'
<1>1. Banning!Quiet' => \A e \in engines' : Agrees(e)'
  <2> SUFFICES ASSUME Banning!Quiet' PROVE \A e \in engines' : Agrees(e)'
    OBVIOUS
  <2>1. job'[a] = <<>> /\ Len(job'[a]) = 0 /\ ~(0 = 1)
    BY DEF Banning!Quiet, Banning!Idle
  <2>2. ~Starts(a)' /\ ~Begins(a)'
    BY <2>1 DEF Starts, Begins
  <2>3. CASE Syncs(a)'
    BY <2>1, <2>3 DEF Syncs
  <2>4. CASE Unbans(a)'
    BY <2>1, <2>4 DEF Unbans, Agrees, Banning!NoEntry
  <2>5. CASE Copies(a)'
    BY <2>1, <2>5 DEF Copies, Agrees
  <2> QED
    BY <2>2, <2>3, <2>4, <2>5 DEF Doing
<1> QED
  BY <1>1 DEF BansInv, Doing

(* The order a caller or an engine acts on says what it is doing. *)
LEMMA DoingNow ==
    ASSUME BansInv, NEW a \in Banning!Actors, job[a] # Banning!Idle
    PROVE  /\ \A b \in Banning!Actors \ {a} : job[b] = Banning!Idle
           /\ job[a][1] \in Steps /\ Len(job[a]) \in Nat /\ Len(job[a]) >= 1
           /\ Head(job[a]) = job[a][1]
           /\ Tail(job[a]) \in Seq(Steps) /\ Len(Tail(job[a])) = Len(job[a]) - 1
           /\ \A k \in 1..(Len(job[a]) - 1) : Tail(job[a])[k] = job[a][k + 1]
           /\ job[a][1].do = "snapshot" => Begins(a)
           /\ job[a][1].do = "sync" => Syncs(a)
           /\ job[a][1].do = "unban" => Unbans(a)
           /\ job[a][1].do = "copy" => Copies(a)
           /\ job[a][1].do = "read" => Starts(a)
<1>1. job[a] \in Seq(Steps) /\ job[a] # <<>>
  BY DEF BansInv, BanTypes, Banning!Idle
<1>2. /\ job[a][1] \in Steps /\ Len(job[a]) \in Nat /\ Len(job[a]) >= 1
      /\ Head(job[a]) = job[a][1]
      /\ Tail(job[a]) \in Seq(Steps) /\ Len(Tail(job[a])) = Len(job[a]) - 1
      /\ \A k \in 1..(Len(job[a]) - 1) : Tail(job[a])[k] = job[a][k + 1]
  BY ONLY <1>1
<1>3. 1 \in 1..Len(job[a])
  BY <1>2
<1>4. /\ Syncs(a) => job[a][1].do = "sync"
      /\ Unbans(a) => job[a][1].do = "unban"
      /\ Copies(a) => job[a][1].do = "copy"
      /\ Starts(a) => job[a][1].do = "read"
      /\ Begins(a) => job[a][1].do = "snapshot"
  BY <1>3 DEF Syncs, Unbans, Copies, Starts, Begins
<1>5. Syncs(a) \/ Unbans(a) \/ Copies(a) \/ Starts(a) \/ Begins(a)
  BY DEF BansInv
<1> QED
  BY <1>2, <1>4, <1>5 DEF BansInv

LEMMA BansKept ==
    ASSUME Banning!BansAssumption, ~Overlap, BansInv, [Banning!BansNext]_Banning!bansVars
    PROVE  BansInv'
<1>0. /\ Caller \subseteq Banning!Actors /\ Engine \subseteq Banning!Actors
      /\ BanTypes /\ BanTypes'
      /\ \A a \in Banning!Actors : job[a] \in Seq(Steps)
  BY BanTypesKept DEF BansInv, BanTypes, Banning!Actors
<1>a. ASSUME NEW a \in Banning!Actors, Banning!MayStart(a)
      PROVE  /\ \A b \in Banning!Actors : job[b] = Banning!Idle
             /\ \A e \in engines : Agrees(e)
  BY <1>a DEF Banning!MayStart, Banning!Quiet, BansInv
<1>b. \A e \in Engine \ engines : \A i \in Ip : banned[e][i] = "none"
  BY DEF BansInv
<1>c. /\ DOMAIN job = Banning!Actors /\ DOMAIN list = Ip /\ DOMAIN banned = Engine
      /\ engines \subseteq Engine /\ \A e \in Engine : DOMAIN banned[e] = Ip
  BY <1>0 DEF BanTypes, Bans
<1>1. ASSUME NEW c \in Caller, NEW i \in Ip, Banning!Unban(c, i) PROVE BansInv'
  <2> DEFINE todo == {Banning!Order("unban", e, i) : e \in engines}
             s == SetToSeq(todo)
  <2>1. IsFiniteSet(todo)
    <3> DEFINE f == [e \in engines |-> Banning!Order("unban", e, i)]
    <3>1. f = [e \in engines |-> f[e]] /\ todo = {f[e] : e \in engines}
      OBVIOUS
    <3>2. IsFiniteSet(engines)
      BY <1>0 DEF BanTypes
    <3> HIDE DEF f
    <3>3. IsFiniteSet({f[e] : e \in engines})
      BY ONLY <3>1, <3>2, FiniteImage
    <3> QED
      BY <3>1, <3>3
  <2>3. /\ list' = [list EXCEPT ![i] = Banning!NoEntry]
        /\ job' = [job EXCEPT ![c] = s] /\ UNCHANGED <<banned, engines>>
        /\ Banning!MayStart(c)
    BY <1>1, BansLibrary DEF Banning!Unban
  <2>4. /\ \A k \in 1..Len(s) : s[k].do = "unban" /\ s[k].ip = i /\ s[k].engine \in engines
        /\ \A e \in engines : \E k \in 1..Len(s) : s[k].engine = e
    <3>1. /\ \A k \in 1..Len(s) : s[k] \in todo
          /\ \A x \in todo : \E k \in 1..Len(s) : s[k] = x
      BY <2>1, SeqMembers
    <3>2. \A x \in todo : x.do = "unban" /\ x.ip = i /\ x.engine \in engines
      BY DEF Banning!Order
    <3>3. ASSUME NEW e \in engines PROVE \E k \in 1..Len(s) : s[k].engine = e
      <4>1. Banning!Order("unban", e, i) \in todo
        OBVIOUS
      <4> HIDE DEF s, todo
      <4>2. PICK k \in 1..Len(s) : s[k] = Banning!Order("unban", e, i)
        BY <3>1, <4>1
      <4> QED
        BY <4>2 DEF Banning!Order
    <3> HIDE DEF s, todo
    <3> QED
      BY <3>1, <3>2, <3>3
  <2> HIDE DEF s, todo
  <2>5. Unbans(c)'
    <3>1. job'[c] = s /\ list'[i] = Banning!NoEntry /\ \A j \in Ip \ {i} : list'[j] = list[j]
      BY <1>0, <1>c, <2>3
    <3>2. \A e \in engines' : \A j \in Ip \ {i} : banned'[e][j] = list'[j].end
      BY <1>0, <1>a, <2>3, <3>1 DEF Agrees
    <3> QED
      BY <2>3, <2>4, <3>1, <3>2 DEF Unbans
  <2> QED
    BY <1>0, <1>a, <1>b, <1>c, <2>3, <2>5, OneActor DEF Doing
<1>2. ASSUME NEW c \in Caller, NEW i \in Ip, NEW end \in {"timed", "forever"},
             Banning!Ban(c, i, end)
      PROVE  BansInv'
  <2>1. /\ job' = [job EXCEPT ![c] = Banning!ToSync] /\ UNCHANGED <<banned, engines>>
        /\ Banning!MayStart(c)
    BY <1>2 DEF Banning!Ban
  <2>2. Begins(c)'
    BY <1>0, <1>c, <2>1 DEF Begins, Banning!ToSync
  <2> QED
    BY <1>0, <1>a, <1>b, <1>c, <2>1, <2>2, OneActor DEF Doing
<1>3. ASSUME NEW c \in Caller, NEW given \in SUBSET Ip, Banning!Replace(c, given)
      PROVE  BansInv'
  <2>1. /\ job' = [job EXCEPT ![c] = Banning!ToSync] /\ UNCHANGED <<banned, engines>>
        /\ Banning!MayStart(c)
    BY <1>3 DEF Banning!Replace
  <2>2. Begins(c)'
    BY <1>0, <1>c, <2>1 DEF Begins, Banning!ToSync
  <2> QED
    BY <1>0, <1>a, <1>b, <1>c, <2>1, <2>2, OneActor DEF Doing
<1>4. ASSUME NEW c \in Caller, Banning!Snapshot(c) PROVE BansInv'
  <2> DEFINE todo == {[do |-> "sync", engine |-> e, snap |-> list] : e \in engines}
             s == SetToSeq(todo)
  <2>1. IsFiniteSet(todo)
    <3> DEFINE f == [e \in engines |-> [do |-> "sync", engine |-> e, snap |-> list]]
    <3>1. f = [e \in engines |-> f[e]] /\ todo = {f[e] : e \in engines}
      OBVIOUS
    <3>2. IsFiniteSet(engines)
      BY <1>0 DEF BanTypes
    <3> HIDE DEF f
    <3>3. IsFiniteSet({f[e] : e \in engines})
      BY ONLY <3>1, <3>2, FiniteImage
    <3> QED
      BY <3>1, <3>3
  <2>3. /\ job' = [job EXCEPT ![c] = s] /\ UNCHANGED <<list, banned, engines>>
        /\ job[c] # Banning!Idle
    BY <1>4, BansLibrary DEF Banning!Snapshot
  <2>4. /\ \A k \in 1..Len(s) :
             s[k].do = "sync" /\ s[k].snap = list /\ s[k].engine \in engines
        /\ \A e \in engines : \E k \in 1..Len(s) : s[k].engine = e
    <3>1. /\ \A k \in 1..Len(s) : s[k] \in todo
          /\ \A x \in todo : \E k \in 1..Len(s) : s[k] = x
      BY <2>1, SeqMembers
    <3>2. \A x \in todo : x.do = "sync" /\ x.snap = list /\ x.engine \in engines
      OBVIOUS
    <3>3. ASSUME NEW e \in engines PROVE \E k \in 1..Len(s) : s[k].engine = e
      <4>1. [do |-> "sync", engine |-> e, snap |-> list] \in todo
        OBVIOUS
      <4> HIDE DEF s, todo
      <4>2. PICK k \in 1..Len(s) : s[k] = [do |-> "sync", engine |-> e, snap |-> list]
        BY <3>1, <4>1
      <4> QED
        BY <4>2
    <3> HIDE DEF s, todo
    <3> QED
      BY <3>1, <3>2, <3>3
  <2> HIDE DEF s, todo
  <2>5. Syncs(c)'
    <3>1. job'[c] = s
      BY <1>0, <1>c, <2>3
    <3> QED
      BY <2>3, <2>4, <3>1 DEF Syncs
  <2> QED
    BY <1>0, <1>b, <1>c, <2>3, <2>5, DoingNow, OneActor DEF Doing
<1>5. ASSUME NEW c \in Caller, Banning!Sync(c) PROVE BansInv'
  <2> DEFINE r == job[c][1]
  <2>1. job[c] # Banning!Idle /\ c \in Banning!Actors
    BY <1>0, <1>5 DEF Banning!Sync
  <2>2. /\ r.do = "sync"
        /\ banned' = [banned EXCEPT ![r.engine] = Banning!Synced(r.snap, r.engine)]
        /\ job' = [job EXCEPT ![c] = Tail(@)] /\ UNCHANGED <<list, engines>>
    BY <1>5, <2>1, DoingNow DEF Banning!Sync
  <2>3. /\ Syncs(c) /\ r \in Steps /\ job'[c] = Tail(job[c])
        /\ \A b \in Banning!Actors \ {c} : job'[b] = Banning!Idle
    BY <1>c, <2>1, <2>2, DoingNow
  <2>4. r.engine \in engines /\ r.snap = list
    <3>1. 1 \in 1..Len(job[c])
      BY <2>1, DoingNow
    <3> QED
      BY <2>2, <2>3, <3>1 DEF Syncs, Steps
  <2>40. PICK f \in engines : f = r.engine
    BY <2>4
  <2>5. /\ \A j \in Ip : banned'[f][j] = list'[j].end
        /\ \A e \in Engine \ {f} : banned'[e] = banned[e]
    BY <1>c, <2>2, <2>4, <2>40 DEF Banning!Synced
  <2>6. /\ \A k \in 1..Len(job'[c]) : k + 1 \in 1..Len(job[c]) /\ job'[c][k] = job[c][k + 1]
        /\ \A k \in 1..Len(job[c]) : k # 1 => k - 1 \in 1..Len(job'[c])
                                              /\ job'[c][k - 1] = job[c][k]
    BY <2>1, <2>3, DoingNow
  <2> HIDE DEF r
  <2>7. Syncs(c)'
    <3>1. \A k \in 1..Len(job'[c]) :
            job'[c][k].do = "sync" /\ job'[c][k].snap = list' /\ job'[c][k].engine \in engines'
      BY <2>2, <2>3, <2>6 DEF Syncs
    <3>2. ASSUME NEW e \in engines', e # f, ~Agrees(e)'
          PROVE  \E k \in 1..Len(job'[c]) : job'[c][k].engine = e
      <4>1. e \in engines /\ ~Agrees(e)
        BY <1>c, <2>2, <2>5, <3>2 DEF Agrees
      <4>2. PICK k \in 1..Len(job[c]) : job[c][k].engine = e
        BY <2>3, <4>1 DEF Syncs
      <4>3. k # 1
        BY <2>40, <3>2, <4>2 DEF r
      <4> QED
        BY <2>6, <4>2, <4>3
    <3>3. Agrees(f)'
      BY <2>5 DEF Agrees
    <3> QED
      BY <3>1, <3>2, <3>3 DEF Syncs
  <2>8. \A e \in Engine \ engines' : \A i \in Ip : banned'[e][i] = "none"
    BY <1>b, <2>2, <2>5
  <2> QED
    BY <1>0, <2>1, <2>3, <2>7, <2>8, OneActor DEF Doing
<1>6. ASSUME NEW c \in Caller, Banning!UnbanAt(c) PROVE BansInv'
  <2> DEFINE r == job[c][1]
  <2>1. job[c] # Banning!Idle /\ c \in Banning!Actors
    BY <1>0, <1>6 DEF Banning!UnbanAt
  <2>2. /\ r.do = "unban" /\ banned' = [banned EXCEPT ![r.engine][r.ip] = "none"]
        /\ job' = [job EXCEPT ![c] = Tail(@)] /\ UNCHANGED <<list, engines>>
    BY <1>6, <2>1, DoingNow DEF Banning!UnbanAt
  <2>3. /\ Unbans(c) /\ job'[c] = Tail(job[c])
        /\ \A b \in Banning!Actors \ {c} : job'[b] = Banning!Idle
    BY <1>c, <2>1, <2>2, DoingNow
  <2>4. PICK i \in Ip :
          /\ list[i] = Banning!NoEntry
          /\ \A k \in 1..Len(job[c]) :
               job[c][k].do = "unban" /\ job[c][k].ip = i /\ job[c][k].engine \in engines
          /\ \A e \in engines :
               /\ \A j \in Ip \ {i} : banned[e][j] = list[j].end
               /\ banned[e][i] = "none" \/ \E k \in 1..Len(job[c]) : job[c][k].engine = e
    BY <2>3 DEF Unbans
  <2>5. r.ip = i /\ r.engine \in engines
    <3>1. 1 \in 1..Len(job[c])
      BY <2>1, DoingNow
    <3> QED
      BY <2>4, <3>1
  <2>6. PICK f \in engines : f = r.engine
    BY <2>5
  <2>7. /\ banned'[f][i] = "none" /\ \A j \in Ip \ {i} : banned'[f][j] = banned[f][j]
        /\ \A e \in Engine \ {f} : banned'[e] = banned[e]
    BY <1>c, <2>2, <2>5, <2>6
  <2>8. /\ \A k \in 1..Len(job'[c]) : k + 1 \in 1..Len(job[c]) /\ job'[c][k] = job[c][k + 1]
        /\ \A k \in 1..Len(job[c]) : k # 1 => k - 1 \in 1..Len(job'[c])
                                              /\ job'[c][k - 1] = job[c][k]
    BY <2>1, <2>3, DoingNow
  <2>9. Unbans(c)'
    <3>1. \A k \in 1..Len(job'[c]) :
            job'[c][k].do = "unban" /\ job'[c][k].ip = i /\ job'[c][k].engine \in engines'
      BY <2>2, <2>4, <2>8
    <3>2. ASSUME NEW e \in engines', banned'[e][i] # "none"
          PROVE  \E k \in 1..Len(job'[c]) : job'[c][k].engine = e
      <4>1. e \in engines /\ banned[e][i] # "none" /\ e # f
        BY <1>c, <2>2, <2>7, <3>2
      <4>2. PICK k \in 1..Len(job[c]) : job[c][k].engine = e
        BY <2>4, <4>1
      <4>3. k # 1
        BY <2>6, <4>1, <4>2
      <4> QED
        BY <2>8, <4>2, <4>3
    <3>3. \A e \in engines' : \A j \in Ip \ {i} : banned'[e][j] = list'[j].end
      BY <1>c, <2>2, <2>4, <2>7
    <3>4. list'[i] = Banning!NoEntry
      BY <2>2, <2>4
    <3> QED
      BY <3>1, <3>2, <3>3, <3>4 DEF Unbans
  <2>10. \A e \in Engine \ engines' : \A j \in Ip : banned'[e][j] = "none"
    BY <1>b, <2>2, <2>6, <2>7
  <2> QED
    BY <1>0, <2>1, <2>3, <2>9, <2>10, OneActor DEF Doing
<1>7. ASSUME NEW e \in Engine, Banning!StartEngine(e) PROVE BansInv'
  <2>1. /\ e \notin engines /\ Banning!MayStart(e) /\ engines' = engines \cup {e}
        /\ job' = [job EXCEPT ![e] = <<[do |-> "read"]>>] /\ UNCHANGED <<list, banned>>
    BY <1>7 DEF Banning!StartEngine
  <2>2. \A x \in engines : \A i \in Ip : banned'[x][i] = list'[i].end
    BY <1>0, <1>a, <2>1 DEF Agrees
  <2>3. Starts(e)'
    <3>1. Len(job'[e]) = 1 /\ job'[e][1].do = "read"
      BY <1>0, <1>c, <2>1
    <3>2. e \in engines' /\ \A i \in Ip : banned'[e][i] = "none"
      BY <1>b, <2>1
    <3> QED
      BY <2>1, <2>2, <3>1, <3>2 DEF Starts, Agrees
  <2> QED
    BY <1>0, <1>a, <1>b, <1>c, <2>1, <2>3, OneActor DEF Doing
<1>8. ASSUME NEW e \in Engine, Banning!ReadList(e) PROVE BansInv'
  <2> DEFINE todo == {[do |-> "copy", engine |-> e, ip |-> i, end |-> list[i].end]
                        : i \in Banning!Listed}
             s == SetToSeq(todo)
  <2>1. IsFiniteSet(todo)
    <3> DEFINE f == [i \in Banning!Listed |->
                       [do |-> "copy", engine |-> e, ip |-> i, end |-> list[i].end]]
    <3>1. f = [i \in Banning!Listed |-> f[i]] /\ todo = {f[i] : i \in Banning!Listed}
      OBVIOUS
    <3>2. IsFiniteSet(Banning!Listed)
      BY FS_Subset, BansLibrary DEF Banning!Listed, Banning!BansAssumption
    <3> HIDE DEF f
    <3>3. IsFiniteSet({f[i] : i \in Banning!Listed})
      BY ONLY <3>1, <3>2, FiniteImage
    <3> QED
      BY <3>1, <3>3
  <2>2. /\ job[e] # Banning!Idle /\ Head(job[e]).do = "read" /\ e \in Banning!Actors
        /\ job' = [job EXCEPT ![e] = s] /\ UNCHANGED <<list, banned, engines>>
    BY <1>0, <1>8, BansLibrary DEF Banning!ReadList, Banning!Handed
  <2>3. \A k \in 1..Len(s) : s[k].do = "copy" /\ s[k].end = list[s[k].ip].end
    <3>1. \A k \in 1..Len(s) : s[k] \in todo
      BY <2>1, SeqMembers
    <3>2. \A x \in todo : x.do = "copy" /\ x.end = list[x.ip].end
      OBVIOUS
    <3> HIDE DEF s, todo
    <3> QED
      BY <3>1, <3>2
  <2>4. ASSUME NEW i \in Banning!Listed PROVE \E k \in 1..Len(s) : s[k].ip = i
    <3>1. [do |-> "copy", engine |-> e, ip |-> i, end |-> list[i].end] \in todo
      OBVIOUS
    <3>2. \A x \in todo : \E k \in 1..Len(s) : s[k] = x
      BY <2>1, SeqMembers
    <3> HIDE DEF s, todo
    <3>3. PICK k \in 1..Len(s) :
            s[k] = [do |-> "copy", engine |-> e, ip |-> i, end |-> list[i].end]
      BY <3>1, <3>2
    <3> QED
      BY <3>3
  <2> HIDE DEF s, todo
  <2>5. Starts(e)
    BY <2>2, DoingNow
  <2>6. Copies(e)'
    <3>1. job'[e] = s
      BY <1>c, <2>2
    <3>2. \A i \in Ip : banned'[e][i] = "none" /\ banned'[e][i] = banned[e][i]
      BY <2>2, <2>5 DEF Starts
    <3>3. ASSUME NEW i \in Ip, banned'[e][i] # list'[i].end
          PROVE  \E k \in 1..Len(job'[e]) : job'[e][k].ip = i
      <4>1. i \in Banning!Listed
        BY <2>2, <3>2, <3>3 DEF Banning!Listed, Banning!NoEntry
      <4> QED
        BY <2>4, <3>1, <4>1
    <3>4. e \in engines' /\ \A x \in engines' \ {e} : Agrees(x)'
      BY <2>2, <2>5 DEF Starts, Agrees
    <3> QED
      BY <2>2, <2>3, <3>1, <3>2, <3>3, <3>4 DEF Copies
  <2> QED
    BY <1>0, <1>b, <1>c, <2>2, <2>6, DoingNow, OneActor DEF Doing
<1>9. ASSUME NEW e \in Engine, Banning!Copy(e) PROVE BansInv'
  <2> DEFINE r == job[e][1]
  <2>1. job[e] # Banning!Idle /\ e \in Banning!Actors
    BY <1>0, <1>9 DEF Banning!Copy
  <2>2. /\ r.do = "copy"
        /\ banned' = IF r.end = "none" THEN banned ELSE [banned EXCEPT ![e][r.ip] = r.end]
        /\ job' = [job EXCEPT ![e] = Tail(@)] /\ UNCHANGED <<list, engines>>
    BY <1>9, <2>1, DoingNow DEF Banning!Copy
  <2>3. /\ Copies(e) /\ r \in Steps /\ job'[e] = Tail(job[e])
        /\ \A b \in Banning!Actors \ {e} : job'[b] = Banning!Idle
    BY <1>c, <2>1, <2>2, DoingNow
  <2>4. r.ip \in Ip /\ r.end = list[r.ip].end
    <3>1. 1 \in 1..Len(job[e])
      BY <2>1, DoingNow
    <3> QED
      BY <2>2, <2>3, <3>1 DEF Copies, Steps
  <2>5. PICK p \in Ip : p = r.ip
    BY <2>4
  <2>6. banned[e][p] = "none" \/ banned[e][p] = list[p].end
    BY <2>3 DEF Copies
  <2>7. /\ banned'[e][p] = list[p].end /\ \A j \in Ip \ {p} : banned'[e][j] = banned[e][j]
        /\ \A x \in Engine \ {e} : banned'[x] = banned[x]
    <3>1. CASE r.end = "none"
      <4>1. banned' = banned /\ list[p].end = "none"
        BY <2>2, <2>4, <2>5, <3>1
      <4> QED
        BY <2>6, <4>1
    <3>2. CASE r.end # "none"
      <4>1. banned' = [banned EXCEPT ![e][p] = list[p].end]
        BY <2>2, <2>4, <2>5, <3>2
      <4> QED
        BY <1>c, <4>1
    <3> QED
      BY <3>1, <3>2
  <2>8. /\ \A k \in 1..Len(job'[e]) : k + 1 \in 1..Len(job[e]) /\ job'[e][k] = job[e][k + 1]
        /\ \A k \in 1..Len(job[e]) : k # 1 => k - 1 \in 1..Len(job'[e])
                                              /\ job'[e][k - 1] = job[e][k]
    BY <2>1, <2>3, DoingNow
  <2>9. Copies(e)'
    <3>1. \A k \in 1..Len(job'[e]) :
            job'[e][k].do = "copy" /\ job'[e][k].end = list'[job'[e][k].ip].end
      BY <2>2, <2>3, <2>8 DEF Copies
    <3>2. ASSUME NEW j \in Ip, j # p, banned'[e][j] # list'[j].end
          PROVE  banned'[e][j] = "none" /\ \E k \in 1..Len(job'[e]) : job'[e][k].ip = j
      <4>1. /\ banned'[e][j] = "none"
            /\ \E k \in 1..Len(job[e]) : job[e][k].ip = j
        BY <2>2, <2>3, <2>7, <3>2 DEF Copies
      <4>2. PICK k \in 1..Len(job[e]) : job[e][k].ip = j
        BY <4>1
      <4>3. k # 1
        BY <2>5, <3>2, <4>2
      <4> QED
        BY <2>8, <4>1, <4>2, <4>3
    <3>3. banned'[e][p] = list'[p].end
      BY <2>2, <2>7
    <3>4. e \in engines' /\ \A x \in engines' \ {e} : Agrees(x)'
      BY <1>c, <2>2, <2>3, <2>7 DEF Copies, Agrees
    <3> QED
      BY <3>1, <3>2, <3>3, <3>4 DEF Copies
  <2>10. \A x \in Engine \ engines' : \A j \in Ip : banned'[x][j] = "none"
    BY <1>b, <2>2, <2>3, <2>7 DEF Copies
  <2> QED
    BY <1>0, <2>1, <2>3, <2>9, <2>10, OneActor DEF Doing
<1>10. ASSUME NEW e \in Engine, Banning!StopEngine(e) PROVE BansInv'
  <2>1. /\ e \in engines /\ job[e] = Banning!Idle /\ engines' = engines \ {e}
        /\ banned' = [banned EXCEPT ![e] = [i \in Ip |-> "none"]] /\ UNCHANGED <<list, job>>
        /\ \A c \in Caller : \A k \in DOMAIN job[c] :
             job[c][k].do # "snapshot" => job[c][k].engine # e
    BY <1>10 DEF Banning!StopEngine
  <2>2. \A x \in Engine \ {e} : banned'[x] = banned[x]
    BY <1>c, <2>1
  <2>3. \A x \in Engine \ engines' : \A i \in Ip : banned'[x][i] = "none"
    BY <1>b, <1>c, <2>1, <2>2
  <2>4. \A x \in engines' : x \in engines /\ x # e /\ (Agrees(x) => Agrees(x)')
    BY <1>c, <2>1, <2>2 DEF Agrees
  <2>5. ASSUME NEW a \in Banning!Actors, job[a] # Banning!Idle PROVE Doing(a)'
    <3>1. DOMAIN job[a] = 1..Len(job[a])
      BY <1>0
    <3>2. CASE Syncs(a)
      <4>1. \A k \in 1..Len(job[a]) : job[a][k].engine \in engines'
        BY <2>1, <3>1, <3>2 DEF Syncs
      <4> QED
        BY <2>1, <2>4, <3>2, <4>1 DEF Syncs, Doing
    <3>3. CASE Unbans(a)
      <4>1. PICK i \in Ip :
              /\ list[i] = Banning!NoEntry
              /\ \A k \in 1..Len(job[a]) :
                   job[a][k].do = "unban" /\ job[a][k].ip = i /\ job[a][k].engine \in engines
              /\ \A x \in engines :
                   /\ \A j \in Ip \ {i} : banned[x][j] = list[j].end
                   /\ banned[x][i] = "none" \/ \E k \in 1..Len(job[a]) : job[a][k].engine = x
        BY <3>3 DEF Unbans
      <4>2. a \in Caller
        BY <3>3 DEF Unbans
      <4>3. \A k \in 1..Len(job[a]) : job[a][k].engine \in engines'
        BY <2>1, <3>1, <4>1, <4>2
      <4>4. \A x \in engines' :
              /\ \A j \in Ip \ {i} : banned'[x][j] = list'[j].end
              /\ banned'[x][i] = "none" \/ \E k \in 1..Len(job[a]) : job[a][k].engine = x
        BY <1>c, <2>1, <2>2, <4>1
      <4> QED
        BY <2>1, <4>1, <4>2, <4>3, <4>4 DEF Unbans, Doing
    <3>4. CASE Copies(a)
      BY <1>c, <2>1, <2>2, <2>4, <2>5, <3>4 DEF Copies, Doing
    <3>5. CASE Starts(a)
      BY <1>c, <2>1, <2>2, <2>4, <2>5, <3>5 DEF Starts, Doing
    <3>6. CASE Begins(a)
      BY <2>1, <3>6 DEF Begins, Doing
    <3> QED
      BY <2>5, <3>2, <3>3, <3>4, <3>5, <3>6 DEF BansInv
  <2>6. Banning!Quiet' => \A x \in engines' : Agrees(x)'
    BY <2>1, <2>4 DEF Banning!Quiet, BansInv
  <2> QED
    BY <1>0, <2>1, <2>3, <2>5, <2>6 DEF BansInv, Doing
<1>11. ASSUME NEW i \in Ip, Banning!Expire(i) PROVE BansInv'
  <2> DEFINE Cut(x) == IF x.end = "timed" THEN Banning!NoEntry ELSE x
             Out(o) ==
               CASE o.do = "sync" /\ o.snap[i].end = "timed" ->
                      [o EXCEPT !.snap[i] = Banning!NoEntry]
                 [] o.do = "copy" /\ o.ip = i /\ o.end = "timed" -> [o EXCEPT !.end = "none"]
                 [] OTHER -> o
  <2>1. /\ list' = [list EXCEPT ![i] = Cut(list[i])] /\ UNCHANGED engines
        /\ banned' = [e \in Engine |-> Banning!Ended(banned[e], i)]
        /\ job' = [a \in Banning!Actors |-> [k \in DOMAIN job[a] |-> Out(job[a][k])]]
    BY <1>11 DEF Banning!Expire
  <2>2. /\ list'[i] = Cut(list[i]) /\ \A j \in Ip \ {i} : list'[j] = list[j]
        /\ \A e \in Engine :
             /\ banned'[e][i] = IF banned[e][i] = "timed" THEN "none" ELSE banned[e][i]
             /\ \A j \in Ip \ {i} : banned'[e][j] = banned[e][j]
    BY <1>c, <2>1 DEF Banning!Ended
  <2>3. /\ \A j \in Ip : list[j].end = "none" => list'[j].end = "none"
        /\ \A j \in Ip : list[j] = Banning!NoEntry => list'[j] = Banning!NoEntry
        /\ \A e \in Engine, j \in Ip :
             /\ banned[e][j] = "none" => banned'[e][j] = "none"
             /\ banned[e][j] = list[j].end => banned'[e][j] = list'[j].end
    BY <2>2 DEF Banning!NoEntry
  <2>4. ASSUME NEW o \in Steps
        PROVE  /\ Out(o).do = o.do
               /\ o.do \in {"sync", "unban"} => Out(o).engine = o.engine
               /\ o.do \in {"unban", "copy"} => Out(o).ip = o.ip
               /\ o.do = "copy" /\ o.end = list[o.ip].end => Out(o).end = list'[o.ip].end
    <3>1. CASE o \in [do : {"snapshot", "read"}]
      BY <3>1
    <3>2. CASE o \in [do : {"sync"}, engine : Engine, snap : Bans]
      BY <3>2
    <3>3. CASE o \in [do : {"unban"}, engine : Engine, ip : Ip]
      BY <3>3
    <3>4. CASE o \in [do : {"copy"}, engine : Engine, ip : Ip, end : Ends]
      <4>1. o.do = "copy" /\ o.ip \in Ip
        BY <3>4
      <4>2. Out(o).do = o.do /\ Out(o).ip = o.ip
        BY <3>4, <4>1
      <4>3. ASSUME o.end = list[o.ip].end PROVE Out(o).end = list'[o.ip].end
        <5>1. CASE o.ip = i /\ o.end = "timed"
          BY <2>2, <3>4, <4>3, <5>1 DEF Banning!NoEntry
        <5>2. CASE o.ip = i /\ o.end # "timed"
          BY <2>2, <4>1, <4>3, <5>2
        <5>3. CASE o.ip # i
          BY <2>2, <4>1, <4>3, <5>3
        <5> QED
          BY <5>1, <5>2, <5>3
      <4> QED
        BY <4>1, <4>2, <4>3
    <3> QED
      BY <3>1, <3>2, <3>3, <3>4 DEF Steps
  <2>5. ASSUME NEW o \in Steps, o.do = "sync", o.snap = list PROVE Out(o).snap = list'
    <3>1. o \in [do : {"sync"}, engine : Engine, snap : Bans]
      BY <2>5 DEF Steps
    <3>2. CASE list[i].end = "timed"
      <4>1. Out(o) = [o EXCEPT !.snap[i] = Banning!NoEntry]
        BY <2>5, <3>2
      <4>2. Out(o).snap = [o.snap EXCEPT ![i] = Banning!NoEntry]
        BY <3>1, <4>1
      <4> QED
        BY <2>1, <2>5, <3>2, <4>2
    <3>3. CASE list[i].end # "timed"
      <4>1. Out(o) = o
        BY <2>5, <3>3
      <4>2. list' = list
        BY <1>0, <2>1, <3>3 DEF BanTypes, Bans
      <4> QED
        BY <2>5, <4>1, <4>2
    <3> QED
      BY <3>2, <3>3
  <2>6. ASSUME NEW a \in Banning!Actors
        PROVE  /\ Len(job'[a]) = Len(job[a]) /\ (job'[a] = <<>> <=> job[a] = <<>>)
               /\ \A k \in 1..Len(job[a]) : job'[a][k] = Out(job[a][k]) /\ job[a][k] \in Steps
    <3>1. job[a] \in Seq(Steps)
      BY <1>0
    <3>2. DOMAIN job[a] = 1..Len(job[a]) /\ \A k \in 1..Len(job[a]) : job[a][k] \in Steps
      BY <3>1
    <3>3. job'[a] = [k \in 1..Len(job[a]) |-> Out(job[a][k])]
      BY <2>1, <3>2
    <3>4. Len(job[a]) \in Nat
      BY <3>1
    <3> HIDE DEF Out
    <3>5. Len(job'[a]) = Len(job[a])
      BY <3>3, <3>4
    <3>6. job[a] = <<>> <=> Len(job[a]) = 0
      BY <3>1
    <3>7. job'[a] = <<>> <=> Len(job[a]) = 0
      BY <3>3, <3>4
    <3> QED
      BY <3>2, <3>3, <3>5, <3>6, <3>7
  <2>0. \A a \in Banning!Actors : 1..Len(job'[a]) = 1..Len(job[a])
    BY <2>6
  <2> HIDE DEF Out, Cut
  <2>7. \A e \in engines : Agrees(e) => Agrees(e)'
    BY <1>c, <2>3 DEF Agrees
  <2>8. ASSUME NEW a \in Banning!Actors, job[a] # Banning!Idle PROVE Doing(a)'
    <3>1. CASE Syncs(a)
      <4>1. \A k \in 1..Len(job[a]) :
              job'[a][k].do = "sync" /\ job'[a][k].snap = list'
              /\ job'[a][k].engine = job[a][k].engine /\ job[a][k].engine \in engines
        BY <2>4, <2>5, <2>6, <3>1 DEF Syncs
      <4>2. ASSUME NEW e \in engines', ~Agrees(e)'
            PROVE  \E k \in 1..Len(job'[a]) : job'[a][k].engine = e
        <5>1. PICK k \in 1..Len(job[a]) : job[a][k].engine = e
          BY <2>1, <2>7, <3>1, <4>2 DEF Syncs
        <5> QED
          BY <2>0, <4>1, <5>1
      <4>3. a \in Caller /\ \A k \in 1..Len(job'[a]) :
              job'[a][k].do = "sync" /\ job'[a][k].snap = list' /\ job'[a][k].engine \in engines'
        <5>1. a \in Caller
          BY <3>1 DEF Syncs
        <5>2. engines' = engines
          BY <2>1
        <5>3. 1..Len(job'[a]) = 1..Len(job[a])
          BY <2>0
        <5> QED
          BY ONLY <4>1, <5>1, <5>2, <5>3
      <4> QED
        BY <4>2, <4>3 DEF Syncs, Doing
    <3>2. CASE Unbans(a)
      <4>1. PICK p \in Ip :
              /\ list[p] = Banning!NoEntry
              /\ \A k \in 1..Len(job[a]) :
                   job[a][k].do = "unban" /\ job[a][k].ip = p /\ job[a][k].engine \in engines
              /\ \A e \in engines :
                   /\ \A j \in Ip \ {p} : banned[e][j] = list[j].end
                   /\ banned[e][p] = "none" \/ \E k \in 1..Len(job[a]) : job[a][k].engine = e
        BY <3>2 DEF Unbans
      <4>2. \A k \in 1..Len(job[a]) :
              job'[a][k].do = "unban" /\ job'[a][k].ip = p
              /\ job'[a][k].engine = job[a][k].engine /\ job[a][k].engine \in engines
        BY <2>4, <2>6, <4>1
      <4>3. ASSUME NEW e \in engines', banned'[e][p] # "none"
            PROVE  \E k \in 1..Len(job'[a]) : job'[a][k].engine = e
        <5>1. PICK k \in 1..Len(job[a]) : job[a][k].engine = e
          BY <1>c, <2>1, <2>3, <4>1, <4>3
        <5> QED
          BY <2>0, <4>2, <5>1
      <4>4. \A e \in engines', j \in Ip \ {p} : banned'[e][j] = list'[j].end
        BY <1>c, <2>1, <2>3, <4>1
      <4>5. a \in Caller /\ list'[p] = Banning!NoEntry
        BY <2>3, <3>2, <4>1 DEF Unbans
      <4>6. \A k \in 1..Len(job'[a]) :
              job'[a][k].do = "unban" /\ job'[a][k].ip = p /\ job'[a][k].engine \in engines'
        <5>1. engines' = engines /\ 1..Len(job'[a]) = 1..Len(job[a])
          BY <2>0, <2>1
        <5> QED
          BY ONLY <4>2, <5>1
      <4> QED
        BY <4>3, <4>4, <4>5, <4>6 DEF Unbans, Doing
    <3>3. CASE Copies(a)
      <4>1. \A k \in 1..Len(job[a]) :
              /\ job'[a][k].do = "copy" /\ job'[a][k].ip = job[a][k].ip
              /\ job'[a][k].end = list'[job'[a][k].ip].end
        <5> SUFFICES ASSUME NEW k \in 1..Len(job[a])
                     PROVE  /\ job'[a][k].do = "copy" /\ job'[a][k].ip = job[a][k].ip
                            /\ job'[a][k].end = list'[job'[a][k].ip].end
          OBVIOUS
        <5>1. job[a][k].do = "copy" /\ job[a][k].end = list[job[a][k].ip].end
          BY <3>3 DEF Copies
        <5>2. job'[a][k] = Out(job[a][k]) /\ job[a][k] \in Steps
          BY <2>6
        <5> QED
          BY ONLY <2>4, <5>1, <5>2
      <4>2. a \in Engine
        BY <1>c, <3>3 DEF Copies
      <4>3. ASSUME NEW j \in Ip, banned'[a][j] # list'[j].end
            PROVE  banned'[a][j] = "none" /\ \E k \in 1..Len(job'[a]) : job'[a][k].ip = j
        <5>1. banned[a][j] = "none" /\ \E k \in 1..Len(job[a]) : job[a][k].ip = j
          BY <2>3, <3>3, <4>2, <4>3 DEF Copies
        <5>2. PICK k \in 1..Len(job[a]) : job[a][k].ip = j
          BY <5>1
        <5> QED
          BY <2>0, <2>3, <4>1, <4>2, <5>1, <5>2
      <4>4. \A k \in 1..Len(job'[a]) :
              job'[a][k].do = "copy" /\ job'[a][k].end = list'[job'[a][k].ip].end
        BY <2>0, <4>1
      <4>5. a \in engines' /\ \A e \in engines' \ {a} : Agrees(e)'
        BY <2>1, <2>7, <3>3 DEF Copies
      <4> QED
        BY <4>3, <4>4, <4>5 DEF Copies, Doing
    <3>4. CASE Starts(a)
      <4>1. 1 \in 1..Len(job[a])
        BY <3>4 DEF Starts
      <4>2. Len(job'[a]) = 1 /\ job'[a][1].do = "read"
        BY <2>4, <2>6, <3>4, <4>1 DEF Starts
      <4> QED
        BY <1>c, <2>1, <2>3, <2>7, <3>4, <4>2 DEF Starts, Doing
    <3>5. CASE Begins(a)
      <4>1. 1 \in 1..Len(job[a])
        BY <3>5 DEF Begins
      <4> QED
        BY <2>4, <2>6, <3>5, <4>1 DEF Begins, Doing
    <3> QED
      BY <2>8, <3>1, <3>2, <3>3, <3>4, <3>5 DEF BansInv
  <2>9. \A e \in Engine \ engines' : \A j \in Ip : banned'[e][j] = "none"
    BY <1>b, <2>1, <2>3
  <2>10. \A a \in Banning!Actors : job'[a] = Banning!Idle <=> job[a] = Banning!Idle
    BY <2>6 DEF Banning!Idle
  <2>11. Banning!Quiet' => \A e \in engines' : Agrees(e)'
    BY <2>1, <2>7, <2>10 DEF Banning!Quiet, BansInv
  <2> QED
    BY <1>0, <2>8, <2>9, <2>10, <2>11 DEF BansInv, Doing
<1>12. ASSUME Banning!Restart PROVE BansInv'
  <2>1. /\ Banning!Quiet /\ engines = {} /\ UNCHANGED <<banned, engines, job>>
    BY <1>12 DEF Banning!Restart
  <2>2. \A a \in Banning!Actors : job'[a] = Banning!Idle
    BY <2>1 DEF Banning!Quiet
  <2> QED
    BY <1>0, <1>b, <2>1, <2>2 DEF BansInv
<1>13. ASSUME UNCHANGED Banning!bansVars PROVE BansInv'
  <2>1. UNCHANGED <<list, banned, engines, job, kept>>
    BY <1>13 DEF Banning!bansVars
  <2>2. Banning!Quiet' = Banning!Quiet
    BY <2>1 DEF Banning!Quiet
  <2>3. \A e \in Engine : Agrees(e)' = Agrees(e)
    BY <2>1 DEF Agrees
  <2>4. \A a \in Banning!Actors : Doing(a) => Doing(a)'
    BY <2>1 DEF Doing, Syncs, Unbans, Copies, Starts, Begins, Agrees
  <2> QED
    BY <1>0, <1>c, <2>1, <2>2, <2>3, <2>4 DEF BansInv, Doing
<1> QED
  BY <1>1, <1>2, <1>3, <1>4, <1>5, <1>6, <1>7, <1>8, <1>9, <1>10, <1>11, <1>12, <1>13
  DEF Banning!BansNext

LEMMA BansSafe == BansInv => Banning!EnginesAgree
  BY DEF BansInv, Agrees, Banning!EnginesAgree

(* When no call and no engine's start is under way, every running engine    *)
(* bans what the list bans, each address with its end, as long as calls and *)
(* starts do not overlap: unban_peer_ip, apply_bans_to_running and the list *)
(* drive_bt_download hands to a new engine.                                 *)
THEOREM EnginesKept ==
    ASSUME Banning!BansAssumption, ~Overlap
    PROVE  Banning!BansSpec => []Banning!EnginesAgree
<1>1. Banning!BansInit => BansInv
  BY BansStart
<1>2. BansInv /\ [Banning!BansNext]_Banning!bansVars => BansInv'
  BY BansKept
<1> QED
  BY <1>1, <1>2, BansSafe, PTL DEF Banning!BansSpec

----------------------------------------------------------------------------
(* The LAN transfer. *)

(* A set of numbers that is not empty has a least one. *)
LEMMA LeastOf ==
    ASSUME NEW S, S \subseteq Nat, S # {}
    PROVE  Min(S) \in S /\ \A y \in S : Min(S) <= y
<1>1. \A x, y \in Nat : x < y => <<x, y>> \in OpToRel(<, Nat)
  BY DEF OpToRel
<1>2. PICK x \in S : \A y \in S : ~(<<y, x>> \in OpToRel(<, Nat))
  BY NatLessThanWellFounded, WFMin
<1>3. \A y \in S : x <= y
  <2> SUFFICES ASSUME NEW y \in S PROVE x <= y
    OBVIOUS
  <2>1. ~(y < x)
    BY <1>1, <1>2, Zenon
  <2> QED
    BY <2>1
<1> QED
  BY <1>3 DEF Min

LEMMA LanLibrary ==
    /\ \A S : Lan!Cardinality(S) = Cardinality(S) /\ Lan!IsFiniteSet(S) = IsFiniteSet(S)
    /\ \A S : Lan!Min(S) = Min(S) /\ Lan!Max(S) = Max(S)
  BY DEF Lan!Cardinality, Cardinality, Lan!IsFiniteSet, IsFiniteSet, Lan!Min, Min, Lan!Max, Max

(* Of one more number than there are tasks, one is not taken. *)
LEMMA OneIsFree ==
    ASSUME IsFiniteSet(Task), NEW U, U \subseteq 0..Cardinality(Task), NEW f \in [U -> Task],
           \A x, y \in U : f[x] = f[y] => x = y
    PROVE  \E n \in 0..Cardinality(Task) : n \notin U
<1>1. Cardinality(Task) \in Nat
  BY FS_CardinalityType
<1>2. IsFiniteSet(0..Cardinality(Task))
      /\ Cardinality(0..Cardinality(Task)) = Cardinality(Task) + 1
  BY <1>1, FS_Interval
<1>3. IsFiniteSet(U)
  BY <1>2, FS_Subset
<1>4. f \in Injection(U, Task)
  BY DEF Injection, IsInjective
<1>5. Cardinality(U) <= Cardinality(Task)
  BY <1>3, <1>4, FS_Injection
<1>6. U # 0..Cardinality(Task)
  BY <1>1, <1>2, <1>5
<1> QED
  BY <1>6

Numbers == 0..Cardinality(Task)
Finals(t) == \E p \in DOMAIN disk : ~p.part /\ disk[p] = t

(* What the proof needs of the types. *)
Down == Seq({"accept", "reject", "ok", "failed"})
LinkRec == [up : Seq({"offer", "chunk", "end"}), down : Down, cut : BOOLEAN]
TxRec == [task : Task \cup {Nobody}, pc : {"idle", "connect", "offered", "sending", "receipt"},
          sent : Int, len : Int]
RxRec == [pc : {"none", "reserved", "created", "frames", "named", "over"},
          n : Numbers, to : Numbers, total : 0..Size, node : Task \cup {Nobody}]

ListTyped == out = [t \in Task |-> out[t]] /\ in = [t \in Task |-> in[t]]
TxTyped == tx \in TxRec /\ (tx.pc # "idle" => tx.task \in Task)
LinkTyped == link \in [Task -> LinkRec]
DiskTyped ==
    /\ disk = [p \in DOMAIN disk |-> disk[p]] /\ DOMAIN disk \subseteq [n : Numbers, part : BOOLEAN]
    /\ \A p \in DOMAIN disk : disk[p] \in Task
    /\ rx \in [Task -> RxRec] /\ bytes \in [Task -> Seq(Task \X (1..Size))]
LanTyped == ListTyped /\ TxTyped /\ LinkTyped /\ DiskTyped

(* Until a connection takes its name the name is free; what it writes is   *)
(* its own part.                                                           *)
OwnFile(t) ==
    /\ rx[t].pc \in {"none", "reserved"} =>
         rx[t].total = 0 /\ \A p \in DOMAIN disk : disk[p] # t
    /\ rx[t].pc = "reserved" =>
         Lan!Part(rx[t].n) \notin DOMAIN disk /\ Lan!Final(rx[t].n) \notin DOMAIN disk
    /\ rx[t].pc \in {"created", "frames", "named"} =>
         /\ rx[t].node = t
         /\ Lan!Part(rx[t].n) \in DOMAIN disk /\ disk[Lan!Part(rx[t].n)] = t
         /\ bytes[t] = [k \in 1..rx[t].total |-> <<t, k>>]
    /\ rx[t].pc = "named" => rx[t].total = Size /\ Lan!Final(rx[t].to) \notin DOMAIN disk

(* Every path has a node of its own, what is under a final name is whole,  *)
(* and one connection at a time is about to take a name.                   *)
DiskInv ==
    /\ \A p, q \in DOMAIN disk : disk[p] = disk[q] => p = q
    /\ \A p \in DOMAIN disk : ~p.part => bytes[disk[p]] = Lan!Whole(disk[p])
    /\ \A t, u \in Task : Lan!Naming(t) /\ Lan!Naming(u) => t = u
    /\ \A t \in Task : OwnFile(t)

(* Who is told "ok", or calls a file done, finds it there. *)
DoneInv ==
    \A t \in Task :
        /\ "done" \in {out[t], in[t]} => Finals(t)
        /\ \A k \in 1..Len(link[t].down) : link[t].down[k] = "ok" => Finals(t)

LanInv == LanTyped /\ DiskInv /\ DoneInv

LEMMA LanStarts == ASSUME Lan!LanAssumption, Lan!LanInit PROVE LanInv
<1>1. 0 \in Numbers /\ Size \in Nat
  BY FS_CardinalityType, LanLibrary DEF Lan!LanAssumption, Numbers
<1>2. LanTyped
  BY <1>1 DEF Lan!LanAssumption, Lan!LanInit, LanTyped, ListTyped, TxTyped, LinkTyped, DiskTyped,
              TxRec, LinkRec, Down, RxRec, Lan!NoTx, Lan!NoLink, Lan!NoRx
<1>3. DiskInv
  BY DEF Lan!LanInit, DiskInv, OwnFile, Lan!NoRx, Lan!Naming
<1>4. DoneInv
  BY DEF Lan!LanInit, DoneInv, Lan!NoLink
<1> QED
  BY <1>2, <1>3, <1>4 DEF LanInv

(* How a connection changes. *)
LEMMA Links ==
    ASSUME LanTyped, NEW t \in Task
    PROVE  /\ link[t] \in LinkRec
           /\ \A x \in {"offer", "chunk", "end"} :
                Lan!Up(t, x) => link' \in [Task -> LinkRec] /\ \A u \in Task : link'[u].down = link[u].down
           /\ link[t].up # <<>> => Lan!Took(t) \in [Task -> LinkRec]
                                   /\ \A u \in Task : Lan!Took(t)[u].down = link[u].down
           /\ \A x \in {"accept", "reject", "ok", "failed"} :
                /\ Lan!Down(link, t, x) \in [Task -> LinkRec]
                /\ \A u \in Task \ {t} : Lan!Down(link, t, x)[u] = link[u]
                /\ Lan!Down(link, t, x)[t].down \in {link[t].down, Append(link[t].down, x)}
<1>1. link \in [Task -> LinkRec] /\ link[t] \in LinkRec
  BY DEF LanTyped, LinkTyped
<1>2. /\ link[t].up \in Seq({"offer", "chunk", "end"}) /\ link[t].down \in Down
      /\ \A x \in {"offer", "chunk", "end"} : Append(link[t].up, x) \in Seq({"offer", "chunk", "end"})
      /\ link[t].up # <<>> => Tail(link[t].up) \in Seq({"offer", "chunk", "end"})
      /\ \A x \in {"accept", "reject", "ok", "failed"} : Append(link[t].down, x) \in Down
  BY <1>1 DEF LinkRec, Down
<1>3. ASSUME NEW x \in {"offer", "chunk", "end"}, Lan!Up(t, x)
      PROVE  link' \in [Task -> LinkRec] /\ \A u \in Task : link'[u].down = link[u].down
  <2>1. link' = [link EXCEPT ![t] = [link[t] EXCEPT !.up = Append(link[t].up, x)]]
    BY <1>1, <1>3 DEF Lan!Up
  <2>2. [link[t] EXCEPT !.up = Append(link[t].up, x)] \in LinkRec
        /\ [link[t] EXCEPT !.up = Append(link[t].up, x)].down = link[t].down
    BY <1>1, <1>2 DEF LinkRec
  <2> QED
    BY <1>1, <2>1, <2>2
<1>4. ASSUME link[t].up # <<>>
      PROVE  Lan!Took(t) \in [Task -> LinkRec] /\ \A u \in Task : Lan!Took(t)[u].down = link[u].down
  <2>1. Lan!Took(t) = [link EXCEPT ![t] = [link[t] EXCEPT !.up = Tail(link[t].up)]]
    BY <1>1 DEF Lan!Took
  <2>2. [link[t] EXCEPT !.up = Tail(link[t].up)] \in LinkRec
        /\ [link[t] EXCEPT !.up = Tail(link[t].up)].down = link[t].down
    BY <1>1, <1>2, <1>4 DEF LinkRec
  <2> QED
    BY <1>1, <2>1, <2>2
<1>5. ASSUME NEW x \in {"accept", "reject", "ok", "failed"}
      PROVE  /\ Lan!Down(link, t, x) \in [Task -> LinkRec]
             /\ \A u \in Task \ {t} : Lan!Down(link, t, x)[u] = link[u]
             /\ Lan!Down(link, t, x)[t].down \in {link[t].down, Append(link[t].down, x)}
  <2> DEFINE d == IF link[t].cut THEN link[t].down ELSE Append(link[t].down, x)
  <2>1. Lan!Down(link, t, x) = [link EXCEPT ![t] = [link[t] EXCEPT !.down = d]]
    BY <1>1 DEF Lan!Down
  <2>2. d \in Down /\ d \in {link[t].down, Append(link[t].down, x)}
    BY <1>2
  <2> HIDE DEF d
  <2>3. [link[t] EXCEPT !.down = d] \in LinkRec /\ [link[t] EXCEPT !.down = d].down = d
    BY <1>1, <2>2 DEF LinkRec
  <2> QED
    BY <1>1, <2>1, <2>2, <2>3
<1> QED
  BY <1>1, <1>3, <1>4, <1>5

(* What keeps DoneInv: nobody is told "ok" or done without the file.       *)
LEMMA StillDone ==
    ASSUME LanTyped, DoneInv,
           \A t \in Task : Finals(t) => Finals(t)',
           \A t \in Task : "done" \in {out'[t], in'[t]} => Finals(t)' \/ "done" \in {out[t], in[t]},
           \A t \in Task : \A k \in 1..Len(link'[t].down) :
               link'[t].down[k] = "ok" =>
                   Finals(t)' \/ \E j \in 1..Len(link[t].down) : link[t].down[j] = "ok"
    PROVE  DoneInv'
  BY DEF DoneInv

(* What connects, answers or cancels touches no file. *)
LEMMA StillDisk == ASSUME DiskInv, UNCHANGED <<rx, disk, bytes>> 
    PROVE  DiskInv' /\ \A t \in Task : Finals(t)' = Finals(t)
  BY DEF DiskInv, OwnFile, Finals, Lan!Naming

LEMMA UsersKeep ==
    ASSUME LanInv, NEW t \in Task, Lan!UserStep(t) PROVE LanInv'
<1>1. /\ UNCHANGED <<tx, link, rx, disk, bytes>>
      /\ out' \in {out, [out EXCEPT ![t] = "waiting"], [out EXCEPT ![t] = "error"],
                   [out EXCEPT ![t] = "gone"]}
      /\ in' \in {in, [in EXCEPT ![t] = "error"], [in EXCEPT ![t] = "gone"]}
  BY DEF Lan!UserStep, Lan!Queue, Lan!CancelOut, Lan!CancelIn, Lan!RemoveOut, Lan!RemoveIn,
         Lan!Cancelled
<1>2. LanTyped'
  BY <1>1 DEF LanInv, LanTyped, ListTyped, TxTyped, LinkTyped, DiskTyped
<1>3. \A u \in Task : "done" \in {out'[u], in'[u]} => "done" \in {out[u], in[u]}
  BY <1>1 DEF LanInv, LanTyped, ListTyped
<1> QED
  BY <1>1, <1>2, <1>3, StillDisk, StillDone DEF LanInv

(* An end that is taken from a sequence was in it. *)
LEMMA NothingNew ==
    ASSUME LinkTyped, NEW u \in Task, NEW d,
           \/ d = link[u].down
           \/ d = <<>>
           \/ link[u].down # <<>> /\ d = Tail(link[u].down)
           \/ \E m \in 0..Len(link[u].down) : d = SubSeq(link[u].down, 1, m)
    PROVE  /\ d \in Down
           /\ \A k \in 1..Len(d) : d[k] = "ok" =>
                \E j \in 1..Len(link[u].down) : link[u].down[j] = "ok"
<1> DEFINE e == link[u].down
<1>1. e \in Seq({"accept", "reject", "ok", "failed"})
  BY DEF LinkTyped, LinkRec, Down
<1> HIDE DEF e
<1>2. CASE d = e
  BY <1>1, <1>2 DEF Down, e
<1>3. CASE d = <<>>
  BY <1>3 DEF Down
<1>4. CASE e # <<>> /\ d = Tail(e)
  <2>1. /\ d \in Seq({"accept", "reject", "ok", "failed"}) /\ Len(d) = Len(e) - 1 /\ Len(e) \in Nat
        /\ \A k \in 1..Len(d) : d[k] = e[k + 1] /\ k + 1 \in 1..Len(e)
    BY <1>1, <1>4
  <2> QED
    BY <2>1 DEF Down, e
<1>5. ASSUME NEW m \in 0..Len(e), d = SubSeq(e, 1, m)
      PROVE  /\ d \in Down
             /\ \A k \in 1..Len(d) : d[k] = "ok" =>
                  \E j \in 1..Len(link[u].down) : link[u].down[j] = "ok"
  <2>1. /\ d \in Seq({"accept", "reject", "ok", "failed"}) /\ Len(d) = m /\ Len(e) \in Nat
        /\ \A k \in 1..m : d[k] = e[k] /\ k \in 1..Len(e)
    BY <1>1, <1>5
  <2> QED
    BY <2>1 DEF Down, e
<1> QED
  BY <1>2, <1>3, <1>4, <1>5 DEF e

LEMMA CutOff ==
    ASSUME NEW l \in LinkRec
    PROVE  /\ [l EXCEPT !.cut = TRUE, !.down = <<>>] \in LinkRec
           /\ [l EXCEPT !.cut = TRUE, !.down = <<>>].down = <<>>
<1>1. <<>> \in Down
  BY DEF Down
<1> QED
  BY <1>1 DEF LinkRec

LEMMA DoneOf ==
    ASSUME ListTyped, NEW t \in Task
    PROVE  /\ \A u \in Task : Lan!Failed(out, t)[u] = "done" => out[u] = "done"
           /\ \A u \in Task : Lan!Failed(in, t)[u] = "done" => in[u] = "done"
           /\ \A u \in Task \ {t} : Lan!Completed(out, t)[u] = out[u] /\ Lan!Completed(in, t)[u] = in[u]
           /\ \A f \in {Lan!Failed(out, t), Lan!Failed(in, t), Lan!Completed(out, t),
                        Lan!Completed(in, t)} : f = [u \in Task |-> f[u]]
<1>1. \A f \in {out, in} : f = [u \in Task |-> f[u]]
  BY DEF ListTyped
<1>2. ASSUME NEW f, f = [u \in Task |-> f[u]]
      PROVE  /\ \A u \in Task : Lan!Failed(f, t)[u] = "done" => f[u] = "done"
             /\ \A u \in Task \ {t} : Lan!Completed(f, t)[u] = f[u]
             /\ Lan!Failed(f, t) = [u \in Task |-> Lan!Failed(f, t)[u]]
             /\ Lan!Completed(f, t) = [u \in Task |-> Lan!Completed(f, t)[u]]
  BY <1>2 DEF Lan!Failed, Lan!Completed
<1> QED
  BY <1>1, <1>2

LEMMA SendsKeep ==
    ASSUME Lan!LanAssumption, LanInv, Lan!SendStep PROVE LanInv'
<1> DEFINE s == tx.task
<1>0. LanTyped /\ link \in [Task -> LinkRec]
  BY DEF LanInv, LanTyped, LinkTyped
<1>1. UNCHANGED <<rx, disk, bytes, in>>
  BY DEF Lan!SendStep, Lan!Take, Lan!NoConnection, Lan!Connect, Lan!Accepted, Lan!SendChunk,
         Lan!SendFails, Lan!Receipt
<1>2. SUFFICES /\ ListTyped' /\ TxTyped' /\ LinkTyped'
               /\ \A u \in Task : out'[u] = "done" =>
                    "done" \in {out[u], in[u]} \/ \E j \in 1..Len(link[u].down) : link[u].down[j] = "ok"
               /\ \A u \in Task : \A k \in 1..Len(link'[u].down) :
                    link'[u].down[k] = "ok" => \E j \in 1..Len(link[u].down) : link[u].down[j] = "ok"
  <2>1. LanTyped'
    BY <1>0, <1>1, <1>2 DEF LanTyped, DiskTyped
  <2>2. \A u \in Task : out'[u] = "done" => Finals(u)' \/ "done" \in {out[u], in[u]}
    BY <1>1, <1>2, StillDisk DEF LanInv, DoneInv
  <2> QED
    BY <1>0, <1>1, <1>2, <2>1, <2>2, StillDisk, StillDone DEF LanInv
<1>a. ListTyped /\ TxTyped /\ LinkTyped
  BY DEF LanInv, LanTyped
<1>b. ASSUME s \in Task, UNCHANGED in, Lan!Failing(s)
      PROVE  /\ ListTyped' /\ TxTyped' /\ LinkTyped'
             /\ \A u \in Task : out'[u] = "done" => out[u] = "done"
             /\ \A u \in Task : link'[u].down \in {link[u].down, <<>>}
  <2>1. /\ out' = Lan!Failed(out, s) /\ tx' = Lan!NoTx
        /\ link' = [link EXCEPT ![s] = [link[s] EXCEPT !.cut = TRUE, !.down = <<>>]]
    BY <1>0, <1>b DEF Lan!Failing
  <2>2. [link[s] EXCEPT !.cut = TRUE, !.down = <<>>] \in LinkRec
        /\ [link[s] EXCEPT !.cut = TRUE, !.down = <<>>].down = <<>>
    BY <1>0, <1>b, CutOff
  <2>3. LinkTyped' /\ \A u \in Task : link'[u].down \in {link[u].down, <<>>}
    BY <1>0, <2>1, <2>2 DEF LinkTyped
  <2>4. TxTyped'
    BY <2>1 DEF TxTyped, TxRec, Lan!NoTx
  <2> QED
    BY <1>a, <1>b, <2>1, <2>3, <2>4, DoneOf DEF ListTyped
<1>c. ASSUME \A u \in Task : \/ link'[u].down = link[u].down
                             \/ link'[u].down = <<>>
                             \/ link[u].down # <<>> /\ link'[u].down = Tail(link[u].down)
      PROVE  \A u \in Task : \A k \in 1..Len(link'[u].down) :
               link'[u].down[k] = "ok" => \E j \in 1..Len(link[u].down) : link[u].down[j] = "ok"
  <2> SUFFICES ASSUME NEW u \in Task
               PROVE  \A k \in 1..Len(link'[u].down) :
                 link'[u].down[k] = "ok" => \E j \in 1..Len(link[u].down) : link[u].down[j] = "ok"
    OBVIOUS
  <2> DEFINE d == link'[u].down
  <2>1. \/ d = link[u].down
        \/ d = <<>>
        \/ link[u].down # <<>> /\ d = Tail(link[u].down)
    BY <1>c
  <2> HIDE DEF d
  <2>2. \A k \in 1..Len(d) : d[k] = "ok" => \E j \in 1..Len(link[u].down) : link[u].down[j] = "ok"
    BY <1>a, <2>1, NothingNew
  <2> QED
    BY <2>2 DEF d
<1>3. CASE Lan!Take
  <2>1. PICK t \in Task, len \in Lengths :
          /\ out' = [out EXCEPT ![t] = "active"]
          /\ tx' = [Lan!NoTx EXCEPT !.task = t, !.pc = "connect", !.len = len]
          /\ UNCHANGED <<in, link>>
    BY <1>3 DEF Lan!Take
  <2>2. ListTyped' /\ \A u \in Task : out'[u] = "done" => out[u] = "done"
    BY <1>a, <2>1 DEF ListTyped
  <2>3. TxTyped'
    <3>1. len \in Int
      BY DEF Lan!LanAssumption
    <3>2. tx' = [task |-> t, pc |-> "connect", sent |-> 0, len |-> len]
      BY <2>1 DEF Lan!NoTx
    <3> QED
      BY <3>1, <3>2 DEF TxTyped, TxRec
  <2> QED
    BY <1>a, <1>c, <2>1, <2>2, <2>3 DEF LinkTyped
<1>4. CASE Lan!NoConnection
  <2>1. s \in Task /\ Lan!Failing(s) /\ UNCHANGED in
    BY <1>4, <1>a DEF Lan!NoConnection, TxTyped
  <2> QED
    BY <1>b, <1>c, <2>1
<1>5. CASE Lan!Connect
  <2>1. s \in Task /\ Lan!Up(s, "offer") /\ tx' = [tx EXCEPT !.pc = "offered"] /\ UNCHANGED <<out, in>>
    BY <1>5, <1>a DEF Lan!Connect, TxTyped
  <2>2. LinkTyped' /\ \A u \in Task : link'[u].down = link[u].down
    BY <1>0, <2>1, Links DEF LinkTyped
  <2>3. TxTyped'
    BY <1>a, <2>1 DEF TxTyped, TxRec
  <2> QED
    BY <1>a, <1>c, <2>1, <2>2, <2>3 DEF ListTyped
<1>6. CASE Lan!Accepted
  <2>1. /\ s \in Task /\ tx' = [tx EXCEPT !.pc = "sending"] /\ UNCHANGED <<out, in>>
        /\ link[s].down # <<>>
        /\ link' = [link EXCEPT ![s] = [link[s] EXCEPT !.down = Tail(link[s].down)]]
    BY <1>0, <1>6, <1>a DEF Lan!Accepted, TxTyped, Lan!Replies
  <2>2. Tail(link[s].down) \in Down
    BY <1>a, <2>1, NothingNew
  <2>3. /\ [link[s] EXCEPT !.down = Tail(link[s].down)] \in LinkRec
        /\ [link[s] EXCEPT !.down = Tail(link[s].down)].down = Tail(link[s].down)
    BY <1>0, <2>1, <2>2 DEF LinkRec
  <2>4. LinkTyped' /\ \A u \in Task : \/ link'[u].down = link[u].down
                                      \/ link[u].down # <<>> /\ link'[u].down = Tail(link[u].down)
    BY <1>0, <2>1, <2>3 DEF LinkTyped
  <2>5. TxTyped'
    BY <1>a, <2>1 DEF TxTyped, TxRec
  <2> QED
    BY <1>a, <1>c, <2>1, <2>4, <2>5 DEF ListTyped
<1>7. CASE Lan!SendChunk
  <2>1. /\ s \in Task /\ UNCHANGED <<out, in>>
        /\ \/ Lan!Up(s, "chunk") /\ tx' = [tx EXCEPT !.sent = @ + 1]
           \/ Lan!Up(s, "end") /\ tx' = [tx EXCEPT !.pc = "receipt"]
    BY <1>7, <1>a DEF Lan!SendChunk, TxTyped
  <2>2. LinkTyped' /\ \A u \in Task : link'[u].down = link[u].down
    BY <1>0, <2>1, Links DEF LinkTyped
  <2>3. TxTyped'
    BY <1>a, <2>1 DEF TxTyped, TxRec
  <2> QED
    BY <1>a, <1>c, <2>1, <2>2, <2>3 DEF ListTyped
<1>8. CASE Lan!SendFails
  <2>1. s \in Task /\ Lan!Failing(s) /\ UNCHANGED in
    BY <1>8, <1>a DEF Lan!SendFails, TxTyped
  <2> QED
    BY <1>b, <1>c, <2>1
<1>9. CASE Lan!Receipt
  <2>1. /\ s \in Task /\ out' = Lan!Completed(out, s) /\ UNCHANGED in /\ tx' = Lan!NoTx
        /\ link' = [link EXCEPT ![s] = [link[s] EXCEPT !.cut = TRUE, !.down = <<>>]]
        /\ link[s].down # <<>> /\ Head(link[s].down) = "ok"
    BY <1>0, <1>9, <1>a DEF Lan!Receipt, TxTyped, Lan!Replies
  <2>2. [link[s] EXCEPT !.cut = TRUE, !.down = <<>>] \in LinkRec
        /\ [link[s] EXCEPT !.cut = TRUE, !.down = <<>>].down = <<>>
    BY <1>0, <2>1, CutOff
  <2>3. LinkTyped' /\ \A u \in Task : link'[u].down \in {link[u].down, <<>>}
    BY <1>0, <2>1, <2>2 DEF LinkTyped
  <2>4. TxTyped'
    BY <2>1 DEF TxTyped, TxRec, Lan!NoTx
  <2>5. 1 \in 1..Len(link[s].down) /\ link[s].down[1] = "ok"
    <3>1. link[s].down \in Seq({"accept", "reject", "ok", "failed"})
      BY <1>0, <2>1 DEF LinkRec, Down
    <3> QED
      BY <2>1, <3>1
  <2>6. \A u \in Task : out'[u] = "done" => out[u] = "done" \/ u = s
    BY <1>a, <2>1, DoneOf
  <2> QED
    BY <1>a, <1>c, <2>1, <2>3, <2>4, <2>5, <2>6, DoneOf DEF ListTyped
<1> HIDE DEF s
<1> QED
  BY <1>3, <1>4, <1>5, <1>6, <1>7, <1>8, <1>9 DEF Lan!SendStep

LEMMA TroubleKeeps ==
    ASSUME LanInv, Lan!CrashOut \/ \E t \in Task : Lan!Cut(t) PROVE LanInv'
<1>a. ListTyped /\ TxTyped /\ LinkTyped /\ link \in [Task -> LinkRec]
  BY DEF LanInv, LanTyped, LinkTyped
<1>1. ASSUME NEW t \in Task, Lan!Cut(t) PROVE LanInv'
  <2>1. PICK n \in 0..Len(link[t].up), m \in 0..Len(link[t].down) :
          link' = [link EXCEPT ![t] = [up |-> SubSeq(link[t].up, 1, n), cut |-> TRUE,
                                       down |-> SubSeq(link[t].down, 1, m)]]
    BY <1>a, <1>1 DEF Lan!Cut
  <2>2. UNCHANGED <<out, in, tx, rx, disk, bytes>>
    BY <1>1 DEF Lan!Cut
  <2> DEFINE d == SubSeq(link[t].down, 1, m)
             v == SubSeq(link[t].up, 1, n)
  <2>3. /\ d \in Down
        /\ \A k \in 1..Len(d) : d[k] = "ok" => \E j \in 1..Len(link[t].down) : link[t].down[j] = "ok"
    BY <1>a, NothingNew
  <2>4. v \in Seq({"offer", "chunk", "end"})
    BY <1>a DEF LinkRec
  <2>5. link' = [link EXCEPT ![t] = [up |-> v, cut |-> TRUE, down |-> d]]
    BY <2>1
  <2> HIDE DEF d, v
  <2>6. [up |-> v, cut |-> TRUE, down |-> d] \in LinkRec
    BY <2>3, <2>4 DEF LinkRec
  <2>7. LinkTyped' /\ link'[t].down = d /\ \A u \in Task \ {t} : link'[u].down = link[u].down
    BY <1>a, <2>5, <2>6 DEF LinkTyped
  <2>8. \A u \in Task : \A k \in 1..Len(link'[u].down) :
           link'[u].down[k] = "ok" => \E j \in 1..Len(link[u].down) : link[u].down[j] = "ok"
    BY <2>3, <2>7
  <2>9. LanTyped'
    BY <2>2, <2>7 DEF LanInv, LanTyped, ListTyped, TxTyped, DiskTyped
  <2> QED
    BY <2>2, <2>8, <2>9, StillDisk, StillDone DEF LanInv
<1>2. CASE Lan!CrashOut
  <2>1. /\ out' \in [Task -> {"none", "error", "done", "gone"}] /\ Lan!Restored(out, out')
        /\ tx' = Lan!NoTx /\ UNCHANGED <<in, rx, disk, bytes>>
        /\ link' = [t \in Task |-> IF t = tx.task THEN [link[t] EXCEPT !.cut = TRUE, !.down = <<>>]
                                   ELSE link[t]]
    BY <1>2 DEF Lan!CrashOut
  <2>2. ListTyped' /\ \A u \in Task : out'[u] = "done" => out[u] = "done"
    BY <1>a, <2>1 DEF ListTyped, Lan!Restored, Lan!Open
  <2>3. LinkTyped' /\ \A u \in Task : link'[u].down \in {link[u].down, <<>>}
    BY <1>a, <2>1, CutOff DEF LinkTyped
  <2>t. tx' = Lan!NoTx
    BY <2>1
  <2>4. TxTyped'
    BY ONLY <2>t DEF TxTyped, TxRec, Lan!NoTx
  <2>5. \A u \in Task : \A k \in 1..Len(link'[u].down) :
           link'[u].down[k] = "ok" => \E j \in 1..Len(link[u].down) : link[u].down[j] = "ok"
    BY <2>3
  <2>6. LanTyped'
    BY <2>1, <2>2, <2>3, <2>4 DEF LanInv, LanTyped, DiskTyped
  <2> QED
    BY <2>1, <2>2, <2>5, <2>6, StillDisk, StillDone DEF LanInv
<1> QED
  BY <1>1, <1>2

(* A free name is found. *)
LEMMA NameFound ==
    ASSUME Lan!LanAssumption, DiskTyped, DiskInv
    PROVE  /\ Lan!FreePair \in Numbers
           /\ {Lan!Final(Lan!FreePair), Lan!Part(Lan!FreePair)} \cap DOMAIN disk = {}
           /\ Lan!UniqueFinal \in Numbers /\ Lan!Final(Lan!UniqueFinal) \notin DOMAIN disk
<1> USE LanLibrary DEF Numbers
<1>0. IsFiniteSet(Task) /\ Numbers \subseteq Nat
  BY FS_CardinalityType DEF Lan!LanAssumption
<1> DEFINE U == {n \in Numbers : {Lan!Final(n), Lan!Part(n)} \cap DOMAIN disk # {}}
           V == {n \in Numbers : Lan!Final(n) \in DOMAIN disk}
           Its(n) == IF Lan!Final(n) \in DOMAIN disk THEN Lan!Final(n) ELSE Lan!Part(n)
           f == [n \in U |-> disk[Its(n)]]
           g == [n \in V |-> disk[Lan!Final(n)]]
<1>1. \A m, n \in U : Its(m) \in DOMAIN disk /\ (Its(m) = Its(n) => m = n)
  BY DEF Lan!Final, Lan!Part
<1>2. f \in [U -> Task] /\ \A m, n \in U : f[m] = f[n] => m = n
  BY <1>1 DEF DiskTyped, DiskInv
<1>3. g \in [V -> Task] /\ \A m, n \in V : g[m] = g[n] => m = n
  BY DEF DiskTyped, DiskInv, Lan!Final
<1> HIDE DEF f, g, U, V
<1>4. \E n \in Numbers : n \notin U
  <2>1. U \subseteq Numbers
    BY DEF U
  <2> QED
    BY <1>0, <1>2, <2>1, OneIsFree
<1>5. \E n \in Numbers : n \notin V
  <2>1. V \subseteq Numbers
    BY DEF V
  <2> QED
    BY <1>0, <1>3, <2>1, OneIsFree
<1>6. Lan!FreePair = Min({n \in Numbers : {Lan!Final(n), Lan!Part(n)} \cap DOMAIN disk = {}})
  BY DEF Lan!FreePair
<1>7. Lan!UniqueFinal = Min({n \in Numbers : Lan!Final(n) \notin DOMAIN disk})
  BY DEF Lan!UniqueFinal
<1>8. LET S == {n \in Numbers : {Lan!Final(n), Lan!Part(n)} \cap DOMAIN disk = {}}
      IN  S \subseteq Nat /\ S # {}
  BY <1>0, <1>4 DEF U
<1>9. LET S == {n \in Numbers : Lan!Final(n) \notin DOMAIN disk} IN S \subseteq Nat /\ S # {}
  BY <1>0, <1>5 DEF V
<1>10. Lan!FreePair \in {n \in Numbers : {Lan!Final(n), Lan!Part(n)} \cap DOMAIN disk = {}}
  BY <1>6, <1>8, LeastOf
<1>11. Lan!UniqueFinal \in {n \in Numbers : Lan!Final(n) \notin DOMAIN disk}
  BY <1>7, <1>9, LeastOf
<1> QED
  BY <1>10, <1>11
(* No "ok" is on its way that was not before. *)
OnlyOld(u) ==
    \A k \in 1..Len(link'[u].down) : link'[u].down[k] = "ok" =>
        \E j \in 1..Len(link[u].down) : link[u].down[j] = "ok"

(* An answer to the sender. *)
LEMMA Answered ==
    ASSUME LanTyped, NEW t \in Task, NEW x \in {"accept", "reject", "ok", "failed"},
           \/ link' = Lan!Down(link, t, x)
           \/ link' = [Lan!Down(link, t, x) EXCEPT ![t].cut = TRUE, ![t].up = <<>>]
           \/ link' = [Lan!Down(link, t, x) EXCEPT ![t].up = <<>>]
    PROVE  /\ LinkTyped'
           /\ \A u \in Task : OnlyOld(u) \/ (x = "ok" /\ u = t)
<1> DEFINE l == Lan!Down(link, t, x)
<1>1. /\ l \in [Task -> LinkRec] /\ \A u \in Task \ {t} : l[u] = link[u]
      /\ l[t].down \in {link[t].down, Append(link[t].down, x)} /\ link[t] \in LinkRec
  BY Links
<1> HIDE DEF l
<1>2. \/ link' = l
      \/ link' = [l EXCEPT ![t] = [l[t] EXCEPT !.cut = TRUE, !.up = <<>>]]
      \/ link' = [l EXCEPT ![t] = [l[t] EXCEPT !.up = <<>>]]
  BY <1>1 DEF l
<1>3. <<>> \in Seq({"offer", "chunk", "end"})
  OBVIOUS
<1>4. /\ [l[t] EXCEPT !.cut = TRUE, !.up = <<>>] \in LinkRec
      /\ [l[t] EXCEPT !.up = <<>>] \in LinkRec
      /\ [l[t] EXCEPT !.cut = TRUE, !.up = <<>>].down = l[t].down
      /\ [l[t] EXCEPT !.up = <<>>].down = l[t].down
  BY <1>1, <1>3 DEF LinkRec
<1>5. LinkTyped' /\ \A u \in Task : link'[u].down = l[u].down
  BY <1>1, <1>2, <1>4 DEF LinkTyped
<1>6. ASSUME NEW u \in Task, NEW k \in 1..Len(link'[u].down), link'[u].down[k] = "ok"
      PROVE  \/ x = "ok" /\ u = t
             \/ \E j \in 1..Len(link[u].down) : link[u].down[j] = "ok"
  <2>1. CASE link'[u].down = link[u].down
    BY <1>6, <2>1
  <2>2. CASE u = t /\ link'[u].down = Append(link[t].down, x)
    <3> DEFINE d == link[t].down
    <3>1. d \in Seq({"accept", "reject", "ok", "failed"})
      BY <1>1 DEF LinkRec, Down
    <3> HIDE DEF d
    <3>2. k \in 1..(Len(d) + 1) /\ Append(d, x)[k] = "ok"
      BY <1>6, <2>2, <3>1 DEF d
    <3>3. (k \in 1..Len(d) /\ d[k] = "ok") \/ x = "ok"
      BY <3>1, <3>2
    <3> QED
      BY <2>2, <3>3 DEF d
  <2> QED
    BY <1>1, <1>5, <2>1, <2>2
<1> QED
  BY <1>5, <1>6 DEF OnlyOld

(* A connection's task moves: what that leaves to show. *)
LEMMA Received ==
    ASSUME LanInv, UNCHANGED <<out, tx>>, ListTyped', LinkTyped', DiskTyped', DiskInv',
           \A u \in Task : Finals(u) => Finals(u)',
           \A u \in Task : in'[u] = "done" => in[u] = "done" \/ Finals(u)',
           \A u \in Task : Finals(u)' \/ OnlyOld(u) \/ link'[u].down = link[u].down
    PROVE  LanInv'
<1>1. LanTyped'
  BY DEF LanInv, LanTyped, TxTyped
<1> QED
  BY <1>1, StillDone DEF LanInv, OnlyOld

(* A connection is over, and its part, if it has one, is removed. *)
LEMMA Ended ==
    ASSUME Lan!LanAssumption, LanInv, NEW t \in Task, rx' = [rx EXCEPT ![t] = Lan!Over], bytes' = bytes,
           \/ disk' = disk
           \/ /\ disk' = Lan!Without(disk, Lan!Part(rx[t].n))
              /\ rx[t].pc \in {"created", "frames", "named"}
    PROVE  DiskTyped' /\ DiskInv' /\ \A u \in Task : Finals(u) => Finals(u)'
<1>1. Lan!Over \in RxRec /\ Lan!Over.pc = "over"
  <2>1. 0 \in Numbers /\ 0 \in 0..Size
    BY FS_CardinalityType, LanLibrary DEF Lan!LanAssumption, Numbers
  <2> QED
    BY <2>1 DEF Lan!Over, Lan!NoRx, RxRec
<1>2. DiskTyped /\ DiskInv
  BY DEF LanInv, LanTyped
<1>3. rx' \in [Task -> RxRec] /\ rx'[t].pc = "over" /\ \A u \in Task \ {t} : rx'[u] = rx[u]
  BY <1>1, <1>2 DEF DiskTyped
<1>4. /\ DOMAIN disk' \subseteq DOMAIN disk /\ \A p \in DOMAIN disk' : disk'[p] = disk[p]
      /\ \A p \in DOMAIN disk : p \in DOMAIN disk' \/ (disk[p] = t /\ p.part)
      /\ disk' = [p \in DOMAIN disk' |-> disk'[p]]
  BY <1>2 DEF Lan!Without, DiskTyped, DiskInv, OwnFile, Lan!Part
<1>5. DiskTyped'
  BY <1>2, <1>3, <1>4 DEF DiskTyped
<1>6. DiskInv'
  <2>1. \A u \in Task : OwnFile(u)'
    BY <1>2, <1>3, <1>4 DEF DiskInv, OwnFile
  <2> QED
    BY <1>2, <1>3, <1>4, <2>1 DEF DiskInv, Lan!Naming
<1>7. \A u \in Task : Finals(u) => Finals(u)'
  BY <1>4 DEF Finals
<1> QED
  BY <1>5, <1>6, <1>7

LEMMA LookKeeps ==
    ASSUME Lan!LanAssumption, ~Racing, LanInv, NEW t \in Task, Lan!Reserve(t) PROVE LanInv'
<1>1. DiskTyped /\ DiskInv /\ ListTyped /\ LanTyped /\ Size \in Nat
  BY DEF LanInv, LanTyped, Lan!LanAssumption
<1>2. /\ UNCHANGED <<out, in, tx, disk, bytes>> /\ rx[t].pc = "none"
      /\ link[t].up # <<>> /\ link' = Lan!Took(t) /\ \A u \in Task \ {t} : ~Lan!Naming(u)
      /\ rx' = [rx EXCEPT ![t] = [rx[t] EXCEPT !.pc = "reserved", !.n = Lan!FreePair]]
  BY <1>1 DEF Lan!Reserve, Lan!Says, Lan!Alone, DiskTyped
<1>3. LinkTyped' /\ \A u \in Task : link'[u].down = link[u].down
  BY <1>1, <1>2, Links DEF LinkTyped
<1>4. /\ Lan!FreePair \in Numbers
      /\ Lan!Final(Lan!FreePair) \notin DOMAIN disk /\ Lan!Part(Lan!FreePair) \notin DOMAIN disk
  BY <1>1, NameFound
<1> DEFINE r == [rx[t] EXCEPT !.pc = "reserved", !.n = Lan!FreePair]
<1>5. r \in RxRec /\ r.pc = "reserved" /\ r.n = Lan!FreePair /\ r.total = rx[t].total
  <2> DEFINE m == Lan!FreePair
  <2>1. rx[t] \in RxRec /\ m \in Numbers /\ r = [rx[t] EXCEPT !.pc = "reserved", !.n = m]
    BY <1>1, <1>4 DEF DiskTyped
  <2> HIDE DEF m, r
  <2>2. r \in RxRec /\ r.pc = "reserved" /\ r.n = m /\ r.total = rx[t].total
    BY <2>1 DEF RxRec
  <2> QED
    BY <2>2 DEF m
<1>6. rx' = [rx EXCEPT ![t] = r]
  BY <1>2
<1> HIDE DEF r
<1>7. rx' \in [Task -> RxRec] /\ rx'[t] = r /\ \A u \in Task \ {t} : rx'[u] = rx[u]
  BY <1>1, <1>5, <1>6 DEF DiskTyped
<1>8. DiskTyped'
  BY <1>1, <1>2, <1>7 DEF DiskTyped
<1>9. DiskInv'
  <2>1. \A u \in Task : OwnFile(u)'
    BY <1>1, <1>2, <1>4, <1>5, <1>7 DEF DiskInv, OwnFile
  <2> QED
    BY <1>1, <1>2, <1>5, <1>7, <2>1 DEF DiskInv, Lan!Naming
<1>10. \A u \in Task : Finals(u) => Finals(u)'
  BY <1>2 DEF Finals
<1> QED
  BY <1>1, <1>2, <1>3, <1>8, <1>9, <1>10, Received DEF ListTyped

LEMMA CreateKeeps ==
    ASSUME Lan!LanAssumption, LanInv, NEW t \in Task, Lan!Create(t) PROVE LanInv'
<1> DEFINE p == Lan!Part(rx[t].n)
<1>1. DiskTyped /\ DiskInv /\ ListTyped /\ LinkTyped /\ Size \in Nat
  BY DEF LanInv, LanTyped, Lan!LanAssumption
<1>2. rx[t].pc = "reserved" /\ p \notin DOMAIN disk /\ rx[t] \in RxRec
      /\ p \in [n : Numbers, part : BOOLEAN] /\ p.part
  BY <1>1 DEF Lan!Create, DiskInv, OwnFile, DiskTyped, RxRec, Lan!Part
<1>3. /\ UNCHANGED <<out, in, tx, link>>
      /\ disk' = [x \in DOMAIN disk \cup {p} |-> IF x = p THEN t ELSE disk[x]]
      /\ bytes' = [bytes EXCEPT ![t] = <<>>]
      /\ rx' = [rx EXCEPT ![t] = [rx[t] EXCEPT !.pc = "created", !.node = t]]
  BY <1>1, <1>2 DEF Lan!Create, DiskTyped
<1> DEFINE r == [rx[t] EXCEPT !.pc = "created", !.node = t]
<1>4. r \in RxRec /\ r.pc = "created" /\ r.n = rx[t].n /\ r.total = rx[t].total /\ r.node = t
  BY <1>2 DEF RxRec
<1> HIDE DEF r, p
<1>5. rx' \in [Task -> RxRec] /\ rx'[t] = r /\ \A u \in Task \ {t} : rx'[u] = rx[u]
  BY <1>1, <1>3, <1>4 DEF DiskTyped, r
<1>6. bytes' \in [Task -> Seq(Task \X (1..Size))] /\ bytes'[t] = <<>>
      /\ \A u \in Task \ {t} : bytes'[u] = bytes[u]
  BY <1>1, <1>3 DEF DiskTyped
<1>7. /\ DOMAIN disk' = DOMAIN disk \cup {p} /\ disk'[p] = t
      /\ \A x \in DOMAIN disk : disk'[x] = disk[x] /\ disk[x] # t
      /\ disk' = [x \in DOMAIN disk' |-> disk'[x]]
  BY <1>1, <1>2, <1>3 DEF DiskInv, OwnFile
<1>8. DiskTyped'
  BY <1>1, <1>2, <1>5, <1>6, <1>7 DEF DiskTyped
<1>9. <<>> = [k \in 1..rx[t].total |-> <<t, k>>]
  <2>1. rx[t].total = 0
    BY <1>1, <1>2 DEF DiskInv, OwnFile
  <2> QED
    BY <2>1
<1>10. DiskInv'
  <2>1. \A x, y \in DOMAIN disk' : disk'[x] = disk'[y] => x = y
    BY <1>1, <1>7 DEF DiskInv, OwnFile
  <2>2. \A x \in DOMAIN disk' : ~x.part => bytes'[disk'[x]] = Lan!Whole(disk'[x])
    BY <1>1, <1>2, <1>6, <1>7 DEF DiskInv, OwnFile, DiskTyped
  <2>3. \A u, v \in Task : Lan!Naming(u)' /\ Lan!Naming(v)' => u = v
    BY <1>1, <1>4, <1>5 DEF DiskInv, OwnFile, Lan!Naming
  <2>4. \A u \in Task \ {t} : ~Lan!Naming(u)
    BY <1>1, <1>2 DEF DiskInv, OwnFile, Lan!Naming
  <2>5. \A u \in Task \ {t} : OwnFile(u) /\ rx[u].pc \notin {"reserved", "named"}
    BY <1>1, <2>4 DEF DiskInv, Lan!Naming
  <2>6. \A u \in Task \ {t} : OwnFile(u)'
    <3> SUFFICES ASSUME NEW u \in Task \ {t} PROVE OwnFile(u)'
      OBVIOUS
    <3>1. OwnFile(u) /\ rx'[u] = rx[u] /\ bytes'[u] = bytes[u] /\ rx[u].pc \notin {"reserved", "named"}
      BY <1>5, <1>6, <2>5
    <3>2. (\A x \in DOMAIN disk : disk[x] # u) => \A x \in DOMAIN disk' : disk'[x] # u
      BY <1>7
    <3>3. \A x \in DOMAIN disk : x \in DOMAIN disk' /\ disk'[x] = disk[x]
      BY <1>7
    <3> QED
      BY <3>1, <3>2, <3>3 DEF OwnFile
  <2>7. /\ rx'[t].pc = "created" /\ rx'[t].node = t
        /\ Lan!Part(rx'[t].n) \in DOMAIN disk' /\ disk'[Lan!Part(rx'[t].n)] = t
        /\ bytes'[t] = [k \in 1..rx'[t].total |-> <<t, k>>]
    BY <1>4, <1>5, <1>6, <1>7, <1>9 DEF p
  <2>8. OwnFile(t)'
    BY <2>7 DEF OwnFile
  <2>9. \A u \in Task : OwnFile(u)'
    BY <2>6, <2>8
  <2> QED
    BY <2>1, <2>2, <2>3, <2>9 DEF DiskInv
<1>11. \A u \in Task : Finals(u) => Finals(u)'
  BY <1>7 DEF Finals
<1>12. ListTyped' /\ LinkTyped'
  BY <1>1, <1>3 DEF ListTyped, LinkTyped
<1> QED
  BY <1>3, <1>8, <1>10, <1>11, <1>12, Received

LEMMA RefuseKeeps ==
    ASSUME Lan!LanAssumption, LanInv, NEW t \in Task, Lan!Refuse(t) PROVE LanInv'
<1>1. /\ UNCHANGED <<out, in, tx, disk, bytes>> /\ rx' = [rx EXCEPT ![t] = Lan!Over]
      /\ link' = [Lan!Down(link, t, "reject") EXCEPT ![t].cut = TRUE, ![t].up = <<>>]
  BY DEF Lan!Refuse
<1>2. LanTyped /\ ListTyped'
  BY <1>1 DEF LanInv, LanTyped, ListTyped
<1>3. DiskTyped' /\ DiskInv' /\ \A u \in Task : Finals(u) => Finals(u)'
  BY <1>1, Ended
<1>4. LinkTyped' /\ \A u \in Task : OnlyOld(u)
  BY <1>1, <1>2, Answered
<1> QED
  BY <1>1, <1>2, <1>3, <1>4, Received

LEMMA AbortKeeps ==
    ASSUME Lan!LanAssumption, LanInv, NEW t \in Task, Lan!Abort(t) PROVE LanInv'
<1>0. LanTyped /\ ListTyped
  BY DEF LanInv, LanTyped
<1>1. /\ UNCHANGED <<out, tx, bytes>> /\ rx' = [rx EXCEPT ![t] = Lan!Over]
      /\ disk' = Lan!Without(disk, Lan!Part(rx[t].n)) /\ rx[t].pc \in {"created", "frames", "named"}
      /\ link' = [Lan!Down(link, t, "failed") EXCEPT ![t].cut = TRUE, ![t].up = <<>>]
      /\ in' = Lan!Failed(in, t)
  BY DEF Lan!Abort
<1>2. ListTyped' /\ \A u \in Task : in'[u] = "done" => in[u] = "done"
  BY <1>0, <1>1, DoneOf DEF ListTyped
<1>3. DiskTyped' /\ DiskInv' /\ \A u \in Task : Finals(u) => Finals(u)'
  BY <1>1, Ended
<1>4. LinkTyped' /\ \A u \in Task : OnlyOld(u)
  BY <1>0, <1>1, Answered
<1> QED
  BY <1>1, <1>2, <1>3, <1>4, Received

LEMMA AcceptKeeps ==
    ASSUME Lan!LanAssumption, LanInv, NEW t \in Task, Lan!Accept(t) PROVE LanInv'
<1>0. LanTyped /\ ListTyped /\ DiskTyped /\ DiskInv /\ LinkTyped
  BY DEF LanInv, LanTyped
<1>1. rx[t].pc = "created" /\ UNCHANGED <<out, tx, bytes>>
  BY DEF Lan!Accept
<1>2. CASE link[t].cut
  <2>1. /\ rx' = [rx EXCEPT ![t] = Lan!Over] /\ disk' = Lan!Without(disk, Lan!Part(rx[t].n))
        /\ UNCHANGED <<in, link>>
    BY <1>2 DEF Lan!Accept
  <2>2. DiskTyped' /\ DiskInv' /\ \A u \in Task : Finals(u) => Finals(u)'
    BY <1>1, <2>1, Ended
  <2>3. ListTyped' /\ LinkTyped'
    BY <1>0, <1>1, <2>1 DEF ListTyped, LinkTyped
  <2> QED
    BY <1>1, <2>1, <2>2, <2>3, Received
<1>3. CASE ~link[t].cut
  <2>1. /\ rx' = [rx EXCEPT ![t] = [rx[t] EXCEPT !.pc = "frames"]] /\ disk' = disk
        /\ in' = [in EXCEPT ![t] = "waiting"] /\ link' = Lan!Down(link, t, "accept")
    BY <1>0, <1>3 DEF Lan!Accept, DiskTyped
  <2> DEFINE r == [rx[t] EXCEPT !.pc = "frames"]
  <2>2. /\ r \in RxRec /\ r.pc = "frames" /\ r.n = rx[t].n /\ r.total = rx[t].total
        /\ r.node = rx[t].node
    BY <1>0 DEF DiskTyped, RxRec
  <2>3. rx' = [rx EXCEPT ![t] = r]
    BY <2>1
  <2> HIDE DEF r
  <2>4. rx' \in [Task -> RxRec] /\ rx'[t] = r /\ \A u \in Task \ {t} : rx'[u] = rx[u]
    BY <1>0, <2>2, <2>3 DEF DiskTyped
  <2>5. DiskTyped'
    BY <1>0, <1>1, <2>1, <2>4 DEF DiskTyped
  <2>6. DiskInv'
    <3>1. \A u \in Task : OwnFile(u)'
      BY <1>0, <1>1, <2>1, <2>2, <2>4 DEF DiskInv, OwnFile
    <3> QED
      BY <1>0, <1>1, <2>1, <2>2, <2>4, <3>1 DEF DiskInv, Lan!Naming
  <2>7. \A u \in Task : Finals(u) => Finals(u)'
    BY <2>1 DEF Finals
  <2>8. ListTyped' /\ \A u \in Task : in'[u] = "done" => in[u] = "done"
    BY <1>0, <1>1, <2>1 DEF ListTyped
  <2>9. LinkTyped' /\ \A u \in Task : OnlyOld(u)
    BY <1>0, <2>1, Answered
  <2> QED
    BY <1>1, <2>5, <2>6, <2>7, <2>8, <2>9, Received
<1> QED
  BY <1>2, <1>3

(* A frame written where the file ends. *)
LEMMA Appended ==
    ASSUME NEW t, NEW n \in Nat, NEW d, d = [k \in 1..n |-> <<t, k>>]
    PROVE  Lan!Put(d, n + 1, <<t, n + 1>>) = [k \in 1..(n + 1) |-> <<t, k>>]
<1>1. Len(d) = n
  OBVIOUS
<1>2. Max({n, n + 1}) = n + 1
  BY DEF Max
<1>3. Lan!Put(d, n + 1, <<t, n + 1>>)
        = [i \in 1..(n + 1) |-> IF i = n + 1 THEN <<t, n + 1>> ELSE IF i <= n THEN d[i] ELSE <<t, n + 1>>]
  BY <1>1, <1>2, LanLibrary DEF Lan!Put
<1>4. \A i \in 1..(n + 1) :
         (IF i = n + 1 THEN <<t, n + 1>> ELSE IF i <= n THEN d[i] ELSE <<t, n + 1>>) = <<t, i>>
  OBVIOUS
<1> QED
  BY <1>3, <1>4

LEMMA FrameKeeps ==
    ASSUME Lan!LanAssumption, LanInv, NEW t \in Task, Lan!Frame(t) PROVE LanInv'
<1> DEFINE n == rx[t].total
<1>1. DiskTyped /\ DiskInv /\ ListTyped /\ LanTyped /\ LinkTyped /\ Size \in Nat
  BY DEF LanInv, LanTyped, Lan!LanAssumption
<1>2. n \in Nat /\ n < Size /\ rx[t].pc = "frames" /\ rx[t].node = t
      /\ bytes[t] = [k \in 1..n |-> <<t, k>>] /\ rx[t] \in RxRec
  BY <1>1 DEF Lan!Frame, DiskInv, OwnFile, DiskTyped, RxRec
<1>3. /\ UNCHANGED <<out, tx, disk>> /\ link[t].up # <<>> /\ link' = Lan!Took(t)
      /\ bytes' = [bytes EXCEPT ![t] = Lan!Put(bytes[t], n + 1, <<t, n + 1>>)]
      /\ rx' = [rx EXCEPT ![t] = [rx[t] EXCEPT !.total = n + 1]]
      /\ in' = [in EXCEPT ![t] = IF in[t] = "waiting" THEN "active" ELSE in[t]]
  BY <1>1, <1>2 DEF Lan!Frame, Lan!Says, DiskTyped, ListTyped
<1> DEFINE r == [rx[t] EXCEPT !.total = n + 1]
<1>4. /\ r \in RxRec /\ r.pc = "frames" /\ r.n = rx[t].n /\ r.total = n + 1 /\ r.node = t
  BY <1>1, <1>2 DEF RxRec
<1> HIDE DEF r, n
<1>5. rx' \in [Task -> RxRec] /\ rx'[t] = r /\ \A u \in Task \ {t} : rx'[u] = rx[u]
  BY <1>1, <1>3, <1>4 DEF DiskTyped, r
<1>6. Lan!Put(bytes[t], n + 1, <<t, n + 1>>) = [k \in 1..(n + 1) |-> <<t, k>>]
  BY <1>2, Appended
<1>7. [k \in 1..(n + 1) |-> <<t, k>>] \in Seq(Task \X (1..Size))
  BY <1>1, <1>2
<1>8. /\ bytes' \in [Task -> Seq(Task \X (1..Size))]
      /\ bytes'[t] = [k \in 1..(n + 1) |-> <<t, k>>] /\ \A u \in Task \ {t} : bytes'[u] = bytes[u]
  BY <1>1, <1>3, <1>6, <1>7 DEF DiskTyped
<1>9. DiskTyped'
  BY <1>1, <1>3, <1>5, <1>8 DEF DiskTyped
<1>10. \A p \in DOMAIN disk : ~p.part => disk[p] # t
  <2>1. Lan!Part(rx[t].n) \in DOMAIN disk /\ disk[Lan!Part(rx[t].n)] = t /\ Lan!Part(rx[t].n).part
    BY <1>1, <1>2 DEF DiskInv, OwnFile, Lan!Part
  <2> QED
    BY <1>1, <2>1 DEF DiskInv
<1>11. DiskInv'
  <2>1. \A x \in DOMAIN disk : ~x.part => bytes'[disk[x]] = Lan!Whole(disk[x])
    BY <1>1, <1>8, <1>10 DEF DiskInv, OwnFile, DiskTyped
  <2>2. \A u, v \in Task : Lan!Naming(u)' /\ Lan!Naming(v)' => u = v
    BY <1>1, <1>2, <1>4, <1>5 DEF DiskInv, OwnFile, Lan!Naming
  <2> QED
    <3>1. \A u \in Task \ {t} : OwnFile(u)'
      BY <1>1, <1>3, <1>5, <1>8 DEF DiskInv, OwnFile
    <3>2. OwnFile(t)'
      BY <1>1, <1>2, <1>3, <1>4, <1>5, <1>8 DEF DiskInv, OwnFile
    <3>3. \A u \in Task : OwnFile(u)'
      BY <3>1, <3>2
    <3> QED
      BY <1>1, <1>3, <2>1, <2>2, <3>3 DEF DiskInv
<1>12. \A u \in Task : Finals(u) => Finals(u)'
  BY <1>3 DEF Finals
<1>13. ListTyped' /\ \A u \in Task : in'[u] = "done" => in[u] = "done"
  BY <1>1, <1>3 DEF ListTyped
<1>14. LinkTyped' /\ \A u \in Task : link'[u].down = link[u].down
  BY <1>1, <1>3, Links DEF LinkTyped
<1> QED
  BY <1>3, <1>9, <1>11, <1>12, <1>13, <1>14, Received

LEMMA EndKeeps ==
    ASSUME Lan!LanAssumption, ~Racing, LanInv, NEW t \in Task, Lan!End(t) PROVE LanInv'
<1> DEFINE to == IF Lan!Final(rx[t].n) \in DOMAIN disk THEN Lan!UniqueFinal ELSE rx[t].n
<1>1. DiskTyped /\ DiskInv /\ ListTyped /\ LanTyped /\ LinkTyped /\ Size \in Nat
  BY DEF LanInv, LanTyped, Lan!LanAssumption
<1>2. /\ UNCHANGED <<out, in, tx, disk, bytes>> /\ rx[t].pc = "frames" /\ rx[t].total = Size
      /\ link[t].up # <<>> /\ link' = Lan!Took(t) /\ \A u \in Task \ {t} : ~Lan!Naming(u)
      /\ rx' = [rx EXCEPT ![t] = [rx[t] EXCEPT !.pc = "named", !.to = to]]
  BY <1>1 DEF Lan!End, Lan!Says, Lan!Alone, DiskTyped
<1>3. to \in Numbers /\ Lan!Final(to) \notin DOMAIN disk
  BY <1>1, NameFound DEF DiskTyped, RxRec
<1> HIDE DEF to
<1> DEFINE r == [rx[t] EXCEPT !.pc = "named", !.to = to]
<1>4. /\ r \in RxRec /\ r.pc = "named" /\ r.n = rx[t].n /\ r.total = rx[t].total
      /\ r.node = rx[t].node /\ r.to = to
  BY <1>1, <1>3 DEF DiskTyped, RxRec
<1>5. rx' = [rx EXCEPT ![t] = r]
  BY <1>2
<1> HIDE DEF r
<1>6. rx' \in [Task -> RxRec] /\ rx'[t] = r /\ \A u \in Task \ {t} : rx'[u] = rx[u]
  BY <1>1, <1>4, <1>5 DEF DiskTyped
<1>7. DiskTyped'
  BY <1>1, <1>2, <1>6 DEF DiskTyped
<1>8. DiskInv'
  <2>1. \A u \in Task : OwnFile(u)'
    BY <1>1, <1>2, <1>3, <1>4, <1>6 DEF DiskInv, OwnFile
  <2> QED
    BY <1>1, <1>2, <1>4, <1>6, <2>1 DEF DiskInv, Lan!Naming
<1>9. LinkTyped' /\ \A u \in Task : link'[u].down = link[u].down
  BY <1>1, <1>2, Links DEF LinkTyped
<1>10. (\A u \in Task : Finals(u) => Finals(u)') /\ ListTyped'
  BY <1>1, <1>2 DEF Finals, ListTyped
<1> QED
  BY <1>2, <1>7, <1>8, <1>9, <1>10, Received

LEMMA RenameKeeps ==
    ASSUME Lan!LanAssumption, LanInv, NEW t \in Task, Lan!Rename(t) PROVE LanInv'
<1> DEFINE p == Lan!Part(rx[t].n)
           q == Lan!Final(rx[t].to)
<1>1. DiskTyped /\ DiskInv /\ ListTyped /\ LanTyped /\ LinkTyped /\ Size \in Nat
  BY DEF LanInv, LanTyped, Lan!LanAssumption
<1>2. /\ rx[t].pc = "named" /\ rx[t] \in RxRec /\ p \in DOMAIN disk /\ disk[p] = t /\ p.part
      /\ q \notin DOMAIN disk /\ ~q.part /\ q \in [n : Numbers, part : BOOLEAN] /\ q # p
      /\ bytes[t] = Lan!Whole(t)
  BY <1>1 DEF Lan!Rename, DiskInv, OwnFile, DiskTyped, RxRec, Lan!Part, Lan!Final, Lan!Whole
<1>3. /\ UNCHANGED <<out, tx, bytes>> /\ rx' = [rx EXCEPT ![t] = Lan!Over]
      /\ disk' = [x \in (DOMAIN disk \ {p}) \cup {q} |->
                    IF x = q THEN t ELSE disk[x]]
      /\ in' = Lan!Completed(in, t)
      /\ link' = [Lan!Down(link, t, "ok") EXCEPT ![t].up = <<>>]
  <2>1. Lan!Without(disk, p) = [x \in DOMAIN disk \ {p} |-> disk[x]]
    BY DEF Lan!Without
  <2>2. disk' = [x \in DOMAIN Lan!Without(disk, p) \cup {q} |->
                   IF x = q THEN disk[p] ELSE Lan!Without(disk, p)[x]]
    BY DEF Lan!Rename
  <2>3. UNCHANGED <<out, tx, bytes>> /\ rx' = [rx EXCEPT ![t] = Lan!Over]
        /\ in' = Lan!Completed(in, t)
        /\ link' = [Lan!Down(link, t, "ok") EXCEPT ![t].up = <<>>]
    BY DEF Lan!Rename
  <2> HIDE DEF p, q
  <2>4. disk' = [x \in (DOMAIN disk \ {p}) \cup {q} |-> IF x = q THEN t ELSE disk[x]]
    BY <1>2, <2>1, <2>2
  <2> QED
    BY <2>3, <2>4
<1> HIDE DEF p, q
<1>4. /\ DOMAIN disk' = (DOMAIN disk \ {p}) \cup {q} /\ disk'[q] = t
      /\ \A x \in DOMAIN disk \ {p} : disk'[x] = disk[x] /\ disk[x] # t
      /\ disk' = [x \in DOMAIN disk' |-> disk'[x]]
  BY <1>1, <1>2, <1>3 DEF DiskInv, OwnFile
<1>5. Lan!Over \in RxRec /\ Lan!Over.pc = "over"
  <2>1. 0 \in Numbers /\ 0 \in 0..Size
    BY FS_CardinalityType, LanLibrary DEF Lan!LanAssumption, Numbers
  <2> QED
    BY <2>1 DEF Lan!Over, Lan!NoRx, RxRec
<1>6. rx' \in [Task -> RxRec] /\ rx'[t].pc = "over" /\ \A u \in Task \ {t} : rx'[u] = rx[u]
  BY <1>1, <1>3, <1>5 DEF DiskTyped
<1>7. DiskTyped'
  BY <1>1, <1>2, <1>3, <1>4, <1>6 DEF DiskTyped
<1>8. DiskInv'
  <2>1. \A x, y \in DOMAIN disk' : disk'[x] = disk'[y] => x = y
    BY <1>1, <1>4 DEF DiskInv, OwnFile
  <2>2. \A x \in DOMAIN disk' : ~x.part => bytes'[disk'[x]] = Lan!Whole(disk'[x])
    BY <1>1, <1>2, <1>3, <1>4 DEF DiskInv, OwnFile
  <2>3. \A u \in Task : ~Lan!Naming(u)'
    BY <1>1, <1>2, <1>6 DEF DiskInv, OwnFile, Lan!Naming
  <2>4. \A u \in Task \ {t} : OwnFile(u) /\ rx[u].pc \notin {"reserved", "named"}
    BY <1>1, <1>2 DEF DiskInv, Lan!Naming
  <2>5. \A u \in Task \ {t} : OwnFile(u)'
    BY <1>2, <1>3, <1>4, <1>6, <2>4 DEF OwnFile
  <2>6. OwnFile(t)'
    BY <1>6 DEF OwnFile
  <2>7. \A u \in Task : OwnFile(u)'
    BY <2>5, <2>6
  <2> QED
    BY <2>1, <2>2, <2>3, <2>7 DEF DiskInv
<1>9. (\A u \in Task : Finals(u) => Finals(u)') /\ Finals(t)'
  BY <1>2, <1>4 DEF Finals
<1>10. ListTyped' /\ \A u \in Task : in'[u] = "done" => in[u] = "done" \/ u = t
  BY <1>1, <1>3, DoneOf DEF ListTyped
<1>11. LinkTyped' /\ \A u \in Task : u = t \/ OnlyOld(u)
  BY <1>1, <1>3, Answered
<1> QED
  BY <1>3, <1>7, <1>8, <1>9, <1>10, <1>11, Received

LEMMA RestartKeeps ==
    ASSUME Lan!LanAssumption, LanInv, Lan!CrashIn PROVE LanInv'
<1>1. DiskTyped /\ DiskInv /\ ListTyped /\ LinkTyped
  BY DEF LanInv, LanTyped
<1>2. /\ in' \in [Task -> {"none", "error", "done", "gone"}] /\ Lan!Restored(in, in')
      /\ rx' = [t \in Task |-> IF link[t] = Lan!NoLink THEN rx[t] ELSE Lan!Over]
      /\ link' = [t \in Task |-> IF link[t] = Lan!NoLink THEN Lan!NoLink
                                 ELSE [link[t] EXCEPT !.cut = TRUE, !.up = <<>>]]
      /\ UNCHANGED <<out, tx, disk, bytes>>
  BY DEF Lan!CrashIn
<1>3. ListTyped' /\ \A u \in Task : in'[u] = "done" => in[u] = "done"
  BY <1>1, <1>2 DEF ListTyped, Lan!Restored, Lan!Open
<1>4. LinkTyped' /\ \A u \in Task : link'[u].down = link[u].down
  <2>1. <<>> \in Seq({"offer", "chunk", "end"})
    OBVIOUS
  <2>2. \A u \in Task : /\ [link[u] EXCEPT !.cut = TRUE, !.up = <<>>] \in LinkRec
                        /\ [link[u] EXCEPT !.cut = TRUE, !.up = <<>>].down = link[u].down
    BY <1>1, <2>1 DEF LinkTyped, LinkRec
  <2>3. \A u \in Task : link'[u] \in LinkRec /\ link'[u].down = link[u].down
    BY <1>1, <1>2, <2>2 DEF LinkTyped
  <2> QED
    BY <1>2, <2>3 DEF LinkTyped
<1>5. Lan!Over \in RxRec /\ Lan!Over.pc = "over"
  <2>1. 0 \in Numbers /\ 0 \in 0..Size
    BY FS_CardinalityType, LanLibrary DEF Lan!LanAssumption, Numbers
  <2> QED
    BY <2>1 DEF Lan!Over, Lan!NoRx, RxRec
<1>6. rx' \in [Task -> RxRec] /\ \A u \in Task : rx'[u].pc = "over" \/ rx'[u] = rx[u]
  BY <1>1, <1>2, <1>5 DEF DiskTyped
<1>7. DiskTyped'
  BY <1>1, <1>2, <1>6 DEF DiskTyped
<1>8. DiskInv'
  <2>1. \A u \in Task : OwnFile(u)'
    BY <1>1, <1>2, <1>6 DEF DiskInv, OwnFile
  <2> QED
    BY <1>1, <1>2, <1>6, <2>1 DEF DiskInv, Lan!Naming
<1>9. \A u \in Task : Finals(u) => Finals(u)'
  BY <1>2 DEF Finals
<1> QED
  BY <1>2, <1>3, <1>4, <1>7, <1>8, <1>9, Received

LEMMA LanKept ==
    ASSUME Lan!LanAssumption, ~Racing, LanInv, [Lan!LanNext]_Lan!lanVars PROVE LanInv'
<1>1. CASE Lan!LanNext
  BY <1>1, LookKeeps, CreateKeeps, RefuseKeeps, AcceptKeeps, FrameKeeps, EndKeeps, RenameKeeps,
     AbortKeeps, RestartKeeps, TroubleKeeps, SendsKeep, UsersKeep
     DEF Lan!LanNext, Lan!ReceiveStep
<1>2. CASE UNCHANGED Lan!lanVars
  BY <1>2
     DEF Lan!lanVars, LanInv, LanTyped, ListTyped, TxTyped, LinkTyped, DiskTyped, DiskInv,
         OwnFile, DoneInv, Finals, Lan!Naming
<1> QED
  BY <1>1, <1>2

LEMMA LanSafe == LanInv => Lan!WholeOrNothing
  BY DEF LanInv, LanTyped, DiskTyped, DiskInv, DoneInv, Finals, Lan!WholeOrNothing, Lan!Delivered

(***************************************************************************)
(* LanTransfer: nothing that looks complete is not, and what either side   *)
(* calls done is there, as long as no two connections look for a name at   *)
(* once (~Racing; with it the name is taken twice, see the README).        *)
(***************************************************************************)
THEOREM FilesWhole ==
    ASSUME Lan!LanAssumption, ~Racing
    PROVE  Lan!LanSpec => []Lan!WholeOrNothing
  BY LanStarts, LanKept, LanSafe, PTL DEF Lan!LanSpec

----------------------------------------------------------------------------
(* Turning the LAN service on and off. *)

(* A call past the lock has it; one that starts a service found none. *)
LockInv ==
    \A x \in Call : /\ call[x] \in {"apply", "start"} => lock = x
                    /\ call[x] = "start" => current = NoService

ServiceInv ==
    /\ current \in Service \cup {NoService} /\ listening \subseteq Service
    /\ listening \subseteq {current}

SwitchInv == Switch!ControlAssumption /\ call = [x \in Call |-> call[x]] /\ LockInv /\ ServiceInv

LEMMA SwitchStarts == ASSUME Switch!ControlAssumption, Switch!ControlInit PROVE SwitchInv
  BY DEF Switch!ControlInit, SwitchInv, LockInv, ServiceInv

LEMMA SwitchKept ==
    ASSUME SwitchInv, [Switch!ControlNext]_Switch!controlVars PROVE SwitchInv'
<1> USE DEF SwitchInv, LockInv, ServiceInv, Switch!Free
<1>1. ASSUME NEW x \in Call, Switch!Ensure(x) \/ Switch!Ensured(x) \/ Switch!SetConfig(x)
      PROVE  SwitchInv'
  BY <1>1 DEF Switch!Ensure, Switch!Ensured, Switch!SetConfig, Switch!To, Switch!ControlAssumption
<1>2. ASSUME NEW x \in Call, Switch!Apply(x) PROVE SwitchInv'
  BY <1>2 DEF Switch!Apply, Switch!To, Switch!ControlAssumption
<1>3. ASSUME NEW x \in Call, Switch!Start(x) PROVE SwitchInv'
  BY <1>3 DEF Switch!Start, Switch!To, Switch!ControlAssumption
<1>4. CASE Switch!Stop
  BY <1>4 DEF Switch!Stop
<1>5. CASE Switch!Restart
  BY <1>5 DEF Switch!Restart, Switch!Boots
<1>6. CASE UNCHANGED Switch!controlVars
  BY <1>6 DEF Switch!controlVars
<1> QED
  BY <1>1, <1>2, <1>3, <1>4, <1>5, <1>6 DEF Switch!ControlNext

LEMMA SwitchSafe == SwitchInv => Switch!OneService
  BY DEF SwitchInv, ServiceInv, Switch!OneService

(* However calls and the stop of the engine overlap, what listens is the   *)
(* one service the controller can stop.                                    *)
THEOREM OneListens ==
    ASSUME Switch!ControlAssumption
    PROVE  Switch!ControlSpec => []Switch!OneService
  BY SwitchStarts, SwitchKept, SwitchSafe, PTL DEF Switch!ControlSpec

----------------------------------------------------------------------------
(* The MCP process that gives way to the application. *)

(* What the proof needs of the types. *)
YieldTypes ==
    /\ local \in [Gid -> {"none", "waiting", "active", "stopping", "leaving", "paused"}]
    /\ mode \in {"off", "relay", "embedded"} /\ told \in Yield!Calls
    /\ watcher \in {"probe", "save", "lan", "give", "health", "done"}
    /\ handed \in BOOLEAN /\ relay \in BOOLEAN /\ lanUp \in BOOLEAN

(* How far the watcher has come tells what is given up: the tasks are      *)
(* paused, then saved, then discovery ends, then the flag is set.  Between *)
(* its steps the loop is idle or was let through before (`handed`), and    *)
(* then it starts nothing.                                                 *)
GivingInv ==
    /\ handed => watcher \in {"health", "done"}
    /\ relay => watcher = "done"
    /\ mode = "embedded" /\ watcher \in {"save", "lan", "give", "health"} => step = "idle"
    /\ mode = "embedded" /\ watcher # "probe" =>
         \A x \in Gid : local[x] \notin {"waiting", "active"}
    /\ mode = "embedded" /\ watcher \in {"lan", "give", "health", "done"} =>
         \A x \in Gid : local[x] # "none" => x \in entries
    /\ mode = "embedded" /\ watcher \in {"give", "health"} => ~lanUp
    /\ mode = "embedded" /\ watcher \in {"health", "done"} => handed
    /\ mode = "embedded" /\ relay => ~lanUp /\ step \in {"idle", "picked", "forward"}
    /\ mode = "embedded" /\ watcher = "done" /\ step = "act" => told.tool \notin {"add", "resume"}

YieldInv == YieldTypes /\ GivingInv /\ ~Racing

LEMMA YieldStarts == ASSUME ~Racing, Yield!HandoverInit PROVE YieldInv
  BY DEF Yield!HandoverInit, YieldInv, YieldTypes, GivingInv

(* The application's own steps, and the user's there. *)
LEMMA AppKeeps ==
    ASSUME YieldInv, UNCHANGED <<mode, local, entries, watcher, handed, relay, lanUp, step, told>>
    PROVE  YieldInv'
  BY DEF YieldInv, YieldTypes, GivingInv

LEMMA EngineKeeps ==
    ASSUME YieldInv,
           \/ Yield!Launch \/ Yield!Quit \/ Yield!Act
           \/ \E x \in Gid : Yield!Scheduled(x) \/ Yield!Stopped(x)
    PROVE  YieldInv'
<1> USE DEF YieldInv, Yield!local_vars, Yield!loop_vars, Yield!app_vars
<1>1. CASE Yield!Launch
  BY <1>1 DEF Yield!Launch, YieldTypes, GivingInv
<1>2. CASE Yield!Quit
  BY <1>2 DEF Yield!Quit, YieldTypes, GivingInv
<1>3. ASSUME NEW x \in Gid, Yield!Scheduled(x) PROVE YieldInv'
  BY <1>3 DEF Yield!Scheduled, YieldTypes, GivingInv
<1>4. ASSUME NEW x \in Gid, Yield!Stopped(x) PROVE YieldInv'
  BY <1>4 DEF Yield!Stopped, YieldTypes, GivingInv
<1>5. CASE Yield!Act
  <2>1. /\ step = "act" /\ step' = "idle" /\ UNCHANGED <<told, mode, watcher, handed, relay>>
        /\ lanUp' = (lanUp \/ told.tool \in Yield!NeedsLan) /\ Yield!Handled(told)
    BY <1>5 DEF Yield!Act, Yield!Goes
  <2>2. told.gid \in Gid
    BY DEF YieldTypes, Yield!Calls
  <2>3. local' \in [Gid -> {"none", "waiting", "active", "stopping", "leaving", "paused"}]
        /\ \A x \in Gid \ {told.gid} : local'[x] = local[x]
    BY <2>1, <2>2 DEF Yield!Handled, Yield!Pausing, YieldTypes
  <2>4. \A x \in Gid \ {told.gid} : x \in entries => x \in entries'
    BY <2>1 DEF Yield!Handled
  <2>5. /\ told.tool \notin {"add", "resume"} /\ local[told.gid] \notin {"waiting", "active"} =>
             local'[told.gid] \notin {"waiting", "active"}
        /\ (local[told.gid] # "none" => told.gid \in entries) /\ told.tool \notin {"add", "resume"} =>
             (local'[told.gid] # "none" => told.gid \in entries')
    BY <2>1, <2>2 DEF Yield!Handled, Yield!Pausing, YieldTypes
  <2>6. YieldTypes'
    BY <2>1, <2>3 DEF YieldTypes
  <2>7. GivingInv'
    BY <2>1, <2>2, <2>3, <2>4, <2>5 DEF YieldTypes, GivingInv
  <2> QED
    BY <2>6, <2>7
<1> QED
  BY <1>1, <1>2, <1>3, <1>4, <1>5

LEMMA WatcherKeeps == ASSUME YieldInv, Yield!Watches PROVE YieldInv'
<1> USE DEF YieldInv, Yield!local_vars, Yield!loop_vars, Yield!app_vars, Yield!Moves
<1>1. CASE Yield!Probe
  <2>1. local' = [x \in Gid |-> Yield!Pausing(local[x])]
    BY <1>1 DEF Yield!Probe, Yield!PausedAll
  <2>2. \A x \in Gid : Yield!Pausing(local[x]) \in {"none", "stopping", "leaving", "paused"}
    BY DEF Yield!Pausing, YieldTypes
  <2>3. local' \in [Gid -> {"none", "waiting", "active", "stopping", "leaving", "paused"}]
        /\ \A x \in Gid : local'[x] \notin {"waiting", "active"}
    BY <2>1, <2>2
  <2>4. /\ mode = "embedded" /\ watcher = "probe" /\ watcher' = "save" /\ step = "idle"
        /\ UNCHANGED <<mode, told, step, handed, relay, lanUp>>
    BY <1>1 DEF Yield!Probe
  <2> QED
    BY <2>3, <2>4 DEF YieldTypes, GivingInv
<1>2. CASE Yield!SavesSession
  BY <1>2 DEF Yield!SavesSession, YieldTypes, GivingInv
<1>3. CASE Yield!StopsLan
  BY <1>3 DEF Yield!StopsLan, YieldTypes, GivingInv
<1>4. CASE Yield!Gives
  BY <1>4 DEF Yield!Gives, YieldTypes, GivingInv
<1>5. CASE Yield!Health
  <2>1. relay' = (Mcp /\ app = "listening") /\ mode = "embedded" /\ watcher = "health"
        /\ watcher' = "done" /\ step = "idle" /\ UNCHANGED <<mode, told, step, local, entries, handed, lanUp>>
    BY <1>5 DEF Yield!Health
  <2>2. relay' \in BOOLEAN
    BY <2>1, Zenon
  <2>3. mode = "embedded" /\ watcher = "health" /\ watcher' = "done" /\ step = "idle"
        /\ UNCHANGED <<mode, told, step, local, entries, handed, lanUp>>
    BY <2>1, Zenon
  <2>4. handed
    BY <2>3 DEF GivingInv
  <2> QED
    BY <2>2, <2>3, <2>4 DEF YieldTypes, GivingInv
<1> QED
  BY <1>1, <1>2, <1>3, <1>4, <1>5 DEF Yield!Watches

LEMMA LoopKeeps ==
    ASSUME YieldInv,
           \/ \E x \in Yield!Calls : Yield!Read(x)
           \/ Yield!PickUp \/ Yield!Forwarded \/ Yield!ForwardFails \/ Yield!Refused \/ Yield!Passes
    PROVE  YieldInv'
<1> USE DEF YieldInv, YieldTypes, GivingInv, Yield!local_vars, Yield!loop_vars, Yield!app_vars,
            Yield!Goes
<1>1. ASSUME NEW x \in Yield!Calls, Yield!Read(x) PROVE YieldInv'
  BY <1>1 DEF Yield!Read
<1>2. CASE Yield!PickUp
  BY <1>2 DEF Yield!PickUp
<1>3. CASE Yield!Forwarded
  BY <1>3 DEF Yield!Forwarded
<1>4. CASE Yield!ForwardFails
  BY <1>4 DEF Yield!ForwardFails
<1>5. CASE Yield!Refused
  BY <1>5 DEF Yield!Refused
<1>6. CASE Yield!Passes
  BY <1>6 DEF Yield!Passes, Yield!Refuses
<1> QED
  BY <1>1, <1>2, <1>3, <1>4, <1>5, <1>6

LEMMA YieldKept ==
    ASSUME YieldInv, [Yield!HandoverNext]_Yield!handoverVars PROVE YieldInv'
<1>1. ASSUME \/ Yield!Boot \/ Yield!Serves \/ Yield!Leaves \/ \E x \in Gid : Yield!UserResumes(x)
             \/ UNCHANGED Yield!handoverVars
      PROVE  YieldInv'
  BY <1>1, AppKeeps DEF Yield!Boot, Yield!Serves, Yield!Leaves, Yield!UserResumes, Yield!handoverVars,
     Yield!local_vars, Yield!loop_vars
<1> QED
  BY <1>1, EngineKeeps, WatcherKeeps, LoopKeeps DEF Yield!HandoverNext, Yield!Loop

LEMMA YieldSafe == YieldInv => Yield!Yielded
  BY DEF YieldInv, YieldTypes, GivingInv, Yield!Yielded

(* The stdio process that gave way starts nothing, has saved what it had,  *)
(* and leaves the discovery port alone while it forwards, if no line is    *)
(* handled while it hands over (~Racing; with it a told let through before *)
(* is carried out afterwards).                                             *)
THEOREM GivesUp == ASSUME ~Racing PROVE Yield!HandoverSpec => []Yield!Yielded
  BY YieldStarts, YieldKept, YieldSafe, PTL DEF Yield!HandoverSpec

----------------------------------------------------------------------------
(* The ports the router maps. *)

MapTyped ==
    /\ router \in [{"tcp", "udp"} -> [{"pmp", "upnp"} -> Nat]]
    /\ pmp \in BOOLEAN /\ round \in {"map", "idle", "unmap", "over"}
    /\ next \in {1, 2} /\ due \in {0, 1} /\ (round \in {"idle", "over"} => next = 1)
    /\ missed \in [{"tcp", "udp"} -> Nat] /\ fails \in Nat

(* A protocol whose turn in this round is still to come. *)
Turn(p) == IF p = "tcp" THEN 1 ELSE 2
Late(p) == (round = "idle" /\ due = 0) \/ (round = "map" /\ next <= Turn(p))

(* A mapping of at most one failed renewal has what is left of its lease.  *)
LeaseInv ==
    round \in {"map", "idle"} =>
        \A p \in {"tcp", "udp"} : missed[p] <= 1 =>
            \E q \in {"pmp", "upnp"} :
                /\ router[p][q] + missed[p] + 1 >= Lease
                /\ ~Late(p) => router[p][q] + missed[p] >= Lease

(* While the router answers, one method is used, and given back in turn.   *)
ReturnInv ==
    fails = 0 =>
        /\ \A p \in {"tcp", "udp"} : router[p][IF pmp THEN "upnp" ELSE "pmp"] = 0
        /\ \A p \in {"tcp", "udp"} : round = "over" \/ (round = "unmap" /\ next > Turn(p)) =>
             router[p]["pmp"] = 0 /\ router[p]["upnp"] = 0

MapInv == Lease \in Nat /\ MapTyped /\ LeaseInv /\ ReturnInv

LEMMA MapStarts == ASSUME Lease \in Nat, Mapping!MapInit PROVE MapInv
  BY DEF Mapping!MapInit, MapInv, MapTyped, LeaseInv, ReturnInv, Mapping!Never, Mapping!Gateways,
         Mapping!Methods

(* The protocol at hand, and what comes after it. *)
LEMMA Turns ==
    ASSUME MapTyped, NEW then, Mapping!Onwards(then)
    PROVE  \/ Mapping!Proto = "tcp" /\ next = 1 /\ next' = 2 /\ round' = round
           \/ Mapping!Proto = "udp" /\ next = 2 /\ next' = 1 /\ round' = then
  BY DEF MapTyped, Mapping!Onwards, Mapping!Proto, Mapping!Protocols

LEMMA MapKept == ASSUME MapInv, [Mapping!MapNext]_Mapping!mapVars PROVE MapInv'
<1> USE DEF MapInv
<1>1. CASE Mapping!MapOne
  <2>1. /\ round = "map" /\ Mapping!Onwards("idle") /\ due' = 1 /\ UNCHANGED <<pmp, down>>
        /\ Mapping!PmpMaps \/ Mapping!UpnpMaps \/ Mapping!NothingMaps
    BY <1>1 DEF Mapping!MapOne
  <2>2. \/ Mapping!Proto = "tcp" /\ next = 1 /\ next' = 2 /\ round' = "map"
        \/ Mapping!Proto = "udp" /\ next = 2 /\ next' = 1 /\ round' = "idle"
    BY <2>1, Turns
  <2> DEFINE x == Mapping!Proto
  <2>3. x \in {"tcp", "udp"} /\ fails' \in Nat /\ (fails' = 0 => fails = 0)
    BY <2>1, <2>2 DEF MapTyped, Mapping!PmpMaps, Mapping!UpnpMaps, Mapping!NothingMaps, Mapping!Works,
       Mapping!Fails
  <2>4. CASE \E q \in {"pmp", "upnp"} : Mapping!Renewed(q) /\ (fails' = 0 => q = (IF pmp THEN "pmp" ELSE "upnp"))
    <3>1. PICK q \in {"pmp", "upnp"} :
            /\ router' = [router EXCEPT ![x] = [router[x] EXCEPT ![q] = Lease]]
            /\ missed' = [missed EXCEPT ![x] = 0]
            /\ fails' = 0 => q = (IF pmp THEN "pmp" ELSE "upnp")
      BY <2>3, <2>4 DEF Mapping!Renewed, MapTyped
    <3> HIDE DEF x
    <3>2. /\ router' \in [{"tcp", "udp"} -> [{"pmp", "upnp"} -> Nat]] /\ router'[x][q] = Lease
          /\ \A r \in {"pmp", "upnp"} \ {q} : router'[x][r] = router[x][r]
          /\ \A p \in {"tcp", "udp"} \ {x} : router'[p] = router[p]
      BY <2>3, <3>1 DEF MapTyped
    <3>3. /\ missed' \in [{"tcp", "udp"} -> Nat] /\ missed'[x] = 0
          /\ \A p \in {"tcp", "udp"} \ {x} : missed'[p] = missed[p]
      BY <2>3, <3>1 DEF MapTyped
    <3>4. MapTyped'
      BY <2>1, <2>2, <2>3, <3>2, <3>3 DEF MapTyped
    <3>5. LeaseInv'
      <4> SUFFICES ASSUME NEW p \in {"tcp", "udp"}, missed'[p] <= 1
                   PROVE  \E r \in {"pmp", "upnp"} :
                            /\ router'[p][r] + missed'[p] + 1 >= Lease
                            /\ ~Late(p)' => router'[p][r] + missed'[p] >= Lease
        BY DEF LeaseInv
      <4>1. CASE p = x
        BY <3>2, <3>3, <4>1
      <4>2. CASE p # x
        <5>1. Late(p) => Late(p)'
          BY <2>1, <2>2, <4>2 DEF Late, Turn, x
        <5> QED
          BY <2>1, <3>2, <3>3, <4>2, <5>1 DEF LeaseInv
      <4> QED
        BY <4>1, <4>2
    <3>6. ReturnInv'
      BY <2>1, <2>2, <2>3, <3>1, <3>2 DEF ReturnInv, MapTyped
    <3> QED
      BY <3>4, <3>5, <3>6
  <2>5. CASE Mapping!NothingMaps
    <3> HIDE DEF x
    <3>1. /\ router' = router /\ fails' # 0
          /\ missed' = [missed EXCEPT ![x] = Mapping!Missed(missed[x])]
      BY <2>3, <2>5 DEF Mapping!NothingMaps, Mapping!Fails, MapTyped, x
    <3>2. Mapping!Missed(missed[x]) \in Nat
          /\ (Mapping!Missed(missed[x]) <= 1 /\ Lease > 2 => Mapping!Missed(missed[x]) = missed[x] + 1)
      BY <2>3 DEF Mapping!Missed, MapTyped
    <3>3. /\ missed' \in [{"tcp", "udp"} -> Nat] /\ missed'[x] = Mapping!Missed(missed[x])
          /\ \A p \in {"tcp", "udp"} \ {x} : missed'[p] = missed[p]
      BY <2>3, <3>1, <3>2 DEF MapTyped
    <3>4. MapTyped'
      BY <2>1, <2>2, <2>3, <3>1, <3>3 DEF MapTyped
    <3>5. LeaseInv'
      <4> SUFFICES ASSUME NEW p \in {"tcp", "udp"}, missed'[p] <= 1
                   PROVE  \E r \in {"pmp", "upnp"} :
                            /\ router'[p][r] + missed'[p] + 1 >= Lease
                            /\ ~Late(p)' => router'[p][r] + missed'[p] >= Lease
        BY DEF LeaseInv
      <4>1. CASE p = x
        <5>1. \/ missed[p] + 1 = missed'[p]
              \/ Lease <= missed'[p]
          BY <2>3, <3>3, <4>1 DEF Mapping!Missed, MapTyped
        <5>2. \A r \in {"pmp", "upnp"} : router'[p][r] \in Nat /\ missed'[p] \in Nat
          BY <3>4 DEF MapTyped
        <5>3. CASE missed[p] + 1 = missed'[p]
          <6>1. missed[p] <= 1
            BY <2>3, <3>3, <4>1, <5>3 DEF MapTyped
          <6>2. PICK r \in {"pmp", "upnp"} : router[p][r] + missed[p] + 1 >= Lease
            BY <2>1, <6>1 DEF LeaseInv
          <6> QED
            BY <2>3, <3>1, <4>1, <5>2, <5>3, <6>2 DEF MapTyped
        <5>4. CASE Lease <= missed'[p]
          <6>1. \A r \in {"pmp", "upnp"} : router'[p][r] + missed'[p] >= Lease
            BY <5>2, <5>4
          <6> QED
            BY <5>2, <6>1
        <5> QED
          BY <5>1, <5>3, <5>4
      <4>2. CASE p # x
        <5>1. Late(p) => Late(p)'
          BY <2>1, <2>2, <4>2 DEF Late, Turn, x
        <5> QED
          BY <2>1, <3>1, <3>3, <4>2, <5>1 DEF LeaseInv
      <4> QED
        BY <4>1, <4>2
    <3>6. ReturnInv'
      BY <3>1 DEF ReturnInv
    <3> QED
      BY <3>4, <3>5, <3>6
  <2> QED
    BY <2>1, <2>4, <2>5 DEF Mapping!PmpMaps, Mapping!UpnpMaps, Mapping!Works, Mapping!Fails, MapTyped
<1>2. CASE Mapping!Hour \/ Mapping!Expire
  <2>1. /\ router' = [p \in {"tcp", "udp"} |->
                        [q \in {"pmp", "upnp"} |-> Mapping!Spent(router[p][q])]]
        /\ UNCHANGED <<pmp, round, next, missed, fails>>
        /\ (round = "idle" /\ due = 1 /\ due' = 0) \/ (round = "over" /\ due' = due)
    BY <1>2 DEF Mapping!Hour, Mapping!Expire, Mapping!Methods, MapTyped
  <2>2. \A p \in {"tcp", "udp"}, q \in {"pmp", "upnp"} :
          /\ Mapping!Spent(router[p][q]) \in Nat /\ Mapping!Spent(router[p][q]) + 1 >= router[p][q]
          /\ router[p][q] = 0 => Mapping!Spent(router[p][q]) = 0
    BY DEF Mapping!Spent, MapTyped
  <2>3. /\ router' \in [{"tcp", "udp"} -> [{"pmp", "upnp"} -> Nat]]
        /\ \A p \in {"tcp", "udp"}, q \in {"pmp", "upnp"} :
             router'[p][q] + 1 >= router[p][q] /\ (router[p][q] = 0 => router'[p][q] = 0)
    BY <2>1, <2>2
  <2>4. MapTyped'
    BY <2>1, <2>3 DEF MapTyped
  <2>5. LeaseInv'
    <3> SUFFICES ASSUME round = "idle", NEW p \in {"tcp", "udp"}, missed[p] <= 1
                 PROVE  Late(p)' /\ \E q \in {"pmp", "upnp"} : router'[p][q] + missed[p] + 1 >= Lease
      BY <2>1 DEF LeaseInv
    <3>1. ~Late(p) /\ Late(p)'
      BY <2>1 DEF Late
    <3>2. PICK q \in {"pmp", "upnp"} : router[p][q] + missed[p] >= Lease
      BY <3>1 DEF LeaseInv
    <3>3. router'[p][q] + missed[p] + 1 >= Lease
      BY <2>3, <2>4, <3>2 DEF MapTyped
    <3> QED
      BY <3>1, <3>3
  <2>6. ReturnInv'
    BY <2>1, <2>3 DEF ReturnInv, MapTyped
  <2> QED
    BY <2>4, <2>5, <2>6
<1>3. CASE Mapping!Renew
  BY <1>3 DEF Mapping!Renew, MapTyped, LeaseInv, ReturnInv, Late, Turn
<1>4. CASE Mapping!Shutdown \/ UNCHANGED Mapping!mapVars
  BY <1>4 DEF Mapping!Shutdown, Mapping!mapVars, MapTyped, LeaseInv, ReturnInv, Late
<1>5. CASE Mapping!SeeShutdown
  BY <1>5 DEF Mapping!SeeShutdown, MapTyped, LeaseInv, ReturnInv, Turn
<1>6. CASE Mapping!UnmapOne
  <2> DEFINE x == Mapping!Proto
  <2>1. /\ round = "unmap" /\ Mapping!Onwards("over") /\ UNCHANGED <<pmp, due, missed>>
        /\ Mapping!PmpUnmaps \/ Mapping!UpnpUnmaps \/ Mapping!NothingUnmaps
    BY <1>6 DEF Mapping!UnmapOne
  <2>2. \/ x = "tcp" /\ next = 1 /\ next' = 2 /\ round' = "unmap"
        \/ x = "udp" /\ next = 2 /\ next' = 1 /\ round' = "over"
    BY <2>1, Turns
  <2>3. /\ fails' \in Nat /\ (fails' = 0 => fails = 0)
        /\ \/ router' = router /\ fails' # 0
           \/ \E q \in {"pmp", "upnp"} :
                /\ router' = [router EXCEPT ![x] = [router[x] EXCEPT ![q] = 0]]
                /\ fails' = 0 => q = (IF pmp THEN "pmp" ELSE "upnp")
    BY <2>1, <2>2 DEF MapTyped, Mapping!PmpUnmaps, Mapping!UpnpUnmaps, Mapping!NothingUnmaps,
       Mapping!Works, Mapping!Fails
  <2> HIDE DEF x
  <2>4. CASE router' = router /\ fails' # 0
    BY <2>1, <2>2, <2>3, <2>4 DEF MapTyped, LeaseInv, ReturnInv
  <2>5. CASE \E q \in {"pmp", "upnp"} :
               /\ router' = [router EXCEPT ![x] = [router[x] EXCEPT ![q] = 0]]
               /\ fails' = 0 => q = (IF pmp THEN "pmp" ELSE "upnp")
    <3>1. PICK q \in {"pmp", "upnp"} :
            /\ router' = [router EXCEPT ![x] = [router[x] EXCEPT ![q] = 0]]
            /\ fails' = 0 => q = (IF pmp THEN "pmp" ELSE "upnp")
      BY <2>5
    <3>2. /\ router' \in [{"tcp", "udp"} -> [{"pmp", "upnp"} -> Nat]] /\ router'[x][q] = 0
          /\ \A r \in {"pmp", "upnp"} \ {q} : router'[x][r] = router[x][r]
          /\ \A p \in {"tcp", "udp"} \ {x} : router'[p] = router[p]
      BY <2>2, <3>1 DEF MapTyped
    <3>3. MapTyped' /\ LeaseInv'
      BY <2>1, <2>2, <2>3, <3>2 DEF MapTyped, LeaseInv
    <3>4. ReturnInv'
      BY <2>1, <2>2, <2>3, <3>1, <3>2 DEF ReturnInv, MapTyped, Turn
    <3> QED
      BY <3>3, <3>4
  <2> QED
    BY <2>3, <2>4, <2>5
<1> QED
  BY <1>1, <1>2, <1>3, <1>4, <1>5, <1>6 DEF Mapping!MapNext

LEMMA MapSafe == ASSUME MapInv, Lease > 2 PROVE Mapping!MappedAndReturned
<1>1. ASSUME round = "idle", NEW p \in {"tcp", "udp"}, missed[p] <= 1
      PROVE  router[p]["pmp"] > 0 \/ router[p]["upnp"] > 0
  BY <1>1 DEF MapInv, MapTyped, LeaseInv
<1>2. ASSUME round = "over", fails = 0, NEW p \in {"tcp", "udp"}, NEW q \in Mapping!Methods
      PROVE  router[p][q] = 0
  BY <1>2 DEF MapInv, ReturnInv, Mapping!Methods
<1>3. DOMAIN router = {"tcp", "udp"}
  BY DEF MapInv, MapTyped
<1> QED
  BY <1>1, <1>2, <1>3 DEF Mapping!MappedAndReturned

(* A mapping outlives a failed renewal, and is given back, when the lease  *)
(* is of three renewals or more (it is of three).                          *)
THEOREM LeaseKept ==
    ASSUME Lease \in Nat, Lease > 2 PROVE Mapping!MapSpec => []Mapping!MappedAndReturned
<1>1. MapInv => Mapping!MappedAndReturned
  BY MapSafe
<1> QED
  BY <1>1, MapStarts, MapKept, PTL DEF Mapping!MapSpec
=============================================================================
