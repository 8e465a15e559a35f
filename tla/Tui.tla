-------------------------------- MODULE Tui --------------------------------
(* The terminal interface, src/bin/xfer.rs: the main loop (keys, and a     *)
(* refresh of its snapshot after each and every 300 ms), its modal dialogs *)
(* over an engine other clients use too, and the render thread behind a    *)
(* slot that holds the latest frame.  The engine is what its interface     *)
(* shows of a task: a status.                                              *)
EXTENDS Naturals, FiniteSets

CONSTANTS
  N,        \* tasks are 1..N
  Keys,     \* keys that are pressed
  Tabs,     \* categories of the sidebar, of "All" "Downloading" "Complete"
  Rows,     \* bound: rows of the tracker list
  Rpc       \* TRUE: another client acts on the engine too

TuiAssumption == N \in Nat /\ Rows \in Nat /\ Rpc \in BOOLEAN /\ "All" \in Tabs

None == 0
Gid == 1..N

VARIABLES
  real,   \* task -> status in the engine
  urls,   \* number of global trackers
  tasks,  \* App.tasks: the snapshot
  ui,     \* the rest of App
  main,   \* "run", "quits", "told", "over"
  hub,    \* RenderHub: [slot, quit, done]
  draw    \* the render thread: "look", "sees" (holds the lock), "waits", "draws", "done"

tuiVars == <<real, urls, tasks, ui, main, hub, draw>>

Statuses == {"none", "waiting", "active", "paused", "asking", "seeding", "complete", "error"}
Unfinished(s) == s \in {"waiting", "active", "paused", "asking", "seeding"}

----------------------------------------------------------------------------
(* list_native("all"): active, then waiting and paused, then the rest.      *)
Rank(s) == CASE s \in {"active", "seeding"} -> 1 [] s \in {"waiting", "paused", "asking"} -> 2 [] OTHER -> 3
Before(a, b) == \/ Rank(a[2]) < Rank(b[2])
                \/ Rank(a[2]) = Rank(b[2]) /\ a[1] < b[1]
Snapshot(r) ==
  LET G == {g \in Gid : r[g] # "none"}
      Ahead(g) == {h \in G : Before(<<h, r[h]>>, <<g, r[g]>>)}
      nth(i) == CHOOSE g \in G : Cardinality(Ahead(g)) = i - 1
  IN [i \in 1 .. Cardinality(G) |-> <<nth(i), r[nth(i)]>>]

Status(ts, g) == IF \E i \in DOMAIN ts : ts[i][1] = g
                 THEN ts[CHOOSE i \in DOMAIN ts : ts[i][1] = g][2] ELSE "none"

(* Category::matches, filter_task_indices.                                  *)
Matches(c, s) == \/ c = "All"
                 \/ c = "Downloading" /\ s = "active"
                 \/ c = "Complete" /\ s = "complete"
Filtered(ts, c) == {i \in DOMAIN ts : Matches(c, ts[i][2])}
Current(u, ts) ==
  CASE u.view = "list" ->
         LET f == Filtered(ts, u.cat)
             nth == CHOOSE i \in f : Cardinality({j \in f : j < i}) = u.sel
         IN IF u.sel < Cardinality(f) THEN ts[nth][1] ELSE None
    [] u.view = "detail" -> u.shown
    [] OTHER -> None

Less(n) == IF n = 0 THEN 0 ELSE n - 1
More(n, len) == IF n + 1 < len THEN n + 1 ELSE Less(len)

(* The clamps of refresh_app.  Mutant: the tracker list is not clamped.     *)
Unclamped(n, len) == n
Clamped(n, len) == IF n < len THEN n ELSE Less(len)

(* refresh_app: the dialog of a magnet link that is parsed, the cursors,    *)
(* and the detail view of a task that is gone.                              *)
Parsing(u, ts) ==
  LET s == Status(ts, u.gid)
  IN IF u.add # "parsing" THEN u
     ELSE CASE s \in {"none", "error"} -> [u EXCEPT !.add = "no", !.gid = None]
            [] s = "asking" -> [u EXCEPT !.add = "selecting"]
            [] OTHER -> u

Refresh(u, ts, n) ==
  LET gone == u.view = "detail" /\ Status(ts, u.shown) = "none"
  IN [Parsing(u, ts) EXCEPT
        !.rows = n, !.row = Clamped(@, n), !.sel = Clamped(@, Cardinality(Filtered(ts, u.cat))),
        !.view = IF gone THEN "list" ELSE @, !.shown = IF gone THEN None ELSE @]

(* What a key did to the dialogs and to the engine, then refresh and        *)
(* publish: publish takes the lock of the slot.                             *)
Published == draw # "sees" /\ hub' = [hub EXCEPT !.slot = TRUE]
             /\ draw' = IF draw = "waits" THEN "look" ELSE draw
Becomes(u, r, n) ==
  /\ main = "run"
  /\ real' = r /\ urls' = n
  /\ tasks' = Snapshot(r)
  /\ ui' = Refresh(u, tasks', n)
  /\ Published
  /\ UNCHANGED main
Shows(u) == Becomes(u, real, urls)

----------------------------------------------------------------------------
(* The engine, as far as the interface asks it.                             *)
Removed(r, g) == [r EXCEPT ![g] = "none"]
Paused(r, g) == [r EXCEPT ![g] = IF @ \in {"waiting", "active", "seeding"} THEN "paused" ELSE @]
Unpaused(r, g) == [r EXCEPT ![g] = IF @ \in {"paused", "asking"} THEN "waiting" ELSE @]
Purged(r) == [g \in Gid |-> IF r[g] \in {"complete", "error"} THEN "none" ELSE r[g]]
Unused(r) == {g \in Gid : r[g] = "none"}

TuiInit ==
  \E r \in [Gid -> {"none", "waiting", "asking", "complete"}] :
    /\ real = r /\ urls = Rows
    /\ tasks = Snapshot(r)
    /\ LET asks == {g \in Gid : r[g] = "asking"}
           u == [view |-> "list", shown |-> None, sel |-> 0, cat |-> "All", side |-> FALSE,
                 area |-> 0, row |-> 0, rows |-> Rows, input |-> "no", aim |-> None, quit |-> FALSE,
                 remove |-> None, help |-> FALSE, add |-> "no", gid |-> None]
       IN ui = IF asks = {} THEN u
               ELSE [u EXCEPT !.add = "selecting", !.gid = CHOOSE g \in asks : \A h \in asks : h <= g]
    /\ main = "run"
    /\ hub = [slot |-> TRUE, quit |-> FALSE, done |-> FALSE]
    /\ draw = "look"

----------------------------------------------------------------------------
(* handle_add_task_key.  A magnet link is parsed first.                     *)
AddKey(k) ==
  /\ ui.add # "no"
  /\ \/ /\ ui.add = "input" /\ k = "enter"
        /\ \/ Shows(ui)  \* an empty address, or one the engine refuses
           \/ \E g \in Unused(real) :
                \/ Becomes([ui EXCEPT !.add = "parsing", !.gid = g], [real EXCEPT ![g] = "active"], urls)
                \/ Becomes([ui EXCEPT !.add = "no"], [real EXCEPT ![g] = "waiting"], urls)
     \/ ui.add = "input" /\ k = "esc" /\ Shows([ui EXCEPT !.add = "no"])
     \/ /\ ui.add \in {"parsing", "selecting"} /\ k \in {"esc", "q"}
        /\ Becomes([ui EXCEPT !.add = "no", !.gid = None], Removed(real, ui.gid), urls)
     \/ /\ ui.add = "selecting" /\ k = "enter"
        /\ \/ Shows(ui)  \* nothing is checked, or select_files fails
           \/ Unfinished(real[ui.gid]) /\
                Becomes([ui EXCEPT !.add = "no", !.gid = None], Unpaused(real, ui.gid), urls)
     \/ /\ ~(k = "enter" /\ ui.add # "parsing") /\ k # "esc" /\ ~(k = "q" /\ ui.add # "input")
        /\ Shows(ui)

HelpKey(k) ==
  /\ ui.add = "no" /\ ui.help
  /\ Shows([ui EXCEPT !.help = k \notin {"?", "esc", "q", "enter"}])

(* The input line: a tracker or a mirror for a task, or a setting.          *)
(* submit_add_uri pauses a task that the snapshot shows active, changes its *)
(* addresses, and resumes it.                                               *)
InputKey(k) ==
  /\ ui.add = "no" /\ ~ui.help /\ ui.input # "no"
  /\ LET v == [ui EXCEPT !.input = "no", !.aim = None]
     IN CASE k = "enter" /\ ui.input = "mirror" ->
               Becomes(v, IF Status(tasks, ui.aim) = "active" THEN Unpaused(Paused(real, ui.aim), ui.aim) ELSE real, urls)
          [] k = "enter" /\ ui.input = "tracker" -> Becomes(v, real, IF urls < Rows THEN urls + 1 ELSE urls)
          [] k = "esc" -> Shows(v)
          [] OTHER -> Shows(ui)

NoPopup == ui.add = "no" /\ ~ui.help /\ ui.input = "no"

QuitKey(k) ==
  /\ NoPopup /\ ui.quit
  /\ IF k \in {"y", "q", "enter"}
     THEN main = "run" /\ main' = "quits" /\ UNCHANGED <<real, urls, tasks, ui, hub, draw>>
     ELSE Shows([ui EXCEPT !.quit = FALSE])

(* The task is the one the popup was opened for, wherever the cursor is.    *)
RemoveKey(k) ==
  /\ NoPopup /\ ~ui.quit /\ ui.remove # None
  /\ CASE k \in {"up", "down", "tab", "d"} -> Shows(ui)
       [] k \in {"y", "enter"} ->
            Becomes([ui EXCEPT !.remove = None,
                               !.view = IF @ = "detail" /\ ui.shown = ui.remove THEN "list" ELSE @],
                    Removed(real, ui.remove), urls)
       [] OTHER -> Shows([ui EXCEPT !.remove = None])

NoModal == NoPopup /\ ~ui.quit /\ ui.remove = None

(* app_action "toggle" goes by the status in the snapshot.                  *)
Toggled(g) ==
  CASE g = None -> real
    [] Status(tasks, g) \in {"active", "waiting", "seeding"} -> Paused(real, g)
    [] Status(tasks, g) \in {"paused", "asking"} -> Unpaused(real, g)
    [] OTHER -> real

Step(c) == CHOOSE d \in Tabs : d # c \/ Tabs = {c}

ListKey(k) ==
  /\ NoModal /\ ui.view = "list"
  /\ LET g == Current(ui, tasks)
     IN CASE k = "q" -> Shows([ui EXCEPT !.quit = TRUE])
          [] k = "esc" -> Shows(IF ui.side THEN [ui EXCEPT !.side = FALSE] ELSE [ui EXCEPT !.quit = TRUE])
          [] k = "tab" -> Shows([ui EXCEPT !.side = ~@])
          [] k \in {"up", "down"} /\ ui.side -> Shows([ui EXCEPT !.cat = Step(@)])
          [] k = "up" /\ ~ui.side -> Shows([ui EXCEPT !.sel = Less(@)])
          [] k = "down" /\ ~ui.side -> Shows([ui EXCEPT !.sel = More(@, Cardinality(Filtered(tasks, ui.cat)))])
          [] k = "enter" /\ ui.side -> Shows([ui EXCEPT !.side = FALSE])
          [] k = "enter" /\ ~ui.side /\ g # None -> Shows([ui EXCEPT !.view = "detail", !.shown = g])
          [] k = "a" -> Shows([ui EXCEPT !.add = "input"])
          [] k = "s" -> Shows([ui EXCEPT !.view = "settings"])
          [] k = "r" -> Becomes(ui, Toggled(g), urls)
          [] k = "x" -> Shows([ui EXCEPT !.remove = g])
          [] k = "c" -> Becomes(ui, Purged(real), urls)
          [] k = "?" -> Shows([ui EXCEPT !.help = TRUE])
          [] OTHER -> Shows(ui)

DetailKey(k) ==
  /\ NoModal /\ ui.view = "detail"
  /\ CASE k = "q" -> Shows([ui EXCEPT !.quit = TRUE])
       [] k \in {"esc", "enter"} -> Shows([ui EXCEPT !.view = "list", !.shown = None])
       [] k = "u" -> Shows([ui EXCEPT !.input = "mirror", !.aim = ui.shown])
       [] k = "r" -> Becomes(ui, Toggled(ui.shown), urls)
       [] k = "x" -> Shows([ui EXCEPT !.remove = ui.shown])
       [] k = "?" -> Shows([ui EXCEPT !.help = TRUE])
       [] OTHER -> Shows(ui)

SettingsKey(k) ==
  /\ NoModal /\ ui.view = "settings"
  /\ CASE k = "q" -> Shows([ui EXCEPT !.quit = TRUE])
       [] k = "esc" -> Shows([ui EXCEPT !.view = "list"])
       [] k = "tab" -> Shows([ui EXCEPT !.area = 1 - @])
       [] k = "up" /\ ui.area = 1 -> Shows([ui EXCEPT !.row = Less(@)])
       [] k = "down" /\ ui.area = 1 -> Shows([ui EXCEPT !.row = More(@, ui.rows)])
       [] k = "a" /\ ui.area = 1 -> Shows([ui EXCEPT !.input = "tracker"])
       [] k = "d" /\ ui.area = 1 -> Becomes(ui, real, IF ui.row < ui.rows THEN Less(urls) ELSE urls)
       [] k = "?" -> Shows([ui EXCEPT !.help = TRUE])
       [] OTHER -> Shows(ui)

HandleKey ==
  \E k \in Keys :
    AddKey(k) \/ HelpKey(k) \/ InputKey(k) \/ QuitKey(k) \/ RemoveKey(k)
    \/ ListKey(k) \/ DetailKey(k) \/ SettingsKey(k)

Tick == main = "run" /\ Shows(ui)

----------------------------------------------------------------------------
(* The engine goes on between two refreshes, and other clients act on it.   *)
EngineStep ==
  /\ main = "run"
  /\ \E g \in Gid :
       LET s == real[g]
       IN \E t \in {t \in Statuses :
                      \/ s = "waiting" /\ t = "active"
                      \/ s = "active" /\ t \in {"complete", "error", "seeding"}
                      \/ s = "active" /\ t = "asking" /\ ui.add = "parsing" /\ ui.gid = g
                      \/ Rpc /\ s \in {"active", "waiting"} /\ t = "paused"
                      \/ Rpc /\ s \in {"paused", "asking"} /\ t = "waiting"
                      \/ Rpc /\ s # "none" /\ t = "none"} :
            real' = [real EXCEPT ![g] = t]
  /\ UNCHANGED <<urls, tasks, ui, main, hub, draw>>

(* A subscription is refreshed in the background.                           *)
ListChanges ==
  /\ main = "run" /\ Rpc
  /\ urls' \in 0..Rows
  /\ UNCHANGED <<real, tasks, ui, main, hub, draw>>

----------------------------------------------------------------------------
(* app_loop ends: the flag is set without the lock of the slot.             *)
SetQuit ==
  /\ main = "quits"
  /\ hub' = [hub EXCEPT !.quit = TRUE]
  /\ main' = "told"
  /\ UNCHANGED <<real, urls, tasks, ui, draw>>

NotifyQuit ==
  /\ main = "told"
  /\ main' = "saves"
  /\ draw' = IF draw = "waits" THEN "look" ELSE draw
  /\ UNCHANGED <<real, urls, tasks, ui, hub>>

(* Two seconds are enough for a render thread that has something to do.     *)
Exit ==
  /\ main = "saves" /\ (hub.done \/ draw = "waits")
  /\ main' = "over"
  /\ UNCHANGED <<real, urls, tasks, ui, hub, draw>>

Alive == main # "over"

(* render_loop, under the lock: the flag, then the slot.                    *)
Look ==
  /\ Alive /\ draw = "look"
  /\ CASE hub.quit -> draw' = "done" /\ hub' = [hub EXCEPT !.done = TRUE]
       [] ~hub.quit /\ hub.slot -> draw' = "draws" /\ hub' = [hub EXCEPT !.slot = FALSE]
       [] OTHER -> draw' = "sees" /\ UNCHANGED hub
  /\ UNCHANGED <<real, urls, tasks, ui, main>>

(* Condvar::wait gives the lock back.                                       *)
Wait ==
  /\ Alive /\ draw = "sees"
  /\ draw' = "waits"
  /\ UNCHANGED <<real, urls, tasks, ui, main, hub>>

Drawn ==
  /\ Alive /\ draw = "draws"
  /\ draw' = "look"
  /\ UNCHANGED <<real, urls, tasks, ui, main, hub>>

TuiNext ==
  \/ HandleKey \/ Tick \/ EngineStep \/ ListChanges
  \/ SetQuit \/ NotifyQuit \/ Exit
  \/ Look \/ Wait \/ Drawn

TuiSpec == TuiInit /\ [][TuiNext]_tuiVars

(* Threads run; the terminal takes what is written to it.                   *)
TuiFairness ==
  /\ WF_tuiVars(SetQuit) /\ WF_tuiVars(NotifyQuit) /\ WF_tuiVars(Exit)
  /\ WF_tuiVars(Look) /\ WF_tuiVars(Wait) /\ WF_tuiVars(Drawn)

TuiFairSpec == TuiSpec /\ TuiFairness

----------------------------------------------------------------------------
(* What takes the keys: a dialog before help, the input line and the popups. *)
OneDialog(u) ==
  /\ u.add # "no" => ~u.help /\ u.input = "no" /\ ~u.quit /\ u.remove = None
  /\ u.help => u.input = "no" /\ ~u.quit /\ u.remove = None
  /\ u.input # "no" => ~u.quit /\ u.remove = None
  /\ u.quit => u.remove = None

(* At most one dialog takes the keys; the cursors point into the lists as   *)
(* they were last read, whoever changed them; the task of the detail view   *)
(* is in the snapshot; a dialog that waits for a task knows which.          *)
ScreenSound ==
  /\ OneDialog(ui)
  /\ ui.sel = 0 \/ ui.sel < Cardinality(Filtered(tasks, ui.cat))
  /\ ui.row = 0 \/ ui.row < ui.rows
  /\ ui.view = "detail" => Status(tasks, ui.shown) # "none"
  /\ ui.add \in {"parsing", "selecting"} => ui.gid # None

(* "退出：通知渲染线程恢复终端并保存会话": the render thread restores the      *)
(* terminal before the program is over.                                     *)
RestoredOnQuit == (main = "quits") ~> hub.done

(* Adding a mirror does not resume a task that was paused ("先暂停、改完再    *)
(* 恢复" is meant for one that is active).                                  *)
MirrorKeepsPause ==
  [][ui.input = "mirror" /\ ui'.input = "no" =>
       ~(real[ui.aim] = "paused" /\ real'[ui.aim] = "waiting")]_tuiVars
=============================================================================
