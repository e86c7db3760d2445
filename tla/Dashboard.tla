----------------------------- MODULE Dashboard -----------------------------
(***************************************************************************)
(* The dashboard: its keys and their queue, prompts and confirmations, the *)
(* refreshes of its snapshot, the operations it runs and their undo, its   *)
(* orderly and forced exits (src/src/tui/index.ts), the loop that opens it *)
(* again after a codex session and the calls it makes                      *)
(* (src/src/commands/{tui,tui-share,share-bundle,tui-snapshot}.ts), and    *)
(* the watcher of auth.json that announces switches made by others         *)
(* (src/src/commands/tui-runtime.ts).                                      *)
(*                                                                         *)
(* The rest of the monitors is WatchLease; what a switch does to the files *)
(* is AccountStore and ProxyMode.  Quota, layout, messages, the cursor in  *)
(* a text and the quota that orders the rows are left out: a text is empty *)
(* or not, and a snapshot lists the accounts in any order.  A filter       *)
(* matches the accounts in Matching.  A bundle imports one account.        *)
(***************************************************************************)
EXTENDS Naturals, Sequences, FiniteSets, SequencesExt

CONSTANTS Accounts,  \* the managed accounts at the start
          Imported,  \* the name under which a bundle is imported
          Proxy,     \* the proxy's row, always the first
          Matching,  \* the accounts that a filter matches
          None,      \* no account
          Loads      \* workloads: the keys that may be pressed first, second and
                     \* so on, bounds on switches by others, failures, signals and
                     \* openings, whether the proxy is on at first, whether the
                     \* refresh timer and the watcher run and the rows change places

Keys == {"up", "down", "home", "end", "enter", "f", "o", "O", "d", "D", "r", "a", "e", "i",
         "x", "u", "p", "/", "q", "ctrlC", "esc", "y", "n", "back"}

ASSUME DashboardAssumption ==
  /\ IsFiniteSet(Accounts)
  /\ Cardinality({Imported, Proxy, None}) = 3 /\ Accounts \cap {Imported, Proxy, None} = {}
  /\ Matching \subseteq Accounts \cup {Imported, Proxy}
  /\ \A l \in Loads : Range(l.keys) \subseteq SUBSET Keys /\ l.on \in BOOLEAN

VARIABLES disk,      \* what the store holds: accounts, the direct one that is current,
                     \* whether the proxy is on, backups of deleted accounts
          snap,      \* the snapshot shown: its rows, and which one is current
          selected, query, mode,
          queue,     \* actionQueue: keys and updates that wait for their turn
          task,      \* the handler that runs, up to its await
          undo,      \* undoAction
          refresh,   \* the refresh that runs or is queued
          phase,     \* "opening", "started" monitors, "run", "closing", "closed"
          exit,      \* the action it ended with, or "none"
          ref,       \* currentManagedAccountRef
          watch,     \* the watcher: its debounce timer, and the syncs that read a label
          feed,      \* updates emitted before the dashboard subscribed
          load, used,
          agreed,    \* history: the account that the user agreed to delete
          lost,      \* history: backups of undos that failed or outlived the dashboard
          crossed    \* history: an older label may have replaced a newer one

screen == <<snap, selected, query, mode>>
monitor == <<ref, watch, feed, crossed>>
world == <<load, used>>
dashVars == <<disk, screen, queue, task, undo, refresh, phase, exit, monitor, world, agreed, lost>>

Names == Accounts \cup {Imported, Proxy}
Browse == [is |-> "browse", name |-> None, full |-> FALSE, force |-> FALSE, after |-> "stay"]
Typing == {"filter", "export", "importPath", "importName"}
Confirming == {"delete", "relaunch", "stale"}
NoTask == [op |-> "none", name |-> None, force |-> FALSE, after |-> "stay",
           active |-> FALSE, aborted |-> FALSE, done |-> FALSE, gives |-> None]
NoUndo == [does |-> "none", name |-> None]
NoRefresh == [queued |-> FALSE, next |-> None, at |-> "none", prefers |-> None,
              rows |-> <<>>, current |-> None]
NoWatch == [fired |-> FALSE, syncs |-> <<>>, recent |-> None]

Key(k) == [key |-> k, name |-> None]
Update(name) == [key |-> "update", name |-> name]
Shown == phase = "run"

-----------------------------------------------------------------------------
(* The store and the snapshot *)

\* resolveCurrentManagedAccountLabel
Label == IF disk.on THEN Proxy ELSE disk.direct

\* What listAccounts and the ranking may show: the proxy, then the accounts.
Listings ==
  LET orders == SetToSeqs(disk.accounts)
  IN {<<Proxy>> \o order : order \in IF load.reorder THEN orders ELSE {CHOOSE o \in orders : TRUE}}

\* The rows that match, in their order: the j-th is the one with j matching rows up
\* to it.
Kept(rows) == {i \in DOMAIN rows : rows[i] \in Matching}
Upto(rows, i) == {h \in Kept(rows) : h <= i}
Matches(rows) == [j \in 1..Cardinality(Kept(rows)) |->
                    rows[CHOOSE i \in Kept(rows) : Cardinality(Upto(rows, i)) = j]]

\* getFilteredAccounts
Filtered(rows) == IF query = "" THEN rows ELSE Matches(rows)
Rows == Filtered(snap.rows)
Row == IF selected \in DOMAIN Rows THEN Rows[selected] ELSE None
Place(rows, name) == IF Contains(rows, name) THEN CHOOSE i \in DOMAIN rows : rows[i] = name ELSE 1

\* Mutant of Preferred: what is selected stays selected.
PreferredBlind(rows, current, name) == IF name # None THEN Place(rows, name) ELSE selected
\* resolvePreferredSelection
Preferred(rows, current, name) ==
  IF rows = <<>> THEN 1
  ELSE IF name # None THEN Place(rows, name)
  ELSE IF selected \in DOMAIN rows THEN selected
  ELSE Place(rows, current)

-----------------------------------------------------------------------------
(* Refreshes *)

\* The loop of requestRefresh begins another load.
Start(r) == [r EXCEPT !.queued = FALSE, !.prefers = r.next, !.next = None, !.at = "begun"]

\* requestRefresh
Request(r, name, active) ==
  LET q == [r EXCEPT !.queued = TRUE, !.next = IF name # None THEN name ELSE @]
  IN IF active \/ r.at # "none" THEN q ELSE Start(q)

\* Mutant of Resume: the refresh asked for during the operation is left queued.
ResumeNot(r) == r
\* What runSwitchAction's finally does about a refresh that was put off.
Resume(r) == IF r.queued /\ r.at = "none" THEN Request(r, None, FALSE) ELSE r

LoadLists ==
  /\ refresh.at = "begun"
  /\ \E rows \in Listings : refresh' = [refresh EXCEPT !.at = "listed", !.rows = rows]
  /\ UNCHANGED <<disk, screen, queue, task, undo, phase, exit, monitor, world, agreed, lost>>

LoadReadsCurrent ==
  /\ refresh.at = "listed"
  /\ refresh' = [refresh EXCEPT !.at = "read", !.current = Label]
  /\ UNCHANGED <<disk, screen, queue, task, undo, phase, exit, monitor, world, agreed, lost>>

\* What the loop does when a load has ended.
Loop(r) ==
  LET ended == [NoRefresh EXCEPT !.queued = r.queued, !.next = r.next]
  IN IF ended.queued /\ Shown THEN Start(ended) ELSE ended

\* Mutant of LoadReturns: a load that outlives the dashboard is never over.
LoadReturnsShown ==
  /\ refresh.at = "read" /\ Shown
  /\ refresh' = Loop(refresh)
  /\ snap' = [rows |-> refresh.rows, current |-> refresh.current]
  /\ selected' = Preferred(Filtered(refresh.rows), refresh.current, refresh.prefers)
  /\ UNCHANGED <<disk, query, mode, queue, task, undo, phase, exit, monitor, world, agreed, lost>>
LoadReturns ==
  /\ refresh.at = "read"
  /\ refresh' = Loop(refresh)
  /\ IF Shown THEN /\ snap' = [rows |-> refresh.rows, current |-> refresh.current]
                   /\ selected' = Preferred(Filtered(refresh.rows), refresh.current, refresh.prefers)
              ELSE UNCHANGED <<snap, selected>>
  /\ UNCHANGED <<disk, query, mode, queue, task, undo, phase, exit, monitor, world, agreed, lost>>

LoadFails ==
  /\ refresh.at = "begun"
  /\ used.fails < load.fails /\ used' = [used EXCEPT !.fails = @ + 1]
  /\ refresh' = Loop(refresh)
  /\ UNCHANGED <<disk, screen, queue, task, undo, phase, exit, monitor, load, agreed, lost>>

\* Mutant of Tick: the timer waits while a prompt is open.
TickBrowsing ==
  /\ load.timer /\ Shown /\ ~task.active /\ mode = Browse
  /\ refresh' = Request(refresh, None, FALSE)
  /\ refresh' # refresh
  /\ UNCHANGED <<disk, screen, queue, task, undo, phase, exit, monitor, world, agreed, lost>>
\* The refresh timer.
Tick ==
  /\ load.timer /\ Shown /\ ~task.active
  /\ refresh' = Request(refresh, None, FALSE)
  /\ refresh' # refresh
  /\ UNCHANGED <<disk, screen, queue, task, undo, phase, exit, monitor, world, agreed, lost>>

-----------------------------------------------------------------------------
(* Ending *)

\* The backup that an undo would restore.
Backup(u) == IF u.does = "restore" THEN {u.name} ELSE {}

\* What cleanup discards.
Discards == [disk EXCEPT !.backups = @ \ Backup(undo)]

\* finish and cleanup
End(action) ==
  /\ exit' = action
  /\ phase' = "closing"
  /\ queue' = <<>>
  /\ undo' = NoUndo
  /\ disk' = Discards

\* handleProcessSignal; what runs is not waited for (settlePendingWork)
Signal ==
  /\ Shown /\ used.signals < load.signals
  /\ used' = [used EXCEPT !.signals = @ + 1]
  /\ task' = [task EXCEPT !.aborted = task.active]
  /\ End("signal")
  /\ UNCHANGED <<screen, refresh, monitor, load, agreed, lost>>

\* Mutant of Settled: the exit does not wait for the load.
SettledNot == exit = "signal" \/ task.op = "none"
\* settlePendingWork
Settled == exit = "signal" \/ (task.op = "none" /\ refresh.at = "none")

\* runAccountDashboardTui returns, and the monitors stop.
Return ==
  /\ phase = "closing" /\ Settled
  /\ phase' = "closed"
  /\ watch' = NoWatch
  /\ feed' = <<>>
  /\ UNCHANGED <<disk, screen, queue, task, undo, refresh, exit, ref, crossed, world, agreed, lost>>

\* After a codex session the loop of handleTuiCommand opens the dashboard again,
\* with what buildCachedAccountDashboardSnapshot reads.
Reopen ==
  /\ phase = "closed" /\ exit \in {"open", "isolated"}
  /\ used.again < load.again
  /\ used' = [used EXCEPT !.again = @ + 1]
  /\ \E rows \in Listings : snap' = [rows |-> rows, current |-> Label]
  /\ selected' = 1 /\ query' = "" /\ mode' = Browse
  /\ phase' = "opening" /\ exit' = "none"
  /\ refresh' = NoRefresh
  /\ UNCHANGED <<disk, queue, task, undo, monitor, load, agreed, lost>>

\* It resolves the current account, then starts the monitors.
StartMonitors ==
  /\ phase = "opening"
  /\ phase' = "started"
  /\ ref' = Label
  /\ UNCHANGED <<disk, screen, queue, task, undo, refresh, exit, watch, feed, crossed, world,
                 agreed, lost>>

\* runAccountDashboardTui begins: it subscribes to the feed and asks for a refresh.
Subscribe ==
  /\ phase = "started"
  /\ phase' = "run"
  /\ queue' = feed /\ feed' = <<>>
  /\ refresh' = Start(refresh)
  /\ UNCHANGED <<disk, screen, task, undo, exit, ref, watch, crossed, world, agreed, lost>>

-----------------------------------------------------------------------------
(* The watcher of auth.json *)

\* Another process switches; fs.watch reports it while the watcher runs.
Wake(w) == IF load.watches /\ phase \in {"started", "run", "closing"} THEN [w EXCEPT !.fired = TRUE] ELSE w

SwitchedByOther ==
  /\ used.others < load.others
  /\ used' = [used EXCEPT !.others = @ + 1]
  /\ \E name \in (disk.accounts \cup {Proxy}) \ {Label} :
       disk' = IF name = Proxy THEN [disk EXCEPT !.on = TRUE]
                               ELSE [disk EXCEPT !.on = FALSE, !.direct = name]
  /\ watch' = Wake(watch)
  /\ UNCHANGED <<screen, queue, task, undo, refresh, phase, exit, ref, feed, crossed, load,
                 agreed, lost>>

\* The debounce timer is due: syncCurrentManagedAccount reads the label.
SyncReads ==
  /\ watch.fired /\ Len(watch.syncs) < 2
  /\ watch' = [watch EXCEPT !.fired = FALSE, !.syncs = Append(@, Label)]
  /\ UNCHANGED <<disk, screen, queue, task, undo, refresh, phase, exit, ref, feed, crossed, world,
                 agreed, lost>>

\* The feed keeps updates until somebody subscribes; nobody does after the end.
Emit(u) ==
  /\ queue' = IF Shown THEN Append(queue, u) ELSE queue
  /\ feed' = IF phase = "started" THEN Append(feed, u) ELSE feed

\* shouldSuppressSwitchNotice: within 1.5 s of the same notice.
Suppressed(next) == task.op = "switch" \/ next = ref

\* Mutant of SyncEnds: during the dashboard's own switch it does nothing at all.
SyncEndsIdle(i) ==
  /\ LET next == watch.syncs[i]
     IN /\ crossed' = (crossed \/ i # 1)
        /\ IF Suppressed(next)
             THEN watch' = [watch EXCEPT !.syncs = RemoveAt(@, i)] /\ UNCHANGED <<ref, queue, feed>>
             ELSE /\ ref' = next
                  /\ watch' = [watch EXCEPT !.syncs = RemoveAt(@, i), !.recent = next]
                  /\ Emit(Update(next))
  /\ UNCHANGED <<disk, screen, task, undo, refresh, phase, exit, world, agreed, lost>>
\* syncCurrentManagedAccount goes on: it announces the switch, unless it is the
\* dashboard's own or was announced less than 1.5 s ago.
SyncEnds(i) ==
  /\ LET next == watch.syncs[i]
         rest == [watch EXCEPT !.syncs = RemoveAt(@, i)]
     IN /\ ref' = next
        /\ crossed' = (crossed \/ i # 1)
        /\ \/ /\ Suppressed(next) \/ next = watch.recent
              /\ watch' = rest
              /\ UNCHANGED <<queue, feed>>
           \/ /\ ~Suppressed(next)
              /\ watch' = [rest EXCEPT !.recent = next]
              /\ Emit(Update(next))
  /\ UNCHANGED <<disk, screen, task, undo, refresh, phase, exit, world, agreed, lost>>

-----------------------------------------------------------------------------
(* Keys *)

Moves == {"up", "down", "home", "end"}
Text == Keys \ (Moves \cup {"enter", "ctrlC", "esc", "back"})

\* Mutant of Moved: the selection is not kept within the rows.
MovedUnclamped(k) ==
  CASE k = "home" -> 1 [] k = "end" -> Len(Rows)
    [] k = "up" -> selected - 1 [] k = "down" -> selected + 1 [] OTHER -> selected
\* moveSelection, and the keys that go to the first and the last row
Moved(k) ==
  IF Rows = <<>> THEN selected
  ELSE CASE k = "home" -> 1
         [] k = "end"  -> Len(Rows)
         [] k = "up"   -> IF selected > 1 THEN selected - 1 ELSE 1
         [] k = "down" -> IF selected < Len(Rows) THEN selected + 1 ELSE Len(Rows)
         [] OTHER      -> selected

\* onData: while an operation is active it takes every key at once
\* (handleActiveOperationKeypress); browsing moves at once; other keys queue up.
Press(k) ==
  /\ Shown /\ used.presses < Len(load.keys) /\ k \in load.keys[used.presses + 1]
  /\ used' = [used EXCEPT !.presses = @ + 1]
  /\ IF mode.is = "browse" /\ (task.active \/ k \in Moves)
       THEN /\ selected' = Moved(k)
            /\ task' = [task EXCEPT !.aborted = @ \/ (task.active /\ k \in {"esc", "ctrlC"})]
            /\ UNCHANGED queue
       ELSE queue' = Append(queue, Key(k)) /\ UNCHANGED <<selected, task>>
  /\ UNCHANGED <<disk, snap, query, mode, undo, refresh, phase, exit, monitor, load, agreed, lost>>

\* The first of the queue gets its turn when the handler before it has ended.
Turn(k, modes) ==
  /\ Shown /\ task.op = "none"
  /\ queue # <<>> /\ Head(queue).key = k
  /\ mode.is \in modes

\* A handler that awaits nothing and only changes the screen.
Look(m, at, q) ==
  /\ mode' = m /\ selected' = at /\ query' = q
  /\ queue' = Tail(queue)
  /\ UNCHANGED <<disk, snap, task, undo, refresh, phase, exit, monitor, world, agreed, lost>>

\* A handler that awaits an operation.
Run(t, m) ==
  /\ task' = t /\ mode' = m
  /\ queue' = Tail(queue)
  /\ UNCHANGED <<disk, snap, selected, query, undo, refresh, phase, exit, monitor, world, agreed, lost>>

Finish(action) ==
  /\ End(action)
  /\ UNCHANGED <<screen, task, refresh, monitor, world, agreed, lost>>

\* applyExternalUpdate
ApplyUpdate ==
  /\ Turn("update", {"browse"} \cup Typing \cup Confirming)
  /\ refresh' = Request(refresh, Head(queue).name, FALSE)
  /\ queue' = Tail(queue)
  /\ UNCHANGED <<disk, screen, task, undo, phase, exit, monitor, world, agreed, lost>>

\* handleFilterKeypress
FilterKey(k) ==
  /\ Turn(k, {"filter"})
  /\ \/ k \in {"esc", "enter"} /\ Look(Browse, selected, query)
     \/ k \in Moves \cup {"ctrlC", "back"} /\ Look(mode, selected, query)
     \/ k = "back" /\ query # "" /\ \E q \in {"", "text"} : Look(mode, 1, q)
     \/ k \in Text /\ Look(mode, 1, "text")

\* handlePromptKeypress
PromptKey(k) ==
  /\ Turn(k, {"export", "importPath", "importName"})
  /\ \/ /\ k = "esc"
        /\ Look(IF mode.is = "importName" THEN [Browse EXCEPT !.is = "importPath", !.full = TRUE]
                                          ELSE Browse, selected, query)
     \/ k \in Moves \cup {"ctrlC", "back"} /\ Look(mode, selected, query)
     \/ k = "back" /\ Look([mode EXCEPT !.full = FALSE], selected, query)
     \/ k \in Text /\ Look([mode EXCEPT !.full = TRUE], selected, query)
     \/ k = "enter" /\ ~mode.full /\ Look(mode, selected, query)
     \/ /\ k = "enter" /\ mode.full
        /\ CASE mode.is = "export"     -> Run([NoTask EXCEPT !.op = "export", !.name = mode.name], Browse)
             [] mode.is = "importPath" -> Run([NoTask EXCEPT !.op = "preview"], mode)
             [] mode.is = "importName" -> Run([NoTask EXCEPT !.op = "import", !.name = Imported], Browse)

\* runSwitchAction up to its first await, on the row name.
SwitchRow(name, force, after) ==
  LET shownCurrent == snap.current = name
      reloads == shownCurrent /\ force /\ after = "stay"
      toggles == name = Proxy /\ after = "stay"
  IN IF name # None /\ (~shownCurrent \/ reloads \/ toggles)
       THEN [NoTask EXCEPT !.op = "switch", !.name = name, !.force = force, !.after = after,
                           !.active = TRUE]
       ELSE IF name # None /\ after \in {"desktop", "desktopForce"}
         THEN [NoTask EXCEPT !.op = "desktop", !.name = name, !.after = after]
         ELSE NoTask

\* It ends the dashboard at once when the current account is to be opened.
Opens(name, after) ==
  name # None /\ snap.current = name /\ after \in {"open", "isolated"}

SwitchKey(k, force, after) ==
  /\ Turn(k, {"browse"})
  /\ IF Opens(Row, after) THEN Finish(after) ELSE Run(SwitchRow(Row, force, after), mode)

\* The answer that a confirmation waits for is no, or the user quits.
Decline(k) ==
  /\ Turn(k, Confirming)
  /\ \/ k \in {"esc", "n", "enter"} /\ Look(Browse, selected, query)
     \/ k \notin {"esc", "n", "enter", "q", "ctrlC", "y"} /\ Look(mode, selected, query)

\* Mutant of ConfirmDelete: it deletes the selected account.
ConfirmDeleteSelected ==
  /\ Turn("y", {"delete"})
  /\ agreed' = mode.name
  /\ task' = [NoTask EXCEPT !.op = "delete", !.name = Row]
  /\ mode' = Browse /\ queue' = Tail(queue)
  /\ UNCHANGED <<disk, snap, selected, query, undo, refresh, phase, exit, monitor, world, lost>>
ConfirmDelete ==
  /\ Turn("y", {"delete"})
  /\ agreed' = mode.name
  /\ task' = [NoTask EXCEPT !.op = "delete", !.name = mode.name]
  /\ mode' = Browse /\ queue' = Tail(queue)
  /\ UNCHANGED <<disk, snap, selected, query, undo, refresh, phase, exit, monitor, world, lost>>

ConfirmCleanup ==
  /\ Turn("y", {"stale"})
  /\ Run([NoTask EXCEPT !.op = "cleanup", !.force = mode.force, !.after = mode.after], Browse)

\* The account named is selected if it is still listed; the selected one is used.
ConfirmRelaunch ==
  /\ Turn("y", {"relaunch"})
  /\ selected' = IF Contains(Rows, mode.name) THEN Place(Rows, mode.name) ELSE selected
  /\ mode' = Browse
  /\ task' = SwitchRow(IF selected' \in DOMAIN Rows THEN Rows[selected'] ELSE None, FALSE, "desktopForce")
  /\ queue' = Tail(queue)
  /\ UNCHANGED <<disk, snap, query, undo, refresh, phase, exit, monitor, world, agreed, lost>>

Quit(k) ==
  /\ k \in {"q", "ctrlC"}
  /\ Turn(k, {"browse"} \cup Confirming)
  /\ Finish("quit")

\* handleBrowseKeypress, for the keys that only change the screen: prompts and
\* confirmations begin here; the proxy is neither exported nor deleted.
LookKey(k) ==
  /\ Turn(k, {"browse"})
  /\ \/ k \in Moves \cup {"esc", "y", "n", "back"} /\ Look(mode, Moved(k), query)
     \/ k = "/" /\ Look([Browse EXCEPT !.is = "filter"], selected, query)
     \/ k = "i" /\ Look([Browse EXCEPT !.is = "importPath"], selected, query)
     \/ k = "e" /\ Look(IF Row \in {None, Proxy} THEN mode
                        ELSE [Browse EXCEPT !.is = "export", !.name = Row, !.full = TRUE], selected, query)
     \/ k = "x" /\ Look(IF Row \in {None, Proxy} THEN mode
                        ELSE [Browse EXCEPT !.is = "delete", !.name = Row], selected, query)
     \/ k = "D" /\ Look(IF Row = None THEN mode
                        ELSE [Browse EXCEPT !.is = "relaunch", !.name = Row], selected, query)

RefreshKey ==
  /\ Turn("r", {"browse"})
  /\ refresh' = Request(refresh, None, FALSE)
  /\ queue' = Tail(queue)
  /\ UNCHANGED <<disk, screen, task, undo, phase, exit, monitor, world, agreed, lost>>

\* Autoswitch and protection are toggled; the proxy is not protected.
ToggleKey(k) ==
  /\ Turn(k, {"browse"})
  /\ \/ k = "a" /\ Run([NoTask EXCEPT !.op = "auto"], mode)
     \/ k = "p" /\ Run(IF Row \in {None, Proxy} THEN NoTask
                       ELSE [NoTask EXCEPT !.op = "protect", !.name = Row], mode)

UndoKey ==
  /\ Turn("u", {"browse"})
  /\ task' = IF undo = NoUndo THEN NoTask ELSE [NoTask EXCEPT !.op = undo.does, !.name = undo.name]
  /\ undo' = NoUndo
  /\ queue' = Tail(queue)
  /\ UNCHANGED <<disk, screen, refresh, phase, exit, monitor, world, agreed, lost>>

SwitchKeys ==
  \/ SwitchKey("enter", FALSE, "stay") \/ SwitchKey("f", TRUE, "stay")
  \/ SwitchKey("o", FALSE, "open") \/ SwitchKey("O", FALSE, "isolated")
  \/ SwitchKey("d", FALSE, "desktop")

-----------------------------------------------------------------------------
(* Operations *)

\* A request for a refresh by a handler; the dashboard may have ended.
Asked(name) == IF Shown THEN Request(refresh, name, FALSE) ELSE refresh

\* By an operation: put off until it is over.
AskedByOperation(name) == IF Shown THEN Resume(Request(refresh, name, TRUE)) ELSE refresh

Fail == used.fails < load.fails /\ used' = [used EXCEPT !.fails = @ + 1]

\* What the simple operations do to the store, and whether they can.
Possible ==
  CASE task.op \in {"delete", "unimport"} -> task.name \in disk.accounts
    [] task.op \in {"import", "restore"}  -> task.name \notin disk.accounts
    [] OTHER                              -> TRUE
Done ==
  CASE task.op = "delete"   -> [disk EXCEPT !.accounts = @ \ {task.name}, !.backups = @ \cup {task.name}]
    [] task.op = "import"   -> [disk EXCEPT !.accounts = @ \cup {task.name}]
    [] task.op = "unimport" -> [disk EXCEPT !.accounts = @ \ {task.name}]
    [] task.op = "restore"  -> [disk EXCEPT !.accounts = @ \cup {task.name}, !.backups = @ \ {task.name}]
    [] OTHER                -> disk

\* The undo each of them gives: deleteAccountForTui, importShareBundleForTui and
\* exportShareBundleForTui.
Undoing ==
  CASE task.op = "delete" -> [does |-> "restore", name |-> task.name]
    [] task.op = "import" -> [does |-> "unimport", name |-> task.name]
    [] task.op = "export" -> [does |-> "unexport", name |-> task.name]
    [] OTHER              -> NoUndo

Simple == {"export", "import", "delete", "auto", "protect", "restore", "unimport", "unexport"}
\* Those that ask for a refresh; neither a delete nor an undone import does.
Refreshing == {"import", "auto", "protect", "restore"}

\* Mutant of SimpleEnds: an undo that is replaced is not discarded.
SimpleEndsKeeping ==
  /\ task.op \in Simple /\ Possible
  /\ disk' = Done
  /\ undo' = Undoing
  /\ task' = NoTask
  /\ refresh' = IF task.op \in Refreshing THEN Asked(task.name) ELSE refresh
  /\ UNCHANGED <<screen, queue, phase, exit, monitor, world, agreed, lost>>
\* runSimpleAction: setUndoAction discards the undo that is replaced.
SimpleEnds ==
  /\ task.op \in Simple /\ Possible
  /\ disk' = [Done EXCEPT !.backups = @ \ Backup(undo)]
  /\ undo' = Undoing
  /\ task' = NoTask
  /\ refresh' = IF task.op \in Refreshing THEN Asked(task.name) ELSE refresh
  /\ UNCHANGED <<screen, queue, phase, exit, monitor, world, agreed, lost>>

SimpleFails ==
  /\ task.op \in Simple
  /\ Fail \/ (~Possible /\ used' = used)
  /\ task' = NoTask
  /\ lost' = lost \cup IF task.op = "restore" THEN {task.name} ELSE {}
  /\ UNCHANGED <<disk, screen, queue, undo, refresh, phase, exit, monitor, load, agreed>>

PreviewEnds ==
  /\ task.op = "preview"
  /\ task' = NoTask
  /\ \/ mode' = [Browse EXCEPT !.is = "importName"] /\ used' = used
     \/ Fail /\ mode' = mode
  /\ UNCHANGED <<disk, snap, selected, query, queue, undo, refresh, phase, exit, monitor, load, agreed, lost>>

\* switchAccount takes effect.  The proxy's row is enabled, or disabled if the
\* dashboard believes that it is current; an account becomes the proxy's
\* upstream while the proxy is on, which leaves auth.json as it is.
SwitchActs ==
  /\ task.op = "switch" /\ ~task.done
  /\ task.name \in disk.accounts \cup {Proxy}
  /\ LET on == IF task.name = Proxy THEN ref # Proxy \/ task.force ELSE disk.on
         direct == IF task.name = Proxy THEN disk.direct ELSE task.name
     IN /\ disk' = [disk EXCEPT !.on = on, !.direct = direct]
        /\ watch' = IF disk.on /\ on THEN watch ELSE Wake(watch)
        /\ task' = [task EXCEPT !.done = TRUE,
                                !.gives = IF on THEN Proxy ELSE IF task.name = Proxy THEN None ELSE direct]
  /\ UNCHANGED <<screen, queue, undo, refresh, phase, exit, ref, feed, crossed, world, agreed, lost>>

\* runSwitchAction goes on: it marks the account current and asks for a refresh,
\* opens Desktop, or ends the dashboard.
SwitchReturns ==
  /\ task.op = "switch" /\ task.done
  /\ ref' = IF task.gives = None THEN Label ELSE task.gives
  /\ crossed' = (crossed \/ ref' # Label)
  /\ snap' = [snap EXCEPT !.current = IF ref' = None THEN task.name ELSE ref']
  /\ selected' = Preferred(Rows, snap'.current, task.name)
  /\ task' = IF task.after \in {"desktop", "desktopForce"} THEN [task EXCEPT !.op = "desktop"] ELSE NoTask
  /\ IF task.after \in {"open", "isolated"} /\ Shown
       THEN End(task.after)
       ELSE UNCHANGED <<exit, phase, queue, undo, disk>>
  /\ refresh' = IF task.after = "stay" THEN AskedByOperation(task.name) ELSE refresh
  /\ UNCHANGED <<query, mode, watch, feed, world, agreed, lost>>

\* It fails before or after the effect, or is aborted; a daemon left behind on
\* the proxy's port is reported and may be stopped.
SwitchFails ==
  /\ task.op = "switch"
  /\ Fail \/ ((task.aborted \/ task.name \notin disk.accounts \cup {Proxy}) /\ used' = used)
  /\ task' = NoTask
  /\ \/ mode' = mode
     \/ /\ task.name = Proxy /\ ~task.done /\ ~task.aborted
        /\ mode' = [Browse EXCEPT !.is = "stale", !.name = Proxy, !.force = task.force, !.after = task.after]
  /\ refresh' = IF Shown THEN Resume(refresh) ELSE refresh
  /\ UNCHANGED <<disk, snap, selected, query, queue, undo, phase, exit, monitor, load, agreed, lost>>

DesktopEnds ==
  /\ task.op = "desktop"
  /\ task' = NoTask
  /\ \/ used' = used /\ refresh' = IF task.active THEN AskedByOperation(task.name) ELSE Asked(task.name)
     \/ Fail /\ refresh' = IF Shown /\ task.active THEN Resume(refresh) ELSE refresh
  /\ UNCHANGED <<disk, screen, queue, undo, phase, exit, monitor, load, agreed, lost>>

\* The stale daemon was stopped: the switch is tried again, on the selected row,
\* even if the dashboard has ended.
CleanupEnds ==
  /\ task.op = "cleanup"
  /\ IF Opens(Row, task.after)
       THEN /\ task' = NoTask
            /\ IF Shown THEN End(task.after) ELSE UNCHANGED <<exit, phase, queue, undo, disk>>
       ELSE /\ task' = SwitchRow(Row, task.force, task.after)
            /\ UNCHANGED <<exit, phase, queue, undo, disk>>
  /\ UNCHANGED <<screen, refresh, monitor, world, agreed, lost>>

CleanupFails ==
  /\ task.op = "cleanup" /\ Fail
  /\ task' = NoTask
  /\ UNCHANGED <<disk, screen, queue, undo, refresh, phase, exit, monitor, load, agreed, lost>>

-----------------------------------------------------------------------------
DashInit ==
  /\ load \in Loads
  /\ used = [presses |-> 0, others |-> 0, fails |-> 0, signals |-> 0, again |-> 0]
  /\ \E direct \in Accounts :
       disk = [accounts |-> Accounts, direct |-> direct, on |-> load.on, backups |-> {}]
  /\ \E rows \in Listings : snap = [rows |-> rows, current |-> Label]
  /\ selected = 1 /\ query = "" /\ mode = Browse
  /\ queue = <<>> /\ task = NoTask /\ undo = NoUndo /\ refresh = NoRefresh
  /\ phase = "opening" /\ exit = "none"
  /\ ref = None /\ watch = NoWatch /\ feed = <<>>
  /\ agreed = None /\ lost = {} /\ crossed = FALSE

RefreshStep == LoadLists \/ LoadReadsCurrent \/ LoadReturns
PhaseStep == Return \/ StartMonitors \/ Subscribe
SyncStep == SyncReads \/ \E i \in DOMAIN watch.syncs : SyncEnds(i)
OperationStep ==
  SimpleEnds \/ SimpleFails \/ PreviewEnds \/ SwitchActs \/ SwitchReturns \/ SwitchFails
    \/ DesktopEnds \/ CleanupEnds
KeyStep ==
  \/ ApplyUpdate \/ SwitchKeys \/ RefreshKey \/ UndoKey
  \/ ConfirmDelete \/ ConfirmCleanup \/ ConfirmRelaunch
  \/ \E k \in Keys : \/ FilterKey(k) \/ PromptKey(k) \/ Decline(k) \/ Quit(k)
                     \/ LookKey(k) \/ ToggleKey(k)

DashNext ==
  \/ RefreshStep \/ PhaseStep \/ SyncStep \/ OperationStep \/ KeyStep
  \/ LoadFails \/ Tick \/ CleanupFails
  \/ Signal \/ Reopen \/ SwitchedByOther
  \/ \E k \in Keys : Press(k)

\* The event loop runs what is ready: handlers in their turn, answers and timers.
DashSpec ==
  /\ DashInit /\ [][DashNext]_dashVars
  /\ WF_dashVars(RefreshStep) /\ WF_dashVars(PhaseStep) /\ WF_dashVars(SyncStep)
  /\ WF_dashVars(OperationStep) /\ WF_dashVars(KeyStep) /\ WF_dashVars(Tick)

-----------------------------------------------------------------------------
(* Properties *)

\* The type invariant: it types the screen, the tasks, the refresh and the watcher.
DashTypeOK ==
  /\ disk \in [accounts : SUBSET (Accounts \cup {Imported}), direct : Accounts \cup {Imported},
               on : BOOLEAN, backups : SUBSET (Accounts \cup {Imported})]
  /\ snap.current \in Names \cup {None} /\ Range(snap.rows) \subseteq Names
  /\ selected \in 1..(Cardinality(Names) + 1) /\ query \in {"", "text"}
  /\ mode.is \in {"browse"} \cup Typing \cup Confirming
  /\ task.op \in Simple \cup {"none", "switch", "desktop", "preview", "cleanup"}
  /\ undo.does \in {"none", "restore", "unimport", "unexport"}
  /\ refresh.at \in {"none", "begun", "listed", "read"}
  /\ phase \in {"opening", "started", "run", "closing", "closed"}
  /\ ref \in Names \cup {None} /\ watch.fired \in BOOLEAN

\* A row is selected whenever one is shown: a refresh, a filter, a deleted account
\* or a switch never leaves the selection beyond the rows, where keys do nothing.
RowSelected == Shown /\ Rows # <<>> => Row # None

\* A refresh that was asked for has somebody who begins it: the load in flight,
\* when it ends, or the operation that put it off (requestRefresh).
RefreshOwned == Shown /\ refresh.queued => refresh.at # "none" \/ task.active

\* Every backup of a deleted account can still be restored, is being written or
\* restored, or was lost to an undo that failed; none outlives an orderly exit.
UndoAccounted ==
  exit # "signal" =>
    disk.backups \subseteq lost \cup Backup(undo) \cup (IF task.op = "restore" THEN {task.name} ELSE {})

\* When the dashboard has returned from an orderly exit, no operation and no load
\* goes on behind the codex session or the shell (settlePendingWork).
QuietExit == phase = "closed" /\ exit # "signal" => task.op = "none" /\ refresh.at = "none"

\* An account is deleted only after its own name was confirmed, whatever was
\* selected, listed or switched in between; a failed or undone import apart.
DeletedAsAgreed ==
  [][\A name \in disk.accounts \ disk'.accounts :
       task.op = "unimport" \/ name = agreed]_dashVars

\* The dashboard's idea of whether the proxy is current, which decides whether its
\* row enables or disables it, becomes right again after every switch, its own or
\* another's, unless two of them overlapped so that an older answer came last.
ProxyKnown == []<>((ref = Proxy) = disk.on \/ ~Shown \/ crossed \/ ~load.watches)

\* What the screen shows as current is the current account again and again, as
\* long as it is open: whoever switched, and whatever failed or was aborted.
CurrentShown == []<>(snap.current = Label \/ ~Shown \/ ~load.timer)

\* A dashboard that ends does return: neither a key in its turn nor a load waits
\* for something that cannot come any more.
Closes == phase = "closing" ~> phase = "closed"

\* What the keys act on and what they left pending is accounted for: the selected
\* row, a refresh put off, an undo and its backup, an action at the exit.
ScreenInv == DashTypeOK /\ RowSelected /\ RefreshOwned /\ UndoAccounted /\ QuietExit

\* The screen comes back to what is so, after every switch and every failure.
ScreenFollows == ProxyKnown /\ CurrentShown
=============================================================================
