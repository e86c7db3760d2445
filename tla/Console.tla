------------------------------ MODULE Console ------------------------------
(***************************************************************************)
(* `codexm ui`: a local server, the pages that show its console and a tray *)
(* icon (src/src/commands/ui.ts).  Its requests run side by side: added,   *)
(* removed and switched accounts, pushes to the registry, restarts of      *)
(* Desktop, and the end of the server, with the auto-sync loop under them. *)
(*                                                                         *)
(* Readings (the state, a quota refresh) are left out, and what a switch   *)
(* does to Desktop is in Desktop.                                          *)
(***************************************************************************)
EXTENDS AccountAdd

CONSTANT NoSlot

ASSUME ConsoleAssumption ==
  /\ \A x \in Works : x.app \in {"none", "ours", "theirs"} /\ x.opens \in Nat
  /\ NoSlot \notin Slots

VARIABLES lock,    \* the request that holds the switch lock
          app,     \* the Desktop that runs: codexm's, the operator's own, or
                   \* the latter opened under a restart that has looked ("slipped")
          opens,   \* how often the operator still opens Desktop
          gone,    \* history: accounts that were removed, here and from the registry
          busy,    \* history: removals that had a pass or a login besides them
          chosen,  \* history: the identity switched to last, with no pass under way
          closed   \* history: the Desktops closed without the operator's word
vars == <<syncVars, addVars, lock, app, opens, gone, busy, chosen, closed>>
desk == <<app, opens, closed>>
history == <<gone, busy, chosen>>

ConsoleInit ==
  /\ SyncInit /\ AddInit
  /\ lock = NoSlot /\ app = work.app /\ opens = work.opens
  /\ gone = {} /\ busy = {} /\ chosen = NoTok /\ closed = {}

Act(t) == <<t, "act">>
At(s, pc, do) == req[s].pc = pc /\ req[s].do = do
Goto(s, pc) == SetReq(s, [req[s] EXCEPT !.pc = pc])
Add == UNCHANGED <<tab, pageVars>>

\* act and relaunchDesktop of a page, one at a time (busy), and the tray's menu,
\* which is taken to have confirmed the restart of any Desktop.
Send(t) ==
  /\ Wants(t, {"switch", "remove", "sync", "relaunch", "quit"}) /\ req[Act(t)].pc = "idle"
  /\ LET i == Head(tab[t].plan)
     IN Sent(Act(t), [NoReq EXCEPT !.do = i.do, !.n = i.n, !.force = (t = Tray)])
  /\ tab' = [tab EXCEPT ![t].plan = Tail(@)]
  /\ UNCHANGED <<pageVars, lock, desk>> /\ Sync

\* The answer: a restart that asks for it is confirmed, or not.
Use(t) ==
  /\ req[Act(t)].pc = "answered"
  /\ \/ SetReq(Act(t), NoReq)
     \/ req[Act(t)].out = "confirm" /\ Sent(Act(t), [req[Act(t)] EXCEPT !.force = TRUE, !.out = "none"])
  /\ Add /\ UNCHANGED <<lock, desk>> /\ Sync

-----------------------------------------------------------------------------
(* Switching: performUiSwitch *)

Locks(s) ==
  /\ At(s, "sent", "switch")
  /\ IF lock = NoSlot THEN lock' = s /\ Goto(s, "locked") ELSE Answer(s, "failed") /\ UNCHANGED lock
  /\ Add /\ UNCHANGED desk /\ Sync

\* Mutant of Switches: the lock of a switch that fails is kept.
SwitchesOrKeeps(s) ==
  /\ At(s, "locked", "switch")
  /\ IF store[req[s].n] = NoTok THEN Answer(s, "failed") /\ UNCHANGED <<cur, lock>>
     ELSE cur' = store[req[s].n] /\ Answer(s, "ok") /\ lock' = NoSlot
  /\ Add /\ UNCHANGED <<desk, work, store, reg, pass, left>>

\* switchAccountPreservingProxyRuntime; the lock is given back either way.
Switches(s) ==
  /\ At(s, "locked", "switch")
  /\ IF store[req[s].n] = NoTok THEN Answer(s, "failed") /\ UNCHANGED cur
     ELSE cur' = store[req[s].n] /\ Answer(s, "ok")
  /\ lock' = NoSlot
  /\ Add /\ UNCHANGED <<desk, work, store, reg, pass, left>>

-----------------------------------------------------------------------------
(* Removing: performUiRemoveAccount *)

\* The record is listed, and deleted if it is there; without a registry, or when
\* this fails, the account is still removed.
DeletesRecord(s) ==
  /\ At(s, "sent", "remove")
  /\ \/ /\ work.registry /\ reg[req[s].n] # NoTok
        /\ reg' = [reg EXCEPT ![req[s].n] = NoTok]
        /\ SetReq(s, [req[s] EXCEPT !.pc = "deleted", !.out = "ok"])
        /\ UNCHANGED left
     \/ /\ ~work.registry \/ reg[req[s].n] = NoTok
        /\ Goto(s, "deleted") /\ UNCHANGED <<reg, left>>
     \/ /\ work.registry /\ Fault
        /\ Goto(s, "deleted") /\ UNCHANGED reg
  /\ Add /\ UNCHANGED <<lock, desk, work, store, cur, pass>>

\* Mutant of Removes: the pass runs before the account is removed.
SyncsFirst(s) ==
  /\ At(s, "deleted", "remove")
  /\ IF pass[s].pc = "off" /\ req[s].force
     THEN /\ Goto(s, "syncing") /\ store' = [store EXCEPT ![req[s].n] = NoTok] /\ UNCHANGED pass
     ELSE /\ Idle(s) /\ pass' = [pass EXCEPT ![s] = Started(TRUE)]
          /\ SetReq(s, [req[s] EXCEPT !.force = TRUE]) /\ UNCHANGED store
  /\ Add /\ UNCHANGED <<lock, desk, work, reg, cur, left>>

\* removeAccount, and then a pass, which finds the account gone.
Removes(s) ==
  /\ At(s, "deleted", "remove")
  /\ IF store[req[s].n] = NoTok THEN Answer(s, "failed") /\ UNCHANGED <<store, pass>>
     ELSE /\ store' = [store EXCEPT ![req[s].n] = NoTok]
          /\ pass' = [pass EXCEPT ![s] = Started(TRUE)]
          /\ Goto(s, "syncing")
  /\ Add /\ UNCHANGED <<lock, desk, work, reg, cur, left>>

Removed(s) ==
  /\ At(s, "syncing", "remove") /\ Idle(s)
  /\ Answer(s, "ok")
  /\ Add /\ UNCHANGED <<lock, desk>> /\ Sync

\* The sync button: syncAccountsToRemote, which only pushes.
Pushes(s) ==
  /\ At(s, "sent", "sync")
  /\ pass' = [pass EXCEPT ![s] = Started(FALSE)]
  /\ Goto(s, "syncing")
  /\ Add /\ UNCHANGED <<lock, desk, work, store, reg, cur, left>>

Pushed(s) ==
  /\ At(s, "syncing", "sync") /\ Idle(s)
  /\ Answer(s, "ok")
  /\ Add /\ UNCHANGED <<lock, desk, busy>> /\ Sync

-----------------------------------------------------------------------------
(* Restarting Desktop: performDesktopRelaunch *)

\* Mutant of MayQuit: the Desktop is not looked at.
MayQuitAny(s) == TRUE

\* Without the operator's word only a Desktop that codexm started is closed.
MayQuit(s) == app \in {"none", "ours"} \/ req[s].force

Looks(s) ==
  /\ At(s, "sent", "relaunch")
  /\ IF MayQuit(s) THEN Goto(s, IF app = "none" THEN "opening" ELSE "quitting") ELSE Answer(s, "confirm")
  /\ Add /\ UNCHANGED <<lock, desk>> /\ Sync

\* quitRunningApps closes every Desktop there is by then.
Quits(s) ==
  /\ At(s, "quitting", "relaunch")
  /\ closed' = IF req[s].force THEN closed ELSE closed \cup {app}
  /\ app' = "none"
  /\ Goto(s, "opening")
  /\ Add /\ UNCHANGED <<lock, opens>> /\ Sync

\* launch and writeManagedState, or a launch that fails.
Opens(s) ==
  /\ At(s, "opening", "relaunch")
  /\ \/ app' = (IF app = "none" THEN "ours" ELSE app) /\ UNCHANGED left
     \/ Fault /\ UNCHANGED app
  /\ Answer(s, "ok")
  /\ Add /\ UNCHANGED <<lock, opens, closed, work, store, reg, cur, pass>>

\* The operator closes the Desktop there is and opens it by hand.
OpensOwn ==
  /\ opens > 0 /\ opens' = opens - 1
  /\ app' = IF \E s \in Slots : At(s, "quitting", "relaunch") THEN "slipped" ELSE "theirs"
  /\ Add /\ UNCHANGED <<lock, closed, req>> /\ Sync

-----------------------------------------------------------------------------
(* The end of the server *)

\* Mutant of Cancelled: the logins are forgotten, their sessions left alone.
CancelledNone == [f \in Flows |-> [flow[f] EXCEPT !.known = FALSE]]

\* cancelAll: the logins on record are cancelled and forgotten.
Cancelled == [f \in Flows |-> IF flow[f].known THEN [Ending(f) EXCEPT !.known = FALSE] ELSE flow[f]]

\* POST /api/quit, the tray's quit and SIGINT: shutdown, once.
Quit(s) ==
  /\ At(s, "sent", "quit")
  /\ IF up = "up"
     THEN /\ up' = "closing" /\ flow' = Cancelled
          /\ port' = IF port # NoFlow /\ Cancelled[port].st = "error" THEN NoFlow ELSE port
     ELSE UNCHANGED <<up, flow, port>>
  /\ Answer(s, "ok")
  /\ UNCHANGED <<tab, tells, pages, saved, overwritten, strayed, lock, desk>> /\ Sync

\* The server has closed once the requests it took are answered.
Closes ==
  /\ up = "closing" /\ \A s \in Slots : req[s].pc \in {"idle", "answered"}
  /\ up' = "closed"
  /\ UNCHANGED <<tab, req, tells, flow, port, pages, saved, overwritten, strayed, lock, desk>> /\ Sync

-----------------------------------------------------------------------------
Passing(r) == PassStep(r) /\ UNCHANGED <<addVars, lock, desk>>
Adding(A) == A /\ UNCHANGED <<lock, desk>>

ActStep(s) == \/ Locks(s) \/ Switches(s) \/ DeletesRecord(s) \/ Removes(s) \/ Removed(s)
              \/ Pushes(s) \/ Pushed(s) \/ Looks(s) \/ Quits(s) \/ Opens(s) \/ Quit(s) \/ Passing(s)
AddStep(s) == Adding(ServeAdd(s) \/ ServeStarted(s))
SlotStep(s) == ActStep(s) \/ AddStep(s)
PageStep(t) == \/ Use(t)
               \/ t \in Tabs /\ Adding(UseAdded(t) \/ Poll(t) \/ \E s \in Polls(t) : UsePoll(t, s))
Operator == \/ \E t \in Actors : Send(t)
            \/ \E t \in Tabs : Adding(OpenDialog(t) \/ Submit(t) \/ EditName(t) \/ CancelDialog(t) \/ CloseTab(t))
            \/ \E f \in Flows : Adding(Authorize(f) \/ Decline(f))
            \/ OpensOwn

Step == \/ Operator \/ Closes \/ Adding(ServeCancel)
        \/ \E s \in Slots : SlotStep(s)
        \/ \E t \in Actors : PageStep(t)
        \/ \E f \in Flows : Adding(FlowStep(f))
        \/ Passing(Loop)
        \/ up = "up" /\ Adding(LoopStarts /\ UNCHANGED addVars)
        \/ Adding(Elsewhere /\ UNCHANGED addVars)

\* What the histories make of a step.  A removal is sound, and a switch lasts, when
\* no pass or login ran besides it.
Removing == {s \in Slots : req[s].do = "remove" /\ req[s].pc \in {"deleted", "syncing"}}
Saving(n) == \E f \in Flows : flow[f].st = "save" /\ flow[f].n = n
Others(s) == (\E r \in Runners \ {s} : ~Idle(r)) \/ Saving(req[s].n)
History ==
  /\ busy' = {s \in Removing' : s \in busy \/ Others(s)'}
  /\ gone' = {n \in gone : ~Saving(n)}
             \cup {req[s].n : s \in {x \in Removing \ (Removing' \cup busy) : req[x].out = "ok" /\ req'[x].out = "ok"}}
  /\ chosen' = IF \E s \in Slots : req[s].pc = "locked" /\ req'[s].pc = "answered" /\ req'[s].out = "ok"
               THEN IF \A r \in Runners : Idle(r) THEN cur'.who ELSE NoTok
               ELSE chosen
Next == Step /\ History

\* Requests are served and answered, timers fire, logins and passes go on; the
\* operator need not do anything.
Fairness ==
  /\ \A s \in Slots : WF_vars(SlotStep(s) /\ History)
  /\ \A t \in Actors : WF_vars(Use(t) /\ History)
  /\ \A t \in Tabs : /\ WF_vars(Adding(UseAdded(t)) /\ History)
                      /\ WF_vars(Adding(Poll(t)) /\ History)
                      /\ \A s \in Polls(t) : WF_vars(Adding(UsePoll(t, s)) /\ History)
  /\ \A f \in Flows : WF_vars(Adding(FlowStep(f)) /\ History)
  /\ WF_vars(Passing(Loop) /\ History)
  /\ WF_vars(Adding(ServeCancel) /\ History)

Spec == ConsoleInit /\ [][Next]_vars /\ Fairness

-----------------------------------------------------------------------------
TypeOK ==
  /\ SyncTypeOK /\ AddTypeOK
  /\ lock \in Slots \cup {NoSlot} /\ (lock # NoSlot => At(lock, "locked", "switch"))
  /\ app \in {"none", "ours", "theirs", "slipped"} /\ gone \subseteq Names
  /\ \A s \in Slots : req[s].pc \in {"idle", "sent", "started", "locked", "deleted", "syncing",
                                     "quitting", "opening", "answered"}

\* An account that was removed here and from the registry stays removed: the pass
\* after the removal does not bring it back, nor does the loop, unless one of them
\* or a login ran besides the removal (performUiRemoveAccount).
RemovedStays == \A n \in gone : store[n] = NoTok /\ reg[n] = NoTok

\* The account switched to stays in effect, whatever passes adopt, unless one was
\* under way at the switch (performUiSwitch, adoptRemoteAccount).  With a registry it
\* takes that no login gives a name to another identity: a pass that had looked at
\* the old account would put the new one in effect.
SwitchKept == chosen # NoTok => cur.who = chosen

\* A Desktop that codexm did not start is closed only with the operator's word, but
\* for one opened after the restart had looked (restartManagedDesktopSession).
DesktopSpared == "theirs" \notin closed

\* When the console has ended no login waits for a callback, but for one that was
\* being started while it ended (shutdown, cancelAll).
QuietExit == up = "closed" => \A f \in Flows : Waiting(f) => flow[f].late

\* A login saves what the operator asked for: over an account only if they agreed,
\* with its own code, and not after a cancel.
AddInv == OverwriteAgreed /\ OwnCode /\ CancelledNotSaved

\* The callback port and the logins that wait on it are never forgotten, not even
\* when the console ends.
PortInv == PortHeld /\ FlowWatched /\ QuietExit

\* What the operator did in a page lasts: no pass and no restart beside it undoes it
\* or does more.
ConsoleInv == TypeOK /\ RemovedStays /\ SwitchKept /\ DesktopSpared

\* Every login comes to its end, for the page and for the port.
LoginsEnd == DialogEnds /\ PortFreed
=============================================================================
