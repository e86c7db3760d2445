----------------------------- MODULE AccountAdd -----------------------------
(***************************************************************************)
(* Adding an account from the console: the dialog of a page, the logins    *)
(* the server keeps between requests, the listener on the callback port,   *)
(* and the operator's browser (src/src/commands/ui.ts, src/src/codex-      *)
(* login.ts).                                                              *)
(*                                                                         *)
(* A page polls every two seconds, without waiting for the last answer:    *)
(* two answers may be on their way.  The browser method is the one a page  *)
(* can choose; a popup is not blocked.  Messages between a page and the    *)
(* server are not lost; a server that has stopped refuses them.            *)
(***************************************************************************)
EXTENDS SyncPass, Sequences

CONSTANTS Tabs,          \* pages that show the console
          Tray,          \* the tray icon, which acts without a page
          Flows, NoFlow  \* the logins started; those there may be are a bound

Actors == Tabs \cup {Tray}
Slots == (Tabs \X {"act", "add", "poll1", "poll2"}) \cup {<<Tray, "act">>}
Polls(t) == {<<t, "poll1">>, <<t, "poll2">>}

\* More of a workload: if polls overlap, what each actor does, in order.  An intent names what to
\* do, an account, the name that is typed over it, and who the operator is.
Intent == [do : {"add", "relogin", "switch", "remove", "sync", "relaunch", "quit"},
           n : Names, over : Names \cup {NoName}, who : Who]
ASSUME AddAssumption ==
  /\ Flows \subseteq Runners /\ Slots \subseteq Runners /\ Tray \notin Tabs
  /\ Flows \cap Slots = {} /\ Loop \notin Flows \cup Slots
  /\ NoFlow \notin Flows
  /\ \A x \in Works : x.twice \in BOOLEAN /\ x.plan \in [Actors -> Seq(Intent)]

VARIABLES tab,    \* per actor: its page
          req,    \* per slot: a request, from its sending to the use of its answer
          tells,  \* cancel requests on their way
          flow,   \* the logins
          port,   \* whose listener has the callback port
          pages,  \* the authorize pages open in the operator's browser
          up,     \* the console: "up", "closing", "closed"
          saved, overwritten,  \* history: logins that were saved; accounts they replaced
          strayed              \* history: logins a page lost to an answer about another one
addVars == <<tab, req, tells, flow, port, pages, up, saved, overwritten, strayed>>
pageVars == <<tells, flow, port, pages, up, saved, overwritten, strayed>>

NewPage(t) == [open |-> FALSE, name |-> NoName, who |-> NoTok, forced |-> FALSE, agreed |-> {}, edited |-> FALSE,
               over |-> NoName, ready |-> TRUE, flow |-> NoFlow, polling |-> FALSE, win |-> "none",
               plan |-> work.plan[t]]
NoReq == [pc |-> "idle", do |-> "none", n |-> NoName, f |-> NoFlow, who |-> NoTok, force |-> FALSE,
          agreed |-> {}, edited |-> FALSE, out |-> "none"]
NewFlow == [st |-> "new", known |-> FALSE, n |-> NoName, who |-> NoTok, force |-> FALSE, agreed |-> {},
            edited |-> FALSE, via |-> NoFlow, cancel |-> "no", late |-> FALSE]

AddInit ==
  /\ tab = [t \in Actors |-> NewPage(t)]
  /\ req = [s \in Slots |-> NoReq]
  /\ tells = {} /\ port = NoFlow /\ pages = {} /\ up = "up"
  /\ flow = [f \in Flows |-> NewFlow]
  /\ saved = {} /\ overwritten = {} /\ strayed = {}

Waiting(f) == flow[f].st \in {"starting", "wait"}
Underway(f) == flow[f].st \in {"wait", "exchange", "save", "sync"}
Unused == {f \in Flows : flow[f].st = "new"}
SetReq(s, r) == req' = [req EXCEPT ![s] = r]
Answer(s, out) == SetReq(s, [req[s] EXCEPT !.pc = "answered", !.out = out])
Sent(s, r) == SetReq(s, IF up = "up" THEN [r EXCEPT !.pc = "sent"] ELSE [r EXCEPT !.pc = "answered", !.out = "unreachable"])
SetTab(t, r) == tab' = [tab EXCEPT ![t] = r]
Wants(t, do) == tab[t].plan # <<>> /\ Head(tab[t].plan).do \in do
Free(g) == IF port = g THEN NoFlow ELSE port
Sync == UNCHANGED syncVars

-----------------------------------------------------------------------------
(* The operator at a page *)

\* openAddModal, from the add button or from "log in again" on a card; the name
\* on the card may then be typed over. It does not wait for a request of the dialog
\* that was cancelled, whose answer then finds the new name in the field.
OpenDialog(t) ==
  /\ Wants(t, {"add", "relogin"}) /\ ~tab[t].open
  /\ LET i == Head(tab[t].plan)
         again == i.do = "relogin"
     IN SetTab(t, [tab[t] EXCEPT !.open = TRUE, !.ready = TRUE, !.who = i.who, !.forced = again,
          !.name = IF again /\ i.over # NoName THEN i.over ELSE i.n, !.agreed = IF again THEN {i.n} ELSE {},
          !.edited = (again /\ i.over # NoName) \/ req[<<t, "add">>].pc # "idle",
          !.over = IF again THEN NoName ELSE i.over, !.plan = Tail(@)])
  /\ UNCHANGED <<req, pageVars>> /\ Sync

\* The submit button: a blank tab for the authorize page, and submitAdd.
Submit(t) ==
  /\ tab[t].open /\ tab[t].ready /\ Unused # {}
  /\ req[<<t, "add">>].pc = "idle"
  /\ SetTab(t, [tab[t] EXCEPT !.ready = FALSE, !.win = "blank"])
  /\ Sent(<<t, "add">>, [NoReq EXCEPT !.do = "add", !.n = tab[t].name, !.who = tab[t].who,
       !.force = tab[t].forced, !.agreed = tab[t].agreed, !.edited = tab[t].edited])
  /\ UNCHANGED pageVars /\ Sync

\* The name can be edited while the request is on its way.
EditName(t) ==
  /\ tab[t].open /\ tab[t].over # NoName /\ req[<<t, "add">>].pc # "idle"
  /\ SetTab(t, [tab[t] EXCEPT !.name = tab[t].over, !.edited = TRUE, !.over = NoName])
  /\ UNCHANGED <<req, pageVars>> /\ Sync

\* Mutant of CancelDialog: the server is not told.
CancelUntold(t) ==
  /\ tab[t].open /\ left.clicks > 0
  /\ left' = [left EXCEPT !.clicks = @ - 1]
  /\ SetTab(t, [tab[t] EXCEPT !.open = FALSE, !.flow = NoFlow, !.polling = FALSE, !.win = "none"])
  /\ UNCHANGED <<req, pageVars, work, store, reg, cur, pass>>

\* The cancel button; an authorize page stays open.
CancelDialog(t) ==
  /\ tab[t].open /\ left.clicks > 0
  /\ left' = [left EXCEPT !.clicks = @ - 1]
  /\ tells' = tells \cup ({tab[t].flow} \ {NoFlow})
  /\ SetTab(t, [tab[t] EXCEPT !.open = FALSE, !.flow = NoFlow, !.polling = FALSE, !.win = "none"])
  /\ UNCHANGED <<req, flow, port, pages, up, saved, overwritten, strayed, work, store, reg, cur, pass>>

\* The operator closes the tab that was opened for the login, used or not.
CloseTab(t) ==
  /\ tab[t].win \in Flows \cup {"blank"} /\ left.clicks > 0
  /\ left' = [left EXCEPT !.clicks = @ - 1]
  /\ pages' = pages \ {tab[t].win}
  /\ SetTab(t, [tab[t] EXCEPT !.win = "gone"])
  /\ UNCHANGED <<req, tells, flow, port, up, saved, overwritten, strayed, work, store, reg, cur, pass>>

-----------------------------------------------------------------------------
(* Answers that reach a page *)

\* What the page has in place of a login that ended or failed.
Retry(p) == [p EXCEPT !.ready = TRUE, !.flow = NoFlow, !.polling = FALSE, !.win = "none"]

\* The rest of submitAdd, with the answer of confirm where one is asked for:
\* agreed to, the request goes out again with the name that is in the field now.
UseAdded(t) ==
  /\ LET s == <<t, "add">> r == req[s] p == tab[t]
     IN /\ r.pc = "answered"
        /\ \/ /\ r.out = "confirm"
              /\ \/ SetTab(t, [p EXCEPT !.ready = TRUE, !.win = "none"]) /\ SetReq(s, NoReq)
                 \/ /\ Sent(s, [r EXCEPT !.n = p.name, !.force = TRUE, !.agreed = @ \cup {r.n}, !.edited = p.edited])
                    /\ UNCHANGED tab
              /\ UNCHANGED pages
           \/ /\ r.out = "pending"
              /\ SetTab(t, [p EXCEPT !.flow = r.f, !.polling = TRUE, !.win = r.f])
              /\ SetReq(s, NoReq)
              /\ pages' = pages \cup {r.f}
           \/ /\ r.out \in {"failed", "unreachable"}
              /\ SetTab(t, [p EXCEPT !.ready = TRUE, !.win = "none"])
              /\ SetReq(s, NoReq) /\ UNCHANGED pages
  /\ UNCHANGED <<tells, flow, port, up, saved, overwritten, strayed>> /\ Sync

\* What GET /api/accounts/add/status tells of f.
Status(f) == IF up # "up" THEN "unreachable" ELSE IF ~flow[f].known THEN "missing"
             ELSE IF Underway(f) THEN "pending" ELSE flow[f].st

\* A poll is served: a login that ended is forgotten once it was told.  One that is
\* under way while its tab is open changes nothing, and is left out.
Poll(t) ==
  /\ tab[t].polling
  /\ LET f == tab[t].flow
     IN /\ Status(f) = "pending" => tab[t].win = "gone"
        /\ \E s \in Polls(t) :
             /\ req[s].pc = "idle" /\ (s[2] = "poll2" => work.twice /\ req[<<t, "poll1">>].pc # "idle")
             /\ SetReq(s, [NoReq EXCEPT !.do = "poll", !.f = f, !.pc = "answered", !.out = Status(f)])
        /\ flow' = IF up = "up" THEN [flow EXCEPT ![f].known = @ /\ Underway(f)] ELSE flow
  /\ UNCHANGED <<tab, tells, port, pages, up, saved, overwritten, strayed>> /\ Sync

\* Mutant of Ended: the button stays as it is after a failed poll.
EndedStuck(p, out) == IF out = "done" THEN [Retry(p) EXCEPT !.open = FALSE, !.ready = p.ready]
                      ELSE [Retry(p) EXCEPT !.ready = p.ready]

\* pollAdd after an answer that ends the login: the dialog closes, or offers to retry.
Ended(p, out) == IF out = "done" THEN [Retry(p) EXCEPT !.open = FALSE, !.ready = p.ready] ELSE Retry(p)

\* The rest of pollAdd, about whatever login the page is at now.  With its tab
\* closed a pending login is given up (abandonAddFlow).
UsePoll(t, s) ==
  /\ LET r == req[s] p == tab[t]
     IN /\ r.pc = "answered"
        /\ \/ /\ r.out = "pending" /\ p.win # "gone"
              /\ UNCHANGED <<tab, tells, strayed>>
           \/ /\ r.out = "pending" /\ p.win = "gone"
              /\ SetTab(t, Retry(p))
              /\ tells' = tells \cup ({p.flow} \ {NoFlow})
              /\ UNCHANGED strayed
           \/ /\ r.out \in {"done", "error", "missing", "unreachable"}
              /\ SetTab(t, Ended(p, r.out))
              /\ strayed' = strayed \cup ({p.flow} \ {r.f, NoFlow})
              /\ UNCHANGED tells
  /\ SetReq(s, NoReq)
  /\ UNCHANGED <<flow, port, pages, up, saved, overwritten>> /\ Sync

-----------------------------------------------------------------------------
(* Requests at the server *)

\* performUiAddAccount: a name in use is confirmed first; then the listener for
\* the callback is started, if its port is free.
ServeAdd(s) ==
  /\ req[s].pc = "sent" /\ req[s].do = "add"
  /\ LET r == req[s]
     IN \/ /\ store[r.n] # NoTok /\ ~r.force
           /\ Answer(s, "confirm") /\ UNCHANGED <<flow, port>>
        \/ /\ (store[r.n] = NoTok \/ r.force) /\ (port # NoFlow \/ Unused = {})
           /\ Answer(s, "failed") /\ UNCHANGED <<flow, port>>
        \/ /\ (store[r.n] = NoTok \/ r.force) /\ port = NoFlow
           /\ \E f \in Unused :
                /\ f = CHOOSE x \in Unused : TRUE
                /\ port' = f
                /\ flow' = [flow EXCEPT ![f] = [@ EXCEPT !.st = "starting", !.n = r.n, !.who = r.who,
                              !.force = r.force, !.agreed = r.agreed, !.edited = r.edited]]
                /\ SetReq(s, [r EXCEPT !.pc = "started", !.f = f])
  /\ UNCHANGED <<tab, tells, pages, up, saved, overwritten, strayed>> /\ Sync

\* The listener is up: the login is recorded and waited for (flows.start).
ServeStarted(s) ==
  /\ req[s].pc = "started"
  /\ LET f == req[s].f
     IN flow' = [flow EXCEPT ![f] = [@ EXCEPT !.known = TRUE, !.late = up # "up",
                                     !.st = IF flow[f].st = "starting" THEN "wait" ELSE flow[f].st]]
  /\ Answer(s, "pending")
  /\ UNCHANGED <<tab, tells, port, pages, up, saved, overwritten, strayed>> /\ Sync

\* The effect of session.cancel: a wait ends, a login that has its code goes on.
Ending(f) == IF Waiting(f) THEN [flow[f] EXCEPT !.st = "error", !.cancel = "early"]
             ELSE [flow[f] EXCEPT !.cancel = IF @ = "no" /\ flow[f].st = "exchange" THEN "late" ELSE @]

\* Mutant of ServeCancel: the login is forgotten, its session left alone.
ServeForget ==
  /\ \E f \in tells : /\ tells' = tells \ {f}
                      /\ flow' = [flow EXCEPT ![f].known = FALSE, ![f].cancel = Ending(f).cancel]
  /\ UNCHANGED <<tab, req, port, pages, up, saved, overwritten, strayed>> /\ Sync

\* POST /api/accounts/add/cancel.
ServeCancel ==
  /\ \E f \in tells : /\ tells' = tells \ {f}
                      /\ IF flow[f].known THEN port' = Free(f) /\ flow' = [flow EXCEPT ![f] = Ending(f)]
                         ELSE UNCHANGED <<port, flow>>
  /\ UNCHANGED <<tab, req, pages, up, saved, overwritten, strayed>> /\ Sync

-----------------------------------------------------------------------------
(* The callback port and the logins *)

\* Mutant of Accepts: whatever login the code was given for.
AcceptsAny(g, f) == TRUE

\* The callback's state is that of the session that listens.
Accepts(g, f) == g = f

\* The operator authorizes on the page of f: its redirect reaches whoever listens.
Authorize(f) ==
  /\ f \in pages /\ pages' = pages \ {f}
  /\ IF port = NoFlow THEN UNCHANGED <<flow, port>>
     ELSE /\ flow' = [flow EXCEPT ![port] = IF Accepts(port, f) THEN [@ EXCEPT !.st = "exchange", !.via = f]
                                            ELSE [@ EXCEPT !.st = "error"]]
          /\ port' = NoFlow
  /\ UNCHANGED <<tab, req, tells, up, saved, overwritten, strayed>> /\ Sync

\* The operator declines on a page: an error is told to whoever listens.
Decline(f) ==
  /\ f \in pages /\ left.clicks > 0
  /\ pages' = pages \ {f}
  /\ left' = [left EXCEPT !.clicks = @ - 1]
  /\ IF port = NoFlow THEN UNCHANGED <<flow, port>>
     ELSE flow' = [flow EXCEPT ![port].st = "error"] /\ port' = NoFlow
  /\ UNCHANGED <<tab, req, tells, up, saved, overwritten, strayed, work, store, reg, cur, pass>>

\* Mutant of TimesOut: it is the wait that ends, not the listener.
TimesOutOnly(f) ==
  /\ flow[f].st = "wait"
  /\ flow' = [flow EXCEPT ![f].st = "error"]
  /\ UNCHANGED <<tab, req, tells, port, pages, up, saved, overwritten, strayed>> /\ Sync

\* Fifteen minutes without a callback.
TimesOut(f) ==
  /\ flow[f].st = "wait"
  /\ flow' = [flow EXCEPT ![f].st = "error"] /\ port' = Free(f)
  /\ UNCHANGED <<tab, req, tells, pages, up, saved, overwritten, strayed>> /\ Sync

\* exchangeCodeForTokens.
Exchange(f) ==
  /\ flow[f].st = "exchange"
  /\ \/ flow' = [flow EXCEPT ![f].st = "save"] /\ UNCHANGED left
     \/ Fault /\ flow' = [flow EXCEPT ![f].st = "error"]
  /\ UNCHANGED <<tab, req, tells, port, pages, up, saved, overwritten, strayed, work, store, reg, cur, pass>>

\* Mutant of Forced: an account saved meanwhile is replaced.
ForcedAlways(f) == TRUE

\* The overwriting the request asked for.
Forced(f) == flow[f].force

\* saveSnapshot: addAccountSnapshot, then a pass that pushes it.
Save(f) ==
  /\ flow[f].st = "save"
  /\ IF (store[flow[f].n] # NoTok /\ ~Forced(f)) \/ Managed(flow[f].who, flow[f].n)
     THEN /\ flow' = [flow EXCEPT ![f].st = "error"]
          /\ UNCHANGED <<store, pass, saved, overwritten>>
     ELSE /\ store' = [store EXCEPT ![flow[f].n] = [who |-> flow[f].who, gen |-> LoginGen]]
          /\ overwritten' = IF store[flow[f].n] = NoTok THEN overwritten ELSE overwritten \cup {f}
          /\ saved' = saved \cup {f}
          /\ pass' = [pass EXCEPT ![f] = Started(TRUE)]
          /\ flow' = [flow EXCEPT ![f].st = "sync"]
  /\ UNCHANGED <<tab, req, tells, port, pages, up, strayed, work, reg, cur, left>>

Settle(f) ==
  /\ flow[f].st = "sync" /\ Idle(f)
  /\ flow' = [flow EXCEPT ![f].st = "done"]
  /\ UNCHANGED <<tab, req, tells, port, pages, up, saved, overwritten, strayed>> /\ Sync

FlowStep(f) == TimesOut(f) \/ Exchange(f) \/ Save(f) \/ Settle(f)
               \/ (PassStep(f) /\ UNCHANGED addVars)

-----------------------------------------------------------------------------
AddTypeOK ==
  /\ \A t \in Actors : /\ tab[t].name \in Names \cup {NoName} /\ tab[t].flow \in Flows \cup {NoFlow}
                       /\ tab[t].win \in Flows \cup {"none", "blank", "gone"}
                       /\ tab[t].polling => tab[t].flow # NoFlow
  /\ \A s \in Slots : req[s].f \in Flows \cup {NoFlow} /\ req[s].out \in
       {"none", "confirm", "pending", "failed", "done", "error", "missing", "unreachable", "ok"}
  /\ (tells \cup pages \cup saved \cup overwritten \cup strayed) \subseteq Flows
  /\ port \in Flows \cup {NoFlow} /\ up \in {"up", "closing", "closed"}
  /\ \A f \in Flows : flow[f].st \in
       {"new", "starting", "wait", "exchange", "save", "sync", "done", "error"}

\* An account is overwritten by a login only when the operator was asked about it,
\* or asked for it to be logged in again, unless its name was typed afterwards, or the
\* dialog opened anew under the question (submitAdd, performUiAddAccount).
OverwriteAgreed == \A f \in overwritten : flow[f].n \in flow[f].agreed \/ flow[f].edited

\* A login is completed with a code that was given on its own authorize page, however
\* many pages of older logins are still open (startBrowserCallbackServer).
OwnCode == \A f \in saved : flow[f].via = f

\* Who has the callback port still waits for its callback: a login that was
\* cancelled, declined or completed does not keep the next one out
\* (startCodexBrowserLogin: endSession).
PortHeld == port # NoFlow => Waiting(port)

\* A login whose cancelling reached the server before its callback did saves nothing.
CancelledNotSaved == \A f \in saved : flow[f].cancel # "early"

\* Every login that waits for its callback is watched by a page, about to be, or
\* about to be cancelled, but for those a page lost to a late answer (pollAdd).
FlowWatched == \A f \in Flows : flow[f].st = "wait" /\ up = "up" =>
  \/ f \in tells \cup strayed
  \/ \E t \in Tabs : tab[t].flow = f /\ tab[t].polling
  \/ \E t \in Tabs : req[<<t, "add">>].f = f

\* A dialog that waits offers its button again, or closes (submitAdd, pollAdd).
DialogEnds == \A t \in Tabs : (tab[t].open /\ ~tab[t].ready) ~> (~tab[t].open \/ tab[t].ready)

\* Whoever listens on the callback port gives it back, whatever becomes of the
\* pages and the operator (startCodexBrowserLogin: the timeout).
PortFreed == \A f \in Flows : (port = f) ~> (port # f)
=============================================================================
