------------------------------ MODULE Desktop ------------------------------
(***************************************************************************)
(* The managed Codex Desktop: the processes of the app, desktop-state.json *)
(* that says which one codexm started, and the commands that move it to    *)
(* another account (src/src/desktop/, src/src/switching.ts,                *)
(* src/src/commands/{switch,desktop}.ts).  On macOS a switch is applied by *)
(* a script that runs in the page of the app: it waits until no thread is  *)
(* active and restarts the app server.  On Windows the app is quit and     *)
(* opened again.                                                           *)
(*                                                                         *)
(* A task is one command.  Its calls are steps, so that tasks, the scripts *)
(* in the page, the threads of the app and the user interleave.  The store *)
(* is reduced to the account of auth.json (see AccountStore), the switch   *)
(* lock to its holder (see SwitchLock), and app paths, ports, base URLs,   *)
(* warnings and the status line of a waiting switch are left out.          *)
(***************************************************************************)
EXTENDS Naturals, FiniteSets, FiniteSetsExt

CONSTANTS Tasks, NoTask,
          Pids,             \* processes of the app, numbered as they start
          Scripts, NoScript,   \* scripts in a page
          Threads,          \* conversation threads of the app
          Accounts, EmailOf,   \* saved accounts, and the email of each
          Proxy, NoAccount, \* auth.json is the synthetic proxy account, or missing
          NoPid,
          Works             \* workloads, see below

\* What a command is asked for; a switch names its account.
Jobs == [op : {"none", "launch"}, to : Accounts \cup {NoAccount}, force : BOOLEAN]
        \cup [op : {"switch"}, to : Accounts, force : BOOLEAN]

ASSUME DesktopAssumption ==
  /\ Pids \subseteq Nat /\ IsFiniteSet(Pids) /\ Pids # {} /\ NoPid \notin Pids
  /\ NoTask \notin Tasks /\ NoScript \notin Scripts
  /\ Proxy \notin Accounts /\ NoAccount \notin Accounts /\ Proxy # NoAccount
  \* The jobs of the tasks, and bounds: threads started, apps opened or quit by
  \* the user, calls that fail, operations interrupted.
  /\ \A w \in Works : /\ w.platform \in {"mac", "win"} /\ w.jobs \in [Tasks -> Jobs]
                      /\ w.auth \subseteq Accounts \cup {Proxy, NoAccount}
                      /\ {w.threads, w.user, w.faults, w.aborts} \subseteq Nat

VARIABLES auth,     \* the account of ~/.codex/auth.json
          lock,     \* the holder of the switch lock
          apps,     \* processes: not started, up, gone; started by codexm, or by the user
                    \* while codexm quit or started one (slipped); the account its app
                    \* server has read; its loaded threads, and those that block a switch
          managed,  \* the pid in desktop-state.json
          page,     \* scripts in pages
          pc, mem,  \* where each task is, and its local variables
          work, spent,
          told,     \* history: the last operation said that the app may run another account
          disturbed,  \* history: a thread was interrupted by a switch that should have waited
          spoiled,    \* history: what Desktops of the user were quit without asking
          restored    \* history: what failed launches did to auth.json

store == <<auth, lock>>
desk == <<apps, managed>>
hist == <<told, disturbed, spoiled, restored>>
deskVars == <<store, desk, page, pc, mem, work, spent, hist>>

NotStarted == [st |-> "new", ours |-> FALSE, slipped |-> FALSE, acct |-> NoAccount, loaded |-> {}, busy |-> {}]
UpApp(ours, slipped) == [NotStarted EXCEPT !.st = "up", !.ours = ours, !.slipped = slipped, !.acct = auth]
NoPage == [st |-> "none", of |-> NoPid, by |-> NoTask, left |-> {}, found |-> FALSE, force |-> FALSE, long |-> {}]
NoMem == [op |-> "none", to |-> NoAccount, force |-> FALSE, before |-> NoAccount, switched |-> FALSE,
          backup |-> FALSE, seen |-> {}, script |-> NoScript, end |-> "none"]

Up == {p \in Pids : apps[p].st = "up"}
Fresh == {p \in Pids : apps[p].st = "new"}

\* isManagedDesktopProcess: the recorded process runs and was given the debugging
\* port, which only macOS shows.
Managed(p) == p = managed /\ p \in Up /\ apps[p].ours /\ work.platform = "mac"

At(t, here) == pc[t] = here
Go(t, there) == pc' = [pc EXCEPT ![t] = there]
Set(t, r) == mem' = [mem EXCEPT ![t] = r]
Fail(n) == spent.faults + n <= work.faults /\ spent' = [spent EXCEPT !.faults = @ + n]
Works0 == spent' = spent

\* The app server starts: it reads auth.json, and its threads are gone.
Restarted(p) == [apps EXCEPT ![p].acct = auth, ![p].loaded = {}, ![p].busy = {}]
Gone(ps) == [p \in Pids |-> IF p \in ps THEN [NotStarted EXCEPT !.st = "gone"] ELSE apps[p]]
\* A script does not outlive the page it runs in.
PagesWithout(ps) == [s \in Scripts |-> IF page[s].of \in ps /\ page[s].st # "none"
                                         THEN [page[s] EXCEPT !.st = "lost"] ELSE page[s]]

\* No thread of p blocks any more.
Idle(p) == [s \in Scripts |-> IF page[s].of = p THEN [page[s] EXCEPT !.long = {}] ELSE page[s]]

\* The operation ends; r is what it reports of the app.
Ends(t, r) ==
  /\ Go(t, IF lock = t THEN "unlock" ELSE "end")
  /\ Set(t, [mem[t] EXCEPT !.end = r, !.script = NoScript])
  /\ told' = CASE r \in {"applied", "restarted", "killed", "none", "same"} -> FALSE
               [] r \in {"failed", "other", "threw"} -> TRUE
               [] OTHER -> told

-----------------------------------------------------------------------------
(* Switching the account: performManualSwitch, performAutoSwitch *)

Begin(t) ==
  /\ At(t, "idle") /\ work.jobs[t].op # "none" /\ mem[t].op = "none"
  /\ Set(t, [NoMem EXCEPT !.op = work.jobs[t].op, !.to = work.jobs[t].to, !.force = work.jobs[t].force])
  /\ Go(t, IF work.jobs[t].op = "launch" THEN "look" ELSE "lock")
  /\ UNCHANGED <<store, desk, page, work, spent, hist>>

TakeLock(t) ==
  /\ At(t, "lock")
  /\ IF lock = NoTask
       THEN lock' = t /\ Go(t, "auth") /\ UNCHANGED <<mem, told>>
       ELSE Ends(t, "busy") /\ UNCHANGED lock
  /\ UNCHANGED <<auth, desk, page, work, spent, disturbed, spoiled, restored>>

AfterAuth(t) == CASE mem[t].op = "switch" -> "skip" [] mem[t].op = "auto" -> "refresh" [] OTHER -> "open"

\* switchAccountPreservingProxyRuntime: with the proxy active only the upstream
\* changes.  A launch does not switch to the account that is current.
SwitchAuth(t) ==
  /\ At(t, "auth")
  /\ CASE auth = Proxy ->
            /\ IF mem[t].op = "launch"
                 THEN /\ Go(t, "open") /\ UNCHANGED told
                      /\ Set(t, [mem[t] EXCEPT !.before = auth])
                 ELSE Ends(t, "retained")
            /\ UNCHANGED auth
       [] auth # Proxy /\ mem[t].op = "launch" /\ mem[t].to = auth ->
            /\ Go(t, "open")
            /\ Set(t, [mem[t] EXCEPT !.before = auth])
            /\ UNCHANGED <<auth, told>>
       [] OTHER ->
            /\ auth' = mem[t].to
            /\ Go(t, AfterAuth(t))
            /\ Set(t, [mem[t] EXCEPT !.before = auth, !.backup = (auth # NoAccount), !.switched = TRUE])
            /\ UNCHANGED told
  /\ UNCHANGED <<lock, desk, page, work, spent, disturbed, spoiled, restored>>

\* The account cannot be read, or is not valid: nothing was written.
SwitchFails(t) ==
  /\ At(t, "auth") /\ Fail(1)
  /\ Ends(t, "refused")
  /\ UNCHANGED <<store, desk, page, work, disturbed, spoiled, restored>>

Unique(a) == \A b \in Accounts : EmailOf[b] = EmailOf[a] => b = a
SameEmail(p) == apps[p].acct \in Accounts /\ EmailOf[apps[p].acct] = EmailOf[auth]

\* Mutant of RuntimeIsTarget: an email that two accounts share is enough.
RuntimeHasEmail == \E p \in Up : Managed(p) /\ SameEmail(p)

\* shouldSkipManagedDesktopRefresh knows accounts by their email only.
RuntimeIsTarget == \E p \in Up : Managed(p) /\ SameEmail(p) /\ Unique(auth)

SkipRefresh(t) ==
  /\ At(t, "skip")
  /\ \/ /\ RuntimeIsTarget
        /\ Ends(t, "same") /\ Works0
     \/ /\ IF RuntimeIsTarget THEN Fail(1) ELSE Works0
        /\ Go(t, "refresh") /\ UNCHANGED <<mem, told>>
  /\ UNCHANGED <<store, desk, page, work, disturbed, spoiled, restored>>

-----------------------------------------------------------------------------
(* refreshManagedDesktopAfterSwitch, applyManagedSwitch *)

\* A script is put in the page of the managed app.
Inject(t) ==
  \E p \in Up, s \in Scripts :
    /\ Managed(p) /\ page[s].st = "none"
    /\ \A r \in Scripts : page[r].st = "none" => s = CHOOSE x \in Scripts : page[x].st = "none"
    /\ page' = [page EXCEPT ![s] = [NoPage EXCEPT !.st = IF mem[t].force THEN "restart" ELSE "first",
                                                  !.of = p, !.by = t, !.force = mem[t].force]]
    /\ Set(t, [mem[t] EXCEPT !.script = s])
    /\ Go(t, "await")

Refresh(t) ==
  /\ At(t, "refresh")
  /\ \/ work.platform = "win" /\ Go(t, "relook") /\ UNCHANGED <<page, mem, spent>>
     \/ /\ work.platform = "mac" /\ ~\E p \in Up : Managed(p)
        /\ Go(t, "list") /\ UNCHANGED <<page, mem, spent>>
     \/ Inject(t) /\ Works0
     \* The debugging port gives no target.
     \/ (\E p \in Up : Managed(p)) /\ Fail(1) /\ Go(t, "fallback") /\ UNCHANGED <<page, mem>>
  /\ UNCHANGED <<store, desk, work, hist>>

\* What is applied to an app says nothing of another that a launch has recorded since.
Answered(t) ==
  LET s == mem[t].script
  IN /\ At(t, "await") /\ page[s].st \in {"done", "failed", "lost"}
     /\ IF page[s].st = "done"
          THEN Ends(t, IF page[s].of = managed THEN "applied" ELSE "elsewhere")
          ELSE Go(t, "fallback") /\ UNCHANGED <<mem, told>>
     /\ page' = [page EXCEPT ![s] = NoPage]
     /\ UNCHANGED <<store, desk, work, spent, disturbed, spoiled, restored>>

\* The client gives up before the script does: a restart near the script's own
\* timeout outlasts the ten seconds that are added to it.  The script goes on.
GivesUp(t) ==
  LET s == mem[t].script
  IN /\ At(t, "await") /\ page[s].st \notin {"done", "failed", "lost"} /\ Fail(1)
     /\ Go(t, "fallback")
     /\ page' = [page EXCEPT ![s].by = NoTask]
     /\ UNCHANGED <<store, desk, mem, work, hist>>

\* The operation is interrupted; so is only the wait, not the script.
Interrupted(t) ==
  LET s == mem[t].script
  IN /\ At(t, "await") /\ spent.aborts < work.aborts
     /\ spent' = [spent EXCEPT !.aborts = @ + 1]
     /\ Ends(t, "failed")
     /\ page' = [page EXCEPT ![s] = IF page[s].st \in {"done", "failed", "lost"}
                                      THEN NoPage ELSE [page[s] EXCEPT !.by = NoTask]]
     /\ UNCHANGED <<store, desk, work, disturbed, spoiled, restored>>

\* --force quits every app that runs when the script fails, one of the user's too.
Fallback(t) ==
  /\ At(t, "fallback")
  /\ \/ ~mem[t].force /\ Ends(t, "failed") /\ UNCHANGED <<apps, page, spent>>
     \/ /\ mem[t].force /\ Works0
        /\ Ends(t, "killed")
        /\ apps' = Gone(Up) /\ page' = PagesWithout(Up)
     \/ mem[t].force /\ Fail(1) /\ Ends(t, "failed") /\ UNCHANGED <<apps, page>>
  /\ UNCHANGED <<store, managed, work, disturbed, spoiled, restored>>

ListOthers(t) ==
  /\ At(t, "list")
  /\ \/ Works0 /\ Ends(t, IF Up = {} THEN "none" ELSE "other")
     \/ Fail(1) /\ Ends(t, "failed")
  /\ UNCHANGED <<store, desk, page, work, disturbed, spoiled, restored>>

\* Mutant of Unlock: the lock of an operation that threw stays.
UnlockIfDone(t) ==
  /\ At(t, "unlock") /\ mem[t].op \in {"switch", "launch"}
  /\ lock' = IF mem[t].end = "refused" THEN lock ELSE NoTask
  /\ Go(t, "end")
  /\ UNCHANGED <<auth, desk, page, mem, work, spent, hist>>

Unlock(t) ==
  /\ At(t, "unlock") /\ mem[t].op \in {"switch", "launch"}
  /\ lock' = NoTask
  /\ Go(t, "end")
  /\ UNCHANGED <<auth, desk, page, mem, work, spent, hist>>

-----------------------------------------------------------------------------
(* The script in the page: buildManagedSwitchExpression *)

Script(s, r) == page' = [page EXCEPT ![s] = r]

\* collectActiveThreadIds lists the loaded threads, then reads them one by one.
Collect(s) ==
  /\ page[s].st \in {"first", "wait"}
  /\ Script(s, [page[s] EXCEPT !.st = IF @ = "first" THEN "read1" ELSE "read", !.left = apps[page[s].of].loaded,
                               !.found = FALSE, !.long = apps[page[s].of].busy])
  /\ UNCHANGED <<store, desk, pc, mem, work, spent, hist>>

\* Mutant of ReadThread: a thread that is read later counts more.
ReadThreadLast(s) ==
  /\ page[s].st \in {"read1", "read"}
  /\ \E th \in page[s].left :
       Script(s, [page[s] EXCEPT !.left = @ \ {th}, !.found = th \in apps[page[s].of].busy])
  /\ UNCHANGED <<store, desk, pc, mem, work, spent, hist>>

\* isBlockingThreadStatus
ReadThread(s) ==
  /\ page[s].st \in {"read1", "read"}
  /\ \E th \in page[s].left :
       Script(s, [page[s] EXCEPT !.left = @ \ {th}, !.found = @ \/ th \in apps[page[s].of].busy])
  /\ UNCHANGED <<store, desk, pc, mem, work, spent, hist>>

Collected(s) ==
  /\ page[s].st \in {"read1", "read"} /\ page[s].left = {}
  /\ Script(s, [page[s] EXCEPT !.st = IF page[s].found THEN "wait" ELSE "restart"])
  /\ UNCHANGED <<store, desk, pc, mem, work, spent, hist>>

\* A request to the app server fails, or the wait times out.
ScriptFails(s) ==
  /\ \/ page[s].st \in {"read1", "read"} /\ Fail(1)
     \/ page[s].st \in {"wait", "read"} /\ Works0
  /\ Script(s, IF page[s].by = NoTask THEN NoPage ELSE [page[s] EXCEPT !.st = "failed"])
  /\ UNCHANGED <<store, desk, pc, mem, work, hist>>

RestartServer(s) ==
  /\ page[s].st = "restart"
  /\ apps' = Restarted(page[s].of)
  /\ disturbed' = (disturbed \/ (~page[s].force /\ page[s].long # {}))
  /\ page' = [Idle(page[s].of) EXCEPT ![s].st = "ready"]
  /\ UNCHANGED <<store, managed, pc, mem, work, spent, told, spoiled, restored>>

\* The server answers account/read, or does not within ten seconds.
ServerReady(s) ==
  /\ page[s].st = "ready"
  /\ \E ok \in BOOLEAN :
       /\ IF ok THEN Works0 ELSE Fail(1)
       /\ Script(s, IF page[s].by = NoTask THEN NoPage
                    ELSE [page[s] EXCEPT !.st = IF ok THEN "done" ELSE "failed"])
  /\ UNCHANGED <<store, desk, pc, mem, work, hist>>

\* What is left of a script nobody waits for when its page is gone.
ScriptGone(s) ==
  /\ page[s].st = "lost" /\ page[s].by = NoTask
  /\ Script(s, NoPage)
  /\ UNCHANGED <<store, desk, pc, mem, work, spent, hist>>

-----------------------------------------------------------------------------
(* restartManagedDesktopSession, where a switch cannot be applied in the page *)

RestartLook(t) ==
  /\ At(t, "relook")
  /\ \/ Up = {} /\ Works0 /\ Ends(t, "none")
     \/ Up # {} /\ Works0 /\ Go(t, "recheck") /\ UNCHANGED <<mem, told>>
     \/ Up # {} /\ Fail(1) /\ Ends(t, "none")   \* the list is empty when it fails
  /\ UNCHANGED <<store, desk, page, work, disturbed, spoiled, restored>>

\* Mutant of RecordedRuns: it is enough that a process is recorded.
RecordedAtAll == managed # NoPid

\* isManagedDesktopInstanceRunning
RecordedRuns == managed \in Up

RestartCheck(t) ==
  /\ At(t, "recheck")
  /\ IF Up # {} /\ ~RecordedRuns
       THEN Ends(t, "other")
       ELSE /\ Set(t, [mem[t] EXCEPT !.seen = Up])
            /\ Go(t, IF Up = {} THEN "reopen" ELSE "requit")
            /\ UNCHANGED told
  /\ UNCHANGED <<store, desk, page, work, spent, disturbed, spoiled, restored>>

\* Apps of the user that are up: opened on their own, or since codexm's last look.
OfUser == {IF apps[p].slipped THEN "slipped" ELSE "plain" : p \in {q \in Up : ~apps[q].ours}}

\* Whatever is up is quit, gracefully, then by force.
RestartQuit(t) ==
  /\ At(t, "requit")
  /\ \/ /\ Works0 /\ apps' = Gone(Up)
        /\ spoiled' = spoiled \cup OfUser
        /\ Go(t, "reopen") /\ UNCHANGED <<mem, told>>
     \/ Fail(1) /\ Ends(t, "threw") /\ UNCHANGED <<apps, spoiled>>
  /\ UNCHANGED <<store, managed, page, work, disturbed, restored>>

Opened == [apps EXCEPT ![Min(Fresh)] = UpApp(TRUE, FALSE)]

RestartOpen(t) ==
  /\ At(t, "reopen") /\ Fresh # {}
  /\ \/ Works0 /\ apps' = Opened /\ Go(t, "retrack") /\ UNCHANGED <<mem, told>>
     \/ Fail(1) /\ Ends(t, "threw") /\ UNCHANGED apps
  /\ UNCHANGED <<store, managed, page, work, disturbed, spoiled, restored>>

\* resolveManagedDesktopState: the newest process that was not there before.
Newest(seen) == IF Up \ seen # {} THEN Max(Up \ seen) ELSE Max(Up)

RestartTrack(t) ==
  /\ At(t, "retrack")
  /\ managed' = IF Up = {} THEN NoPid ELSE Newest(mem[t].seen)
  /\ Ends(t, IF Up = {} THEN "failed" ELSE "restarted")
  /\ UNCHANGED <<store, apps, page, work, spent, disturbed, spoiled, restored>>

-----------------------------------------------------------------------------
(* codexm launch: handleLaunchCommand *)

NextOfLaunch(t) == IF mem[t].to = NoAccount THEN "open" ELSE "lock"

Look(t) ==
  /\ At(t, "look")
  /\ Set(t, [mem[t] EXCEPT !.seen = Up])
  /\ Go(t, IF Up = {} THEN NextOfLaunch(t) ELSE "confirm")
  /\ UNCHANGED <<store, desk, page, work, spent, hist>>

Confirm(t) ==
  /\ At(t, "confirm")
  /\ \/ Go(t, "quit") /\ UNCHANGED <<mem, told>>
     \/ Ends(t, "cancelled")
  /\ UNCHANGED <<store, desk, page, work, spent, disturbed, spoiled, restored>>

\* The app is quit before the lock is asked for.
Quit(t) ==
  /\ At(t, "quit")
  /\ \/ /\ Works0 /\ apps' = Gone(Up) /\ page' = PagesWithout(Up)
        /\ Go(t, NextOfLaunch(t)) /\ UNCHANGED <<mem, told>>
     \/ Fail(1) /\ Ends(t, "quitFailed") /\ UNCHANGED <<apps, page>>
  /\ UNCHANGED <<store, managed, work, disturbed, spoiled, restored>>

Open(t) ==
  /\ At(t, "open") /\ Fresh # {}
  /\ \/ /\ Works0 /\ apps' = Opened
        /\ IF work.platform = "win" THEN Ends(t, "other") ELSE Go(t, "track") /\ UNCHANGED <<mem, told>>
     \/ Fail(1) /\ Go(t, "restore") /\ UNCHANGED <<apps, mem, told>>
  /\ UNCHANGED <<store, managed, page, work, disturbed, spoiled, restored>>

\* The process is not found, or cannot be recorded: the launch fails.
Track(t) ==
  /\ At(t, "track")
  /\ \/ Up # {} /\ Works0 /\ managed' = Newest(mem[t].seen) /\ Go(t, "surface")
     \/ Up = {} /\ Works0 /\ managed' = NoPid /\ Go(t, "restore")
     \/ Up # {} /\ Fail(1) /\ managed' \in {managed, NoPid} /\ Go(t, "restore")
  /\ UNCHANGED <<store, apps, page, mem, work, hist>>

\* refreshManagedAccountSurface restarts the app server.
Surface(t) ==
  /\ At(t, "surface")
  /\ \/ (\E p \in Up : Managed(p) /\ apps' = Restarted(p) /\ page' = Idle(p)) /\ Works0 /\ Ends(t, "applied")
     \/ (~\E p \in Up : Managed(p)) /\ Works0 /\ Ends(t, "failed") /\ UNCHANGED <<apps, page>>
     \/ (\E p \in Up : Managed(p)) /\ Fail(1) /\ Ends(t, "failed") /\ UNCHANGED <<apps, page>>
  /\ UNCHANGED <<store, managed, work, disturbed, spoiled, restored>>

\* Mutant of Restored: the backup is forgotten.
RestoredNothing(t) == auth

\* restoreLaunchBackup copies the backup back, and without one removes auth.json.
Restored(t) == IF mem[t].backup THEN mem[t].before ELSE NoAccount

Restore(t) ==
  /\ At(t, "restore")
  /\ IF mem[t].to = NoAccount
       THEN UNCHANGED <<auth, restored>>
       ELSE /\ auth' = Restored(t)
            /\ restored' = restored \cup {[switched |-> mem[t].switched, same |-> Restored(t) = mem[t].before]}
  /\ Ends(t, "failed")
  /\ UNCHANGED <<lock, desk, page, work, spent, disturbed, spoiled>>

-----------------------------------------------------------------------------
(* The user and the threads of the app *)

\* A thread becomes active.  It blocks a switch, unless its activeFlags are empty:
\* then it is to the script like one that is loaded only.
ThreadStarts ==
  \E p \in Up, th \in Threads : \E blocking \in SUBSET {th} :
    /\ th \notin apps[p].busy /\ spent.threads < work.threads
    /\ spent' = [spent EXCEPT !.threads = @ + 1]
    /\ apps' = [apps EXCEPT ![p].busy = @ \cup blocking, ![p].loaded = @ \cup {th}]
    /\ UNCHANGED <<store, managed, page, pc, mem, work, hist>>

\* It ends, or loses its last flag.
ThreadEnds ==
  \E p \in Up : \E th \in apps[p].busy :
    /\ apps' = [apps EXCEPT ![p].busy = @ \ {th}]
    /\ page' = [s \in Scripts |-> IF page[s].of = p THEN [page[s] EXCEPT !.long = @ \ {th}] ELSE page[s]]
    /\ UNCHANGED <<store, managed, pc, mem, work, spent, hist>>

\* The task has looked what runs and is about to quit it; or it has seen to it that no
\* app runs and is about to start one, or to record it.
Starting(t) == \/ pc[t] \in {"requit", "reopen", "retrack"}
               \/ mem[t].op = "launch" /\ pc[t] \in {"lock", "auth", "open", "track"}

UserOpens ==
  /\ Up = {} /\ Fresh # {} /\ spent.user < work.user
  /\ spent' = [spent EXCEPT !.user = @ + 1]
  /\ apps' = [apps EXCEPT ![Min(Fresh)] = UpApp(FALSE, \E t \in Tasks : Starting(t))]
  /\ UNCHANGED <<store, managed, page, pc, mem, work, hist>>

UserQuits ==
  \E p \in Up :
    /\ spent.user < work.user
    /\ spent' = [spent EXCEPT !.user = @ + 1]
    /\ apps' = Gone({p}) /\ page' = PagesWithout({p})
    /\ UNCHANGED <<store, managed, pc, mem, work, hist>>

-----------------------------------------------------------------------------
ScriptStep(s) ==
  \/ Collect(s) \/ ReadThread(s) \/ Collected(s) \/ RestartServer(s) \/ ServerReady(s) \/ ScriptGone(s)

TaskStep(t) ==
  \/ TakeLock(t) \/ SwitchAuth(t) \/ SkipRefresh(t)
  \/ Refresh(t) \/ Answered(t) \/ Fallback(t) \/ ListOthers(t) \/ Unlock(t)
  \/ RestartLook(t) \/ RestartCheck(t) \/ RestartQuit(t) \/ RestartOpen(t) \/ RestartTrack(t)
  \/ Look(t) \/ Confirm(t) \/ Quit(t) \/ Open(t) \/ Track(t) \/ Surface(t) \/ Restore(t)

DeskNext ==
  \/ \E t \in Tasks : Begin(t) \/ TaskStep(t) \/ SwitchFails(t) \/ GivesUp(t) \/ Interrupted(t)
  \/ \E s \in Scripts : ScriptStep(s) \/ ScriptFails(s)
  \/ ThreadStarts \/ ThreadEnds \/ UserOpens \/ UserQuits

DeskInit ==
  /\ work \in Works
  /\ auth \in work.auth
  /\ lock = NoTask
  /\ \E start \in work.desktop :
       /\ apps = [p \in Pids |-> IF start = "none" \/ p # Min(Pids) THEN NotStarted
                                 ELSE UpApp(start = "ours", FALSE)]
       /\ managed = IF start = "ours" THEN Min(Pids) ELSE NoPid
  /\ page = [s \in Scripts |-> NoPage]
  /\ pc = [t \in Tasks |-> "idle"] /\ mem = [t \in Tasks |-> NoMem]
  /\ spent = [faults |-> 0, threads |-> 0, user |-> 0, aborts |-> 0]
  /\ told = FALSE /\ disturbed = FALSE /\ spoiled = {} /\ restored = {}

\* Every call of a task returns, and so do the steps of a script; the timeout of a
\* wait fires.  Threads need not end.
DeskFairness ==
  /\ \A t \in Tasks : WF_deskVars(TaskStep(t))
  /\ \A s \in Scripts : WF_deskVars(ScriptStep(s)) /\ WF_deskVars(ScriptFails(s))

DeskSpec == DeskInit /\ [][DeskNext]_deskVars /\ DeskFairness

-----------------------------------------------------------------------------
(* Properties *)

AtRest == \A t \in Tasks : pc[t] \in {"idle", "end"}

\* The types of the variables (desktop-state.json, auth.json, the page scripts).
DeskTypeOK ==
  /\ auth \in Accounts \cup {Proxy, NoAccount} /\ lock \in Tasks \cup {NoTask}
  /\ apps \in [Pids -> [st : {"new", "up", "gone"}, ours : BOOLEAN, slipped : BOOLEAN,
                        acct : Accounts \cup {Proxy, NoAccount},
                        loaded : SUBSET Threads, busy : SUBSET Threads]]
  /\ managed \in Pids \cup {NoPid}
  /\ \A s \in Scripts : page[s].st = "none" => page[s] = NoPage
  /\ \A t \in Tasks : pc[t] = "await" => /\ page[mem[t].script].by = t
                                         /\ page[mem[t].script].st # "none"
  /\ lock # NoTask => pc[lock] \notin {"idle", "lock", "end"}

\* A switch that was not forced never interrupts a thread that has been active, and not
\* with empty activeFlags, since its check of the threads began (isBlockingThreadStatus;
\* a thread with empty flags is interrupted, as codex-desktop-launch.test.ts has it).
Undisturbed == ~disturbed

\* When no operation is under way, the managed app runs the account of auth.json,
\* unless the last operation reported that it may not: two accounts with one email,
\* scripts of interrupted switches and launches without the lock do not change that
\* (refreshManagedDesktopAfterSwitch, shouldSkipManagedDesktopRefresh).
DesktopFollows ==
  AtRest /\ ~told => \A p \in Up : Managed(p) => apps[p].acct = auth

\* What is up when a switch quits the Desktop without asking is no app of the user's,
\* unless it was opened after codexm's look at what runs, before the quit, or while
\* codexm started its own, for which it may then be taken; what --force quits is left
\* out (restartManagedDesktopSession, resolveManagedDesktopState).
UserDesktopSpared == "plain" \notin spoiled

\* A launch that fails after it switched the account leaves auth.json as it found it
\* (restoreLaunchBackup).
LaunchRestores == \A r \in restored : r.switched => r.same

\* Whoever takes the switch lock gives it back, however the app, its page and its
\* threads behave (performManualSwitch, handleLaunchCommand: finally).
LockReturned == \A t \in Tasks : (lock = t) ~> (lock # t)
=============================================================================
