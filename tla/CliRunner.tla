----------------------------- MODULE CliRunner -----------------------------
(***************************************************************************)
(* `codexm run` (src/src/codex-cli-runner.ts, runCodexWithAutoRestart): a  *)
(* wrapper that restarts its codex child when ~/.codex/auth.json changes.  *)
(* One event loop; everything behind an await, a timer or an event is an   *)
(* action of its own: the watcher's callback, the debounce timer,          *)
(* checkAuthChange, the phases of killAndRestart, the child's exit and the *)
(* session lookup that follows a natural exit.                             *)
(*                                                                         *)
(* auth.json is its content, which is also its hash; a codex child has the *)
(* content it read when it started.  An earlier content may come back, as  *)
(* when somebody switches to an account and back again.  Session ids are   *)
(* reduced to whether one is known.                                        *)
(***************************************************************************)
EXTENDS Naturals, Sequences, FiniteSets

CONSTANTS Contents,      \* what auth.json may hold
          MaxSwitches,   \* bound: replacements of auth.json
          MaxErrors      \* bound: "error" events of the watcher

ASSUME CliRunnerAssumption ==
  Contents \subseteq Nat \ {0} /\ MaxSwitches \in Nat /\ MaxErrors \in Nat

VARIABLES file,     \* auth.json
          hash,     \* currentAuthHash
          kids,     \* the children in the order they were spawned
          child,    \* currentProcess, 0: null
          old,      \* oldProcess of the restart in progress
          resumable, \* buildCodexResumePlan(...).resumable
          known,    \* is currentSessionId set
          restart,  \* where killAndRestart is; not "idle": isRestarting
          ending,   \* children whose natural exit waits for the session lookup
          watch,    \* the watcher: "on", "broken" (restarted in 1 s), "closed"
          timer,    \* is the debounce timer set
          asked,    \* a checkAuthChange waits for readAuthHash
          reads,    \* hashes read by checkAuthChange and not compared yet
          stopped, resolved,
          switches, errors,
          missed,   \* history: auth.json got back the content the runner knows while
                    \* codex ran with another one
          aborted   \* history: somebody aborted or terminated the runner

replacedVars == <<switches, missed>>
checkVars == <<watch, timer, asked, reads, errors, replacedVars>>
endVars == <<ending, stopped, resolved, aborted>>
runnerVars == <<file, hash, kids, child, old, resumable, known, restart, checkVars, endVars>>

\* st     starting (auth.json not read yet), running, exited (the runner does
\*        not know), reaped (exitCode is set)
\* told   SIGTERM was sent;  killed: SIGKILL was sent
\* expected  in expectedExitChildren
NotRead == 0
NewChild == [st |-> "starting", auth |-> NotRead, told |-> FALSE, killed |-> FALSE,
             expected |-> FALSE]
Kids == DOMAIN kids
Running(c) == kids[c].st \in {"starting", "running"}

-----------------------------------------------------------------------------

\* The hash is read, codex is spawned and the watcher is started.
RunnerInit ==
  /\ file \in Contents /\ hash = file
  /\ kids = <<NewChild>> /\ child = 1 /\ old = 0
  /\ resumable \in BOOLEAN
  /\ known \in (IF resumable THEN BOOLEAN ELSE {FALSE})
  /\ restart = "idle"
  /\ watch = "on" /\ timer = FALSE /\ asked = FALSE /\ reads = {} /\ errors = 0
  /\ switches = 0 /\ missed = FALSE
  /\ ending = {} /\ stopped = FALSE /\ resolved = FALSE /\ aborted = FALSE

\* auth.json gets the content v, perhaps one it had before; the watcher compares
\* hashes, and does not see that codex has read another content in between.
NewContent(v) ==
  /\ switches < MaxSwitches /\ v # file
  /\ switches' = switches + 1
  /\ file' = v
  /\ missed' = (missed \/ (restart = "idle" /\ v = hash /\ child # 0
                             /\ kids[child].auth \notin {NotRead, v}))

\* Mutant of Replace: the watch is on the file, which a rename replaces.
ReplaceWatchedInode(v) ==
  /\ NewContent(v)
  /\ timer' = (timer \/ watch = "on")
  /\ watch' = IF watch = "on" THEN "lost" ELSE watch
  /\ UNCHANGED <<hash, kids, child, old, resumable, known, restart, asked, reads, errors, endVars>>

\* codexm replaces auth.json; the watcher's callback (re)starts the debounce.
Replace(v) ==
  /\ NewContent(v)
  /\ timer' = (timer \/ watch = "on")
  /\ UNCHANGED <<hash, kids, child, old, resumable, known, restart, watch, asked, reads, errors, endVars>>

\* The debounce timer fires: checkAuthChange.
Debounced ==
  /\ timer
  /\ timer' = FALSE
  /\ asked' = (asked \/ (~stopped /\ restart = "idle"))
  /\ UNCHANGED <<file, hash, kids, child, old, resumable, known, restart, watch, reads, errors, replacedVars, endVars>>

ReadAuthHash ==
  /\ asked
  /\ asked' = FALSE
  /\ reads' = reads \cup {file}
  /\ UNCHANGED <<file, hash, kids, child, old, resumable, known, restart, watch, timer, errors, replacedVars, endVars>>

\* Mutant of KillAndRestart: the old process is not waited for.
KillAndSpawn ==
  /\ restart = "idle" /\ ~stopped
  /\ old' = child
  /\ child' = 0
  /\ kids' = IF child = 0 THEN kids
             ELSE [kids EXCEPT ![child] = [@ EXCEPT !.told = TRUE, !.expected = TRUE]]
  /\ restart' = "hash"

\* killAndRestart up to its first await: SIGTERM to the current child.
KillAndRestart ==
  /\ restart = "idle" /\ ~stopped
  /\ old' = child
  /\ IF child = 0
       THEN restart' = "hash" /\ UNCHANGED kids
       ELSE /\ kids' = [kids EXCEPT ![child] = [@ EXCEPT !.told = TRUE, !.expected = TRUE]]
            /\ restart' = "term"
  /\ UNCHANGED child

\* Mutant of CompareHash: stopped is looked at before the file is read only.
CompareHashUnguarded(v) ==
  /\ v \in reads
  /\ reads' = reads \ {v}
  /\ IF v # hash /\ restart = "idle"
       THEN restart' = "hash" /\ old' = child /\ UNCHANGED <<kids, child>>
       ELSE UNCHANGED <<kids, child, old, restart>>
  /\ UNCHANGED <<file, hash, resumable, known, watch, timer, asked, errors, replacedVars, endVars>>

\* checkAuthChange goes on after the read.
CompareHash(v) ==
  /\ v \in reads
  /\ reads' = reads \ {v}
  /\ \/ v # hash /\ KillAndRestart
     \/ (v = hash \/ restart # "idle" \/ stopped) /\ UNCHANGED <<kids, child, old, restart>>
  /\ UNCHANGED <<file, hash, resumable, known, watch, timer, asked, errors, replacedVars, endVars>>

\* After waitForChildExit: currentProcess is cleared; a stop is noticed here.
AfterWait ==
  /\ child' = IF child = old THEN 0 ELSE child
  /\ restart' = IF stopped THEN "idle" ELSE "hash"

ExitSeen ==
  /\ restart \in {"term", "kill"} /\ kids[old].st = "reaped"
  /\ AfterWait
  /\ UNCHANGED <<file, hash, kids, old, resumable, known, checkVars, endVars>>

\* killTimeoutMs without an exit: SIGKILL.
TermTimeout ==
  /\ restart = "term" /\ kids[old].st # "reaped"
  /\ kids' = [kids EXCEPT ![old].killed = TRUE]
  /\ restart' = "kill"
  /\ UNCHANGED <<file, hash, child, old, resumable, known, checkVars, endVars>>

\* One more second without an exit: the restart goes on all the same.
KillTimeout ==
  /\ restart = "kill" /\ kids[old].st # "reaped"
  /\ AfterWait
  /\ UNCHANGED <<file, hash, kids, old, resumable, known, checkVars, endVars>>

\* currentAuthHash is read again before the new child is spawned.
RereadHash ==
  /\ restart = "hash"
  /\ hash' = file
  /\ restart' = "args"
  /\ UNCHANGED <<file, kids, child, old, resumable, known, checkVars, endVars>>

\* buildResumeArgsForRestart looks for the session, then spawnCodex.
SpawnAgain ==
  /\ restart = "args"
  /\ known' \in (IF resumable THEN {known, TRUE} ELSE {FALSE})
  /\ kids' = Append(kids, NewChild)
  /\ child' = Len(kids')
  /\ restart' = "idle"
  /\ UNCHANGED <<file, hash, old, resumable, checkVars, endVars>>

\* waitForCurrentSessionId finds the session of the running child.
DiscoverSession ==
  /\ resumable /\ ~known /\ ~stopped
  /\ known' = TRUE
  /\ UNCHANGED <<file, hash, kids, child, old, resumable, restart, checkVars, endVars>>

-----------------------------------------------------------------------------
(* The children *)

\* codex reads auth.json once, when it starts.
ChildReadsAuth(c) ==
  /\ kids[c].st = "starting"
  /\ kids' = [kids EXCEPT ![c] = [@ EXCEPT !.st = "running", !.auth = file]]
  /\ UNCHANGED <<file, hash, child, old, resumable, known, restart, checkVars, endVars>>

\* A child ends: by itself, or because it was told to.
ChildExits(c) ==
  /\ Running(c)
  /\ kids' = [kids EXCEPT ![c].st = "exited"]
  /\ UNCHANGED <<file, hash, child, old, resumable, known, restart, checkVars, endVars>>

\* stopped = true, stopWatcherOnly(), finish().
Stop ==
  /\ stopped' = TRUE /\ watch' = "closed" /\ timer' = FALSE

\* Mutant of HandleChildExit: every exit clears currentProcess.
HandleAnyChildExit(c) ==
  /\ kids[c].st = "exited"
  /\ kids' = [kids EXCEPT ![c].st = "reaped"]
  /\ child' = 0
  /\ IF kids[c].expected \/ stopped \/ child # c
       THEN UNCHANGED <<watch, timer, endVars>>
       ELSE Stop /\ resolved' = TRUE /\ UNCHANGED <<ending, aborted>>
  /\ UNCHANGED <<file, hash, old, resumable, known, restart, asked, reads, errors, replacedVars>>

\* The "exit" event: handleChildExit up to its await.  Only the unexpected exit
\* of the current child ends the runner, after a last look for its session.
HandleChildExit(c) ==
  /\ kids[c].st = "exited"
  /\ kids' = [kids EXCEPT ![c].st = "reaped"]
  /\ child' = IF child = c THEN 0 ELSE child
  /\ IF kids[c].expected \/ stopped \/ child # c
       THEN UNCHANGED <<watch, timer, endVars>>
       ELSE IF resumable /\ ~known
       THEN ending' = ending \cup {c} /\ UNCHANGED <<watch, timer, stopped, resolved, aborted>>
       ELSE Stop /\ resolved' = TRUE /\ UNCHANGED <<ending, aborted>>
  /\ UNCHANGED <<file, hash, old, resumable, known, restart, asked, reads, errors, replacedVars>>

\* refreshCurrentSessionId(false) returned to handleChildExit.
EndAfterLookup(c) ==
  /\ c \in ending
  /\ ending' = ending \ {c}
  /\ known' \in {known, TRUE}
  /\ Stop /\ resolved' = TRUE
  /\ UNCHANGED <<file, hash, kids, child, old, resumable, restart, asked, reads, errors, replacedVars, aborted>>

-----------------------------------------------------------------------------

\* The watcher fails, and with it the events of the next second; ...
WatchError ==
  /\ watch = "on" /\ errors < MaxErrors
  /\ errors' = errors + 1
  /\ watch' = "broken"
  /\ UNCHANGED <<file, hash, kids, child, old, resumable, known, restart, timer, asked, reads, replacedVars, endVars>>

\* ... then it is stopped, with a pending debounce timer, and started again.
WatchAgain ==
  /\ watch = "broken"
  /\ watch' = "on" /\ timer' = FALSE
  /\ UNCHANGED <<file, hash, kids, child, old, resumable, known, restart, asked, reads, errors, replacedVars, endVars>>

\* The abort listeners, or the SIGTERM handler, which does not resolve the run.
Abort(resolves) ==
  /\ ~stopped
  /\ Stop /\ resolved' = resolves /\ aborted' = TRUE
  /\ kids' = IF child = 0 \/ kids[child].st = "reaped" THEN kids
             ELSE [kids EXCEPT ![child] = [@ EXCEPT !.told = TRUE, !.expected = TRUE]]
  /\ UNCHANGED <<file, hash, child, old, resumable, known, restart, ending, asked, reads, errors, replacedVars>>

Runner ==
  \/ Debounced \/ ReadAuthHash \/ (\E v \in reads : CompareHash(v))
  \/ ExitSeen \/ TermTimeout \/ KillTimeout \/ RereadHash \/ SpawnAgain
  \/ (\E c \in Kids : HandleChildExit(c) \/ EndAfterLookup(c) \/ ChildReadsAuth(c))
  \/ WatchAgain

RunnerNext ==
  \/ Runner
  \/ (\E v \in Contents : Replace(v)) \/ DiscoverSession \/ WatchError
  \/ \E c \in Kids : ChildExits(c)
  \/ \E resolves \in BOOLEAN : Abort(resolves)

RunnerSpec == RunnerInit /\ [][RunnerNext]_runnerVars

\* The event loop turns, timers fire, and a codex that runs reads auth.json.
RunnerFairSpec == RunnerSpec /\ WF_runnerVars(Runner)

-----------------------------------------------------------------------------
(* Properties *)

RunnerTypeOK ==
  /\ file \in Contents /\ hash \in Contents
  /\ kids \in Seq([st : {"starting", "running", "exited", "reaped"}, auth : Contents \cup {NotRead},
                   told : BOOLEAN, killed : BOOLEAN, expected : BOOLEAN])
  /\ child \in 0..Len(kids) /\ old \in 0..Len(kids)
  /\ resumable \in BOOLEAN /\ known \in BOOLEAN
  /\ restart \in {"idle", "term", "kill", "hash", "args"}
  /\ watch \in {"on", "broken", "closed"} /\ timer \in BOOLEAN
  /\ asked \in BOOLEAN /\ reads \subseteq Contents
  /\ ending \subseteq Kids /\ stopped \in BOOLEAN /\ resolved \in BOOLEAN
  /\ aborted \in BOOLEAN
  /\ errors \in 0..MaxErrors /\ switches \in 0..MaxSwitches /\ missed \in BOOLEAN

\* Two codex processes never share the terminal, however changes, timeouts and
\* exits interleave: a child that still runs while its successor does was sent
\* SIGKILL and waited for.
OneChild ==
  Cardinality({c \in Kids : Running(c) /\ ~kids[c].killed}) <= 1

\* currentProcess is the youngest child, and what is not current any more has
\* exited or was told to: no child is lost sight of.
NoneForgotten ==
  /\ child \in {0, Len(kids)}
  /\ \A c \in Kids \ {child} : Running(c) => kids[c].expected

\* When the run of a codex that cannot be resumed has ended by itself, no codex
\* stays behind that was not told to stop.  (One that can be resumed may be
\* restarted while the exit of its predecessor waits for the session lookup,
\* an aborted runner while killAndRestart is between its wait and its spawn.)
NoOrphan ==
  resolved /\ ~aborted /\ ~resumable => \A c \in Kids : Running(c) => kids[c].told

UpToDate == stopped \/ (child # 0 /\ kids[child].auth = file)

\* The current child ends up with the last auth.json, or the runner has stopped, as
\* long as the watcher has not failed and no content that came back went unnoticed
\* (checkAuthChange, killAndRestart).
FollowsAuth == <>[](errors > 0 \/ missed \/ UpToDate)

\* The runner and its children: one codex runs, the runner knows it, and none stays
\* behind (runCodexWithAutoRestart).
ChildInv == RunnerTypeOK /\ OneChild /\ NoneForgotten /\ NoOrphan
=============================================================================
