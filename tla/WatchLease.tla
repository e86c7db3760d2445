----------------------------- MODULE WatchLease -----------------------------
(***************************************************************************)
(* The foreground watch of the dashboard (`codexm tui`) and the lease      *)
(* watch-lease.json that keeps two dashboards from watching the managed    *)
(* Desktop at once, next to the daemon's own watch, which takes no lease   *)
(* (src/src/watch/{lease,process}.ts, src/src/commands/tui-runtime.ts, the *)
(* loop of src/src/commands/tui.ts).                                       *)
(*                                                                         *)
(* The dashboard starts its monitors each time it opens: a codex session   *)
(* in between closes one set and the same process opens the next.  Within  *)
(* a set, reconciliations (the first one, those of the timer, those asked  *)
(* for by an operation), the end of a session and the stop of the set run  *)
(* concurrently and share its variables.  Each read, creation, write and   *)
(* removal of the lease file is a step.                                    *)
(***************************************************************************)
EXTENDS Daemon

CONSTANTS Monitors,    \* the sets of monitors
          ProcessOf,   \* the dashboard process each belongs to
          Sessions, NoSession,   \* foreground watch sessions
          NoLease,     \* there is no watch-lease.json
          Screens      \* workloads: what runs on the daemon, the monitors that are
                       \* opened, and bounds on the reconciliations asked for by
                       \* operations, on the times Desktop quits and on processes killed

Processes == {ProcessOf[m] : m \in Monitors}
Kinds == {"timer", "main", "end"}
Threads == Monitors \X Kinds

ASSUME WatchLeaseAssumption ==
  /\ Monitors # {} /\ ProcessOf \in [Monitors -> Tui]
  /\ NoSession \notin Sessions
  /\ NoLease \notin [pid : Tui, full : BOOLEAN, auto : BOOLEAN, by : Threads]
  /\ Screens \subseteq [load : Loads, opened : SUBSET Monitors, now : Nat, quits : Nat, kills : Nat]

VARIABLES lease,      \* watch-lease.json: the owner, whether its content is written,
                      \* auto_switch, and which creation of the file this is
          life,       \* of each set: "none", "opening", "open", "stopping", "closed"
          held,       \* the variables of each set: the session it can abort, the one
                      \* it waits for, and ownsForegroundWatchLease
          thr,        \* where each thread is, and what it has read
          sess,       \* sessions: "none", the set that runs it with "run", "aborted",
                      \* "closing", or "ended"
          dead,       \* dashboards that were killed or have ended
          desktop,    \* the managed Desktop is running
          screen, spent,
          crossed     \* history: an overlap or a removal that breaks the protocol

watching == <<lease, life, held, thr, sess, dead, desktop, screen, spent, crossed>>

Resting == [at |-> "idle", auto |-> FALSE, saw |-> NoSession, then |-> "idle", judged |-> NoLease]
Nothing == [ctl |-> NoSession, promise |-> NoSession, owns |-> FALSE]

DetachedWatch == Running /\ "watch" \in file.feats
AutoSwitch == "auto" \in Recorded

Set(u) == u[1]
Pid(u) == ProcessOf[u[1]]
Is(u, here) == thr[u].at = here /\ Pid(u) \notin dead
Unstarted == {s \in Sessions : sess[s].st \in {"none", "ended"} /\ \A u \in Threads : thr[u].saw # s}
Active(s) == sess[s].st \in {"run", "aborted", "closing"}
Own(u) == lease # NoLease /\ lease.full /\ lease.pid = Pid(u)
\* readState gives nothing for a file that is not written yet.
Readable == lease # NoLease /\ lease.full
OwnerDead == Readable /\ lease.pid \in dead

To(u, v) == thr' = [thr EXCEPT ![u] = v]
On(u, to) == To(u, [thr[u] EXCEPT !.at = to])
Rest(u) == To(u, Resting)

\* Threads between the check of foregroundWatchPromise and its assignment.
Starting(u) == thr[u].at \in {"detached", "leased", "desktop", "claim", "create", "write", "reread"}
               \/ (thr[u].at = "clear" /\ thr[u].then \in {"desktop", "create"})
StartingTwice(u) == \E w \in Threads : w # u /\ Pid(w) = Pid(u) /\ Starting(w)

\* An ended session of the same process, or a stop, is still giving the lease back.
Releasing(u) ==
  \E w \in Threads : w # u /\ Pid(w) = Pid(u) /\ thr[w].at \in {"readBack", "giveBack"}

\* The dashboard is shown once the first reconciliation has ended.
Shown(m) == life[m] = "open" \/ (life[m] = "opening" /\ thr[<<m, "main">>].at = "idle")

-----------------------------------------------------------------------------
(* reconcileForegroundWatch *)

\* The timer, five seconds after the first one, or an operation of the dashboard.
Reconcile(u) ==
  /\ u[2] \in {"timer", "main"} /\ Is(u, "idle")
  /\ Shown(Set(u))
  /\ IF u[2] = "main"
       THEN spent.now < screen.now /\ spent' = [spent EXCEPT !.now = @ + 1]
       ELSE UNCHANGED spent
  /\ To(u, [Resting EXCEPT !.at = "auto"])
  /\ life' = [life EXCEPT ![Set(u)] = "open"]
  /\ UNCHANGED <<lease, held, sess, dead, desktop, screen, crossed>>

ReadAuto(u) ==
  /\ Is(u, "auto")
  /\ To(u, [Resting EXCEPT !.auto = AutoSwitch,
              !.at = IF held[Set(u)].promise = NoSession THEN "detached" ELSE "yield"])
  /\ crossed' = (crossed \/ (held[Set(u)].promise = NoSession /\ StartingTwice(u)))
  /\ UNCHANGED <<lease, life, held, sess, dead, desktop, screen, spent>>

\* A running session gives way to the daemon's watch ...
YieldToDaemon(u) ==
  /\ Is(u, "yield")
  /\ On(u, IF DetachedWatch THEN "abort" ELSE "keep")
  /\ UNCHANGED <<lease, life, held, sess, dead, desktop, screen, spent, crossed>>

\* ... to another owner of the lease, and to a change of auto_switch.
KeepLease(u) ==
  /\ Is(u, "keep")
  /\ CASE OwnerDead -> To(u, [thr[u] EXCEPT !.at = "clear", !.then = "idle", !.judged = lease])
       [] Readable /\ ~OwnerDead /\ (~Own(u) \/ lease.auto # thr[u].auto) -> On(u, "abort")
       [] OTHER -> Rest(u)
  /\ UNCHANGED <<lease, life, held, sess, dead, desktop, screen, spent, crossed>>

-----------------------------------------------------------------------------
(* startForegroundWatch, WatchLeaseManager.claimForeground *)

StartIfNoDaemon(u) ==
  /\ Is(u, "detached")
  /\ IF DetachedWatch THEN Rest(u) ELSE On(u, "leased")
  /\ UNCHANGED <<lease, life, held, sess, dead, desktop, screen, spent, crossed>>

\* Mutant of StartIfNoOwner: it does not look whether the owner runs.
StartIfNoLease(u) ==
  /\ Is(u, "leased")
  /\ IF Readable /\ ~Own(u) THEN Rest(u) ELSE On(u, "desktop")
  /\ UNCHANGED <<lease, life, held, sess, dead, desktop, screen, spent, crossed>>

StartIfNoOwner(u) ==
  /\ Is(u, "leased")
  /\ CASE OwnerDead -> To(u, [thr[u] EXCEPT !.at = "clear", !.then = "desktop", !.judged = lease])
       [] Readable /\ ~OwnerDead /\ ~Own(u) -> Rest(u)
       [] OTHER -> On(u, "desktop")
  /\ UNCHANGED <<lease, life, held, sess, dead, desktop, screen, spent, crossed>>

StartIfDesktop(u) ==
  /\ Is(u, "desktop")
  /\ IF desktop THEN On(u, "claim") ELSE Rest(u)
  /\ UNCHANGED <<lease, life, held, sess, dead, desktop, screen, spent, crossed>>

\* getStatus removes the lease of an owner that was dead when it was read.
ClearDead(u) ==
  /\ Is(u, "clear")
  /\ lease' = NoLease
  /\ crossed' = (crossed \/ lease \notin {thr[u].judged, NoLease})
  /\ IF thr[u].then = "idle" THEN Rest(u) ELSE On(u, thr[u].then)
  /\ UNCHANGED <<life, held, sess, dead, desktop, screen, spent>>

\* Mutant of StartSession: the session is not kept.
StartSessionForgotten(u) ==
  /\ Unstarted # {}
  /\ LET s == CHOOSE s \in Unstarted : TRUE
     IN sess' = [sess EXCEPT ![s] = [st |-> "run", of |-> Pid(u)]]
  /\ UNCHANGED <<held, crossed>>
  /\ Rest(u)

\* The lease is acquired: the session starts.
StartSession(u) ==
  /\ Unstarted # {}
  /\ LET s == CHOOSE s \in Unstarted : TRUE
     IN /\ sess' = [sess EXCEPT ![s] = [st |-> "run", of |-> Set(u)]]
        /\ held' = [held EXCEPT ![Set(u)] = [ctl |-> s, promise |-> s, owns |-> TRUE]]
  /\ crossed' = (crossed \/ life[Set(u)] \in {"stopping", "closed"} \/ Releasing(u))
  /\ Rest(u)

Claim(u) ==
  /\ Is(u, "claim")
  /\ IF Own(u)
       THEN StartSession(u)
       ELSE /\ CASE OwnerDead -> To(u, [thr[u] EXCEPT !.at = "clear", !.then = "create", !.judged = lease])
                 [] Readable /\ ~OwnerDead -> Rest(u)
                 [] OTHER -> On(u, "create")
            /\ UNCHANGED <<held, sess, crossed>>
  /\ UNCHANGED <<lease, life, dead, desktop, screen, spent>>

\* Mutant of Create: the file is written whether it exists or not.
CreateAnyway(u) ==
  /\ Is(u, "create")
  /\ lease' = [pid |-> Pid(u), full |-> FALSE, auto |-> thr[u].auto, by |-> u]
  /\ On(u, "write")
  /\ UNCHANGED <<life, held, sess, dead, desktop, screen, spent, crossed>>

\* writeFile with flag wx creates the file, then writes it.
Create(u) ==
  /\ Is(u, "create")
  /\ IF lease = NoLease
       THEN /\ lease' = [pid |-> Pid(u), full |-> FALSE, auto |-> thr[u].auto, by |-> u]
            /\ On(u, "write")
       ELSE UNCHANGED lease /\ On(u, "reread")
  /\ UNCHANGED <<life, held, sess, dead, desktop, screen, spent, crossed>>

Write(u) ==
  /\ Is(u, "write")
  /\ lease' = IF lease # NoLease /\ lease.by = u THEN [lease EXCEPT !.full = TRUE] ELSE lease
  /\ StartSession(u)
  /\ UNCHANGED <<life, dead, desktop, screen, spent>>

\* Somebody else has created it: the lease of this process counts all the same.
Reread(u) ==
  /\ Is(u, "reread")
  /\ IF Own(u)
       THEN StartSession(u)
       ELSE /\ IF OwnerDead
                 THEN To(u, [thr[u] EXCEPT !.at = "clear", !.then = "idle", !.judged = lease])
                 ELSE Rest(u)
            /\ UNCHANGED <<held, sess, crossed>>
  /\ UNCHANGED <<lease, life, dead, desktop, screen, spent>>

-----------------------------------------------------------------------------
(* stopForegroundWatch, and the end of a session *)

\* Mutant of Abort: the session is awaited but not aborted.
AbortNothing(u) ==
  /\ Is(u, "abort")
  /\ To(u, [thr[u] EXCEPT !.at = "await", !.saw = held[Set(u)].promise])
  /\ UNCHANGED <<lease, life, held, sess, dead, desktop, screen, spent, crossed>>

Abort(u) ==
  /\ Is(u, "abort")
  /\ LET h == held[Set(u)]
     IN /\ sess' = [s \in Sessions |-> IF s = h.ctl /\ sess[s].st = "run"
                                         THEN [sess[s] EXCEPT !.st = "aborted"] ELSE sess[s]]
        /\ To(u, [thr[u] EXCEPT !.at = "await", !.saw = h.promise])
  /\ UNCHANGED <<lease, life, held, dead, desktop, screen, spent, crossed>>

\* Mutant of Awaited: it does not wait for the session to end.
AwaitedNot(u) ==
  /\ Is(u, "await")
  /\ held' = [held EXCEPT ![Set(u)] = Nothing]
  /\ IF held[Set(u)].owns THEN On(u, "readBack") ELSE Rest(u)
  /\ life' = IF life[Set(u)] = "stopping" /\ u[2] = "main" /\ ~held[Set(u)].owns THEN [life EXCEPT ![Set(u)] = "closed"] ELSE life
  /\ UNCHANGED <<lease, sess, dead, desktop, screen, spent, crossed>>

Awaited(u) ==
  /\ Is(u, "await")
  /\ thr[u].saw # NoSession => sess[thr[u].saw].st = "ended"
  /\ held' = [held EXCEPT ![Set(u)] = Nothing]
  /\ IF held[Set(u)].owns THEN On(u, "readBack") ELSE Rest(u)
  /\ life' = IF life[Set(u)] = "stopping" /\ u[2] = "main" /\ ~held[Set(u)].owns THEN [life EXCEPT ![Set(u)] = "closed"] ELSE life
  /\ crossed' = (crossed \/ held[Set(u)].promise \notin {thr[u].saw, NoSession})
  /\ UNCHANGED <<lease, sess, dead, desktop, screen, spent>>

\* A session ends: it was aborted, or it fails because Desktop is gone.  Its
\* promise settles when the lease is released.
SessionEnds(s) ==
  LET m == sess[s].of
      u == <<m, "end">>
  IN /\ sess[s].st = "aborted" \/ (sess[s].st = "run" /\ ~desktop)
     /\ Is(u, "idle")
     /\ held' = [held EXCEPT ![m] = Nothing]
     /\ sess' = [sess EXCEPT ![s].st = IF held[m].owns THEN "closing" ELSE "ended"]
     /\ IF held[m].owns
          THEN To(u, [Resting EXCEPT !.at = "readBack", !.saw = s])
          ELSE UNCHANGED thr
     /\ UNCHANGED <<lease, life, dead, desktop, screen, spent, crossed>>

\* What a thread does when it has released the lease.
Released(u) ==
  /\ Rest(u)
  /\ life' = IF life[Set(u)] = "stopping" /\ u[2] = "main" THEN [life EXCEPT ![Set(u)] = "closed"] ELSE life
  /\ sess' = IF u[2] = "end" THEN [sess EXCEPT ![thr[u].saw].st = "ended"] ELSE sess

\* release: only its own lease, or one whose owner is dead.
ReadBack(u) ==
  /\ Is(u, "readBack")
  /\ IF Own(u) \/ OwnerDead
       THEN To(u, [thr[u] EXCEPT !.at = "giveBack", !.judged = lease]) /\ UNCHANGED <<life, sess>>
       ELSE Released(u)
  /\ UNCHANGED <<lease, held, dead, desktop, screen, spent, crossed>>

\* Mutant of GiveBack: the file stays.
GiveNothingBack(u) ==
  /\ Is(u, "giveBack")
  /\ Released(u)
  /\ UNCHANGED <<lease, held, dead, desktop, screen, spent, crossed>>

GiveBack(u) ==
  /\ Is(u, "giveBack")
  /\ lease' = NoLease
  /\ crossed' = (crossed \/ lease \notin {thr[u].judged, NoLease})
  /\ Released(u)
  /\ UNCHANGED <<held, dead, desktop, screen, spent>>

-----------------------------------------------------------------------------
(* The dashboard opens and closes *)

\* startTuiExternalUpdateMonitors reconciles before the dashboard is shown.
Open(m) ==
  /\ life[m] = "none" /\ m \in screen.opened /\ ProcessOf[m] \notin dead
  /\ \A n \in Monitors : ProcessOf[n] = ProcessOf[m] => life[n] \in {"none", "closed"}
  /\ life' = [life EXCEPT ![m] = "opening"]
  /\ To(<<m, "main">>, [Resting EXCEPT !.at = "auto"])
  /\ UNCHANGED <<lease, held, sess, dead, desktop, screen, spent, crossed>>

\* Desktop quits, and is launched again.
DesktopQuits ==
  /\ desktop /\ spent.quits < screen.quits
  /\ spent' = [spent EXCEPT !.quits = @ + 1]
  /\ desktop' = FALSE
  /\ UNCHANGED <<lease, life, held, thr, sess, dead, screen, crossed>>

DesktopOpens ==
  /\ ~desktop
  /\ desktop' = TRUE
  /\ UNCHANGED <<lease, life, held, thr, sess, dead, screen, spent, crossed>>

\* The dashboard is left when its operations have ended; the timer's
\* reconciliation may still be on its way.
Close(m) ==
  /\ Shown(m) /\ Is(<<m, "main">>, "idle")
  /\ life' = [life EXCEPT ![m] = "stopping"]
  /\ To(<<m, "main">>, [Resting EXCEPT !.at = "abort"])
  /\ UNCHANGED <<lease, held, sess, dead, desktop, screen, spent, crossed>>

\* A process is killed, or ends when nothing keeps it.
Die(p) ==
  /\ p \in {ProcessOf[m] : m \in screen.opened} \ dead
  /\ \/ spent.kills < screen.kills /\ spent' = [spent EXCEPT !.kills = @ + 1]
     \/ /\ \A m \in screen.opened : ProcessOf[m] = p => life[m] = "closed"
        /\ \A s \in Sessions : Active(s) => ProcessOf[sess[s].of] # p
        /\ \A u \in Threads : Pid(u) = p => thr[u].at = "idle"
        /\ UNCHANGED spent
  /\ dead' = dead \cup {p}
  /\ sess' = [s \in Sessions |-> IF Active(s) /\ ProcessOf[sess[s].of] = p
                                   THEN [sess[s] EXCEPT !.st = "ended"] ELSE sess[s]]
  /\ thr' = [u \in Threads |-> IF Pid(u) = p THEN Resting ELSE thr[u]]
  /\ life' = [m \in Monitors |-> IF ProcessOf[m] = p /\ life[m] # "none" THEN "closed" ELSE life[m]]
  /\ UNCHANGED <<lease, held, desktop, screen, crossed>>

-----------------------------------------------------------------------------
WatchInit ==
  /\ Init
  /\ screen \in Screens /\ load = screen.load
  /\ spent = [now |-> 0, quits |-> 0, kills |-> 0]
  /\ lease = NoLease
  /\ life = [m \in Monitors |-> "none"]
  /\ held = [m \in Monitors |-> Nothing]
  /\ thr = [u \in Threads |-> Resting]
  /\ sess = [s \in Sessions |-> [st |-> "none", of |-> CHOOSE m \in Monitors : TRUE]]
  /\ dead = {}
  /\ desktop = TRUE
  /\ crossed = FALSE

ThreadStep(u) ==
  /\ thr[u].at # "idle"
  /\ \/ ReadAuto(u) \/ YieldToDaemon(u) \/ KeepLease(u)
     \/ StartIfNoDaemon(u) \/ StartIfNoOwner(u) \/ StartIfDesktop(u)
     \/ ClearDead(u) \/ Claim(u) \/ Create(u) \/ Write(u) \/ Reread(u)
     \/ Abort(u) \/ Awaited(u) \/ ReadBack(u) \/ GiveBack(u)

WatchStep ==
  \/ \E u \in Threads : Reconcile(u) \/ ThreadStep(u)
  \/ \E s \in Sessions : SessionEnds(s)
  \/ \E m \in Monitors : Open(m) \/ Close(m)
  \/ \E p \in Processes : Die(p)
  \/ DesktopQuits \/ DesktopOpens

WatchNext == \/ Next /\ UNCHANGED watching
             \/ WatchStep /\ UNCHANGED vars

\* The threads of a set go on, its timer fires again and again, and a session
\* that is aborted ends.
WatchFairness ==
  /\ Fairness
  /\ \A u \in Threads : WF_watching(ThreadStep(u))
  /\ \A m \in Monitors : WF_watching(Reconcile(<<m, "timer">>))
  /\ \A s \in Sessions : WF_watching(SessionEnds(s))

WatchSpec == WatchInit /\ [][WatchNext]_<<vars, watching>> /\ WatchFairness

-----------------------------------------------------------------------------
(* Properties *)

WatchTypeOK ==
  /\ lease \in [pid : Tui, full : BOOLEAN, auto : BOOLEAN, by : Threads] \cup {NoLease}
  /\ life \in [Monitors -> {"none", "opening", "open", "stopping", "closed"}]
  /\ \A m \in Monitors : {held[m].ctl, held[m].promise} \subseteq Sessions \cup {NoSession}
  /\ sess \in [Sessions -> [st : {"none", "run", "aborted", "closing", "ended"}, of : Monitors]]
  /\ dead \subseteq Processes
  /\ {desktop, crossed} \subseteq BOOLEAN

\* The dashboards never run two foreground sessions, unless two reconciliations
\* of one process were starting at once, one was when its set stopped, one found
\* the lease of a session that was giving it back, or a lease was removed after
\* another owner had replaced it.
Watching(s) == sess[s].st \in {"run", "aborted"}
OneForeground == crossed \/ Cardinality({s \in Sessions : Watching(s)}) <= 1

\* A dashboard that has been left runs no session, unless the same happened.
NothingAfterStop ==
  crossed \/ \A s \in Sessions : Watching(s) => life[sess[s].of] # "closed"

\* A session that its set can abort gives way to the daemon's watch, as long as
\* the set is there to notice it.
YieldsToDaemon ==
  \A m \in Monitors :
    held[m].ctl # NoSession /\ DetachedWatch
      ~> held[m].ctl = NoSession \/ ~DetachedWatch \/ life[m] = "closed"

\* A lease is given back: no dashboard that runs keeps one without a session.
Leaseless(p) == ~(lease # NoLease /\ lease.full /\ lease.pid = p)
LeaseReturned ==
  \A p \in Processes :
    ~Leaseless(p) /\ p \notin dead
      ~> Leaseless(p) \/ p \in dead \/ \E s \in Sessions : Active(s) /\ ProcessOf[sess[s].of] = p

\* The lease of a dashboard that died goes, if another one stays open.
LeaseReclaimed ==
  \A p \in Processes : ~Leaseless(p) /\ p \in dead
    ~> Leaseless(p) \/ \A m \in Monitors : life[m] # "open" \/ ProcessOf[m] \in dead

\* One dashboard at a time watches, and none that was closed (claimForeground).
LeaseInv == WatchTypeOK /\ OneForeground /\ NothingAfterStop

\* A dashboard's watch ends for the daemon's, and its lease is given back whether
\* the dashboard closes, gives way or dies.
LeaseFreed == YieldsToDaemon /\ LeaseReturned /\ LeaseReclaimed
=============================================================================
