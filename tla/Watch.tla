------------------------------- MODULE Watch -------------------------------
(***************************************************************************)
(* A watch session next to the managed Desktop: it reads the quota of the  *)
(* account that Desktop runs, and moves to the best account when that is   *)
(* exhausted (src/src/watch/session.ts, desktop/launcher.ts,               *)
(* src/src/switching.ts, src/src/commands/{desktop,daemon}.ts).            *)
(*                                                                         *)
(* Two handlers of the session run concurrently: the Reader, which timers  *)
(* start, and the Signaller, which messages of the page start.  They are   *)
(* tasks of Desktop, whose steps apply the switch.  Without a managed      *)
(* Desktop `codexm watch` polls instead (mode "cli"), with the Reader.     *)
(* The quota is at one of a few levels; intervals are left out (a timer    *)
(* that is set fires), one handler of messages runs at a time, and a       *)
(* repeated message, which is dropped, is a message that does not come.    *)
(***************************************************************************)
EXTENDS Desktop, QuotaRanking

CONSTANTS Reader, Signaller

Handlers == {Reader, Signaller}

\* More of a workload: the levels of quota, the places of the accounts in the
\* alphabet, whether the session may switch, the accounts it may pick, the codex
\* processes, how often quotas change and sessions are stopped.
ASSUME WatchAssumption ==
  /\ Handlers \subseteq Tasks /\ Reader # Signaller
  /\ \A x \in Works : /\ \A h \in Handlers : x.jobs[h].op = "none"
                      /\ x.quotas \subseteq [Accounts -> Quotas]
                      /\ \A a, b \in Accounts : x.order[a] \in Nat /\ (x.order[a] = x.order[b] => a = b)
                      /\ x.auto \in BOOLEAN /\ x.eligible \subseteq Accounts
                      /\ x.clis \subseteq SUBSET Accounts
                      /\ {x.burns, x.stops, x.signals} \subseteq Nat

VARIABLES quota,    \* the quota of each account
          w,        \* the session: its state and local variables
          hand,     \* per handler: the account whose quota it read, if it was exhausted
          clis,     \* accounts with a registered codex process (external)
          left,     \* what is left of the bounds
          owed,     \* history: an activity was signalled and no read has begun since
          misnamed  \* history: a sample was recorded under another account

watchVars == <<quota, w, hand, clis, left, owed, misnamed>>
allVars == <<deskVars, watchVars>>
sess == <<w, hand, owed>>

NoHand == [from |-> NoAccount, empty |-> FALSE, alone |-> FALSE]
NoSession == [st |-> "off", mode |-> "none", timer |-> FALSE, pend |-> FALSE, reading |-> FALSE,
              recent |-> FALSE, switching |-> FALSE, label |-> NoAccount]

Live == w.st \in {"start", "lost", "on"}
Order(a) == work.order[a]   \* its place in the alphabet
Exhausted(a) == a \in Accounts /\ Availability(quota[a]) = "unavailable"
Bare == UNCHANGED <<desk, page, work, disturbed, spoiled, restored>>

\* The best of the accounts cs, or any where the comparisons of three form a cycle.
Unbeaten(cs) ==
  {a \in cs : \A c \in {Candidate(quota[a])} : \A b \in cs \ {a} : \A d \in {Candidate(quota[b])} :
      ~Beats(d, Order(b), c, Order(a))}
Picks(cs) == UNION {IF u = {} THEN cs ELSE u : u \in {Unbeaten(cs)}}

-----------------------------------------------------------------------------
(* Reads and timers of the session *)

\* Mutant of ScheduleRead: a read in flight is taken to be the read that is asked for.
ScheduleUnlessReading(s) == IF s.reading THEN s ELSE [s EXCEPT !.pend = TRUE, !.timer = TRUE]

\* scheduleQuotaRead
ScheduleRead(s) == [s EXCEPT !.pend = TRUE, !.timer = @ \/ ~s.reading]

\* resolveWatchAccountLabel
Label == IF auth \in Accounts THEN auth ELSE NoAccount

\* The handler h starts reading; the other one is not alone any more.
StartReading(h) ==
  /\ Go(h, "read") /\ Set(h, [NoMem EXCEPT !.op = "auto"])
  /\ \E o \in Handlers \ {h} :
       hand' = [hand EXCEPT ![h] = [NoHand EXCEPT !.alone = (pc[o] = "idle")], ![o].alone = FALSE]

StartSession ==
  /\ w.st = "off" /\ work.watch /\ pc[Reader] = "idle"
  /\ LET desktop == \E p \in Up : Managed(p)
     IN /\ \/ desktop /\ StartReading(Reader)
           \/ ~desktop /\ UNCHANGED <<pc, mem, hand>>
        /\ w' = [NoSession EXCEPT !.st = IF desktop THEN "start" ELSE "on", !.label = Label,
                                  !.mode = IF desktop THEN "desktop" ELSE "cli", !.reading = desktop]
  /\ UNCHANGED <<store, spent, told, quota, clis, left, owed, misnamed>> /\ Bare

\* watchManagedQuotaSignals connects to the page, again and again.
Connect ==
  /\ w.st = "lost" /\ \E p \in Up : Managed(p)
  /\ w' = [w EXCEPT !.st = "on"]
  /\ UNCHANGED <<deskVars, quota, hand, clis, left, owed, misnamed>>

Disconnect ==
  /\ w.st = "on" /\ w.mode = "desktop" /\ ~\E p \in Up : Managed(p)
  /\ w' = [w EXCEPT !.st = "lost"]
  /\ UNCHANGED <<deskVars, quota, hand, clis, left, owed, misnamed>>

TimerFires ==
  /\ w.timer /\ w.st \in {"lost", "on"} /\ pc[Reader] = "idle"
  /\ w' = [w EXCEPT !.timer = FALSE, !.pend = FALSE, !.reading = TRUE]
  /\ owed' = FALSE
  /\ StartReading(Reader)
  /\ UNCHANGED <<store, spent, told, quota, clis, left, misnamed>> /\ Bare

IdleFires ==
  /\ w.st \in {"lost", "on"} /\ w.mode = "desktop"
  /\ w' = ScheduleRead(w)
  /\ UNCHANGED <<deskVars, quota, hand, clis, left, owed, misnamed>>

\* The next poll of the command line's session, which reads the account of auth.json.
Poll ==
  /\ w.st = "on" /\ w.mode = "cli" /\ pc[Reader] = "idle"
  /\ w' = [w EXCEPT !.reading = TRUE]
  /\ StartReading(Reader)
  /\ UNCHANGED <<store, spent, told, quota, clis, left, owed, misnamed>> /\ Bare

\* Desktop says that a turn is over or that limits have changed.
Activity ==
  /\ w.st = "on" /\ w.mode = "desktop" /\ left.signals > 0
  /\ left' = [left EXCEPT !.signals = @ - 1]
  /\ w' = ScheduleRead(w) /\ owed' = TRUE
  /\ UNCHANGED <<deskVars, quota, hand, clis, misnamed>>

\* Desktop reads its limits, or is refused as exhausted: then the handler reads them.
Signal ==
  /\ w.st = "on" /\ w.mode = "desktop" /\ pc[Signaller] = "idle" /\ left.signals > 0
  /\ left' = [left EXCEPT !.signals = @ - 1]
  /\ \E p \in Up :
       /\ Managed(p) /\ apps[p].acct \in Accounts
       /\ pc' = [pc EXCEPT ![Signaller] = "judge"]
       /\ Set(Signaller, [NoMem EXCEPT !.op = "auto"])
       /\ hand' = [hand EXCEPT ![Signaller] = [from |-> apps[p].acct, empty |-> Exhausted(apps[p].acct),
                                               alone |-> (pc[Reader] = "idle")],
                               ![Reader].alone = FALSE]
  /\ UNCHANGED <<store, spent, told, quota, w, clis, owed, misnamed>> /\ Bare

Cooled ==
  /\ w.recent /\ ~w.switching
  /\ w' = [w EXCEPT !.recent = FALSE]
  /\ UNCHANGED <<deskVars, quota, hand, clis, left, owed, misnamed>>

\* The session is interrupted; handlers that run go on.
Stop ==
  /\ Live /\ left.stops > 0
  /\ left' = [left EXCEPT !.stops = @ - 1]
  /\ w' = [w EXCEPT !.st = "over", !.timer = FALSE]
  /\ UNCHANGED <<deskVars, quota, hand, clis, owed, misnamed>>

-----------------------------------------------------------------------------
(* The handlers *)

\* Mutant of AfterRead: what was asked for during the read is dropped with it.
AfterReadOnly(s) == [s EXCEPT !.reading = FALSE, !.pend = FALSE]

\* finally of readManagedQuotaForWatch
AfterRead(s) ==
  IF s.pend /\ s.st \in {"start", "lost", "on"} /\ s.mode = "desktop"
    THEN ScheduleRead([s EXCEPT !.reading = FALSE])
    ELSE [s EXCEPT !.reading = FALSE, !.pend = FALSE]

\* What the end of h leaves of the session: the first read that fails ends it, and a
\* message whose handling fails the connection.
After(h, s, threw) ==
  LET r == IF h = Reader THEN AfterRead(s) ELSE s
  IN CASE h = Reader /\ s.st = "start" -> [r EXCEPT !.st = IF threw THEN "failed" ELSE "lost",
                                                    !.timer = @ /\ ~threw]
       [] h = Signaller /\ threw /\ s.st = "on" -> [r EXCEPT !.st = "lost"]
       [] OTHER -> r

Finish(h, s, threw) ==
  /\ w' = After(h, s, threw)
  /\ Go(h, "idle") /\ Set(h, NoMem)
  /\ hand' = [hand EXCEPT ![h] = NoHand]

ReadOf == IF w.mode = "cli" THEN {auth} \cap Accounts
          ELSE {apps[p].acct : p \in {q \in Up : Managed(q)}} \cap Accounts

\* tryReadManagedDesktopQuota: no quota when it cannot be read.
ReadQuota(h) ==
  /\ At(h, "read")
  /\ \/ \E a \in ReadOf : /\ hand' = [hand EXCEPT ![h].from = a, ![h].empty = Exhausted(a)]
                          /\ Go(h, "judge") /\ Works0 /\ UNCHANGED <<w, mem>>
     \/ /\ IF ReadOf = {} THEN Works0 ELSE Fail(1)
        /\ Finish(h, w, FALSE)
  /\ UNCHANGED <<store, told, quota, clis, left, owed, misnamed>> /\ Bare

\* resolveWatchAccountContext
SampleOf == IF w.label \in Accounts THEN w.label ELSE Label

\* handleQuotaReadResult up to the lock: the sample is recorded under the label.
Judge(h) ==
  /\ At(h, "judge")
  /\ \/ /\ h = Reader /\ ~Live
        /\ Finish(h, w, FALSE) /\ UNCHANGED misnamed
     \/ /\ h = Signaller \/ Live
        /\ misnamed' = (misnamed \/ (hand[h].alone /\ ~told /\ SampleOf # hand[h].from))
        /\ IF work.auto /\ hand[h].empty
             THEN Go(h, "hlock") /\ UNCHANGED <<w, mem, hand>>
             ELSE Finish(h, w, FALSE)
  /\ UNCHANGED <<store, spent, told, quota, clis, left, owed>> /\ Bare

LockForAuto(h) ==
  /\ At(h, "hlock")
  /\ IF lock = NoTask
       THEN lock' = h /\ Go(h, "cool") /\ UNCHANGED <<w, mem, hand>>
       ELSE Finish(h, w, FALSE) /\ UNCHANGED lock
  /\ UNCHANGED <<auth, spent, told, quota, clis, left, owed, misnamed>> /\ Bare

\* One switch at a time, and none within five seconds of another.
Cool(h) ==
  /\ At(h, "cool")
  /\ IF w.switching \/ w.recent
       THEN lock' = NoTask /\ Finish(h, w, FALSE)
       ELSE /\ w' = [w EXCEPT !.switching = TRUE, !.recent = TRUE]
            /\ Go(h, "select") /\ UNCHANGED <<lock, mem, hand>>
  /\ UNCHANGED <<auth, spent, told, quota, clis, left, owed, misnamed>> /\ Bare

\* selectAutoSwitchAccount: the quota of every account is fetched, of some in vain.
Select(h) ==
  /\ At(h, "select")
  /\ \E lost \in SUBSET Accounts :
       LET cs == {a \in work.eligible \ lost : IsCandidate(quota[a])}
       IN /\ IF lost = {} THEN Works0 ELSE Fail(1)
          /\ IF cs = {}
               THEN Ends(h, "threw")
               ELSE \E pick \in Picks(cs) :
                      IF Availability(quota[pick]) = "available" /\ auth = pick
                        THEN Ends(h, "best")
                        ELSE Set(h, [mem[h] EXCEPT !.to = pick]) /\ Go(h, "auth") /\ UNCHANGED told
  /\ UNCHANGED <<store, watchVars>> /\ Bare

\* Mutant of LabelAfter: the session goes on under its first label.
LabelKept(h) == w.label

\* The label after a switch; mem.to is set when one was tried, and "best" keeps auth.
LabelAfter(h) ==
  CASE mem[h].end = "best" -> auth
    [] mem[h].end \in {"refused", "threw"} -> w.label
    [] OTHER -> mem[h].to

\* Mutant of NotSwitching: the flag is reset only by a switch that worked.
SwitchingIfFailed(h) == mem[h].end \notin {"applied", "restarted", "none", "best"}

\* The value of switchInFlight after the switch.
NotSwitching(h) == FALSE

\* The end of a switch; the command line's session then stops the registered codex
\* processes of the account it switched to.
Release(h) ==
  /\ At(h, "unlock")
  /\ lock' = NoTask
  /\ clis' = IF w.mode = "cli" /\ mem[h].end \notin {"best", "refused", "threw"}
               THEN clis \ {mem[h].to} ELSE clis
  /\ Finish(h, [w EXCEPT !.switching = NotSwitching(h), !.label = LabelAfter(h)],
            w.mode = "desktop" /\ mem[h].end \in {"refused", "threw"})
  /\ UNCHANGED <<auth, spent, told, quota, left, owed, misnamed>> /\ Bare

-----------------------------------------------------------------------------
(* The quotas *)

Burn(a) ==
  /\ left.burns > 0 /\ quota[a].five.used < 100
  /\ left' = [left EXCEPT !.burns = @ - 1]
  /\ quota' = [quota EXCEPT ![a].five.used = 100]
  /\ UNCHANGED <<deskVars, sess, clis, misnamed>>

HandlerStep(h) ==
  ReadQuota(h) \/ Judge(h) \/ LockForAuto(h) \/ Cool(h) \/ Select(h) \/ Release(h)

SessionStep ==
  \/ StartSession \/ Connect \/ Disconnect \/ TimerFires \/ IdleFires \/ Poll
  \/ Activity \/ Signal \/ Cooled \/ Stop

WatchNext ==
  \/ DeskNext /\ UNCHANGED watchVars
  \/ SessionStep
  \/ \E h \in Handlers : HandlerStep(h)
  \/ \E a \in Accounts : Burn(a)

WatchInit ==
  /\ DeskInit
  /\ quota \in work.quotas
  /\ w = NoSession
  /\ hand = [h \in Handlers |-> NoHand]
  /\ clis \in work.clis
  /\ left = [burns |-> work.burns, stops |-> work.stops, signals |-> work.signals]
  /\ owed = FALSE /\ misnamed = FALSE

\* Handlers run to their end, timers fire, and the session connects when it can.
WatchFairness ==
  /\ WF_allVars((\E t \in Tasks \ Handlers : TaskStep(t)) /\ UNCHANGED watchVars)
  /\ WF_allVars((\E s \in Scripts : ScriptStep(s)) /\ UNCHANGED watchVars)
  /\ \A s \in Scripts : WF_allVars(ScriptFails(s) /\ UNCHANGED watchVars)
  /\ \A h \in Handlers : WF_allVars(HandlerStep(h) \/ (TaskStep(h) /\ UNCHANGED watchVars))
  /\ WF_allVars(TimerFires) /\ WF_allVars(IdleFires) /\ WF_allVars(Cooled) /\ WF_allVars(Connect)

WatchSpec == WatchInit /\ [][WatchNext]_allVars /\ WatchFairness

-----------------------------------------------------------------------------
(* Properties *)

\* The types of the session's variables, and how they hang together.
WatchTypeOK ==
  /\ w.st \in {"off", "start", "lost", "on", "over", "failed"} /\ w.label \in Accounts \cup {NoAccount}
  /\ w.reading <=> pc[Reader] # "idle"
  /\ w.timer => Live
  /\ w.switching <=> \E h \in Handlers : pc[h] \notin {"idle", "read", "judge", "hlock", "cool"}
  /\ clis \subseteq Accounts

\* A change that Desktop reports is never taken for the one that a read in flight
\* sees: until another read begins, its timer is set or the read knows of it
\* (pendingQuotaReadReason, scheduleQuotaRead).
ActivityRead == owed /\ w.st \in {"lost", "on"} => w.timer \/ (w.reading /\ w.pend)

\* Desktop runs an exhausted account, and the ranking has one that is not.
Stuck ==
  /\ w.st \in {"lost", "on"} /\ w.mode = "desktop" /\ work.auto /\ ~told
  /\ \E p \in Up : Managed(p) /\ Exhausted(apps[p].acct)
  /\ auth # Proxy
  /\ work.eligible # {}
  /\ \A a \in Picks(work.eligible) : ~Exhausted(a)

\* As long as Desktop runs an exhausted account and a better one is known, the watch
\* moves it, however reads fail, locks are busy, and scripts time out; or it has
\* reported that Desktop may not have followed (handleQuotaReadResult).
Recovers == Stuck ~> ~Stuck

\* A sample is recorded under the account whose quota it is, however the session's
\* label is kept.  Left out are the samples of handlers that overlapped, those taken
\* after codexm reported that Desktop may run another account (told), and sessions next
\* to commands that switch; the proxy account has no samples (persistWatchHistorySample).
SamplesNamed == misnamed => \E t \in Tasks \ Handlers : mem[t].op # "none"

\* The listing orders the accounts the same way wherever it starts; the pick of an
\* automatic switch is exhausted only if no other is clearly better, unless the
\* comparison of three goes round in a circle (rankListCandidates,
\* rankAutoSwitchCandidates).
RankingSound ==
  w.st = "off" /\ AtRest =>
  LET cs == {a \in Accounts : IsCandidate(quota[a])}
      score == [a \in cs |-> Candidate(quota[a])]
      before == [a \in cs |-> [b \in cs |-> ListedBefore(score[a], Order(a), score[b], Order(b))]]
  IN /\ \A a, b \in cs : a # b => (before[a][b] <=> ~before[b][a])
     /\ \A a, b, c \in cs : before[a][b] /\ before[b][c] => before[a][c]
     /\ \A a \in Unbeaten(cs), b \in cs : score[a].current = 0 => score[b].current <= CloseScores

\* What switches and launches leave of Desktop and of auth.json, also when they fail
\* or are interrupted.
DesktopInv == DeskTypeOK /\ DesktopFollows /\ UserDesktopSpared /\ LaunchRestores

\* What a watch session makes of the signals and reads it gets.
WatchInv == WatchTypeOK /\ ActivityRead /\ SamplesNamed

\* Neither an operation nor a session stays in the way of the ones to come: the lock
\* is given back, and a session that has to act does.
NothingStuck == LockReturned /\ Recovers
=============================================================================
