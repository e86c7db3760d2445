---------------------------- MODULE QuotaRanking ----------------------------
(***************************************************************************)
(* The ranking of accounts by their quota (src/src/cli/quota-ranking.ts,   *)
(* plan-quota-profile.ts): which account an automatic switch picks, and in *)
(* which order accounts are listed.                                        *)
(*                                                                         *)
(* An account's quota is a plan, the time it was fetched and two windows,  *)
(* five hours and a week, each with the percentage used and the time it is *)
(* reset.  Times are minutes, percentages are carried in hundredths, and   *)
(* scores in hundredths of a percent of the weekly quota of the plan       *)
(* "plus", which is how the code rounds them.                              *)
(***************************************************************************)
EXTENDS Integers, Sequences, FiniteSets

\* No value: below every percentage and score, as the code orders null.
None == -1
Never == 1000000   \* a time after every reset: a reset that is not known sorts last

Min2(x, y) == IF x < y THEN x ELSE y
Max2(x, y) == IF x > y THEN x ELSE y
Abs(x) == IF x < 0 THEN -x ELSE x

Horizon == 60    \* AUTO_SWITCH_PROJECTION_HORIZON_SECONDS
CloseScores == 500   \* AUTO_SWITCH_CURRENT_SCORE_TIEBREAK_DELTA

QuotaWindow == [used : Int, reset : Int]
Quotas == [ok : BOOLEAN, plan : {"plus", "free", "prolite", "pro"}, at : Int,
           five : QuotaWindow, week : QuotaWindow]

\* What one percent of the window is worth, in hundredths of "plus" weekly units.
UnitsOf == [plus |-> [five |-> <<15, 1>>, week |-> <<100, 1>>],
            free |-> [five |-> <<15, 2>>, week |-> <<15, 2>>],
            prolite |-> [five |-> <<75, 1>>, week |-> <<1250, 3>>],
            pro |-> [five |-> <<300, 1>>, week |-> <<5000, 3>>]]

\* x / y, rounded to the nearest.
Rounded(x, y) == (2 * x + y) \div (2 * y)
Convert(percent, unit) == IF percent = None THEN None ELSE Rounded(percent * unit[1], unit[2] * 100)

Remaining(win) == IF win.used = None THEN None ELSE Max2(0, 100 - win.used) * 100

\* The average over the next hour, in which the window may be reset.
Projected(win, at) ==
  IF win.used = None \/ at = None \/ win.reset = None \/ win.reset - at >= Horizon
    THEN Remaining(win)
    ELSE LET before == Max2(0, win.reset - at)
         IN Rounded(Remaining(win) * before + 10000 * (Horizon - before), Horizon)

Bottleneck(x, y) == IF x # None /\ y # None THEN Min2(x, y) ELSE Max2(x, y)

\* computeAvailability
Availability(q) ==
  IF ~q.ok \/ (q.five.used = None /\ q.week.used = None) THEN "unknown"
  ELSE IF q.five.used >= 100 \/ q.week.used >= 100 THEN "unavailable"
  ELSE "available"

IsCandidate(q) == Availability(q) # "unknown"

\* toAutoSwitchCandidate
Candidate(q) ==
  LET u == UnitsOf[q.plan]
      r5 == Convert(Remaining(q.five), u.five)       r1 == Convert(Remaining(q.week), u.week)
      p5 == Convert(Projected(q.five, q.at), u.five) p1 == Convert(Projected(q.week, q.at), u.week)
  IN [r5 |-> r5, r1 |-> r1, p5 |-> p5, p1 |-> p1,
      current |-> Bottleneck(r5, r1), soon |-> Bottleneck(p5, p1),
      reset |-> [five |-> q.five.reset, week |-> q.week.reset],
      empty |-> {i \in {"five", "week"} : Remaining(q[i]) = 0}]

Windows == {"five", "week"}
\* The windows a score is limited by.
Limiting(s5, s1) ==
  {i \in Windows : LET mine == IF i = "five" THEN s5 ELSE s1
                       other == IF i = "five" THEN s1 ELSE s5
                   IN mine # None /\ (other = None \/ mine <= other)}

Known(c, ws) == {c.reset[i] : i \in ws} \ {None}
Earliest(c, ws) == IF Known(c, ws) = {} THEN Never ELSE CHOOSE x \in Known(c, ws) : \A y \in Known(c, ws) : x <= y
Latest(c, ws) == IF Known(c, ws) = {} THEN Never ELSE CHOOSE x \in Known(c, ws) : \A y \in Known(c, ws) : y <= x

\* compareCandidateResets: when the exhausted windows are back, then the reset of
\* the limiting window, then that of the other.
ResetKeys(c, s5, s1) ==
  LET ws == Limiting(s5, s1) IN <<Latest(c, c.empty), Earliest(c, ws), Earliest(c, Windows \ ws)>>

\* The first key in which they differ is smaller.
Before(x, y) == \E i \in DOMAIN x : x[i] < y[i] /\ \A j \in DOMAIN x : j < i => x[j] = y[j]

\* Mutant of Beats: a reset within the hour comes before what is left now.
BeatsBySoon(c, n, d, m) == Before(<<-c.soon, -c.current, n>>, <<-d.soon, -d.current, m>>)

AutoKeys(c, n) ==
  <<-c.soon, -c.current, -c.p5, -c.p1, -c.r5, -c.r1>> \o ResetKeys(c, c.p5, c.p1) \o <<n>>

\* rankAutoSwitchCandidates: c comes before d; n and m are the places of their names
\* in the alphabet.
Beats(c, n, d, m) ==
  IF Abs(c.current - d.current) > CloseScores
    THEN c.current > d.current
    ELSE Before(AutoKeys(c, n), AutoKeys(d, m))

\* Mutant of ListedBefore: the scores are compared as an automatic switch does.
ListedAsBeats(c, n, d, m) == Beats(c, n, d, m)

ListKeys(c, n) ==
  LET resets == ResetKeys(c, c.r5, c.r1)
  IN (IF c.current = 0 THEN resets \o <<-c.soon>> ELSE <<>>) \o <<-c.r5, -c.r1>> \o resets \o <<n>>

\* rankListCandidates
ListedBefore(c, n, d, m) ==
  IF c.current # d.current THEN c.current > d.current ELSE Before(ListKeys(c, n), ListKeys(d, m))
=============================================================================
