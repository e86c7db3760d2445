---------------------------- MODULE WatchProofs ----------------------------
(***************************************************************************)
(* The managed Desktop and a watch session next to it, for any number of   *)
(* commands, processes of the app, scripts in its pages, threads and       *)
(* accounts, and any faults, aborts, signals and changes of quotas: what   *)
(* switches and launches leave of Desktop and of auth.json, what the       *)
(* session makes of its signals, under which account it records samples,   *)
(* and how it ranks accounts.                                              *)
(***************************************************************************)
EXTENDS Watch, TLAPS, FiniteSetTheorems, WellFoundedInduction, SequenceTheorems

\* A finite set of numbers that is not empty has a smallest and a largest element.
Bounded(S) == (\E x \in S : \A y \in S : x <= y) /\ (\E x \in S : \A y \in S : y <= x)
LEMMA FiniteBounded ==
  ASSUME NEW S \in SUBSET Int, IsFiniteSet(S), S # {}
  PROVE  Bounded(S)
<1> DEFINE Bad == {T \in FiniteSubsetsOf(S) : T # {} /\ ~Bounded(T)}
<1>1. IsWellFoundedOn(StrictSubsetOrdering(S), FiniteSubsetsOf(S))
  BY FS_StrictSubsetOrderingWellFounded
<1>2. ASSUME Bad # {} PROVE FALSE
  <2>1. PICK T \in Bad : \A U \in Bad : <<U, T>> \notin StrictSubsetOrdering(S)
    BY <1>1, <1>2, WFMin
  <2>2. T \subseteq S /\ IsFiniteSet(T) /\ T # {} /\ ~Bounded(T)
    BY <2>1 DEF FiniteSubsetsOf
  <2>3. PICK x \in T : TRUE
    BY <2>2
  <2> DEFINE U == T \ {x}
  <2>4. U # {}
    BY <2>2, <2>3 DEF Bounded
  <2>5. IsFiniteSet(U)
    BY <2>2, FS_RemoveElement
  <2>6. U \in FiniteSubsetsOf(S)
    BY <2>2, <2>5 DEF FiniteSubsetsOf
  <2>7. <<U, T>> \in StrictSubsetOrdering(S)
    BY <2>2, <2>3 DEF StrictSubsetOrdering
  <2>8. Bounded(U)
    BY <2>1, <2>4, <2>6, <2>7
  <2>9. PICK lo, hi \in U : \A y \in U : lo <= y /\ y <= hi
    BY <2>8 DEF Bounded
  <2>10. \A y \in T : y \in Int /\ (y = x \/ y \in U)
    BY <2>2
  <2>11. \E m \in T : \A y \in T : m <= y
    <3>1. CASE x <= lo
      BY <3>1, <2>9, <2>10
    <3>2. CASE ~(x <= lo)
      BY <3>2, <2>3, <2>9, <2>10
    <3> QED BY <3>1, <3>2
  <2>12. \E m \in T : \A y \in T : y <= m
    <3>1. CASE hi <= x
      BY <3>1, <2>9, <2>10
    <3>2. CASE ~(hi <= x)
      BY <3>2, <2>3, <2>9, <2>10
    <3> QED BY <3>1, <3>2
  <2> QED BY <2>2, <2>11, <2>12 DEF Bounded
<1> QED BY <1>2 DEF FiniteSubsetsOf

-----------------------------------------------------------------------------
(* The order of the listing *)

\* A list of k numbers, by which the listing compares two accounts.
Keys(k) == [1..k -> Int]

\* The order of such lists is transitive ...
LEMMA BeforeTransitive ==
  ASSUME NEW k \in Nat, NEW x \in Keys(k), NEW y \in Keys(k), NEW z \in Keys(k),
         Before(x, y), Before(y, z)
  PROVE  Before(x, z)
<1>1. PICK i \in 1..k : x[i] < y[i] /\ \A j \in 1..k : j < i => x[j] = y[j]
  BY DEF Before, Keys
<1>2. PICK h \in 1..k : y[h] < z[h] /\ \A j \in 1..k : j < h => y[j] = z[j]
  BY DEF Before, Keys
<1>3. \A j \in 1..k : x[j] \in Int /\ y[j] \in Int /\ z[j] \in Int
  BY DEF Keys
<1>4. CASE i <= h
  <2>1. x[i] < z[i] /\ \A j \in 1..k : j < i => x[j] = z[j]
    BY <1>1, <1>2, <1>3, <1>4
  <2> QED BY <2>1 DEF Before, Keys
<1>5. CASE h < i
  <2>1. x[h] < z[h] /\ \A j \in 1..k : j < h => x[j] = z[j]
    BY <1>1, <1>2, <1>3, <1>5
  <2> QED BY <2>1 DEF Before, Keys
<1> QED BY <1>4, <1>5

\* ... and of two lists that differ, one comes before the other.
LEMMA BeforeTotal ==
  ASSUME NEW k \in Nat, NEW x \in Keys(k), NEW y \in Keys(k), x # y
  PROVE  Before(x, y) <=> ~Before(y, x)
<1> DEFINE D == {i \in 1..k : x[i] # y[i]}
<1>1. D # {}
  BY DEF Keys
<1>2. IsFiniteSet(D)
  BY FS_Interval, FS_Subset, k \in Nat, 1 \in Int
<1>3. PICK i \in D : \A j \in D : i <= j
  BY <1>1, <1>2, FiniteBounded DEF Bounded
<1>4. x[i] \in Int /\ y[i] \in Int /\ x[i] # y[i] /\ \A j \in 1..k : j < i => x[j] = y[j]
  BY <1>3 DEF Keys
<1>5. DOMAIN x = 1..k /\ DOMAIN y = 1..k
  BY DEF Keys
<1>6. CASE x[i] < y[i]
  <2>1. Before(x, y)
    BY <1>3, <1>4, <1>5, <1>6 DEF Before
  <2>2. ASSUME NEW j \in 1..k, y[j] < x[j], \A h \in 1..k : h < j => y[h] = x[h]
        PROVE  FALSE
    <3>1. y[j] \in Int /\ x[j] \in Int /\ i \in 1..k
      BY <1>3 DEF Keys
    <3>2. j < i => x[j] = y[j]
      BY <1>4
    <3>3. i < j => y[i] = x[i]
      BY <2>2, <3>1
    <3> QED BY <2>2, <3>1, <3>2, <3>3, <1>4, <1>6
  <2>3. ~Before(y, x)
    BY <2>2, <1>5 DEF Before
  <2> QED BY <2>1, <2>3
<1>7. CASE y[i] < x[i]
  <2>1. Before(y, x)
    BY <1>3, <1>4, <1>5, <1>7 DEF Before
  <2>2. ASSUME NEW j \in 1..k, x[j] < y[j], \A h \in 1..k : h < j => x[h] = y[h]
        PROVE  FALSE
    <3>1. x[j] \in Int /\ y[j] \in Int /\ i \in 1..k
      BY <1>3 DEF Keys
    <3>2. j < i => x[j] = y[j]
      BY <1>4
    <3>3. i < j => x[i] = y[i]
      BY <2>2, <3>1
    <3> QED BY <2>2, <3>1, <3>2, <3>3, <1>4, <1>7
  <2>3. ~Before(x, y)
    BY <2>2, <1>5 DEF Before
  <2> QED BY <2>1, <2>3
<1> QED BY <1>4, <1>6, <1>7

-----------------------------------------------------------------------------
(* The scores of an account are numbers *)

\* Rounding a quotient of integers gives an integer.
LEMMA RoundedInt ==
  ASSUME NEW x \in Int, NEW y \in Int, y > 0
  PROVE  Rounded(x, y) \in Int
BY DEF Rounded

\* What a percent is worth: a fraction.
Unit(unit) == unit[1] \in Int /\ unit[2] \in Int /\ unit[2] > 0
\* A percentage converts to an integer, or to None.
LEMMA ConvertInt ==
  ASSUME NEW x \in Int, NEW unit, Unit(unit)
  PROVE  Convert(x, unit) \in Int
<1>1. x * unit[1] \in Int /\ unit[2] * 100 \in Int /\ unit[2] * 100 > 0
  BY DEF Unit
<1> QED BY <1>1, RoundedInt DEF Convert, None

\* Every plan has its units.
LEMMA UnitsOfAll ==
  ASSUME NEW p \in {"plus", "free", "prolite", "pro"}
  PROVE  Unit(UnitsOf[p].five) /\ Unit(UnitsOf[p].week)
BY DEF Unit, UnitsOf

\* What remains of a window is an integer.
LEMMA RemainingInt ==
  ASSUME NEW win \in QuotaWindow
  PROVE  Remaining(win) \in Int
BY DEF Remaining, QuotaWindow, Max2, None

\* So is what will remain of it at the horizon.
LEMMA ProjectedInt ==
  ASSUME NEW win \in QuotaWindow, NEW at \in Int
  PROVE  Projected(win, at) \in Int
<1> DEFINE before == Max2(0, win.reset - at)
<1>1. Remaining(win) \in Int /\ before \in Int
  BY RemainingInt DEF QuotaWindow, Max2
<1>2. Remaining(win) * before + 10000 * (Horizon - before) \in Int
  BY <1>1 DEF Horizon
<1>3. Rounded(Remaining(win) * before + 10000 * (Horizon - before), Horizon) \in Int
  BY <1>2, RoundedInt DEF Horizon
<1> QED BY <1>1, <1>3 DEF Projected

\* The scores of an account, as numbers.
Scores == [r5 : Int, r1 : Int, p5 : Int, p1 : Int, current : Int, soon : Int,
           reset : [five : Int, week : Int], empty : SUBSET Windows]
\* The scores of every quota are of that type.
LEMMA CandidateScores ==
  ASSUME NEW q \in Quotas
  PROVE  Candidate(q) \in Scores
<1>1. /\ q.five \in QuotaWindow /\ q.week \in QuotaWindow /\ q.at \in Int
      /\ q.plan \in {"plus", "free", "prolite", "pro"}
  BY DEF Quotas
<1> DEFINE u == UnitsOf[q.plan]
           r5 == Convert(Remaining(q.five), u.five)
           r1 == Convert(Remaining(q.week), u.week)
           p5 == Convert(Projected(q.five, q.at), u.five)
           p1 == Convert(Projected(q.week, q.at), u.week)
<1>2. r5 \in Int /\ r1 \in Int /\ p5 \in Int /\ p1 \in Int
  BY <1>1, UnitsOfAll, RemainingInt, ProjectedInt, ConvertInt
<1>3. \A x, y \in Int : Bottleneck(x, y) \in Int
  BY DEF Bottleneck, None, Min2, Max2
<1>4. Bottleneck(r5, r1) \in Int /\ Bottleneck(p5, p1) \in Int
  BY <1>2, <1>3
<1>5. q.five.reset \in Int /\ q.week.reset \in Int
  BY <1>1 DEF QuotaWindow
<1> HIDE DEF u, r5, r1, p5, p1
<1>6. Candidate(q) = [r5 |-> r5, r1 |-> r1, p5 |-> p5, p1 |-> p1,
      current |-> Bottleneck(r5, r1), soon |-> Bottleneck(p5, p1),
      reset |-> [five |-> q.five.reset, week |-> q.week.reset],
      empty |-> {i \in {"five", "week"} : Remaining(q[i]) = 0}]
  BY DEF Candidate, u, r5, r1, p5, p1
<1> QED BY <1>2, <1>4, <1>5, <1>6 DEF Scores, Windows

\* When its windows are reset, an account adds two keys.
LEMMA KeysOfResets ==
  ASSUME NEW c \in Scores, NEW x \in Int, NEW y \in Int
  PROVE  ResetKeys(c, x, y) \in Seq(Int) /\ Len(ResetKeys(c, x, y)) = 3
<1> DEFINE ws == Limiting(x, y)
<1>1. ws \subseteq Windows /\ Windows \ ws \subseteq Windows /\ c.empty \subseteq Windows
  BY DEF Limiting, Scores
<1>2. ASSUME NEW is \in SUBSET Windows PROVE Earliest(c, is) \in Int /\ Latest(c, is) \in Int
  <2>1. Known(c, is) \subseteq {c.reset["five"], c.reset["week"]}
    BY DEF Known, Windows
  <2>2. c.reset["five"] \in Int /\ c.reset["week"] \in Int
    BY DEF Scores
  <2>3. IsFiniteSet({c.reset["five"], c.reset["week"]})
    <3>1. {c.reset["five"], c.reset["week"]} = {c.reset["five"]} \cup {c.reset["week"]}
      OBVIOUS
    <3>2. IsFiniteSet({c.reset["five"]})
      BY FS_Singleton
    <3> QED BY <3>1, <3>2, FS_AddElement
  <2>4. IsFiniteSet(Known(c, is)) /\ Known(c, is) \in SUBSET Int
    BY <2>1, <2>2, <2>3, FS_Subset
  <2>5. CASE Known(c, is) = {}
    BY <2>5 DEF Earliest, Latest, Never
  <2>6. CASE Known(c, is) # {}
    <3>1. Bounded(Known(c, is))
      BY <2>4, <2>6, FiniteBounded
    <3>2. Earliest(c, is) \in Known(c, is)
      BY <2>6, <3>1 DEF Earliest, Bounded
    <3>3. Latest(c, is) \in Known(c, is)
      BY <2>6, <3>1 DEF Latest, Bounded
    <3> QED BY <2>4, <3>2, <3>3
  <2> QED BY <2>5, <2>6
<1>3. Latest(c, c.empty) \in Int /\ Earliest(c, ws) \in Int /\ Earliest(c, Windows \ ws) \in Int
  BY <1>1, <1>2
<1> QED BY <1>3 DEF ResetKeys

\* How many keys an account has depends on whether it is exhausted only, and its place
\* in the alphabet is the last.
Size(c) == IF c.current = 0 THEN 10 ELSE 6
\* The keys of an account for the listing: as many as Size says, its place last.
LEMMA KeysOfList ==
  ASSUME NEW c \in Scores, NEW n \in Int
  PROVE  ListKeys(c, n) \in Keys(Size(c)) /\ ListKeys(c, n)[Size(c)] = n
<1> DEFINE resets == ResetKeys(c, c.r5, c.r1)
           first == IF c.current = 0 THEN resets \o <<-c.soon>> ELSE <<>>
           most == first \o <<-c.r5, -c.r1>> \o resets
<1>1. c.r5 \in Int /\ c.r1 \in Int /\ c.soon \in Int
  BY DEF Scores
<1>2. resets \in Seq(Int) /\ Len(resets) = 3
  BY <1>1, KeysOfResets
<1>3. <<-c.soon>> \in Seq(Int) /\ <<-c.r5, -c.r1>> \in Seq(Int) /\ <<n>> \in Seq(Int)
      /\ Len(<<-c.soon>>) = 1 /\ Len(<<-c.r5, -c.r1>>) = 2 /\ Len(<<n>>) = 1
  BY <1>1
<1> HIDE DEF resets
<1>4. first \in Seq(Int) /\ Len(first) = Size(c) - 6
  <2> DEFINE soon == <<-c.soon>>
  <2>0. soon \in Seq(Int) /\ Len(soon) = 1
    BY <1>3
  <2> HIDE DEF soon
  <2>1. resets \o soon \in Seq(Int) /\ Len(resets \o soon) = Len(resets) + Len(soon)
    BY <1>2, <2>0, ConcatProperties, Zenon
  <2>2. <<>> \in Seq(Int) /\ Len(<<>>) = 0
    OBVIOUS
  <2>3. c.current = 0 => first = resets \o soon
    BY DEF first, soon
  <2>4. c.current # 0 => first = <<>>
    BY DEF first
  <2> HIDE DEF first
  <2>5. CASE c.current = 0
    <3>1. Size(c) = 10 /\ first = resets \o soon
      BY <2>3, <2>5 DEF Size
    <3>2. Len(first) = 4
      BY <1>2, <2>0, <2>1, <3>1
    <3> QED BY <2>1, <3>1, <3>2
  <2>6. CASE c.current # 0
    <3>1. Size(c) = 6 /\ first = <<>>
      BY <2>4, <2>6 DEF Size
    <3> QED BY <2>2, <3>1
  <2> QED BY <2>5, <2>6
<1> HIDE DEF first
<1>5. most \in Seq(Int) /\ Len(most) = Size(c) - 1
  <2>1. first \o <<-c.r5, -c.r1>> \in Seq(Int) /\ Len(first \o <<-c.r5, -c.r1>>) = Size(c) - 4
    BY <1>3, <1>4, ConcatProperties DEF Size
  <2> DEFINE some == first \o <<-c.r5, -c.r1>>
  <2> HIDE DEF some
  <2>2. some \in Seq(Int) /\ Len(some) = Size(c) - 4
    BY <2>1 DEF some
  <2>3. some \o resets \in Seq(Int) /\ Len(some \o resets) = Len(some) + Len(resets)
    BY <1>2, <2>2, ConcatProperties, Zenon
  <2> QED BY <2>2, <2>3, <1>2 DEF Size, some
<1>6. ListKeys(c, n) = most \o <<n>>
  BY DEF ListKeys, first, resets
<1> HIDE DEF most
<1>7. most \o <<n>> \in Seq(Int) /\ Len(most \o <<n>>) = Size(c)
  BY <1>3, <1>5, ConcatProperties DEF Size
<1>8. (most \o <<n>>)[Size(c)] = n
  BY <1>3, <1>5, ConcatProperties DEF Size
<1> QED BY <1>6, <1>7, <1>8, ElementOfSeq, LenProperties DEF Keys

\* The listing orders any accounts, and an automatic switch leaves an exhausted one
\* unbeaten only when no other is clearly better.
LEMMA ListingOrders ==
  ASSUME NEW x \in Scores, NEW i \in Int, NEW y \in Scores, NEW j \in Int, i # j
  PROVE  ListedBefore(x, i, y, j) <=> ~ListedBefore(y, j, x, i)
<1>1. x.current \in Int /\ y.current \in Int
  BY DEF Scores
<1>2. CASE x.current # y.current
  BY <1>1, <1>2 DEF ListedBefore
<1>3. CASE x.current = y.current
  <2>1. /\ ListKeys(x, i) \in Keys(Size(x)) /\ ListKeys(y, j) \in Keys(Size(x))
        /\ ListKeys(x, i)[Size(x)] = i /\ ListKeys(y, j)[Size(x)] = j
    BY <1>3, KeysOfList DEF Size
  <2>2. Size(x) \in Nat
    BY DEF Size
  <2> QED BY <2>1, <2>2, <1>3, BeforeTotal DEF ListedBefore
<1> QED BY <1>2, <1>3

\* The listing is transitive.
LEMMA ListingTransitive ==
  ASSUME NEW x \in Scores, NEW i \in Int, NEW y \in Scores, NEW j \in Int, NEW z \in Scores, NEW k \in Int,
         ListedBefore(x, i, y, j), ListedBefore(y, j, z, k)
  PROVE  ListedBefore(x, i, z, k)
<1>1. x.current \in Int /\ y.current \in Int /\ z.current \in Int
  BY DEF Scores
<1>2. CASE x.current = y.current /\ y.current = z.current
  <2>1. /\ ListKeys(x, i) \in Keys(Size(x)) /\ ListKeys(y, j) \in Keys(Size(x)) /\ ListKeys(z, k) \in Keys(Size(x))
        /\ Size(x) \in Nat
    BY <1>2, KeysOfList DEF Size
  <2> QED BY <2>1, <1>2, BeforeTransitive DEF ListedBefore
<1>3. CASE ~(x.current = y.current /\ y.current = z.current)
  <2>1. x.current > z.current
    BY <1>1, <1>3 DEF ListedBefore
  <2> QED BY <2>1, <1>1 DEF ListedBefore
<1> QED BY <1>2, <1>3

\* A pick that is exhausted leaves nothing much better behind.
LEMMA UnbeatenSound ==
  ASSUME quota \in [Accounts -> Quotas], NEW cs \in SUBSET Accounts, NEW a \in Unbeaten(cs), NEW b \in cs,
         Candidate(quota[a]).current = 0
  PROVE  Candidate(quota[b]).current <= CloseScores
<1> DEFINE x == Candidate(quota[a])
           y == Candidate(quota[b])
<1>1. x \in Scores /\ y \in Scores
  BY CandidateScores DEF Unbeaten
<1>2. x.current \in Int /\ y.current \in Int
  BY <1>1 DEF Scores
<1>3. CASE a = b
  BY <1>3, <1>2 DEF CloseScores
<1>4. CASE a # b
  <2>1. ~Beats(y, Order(b), x, Order(a))
    BY <1>4 DEF Unbeaten
  <2>2. ~(Abs(y.current - x.current) > CloseScores) \/ ~(y.current > x.current)
    BY <2>1 DEF Beats
  <2> QED BY <2>2, <1>2 DEF Abs, CloseScores
<1> QED BY <1>3, <1>4

\* The quotas of a workload, and what is used up of them.
QuotasTyped == work \in Works /\ quota \in [Accounts -> Quotas]
\* The quotas of any accounts are ranked soundly.
LEMMA QuotasRanked ==
  ASSUME QuotasTyped
  PROVE  RankingSound
<1> DEFINE cs == {a \in Accounts : IsCandidate(quota[a])}
           score == [a \in cs |-> Candidate(quota[a])]
           before == [a \in cs |-> [b \in cs |-> ListedBefore(score[a], Order(a), score[b], Order(b))]]
<1>1. \A a, b \in Accounts : Order(a) \in Int /\ (a # b => Order(a) # Order(b))
  BY WatchAssumption DEF QuotasTyped, Order
<1>2. \A a \in cs : a \in Accounts /\ score[a] \in Scores /\ score[a] = Candidate(quota[a])
  BY CandidateScores DEF QuotasTyped
<1>3. \A a, b \in cs : before[a][b] = ListedBefore(score[a], Order(a), score[b], Order(b))
  OBVIOUS
<1> HIDE DEF score, before
<1>4. \A a, b \in cs : a # b => (before[a][b] <=> ~before[b][a])
  BY <1>1, <1>2, <1>3, ListingOrders
<1>5. \A a, b, c \in cs : before[a][b] /\ before[b][c] => before[a][c]
  BY <1>1, <1>2, <1>3, ListingTransitive
<1>6. \A a \in Unbeaten(cs), b \in cs : score[a].current = 0 => score[b].current <= CloseScores
  BY <1>2, UnbeatenSound DEF QuotasTyped, Unbeaten
<1> QED BY <1>4, <1>5, <1>6 DEF RankingSound, cs, score, before

-----------------------------------------------------------------------------
(* The managed Desktop: types *)

\* The places of a task, by what it does there: where it holds the lock in any case,
\* where it restarts the app, applies a switch, launches the app, or handles a message.
Owned == {"auth", "unlock", "cool", "select"}
OfRestart == {"relook", "recheck", "requit", "reopen", "retrack"}
OfRefresh == {"refresh", "await", "fallback", "list"} \cup OfRestart
OfLaunch == {"look", "confirm", "quit", "open", "track", "surface", "restore"}
OfHandler == {"read", "judge", "hlock", "cool", "select"}
\* Where a task has switched the account and has yet to see to the app.
Post == OfRefresh \cup {"skip", "open", "track", "surface", "restore"}
\* All places of a task, and all states of a script.
Places == {"idle", "lock", "end"} \cup Owned \cup OfRefresh \cup {"skip"} \cup OfLaunch \cup OfHandler
PageStates == {"none", "first", "read1", "read", "wait", "restart", "ready", "done", "failed", "lost"}
\* What auth.json may hold, and what an operation may report.
Auths == Accounts \cup {Proxy, NoAccount}

Reports == {"none", "busy", "retained", "refused", "same", "applied", "elsewhere", "failed", "killed",
            "other", "threw", "restarted", "cancelled", "quitFailed", "best"}
\* A process of the app, a script in a page, and the local variables of a task.
Procs == [st : {"new", "up", "gone"}, ours : BOOLEAN, slipped : BOOLEAN, acct : Auths,
          loaded : SUBSET Threads, busy : SUBSET Threads]
Pages == [st : PageStates, of : Pids \cup {NoPid}, by : Tasks \cup {NoTask},
          left : SUBSET Threads, found : BOOLEAN, force : BOOLEAN, long : SUBSET Threads]
Mems == [op : {"none", "switch", "launch", "auto"}, to : Accounts \cup {NoAccount}, force : BOOLEAN,
         before : Auths, switched : BOOLEAN, backup : BOOLEAN, seen : SUBSET Pids,
         script : Scripts \cup {NoScript}, end : Reports]

\* The types, by what changes together.
StoreTyped == work \in Works /\ auth \in Auths /\ lock \in Tasks \cup {NoTask}
AppsTyped == apps \in [Pids -> Procs] /\ managed \in Pids \cup {NoPid}
PageTyped == page \in [Scripts -> Pages]
TasksTyped == pc \in [Tasks -> Places] /\ mem \in [Tasks -> Mems]
DeskTyped == StoreTyped /\ AppsTyped /\ PageTyped /\ TasksTyped

\* Processes that run, and those not started, are processes.
LEMMA UpPids == Up \subseteq Pids /\ Fresh \subseteq Pids
BY DEF Up, Fresh

\* Processes have numbers, and there are finitely many of them.
LEMMA PidsFinite == Pids \in SUBSET Int /\ IsFiniteSet(Pids) /\ NoPid \notin Pids
<1>1. Pids \subseteq Nat /\ IsFiniteSet(Pids) /\ NoPid \notin Pids
  BY DesktopAssumption
<1> QED BY <1>1

\* If there is a process not started, the next one to start is one of them.
LEMMA MinFresh ==
  ASSUME Fresh # {}
  PROVE  Min(Fresh) \in Fresh
<1>1. Fresh \in SUBSET Int /\ IsFiniteSet(Fresh)
  BY UpPids, PidsFinite, FS_Subset
<1> QED BY <1>1, FiniteBounded DEF Min, Bounded

\* The newest of some processes is one of them.
LEMMA MaxOf ==
  ASSUME NEW S \in SUBSET Pids, S # {}
  PROVE  Max(S) \in S
<1>1. S \in SUBSET Int /\ IsFiniteSet(S)
  BY PidsFinite, FS_Subset
<1>2. \E x \in S : \A y \in S : x >= y
  BY <1>1, FiniteBounded DEF Bounded
<1> QED BY <1>2 DEF Max

\* The process taken for codexm's runs.
LEMMA NewestUp ==
  ASSUME Up # {}, NEW seen
  PROVE  Newest(seen) \in Up
BY MaxOf, UpPids DEF Newest

\* The jobs of a workload.
LEMMA WorkTyped ==
  ASSUME work \in Works
  PROVE  /\ work.platform \in {"mac", "win"}
         /\ \A t \in Tasks : work.jobs[t] \in Jobs
<1>1. work.platform \in {"mac", "win"} /\ work.jobs \in [Tasks -> Jobs]
  BY DesktopAssumption
<1> QED BY <1>1

-----------------------------------------------------------------------------
\* The steps that tasks are built from keep the types: the end of an operation,
LEMMA EndsTyped ==
  ASSUME DeskTyped, NEW t \in Tasks, NEW r \in Reports, Ends(t, r)
  PROVE  TasksTyped'
<1>1. pc \in [Tasks -> Places] /\ mem \in [Tasks -> Mems] /\ mem[t] \in Mems
  BY DEF DeskTyped, TasksTyped
<1>2. [mem[t] EXCEPT !.end = r, !.script = NoScript] \in Mems
  BY <1>1 DEF Mems
<1>3. {"unlock", "end"} \subseteq Places
  BY DEF Places, Owned
<1>4. pc' \in [Tasks -> Places]
  BY <1>1, <1>3 DEF Ends, Go
<1>5. mem' \in [Tasks -> Mems]
  BY <1>1, <1>2 DEF Ends, Set
<1> QED BY <1>4, <1>5 DEF TasksTyped

\* going on,
LEMMA GoTyped ==
  ASSUME DeskTyped, NEW t \in Tasks, NEW p \in Places, Go(t, p), UNCHANGED mem
  PROVE  TasksTyped'
BY DEF DeskTyped, TasksTyped, Go

\* going on with other variables,
LEMMA GoSetTyped ==
  ASSUME DeskTyped, NEW t \in Tasks, NEW p \in Places, Go(t, p), NEW r \in Mems, Set(t, r)
  PROVE  TasksTyped'
BY DEF DeskTyped, TasksTyped, Go, Set

\* apps that are quit,
LEMMA GoneTyped ==
  ASSUME AppsTyped, NEW ps
  PROVE  Gone(ps) \in [Pids -> Procs]
BY DEF AppsTyped, Gone, NotStarted, Procs, Auths

\* pages that go with them,
LEMMA PagesTyped ==
  ASSUME PageTyped, NEW ps
  PROVE  PagesWithout(ps) \in [Scripts -> Pages]
BY DEF PageTyped, PagesWithout, Pages, PageStates

\* threads that are interrupted,
LEMMA IdleTyped ==
  ASSUME PageTyped, NEW p
  PROVE  Idle(p) \in [Scripts -> Pages]
BY DEF PageTyped, Idle, Pages

\* an app server that restarts,
LEMMA RestartedTyped ==
  ASSUME DeskTyped, NEW p
  PROVE  Restarted(p) \in [Pids -> Procs]
<1>1. apps \in [Pids -> Procs] /\ auth \in Auths
  BY DEF DeskTyped, StoreTyped, AppsTyped
<1>2. \A q \in Pids : [apps[q] EXCEPT !.acct = auth, !.loaded = {}, !.busy = {}] \in Procs
  BY <1>1 DEF Procs
<1>3. Restarted(p) = [apps EXCEPT ![p] = [apps[p] EXCEPT !.acct = auth, !.loaded = {}, !.busy = {}]]
  BY <1>1 DEF Restarted
<1> QED BY <1>1, <1>2, <1>3

\* an app that is started,
LEMMA UpAppTyped ==
  ASSUME DeskTyped, NEW ours \in BOOLEAN, NEW slipped \in BOOLEAN, Fresh # {}
  PROVE  [apps EXCEPT ![Min(Fresh)] = UpApp(ours, slipped)] \in [Pids -> Procs]
BY MinFresh, UpPids DEF DeskTyped, StoreTyped, AppsTyped, UpApp, NotStarted, Procs

\* and no script at all.
LEMMA NoPageTyped == NoPage \in Pages
BY DEF NoPage, Pages, PageStates

\* Every step of a task keeps the types.
LEMMA TaskTyped ==
  ASSUME DeskTyped, NEW t \in Tasks,
         Begin(t) \/ TaskStep(t) \/ SwitchFails(t) \/ GivesUp(t) \/ Interrupted(t)
  PROVE  DeskTyped'
<1> USE DEF At, Works0, Fail
<1>0. t \in Tasks /\ mem[t] \in Mems /\ StoreTyped /\ AppsTyped /\ PageTyped /\ TasksTyped
  BY DEF DeskTyped, TasksTyped
<1>1. CASE Begin(t)
  <2>1. work.jobs[t] \in Jobs
    BY <1>0, WorkTyped DEF StoreTyped
  <2>2. /\ work.jobs[t].op \in {"none", "switch", "launch"}
        /\ work.jobs[t].to \in Accounts \cup {NoAccount} /\ work.jobs[t].force \in BOOLEAN
    BY <2>1 DEF Jobs
  <2>3. NoMem \in Mems
    BY DEF NoMem, Mems, Reports, Auths
  <2>4. [NoMem EXCEPT !.op = work.jobs[t].op, !.to = work.jobs[t].to, !.force = work.jobs[t].force] \in Mems
    BY <2>2, <2>3 DEF Mems
  <2>5. PICK p \in {"lock", "look"} :
          Go(t, p) /\ Set(t, [NoMem EXCEPT !.op = work.jobs[t].op, !.to = work.jobs[t].to,
                                           !.force = work.jobs[t].force])
    BY <1>1 DEF Begin
  <2>6. p \in Places
    BY DEF Places, OfLaunch
  <2>7. TasksTyped'
    BY <2>4, <2>5, <2>6, GoSetTyped
  <2> QED BY <1>1, <1>0, <2>7 DEF Begin, DeskTyped, StoreTyped, AppsTyped, PageTyped, store, desk
<1>2. CASE TakeLock(t)
  BY <1>2, <1>0, GoTyped, EndsTyped DEF Reports, TakeLock, DeskTyped, StoreTyped, AppsTyped,
     PageTyped, desk, Places, Owned
<1>3. CASE SwitchAuth(t)
  <2>1. /\ auth' \in {auth, mem[t].to} /\ UNCHANGED <<lock, desk, page, work>>
    BY <1>3 DEF SwitchAuth, desk
  <2>2. [mem[t] EXCEPT !.before = auth] \in Mems
    BY <1>0 DEF Mems, StoreTyped
  <2>3. [mem[t] EXCEPT !.before = auth, !.backup = auth # NoAccount, !.switched = TRUE] \in Mems
    BY <1>0 DEF Mems, StoreTyped
  <2>4. \/ Ends(t, "retained")
        \/ \E p \in {"open", "skip", "refresh"}, r \in Mems : Go(t, p) /\ Set(t, r)
    BY <1>3, <2>2, <2>3 DEF SwitchAuth, AfterAuth
  <2>5. TasksTyped'
    BY <1>0, <2>4, GoSetTyped, EndsTyped DEF Reports, Places, OfLaunch, OfRefresh
  <2>6. auth' \in Auths
    BY <1>0, <2>1 DEF StoreTyped, Auths, Mems
  <2> QED BY <1>0, <2>1, <2>5, <2>6 DEF DeskTyped, StoreTyped, AppsTyped, PageTyped, desk
<1>4. CASE SwitchFails(t)
  BY <1>4, <1>0, EndsTyped DEF Reports, SwitchFails, DeskTyped, StoreTyped, AppsTyped, PageTyped,
     store, desk
<1>5. CASE SkipRefresh(t)
  BY <1>5, <1>0, GoTyped, EndsTyped DEF Reports, SkipRefresh, DeskTyped, StoreTyped, AppsTyped,
     PageTyped, store, desk, Places, OfRefresh
<1>6. CASE Refresh(t)
  <2>1. CASE Inject(t)
    <3>1. PICK p \in Up, s \in Scripts :
            /\ page' = [page EXCEPT ![s] = [NoPage EXCEPT !.st = IF mem[t].force THEN "restart" ELSE "first",
                                                          !.of = p, !.by = t, !.force = mem[t].force]]
            /\ Set(t, [mem[t] EXCEPT !.script = s]) /\ Go(t, "await")
      BY <2>1 DEF Inject
    <3>2. [NoPage EXCEPT !.st = IF mem[t].force THEN "restart" ELSE "first",
                        !.of = p, !.by = t, !.force = mem[t].force] \in Pages
      BY <1>0, UpPids DEF NoPage, Pages, PageStates, Mems
    <3>3. PageTyped'
      BY <3>1, <3>2, <1>0 DEF PageTyped
    <3>4. "await" \in Places /\ [mem[t] EXCEPT !.script = s] \in Mems
      BY <1>0 DEF Places, OfRefresh, Mems
    <3>5. TasksTyped'
      BY <3>1, <3>4, GoSetTyped
    <3> QED BY <3>3, <3>5, <1>6, <1>0 DEF Refresh, DeskTyped, StoreTyped, AppsTyped, store, desk
  <2>2. CASE ~Inject(t)
    BY <2>2, <1>6, <1>0, GoTyped DEF Refresh, DeskTyped, StoreTyped, AppsTyped, PageTyped, store,
       desk, Places,
       OfRefresh, OfRestart
  <2> QED BY <2>1, <2>2
<1>7. CASE Answered(t)
  BY <1>7, <1>0, GoTyped, EndsTyped, NoPageTyped DEF Reports, Answered, DeskTyped, StoreTyped,
     AppsTyped, PageTyped,
     store, desk, Places, OfRefresh
<1>8. CASE GivesUp(t)
  BY <1>8, <1>0, GoTyped DEF GivesUp, DeskTyped, StoreTyped, AppsTyped, PageTyped, store, desk,
     Places, OfRefresh, Pages
<1>9. CASE Interrupted(t)
  BY <1>9, <1>0, EndsTyped, NoPageTyped DEF Reports, Interrupted, DeskTyped, StoreTyped,
     AppsTyped, PageTyped, store, desk, Pages
<1>10. CASE Fallback(t)
  BY <1>10, <1>0, EndsTyped, GoneTyped, PagesTyped DEF Reports, Fallback, DeskTyped, StoreTyped,
     AppsTyped, PageTyped, store
<1>11. CASE ListOthers(t)
  BY <1>11, <1>0, EndsTyped DEF Reports, ListOthers, DeskTyped, StoreTyped, AppsTyped, PageTyped,
     store, desk
<1>12. CASE Unlock(t)
  BY <1>12, <1>0, GoTyped DEF Unlock, DeskTyped, StoreTyped, AppsTyped, PageTyped, desk, Places
<1>13. CASE RestartLook(t)
  BY <1>13, <1>0, GoTyped, EndsTyped DEF Reports, RestartLook, DeskTyped, StoreTyped, AppsTyped,
     PageTyped, store, desk, Places,
     OfRefresh, OfRestart
<1>14. CASE RestartCheck(t)
  BY <1>14, <1>0, GoSetTyped, EndsTyped, UpPids DEF Reports, RestartCheck, DeskTyped, StoreTyped,
     AppsTyped, PageTyped, store, desk,
     Places, OfRefresh, OfRestart, Mems
<1>15. CASE RestartQuit(t)
  BY <1>15, <1>0, GoTyped, EndsTyped, GoneTyped DEF Reports, RestartQuit, DeskTyped, StoreTyped,
     AppsTyped, PageTyped, store,
     Places, OfRefresh, OfRestart
<1>16. CASE RestartOpen(t)
  BY <1>16, <1>0, GoTyped, EndsTyped, UpAppTyped DEF Reports, RestartOpen, Opened, DeskTyped,
     StoreTyped, AppsTyped, PageTyped, store,
     Places, OfRefresh, OfRestart
<1>17. CASE RestartTrack(t)
  BY <1>17, <1>0, EndsTyped, NewestUp, UpPids DEF Reports, RestartTrack, DeskTyped, StoreTyped,
     AppsTyped, PageTyped, store
<1>18. CASE Look(t)
  BY <1>18, <1>0, GoSetTyped, UpPids DEF Look, NextOfLaunch, DeskTyped, StoreTyped, AppsTyped,
     PageTyped, store, desk,
     Places, OfLaunch, Mems
<1>19. CASE Confirm(t)
  BY <1>19, <1>0, GoTyped, EndsTyped DEF Reports, Confirm, DeskTyped, StoreTyped, AppsTyped,
     PageTyped, store, desk,
     Places, OfLaunch
<1>20. CASE Quit(t)
  BY <1>20, <1>0, GoTyped, EndsTyped, GoneTyped, PagesTyped DEF Reports, Quit, NextOfLaunch,
     DeskTyped, StoreTyped, AppsTyped,
     PageTyped, store, Places, OfLaunch
<1>21. CASE Open(t)
  BY <1>21, <1>0, GoTyped, EndsTyped, UpAppTyped DEF Reports, Open, Opened, DeskTyped,
     StoreTyped, AppsTyped, PageTyped, store,
     Places, OfLaunch
<1>22. CASE Track(t)
  BY <1>22, <1>0, GoTyped, NewestUp, UpPids DEF Track, DeskTyped, StoreTyped, AppsTyped,
     PageTyped, store,
     Places, OfLaunch
<1>23. CASE Surface(t)
  BY <1>23, <1>0, EndsTyped, RestartedTyped, IdleTyped DEF Reports, Surface, DeskTyped,
     StoreTyped, AppsTyped, PageTyped, store
<1>24. CASE Restore(t)
  BY <1>24, <1>0, EndsTyped DEF Reports, Restore, Restored, DeskTyped, StoreTyped, AppsTyped,
     PageTyped, desk, Mems, Auths
<1> QED BY <1>1, <1>2, <1>3, <1>4, <1>5, <1>6, <1>7, <1>8, <1>9, <1>10, <1>11, <1>12, <1>13,
           <1>14, <1>15, <1>16,
           <1>17, <1>18, <1>19, <1>20, <1>21, <1>22, <1>23, <1>24 DEF TaskStep

\* What the scripts in pages are about: a script that is not gone runs in an app that is
\* up, is waited for by the task that put it there, and reads threads of which those
\* active all along are still to be read as long as none was found active.
ScriptOf(t, s) == pc[t] = "await" /\ mem[t].script = s
PageClause(s) ==
  /\ page[s].st = "none" => page[s] = NoPage
  /\ page[s].st # "none" => page[s].of \in Pids
  /\ page[s].st # "none" => \A t \in Tasks : page[s].by = t <=> ScriptOf(t, s)
  /\ page[s].st \notin {"none", "lost"} => page[s].of \in Up /\ page[s].long \subseteq apps[page[s].of].busy
  /\ page[s].st \in {"read1", "read"} /\ ~page[s].found => page[s].long \subseteq page[s].left
  /\ page[s].st = "restart" /\ ~page[s].force => page[s].long = {}
\* A task that waits has a script; there are pages on macOS only; threads that are
\* active are loaded.
AwaitClause(t) == pc[t] = "await" => mem[t].script \in Scripts /\ page[mem[t].script].st # "none"
NoPageOnWin == work.platform = "win" => \A s \in Scripts : page[s] = NoPage
BusyLoaded == \A p \in Pids : apps[p].busy \subseteq apps[p].loaded
\* With that, no switch interrupts a thread that was active all along.
PageInv ==
  /\ NoPageOnWin /\ BusyLoaded /\ ~disturbed
  /\ \A s \in Scripts : PageClause(s)
  /\ \A t \in Tasks : AwaitClause(t)

\* What the lock is about: whoever is at certain places holds it, except a launch without
\* an account, and in its places an operation is of the kind that gets there.  While a
\* switch is applied, auth.json is the account it was switched to.
NoLock(t) == mem[t].op = "launch" /\ mem[t].to = NoAccount
LockHeld == lock # NoTask => pc[lock] \in Owned \cup Post
LockClause(t) ==
  /\ pc[t] \in Owned => lock = t
  /\ pc[t] \in Post => lock = t \/ NoLock(t)
  /\ pc[t] \in OfLaunch => mem[t].op = "launch"
  /\ pc[t] = "skip" => mem[t].op = "switch"
  /\ pc[t] = "lock" => mem[t].op \in {"switch", "launch"} /\ mem[t].to \in Accounts
  /\ pc[t] = "auth" => mem[t].op \in {"switch", "launch", "auto"} /\ mem[t].to \in Accounts
  /\ pc[t] \in OfRefresh => mem[t].op \in {"switch", "auto"}
  /\ pc[t] \in OfRefresh \cup {"skip"} => auth = mem[t].to /\ mem[t].to \in Accounts
  /\ pc[t] \in OfRestart => work.platform = "win"
  /\ pc[t] \in {"list", "await", "fallback", "track", "surface"} => work.platform = "mac"
  /\ pc[t] = "idle" \/ mem[t].op = "none" => pc[t] = "idle" /\ mem[t].op = "none"
LockInv == LockHeld /\ \A t \in Tasks : LockClause(t)

\* The steps of a script keep the types,
LEMMA ScriptTyped ==
  ASSUME DeskTyped, PageInv, NEW s \in Scripts, ScriptStep(s) \/ ScriptFails(s)
  PROVE  DeskTyped'
<1>0. page[s] \in Pages /\ StoreTyped /\ AppsTyped /\ PageTyped /\ TasksTyped
      /\ (page[s].st # "none" => page[s].of \in Pids /\ apps[page[s].of] \in Procs)
  BY DEF DeskTyped, PageTyped, AppsTyped, PageInv, PageClause
<1>1. ASSUME NEW r \in Pages, Script(s, r), UNCHANGED <<store, desk, pc, mem, work>>
      PROVE  DeskTyped'
  BY <1>1, <1>0 DEF Script, DeskTyped, StoreTyped, AppsTyped, PageTyped, TasksTyped, store, desk
<1>2. CASE Collect(s)
  BY <1>2, <1>0, <1>1 DEF Collect, Pages, PageStates, Procs
<1>3. CASE ReadThread(s)
  <2>1. PICK th \in page[s].left :
          Script(s, [page[s] EXCEPT !.left = @ \ {th}, !.found = @ \/ th \in apps[page[s].of].busy])
    BY <1>3 DEF ReadThread
  <2>2. [page[s] EXCEPT !.left = @ \ {th}, !.found = @ \/ th \in apps[page[s].of].busy] \in Pages
    BY <1>0 DEF Pages
  <2> QED BY <2>1, <2>2, <1>1, <1>3 DEF ReadThread
<1>4. CASE Collected(s)
  BY <1>4, <1>0, <1>1 DEF Collected, Pages, PageStates
<1>5. CASE RestartServer(s)
  <2>1. Restarted(page[s].of) \in [Pids -> Procs] /\ Idle(page[s].of) \in [Scripts -> Pages]
    BY <1>0, RestartedTyped, IdleTyped
  <2> QED BY <1>5, <1>0, <2>1 DEF RestartServer, Pages, PageStates, DeskTyped, StoreTyped,
             AppsTyped, PageTyped,
            TasksTyped, store
<1>6. CASE ServerReady(s)
  <2>1. \/ Script(s, NoPage)
        \/ Script(s, [page[s] EXCEPT !.st = "done"])
        \/ Script(s, [page[s] EXCEPT !.st = "failed"])
    BY <1>6 DEF ServerReady
  <2>2. [page[s] EXCEPT !.st = "done"] \in Pages /\ [page[s] EXCEPT !.st = "failed"] \in Pages
    BY <1>0 DEF Pages, PageStates
  <2> QED BY <2>1, <2>2, <1>6, <1>1, NoPageTyped DEF ServerReady
<1>7. CASE ScriptGone(s)
  BY <1>7, <1>1, NoPageTyped DEF ScriptGone
<1>8. CASE ScriptFails(s)
  BY <1>8, <1>0, <1>1, NoPageTyped DEF ScriptFails, Pages, PageStates
<1> QED BY <1>2, <1>3, <1>4, <1>5, <1>6, <1>7, <1>8 DEF ScriptStep

\* and so do the user and the threads.
LEMMA UserTyped ==
  ASSUME DeskTyped, ThreadStarts \/ ThreadEnds \/ UserOpens \/ UserQuits
  PROVE  DeskTyped'
<1>0. StoreTyped /\ AppsTyped /\ PageTyped /\ TasksTyped
  BY DEF DeskTyped
<1>1. CASE ThreadStarts
  BY <1>1, <1>0, UpPids DEF ThreadStarts, DeskTyped, StoreTyped, AppsTyped, PageTyped,
     TasksTyped, store, Procs
<1>2. CASE ThreadEnds
  <2>1. PICK p \in Up : \E th \in apps[p].busy :
          /\ apps' = [apps EXCEPT ![p].busy = @ \ {th}]
          /\ page' = [s \in Scripts |-> IF page[s].of = p THEN [page[s] EXCEPT !.long = @ \ {th}] ELSE page[s]]
    BY <1>2 DEF ThreadEnds
  <2>2. PageTyped'
    BY <2>1, <1>0 DEF PageTyped, Pages
  <2>3. apps' \in [Pids -> Procs]
    BY <2>1, <1>0, UpPids DEF AppsTyped, Procs
  <2> QED BY <1>2, <1>0, <2>2, <2>3 DEF ThreadEnds, DeskTyped, StoreTyped, AppsTyped, TasksTyped,
             store
<1>3. CASE UserOpens
  <2>1. (\E t \in Tasks : Starting(t)) \in BOOLEAN
    OBVIOUS
  <2>2. apps' \in [Pids -> Procs]
    BY <1>3, <2>1, UpAppTyped DEF UserOpens
  <2> QED BY <1>3, <1>0, <2>2 DEF UserOpens, DeskTyped, StoreTyped, AppsTyped, PageTyped,
             TasksTyped, store
<1>4. CASE UserQuits
  BY <1>4, <1>0, GoneTyped, PagesTyped DEF UserQuits, DeskTyped, StoreTyped, AppsTyped,
     PageTyped, TasksTyped, store
<1> QED BY <1>1, <1>2, <1>3, <1>4

-----------------------------------------------------------------------------
\* What the steps of a task do to the other tasks and to the lock.
Apart(t) == /\ \A o \in Tasks \ {t} : pc'[o] = pc[o] /\ mem'[o] = mem[o]
            /\ UNCHANGED work
Shut(t) == /\ lock' = lock \/ (lock = NoTask /\ lock' = t) \/ (lock = t /\ lock' = NoTask)
           /\ auth' = auth \/ lock = t

\* A step of one task leaves the others where they are,
LEMMA GoApart ==
  ASSUME TasksTyped, NEW t \in Tasks, NEW p, Go(t, p)
  PROVE  /\ pc'[t] = p /\ \A o \in Tasks \ {t} : pc'[o] = pc[o]
BY DEF TasksTyped, Go

\* and their variables alone,
LEMMA SetApart ==
  ASSUME TasksTyped, NEW t \in Tasks, NEW r, Set(t, r)
  PROVE  /\ mem'[t] = r /\ \A o \in Tasks \ {t} : mem'[o] = mem[o]
BY DEF TasksTyped, Set

\* also when it ends.
LEMMA EndsApart ==
  ASSUME TasksTyped, NEW t \in Tasks, NEW r, Ends(t, r)
  PROVE  /\ \A o \in Tasks \ {t} : pc'[o] = pc[o] /\ mem'[o] = mem[o]
         /\ pc'[t] = IF lock = t THEN "unlock" ELSE "end"
         /\ mem'[t] = [mem[t] EXCEPT !.end = r, !.script = NoScript]
BY GoApart, SetApart DEF Ends

\* Every step of a task is apart from the others, takes a lock only when it is free,
\* and switches the account only with the lock.
LEMMA TaskApart ==
  ASSUME DeskTyped, LockInv, NEW t \in Tasks,
         Begin(t) \/ TaskStep(t) \/ SwitchFails(t) \/ GivesUp(t) \/ Interrupted(t)
  PROVE  Apart(t) /\ Shut(t)
<1> USE DEF At, Apart, Shut, store
<1>0. TasksTyped
  BY DEF DeskTyped
<1>1. CASE Begin(t)
  BY <1>1, <1>0, GoApart, SetApart DEF Begin
<1>2. CASE TakeLock(t)
  BY <1>2, <1>0, GoApart, EndsApart DEF TakeLock
<1>3. CASE SwitchAuth(t)
  BY <1>3, <1>0, GoApart, SetApart, EndsApart DEF SwitchAuth, LockInv, LockClause, Owned
<1>4. CASE SwitchFails(t)
  BY <1>4, <1>0, EndsApart DEF SwitchFails
<1>5. CASE SkipRefresh(t)
  BY <1>5, <1>0, GoApart, EndsApart DEF SkipRefresh
<1>6. CASE Refresh(t)
  BY <1>6, <1>0, GoApart, SetApart DEF Refresh, Inject
<1>7. CASE Answered(t)
  BY <1>7, <1>0, GoApart, EndsApart DEF Answered
<1>8. CASE GivesUp(t)
  BY <1>8, <1>0, GoApart DEF GivesUp
<1>9. CASE Interrupted(t)
  BY <1>9, <1>0, EndsApart DEF Interrupted
<1>10. CASE Fallback(t)
  BY <1>10, <1>0, EndsApart DEF Fallback
<1>11. CASE ListOthers(t)
  BY <1>11, <1>0, EndsApart DEF ListOthers
<1>12. CASE Unlock(t)
  BY <1>12, <1>0, GoApart DEF Unlock, LockInv, LockClause, Owned
<1>13. CASE RestartLook(t)
  BY <1>13, <1>0, GoApart, EndsApart DEF RestartLook
<1>14. CASE RestartCheck(t)
  BY <1>14, <1>0, GoApart, SetApart, EndsApart DEF RestartCheck
<1>15. CASE RestartQuit(t)
  BY <1>15, <1>0, GoApart, EndsApart DEF RestartQuit
<1>16. CASE RestartOpen(t)
  BY <1>16, <1>0, GoApart, EndsApart DEF RestartOpen
<1>17. CASE RestartTrack(t)
  BY <1>17, <1>0, EndsApart DEF RestartTrack
<1>18. CASE Look(t)
  BY <1>18, <1>0, GoApart, SetApart DEF Look
<1>19. CASE Confirm(t)
  BY <1>19, <1>0, GoApart, EndsApart DEF Confirm
<1>20. CASE Quit(t)
  BY <1>20, <1>0, GoApart, EndsApart DEF Quit
<1>21. CASE Open(t)
  BY <1>21, <1>0, GoApart, EndsApart DEF Open
<1>22. CASE Track(t)
  BY <1>22, <1>0, GoApart DEF Track
<1>23. CASE Surface(t)
  BY <1>23, <1>0, EndsApart DEF Surface
<1>24. CASE Restore(t)
  BY <1>24, <1>0, EndsApart DEF Restore, LockInv, LockClause, Post, OfLaunch, NoLock
<1> QED BY <1>1, <1>2, <1>3, <1>4, <1>5, <1>6, <1>7, <1>8, <1>9, <1>10, <1>11, <1>12, <1>13,
           <1>14, <1>15, <1>16,
           <1>17, <1>18, <1>19, <1>20, <1>21, <1>22, <1>23, <1>24 DEF TaskStep

-----------------------------------------------------------------------------
(* Who holds the lock *)

\* A step of one task keeps what the lock is about if it does so for this task.
LEMMA OthersLocked ==
  ASSUME DeskTyped, LockInv, NEW t \in Tasks, Apart(t), Shut(t),
         LockClause(t)', lock' = t => pc'[t] \in Owned \cup Post
  PROVE  LockInv'
<1>1. NoTask \notin Tasks /\ lock \in Tasks \cup {NoTask}
  BY DesktopAssumption DEF DeskTyped, StoreTyped
<1>2. ASSUME NEW o \in Tasks PROVE LockClause(o)'
  <2>1. CASE o = t
    BY <2>1
  <2>2. CASE o # t
    BY <2>2, <1>1 DEF Apart, Shut, LockInv, LockClause, NoLock, Owned, Post, OfRefresh
  <2> QED BY <2>1, <2>2
<1>3. LockHeld'
  BY <1>1 DEF Apart, Shut, LockInv, LockHeld
<1> QED BY <1>2, <1>3 DEF LockInv

\* The end of an operation does,
LEMMA EndsLocked ==
  ASSUME DeskTyped, LockInv, NEW t \in Tasks, NEW r, Ends(t, r), pc[t] # "idle", UNCHANGED <<lock, work>>
  PROVE  LockClause(t)' /\ (lock' = t => pc'[t] \in Owned \cup Post)
<1>1. mem[t] \in Mems /\ TasksTyped /\ LockClause(t)
  BY DEF DeskTyped, TasksTyped, LockInv
<1>2. mem[t].op # "none"
  BY <1>1 DEF LockClause
<1>3. mem'[t].op = mem[t].op
  BY <1>1, EndsApart DEF Mems
<1>4. pc'[t] = IF lock = t THEN "unlock" ELSE "end"
  BY <1>1, EndsApart
<1> QED
  BY <1>2, <1>3, <1>4 DEF LockClause, Owned, Post, OfRefresh, OfRestart, OfLaunch

\* and so does every step of a task.
LEMMA TaskLocked ==
  ASSUME DeskTyped, LockInv, NEW t \in Tasks,
         Begin(t) \/ TaskStep(t) \/ SwitchFails(t) \/ GivesUp(t) \/ Interrupted(t)
  PROVE  LockInv'
<1>0. /\ TasksTyped /\ mem[t] \in Mems /\ pc[t] \in Places /\ LockClause(t) /\ LockHeld
      /\ NoTask \notin Tasks /\ lock \in Tasks \cup {NoTask} /\ NoAccount \notin Accounts
      /\ Proxy \notin Accounts
  BY DesktopAssumption DEF DeskTyped, StoreTyped, TasksTyped, LockInv
<1> SUFFICES LockClause(t)' /\ (lock' = t => pc'[t] \in Owned \cup Post)
  BY TaskApart, OthersLocked
<1> USE DEF LockClause, LockHeld, NoLock, At, store, desk, Owned, Post, OfRefresh, OfRestart, OfLaunch
<1>1. CASE Begin(t)
  <2>1. /\ work.jobs[t].op = "launch" \/ (work.jobs[t].op = "switch" /\ work.jobs[t].to \in Accounts)
    BY <1>1, <1>0, WorkTyped DEF Begin, Jobs, DeskTyped, StoreTyped
  <2>2. /\ mem'[t].op = work.jobs[t].op /\ mem'[t].to = work.jobs[t].to
        /\ pc'[t] = IF work.jobs[t].op = "launch" THEN "look" ELSE "lock"
    BY <1>1, <1>0 DEF Begin, NoMem, TasksTyped, Go, Set
  <2> QED BY <1>1, <1>0, <2>1, <2>2 DEF Begin
<1>2. CASE TakeLock(t)
  BY <1>2, <1>0, GoApart, EndsLocked DEF TakeLock
<1>3. CASE SwitchAuth(t)
  <2>1. CASE \E r : Ends(t, r)
    BY <1>3, <1>0, <2>1, EndsLocked DEF SwitchAuth
  <2>2. CASE Go(t, "open") /\ mem[t].op = "launch" /\ Set(t, [mem[t] EXCEPT !.before = auth])
    <3>1. pc'[t] = "open" /\ mem'[t].op = mem[t].op
      BY <2>2, <1>0, GoApart, SetApart DEF Mems
    <3> QED BY <1>3, <1>0, <2>2, <3>1 DEF SwitchAuth
  <2>3. CASE /\ auth' = mem[t].to /\ Go(t, AfterAuth(t))
             /\ Set(t, [mem[t] EXCEPT !.before = auth, !.backup = (auth # NoAccount), !.switched = TRUE])
    <3>1. pc'[t] = AfterAuth(t) /\ mem'[t].op = mem[t].op /\ mem'[t].to = mem[t].to
      BY <2>3, <1>0 DEF Mems, TasksTyped, Go, Set
    <3> QED BY <1>3, <1>0, <2>3, <3>1 DEF SwitchAuth, AfterAuth
  <2> QED BY <1>3, <2>1, <2>2, <2>3 DEF SwitchAuth
<1>4. CASE SwitchFails(t)
  BY <1>4, <1>0, EndsLocked DEF SwitchFails
<1>5. CASE SkipRefresh(t)
  BY <1>5, <1>0, GoApart, EndsLocked DEF SkipRefresh
<1>6. CASE Refresh(t)
  <2>1. /\ mem'[t].op = mem[t].op /\ mem'[t].to = mem[t].to
        /\ \/ pc'[t] = "relook" /\ work.platform = "win"
           \/ pc'[t] \in {"list", "await", "fallback"} /\ work.platform = "mac"
    <3>1. CASE Inject(t)
      <4>1. PICK p \in Up, s \in Scripts : Managed(p) /\ Set(t, [mem[t] EXCEPT !.script = s]) /\ Go(t, "await")
        BY <3>1 DEF Inject
      <4> QED BY <4>1, <1>0 DEF Managed, Mems, TasksTyped, Go, Set
    <3>2. CASE ~Inject(t)
      BY <3>2, <1>6, <1>0, GoApart DEF Refresh, Managed
    <3> QED BY <3>1, <3>2
  <2> QED BY <1>6, <1>0, <2>1 DEF Refresh
<1>7. CASE Answered(t)
  BY <1>7, <1>0, GoApart, EndsLocked DEF Answered
<1>8. CASE GivesUp(t)
  BY <1>8, <1>0, GoApart DEF GivesUp
<1>9. CASE Interrupted(t)
  BY <1>9, <1>0, EndsLocked DEF Interrupted
<1>10. CASE Fallback(t)
  BY <1>10, <1>0, EndsLocked DEF Fallback
<1>11. CASE ListOthers(t)
  BY <1>11, <1>0, EndsLocked DEF ListOthers
<1>12. CASE Unlock(t)
  BY <1>12, <1>0, GoApart DEF Unlock
<1>13. CASE RestartLook(t)
  BY <1>13, <1>0, GoApart, EndsLocked DEF RestartLook
<1>14. CASE RestartCheck(t)
  <2>1. CASE \E r : Ends(t, r)
    BY <1>14, <1>0, <2>1, EndsLocked DEF RestartCheck
  <2>2. CASE ~\E r : Ends(t, r)
    <3>1. Set(t, [mem[t] EXCEPT !.seen = Up])
      BY <1>14, <2>2 DEF RestartCheck
    <3>2. mem'[t].op = mem[t].op /\ mem'[t].to = mem[t].to
      BY <3>1, <1>0 DEF Mems, TasksTyped, Set
    <3>3. pc'[t] \in {"reopen", "requit"}
      BY <1>14, <2>2, <1>0, GoApart DEF RestartCheck
    <3> QED BY <1>14, <1>0, <3>2, <3>3 DEF RestartCheck
  <2> QED BY <2>1, <2>2
<1>15. CASE RestartQuit(t)
  BY <1>15, <1>0, GoApart, EndsLocked DEF RestartQuit
<1>16. CASE RestartOpen(t)
  BY <1>16, <1>0, GoApart, EndsLocked DEF RestartOpen
<1>17. CASE RestartTrack(t)
  BY <1>17, <1>0, EndsLocked DEF RestartTrack
<1>18. CASE Look(t)
  BY <1>18, <1>0, GoApart, SetApart DEF Look, NextOfLaunch, Mems
<1>19. CASE Confirm(t)
  BY <1>19, <1>0, GoApart, EndsLocked DEF Confirm
<1>20. CASE Quit(t)
  BY <1>20, <1>0, GoApart, EndsLocked DEF Quit, NextOfLaunch, Mems
<1>21. CASE Open(t)
  BY <1>21, <1>0, GoApart, EndsLocked, WorkTyped DEF Open, DeskTyped, StoreTyped
<1>22. CASE Track(t)
  BY <1>22, <1>0, GoApart DEF Track
<1>23. CASE Surface(t)
  BY <1>23, <1>0, EndsLocked DEF Surface
<1>24. CASE Restore(t)
  BY <1>24, <1>0, EndsLocked DEF Restore, Restored, Mems
<1> QED BY <1>1, <1>2, <1>3, <1>4, <1>5, <1>6, <1>7, <1>8, <1>9, <1>10, <1>11, <1>12, <1>13,
           <1>14, <1>15, <1>16, <1>17, <1>18, <1>19, <1>20, <1>21, <1>22, <1>23, <1>24
           DEF TaskStep

-----------------------------------------------------------------------------
(* The scripts in pages *)

\* Apps are left alone, or start.
AppsKept == \A p \in Pids : apps'[p] = apps[p] \/ (p \notin Up /\ apps'[p].busy \subseteq apps'[p].loaded)

\* Steps that leave the pages alone keep what they are about.
LEMMA PageFrame ==
  ASSUME PageInv, NEW t \in Tasks, Apart(t), pc[t] # "await", pc'[t] # "await",
         UNCHANGED <<page, disturbed>>, AppsKept
  PROVE  PageInv'
<1>1. NoPageOnWin' /\ BusyLoaded' /\ ~disturbed'
  BY DEF PageInv, NoPageOnWin, BusyLoaded, AppsKept, Apart
<1>2. ASSUME NEW o \in Tasks, NEW s \in Scripts PROVE ScriptOf(o, s)' <=> ScriptOf(o, s)
  BY DEF Apart, ScriptOf
<1>3. ASSUME NEW s \in Scripts PROVE PageClause(s)'
  BY <1>2 DEF PageInv, PageClause, AppsKept, Up
<1>4. ASSUME NEW o \in Tasks PROVE AwaitClause(o)'
  BY DEF PageInv, AwaitClause, Apart
<1> QED BY <1>1, <1>3, <1>4 DEF PageInv

\* So does a task that waits no more, and leaves its script or removes it.
LEMMA PageLeft ==
  ASSUME DeskTyped, PageInv, NEW t \in Tasks, Apart(t), pc[t] = "await", pc'[t] # "await",
         UNCHANGED <<apps, disturbed>>,
         \E g \in {NoPage, [page[mem[t].script] EXCEPT !.by = NoTask]} :
            page' = [page EXCEPT ![mem[t].script] = g]
  PROVE  PageInv'
<1> DEFINE s == mem[t].script
<1>0. /\ s \in Scripts /\ page[s].st # "none" /\ page[s].by = t /\ page[s] \in Pages
      /\ NoTask \notin Tasks /\ PageTyped
  BY DesktopAssumption DEF PageInv, AwaitClause, PageClause, ScriptOf, DeskTyped, PageTyped
<1>1. NoPageOnWin' /\ BusyLoaded' /\ ~disturbed'
  BY <1>0 DEF PageInv, NoPageOnWin, BusyLoaded, Apart, NoPage
<1>2. ASSUME NEW o \in Tasks, NEW r \in Scripts PROVE ScriptOf(o, r)' <=> ScriptOf(o, r) /\ o # t
  BY DEF Apart, ScriptOf
<1>3. ASSUME NEW o \in Tasks, ScriptOf(o, s) PROVE o = t
  BY <1>0, <1>3 DEF PageInv, PageClause
<1>4. ASSUME NEW r \in Scripts PROVE PageClause(r)'
  <2>1. CASE r # s
    <3>1. page'[r] = page[r]
      BY <2>1, <1>0 DEF PageTyped
    <3>2. ~ScriptOf(t, r)
      BY <2>1 DEF ScriptOf
    <3> QED BY <3>1, <3>2, <1>2 DEF PageInv, PageClause, Up
  <2>2. CASE r = s
    <3>1. page'[s] = NoPage \/ page'[s] = [page[s] EXCEPT !.by = NoTask]
      BY <1>0 DEF PageTyped
    <3> QED BY <2>2, <3>1, <1>0, <1>2, <1>3 DEF PageInv, PageClause, Up, NoPage, Pages
  <2> QED BY <2>1, <2>2
<1>5. ASSUME NEW o \in Tasks PROVE AwaitClause(o)'
  <2>1. CASE o = t
    BY <2>1 DEF AwaitClause
  <2>2. CASE o # t /\ pc[o] = "await"
    <3>1. mem[o].script \in Scripts /\ mem[o].script # s
      BY <2>2, <1>3 DEF PageInv, AwaitClause, ScriptOf
    <3>2. page'[mem[o].script] = page[mem[o].script]
      BY <3>1, <1>0 DEF PageTyped
    <3> QED BY <2>2, <3>1, <3>2 DEF PageInv, AwaitClause, Apart
  <2>3. CASE o # t /\ pc[o] # "await"
    BY <2>3 DEF AwaitClause, Apart
  <2> QED BY <2>1, <2>2, <2>3
<1> QED BY <1>1, <1>4, <1>5 DEF PageInv

\* Pages and apps together, with the tasks that wait for a script unchanged.
SameWaits == /\ \A o \in Tasks, s \in Scripts : ScriptOf(o, s)' <=> ScriptOf(o, s)
             /\ \A o \in Tasks : pc'[o] = "await" => pc[o] = "await" /\ mem'[o] = mem[o]
             /\ UNCHANGED work

\* A task that does not wait changes nothing for those that do.
LEMMA ApartWaits ==
  ASSUME NEW t \in Tasks, Apart(t), pc[t] # "await", pc'[t] # "await"
  PROVE  SameWaits
BY DEF Apart, SameWaits, ScriptOf

\* Scripts go with the app they run in.
LEMMA PageGone ==
  ASSUME DeskTyped, PageInv, NEW ps, SameWaits, apps' = Gone(ps), page' = PagesWithout(ps), ~disturbed'
  PROVE  PageInv'
<1>0. PageTyped /\ AppsTyped /\ NoPid \notin Pids
  BY PidsFinite DEF DeskTyped
<1>1. /\ \A s \in Scripts : page'[s] = IF page[s].of \in ps /\ page[s].st # "none"
                                         THEN [page[s] EXCEPT !.st = "lost"] ELSE page[s]
      /\ \A p \in Pids : apps'[p] = IF p \in ps THEN [NotStarted EXCEPT !.st = "gone"] ELSE apps[p]
  BY DEF Gone, PagesWithout
<1>2. NoPageOnWin' /\ BusyLoaded'
  <2>1. ASSUME NEW s \in Scripts, page[s] = NoPage PROVE page'[s] = NoPage
    <3>1. page[s].st = "none"
      BY <2>1 DEF NoPage
    <3> QED BY <3>1, <2>1, <1>1
  <2>2. ASSUME NEW p \in Pids PROVE apps'[p].busy \subseteq apps'[p].loaded
    <3>1. [NotStarted EXCEPT !.st = "gone"].busy = {}
      BY DEF NotStarted
    <3> QED BY <3>1, <1>1 DEF PageInv, BusyLoaded
  <2> QED BY <2>1, <2>2 DEF PageInv, NoPageOnWin, BusyLoaded, SameWaits
<1>3. ASSUME NEW s \in Scripts PROVE PageClause(s)'
  <2>1. CASE page[s].of \in ps /\ page[s].st # "none"
    <3>1. page'[s] = [page[s] EXCEPT !.st = "lost"] /\ page[s] \in Pages
      BY <2>1, <1>1, <1>0 DEF PageTyped
    <3>2. page'[s].st = "lost" /\ page'[s].of = page[s].of /\ page'[s].by = page[s].by
      BY <3>1 DEF Pages
    <3> QED BY <2>1, <3>2 DEF PageInv, PageClause, SameWaits
  <2>2. CASE ~(page[s].of \in ps /\ page[s].st # "none")
    <3>1. page'[s] = page[s]
      BY <2>2, <1>1
    <3>2. page[s].of \in Up => page[s].st # "none"
      BY <1>0, UpPids DEF PageInv, PageClause, NoPage
    <3>3. page[s].of \in Up => page[s].of \in Up' /\ apps'[page[s].of] = apps[page[s].of]
      BY <3>2, <2>2, <1>1, UpPids DEF Up
    <3> QED BY <3>1, <3>3 DEF PageInv, PageClause, SameWaits
  <2> QED BY <2>1, <2>2
<1>4. ASSUME NEW o \in Tasks PROVE AwaitClause(o)'
  <2>1. ASSUME NEW s \in Scripts, page[s].st # "none" PROVE page'[s].st # "none"
    BY <2>1, <1>1, <1>0 DEF PageTyped, Pages
  <2> QED BY <2>1 DEF PageInv, AwaitClause, SameWaits
<1> QED BY <1>2, <1>3, <1>4 DEF PageInv

\* The app server restarts where no thread must be active any more.
LEMMA PageRestarted ==
  ASSUME DeskTyped, PageInv, NEW p \in Up, SameWaits, apps' = Restarted(p), page' = Idle(p), ~disturbed'
  PROVE  PageInv'
<1>0. PageTyped /\ AppsTyped /\ NoPid \notin Pids /\ p \in Pids
  BY PidsFinite, UpPids DEF DeskTyped
<1>1. /\ \A s \in Scripts : page'[s] = IF page[s].of = p THEN [page[s] EXCEPT !.long = {}] ELSE page[s]
      /\ \A q \in Pids : q # p => apps'[q] = apps[q]
      /\ apps'[p] = [apps[p] EXCEPT !.acct = auth, !.loaded = {}, !.busy = {}]
  BY <1>0 DEF Idle, Restarted, AppsTyped
<1>2. apps'[p].busy = {} /\ apps'[p].loaded = {} /\ apps'[p].st = "up"
  BY <1>0, <1>1 DEF AppsTyped, Procs, Up
<1>8. ASSUME NEW s \in Scripts, page[s] = NoPage PROVE page'[s] = NoPage
  <2>1. page[s].of # p
    BY <1>8, <1>0 DEF NoPage
  <2> QED BY <2>1, <1>8, <1>1
<1>3. NoPageOnWin' /\ BusyLoaded'
  <2>1. NoPageOnWin'
    BY <1>8 DEF PageInv, NoPageOnWin, SameWaits
  <2>2. BusyLoaded'
    BY <1>1, <1>2 DEF PageInv, BusyLoaded
  <2> QED BY <2>1, <2>2
<1>4. ASSUME NEW s \in Scripts
      PROVE  /\ page'[s].st = page[s].st /\ page'[s].of = page[s].of /\ page'[s].by = page[s].by
             /\ page'[s].found = page[s].found /\ page'[s].force = page[s].force /\ page'[s].left = page[s].left
             /\ page'[s].long = IF page[s].of = p THEN {} ELSE page[s].long
  <2>1. page[s] \in Pages
    BY <1>0 DEF PageTyped
  <2>2. CASE page[s].of = p
    <3>1. page'[s] = [page[s] EXCEPT !.long = {}]
      BY <2>2, <1>1
    <3> QED BY <2>1, <2>2, <3>1 DEF Pages
  <2>3. CASE page[s].of # p
    BY <2>3, <1>1
  <2> QED BY <2>2, <2>3
<1>5. ASSUME NEW s \in Scripts PROVE PageClause(s)'
  <2>1. page[s].st = "none" => page'[s] = NoPage
    BY <1>8 DEF PageInv, PageClause
  <2>2. Up' = Up
    BY <1>1, <1>2 DEF Up
  <2> QED BY <2>1, <2>2, <1>0, <1>1, <1>2, <1>4 DEF PageInv, PageClause, SameWaits
<1>6. ASSUME NEW o \in Tasks PROVE AwaitClause(o)'
  BY <1>4 DEF PageInv, AwaitClause, SameWaits
<1> QED BY <1>3, <1>5, <1>6 DEF PageInv

\* Starting an app leaves the others alone.
LEMMA OpenedKeeps ==
  ASSUME DeskTyped, PageInv, Fresh # {}, NEW ours, NEW slipped,
         apps' = [apps EXCEPT ![Min(Fresh)] = UpApp(ours, slipped)]
  PROVE  AppsKept
<1>1. Min(Fresh) \in Fresh
  BY MinFresh
<1>2. \A p \in Pids : apps'[p] = IF p = Min(Fresh) THEN UpApp(ours, slipped) ELSE apps[p]
  BY DEF DeskTyped, AppsTyped
<1>3. UpApp(ours, slipped).busy = {}
  BY DEF UpApp, NotStarted
<1> QED BY <1>1, <1>2, <1>3 DEF AppsKept, Up, Fresh

\* An operation that ends does not wait.
LEMMA EndsWaits ==
  ASSUME DeskTyped, NEW t \in Tasks, NEW r, Ends(t, r)
  PROVE  pc'[t] # "await"
BY EndsApart DEF DeskTyped

\* Every step of a task keeps what the pages are about.
LEMMA TaskPages ==
  ASSUME DeskTyped, LockInv, PageInv, NEW t \in Tasks,
         Begin(t) \/ TaskStep(t) \/ SwitchFails(t) \/ GivesUp(t) \/ Interrupted(t)
  PROVE  PageInv'
<1>0. TasksTyped /\ pc[t] \in Places /\ Apart(t) /\ ~disturbed
  BY TaskApart DEF DeskTyped, TasksTyped, PageInv
<1>a. ASSUME pc[t] # "await", pc'[t] # "await", UNCHANGED <<page, disturbed>>, AppsKept PROVE PageInv'
  BY <1>a, <1>0, PageFrame
<1>b. ASSUME UNCHANGED apps PROVE AppsKept
  BY <1>b DEF AppsKept
<1>c. ASSUME Fresh # {}, apps' = Opened PROVE AppsKept
  <2>1. apps' = [apps EXCEPT ![Min(Fresh)] = UpApp(TRUE, FALSE)]
    BY <1>c DEF Opened
  <2> QED BY <2>1, <1>c, OpenedKeeps
<1> USE DEF At, store, desk, hist
<1>1. CASE Begin(t)
  BY <1>1, <1>0, GoApart, <1>a, <1>b DEF Begin
<1>2. CASE TakeLock(t)
  BY <1>2, <1>0, GoApart, EndsWaits, <1>a, <1>b DEF TakeLock
<1>3. CASE SwitchAuth(t)
  BY <1>3, <1>0, GoApart, EndsWaits, <1>a, <1>b DEF SwitchAuth, AfterAuth
<1>4. CASE SwitchFails(t)
  BY <1>4, <1>0, EndsWaits, <1>a, <1>b DEF SwitchFails
<1>5. CASE SkipRefresh(t)
  BY <1>5, <1>0, GoApart, EndsWaits, <1>a, <1>b DEF SkipRefresh
<1>6. CASE Refresh(t)
  <2>1. CASE ~Inject(t)
    BY <1>6, <2>1, <1>0, <1>a, <1>b, GoApart DEF Refresh
  <2>2. CASE Inject(t)
    <3>1. PICK p \in Up, s \in Scripts :
            /\ Managed(p) /\ page[s].st = "none"
            /\ page' = [page EXCEPT ![s] = [NoPage EXCEPT !.st = IF mem[t].force THEN "restart" ELSE "first",
                                                          !.of = p, !.by = t, !.force = mem[t].force]]
            /\ Set(t, [mem[t] EXCEPT !.script = s]) /\ Go(t, "await")
      BY <2>2 DEF Inject
    <3>2. /\ page'[s].st \in {"restart", "first"} /\ page'[s].of = p /\ page'[s].by = t /\ page'[s].long = {}
          /\ \A r \in Scripts \ {s} : page'[r] = page[r]
      BY <3>1 DEF DeskTyped, PageTyped, NoPage
    <3>3. pc[t] # "await" /\ pc'[t] = "await" /\ mem'[t].script = s /\ UNCHANGED <<apps, disturbed>>
      BY <3>1, <1>6, <1>0 DEF Refresh, Go, Set, TasksTyped, Mems
    <3>4. NoPageOnWin' /\ BusyLoaded' /\ ~disturbed'
      BY <3>1, <3>3, <1>0 DEF Managed, PageInv, NoPageOnWin, BusyLoaded, Apart
    <3>5. ASSUME NEW o \in Tasks, NEW r \in Scripts PROVE ScriptOf(o, r)' <=> ScriptOf(o, r) \/ (o = t /\ r = s)
      BY <3>3, <1>0 DEF Apart, ScriptOf
    <3>6. ASSUME NEW o \in Tasks PROVE ~ScriptOf(o, s)
      BY <3>1 DEF PageInv, AwaitClause, ScriptOf
    <3>7. ASSUME NEW r \in Scripts PROVE PageClause(r)'
      <4>1. CASE r = s
        BY <4>1, <3>2, <3>3, <3>5, <3>6, UpPids DEF PageClause, Up
      <4>2. CASE r # s
        BY <4>2, <3>2, <3>3, <3>5 DEF PageInv, PageClause, Up
      <4> QED BY <4>1, <4>2
    <3>8. ASSUME NEW o \in Tasks PROVE AwaitClause(o)'
      <4>1. CASE o = t
        BY <4>1, <3>2, <3>3 DEF AwaitClause
      <4>2. CASE o # t
        BY <4>2, <3>1, <3>2, <1>0 DEF PageInv, AwaitClause, Apart
      <4> QED BY <4>1, <4>2
    <3> QED BY <3>4, <3>7, <3>8 DEF PageInv
  <2> QED BY <2>1, <2>2
<1>7. CASE Answered(t)
  <2>1. pc[t] = "await" /\ pc'[t] # "await" /\ UNCHANGED <<apps, disturbed>>
    BY <1>7, <1>0, GoApart, EndsWaits DEF Answered
  <2>2. page' = [page EXCEPT ![mem[t].script] = NoPage]
    BY <1>7 DEF Answered
  <2> QED BY <2>1, <2>2, <1>0, PageLeft
<1>8. CASE GivesUp(t)
  <2>1. pc[t] = "await" /\ pc'[t] # "await" /\ UNCHANGED <<apps, disturbed>>
    BY <1>8, <1>0, GoApart DEF GivesUp
  <2>2. page' = [page EXCEPT ![mem[t].script] = [page[mem[t].script] EXCEPT !.by = NoTask]]
    BY <1>8 DEF GivesUp
  <2> QED BY <2>1, <2>2, <1>0, PageLeft
<1>9. CASE Interrupted(t)
  BY <1>9, <1>0, EndsWaits, PageLeft DEF Interrupted
<1>10. CASE Fallback(t)
  BY <1>10, <1>0, EndsWaits, <1>a, <1>b, ApartWaits, PageGone DEF Fallback
<1>11. CASE ListOthers(t)
  BY <1>11, <1>0, EndsWaits, <1>a, <1>b DEF ListOthers
<1>12. CASE Unlock(t)
  BY <1>12, <1>0, GoApart, <1>a, <1>b DEF Unlock
<1>13. CASE RestartLook(t)
  BY <1>13, <1>0, GoApart, EndsWaits, <1>a, <1>b DEF RestartLook
<1>14. CASE RestartCheck(t)
  BY <1>14, <1>0, GoApart, EndsWaits, <1>a, <1>b DEF RestartCheck
<1>15. CASE RestartQuit(t)
  <2>1. CASE apps' = Gone(Up)
    <3>1. work.platform = "win"
      BY <1>15, <1>0 DEF RestartQuit, LockInv, LockClause, OfRestart
    <3>2. \A s \in Scripts : page[s] = NoPage /\ NoPage.st = "none"
      BY <3>1 DEF PageInv, NoPageOnWin, NoPage
    <3>3. PagesWithout(Up) = [s \in Scripts |-> page[s]]
      BY <3>2 DEF PagesWithout
    <3>4. page = [s \in Scripts |-> page[s]]
      BY DEF DeskTyped, PageTyped
    <3> QED BY <1>15, <2>1, <3>3, <3>4, <1>0, GoApart, EndsWaits, ApartWaits, PageGone
               DEF RestartQuit
  <2>2. CASE UNCHANGED apps
    BY <1>15, <2>2, <1>0, <1>a, <1>b, GoApart, EndsWaits DEF RestartQuit
  <2> QED BY <1>15, <2>1, <2>2 DEF RestartQuit
<1>16. CASE RestartOpen(t)
  BY <1>16, <1>0, GoApart, EndsWaits, <1>a, <1>b, <1>c DEF RestartOpen
<1>17. CASE RestartTrack(t)
  BY <1>17, <1>0, EndsWaits, <1>a, <1>b DEF RestartTrack
<1>18. CASE Look(t)
  BY <1>18, <1>0, GoApart, <1>a, <1>b DEF Look, NextOfLaunch
<1>19. CASE Confirm(t)
  BY <1>19, <1>0, GoApart, EndsWaits, <1>a, <1>b DEF Confirm
<1>20. CASE Quit(t)
  BY <1>20, <1>0, GoApart, EndsWaits, <1>a, <1>b, ApartWaits, PageGone DEF Quit, NextOfLaunch
<1>21. CASE Open(t)
  BY <1>21, <1>0, GoApart, EndsWaits, <1>a, <1>b, <1>c DEF Open
<1>22. CASE Track(t)
  BY <1>22, <1>0, GoApart, <1>a, <1>b DEF Track
<1>23. CASE Surface(t)
  BY <1>23, <1>0, EndsWaits, <1>a, <1>b, ApartWaits, PageRestarted DEF Surface
<1>24. CASE Restore(t)
  BY <1>24, <1>0, EndsWaits, <1>a, <1>b DEF Restore
<1> QED BY <1>1, <1>2, <1>3, <1>4, <1>5, <1>6, <1>7, <1>8, <1>9, <1>10, <1>11, <1>12, <1>13,
           <1>14, <1>15, <1>16, <1>17, <1>18, <1>19, <1>20, <1>21, <1>22, <1>23, <1>24
           DEF TaskStep

\* Steps of no task change nothing for those that wait.
LEMMA SameTasksWait ==
  ASSUME UNCHANGED <<pc, mem, work>>
  PROVE  SameWaits
BY DEF SameWaits, ScriptOf

\* A script that goes on keeps what the pages are about if it does so for itself,
LEMMA ScriptPage ==
  ASSUME DeskTyped, PageInv, NEW s \in Scripts, NEW r, Script(s, r), UNCHANGED <<pc, mem, work, apps, disturbed>>,
         page[s].st # "none",
         \/ r = NoPage /\ page[s].by = NoTask
         \/ /\ r.st # "none" /\ r.by = page[s].by /\ r.of = page[s].of
            /\ r.st # "lost" => r.of \in Up /\ r.long \subseteq apps[r.of].busy
            /\ r.st \in {"read1", "read"} /\ ~r.found => r.long \subseteq r.left
            /\ r.st = "restart" /\ ~r.force => r.long = {}
  PROVE  PageInv'
<1>0. /\ PageTyped /\ NoTask \notin Tasks /\ SameWaits /\ page[s] # NoPage /\ UNCHANGED Up
      /\ page[s].of \in Pids
  BY DesktopAssumption, SameTasksWait DEF DeskTyped, NoPage, PageInv, PageClause, Up
<1>1. page'[s] = r /\ \A q \in Scripts \ {s} : page'[q] = page[q]
  BY <1>0 DEF Script, PageTyped
<1>2. NoPageOnWin' /\ BusyLoaded' /\ ~disturbed'
  BY <1>0 DEF PageInv, NoPageOnWin, BusyLoaded
<1>3. ASSUME NEW q \in Scripts PROVE PageClause(q)'
  <2>1. CASE q # s
    BY <2>1, <1>1, <1>0 DEF PageInv, PageClause, SameWaits
  <2>2. CASE q = s /\ r = NoPage
    <3>1. r.st = "none"
      BY <2>2 DEF NoPage
    <3> QED BY <2>2, <3>1, <1>1 DEF PageClause
  <2>3. CASE q = s /\ r # NoPage
    BY <2>3, <1>1, <1>0 DEF PageInv, PageClause, SameWaits
  <2> QED BY <2>1, <2>2, <2>3
<1>4. ASSUME NEW o \in Tasks PROVE AwaitClause(o)'
  <2>1. CASE pc[o] = "await" /\ mem[o].script = s
    <3>1. page[s].by = o
      BY <2>1, <1>0 DEF PageInv, PageClause, ScriptOf
    <3> QED BY <2>1, <3>1, <1>0, <1>1 DEF AwaitClause
  <2>2. CASE ~(pc[o] = "await" /\ mem[o].script = s)
    BY <2>2, <1>1 DEF PageInv, AwaitClause
  <2> QED BY <2>1, <2>2
<1> QED BY <1>2, <1>3, <1>4 DEF PageInv

\* which every step of a script does.
LEMMA ScriptPages ==
  ASSUME DeskTyped, PageInv, NEW s \in Scripts, ScriptStep(s) \/ ScriptFails(s)
  PROVE  PageInv'
<1>0. page[s] \in Pages /\ PageTyped /\ PageClause(s) /\ BusyLoaded /\ ~disturbed
  BY DEF DeskTyped, PageTyped, PageInv
<1> USE DEF desk, hist
<1>1. CASE Collect(s)
  <2>1. PICK r : /\ Script(s, r) /\ r.st \in {"read1", "read"} /\ r.by = page[s].by /\ r.of = page[s].of
                 /\ r.long = apps[page[s].of].busy /\ r.left = apps[page[s].of].loaded
    <3> DEFINE r == [page[s] EXCEPT !.st = IF @ = "first" THEN "read1" ELSE "read", !.left = apps[page[s].of].loaded,
                               !.found = FALSE, !.long = apps[page[s].of].busy]
    <3>1. /\ r.st \in {"read1", "read"} /\ r.by = page[s].by /\ r.of = page[s].of
          /\ r.long = apps[page[s].of].busy /\ r.left = apps[page[s].of].loaded
      BY <1>0 DEF Pages
    <3> QED BY <3>1, <1>1 DEF Collect
  <2> QED BY <2>1, <1>1, <1>0, ScriptPage DEF Collect, PageClause, BusyLoaded
<1>2. CASE ReadThread(s)
  <2>1. PICK th \in page[s].left :
          Script(s, [page[s] EXCEPT !.left = @ \ {th}, !.found = @ \/ th \in apps[page[s].of].busy])
    BY <1>2 DEF ReadThread
  <2> DEFINE r == [page[s] EXCEPT !.left = @ \ {th}, !.found = @ \/ th \in apps[page[s].of].busy]
  <2>2. /\ r.st = page[s].st /\ r.by = page[s].by /\ r.of = page[s].of /\ r.long = page[s].long
        /\ r.left = page[s].left \ {th} /\ (~r.found => ~page[s].found /\ th \notin apps[page[s].of].busy)
    BY <1>0 DEF Pages
  <2>3. Script(s, r)
    BY <2>1
  <2> HIDE DEF r
  <2> QED BY <2>2, <2>3, <1>2, <1>0, ScriptPage DEF ReadThread, PageClause
<1>3. CASE Collected(s)
  <2> DEFINE r == [page[s] EXCEPT !.st = IF page[s].found THEN "wait" ELSE "restart"]
  <2>2. /\ r.st = IF page[s].found THEN "wait" ELSE "restart"
        /\ r.by = page[s].by /\ r.of = page[s].of /\ r.long = page[s].long
    BY <1>0 DEF Pages
  <2>3. Script(s, r)
    BY <1>3 DEF Collected
  <2> HIDE DEF r
  <2> QED BY <2>2, <2>3, <1>3, <1>0, ScriptPage DEF Collected, PageClause
<1>4. ASSUME NEW st \in {"done", "failed"}, Script(s, [page[s] EXCEPT !.st = st]), page[s].st \notin {"none", "lost"},
             UNCHANGED <<pc, mem, work, apps, disturbed>>
      PROVE  PageInv'
  <2> DEFINE r == [page[s] EXCEPT !.st = st]
  <2>1. r.st = st /\ r.by = page[s].by /\ r.of = page[s].of /\ r.long = page[s].long
    BY <1>0 DEF Pages
  <2>2. Script(s, r)
    BY <1>4
  <2> HIDE DEF r
  <2> QED BY <2>1, <2>2, <1>4, <1>0, ScriptPage DEF PageClause
<1>5. ASSUME Script(s, NoPage), page[s].by = NoTask, page[s].st # "none", UNCHANGED <<pc, mem, work, apps, disturbed>>
      PROVE  PageInv'
  BY <1>5, ScriptPage
<1>6. CASE ScriptFails(s)
  BY <1>6, <1>4, <1>5 DEF ScriptFails
<1>7. CASE ServerReady(s)
  <2>1. \/ Script(s, NoPage) /\ page[s].by = NoTask
        \/ \E st \in {"done", "failed"} : Script(s, [page[s] EXCEPT !.st = st])
    BY <1>7 DEF ServerReady
  <2> QED BY <2>1, <1>7, <1>4, <1>5 DEF ServerReady
<1>8. CASE ScriptGone(s)
  BY <1>8, <1>5 DEF ScriptGone
<1>9. CASE RestartServer(s)
  <2> DEFINE p == page[s].of
  <2>0. /\ p \in Up /\ p \in Pids /\ page[s].st = "restart" /\ SameWaits /\ ~disturbed' /\ apps' = Restarted(p)
        /\ page' = [Idle(p) EXCEPT ![s].st = "ready"]
    BY <1>9, <1>0, UpPids, SameTasksWait DEF RestartServer, PageClause
  <2>1. /\ \A q \in Pids : q # p => apps'[q] = apps[q]
        /\ apps'[p] = [apps[p] EXCEPT !.acct = auth, !.loaded = {}, !.busy = {}]
    BY <2>0 DEF Restarted, DeskTyped, AppsTyped
  <2>2. apps'[p].busy = {} /\ apps'[p].loaded = {} /\ apps'[p].st = "up"
    BY <2>0, <2>1 DEF DeskTyped, AppsTyped, Procs, Up
  <2>3. Up' = Up
    BY <2>0, <2>1, <2>2 DEF Up
  <2>4. Idle(p) \in [Scripts -> Pages]
    BY <1>0, IdleTyped
  <2>5. \A q \in Scripts : page'[q] = IF q = s THEN [Idle(p)[q] EXCEPT !.st = "ready"] ELSE Idle(p)[q]
    BY <2>0, <2>4
  <2>6. ASSUME NEW q \in Scripts
        PROVE  /\ page'[q].st = (IF q = s THEN "ready" ELSE page[q].st) /\ page'[q].of = page[q].of
               /\ page'[q].by = page[q].by /\ page'[q].found = page[q].found /\ page'[q].force = page[q].force
               /\ page'[q].left = page[q].left
               /\ page'[q].long = IF page[q].of = p THEN {} ELSE page[q].long
    <3>1. page[q] \in Pages /\ Idle(p)[q] = IF page[q].of = p THEN [page[q] EXCEPT !.long = {}] ELSE page[q]
      BY <1>0 DEF PageTyped, Idle
    <3>2. Idle(p)[q] \in Pages
      BY <2>4
    <3>3. /\ Idle(p)[q].st = page[q].st /\ Idle(p)[q].of = page[q].of /\ Idle(p)[q].by = page[q].by
          /\ Idle(p)[q].found = page[q].found /\ Idle(p)[q].force = page[q].force /\ Idle(p)[q].left = page[q].left
          /\ Idle(p)[q].long = IF page[q].of = p THEN {} ELSE page[q].long
      <4>1. CASE page[q].of = p
        <5>1. Idle(p)[q] = [page[q] EXCEPT !.long = {}]
          BY <3>1, <4>1
        <5> QED BY <3>1, <4>1, <5>1 DEF Pages
      <4>2. CASE page[q].of # p
        BY <3>1, <4>2
      <4> QED BY <4>1, <4>2
    <3> QED BY <2>5, <3>2, <3>3 DEF Pages
  <2>7. BusyLoaded'
    BY <2>1, <2>2, <1>0 DEF BusyLoaded
  <2>8. NoPageOnWin'
    BY <2>0, <1>9 DEF PageInv, NoPageOnWin, NoPage, RestartServer
  <2>9. ASSUME NEW q \in Scripts PROVE PageClause(q)'
    <3>1. CASE page[q].st = "none"
      <4>1. q # s /\ page[q] = NoPage /\ page[q].of # p
        <5>1. q # s /\ page[q] = NoPage
          BY <3>1, <2>0 DEF PageInv, PageClause
        <5>2. NoPage.of # p
          BY <2>0, PidsFinite DEF NoPage
        <5> QED BY <5>1, <5>2
      <4>2. page'[q] = NoPage /\ NoPage.st = "none"
        BY <4>1, <2>5 DEF Idle, NoPage
      <4> QED BY <4>2 DEF PageClause
    <3>2. CASE page[q].st # "none"
      BY <3>2, <2>0, <2>1, <2>2, <2>3, <2>6 DEF PageInv, PageClause, SameWaits
    <3> QED BY <3>1, <3>2
  <2>10. ASSUME NEW o \in Tasks PROVE AwaitClause(o)'
    BY <2>0, <2>6 DEF PageInv, AwaitClause, SameWaits
  <2> QED BY <2>0, <2>7, <2>8, <2>9, <2>10 DEF PageInv
<1> QED BY <1>1, <1>2, <1>3, <1>6, <1>7, <1>8, <1>9 DEF ScriptStep

\* Apps that start do as well,
LEMMA AppsKeptPage ==
  ASSUME PageInv, UNCHANGED <<pc, mem, work, page, disturbed>>, AppsKept
  PROVE  PageInv'
BY DEF PageInv, NoPageOnWin, BusyLoaded, PageClause, AwaitClause, AppsKept, Up, ScriptOf

\* and so do the user and the threads.
LEMMA UserPages ==
  ASSUME DeskTyped, PageInv, ThreadStarts \/ ThreadEnds \/ UserOpens \/ UserQuits
  PROVE  PageInv'
<1>0. PageTyped /\ AppsTyped /\ ~disturbed /\ NoPid \notin Pids
  BY PidsFinite DEF DeskTyped, PageInv
<1> USE DEF hist
<1>1. CASE ThreadStarts
  <2>1. PICK p \in Up, th \in Threads, blocking \in SUBSET Threads :
          /\ blocking \subseteq {th}
          /\ apps' = [apps EXCEPT ![p].busy = @ \cup blocking, ![p].loaded = @ \cup {th}]
    BY <1>1 DEF ThreadStarts
  <2>2. /\ \A q \in Pids : q # p => apps'[q] = apps[q]
        /\ apps'[p].st = apps[p].st
        /\ apps'[p].busy = apps[p].busy \cup blocking /\ apps'[p].loaded = apps[p].loaded \cup {th}
    BY <2>1, <1>0, UpPids DEF AppsTyped, Procs
  <2>3. Up' = Up
    BY <2>2 DEF Up
  <2>4. BusyLoaded'
    <3>1. apps[p].busy \subseteq apps[p].loaded
      BY UpPids DEF PageInv, BusyLoaded
    <3>2. apps'[p].busy \subseteq apps'[p].loaded
      BY <2>1, <2>2, <3>1
    <3> QED BY <2>2, <3>2 DEF PageInv, BusyLoaded
  <2>5. ASSUME NEW s \in Scripts PROVE PageClause(s)'
    <3>1. SameWaits /\ UNCHANGED page
      BY <1>1, SameTasksWait DEF ThreadStarts
    <3>2. page[s].st \notin {"none", "lost"} => apps[page[s].of].busy \subseteq apps'[page[s].of].busy
      BY <2>2, UpPids DEF PageInv, PageClause
    <3> QED BY <2>3, <3>1, <3>2 DEF PageInv, PageClause, SameWaits
  <2> QED BY <1>1, <2>4, <2>5 DEF ThreadStarts, PageInv, NoPageOnWin, AwaitClause
<1>2. CASE ThreadEnds
  <2>1. PICK p \in Up : \E th \in apps[p].busy :
          /\ apps' = [apps EXCEPT ![p].busy = @ \ {th}]
          /\ page' = [s \in Scripts |-> IF page[s].of = p THEN [page[s] EXCEPT !.long = @ \ {th}] ELSE page[s]]
    BY <1>2 DEF ThreadEnds
  <2>2. PICK th \in apps[p].busy :
          /\ apps' = [apps EXCEPT ![p].busy = @ \ {th}]
          /\ page' = [s \in Scripts |-> IF page[s].of = p THEN [page[s] EXCEPT !.long = @ \ {th}] ELSE page[s]]
    BY <2>1
  <2>3. /\ \A q \in Pids : q # p => apps'[q] = apps[q]
        /\ apps'[p].st = apps[p].st
        /\ apps'[p].busy = apps[p].busy \ {th} /\ apps'[p].loaded = apps[p].loaded
    BY <2>2, <1>0, UpPids DEF AppsTyped, Procs
  <2>4. Up' = Up
    BY <2>3 DEF Up
  <2>5. BusyLoaded'
    BY <2>3 DEF PageInv, BusyLoaded
  <2>6. ASSUME NEW s \in Scripts
        PROVE  /\ page'[s].st = page[s].st /\ page'[s].of = page[s].of /\ page'[s].by = page[s].by
               /\ page'[s].found = page[s].found /\ page'[s].force = page[s].force /\ page'[s].left = page[s].left
               /\ page'[s].long = IF page[s].of = p THEN page[s].long \ {th} ELSE page[s].long
               /\ page[s] = NoPage => page'[s] = NoPage
    <3>1. page[s] \in Pages
      BY <1>0 DEF PageTyped
    <3>2. CASE page[s].of = p
      <4>1. page'[s] = [page[s] EXCEPT !.long = @ \ {th}]
        BY <2>2, <3>2
      <4>2. page[s] # NoPage
        BY <3>2, <1>0, UpPids DEF NoPage
      <4> QED BY <3>1, <3>2, <4>1, <4>2 DEF Pages
    <3>3. CASE page[s].of # p
      BY <2>2, <3>3
    <3> QED BY <3>2, <3>3
  <2>7. ASSUME NEW s \in Scripts PROVE PageClause(s)'
    <3>1. SameWaits
      BY <1>2, SameTasksWait DEF ThreadEnds
    <3>a. PageClause(s)
      BY DEF PageInv
    <3>b. /\ page'[s].st = page[s].st /\ page'[s].of = page[s].of /\ page'[s].found = page[s].found
          /\ page'[s].force = page[s].force /\ page'[s].left = page[s].left
          /\ page'[s].long = IF page[s].of = p THEN page[s].long \ {th} ELSE page[s].long
          /\ page[s] = NoPage => page'[s] = NoPage
      BY <2>6
    <3>2. page[s].st \notin {"none", "lost"} => page'[s].long \subseteq apps'[page[s].of].busy
      BY <2>3, <3>a, <3>b, UpPids DEF PageClause
    <3>3. page[s].st = "restart" /\ ~page[s].force => page'[s].long = {}
      BY <3>a, <3>b DEF PageClause
    <3>4. page[s].st \in {"read1", "read"} /\ ~page[s].found => page'[s].long \subseteq page'[s].left
      BY <3>a, <3>b DEF PageClause
    <3>5. page[s].st = "none" => page'[s] = NoPage
      BY <3>a, <3>b DEF PageClause
    <3>6. page[s].st # "none" => \A o \in Tasks : page'[s].by = o <=> ScriptOf(o, s)'
      <4> SUFFICES ASSUME page[s].st # "none", NEW o \in Tasks PROVE page'[s].by = o <=> ScriptOf(o, s)'
        OBVIOUS
      <4>1. page[s].by = o <=> ScriptOf(o, s)
        BY <3>a DEF PageClause
      <4>2. ScriptOf(o, s)' <=> ScriptOf(o, s)
        BY <3>1 DEF SameWaits
      <4>3. page'[s].by = page[s].by
        BY <2>6
      <4> QED BY <4>1, <4>2, <4>3
    <3>7. page[s].st # "none" => page'[s].of \in Pids
      BY <3>a, <3>b DEF PageClause
    <3>8. page[s].st \notin {"none", "lost"} => page'[s].of \in Up'
      BY <2>4, <3>a, <3>b DEF PageClause
    <3>9. page'[s].st = page[s].st /\ page'[s].force = page[s].force /\ page'[s].found = page[s].found
      BY <2>6
    <3>10. page'[s].st = "none" => page'[s] = NoPage
      BY <3>5, <3>9
    <3>11. page'[s].st # "none" => page'[s].of \in Pids /\ \A o \in Tasks : page'[s].by = o <=> ScriptOf(o, s)'
      BY <3>6, <3>7, <3>9
    <3>12. page'[s].st \notin {"none", "lost"} => /\ page'[s].of \in Up'
                                                  /\ page'[s].long \subseteq apps'[page'[s].of].busy
      BY <3>2, <3>8, <3>9, <2>6
    <3>13. page'[s].st \in {"read1", "read"} /\ ~page'[s].found => page'[s].long \subseteq page'[s].left
      BY <3>4, <3>9
    <3>14. page'[s].st = "restart" /\ ~page'[s].force => page'[s].long = {}
      BY <3>3, <3>9
    <3> QED BY <3>10, <3>11, <3>12, <3>13, <3>14 DEF PageClause
  <2>8. ASSUME NEW o \in Tasks PROVE AwaitClause(o)'
    BY <2>6, <1>2 DEF PageInv, AwaitClause, ThreadEnds
  <2>9. NoPageOnWin' /\ ~disturbed'
    <3>1. UNCHANGED <<work, disturbed>>
      BY <1>2 DEF ThreadEnds
    <3>2. \A s \in Scripts : page[s] = NoPage => page'[s] = NoPage
      BY <2>6
    <3> QED BY <3>1, <3>2, <1>0 DEF PageInv, NoPageOnWin
  <2> QED BY <2>5, <2>7, <2>8, <2>9 DEF PageInv
<1>3. CASE UserOpens
  <2>1. \E slipped : apps' = [apps EXCEPT ![Min(Fresh)] = UpApp(FALSE, slipped)]
    BY <1>3 DEF UserOpens
  <2>2. AppsKept
    BY <2>1, <1>3, OpenedKeeps DEF UserOpens
  <2> QED BY <1>3, <2>2, AppsKeptPage DEF UserOpens
<1>4. CASE UserQuits
  BY <1>4, <1>0, SameTasksWait, PageGone DEF UserQuits
<1> QED BY <1>1, <1>2, <1>3, <1>4

-----------------------------------------------------------------------------
(* Whose app is quit *)

\* An app of the user: nobody of codexm started it, or was about to quit or start one.
\* While a task is, there is none of them; the recorded process is none; and such an app
\* runs alone, so that where the recorded process runs there is none.
Plain(p) == p \in Up /\ ~apps[p].ours /\ ~apps[p].slipped
NonePlain == \A p \in Pids : ~Plain(p)
PlainAlone == \A p \in Pids : Plain(p) => Up = {p}
StartInv ==
  /\ ~Plain(managed) /\ managed \notin Fresh
  /\ \A t \in Tasks : Starting(t) => NonePlain
  /\ PlainAlone
  /\ "plain" \notin spoiled

\* No app of the user's is started, nor any beside one.
NoNewPlain ==
  /\ \A p \in Pids : Plain(p)' => Plain(p) /\ Up' \subseteq Up
  /\ Fresh' \subseteq Fresh

\* Then whichever of them is left runs alone.
LEMMA AloneKept ==
  ASSUME PlainAlone, NoNewPlain
  PROVE  PlainAlone'
<1> SUFFICES ASSUME NEW p \in Pids, Plain(p)' PROVE Up' = {p}
  BY DEF PlainAlone
<1>1. Plain(p) /\ Up' \subseteq Up /\ Up = {p}
  BY DEF PlainAlone, NoNewPlain
<1>2. p \in Up'
  BY DEF Plain
<1> QED BY <1>1, <1>2

\* A step of a task keeps what is said of these apps, if it does so for this task.
LEMMA StartKept ==
  ASSUME DeskTyped, StartInv, NEW t \in Tasks, Apart(t), NoNewPlain,
         managed' = managed \/ (managed' \notin Fresh' /\ ~Plain(managed)'),
         Starting(t)' => Starting(t) \/ NonePlain', "plain" \notin spoiled'
  PROVE  StartInv'
<1>1. ASSUME NonePlain PROVE NonePlain'
  BY <1>1 DEF NonePlain, NoNewPlain
<1>2. ~Plain(managed)' /\ managed' \notin Fresh'
  BY UpPids DEF StartInv, NoNewPlain, DeskTyped, AppsTyped, Plain, Up
<1>3. ASSUME NEW o \in Tasks, Starting(o)' PROVE NonePlain'
  BY <1>1, <1>3 DEF StartInv, Starting, Apart
<1>4. PlainAlone'
  BY AloneKept DEF StartInv
<1> QED BY <1>2, <1>3, <1>4 DEF StartInv

\* Steps that leave the apps alone start no app of the user's,
LEMMA PlainSame ==
  ASSUME UNCHANGED apps
  PROVE  NoNewPlain
BY DEF NoNewPlain, Plain, Up, Fresh

\* nor do those that quit them,
LEMMA PlainGone ==
  ASSUME NEW ps, apps' = Gone(ps)
  PROVE  NoNewPlain /\ (ps = Up => Up' = {})
<1>1. \A p \in Pids : apps'[p].st = "up" \/ apps'[p].st = "new" => apps'[p] = apps[p] /\ p \notin ps
  BY DEF Gone, NotStarted
<1> QED BY <1>1 DEF NoNewPlain, Plain, Up, Fresh

\* nor those in which codexm starts one,
LEMMA PlainOpened ==
  ASSUME DeskTyped, NonePlain, Fresh # {}, apps' = Opened
  PROVE  NoNewPlain
<1>1. apps' = [apps EXCEPT ![Min(Fresh)] = UpApp(TRUE, FALSE)]
  BY DEF Opened
<1>2. \A p \in Pids : apps'[p] = IF p = Min(Fresh) THEN UpApp(TRUE, FALSE) ELSE apps[p]
  BY <1>1 DEF DeskTyped, AppsTyped
<1>3. UpApp(TRUE, FALSE).ours /\ UpApp(TRUE, FALSE).st = "up"
  BY DEF UpApp, NotStarted
<1>4. \A p \in Pids : ~Plain(p)'
  BY <1>2, <1>3 DEF NonePlain, Plain, Up
<1>5. Fresh' \subseteq Fresh
  BY <1>2, <1>3 DEF Fresh
<1> QED BY <1>4, <1>5 DEF NoNewPlain

\* nor those that restart the app server.
LEMMA PlainRestarted ==
  ASSUME DeskTyped, NEW p, apps' = Restarted(p)
  PROVE  NoNewPlain
<1>1. ASSUME NEW q \in Pids
      PROVE  apps'[q].st = apps[q].st /\ apps'[q].ours = apps[q].ours /\ apps'[q].slipped = apps[q].slipped
  <2>1. apps[q] \in Procs /\ (apps'[q] = apps[q] \/ apps'[q] = [apps[q] EXCEPT !.acct = auth, !.loaded = {}, !.busy = {}])
    BY DEF Restarted, DeskTyped, AppsTyped
  <2> QED BY <2>1 DEF Procs
<1> QED BY <1>1 DEF NoNewPlain, Plain, Up, Fresh

\* Where there is no app of the user's, none is recorded.
LEMMA NewestPlain ==
  ASSUME DeskTyped, NonePlain, Up # {}, NEW seen, managed' = Newest(seen), UNCHANGED apps
  PROVE  managed' \notin Fresh' /\ ~Plain(managed)'
<1>1. managed' \in Up
  BY NewestUp
<1> QED BY <1>1, UpPids DEF NonePlain, Plain, Up, Fresh

\* An operation that ends is not about to start an app.
LEMMA EndsStarts ==
  ASSUME DeskTyped, NEW t \in Tasks, NEW r, Ends(t, r)
  PROVE  ~Starting(t)'
BY EndsApart DEF DeskTyped, Starting

\* Every step of a task keeps what is said of the user's apps.
LEMMA TaskStarts ==
  ASSUME DeskTyped, LockInv, StartInv, NEW t \in Tasks,
         Begin(t) \/ TaskStep(t) \/ SwitchFails(t) \/ GivesUp(t) \/ Interrupted(t)
  PROVE  StartInv'
<1>0. /\ TasksTyped /\ pc[t] \in Places /\ Apart(t) /\ "plain" \notin spoiled /\ LockClause(t) /\ mem[t] \in Mems
      /\ NoPid \notin Pids
  BY TaskApart, PidsFinite DEF DeskTyped, TasksTyped, StartInv, LockInv
<1>a. ASSUME UNCHANGED managed, NoNewPlain, "plain" \notin spoiled',
             Starting(t)' => Starting(t) \/ NonePlain'
      PROVE  StartInv'
  BY <1>a, <1>0, StartKept
<1>b. ASSUME Starting(t) PROVE NonePlain
  BY <1>b DEF StartInv
<1> USE DEF At, store, desk, hist
<1>1. CASE Begin(t)
  <2>1. mem'[t].op = work.jobs[t].op
        /\ pc'[t] = IF work.jobs[t].op = "launch" THEN "look" ELSE "lock"
    BY <1>1, <1>0 DEF Begin, NoMem, TasksTyped, Go, Set
  <2> QED BY <1>1, <2>1, <1>0, <1>a, PlainSame DEF Begin, Starting
<1>2. CASE TakeLock(t)
  <2>1. CASE \E r : Ends(t, r)
    BY <1>2, <2>1, <1>0, <1>a, EndsStarts, PlainSame DEF TakeLock
  <2>2. CASE ~\E r : Ends(t, r)
    BY <1>2, <2>2, <1>0, <1>a, GoApart, PlainSame DEF TakeLock, Starting
  <2> QED BY <2>1, <2>2
<1>3. CASE SwitchAuth(t)
  <2>1. CASE \E r : Ends(t, r)
    BY <1>3, <2>1, <1>0, <1>a, EndsStarts, PlainSame DEF SwitchAuth
  <2>2. CASE ~\E r : Ends(t, r)
    <3>1. mem'[t].op = mem[t].op /\ pc'[t] \in {"open", AfterAuth(t)}
      <4>1. CASE Go(t, "open") /\ Set(t, [mem[t] EXCEPT !.before = auth])
        BY <4>1, <1>0 DEF Mems, TasksTyped, Go, Set
      <4>2. CASE /\ Go(t, AfterAuth(t))
                 /\ Set(t, [mem[t] EXCEPT !.before = auth, !.backup = (auth # NoAccount), !.switched = TRUE])
        BY <4>2, <1>0 DEF Mems, TasksTyped, Go, Set
      <4> QED BY <1>3, <2>2, <4>1, <4>2 DEF SwitchAuth
    <3> QED BY <1>3, <3>1, <1>0, <1>a, PlainSame DEF SwitchAuth, Starting, AfterAuth
  <2> QED BY <2>1, <2>2
<1>4. CASE SwitchFails(t)
  BY <1>4, <1>0, <1>a, EndsStarts, PlainSame DEF SwitchFails, Starting
<1>5. CASE SkipRefresh(t)
  BY <1>5, <1>0, <1>a, GoApart, EndsStarts, PlainSame DEF SkipRefresh, Starting
<1>6. CASE Refresh(t)
  <2>1. /\ pc'[t] \in {"relook", "list", "await", "fallback"}
    BY <1>6, <1>0, GoApart DEF Refresh, Inject
  <2> QED BY <1>6, <2>1, <1>0, <1>a, PlainSame DEF Refresh, Starting
<1>7. CASE Answered(t)
  BY <1>7, <1>0, <1>a, GoApart, EndsStarts, PlainSame DEF Answered, Starting
<1>8. CASE GivesUp(t)
  BY <1>8, <1>0, <1>a, GoApart, PlainSame DEF GivesUp, Starting
<1>9. CASE Interrupted(t)
  BY <1>9, <1>0, <1>a, EndsStarts, PlainSame DEF Interrupted, Starting
<1>10. CASE Fallback(t)
  BY <1>10, <1>0, <1>a, EndsStarts, PlainSame, PlainGone DEF Fallback, Starting
<1>11. CASE ListOthers(t)
  BY <1>11, <1>0, <1>a, EndsStarts, PlainSame DEF ListOthers, Starting
<1>12. CASE Unlock(t)
  BY <1>12, <1>0, <1>a, GoApart, PlainSame DEF Unlock, Starting
<1>13. CASE RestartLook(t)
  BY <1>13, <1>0, <1>a, GoApart, EndsStarts, PlainSame DEF RestartLook, Starting
<1>14. CASE RestartCheck(t)
  <2>1. CASE \E r : Ends(t, r)
    BY <1>14, <2>1, <1>0, <1>a, EndsStarts, PlainSame DEF RestartCheck
  <2>2. CASE ~\E r : Ends(t, r)
    <3>1. Up = {} \/ managed \in Up
      BY <1>14, <2>2 DEF RestartCheck, RecordedRuns
    <3>2. NonePlain
      BY <3>1 DEF NonePlain, StartInv, PlainAlone, Plain
    <3>3. NoNewPlain
      BY <1>14, PlainSame DEF RestartCheck
    <3>4. NonePlain'
      BY <3>2, <3>3 DEF NonePlain, NoNewPlain
    <3> QED BY <1>14, <3>3, <3>4, <1>0, <1>a DEF RestartCheck
  <2> QED BY <2>1, <2>2
<1>15. CASE RestartQuit(t)
  <2>1. CASE Ends(t, "threw") /\ UNCHANGED <<apps, spoiled>>
    BY <1>15, <2>1, <1>0, <1>a, EndsStarts, PlainSame DEF RestartQuit
  <2>2. CASE apps' = Gone(Up) /\ Go(t, "reopen")
    <3>1. NoNewPlain /\ NonePlain'
      BY <2>2, PlainGone DEF NonePlain, Plain
    <3>2. "plain" \notin spoiled'
      <4>1. "plain" \notin OfUser
        BY <1>15, <1>b, UpPids DEF RestartQuit, Starting, NonePlain, OfUser, Plain
      <4>2. spoiled' \in {spoiled, spoiled \cup OfUser}
        BY <1>15 DEF RestartQuit
      <4> QED BY <4>1, <4>2, <1>0
    <3> QED BY <1>15, <2>2, <3>1, <3>2, <1>0, <1>a, GoApart DEF RestartQuit
  <2> QED BY <1>15, <2>1, <2>2 DEF RestartQuit
<1>16. CASE RestartOpen(t)
  <2>1. CASE \E r : Ends(t, r)
    BY <1>16, <2>1, <1>0, <1>a, <1>b, EndsStarts, PlainSame, PlainOpened DEF RestartOpen, Starting
  <2>2. CASE apps' = Opened /\ Go(t, "retrack")
    BY <1>16, <2>2, <1>0, <1>a, <1>b, GoApart, PlainOpened DEF RestartOpen, Starting
  <2> QED BY <1>16, <2>1, <2>2 DEF RestartOpen
<1>17. CASE RestartTrack(t)
  <2>1. ~Starting(t)'
    BY <1>17, EndsStarts DEF RestartTrack
  <2>2. NonePlain
    BY <1>17, <1>b DEF RestartTrack, Starting
  <2>3. managed' \notin Fresh' /\ ~Plain(managed)'
    <3>1. CASE Up = {}
      BY <1>17, <3>1, <1>0 DEF RestartTrack, Plain, Up, Fresh
    <3>2. CASE Up # {}
      BY <1>17, <3>2, <2>2, NewestPlain DEF RestartTrack
    <3> QED BY <3>1, <3>2
  <2> QED BY <1>17, <2>1, <2>3, <1>0, PlainSame, StartKept DEF RestartTrack
<1>18. CASE Look(t)
  <2>1. mem'[t].op = mem[t].op /\ mem'[t].to = mem[t].to
    BY <1>18, <1>0 DEF Look, Mems, TasksTyped, Set
  <2>2. pc'[t] = IF Up = {} THEN NextOfLaunch(t) ELSE "confirm"
    BY <1>18, <1>0, GoApart DEF Look
  <2>3. Up = {} => NonePlain'
    BY <1>18 DEF Look, NonePlain, Plain, Up
  <2> QED BY <1>18, <2>1, <2>2, <2>3, <1>0, <1>a, PlainSame DEF Look, NextOfLaunch, Starting
<1>19. CASE Confirm(t)
  BY <1>19, <1>0, <1>a, GoApart, EndsStarts, PlainSame DEF Confirm, Starting
<1>20. CASE Quit(t)
  <2>1. CASE \E r : Ends(t, r)
    BY <1>20, <2>1, <1>0, <1>a, EndsStarts, PlainSame, PlainGone DEF Quit
  <2>2. CASE apps' = Gone(Up) /\ Go(t, NextOfLaunch(t))
    <3>1. NoNewPlain /\ NonePlain'
      BY <2>2, PlainGone DEF NonePlain, Plain
    <3> QED BY <1>20, <2>2, <3>1, <1>0, <1>a, GoApart DEF Quit, NextOfLaunch
  <2> QED BY <1>20, <2>1, <2>2 DEF Quit
<1>21. CASE Open(t)
  <2>1. Starting(t) /\ NonePlain
    BY <1>21, <1>b, <1>0 DEF Open, Starting, LockClause, OfLaunch
  <2>2. NoNewPlain
    BY <1>21, <2>1, PlainSame, PlainOpened DEF Open
  <2> QED BY <1>21, <2>1, <2>2, <1>0, <1>a DEF Open
<1>22. CASE Track(t)
  <2>1. NonePlain
    BY <1>22, <1>b, <1>0 DEF Track, Starting, LockClause, OfLaunch
  <2>2. pc'[t] \in {"surface", "restore"}
    BY <1>22, <1>0, GoApart DEF Track
  <2>3. managed' = managed \/ (managed' \notin Fresh' /\ ~Plain(managed)')
    <3>1. CASE managed' = NoPid
      BY <1>22, <3>1, <1>0 DEF Plain, Up, Fresh
    <3>2. CASE managed' # NoPid
      BY <1>22, <3>2, <2>1, NewestPlain DEF Track
    <3> QED BY <3>1, <3>2
  <2> QED BY <1>22, <2>2, <2>3, <1>0, PlainSame, StartKept DEF Track, Starting
<1>23. CASE Surface(t)
  BY <1>23, <1>0, <1>a, EndsStarts, PlainSame, PlainRestarted DEF Surface, Starting
<1>24. CASE Restore(t)
  BY <1>24, <1>0, <1>a, EndsStarts, PlainSame DEF Restore, Starting
<1> QED BY <1>1, <1>2, <1>3, <1>4, <1>5, <1>6, <1>7, <1>8, <1>9, <1>10, <1>11, <1>12, <1>13,
           <1>14, <1>15, <1>16, <1>17, <1>18, <1>19, <1>20, <1>21, <1>22, <1>23, <1>24
           DEF TaskStep

-----------------------------------------------------------------------------
(* Which account the managed app runs *)

\* The managed app runs the account of auth.json, or it was said that it may not, or a
\* launch has yet to see to it, or the operation with the lock has.  An app server
\* that a script has restarted runs that account, and a script in an app that is no
\* longer the managed one, while a task waits for it, changes nothing of that.
Surfacing == \E t \in Tasks : pc[t] = "surface"
Follows == \A p \in Up : Managed(p) => apps[p].acct = auth
SeenTo == told \/ Surfacing \/ Follows
Applying == lock # NoTask /\ pc[lock] \in Post
RunsAuth(t) == pc[t] = "await" /\ page[mem[t].script].st \in {"ready", "done"}
                 => apps[page[mem[t].script].of].acct = auth
OfManaged(t) == pc[t] = "await" /\ page[mem[t].script].of # managed => SeenTo
FollowInv ==
  /\ SeenTo \/ Applying
  /\ \A t \in Tasks : RunsAuth(t) /\ OfManaged(t)

\* Apps that have started are left alone.
OthersKept == \A p \in Pids : apps'[p] = apps[p] \/ p \in Fresh

\* Then what they run stays.
LEMMA FollowsKept ==
  ASSUME StartInv, UNCHANGED <<auth, managed, work>>, OthersKept, Follows
  PROVE  Follows'
BY UpPids DEF Follows, StartInv, OthersKept, Managed, Up, Fresh

\* Only the task with the lock waits.
LEMMA OnlyHolderWaits ==
  ASSUME LockInv, NEW t \in Tasks, lock = t, NEW o \in Tasks, o # t
  PROVE  pc[o] # "await"
BY DEF LockInv, LockClause, NoLock, Post, OfRefresh

\* On Windows no app can be seen to be managed.
LEMMA FollowsOnWin ==
  ASSUME LockInv', work'.platform = "win"
  PROVE  FollowInv'
BY DEF LockInv, LockClause, FollowInv, SeenTo, Follows, Managed, RunsAuth, OfManaged

\* A task that leaves apps and pages alone keeps what scripts have done,
LEMMA RunsKept ==
  ASSUME PageInv, FollowInv, NEW t \in Tasks, Apart(t), pc'[t] # "await",
         UNCHANGED <<auth, page>>, OthersKept, NEW o \in Tasks
  PROVE  RunsAuth(o)'
<1>1. CASE o = t \/ pc[o] # "await"
  BY <1>1 DEF RunsAuth, Apart
<1>2. CASE o # t /\ pc[o] = "await" /\ page[mem[o].script].st \in {"ready", "done"}
  <2>1. mem[o].script \in Scripts /\ page[mem[o].script].of \in Up
    BY <1>2 DEF PageInv, AwaitClause, PageClause
  <2>2. apps'[page[mem[o].script].of] = apps[page[mem[o].script].of]
    BY <2>1, UpPids DEF OthersKept, Up, Fresh
  <2> QED BY <1>2, <2>2 DEF FollowInv, RunsAuth, Apart
<1>3. CASE o # t /\ page[mem[o].script].st \notin {"ready", "done"}
  BY <1>3 DEF RunsAuth, Apart
<1> QED BY <1>1, <1>2, <1>3

\* and what the managed app runs, if it takes nothing back.
LEMMA FollowStep ==
  ASSUME DeskTyped, LockInv, PageInv, StartInv, FollowInv, NEW t \in Tasks, Apart(t), Shut(t),
         UNCHANGED <<auth, page, managed>>, OthersKept, told => told',
         pc[t] \notin {"surface", "await"}, pc'[t] # "await",
         lock = t /\ pc[t] \in Post => lock' = t /\ pc'[t] \in Post
  PROVE  FollowInv'
<1>0. NoTask \notin Tasks /\ lock \in Tasks \cup {NoTask}
  BY DesktopAssumption DEF DeskTyped, StoreTyped
<1>1. SeenTo => SeenTo'
  BY FollowsKept DEF SeenTo, Surfacing, Apart
<1>2. Applying => Applying'
  BY <1>0 DEF Applying, Apart, Shut
<1>3. ASSUME NEW o \in Tasks PROVE OfManaged(o)'
  BY <1>1 DEF FollowInv, OfManaged, Apart
<1> QED BY <1>1, <1>2, <1>3, RunsKept DEF FollowInv

\* The task with the lock has to see to what the managed app runs, or leave the lock.
LEMMA FollowHolder ==
  ASSUME DeskTyped, LockInv, NEW t \in Tasks, Apart(t), lock = t, pc'[t] # "await",
         SeenTo' \/ (lock' = t /\ pc'[t] \in Post)
  PROVE  FollowInv'
<1>1. NoTask \notin Tasks
  BY DesktopAssumption
<1>2. \A o \in Tasks : pc'[o] # "await"
  BY OnlyHolderWaits DEF Apart
<1>3. (SeenTo \/ Applying)'
  BY <1>1 DEF Applying
<1> QED BY <1>2, <1>3 DEF FollowInv, RunsAuth, OfManaged

\* An app that is quit runs nothing.
LEMMA GoneFollows ==
  ASSUME DeskTyped, PageInv, NEW t \in Tasks, Apart(t), pc'[t] # "await", apps' = Gone(Up), page' = PagesWithout(Up)
  PROVE  FollowInv'
<1>1. Follows'
  <2>1. Up' = {}
    BY PlainGone
  <2> QED BY <2>1 DEF Follows
<1>2. ASSUME NEW o \in Tasks PROVE RunsAuth(o)'
  <2>1. CASE pc'[o] # "await"
    BY <2>1 DEF RunsAuth
  <2>2. CASE pc'[o] = "await"
    <3>1. o # t /\ pc[o] = "await" /\ mem'[o] = mem[o] /\ mem[o].script \in Scripts
      BY <2>2 DEF Apart, PageInv, AwaitClause
    <3>2. page'[mem[o].script].st \notin {"ready", "done"}
      <4> DEFINE s == mem[o].script
      <4>1. page[s] \in Pages /\ page'[s] = IF page[s].of \in Up /\ page[s].st # "none"
                                              THEN [page[s] EXCEPT !.st = "lost"] ELSE page[s]
        BY <3>1 DEF PagesWithout, DeskTyped, PageTyped
      <4>2. CASE page[s].of \in Up /\ page[s].st # "none"
        BY <4>1, <4>2 DEF Pages
      <4>3. CASE ~(page[s].of \in Up /\ page[s].st # "none")
        BY <4>1, <4>3, <3>1 DEF PageInv, PageClause
      <4> QED BY <4>2, <4>3
    <3> QED BY <3>1, <3>2 DEF RunsAuth
  <2> QED BY <2>1, <2>2
<1> QED BY <1>1, <1>2 DEF FollowInv, OfManaged, SeenTo

\* An app server that restarts runs the account of auth.json.
LEMMA RestartedFollows ==
  ASSUME DeskTyped, PageInv, FollowInv, UNCHANGED auth, NEW p \in Pids, apps' = Restarted(p),
         \A o \in Tasks : pc'[o] = "await" => pc[o] = "await" /\ mem'[o] = mem[o],
         \A s \in Scripts : page'[s].st \in {"ready", "done"} => /\ page'[s].of = page[s].of
                                                                 /\ page[s].st = page'[s].st \/ page[s].of = p
  PROVE  /\ \A o \in Tasks : RunsAuth(o)'
         /\ UNCHANGED <<managed, work>> /\ (Follows \/ managed = p) => Follows'
<1>1. \A q \in Pids : apps'[q] = IF q = p THEN [apps[q] EXCEPT !.acct = auth, !.loaded = {}, !.busy = {}] ELSE apps[q]
  BY DEF Restarted, DeskTyped, AppsTyped
<1>2. /\ apps'[p].acct = auth /\ apps'[p].st = apps[p].st /\ apps'[p].ours = apps[p].ours
      /\ \A q \in Pids : q # p => apps'[q] = apps[q]
  BY <1>1 DEF DeskTyped, AppsTyped, Procs
<1>3. Up' = Up
  BY <1>2 DEF Up
<1>4. ASSUME NEW o \in Tasks PROVE RunsAuth(o)'
  <2>1. CASE pc'[o] # "await" \/ page'[mem'[o].script].st \notin {"ready", "done"}
    BY <2>1 DEF RunsAuth
  <2>2. CASE pc'[o] = "await" /\ page'[mem'[o].script].st \in {"ready", "done"}
    <3> DEFINE s == mem[o].script
    <3>1. pc[o] = "await" /\ mem'[o] = mem[o] /\ s \in Scripts
      BY <2>2 DEF PageInv, AwaitClause
    <3>2. page'[s].of = page[s].of /\ (page[s].st = page'[s].st \/ page[s].of = p)
      BY <2>2, <3>1
    <3>3. CASE page[s].of = p
      BY <3>1, <3>2, <3>3, <1>2 DEF RunsAuth
    <3>4. CASE page[s].of # p
      <4>1. page[s].st \in {"ready", "done"}
        BY <2>2, <3>1, <3>2, <3>4
      <4>2. page[s].of \in Pids /\ apps[page[s].of].acct = auth
        BY <4>1, <3>1, UpPids DEF FollowInv, RunsAuth, PageInv, PageClause
      <4> QED BY <3>1, <3>2, <3>4, <4>2, <1>2 DEF RunsAuth
    <3> QED BY <3>3, <3>4
  <2> QED BY <2>1, <2>2
<1>5. UNCHANGED <<managed, work>> /\ (Follows \/ managed = p) => Follows'
  BY <1>2, <1>3, UpPids DEF Follows, Managed
<1> QED BY <1>4, <1>5

\* Every step of a task keeps what is said of the managed app's account.
LEMMA TaskFollows ==
  ASSUME DeskTyped, LockInv, LockInv', PageInv, PageInv', StartInv, FollowInv, NEW t \in Tasks,
         Begin(t) \/ TaskStep(t) \/ SwitchFails(t) \/ GivesUp(t) \/ Interrupted(t)
  PROVE  FollowInv'
<1>0. /\ TasksTyped /\ pc[t] \in Places /\ Apart(t) /\ Shut(t) /\ LockClause(t) /\ LockHeld /\ mem[t] \in Mems
      /\ NoPid \notin Pids /\ NoTask \notin Tasks /\ NoAccount \notin Accounts
  BY TaskApart, PidsFinite, DesktopAssumption DEF DeskTyped, TasksTyped, LockInv
<1>w. CASE work.platform = "win"
  BY <1>w, <1>0, FollowsOnWin DEF Apart
<1> SUFFICES ASSUME work.platform # "win" PROVE FollowInv'
  BY <1>w
<1>n. pc[t] \notin OfRestart
  BY <1>0 DEF LockClause
<1>a. ASSUME UNCHANGED <<auth, page, managed>>, OthersKept, told => told', pc[t] \notin {"surface", "await"},
             pc'[t] # "await", lock = t /\ pc[t] \in Post => lock' = t /\ pc'[t] \in Post
      PROVE  FollowInv'
  BY <1>a, <1>0, FollowStep
<1>b. UNCHANGED apps => OthersKept
  BY DEF OthersKept
<1>c. ASSUME lock = t, pc'[t] # "await", SeenTo' \/ (lock' = t /\ pc'[t] \in Post)
      PROVE  FollowInv'
  BY <1>c, <1>0, FollowHolder
<1>d. ASSUME NEW r, Ends(t, r) PROVE pc'[t] = IF lock = t THEN "unlock" ELSE "end"
  BY <1>d, <1>0, EndsApart
<1>e. ASSUME NEW r, Ends(t, r) 
      PROVE  /\ r \in {"failed", "other", "threw"} => told'
             /\ r \in {"busy", "retained", "refused", "cancelled", "quitFailed", "elsewhere", "best"} => told' = told
  BY <1>e DEF Ends
<1>f. ASSUME NEW o \in Tasks, pc'[t] # "await", UNCHANGED <<auth, page>>, OthersKept PROVE RunsAuth(o)'
  BY <1>f, <1>0, RunsKept
<1>g. ASSUME pc[t] \in OfRefresh \cup {"skip", "auth", "unlock"} PROVE lock = t
  BY <1>g, <1>0 DEF LockClause, Owned, Post, OfRefresh, NoLock
<1>h. UNCHANGED <<auth, managed, apps>> /\ Follows => Follows'
  BY <1>b, <1>0, FollowsKept DEF Apart
<1>i. pc[t] # "surface" /\ UNCHANGED <<auth, managed, apps>> /\ told' = told /\ SeenTo => SeenTo'
  BY <1>h, <1>0 DEF SeenTo, Surfacing, Apart
<1> USE DEF At, store, desk, hist
<1>1. CASE Begin(t)
  BY <1>1, <1>0, <1>a, <1>b, GoApart DEF Begin, Post, OfRefresh, OfRestart
<1>2. CASE TakeLock(t)
  <2>1. CASE lock = NoTask
    BY <1>2, <2>1, <1>0, <1>a, <1>b, GoApart DEF TakeLock
  <2>2. CASE lock # NoTask
    BY <1>2, <2>2, <1>0, <1>a, <1>b, <1>d, <1>e DEF TakeLock, Post, OfRefresh, OfRestart
  <2> QED BY <2>1, <2>2
<1>3. CASE SwitchAuth(t)
  <2>1. lock = t
    BY <1>3, <1>g DEF SwitchAuth
  <2>2. CASE Ends(t, "retained")
    <3>1. SeenTo /\ pc[t] # "surface"
      BY <1>3, <2>1 DEF SwitchAuth, FollowInv, Applying, Post, OfRefresh, OfRestart
    <3>2. UNCHANGED <<auth, managed, apps>>
      BY <1>3, <2>2, <1>d, <2>1, <1>0, GoApart DEF SwitchAuth, AfterAuth
    <3>3. SeenTo'
      BY <2>2, <3>1, <3>2, <1>e, <1>i
    <3> QED BY <2>1, <2>2, <3>3, <1>c, <1>d
  <2>3. CASE ~Ends(t, "retained")
    <3>1. lock' = t /\ pc'[t] \in {"open", "skip", "refresh"}
      BY <1>3, <2>1, <2>3, <1>0, GoApart DEF SwitchAuth, AfterAuth
    <3> QED BY <2>1, <3>1, <1>c DEF Post, OfRefresh
  <2> QED BY <2>2, <2>3
<1>4. CASE SwitchFails(t)
  BY <1>4, <1>0, <1>a, <1>b, <1>d, <1>e DEF SwitchFails, Post, OfRefresh, OfRestart
<1>5. CASE SkipRefresh(t)
  <2>1. lock = t
    BY <1>5, <1>g DEF SkipRefresh
  <2>2. CASE RuntimeIsTarget /\ Ends(t, "same")
    <3>1. Follows
      BY <2>2 DEF RuntimeIsTarget, Managed, SameEmail, Unique, Follows
    <3>2. SeenTo'
      BY <1>5, <3>1, <1>h DEF SkipRefresh, SeenTo
    <3> QED BY <2>1, <2>2, <3>2, <1>c, <1>d
  <2>3. CASE Go(t, "refresh")
    BY <1>5, <2>1, <2>3, <1>0, <1>c, GoApart DEF SkipRefresh, Post, OfRefresh
  <2> QED BY <1>5, <2>2, <2>3 DEF SkipRefresh
<1>6. CASE Refresh(t)
  <2>1. lock = t
    BY <1>6, <1>g DEF Refresh, OfRefresh
  <2>2. CASE ~Inject(t)
    <3>1. pc'[t] \in {"relook", "list", "fallback"} /\ lock' = t
      BY <1>6, <2>1, <2>2, <1>0, GoApart DEF Refresh
    <3> QED BY <2>1, <3>1, <1>c DEF Post, OfRefresh, OfRestart
  <2>3. CASE Inject(t)
    <3>1. PICK p \in Up, s \in Scripts :
            /\ Managed(p)
            /\ page' = [page EXCEPT ![s] = [NoPage EXCEPT !.st = IF mem[t].force THEN "restart" ELSE "first",
                                                          !.of = p, !.by = t, !.force = mem[t].force]]
            /\ Set(t, [mem[t] EXCEPT !.script = s]) /\ Go(t, "await")
      BY <2>3 DEF Inject
    <3>2. page'[s].st \in {"restart", "first"} /\ page'[s].of = managed
      BY <3>1 DEF DeskTyped, PageTyped, NoPage, Managed
    <3>3. pc'[t] = "await" /\ mem'[t].script = s
      BY <3>1, <1>0 DEF Go, Set, TasksTyped, Mems
    <3>4. lock' = t /\ UNCHANGED managed
      BY <1>6, <2>1 DEF Refresh
    <3>5. \A o \in Tasks \ {t} : pc'[o] # "await"
      BY <2>1, <1>0, OnlyHolderWaits DEF Apart
    <3>6. Applying'
      BY <3>3, <3>4, <1>0 DEF Applying, Post, OfRefresh
    <3>7. ASSUME NEW o \in Tasks PROVE RunsAuth(o)' /\ OfManaged(o)'
      BY <3>2, <3>3, <3>4, <3>5 DEF RunsAuth, OfManaged
    <3> QED BY <3>6, <3>7 DEF FollowInv
  <2> QED BY <2>2, <2>3
<1>7. CASE Answered(t)
  <2> DEFINE s == mem[t].script
  <2>1. lock = t /\ pc[t] = "await" /\ pc[t] # "surface"
    BY <1>7, <1>g DEF Answered, OfRefresh
  <2>2. CASE page[s].st = "done" /\ page[s].of = managed
    <3>1. Ends(t, "applied")
      BY <1>7, <2>2 DEF Answered
    <3>2. Follows
      BY <2>1, <2>2 DEF FollowInv, RunsAuth, Follows, Managed
    <3>3. SeenTo'
      BY <1>7, <3>2, <1>h DEF Answered, SeenTo
    <3> QED BY <2>1, <3>1, <3>3, <1>c, <1>d
  <2>3. CASE page[s].st = "done" /\ page[s].of # managed
    <3>1. Ends(t, "elsewhere")
      BY <1>7, <2>3 DEF Answered
    <3>2. SeenTo
      BY <2>1, <2>3 DEF FollowInv, OfManaged
    <3>3. SeenTo'
      BY <1>7, <2>1, <3>1, <3>2, <1>e, <1>i DEF Answered
    <3> QED BY <2>1, <3>1, <3>3, <1>c, <1>d
  <2>4. CASE page[s].st # "done"
    BY <1>7, <2>1, <2>4, <1>0, <1>c, GoApart DEF Answered, Post, OfRefresh
  <2> QED BY <2>2, <2>3, <2>4
<1>8. CASE GivesUp(t)
  BY <1>8, <1>0, <1>c, <1>g, GoApart DEF GivesUp, Post, OfRefresh
<1>9. CASE Interrupted(t)
  BY <1>9, <1>0, <1>c, <1>d, <1>e, <1>g DEF Interrupted, OfRefresh, SeenTo
<1>10. CASE Fallback(t)
  <2>1. lock = t
    BY <1>10, <1>g DEF Fallback, OfRefresh
  <2>2. CASE Ends(t, "failed")
    BY <2>1, <2>2, <1>c, <1>d, <1>e DEF SeenTo
  <2>3. CASE Ends(t, "killed") /\ apps' = Gone(Up) /\ page' = PagesWithout(Up)
    BY <2>1, <2>3, <1>0, <1>d, GoneFollows
  <2> QED BY <1>10, <2>2, <2>3 DEF Fallback
<1>11. CASE ListOthers(t)
  <2>1. lock = t
    BY <1>11, <1>g DEF ListOthers, OfRefresh
  <2>2. CASE Up = {} /\ Ends(t, "none")
    <3>1. Follows
      BY <2>2 DEF Follows
    <3> QED BY <1>11, <2>1, <2>2, <3>1, <1>c, <1>d, <1>h DEF ListOthers, SeenTo
  <2>3. CASE Ends(t, "other") \/ Ends(t, "failed")
    BY <2>1, <2>3, <1>c, <1>d, <1>e DEF SeenTo
  <2> QED BY <1>11, <2>2, <2>3 DEF ListOthers
<1>12. CASE Unlock(t)
  <2>1. lock = t /\ SeenTo /\ pc[t] # "surface"
    BY <1>12, <1>g DEF Unlock, FollowInv, Applying, Post, OfRefresh, OfRestart
  <2>2. SeenTo'
    BY <1>12, <2>1, <1>i DEF Unlock
  <2> QED BY <1>12, <2>1, <2>2, <1>0, <1>c, GoApart DEF Unlock
<1>13. CASE RestartLook(t)
  BY <1>13, <1>n DEF RestartLook, OfRestart
<1>14. CASE RestartCheck(t)
  BY <1>14, <1>n DEF RestartCheck, OfRestart
<1>15. CASE RestartQuit(t)
  BY <1>15, <1>n DEF RestartQuit, OfRestart
<1>16. CASE RestartOpen(t)
  BY <1>16, <1>n DEF RestartOpen, OfRestart
<1>17. CASE RestartTrack(t)
  BY <1>17, <1>n DEF RestartTrack, OfRestart
<1>18. CASE Look(t)
  BY <1>18, <1>0, <1>a, <1>b, GoApart DEF Look, NextOfLaunch, Post, OfRefresh, OfRestart
<1>19. CASE Confirm(t)
  BY <1>19, <1>0, <1>a, <1>b, <1>d, <1>e, GoApart DEF Confirm, Post, OfRefresh, OfRestart
<1>20. CASE Quit(t)
  <2>1. CASE Ends(t, "quitFailed") /\ UNCHANGED <<apps, page>>
    BY <1>20, <2>1, <1>0, <1>a, <1>b, <1>d, <1>e DEF Quit, Post, OfRefresh, OfRestart
  <2>2. CASE apps' = Gone(Up) /\ page' = PagesWithout(Up) /\ Go(t, NextOfLaunch(t))
    BY <2>2, <1>0, GoApart, GoneFollows DEF NextOfLaunch
  <2> QED BY <1>20, <2>1, <2>2 DEF Quit
<1>21. CASE Open(t)
  <2>1. OthersKept
    <3>1. CASE apps' = Opened /\ Fresh # {}
      <4>1. apps' = [apps EXCEPT ![Min(Fresh)] = UpApp(TRUE, FALSE)]
        BY <3>1 DEF Opened
      <4> QED BY <3>1, <4>1, MinFresh DEF OthersKept, DeskTyped, AppsTyped
    <3> QED BY <1>21, <3>1, <1>b DEF Open
  <2>2. pc'[t] \in {"track", "restore"} /\ told' = told
    BY <1>21, <1>0, GoApart DEF Open
  <2> QED BY <1>21, <2>1, <2>2, <1>a, <1>0 DEF Open, Post
<1>22. CASE Track(t)
  <2>1. CASE Go(t, "surface")
    <3>1. Surfacing'
      BY <2>1, <1>0, GoApart DEF Surfacing
    <3>2. pc'[t] # "await"
      BY <2>1, <1>0, GoApart
    <3>3. \A o \in Tasks : RunsAuth(o)'
      BY <1>22, <3>2, <1>b, <1>f DEF Track
    <3> QED BY <3>1, <3>3 DEF FollowInv, OfManaged, SeenTo
  <2>2. CASE Go(t, "restore") /\ managed' = NoPid
    <3>1. Follows'
      BY <1>22, <2>2, <1>0, UpPids DEF Track, Follows, Managed, Up
    <3>2. pc'[t] # "await"
      BY <2>2, <1>0, GoApart
    <3>3. \A o \in Tasks : RunsAuth(o)'
      BY <1>22, <3>2, <1>b, <1>f DEF Track
    <3> QED BY <3>1, <3>3 DEF FollowInv, OfManaged, SeenTo
  <2>3. CASE Go(t, "restore") /\ managed' = managed
    BY <1>22, <2>3, <1>0, <1>a, <1>b, GoApart DEF Track, Post
  <2> QED BY <1>22, <2>1, <2>2, <2>3 DEF Track
<1>23. CASE Surface(t)
  <2>1. CASE Ends(t, "failed") /\ UNCHANGED <<apps, page>>
    BY <1>23, <2>1, <1>b, <1>d, <1>e, <1>f DEF Surface, FollowInv, OfManaged, SeenTo
  <2>2. CASE /\ \E p \in Up : Managed(p) /\ apps' = Restarted(p) /\ page' = Idle(p)
             /\ Ends(t, "applied")
    <3>1. PICK p \in Up : Managed(p) /\ apps' = Restarted(p) /\ page' = Idle(p)
      BY <2>2
    <3>2. \A s \in Scripts : page'[s].of = page[s].of /\ page'[s].st = page[s].st
      <4>1. \A s \in Scripts : page[s] \in Pages
        BY DEF DeskTyped, PageTyped
      <4> QED BY <3>1, <4>1 DEF Idle, Pages
    <3>3. \A o \in Tasks : pc'[o] = "await" => pc[o] = "await" /\ mem'[o] = mem[o]
      BY <2>2, <1>0, <1>d DEF Apart
    <3>4. UNCHANGED <<auth, managed, work>> /\ managed = p /\ p \in Pids
      BY <1>23, <3>1, <1>0, UpPids DEF Surface, Managed
    <3>5. Follows' /\ \A o \in Tasks : RunsAuth(o)'
      BY <3>1, <3>2, <3>3, <3>4, RestartedFollows
    <3> QED BY <3>5 DEF FollowInv, OfManaged, SeenTo
  <2> QED BY <1>23, <2>1, <2>2 DEF Surface
<1>24. CASE Restore(t)
  <2>1. told' /\ pc'[t] # "await"
    BY <1>24, <1>d, <1>e DEF Restore
  <2>2. CASE mem[t].to = NoAccount
    BY <1>24, <2>1, <2>2, <1>b, <1>f DEF Restore, FollowInv, OfManaged, SeenTo
  <2>3. CASE mem[t].to # NoAccount
    <3>1. lock = t
      BY <1>24, <2>3, <1>0 DEF Restore, LockClause, NoLock, Post
    <3> QED BY <2>1, <3>1, <1>c DEF SeenTo
  <2> QED BY <2>2, <2>3
<1> QED BY <1>1, <1>2, <1>3, <1>4, <1>5, <1>6, <1>7, <1>8, <1>9, <1>10, <1>11, <1>12, <1>13,
           <1>14, <1>15, <1>16, <1>17, <1>18, <1>19, <1>20, <1>21, <1>22, <1>23, <1>24
           DEF TaskStep

-----------------------------------------------------------------------------
(* What a failed launch leaves of auth.json *)

\* A launch that has switched has a backup exactly if there was an auth.json.
Unswitched == {"look", "confirm", "quit", "lock", "auth"} \cup OfHandler
LaunchClause(t) ==
  /\ pc[t] \in Unswitched => ~mem[t].switched
  /\ mem[t].switched => (mem[t].backup <=> mem[t].before # NoAccount)
LaunchInv == (\A t \in Tasks : LaunchClause(t)) /\ LaunchRestores

\* A step of one task keeps that if it does so for this task.
LEMMA LaunchKept ==
  ASSUME LaunchInv, NEW t \in Tasks, Apart(t), LaunchClause(t)', UNCHANGED restored
  PROVE  LaunchInv'
<1>1. ASSUME NEW o \in Tasks PROVE LaunchClause(o)'
  BY DEF LaunchInv, LaunchClause, Apart
<1> QED BY <1>1 DEF LaunchInv, LaunchRestores

\* The end of an operation does,
LEMMA EndsLaunch ==
  ASSUME DeskTyped, NEW t \in Tasks, LaunchClause(t), NEW r, Ends(t, r)
  PROVE  LaunchClause(t)'
<1>1. mem'[t] = [mem[t] EXCEPT !.end = r, !.script = NoScript] /\ mem[t] \in Mems /\ pc'[t] \in {"unlock", "end"}
  BY EndsApart DEF DeskTyped, TasksTyped
<1> QED BY <1>1 DEF LaunchClause, Mems, Unswitched, OfHandler

\* and so does every step of a task.
LEMMA TaskLaunch ==
  ASSUME DeskTyped, LockInv, LaunchInv, NEW t \in Tasks,
         Begin(t) \/ TaskStep(t) \/ SwitchFails(t) \/ GivesUp(t) \/ Interrupted(t)
  PROVE  LaunchInv'
<1>0. TasksTyped /\ Apart(t) /\ LaunchClause(t) /\ mem[t] \in Mems
  BY TaskApart DEF DeskTyped, TasksTyped, LaunchInv
<1>a. ASSUME LaunchClause(t)', UNCHANGED restored PROVE LaunchInv'
  BY <1>a, <1>0, LaunchKept
<1>b. ASSUME NEW r, Ends(t, r) PROVE LaunchClause(t)'
  BY <1>b, <1>0, EndsLaunch
<1>c. UNCHANGED mem /\ (pc'[t] \in Unswitched => pc[t] \in Unswitched) => LaunchClause(t)'
  BY <1>0 DEF LaunchClause
<1> USE DEF hist, At
<1>1. CASE Begin(t)
  <2>1. mem'[t].switched = FALSE
    BY <1>1, <1>0 DEF Begin, NoMem, Set, TasksTyped
  <2> QED BY <1>1, <2>1, <1>a DEF Begin, LaunchClause
<1>2. CASE TakeLock(t)
  BY <1>2, <1>a, <1>b, <1>c, <1>0, GoApart DEF TakeLock, Unswitched, OfHandler
<1>3. CASE SwitchAuth(t)
  <2>1. CASE \E r : Ends(t, r)
    BY <1>3, <2>1, <1>a, <1>b DEF SwitchAuth
  <2>2. CASE Set(t, [mem[t] EXCEPT !.before = auth])
    <3>1. mem'[t] = [mem[t] EXCEPT !.before = auth] /\ ~mem[t].switched
      BY <1>3, <2>2, <1>0 DEF SwitchAuth, Set, TasksTyped, LaunchClause, Unswitched
    <3>2. ~mem'[t].switched
      BY <3>1, <1>0 DEF Mems
    <3> QED BY <1>3, <3>2, <1>a DEF SwitchAuth, LaunchClause
  <2>3. CASE /\ Set(t, [mem[t] EXCEPT !.before = auth, !.backup = (auth # NoAccount), !.switched = TRUE])
             /\ Go(t, AfterAuth(t))
    <3>1. /\ mem'[t] = [mem[t] EXCEPT !.before = auth, !.backup = (auth # NoAccount), !.switched = TRUE]
          /\ pc'[t] \in {"skip", "refresh", "open"}
      BY <2>3, <1>0 DEF Set, Go, TasksTyped, AfterAuth
    <3>2. LaunchClause(t)'
      BY <3>1, <1>0 DEF LaunchClause, Mems, Unswitched, OfHandler
    <3> QED BY <1>3, <3>2, <1>a DEF SwitchAuth
  <2> QED BY <1>3, <2>1, <2>2, <2>3 DEF SwitchAuth
<1>4. CASE SwitchFails(t)
  BY <1>4, <1>a, <1>b DEF SwitchFails
<1>5. CASE SkipRefresh(t)
  BY <1>5, <1>a, <1>b, <1>c, <1>0, GoApart DEF SkipRefresh, Unswitched, OfHandler
<1>6. CASE Refresh(t)
  <2>1. CASE Inject(t)
    <3>1. PICK s \in Scripts : Set(t, [mem[t] EXCEPT !.script = s]) /\ Go(t, "await")
      BY <2>1 DEF Inject
    <3>2. mem'[t] = [mem[t] EXCEPT !.script = s] /\ pc'[t] = "await"
      BY <3>1, <1>0 DEF Set, Go, TasksTyped
    <3>3. LaunchClause(t)'
      BY <3>2, <1>0 DEF LaunchClause, Mems, Unswitched, OfHandler
    <3> QED BY <1>6, <3>3, <1>a DEF Refresh
  <2>2. CASE ~Inject(t)
    BY <1>6, <2>2, <1>a, <1>c, <1>0, GoApart DEF Refresh, Unswitched, OfHandler
  <2> QED BY <2>1, <2>2
<1>7. CASE Answered(t)
  BY <1>7, <1>a, <1>b, <1>c, <1>0, GoApart DEF Answered, Unswitched, OfHandler
<1>8. CASE GivesUp(t)
  BY <1>8, <1>a, <1>c, <1>0, GoApart DEF GivesUp, Unswitched, OfHandler
<1>9. CASE Interrupted(t)
  BY <1>9, <1>a, <1>b DEF Interrupted
<1>10. CASE Fallback(t)
  BY <1>10, <1>a, <1>b DEF Fallback
<1>11. CASE ListOthers(t)
  BY <1>11, <1>a, <1>b DEF ListOthers
<1>12. CASE Unlock(t)
  BY <1>12, <1>a, <1>c, <1>0, GoApart DEF Unlock, Unswitched, OfHandler
<1>13. CASE RestartLook(t)
  BY <1>13, <1>a, <1>b, <1>c, <1>0, GoApart DEF RestartLook, Unswitched, OfHandler
<1>14. CASE RestartCheck(t)
  <2>1. CASE \E r : Ends(t, r)
    BY <1>14, <2>1, <1>a, <1>b DEF RestartCheck
  <2>2. CASE ~\E r : Ends(t, r)
    <3>1. Set(t, [mem[t] EXCEPT !.seen = Up]) /\ Go(t, IF Up = {} THEN "reopen" ELSE "requit")
      BY <1>14, <2>2 DEF RestartCheck
    <3>2. mem'[t] = [mem[t] EXCEPT !.seen = Up] /\ pc'[t] \in {"reopen", "requit"}
      BY <3>1, <1>0 DEF Set, Go, TasksTyped
    <3>3. LaunchClause(t)'
      BY <3>2, <1>0 DEF LaunchClause, Mems, Unswitched, OfHandler
    <3> QED BY <1>14, <3>3, <1>a DEF RestartCheck
  <2> QED BY <2>1, <2>2
<1>15. CASE RestartQuit(t)
  BY <1>15, <1>a, <1>b, <1>c, <1>0, GoApart DEF RestartQuit, Unswitched, OfHandler
<1>16. CASE RestartOpen(t)
  BY <1>16, <1>a, <1>b, <1>c, <1>0, GoApart DEF RestartOpen, Unswitched, OfHandler
<1>17. CASE RestartTrack(t)
  BY <1>17, <1>a, <1>b DEF RestartTrack
<1>18. CASE Look(t)
  <2>1. mem'[t] = [mem[t] EXCEPT !.seen = Up] /\ pc[t] = "look"
    BY <1>18, <1>0 DEF Look, Set, TasksTyped
  <2>2. LaunchClause(t)'
    BY <2>1, <1>0 DEF LaunchClause, Mems, Unswitched
  <2> QED BY <1>18, <2>2, <1>a DEF Look
<1>19. CASE Confirm(t)
  BY <1>19, <1>a, <1>b, <1>c, <1>0, GoApart DEF Confirm, Unswitched, OfHandler
<1>20. CASE Quit(t)
  BY <1>20, <1>a, <1>b, <1>c, <1>0, GoApart DEF Quit, Unswitched, OfHandler, NextOfLaunch
<1>21. CASE Open(t)
  BY <1>21, <1>a, <1>b, <1>c, <1>0, GoApart DEF Open, Unswitched, OfHandler
<1>22. CASE Track(t)
  BY <1>22, <1>a, <1>c, <1>0, GoApart DEF Track, Unswitched, OfHandler
<1>23. CASE Surface(t)
  BY <1>23, <1>a, <1>b DEF Surface
<1>24. CASE Restore(t)
  <2>1. LaunchClause(t)'
    BY <1>24, <1>b DEF Restore
  <2>2. mem[t].switched => Restored(t) = mem[t].before
    BY <1>0 DEF LaunchClause, Restored
  <2>3. LaunchRestores'
    <3> DEFINE r == [switched |-> mem[t].switched, same |-> Restored(t) = mem[t].before]
    <3>1. r.switched => r.same
      BY <2>2
    <3>2. restored' \in {restored, restored \cup {r}}
      BY <1>24 DEF Restore
    <3> HIDE DEF r
    <3> QED BY <3>1, <3>2 DEF LaunchInv, LaunchRestores
  <2>4. ASSUME NEW o \in Tasks PROVE LaunchClause(o)'
    BY <2>1, <1>0 DEF LaunchInv, LaunchClause, Apart
  <2> QED BY <2>3, <2>4 DEF LaunchInv
<1> QED BY <1>1, <1>2, <1>3, <1>4, <1>5, <1>6, <1>7, <1>8, <1>9, <1>10, <1>11, <1>12, <1>13,
           <1>14, <1>15, <1>16, <1>17, <1>18, <1>19, <1>20, <1>21, <1>22, <1>23, <1>24
           DEF TaskStep

-----------------------------------------------------------------------------
\* Steps of no task keep what is said of the user's apps if they start none,
LEMMA StartFrame ==
  ASSUME DeskTyped, StartInv, UNCHANGED <<pc, mem, managed, spoiled>>, NoNewPlain
  PROVE  StartInv'
<1>1. NonePlain => NonePlain'
  BY DEF NonePlain, NoNewPlain
<1>2. ~Plain(managed)' /\ managed' \notin Fresh'
  BY UpPids DEF StartInv, NoNewPlain, DeskTyped, AppsTyped, Plain, Up
<1>3. ASSUME NEW o \in Tasks PROVE Starting(o)' <=> Starting(o)
  BY DEF Starting
<1> QED BY <1>1, <1>2, <1>3, AloneKept DEF StartInv

\* and what is said of the lock and of launches.
LEMMA TasksFrame ==
  ASSUME UNCHANGED <<pc, mem, restored, store, work>>
  PROVE  (LaunchInv => LaunchInv') /\ (LockInv => LockInv')
BY DEF LaunchInv, LaunchClause, LaunchRestores, LockInv, LockHeld, LockClause, NoLock, store

\* Apps that stay who they are.
LEMMA FlagsSame ==
  ASSUME \A p \in Pids : apps'[p].st = apps[p].st /\ apps'[p].ours = apps[p].ours /\ apps'[p].slipped = apps[p].slipped
  PROVE  NoNewPlain
BY DEF NoNewPlain, Plain, Up, Fresh

\* The steps of scripts keep what is said of the user's apps,
LEMMA ScriptStarts ==
  ASSUME DeskTyped, StartInv, NEW s \in Scripts, ScriptStep(s) \/ ScriptFails(s)
  PROVE  StartInv'
<1>1. UNCHANGED <<pc, mem, managed, spoiled>>
  BY DEF ScriptStep, ScriptFails, Collect, ReadThread, Collected, RestartServer, ServerReady,
     ScriptGone, desk, hist
<1>2. UNCHANGED apps \/ apps' = Restarted(page[s].of)
  BY DEF ScriptStep, ScriptFails, Collect, ReadThread, Collected, RestartServer, ServerReady,
     ScriptGone, desk
<1> QED BY <1>1, <1>2, PlainSame, PlainRestarted, StartFrame

\* and so do the user and the threads.
LEMMA UserStarts ==
  ASSUME DeskTyped, StartInv, ThreadStarts \/ ThreadEnds \/ UserOpens \/ UserQuits
  PROVE  StartInv'
<1>0. AppsTyped
  BY DEF DeskTyped
<1> USE DEF hist
<1>1. CASE ThreadStarts
  <2>1. PICK p \in Up, th \in Threads, blocking \in SUBSET Threads :
          /\ blocking \subseteq {th}
          /\ apps' = [apps EXCEPT ![p].busy = @ \cup blocking, ![p].loaded = @ \cup {th}]
    BY <1>1 DEF ThreadStarts
  <2>2. NoNewPlain
    BY <2>1, <1>0, FlagsSame DEF AppsTyped, Procs
  <2> QED BY <1>1, <2>2, StartFrame DEF ThreadStarts
<1>2. CASE ThreadEnds
  <2>1. PICK p \in Up : \E th \in apps[p].busy : apps' = [apps EXCEPT ![p].busy = @ \ {th}]
    BY <1>2 DEF ThreadEnds
  <2>2. NoNewPlain
    BY <2>1, <1>0, FlagsSame DEF AppsTyped, Procs
  <2> QED BY <1>2, <2>2, StartFrame DEF ThreadEnds
<1>3. CASE UserOpens
  <2> DEFINE slip == \E t \in Tasks : Starting(t)
  <2>1. \A p \in Pids : apps'[p] = IF p = Min(Fresh) THEN UpApp(FALSE, slip) ELSE apps[p]
    BY <1>3, <1>0 DEF UserOpens, AppsTyped
  <2>2. Min(Fresh) \in Fresh /\ UpApp(FALSE, slip).st = "up" /\ (UpApp(FALSE, slip).slipped <=> slip)
    BY <1>3, MinFresh DEF UserOpens, UpApp, NotStarted
  <2>3. \A t \in Tasks : Starting(t)' <=> Starting(t)
    BY <1>3 DEF UserOpens, Starting
  <2>4. CASE slip
    <3>1. NoNewPlain
      <4>1. \A p \in Pids : p # Min(Fresh) => apps'[p].st # "up"
        BY <1>3, <2>1 DEF UserOpens, Up
      <4>2. apps'[Min(Fresh)].slipped
        BY <2>1, <2>2, <2>4, UpPids
      <4>3. \A p \in Pids : ~Plain(p)'
        BY <4>1, <4>2 DEF Plain, Up
      <4>4. Fresh' \subseteq Fresh
        BY <2>1, <2>2 DEF Fresh
      <4> QED BY <4>3, <4>4 DEF NoNewPlain
    <3> QED BY <1>3, <3>1, StartFrame DEF UserOpens
  <2>5. CASE ~slip
    <3>1. managed' = managed /\ managed # Min(Fresh) /\ managed \in Pids \cup {NoPid}
      BY <1>3, <2>2, <1>0 DEF UserOpens, StartInv, AppsTyped
    <3>2. ~Plain(managed)' /\ managed' \notin Fresh'
      BY <3>1, <2>1, UpPids DEF StartInv, Plain, Up, Fresh
    <3>3. PlainAlone'
      BY <1>3, <2>1, <2>2 DEF UserOpens, PlainAlone, Plain, Up
    <3> QED BY <1>3, <2>3, <2>5, <3>2, <3>3 DEF UserOpens, StartInv
  <2> QED BY <2>4, <2>5
<1>4. CASE UserQuits
  BY <1>4, PlainGone, StartFrame DEF UserQuits
<1> QED BY <1>1, <1>2, <1>3, <1>4

\* What a step that is none of a task's leaves of the apps and the pages: an app
\* keeps its account or goes, and a script that waits says no more than before.
LEMMA FollowFrame ==
  ASSUME DeskTyped, PageInv, StartInv, FollowInv, UNCHANGED <<pc, mem, auth, lock, managed, told, work>>,
         \A p \in Pids : \/ p \in Fresh
                         \/ apps'[p].st # "up"
                         \/ apps'[p].st = apps[p].st /\ apps'[p].ours = apps[p].ours /\ apps'[p].acct = apps[p].acct,
         \A t \in Tasks, s \in Scripts : ScriptOf(t, s) =>
            /\ page'[s].of = page[s].of
            /\ page'[s].st \in {"ready", "done"} => /\ page[s].st \in {"ready", "done"}
                                                    /\ apps'[page[s].of].st = "up"
  PROVE  FollowInv'
<1>1. Follows => Follows'
  BY UpPids DEF Follows, Managed, StartInv, Up, Fresh
<1>2. SeenTo => SeenTo'
  BY <1>1 DEF SeenTo, Surfacing
<1>3. Applying => Applying'
  BY DEF Applying
<1>4. ASSUME NEW t \in Tasks PROVE RunsAuth(t)' /\ OfManaged(t)'
  <2>1. CASE pc[t] # "await"
    BY <2>1 DEF RunsAuth, OfManaged
  <2>2. CASE pc[t] = "await"
    <3> DEFINE s == mem[t].script
    <3>1. s \in Scripts /\ ScriptOf(t, s) /\ page'[s].of = page[s].of /\ mem'[t].script = s
      BY <2>2 DEF PageInv, AwaitClause, ScriptOf
    <3>2. OfManaged(t)'
      BY <2>2, <3>1, <1>2 DEF FollowInv, OfManaged
    <3>3. CASE page'[s].st \in {"ready", "done"}
      <4>1. page[s].st \in {"ready", "done"} /\ apps'[page[s].of].st = "up"
        BY <3>1, <3>3
      <4>2. page[s].of \in Up /\ apps[page[s].of].acct = auth
        BY <2>2, <3>1, <4>1 DEF PageInv, PageClause, FollowInv, RunsAuth
      <4>3. apps'[page[s].of].acct = apps[page[s].of].acct
        BY <4>1, <4>2, UpPids DEF Up, Fresh
      <4> QED BY <3>1, <3>2, <4>2, <4>3 DEF RunsAuth
    <3>4. CASE page'[s].st \notin {"ready", "done"}
      BY <3>1, <3>2, <3>4 DEF RunsAuth
    <3> QED BY <3>2, <3>3, <3>4
  <2> QED BY <2>1, <2>2
<1> QED BY <1>2, <1>3, <1>4 DEF FollowInv

\* A script that goes on keeps what the managed app runs if it claims no restart,
LEMMA ScriptFollow ==
  ASSUME DeskTyped, PageInv, StartInv, FollowInv, NEW s \in Scripts, NEW r, Script(s, r), page[s].st # "none",
         UNCHANGED <<pc, mem, auth, lock, managed, told, work, apps>>,
         \/ r = NoPage /\ page[s].by = NoTask
         \/ r.of = page[s].of /\ (r.st \in {"ready", "done"} => page[s].st \in {"ready", "done"})
  PROVE  FollowInv'
<1>1. page'[s] = r /\ (\A q \in Scripts \ {s} : page'[q] = page[q]) /\ NoTask \notin Tasks
  BY DesktopAssumption DEF Script, DeskTyped, PageTyped
<1>2. ASSUME NEW t \in Tasks, NEW q \in Scripts, ScriptOf(t, q)
      PROVE  /\ page'[q].of = page[q].of
             /\ page'[q].st \in {"ready", "done"} => /\ page[q].st \in {"ready", "done"}
                                                     /\ apps'[page[q].of].st = "up"
  <2>1. page[q].st # "none" /\ page[q].by = t
    BY <1>2 DEF PageInv, PageClause, AwaitClause, ScriptOf
  <2>2. page[q].st # "lost" => apps[page[q].of].st = "up"
    BY <2>1 DEF PageInv, PageClause, Up
  <2>3. CASE q = s
    BY <2>1, <2>2, <2>3, <1>1
  <2>4. CASE q # s
    BY <2>1, <2>2, <2>4, <1>1
  <2> QED BY <2>3, <2>4
<1> QED BY <1>2, FollowFrame

\* and every step of a script keeps it,
LEMMA ScriptFollows ==
  ASSUME DeskTyped, PageInv, StartInv, FollowInv, NEW s \in Scripts, ScriptStep(s) \/ ScriptFails(s)
  PROVE  FollowInv'
<1>0. page[s] \in Pages /\ PageTyped /\ PageClause(s)
  BY DEF DeskTyped, PageTyped, PageInv
<1>a. ASSUME NEW r, Script(s, r), page[s].st # "none", UNCHANGED <<pc, mem, auth, lock, managed, told, work, apps>>,
             \/ r = NoPage /\ page[s].by = NoTask
             \/ r.of = page[s].of /\ (r.st \in {"ready", "done"} => page[s].st \in {"ready", "done"})
      PROVE  FollowInv'
  BY <1>a, ScriptFollow
<1> USE DEF store, desk, hist
<1>1. CASE Collect(s)
  <2> DEFINE r == [page[s] EXCEPT !.st = IF @ = "first" THEN "read1" ELSE "read", !.left = apps[page[s].of].loaded,
                             !.found = FALSE, !.long = apps[page[s].of].busy]
  <2>1. r.of = page[s].of /\ r.st \in {"read1", "read"} /\ Script(s, r)
    BY <1>0, <1>1 DEF Pages, Collect
  <2> HIDE DEF r
  <2> QED BY <2>1, <1>1, <1>a DEF Collect
<1>2. CASE ReadThread(s)
  <2>1. PICK th \in page[s].left :
          Script(s, [page[s] EXCEPT !.left = @ \ {th}, !.found = @ \/ th \in apps[page[s].of].busy])
    BY <1>2 DEF ReadThread
  <2> DEFINE r == [page[s] EXCEPT !.left = @ \ {th}, !.found = @ \/ th \in apps[page[s].of].busy]
  <2>2. r.st = page[s].st /\ r.of = page[s].of /\ Script(s, r)
    BY <1>0, <2>1 DEF Pages
  <2> HIDE DEF r
  <2> QED BY <2>2, <1>2, <1>a DEF ReadThread
<1>3. CASE Collected(s)
  <2> DEFINE r == [page[s] EXCEPT !.st = IF page[s].found THEN "wait" ELSE "restart"]
  <2>1. r.of = page[s].of /\ r.st \in {"wait", "restart"} /\ Script(s, r)
    BY <1>0, <1>3 DEF Pages, Collected
  <2> HIDE DEF r
  <2> QED BY <2>1, <1>3, <1>a DEF Collected
<1>4. ASSUME NEW st \in {"done", "failed"}, Script(s, [page[s] EXCEPT !.st = st]), page[s].st # "none",
             st = "done" => page[s].st = "ready", UNCHANGED <<pc, mem, auth, lock, managed, told, work, apps>>
      PROVE  FollowInv'
  <2> DEFINE r == [page[s] EXCEPT !.st = st]
  <2>1. r.st = st /\ r.of = page[s].of /\ Script(s, r)
    BY <1>0, <1>4 DEF Pages
  <2> HIDE DEF r
  <2> QED BY <2>1, <1>4, <1>a
<1>5. ASSUME Script(s, NoPage), page[s].by = NoTask, page[s].st # "none",
             UNCHANGED <<pc, mem, auth, lock, managed, told, work, apps>>
      PROVE  FollowInv'
  BY <1>5, <1>a
<1>6. CASE ScriptFails(s)
  BY <1>6, <1>4, <1>5 DEF ScriptFails
<1>7. CASE ServerReady(s)
  <2>1. \/ Script(s, NoPage) /\ page[s].by = NoTask
        \/ \E st \in {"done", "failed"} : Script(s, [page[s] EXCEPT !.st = st])
    BY <1>7 DEF ServerReady
  <2> QED BY <2>1, <1>7, <1>4, <1>5 DEF ServerReady
<1>8. CASE ScriptGone(s)
  BY <1>8, <1>5 DEF ScriptGone
<1>9. CASE RestartServer(s)
  <2> DEFINE p == page[s].of
  <2>0. p \in Pids /\ page[s].st = "restart" /\ apps' = Restarted(p) /\ page' = [Idle(p) EXCEPT ![s].st = "ready"]
        /\ UNCHANGED <<pc, mem, auth, lock, managed, told, work>>
    BY <1>9, <1>0 DEF RestartServer, PageClause
  <2>1. Idle(p) \in [Scripts -> Pages]
    BY <1>0, IdleTyped
  <2>2. ASSUME NEW q \in Scripts
        PROVE  page'[q].of = page[q].of /\ page'[q].st = IF q = s THEN "ready" ELSE page[q].st
    <3>1. page[q] \in Pages /\ Idle(p)[q] \in Pages
          /\ Idle(p)[q] = IF page[q].of = p THEN [page[q] EXCEPT !.long = {}] ELSE page[q]
      BY <1>0, <2>1 DEF PageTyped, Idle
    <3>2. Idle(p)[q].of = page[q].of /\ Idle(p)[q].st = page[q].st
      BY <3>1 DEF Pages
    <3>3. page'[q] = IF q = s THEN [Idle(p)[q] EXCEPT !.st = "ready"] ELSE Idle(p)[q]
      BY <2>0, <2>1
    <3> QED BY <3>1, <3>2, <3>3 DEF Pages
  <2>3. (\A o \in Tasks : RunsAuth(o)') /\ (Follows => Follows')
    BY <2>0, <2>2, RestartedFollows
  <2>4. SeenTo => SeenTo'
    BY <2>0, <2>3 DEF SeenTo, Surfacing
  <2>5. Applying => Applying'
    BY <2>0 DEF Applying
  <2>6. ASSUME NEW o \in Tasks PROVE OfManaged(o)'
    BY <2>0, <2>2, <2>4 DEF FollowInv, OfManaged, PageInv, AwaitClause
  <2> QED BY <2>3, <2>4, <2>5, <2>6 DEF FollowInv
<1> QED BY <1>1, <1>2, <1>3, <1>6, <1>7, <1>8, <1>9 DEF ScriptStep

\* as do the user and the threads.
LEMMA UserFollows ==
  ASSUME DeskTyped, PageInv, StartInv, FollowInv, ThreadStarts \/ ThreadEnds \/ UserOpens \/ UserQuits
  PROVE  FollowInv'
<1>0. AppsTyped /\ PageTyped
  BY DEF DeskTyped
<1>a. ASSUME NEW t \in Tasks, NEW s \in Scripts, ScriptOf(t, s)
      PROVE  /\ page[s].st # "none" /\ page[s] \in Pages
             /\ page[s].st # "lost" => page[s].of \in Up /\ apps[page[s].of].st = "up"
  BY <1>a, <1>0 DEF PageTyped, PageInv, PageClause, AwaitClause, ScriptOf, Up
<1> USE DEF store, hist
<1>1. CASE ThreadStarts
  <2>1. PICK p \in Up, th \in Threads, blocking \in SUBSET Threads :
          /\ blocking \subseteq {th}
          /\ apps' = [apps EXCEPT ![p].busy = @ \cup blocking, ![p].loaded = @ \cup {th}]
    BY <1>1 DEF ThreadStarts
  <2>2. \A q \in Pids : apps'[q].st = apps[q].st /\ apps'[q].ours = apps[q].ours /\ apps'[q].acct = apps[q].acct
    BY <2>1, <1>0 DEF AppsTyped, Procs
  <2>3. UNCHANGED <<pc, mem, auth, lock, managed, told, work, page>>
    BY <1>1 DEF ThreadStarts
  <2> QED BY <2>2, <2>3, <1>a, UpPids, FollowFrame
<1>2. CASE ThreadEnds
  <2>1. PICK p \in Up : \E th \in apps[p].busy :
          /\ apps' = [apps EXCEPT ![p].busy = @ \ {th}]
          /\ page' = [s \in Scripts |-> IF page[s].of = p THEN [page[s] EXCEPT !.long = @ \ {th}] ELSE page[s]]
    BY <1>2 DEF ThreadEnds
  <2>2. \A q \in Pids : apps'[q].st = apps[q].st /\ apps'[q].ours = apps[q].ours /\ apps'[q].acct = apps[q].acct
    BY <2>1, <1>0 DEF AppsTyped, Procs
  <2>3. \A s \in Scripts : page'[s].of = page[s].of /\ page'[s].st = page[s].st
    BY <2>1, <1>0 DEF PageTyped, Pages
  <2>4. UNCHANGED <<pc, mem, auth, lock, managed, told, work>>
    BY <1>2 DEF ThreadEnds
  <2> QED BY <2>2, <2>3, <2>4, <1>a, UpPids, FollowFrame
<1>3. CASE UserOpens
  <2>1. \A q \in Pids : q \notin Fresh => apps'[q] = apps[q]
    BY <1>3, <1>0, MinFresh DEF UserOpens, AppsTyped
  <2>2. UNCHANGED <<pc, mem, auth, lock, managed, told, work, page>>
    BY <1>3 DEF UserOpens
  <2>3. ASSUME NEW t \in Tasks, NEW s \in Scripts, ScriptOf(t, s), page[s].st # "lost"
        PROVE  apps'[page[s].of].st = "up"
    BY <2>1, <2>3, <1>a, UpPids DEF Up, Fresh
  <2> QED BY <2>1, <2>2, <2>3, FollowFrame
<1>4. CASE UserQuits
  <2>1. PICK p \in Up : apps' = Gone({p}) /\ page' = PagesWithout({p})
    BY <1>4 DEF UserQuits
  <2>2. \A q \in Pids : IF q = p THEN apps'[q].st # "up" ELSE apps'[q] = apps[q]
    BY <2>1 DEF Gone, NotStarted
  <2>3. UNCHANGED <<pc, mem, auth, lock, managed, told, work>>
    BY <1>4 DEF UserQuits
  <2>4. ASSUME NEW t \in Tasks, NEW s \in Scripts, ScriptOf(t, s)
        PROVE  /\ page'[s].of = page[s].of
               /\ page'[s].st \in {"ready", "done"} => /\ page[s].st \in {"ready", "done"}
                                                       /\ apps'[page[s].of].st = "up"
    <3>1. page'[s] = IF page[s].of = p THEN [page[s] EXCEPT !.st = "lost"] ELSE page[s]
      BY <2>1, <2>4, <1>a DEF PagesWithout
    <3>2. CASE page[s].of = p
      BY <3>1, <3>2, <2>4, <1>a DEF Pages
    <3>3. CASE page[s].of # p
      BY <3>1, <3>3, <2>2, <2>4, <1>a, UpPids
    <3> QED BY <3>2, <3>3
  <2> QED BY <2>2, <2>3, <2>4, FollowFrame
<1> QED BY <1>1, <1>2, <1>3, <1>4

-----------------------------------------------------------------------------
\* The inductive invariant of the managed Desktop.
DeskIInv == DeskTyped /\ LockInv /\ PageInv /\ FollowInv /\ StartInv /\ LaunchInv

\* It holds initially.
LEMMA DeskInits == DeskInit => DeskIInv
<1> SUFFICES ASSUME DeskInit PROVE DeskIInv
  OBVIOUS
<1>1. PICK start \in work.desktop :
        /\ apps = [p \in Pids |-> IF start = "none" \/ p # Min(Pids) THEN NotStarted ELSE UpApp(start = "ours", FALSE)]
        /\ managed = IF start = "ours" THEN Min(Pids) ELSE NoPid
  BY DEF DeskInit
<1>2. Min(Pids) \in Pids /\ NoPid \notin Pids /\ NoTask \notin Tasks
  <2>1. Pids \in SUBSET Int /\ IsFiniteSet(Pids) /\ Pids # {}
    BY DesktopAssumption
  <2> QED BY <2>1, PidsFinite, DesktopAssumption, FiniteBounded DEF Min, Bounded
<1>3. work \in Works /\ auth \in Auths /\ lock = NoTask
  BY DesktopAssumption DEF DeskInit, Auths
<1>4. \A p \in Pids : apps[p] = IF start = "none" \/ p # Min(Pids) THEN NotStarted ELSE UpApp(start = "ours", FALSE)
  BY <1>1
<1>5. /\ NotStarted \in Procs /\ UpApp(start = "ours", FALSE) \in Procs
      /\ NotStarted.busy = {} /\ NotStarted.loaded = {} /\ NotStarted.st = "new"
      /\ UpApp(start = "ours", FALSE).busy = {} /\ UpApp(start = "ours", FALSE).loaded = {}
      /\ UpApp(start = "ours", FALSE).acct = auth /\ UpApp(start = "ours", FALSE).st = "up"
      /\ (UpApp(start = "ours", FALSE).ours <=> start = "ours")
  BY <1>3 DEF NotStarted, UpApp, Procs, Auths
<1>6. /\ \A s \in Scripts : page[s] = NoPage
      /\ \A t \in Tasks : pc[t] = "idle" /\ mem[t] = NoMem
      /\ NoPage \in Pages /\ NoMem \in Mems /\ NoMem.op = "none" /\ NoPage.st = "none" /\ NoMem.switched = FALSE
  BY NoPageTyped DEF DeskInit, NoMem, NoPage, Mems, Reports, Auths
<1>7. DeskTyped
  <2>1. apps \in [Pids -> Procs] /\ managed \in Pids \cup {NoPid}
    BY <1>1, <1>2, <1>5
  <2>2. page \in [Scripts -> Pages] /\ pc \in [Tasks -> Places] /\ mem \in [Tasks -> Mems]
    BY <1>6 DEF DeskInit, Places
  <2> QED BY <1>3, <2>1, <2>2 DEF DeskTyped, StoreTyped, AppsTyped, PageTyped, TasksTyped
<1>8. LockInv
  BY <1>3, <1>6 DEF LockInv, LockHeld, LockClause, Owned, Post, OfRefresh, OfRestart, OfLaunch
<1>9. PageInv
  <2>1. BusyLoaded
    BY <1>4, <1>5 DEF BusyLoaded
  <2> QED BY <1>6, <2>1 DEF DeskInit, PageInv, NoPageOnWin, PageClause, AwaitClause
<1>10. FollowInv
  <2>1. \A p \in Up : apps[p].acct = auth
    BY <1>4, <1>5 DEF Up
  <2> QED BY <2>1, <1>6 DEF FollowInv, SeenTo, Follows, RunsAuth, OfManaged
<1>11. StartInv
  <2>1. ~Plain(managed) /\ managed \notin Fresh
    BY <1>1, <1>2, <1>4, <1>5 DEF Plain, Up, Fresh
  <2>2. PlainAlone
    BY <1>4, <1>5 DEF PlainAlone, Plain, Up
  <2> QED BY <2>1, <2>2, <1>6 DEF DeskInit, StartInv, Starting
<1>12. LaunchInv
  BY <1>6 DEF DeskInit, LaunchInv, LaunchClause, LaunchRestores, Unswitched, OfHandler
<1> QED BY <1>7, <1>8, <1>9, <1>10, <1>11, <1>12 DEF DeskIInv

\* Every step of Desktop keeps it.
LEMMA DeskSteps == DeskIInv /\ DeskNext => DeskIInv'
<1> SUFFICES ASSUME DeskIInv, DeskNext PROVE DeskIInv'
  OBVIOUS
<1>0. DeskTyped /\ LockInv /\ PageInv /\ FollowInv /\ StartInv /\ LaunchInv
  BY DEF DeskIInv
<1>1. ASSUME NEW t \in Tasks, Begin(t) \/ TaskStep(t) \/ SwitchFails(t) \/ GivesUp(t) \/ Interrupted(t)
      PROVE  DeskIInv'
  <2>1. DeskTyped' /\ LockInv' /\ PageInv'
    BY <1>0, <1>1, TaskTyped, TaskLocked, TaskPages
  <2> QED BY <1>0, <1>1, <2>1, TaskStarts, TaskFollows, TaskLaunch DEF DeskIInv
<1>2. ASSUME NEW s \in Scripts, ScriptStep(s) \/ ScriptFails(s)
      PROVE  DeskIInv'
  <2>1. UNCHANGED <<pc, mem, restored, store, work>>
    BY <1>2 DEF ScriptStep, ScriptFails, Collect, ReadThread, Collected, RestartServer,
       ServerReady, ScriptGone, hist
  <2>2. LockInv' /\ LaunchInv'
    BY <1>0, <2>1, TasksFrame
  <2> QED BY <1>0, <1>2, <2>2, ScriptTyped, ScriptPages, ScriptStarts, ScriptFollows DEF DeskIInv
<1>3. ASSUME ThreadStarts \/ ThreadEnds \/ UserOpens \/ UserQuits
      PROVE  DeskIInv'
  <2>1. UNCHANGED <<pc, mem, restored, store, work>>
    BY <1>3 DEF ThreadStarts, ThreadEnds, UserOpens, UserQuits, hist
  <2>2. LockInv' /\ LaunchInv'
    BY <1>0, <2>1, TasksFrame
  <2> QED BY <1>0, <1>3, <2>2, UserTyped, UserPages, UserStarts, UserFollows DEF DeskIInv
<1> QED BY <1>1, <1>2, <1>3 DEF DeskNext

\* So do steps that leave Desktop alone.
LEMMA DeskStutters == DeskIInv /\ UNCHANGED deskVars => DeskIInv'
<1> SUFFICES ASSUME DeskIInv, UNCHANGED deskVars PROVE DeskIInv'
  OBVIOUS
<1>1. UNCHANGED <<auth, lock, apps, managed, page, pc, mem, work, told, disturbed, spoiled, restored>>
  BY DEF deskVars, store, desk, hist
<1>2. DeskTyped' /\ LockInv' /\ LaunchInv'
  BY <1>1, TasksFrame DEF DeskIInv, DeskTyped, StoreTyped, AppsTyped, PageTyped, TasksTyped, store
<1>3. PageInv'
  BY <1>1, AppsKeptPage DEF DeskIInv, AppsKept
<1>4. StartInv'
  BY <1>1, PlainSame, StartFrame DEF DeskIInv
<1>5. FollowInv'
  <2>1. \A t \in Tasks, s \in Scripts : ScriptOf(t, s) /\ page[s].st \in {"ready", "done"}
                                          => apps[page[s].of].st = "up"
    BY DEF DeskIInv, PageInv, PageClause, Up
  <2> QED BY <1>1, <2>1, FollowFrame DEF DeskIInv
<1> QED BY <1>2, <1>3, <1>4, <1>5 DEF DeskIInv

\* It implies what is said of Desktop.
LEMMA DeskImplies == DeskIInv => DesktopInv /\ Undisturbed
<1> SUFFICES ASSUME DeskIInv PROVE DesktopInv /\ Undisturbed
  OBVIOUS
<1>1. DeskTypeOK
  BY DEF DeskIInv, DeskTyped, StoreTyped, AppsTyped, PageTyped, TasksTyped, DeskTypeOK, Auths,
     Procs,
     PageInv, PageClause, AwaitClause, ScriptOf, LockInv, LockHeld, Owned, Post, OfRefresh, OfRestart
<1>2. DesktopFollows
  BY DEF DeskIInv, DeskTyped, StoreTyped, DesktopFollows, AtRest, FollowInv, SeenTo, Surfacing,
     Applying, Follows,
         Post, OfRefresh, OfRestart
<1> QED BY <1>1, <1>2 DEF DeskIInv, DesktopInv, StartInv, UserDesktopSpared, LaunchInv, PageInv,
           Undisturbed

-----------------------------------------------------------------------------
(* The session *)

\* The types of a session.
Sessions == [st : {"off", "start", "lost", "on", "over", "failed"}, mode : {"none", "cli", "desktop"}, timer : BOOLEAN,
             pend : BOOLEAN, reading : BOOLEAN, recent : BOOLEAN, switching : BOOLEAN,
             label : Accounts \cup {NoAccount}]
Hands == [from : Accounts \cup {NoAccount}, empty : BOOLEAN, alone : BOOLEAN]
SessTyped ==
  /\ quota \in [Accounts -> Quotas] /\ w \in Sessions /\ hand \in [Handlers -> Hands]
  /\ clis \subseteq Accounts /\ owed \in BOOLEAN

\* Where a handler is while its switch is applied, while it handles anything, and while
\* no switch of its is under way.
Applied == OfRefresh \cup {"auth", "unlock"}
Acting == OfHandler \cup Applied
Waiting == {"idle", "read", "judge", "hlock", "cool"}
\* Handlers are tasks that only switch, as no other task does; "best" is an account.
HandlersAct == \A h \in Handlers : pc[h] \in Acting \cup {"idle"} /\ mem[h].op \in {"none", "auto"}
OthersAct == \A t \in Tasks \ Handlers : pc[t] \notin OfHandler /\ mem[t].op # "auto"
BestKnown == \A h \in Handlers : pc[h] = "unlock" /\ mem[h].end = "best" => auth \in Accounts
\* What the session says of itself is so, and a signal is not forgotten.
SessInv ==
  /\ HandlersAct /\ OthersAct /\ BestKnown
  /\ w.reading <=> pc[Reader] # "idle"
  /\ w.timer => Live
  /\ w.st = "off" => pc[Signaller] = "idle"
  /\ w.switching <=> \E h \in Handlers : pc[h] \notin Waiting
  /\ owed => w.mode = "desktop" /\ w.st \notin {"off", "start"}
  /\ ActivityRead

\* There are two handlers.
LEMMA HandlersAre == Reader \in Tasks /\ Signaller \in Tasks /\ Reader # Signaller /\ Handlers = {Reader, Signaller}
BY WatchAssumption DEF Handlers

\* What a workload says of a session.
LEMMA WatchWork ==
  ASSUME work \in Works
  PROVE  /\ \A h \in Handlers : work.jobs[h].op = "none"
         /\ work.quotas \subseteq [Accounts -> Quotas] /\ work.eligible \subseteq Accounts
         /\ work.clis \subseteq SUBSET Accounts
BY WatchAssumption

\* A step of a handler of the session, as the managed Desktop sees it.
LEMMA HandlerDesk ==
  ASSUME DeskIInv, NEW h \in Handlers, Apart(h), Shut(h), Bare, UNCHANGED auth, told => told',
         TasksTyped', pc[h] \in OfHandler \cup {"idle", "unlock"}, pc'[h] \in OfHandler \cup {"idle", "auth", "unlock"},
         mem'[h].op # "launch", LockClause(h)', lock' = h => pc'[h] \in Owned, LaunchClause(h)'
  PROVE  DeskIInv'
<1>0. h \in Tasks /\ DeskTyped /\ LockInv /\ PageInv /\ StartInv /\ FollowInv /\ LaunchInv
      /\ UNCHANGED <<apps, managed, page, work, disturbed, spoiled, restored>>
  BY HandlersAre DEF DeskIInv, Bare, desk
<1>1. DeskTyped'
  <2>1. lock' \in Tasks \cup {NoTask}
    BY <1>0 DEF Shut, DeskTyped, StoreTyped
  <2> QED BY <1>0, <2>1 DEF DeskTyped, StoreTyped, AppsTyped, PageTyped
<1>2. LockInv'
  BY <1>0, OthersLocked
<1>3. PageInv'
  BY <1>0, PageFrame DEF AppsKept, OfHandler
<1>4. StartInv'
  <2>1. ~Starting(h)'
    BY DEF Starting, OfHandler
  <2> QED BY <1>0, <2>1, PlainSame, StartKept DEF StartInv
<1>5. FollowInv'
  <2>1. OthersKept
    BY <1>0 DEF OthersKept
  <2>2. pc[h] \notin Post /\ pc[h] \notin {"surface", "await"} /\ pc'[h] # "await"
    BY DEF OfHandler, Post, OfRefresh, OfRestart
  <2> QED BY <1>0, <2>1, <2>2, FollowStep
<1>6. LaunchInv'
  BY <1>0, LaunchKept
<1> QED BY <1>1, <1>2, <1>3, <1>4, <1>5, <1>6 DEF DeskIInv

\* A handler that starts keeps the invariant of Desktop,
LEMMA StartDesk ==
  ASSUME DeskIInv, NEW h \in Handlers, pc[h] = "idle", NEW p \in {"read", "judge"}, Go(h, p),
         Set(h, [NoMem EXCEPT !.op = "auto"]), Bare, UNCHANGED <<store, told>>
  PROVE  DeskIInv'
<1>0. h \in Tasks /\ DeskTyped /\ TasksTyped /\ LockInv
  BY HandlersAre DEF DeskIInv, DeskTyped
<1>1. [NoMem EXCEPT !.op = "auto"] \in Mems
  BY DEF NoMem, Mems, Reports, Auths
<1>2. TasksTyped'
  BY <1>0, <1>1, GoSetTyped DEF Places, OfHandler
<1>3. /\ pc'[h] = p /\ mem'[h] = [NoMem EXCEPT !.op = "auto"] /\ mem'[h].op = "auto" /\ ~mem'[h].switched
      /\ \A o \in Tasks \ {h} : pc'[o] = pc[o] /\ mem'[o] = mem[o]
  BY <1>0 DEF Go, Set, TasksTyped, NoMem
<1>4. Apart(h) /\ Shut(h)
  BY <1>3 DEF Apart, Shut, Bare, store
<1>5. LockClause(h)' /\ LaunchClause(h)'
  BY <1>3 DEF LockClause, LaunchClause, Owned, Post, OfRefresh, OfRestart, OfLaunch
<1>6. lock' # h
  <2>1. pc[h] \notin Owned \cup Post /\ h # NoTask
    BY <1>0, DesktopAssumption DEF Owned, Post, OfRefresh, OfRestart
  <2> QED BY <1>0, <2>1 DEF store, LockInv, LockHeld
<1> QED BY <1>2, <1>3, <1>4, <1>5, <1>6, HandlerDesk DEF OfHandler, store

\* and so does one that ends.
LEMMA FinishDesk ==
  ASSUME DeskIInv, NEW h \in Handlers, pc[h] \in OfHandler \cup {"unlock"}, Go(h, "idle"), Set(h, NoMem), Bare,
         UNCHANGED <<auth, told>>, (lock' = lock /\ lock # h) \/ (lock = h /\ lock' = NoTask)
  PROVE  DeskIInv'
<1>0. h \in Tasks /\ DeskTyped /\ TasksTyped /\ LockInv /\ NoTask \notin Tasks
  BY HandlersAre, DesktopAssumption DEF DeskIInv, DeskTyped
<1>1. NoMem \in Mems
  BY DEF NoMem, Mems, Reports, Auths
<1>2. TasksTyped'
  BY <1>0, <1>1, GoSetTyped DEF Places
<1>3. /\ pc'[h] = "idle" /\ mem'[h].op = "none" /\ ~mem'[h].switched
      /\ \A o \in Tasks \ {h} : pc'[o] = pc[o] /\ mem'[o] = mem[o]
  BY <1>0 DEF Go, Set, TasksTyped, NoMem
<1>4. Apart(h) /\ Shut(h) /\ lock' # h
  BY <1>0, <1>3 DEF Apart, Shut, Bare
<1>5. LockClause(h)' /\ LaunchClause(h)'
  BY <1>3 DEF LockClause, LaunchClause, Owned, Post, OfRefresh, OfRestart, OfLaunch
<1> QED BY <1>2, <1>3, <1>4, <1>5, HandlerDesk

\* A pick is one of the candidates.
LEMMA PicksOf ==
  ASSUME NEW cs, NEW a \in Picks(cs)
  PROVE  a \in cs
BY DEF Picks, Unbeaten

\* A handler that switches holds the lock, and one before that does not.
LEMMA HandlersHold ==
  ASSUME DeskIInv, HandlersAct, NEW h \in Handlers
  PROVE  /\ pc[h] \in {"cool", "select"} \cup Applied => lock = h
         /\ pc[h] \in {"read", "judge", "hlock"} => lock # h
<1>0. h \in Tasks /\ LockClause(h) /\ LockHeld /\ h # NoTask /\ mem[h].op # "launch"
  BY HandlersAre, DesktopAssumption DEF DeskIInv, LockInv, HandlersAct
<1>1. pc[h] \in {"cool", "select"} \cup Applied => pc[h] \in Owned \cup Post
  BY DEF Applied, Owned, Post, OfRefresh
<1>2. pc[h] \in {"read", "judge", "hlock"} => pc[h] \notin Owned \cup Post
  BY DEF Owned, Post, OfRefresh, OfRestart
<1> QED BY <1>0, <1>1, <1>2 DEF LockHeld, LockClause, NoLock

\* Every step of a handler keeps the invariant of Desktop,
LEMMA HandlerStepDesk ==
  ASSUME DeskIInv, SessTyped, SessInv, NEW h \in Handlers, HandlerStep(h)
  PROVE  DeskIInv'
<1>0. /\ h \in Tasks /\ DeskTyped /\ TasksTyped /\ mem[h] \in Mems /\ LockClause(h) /\ LaunchClause(h)
      /\ NoTask \notin Tasks /\ lock \in Tasks \cup {NoTask} /\ mem[h].op \in {"none", "auto"}
  BY HandlersAre, DesktopAssumption DEF DeskIInv, DeskTyped, StoreTyped, TasksTyped, LockInv,
     LaunchInv, SessInv, HandlersAct
<1>1. /\ pc[h] \in {"cool", "select"} \cup Applied => lock = h
      /\ pc[h] \in {"read", "judge", "hlock"} => lock # h
  BY HandlersHold DEF SessInv
<1>a. ASSUME NEW s, NEW threw, Finish(h, s, threw), pc[h] \in OfHandler \cup {"unlock"}, Bare, UNCHANGED <<auth, told>>,
             (lock' = lock /\ lock # h) \/ (lock = h /\ lock' = NoTask)
      PROVE  DeskIInv'
  BY <1>a, FinishDesk DEF Finish
<1>b. ASSUME NEW p \in {"judge", "hlock", "cool", "select"}, Go(h, p), pc[h] \in OfHandler, UNCHANGED <<mem, auth, told>>, Bare,
             (lock' = lock /\ (lock = h => p = "select")) \/ (lock = NoTask /\ lock' = h /\ p = "cool"),
             p = "select" => lock = h, p = "cool" => lock' = h
      PROVE  DeskIInv'
  <2>1. pc'[h] = p /\ \A o \in Tasks \ {h} : pc'[o] = pc[o] /\ mem'[o] = mem[o]
    BY <1>0, <1>b, GoApart
  <2>2. TasksTyped'
    BY <1>0, <1>b, GoTyped DEF Places, OfHandler
  <2>3. Apart(h) /\ Shut(h)
    BY <1>b, <2>1 DEF Apart, Shut, Bare
  <2>4. mem[h].op = "auto"
    BY <1>0, <1>b DEF LockClause, OfHandler
  <2>5. LockClause(h)' /\ LaunchClause(h)' /\ (lock' = h => pc'[h] \in Owned)
    BY <1>0, <1>b, <2>1, <2>4 DEF LockClause, LaunchClause, Owned, Post, OfRefresh, OfRestart,
       OfLaunch, Unswitched, OfHandler
  <2> QED BY <1>b, <2>1, <2>2, <2>3, <2>4, <2>5, HandlerDesk DEF OfHandler
<1> USE DEF At, store
<1>2. CASE ReadQuota(h)
  <2>1. CASE Go(h, "judge") /\ UNCHANGED mem
    BY <1>2, <2>1, <1>1, <1>b DEF ReadQuota, OfHandler
  <2>2. CASE Finish(h, w, FALSE)
    BY <1>2, <2>2, <1>1, <1>a DEF ReadQuota, OfHandler
  <2> QED BY <1>2, <2>1, <2>2 DEF ReadQuota
<1>3. CASE Judge(h)
  <2>1. CASE Go(h, "hlock") /\ UNCHANGED mem
    BY <1>3, <2>1, <1>1, <1>b DEF Judge, OfHandler
  <2>2. CASE Finish(h, w, FALSE)
    BY <1>3, <2>2, <1>1, <1>a DEF Judge, OfHandler
  <2> QED BY <1>3, <2>1, <2>2 DEF Judge
<1>4. CASE LockForAuto(h)
  <2>1. CASE lock = NoTask
    BY <1>4, <2>1, <1>0, <1>b DEF LockForAuto, OfHandler
  <2>2. CASE lock # NoTask
    BY <1>4, <2>2, <1>1, <1>a DEF LockForAuto, OfHandler
  <2> QED BY <2>1, <2>2
<1>5. CASE Cool(h)
  <2>1. CASE w.switching \/ w.recent
    BY <1>5, <2>1, <1>1, <1>a DEF Cool, OfHandler
  <2>2. CASE ~(w.switching \/ w.recent)
    BY <1>5, <2>2, <1>0, <1>1, <1>b DEF Cool, OfHandler
  <2> QED BY <2>1, <2>2
<1>6. CASE Select(h)
  <2>0. pc[h] = "select" /\ lock = h /\ Bare /\ UNCHANGED <<auth, lock>> /\ mem[h].op = "auto"
    BY <1>6, <1>0, <1>1 DEF Select, LockClause
  <2>1. CASE Ends(h, "threw") \/ Ends(h, "best")
    <3>1. PICK r \in {"threw", "best"} : Ends(h, r)
      BY <2>1
    <3>2. TasksTyped'
      BY <1>0, <3>1, EndsTyped DEF Reports
    <3>3. /\ \A o \in Tasks : o # h => pc'[o] = pc[o] /\ mem'[o] = mem[o]
          /\ pc'[h] = "unlock" /\ mem'[h].op = "auto"
      <4>1. /\ \A o \in Tasks \ {h} : pc'[o] = pc[o] /\ mem'[o] = mem[o]
            /\ pc'[h] = "unlock" /\ mem'[h] = [mem[h] EXCEPT !.end = r, !.script = NoScript]
        BY <1>0, <2>0, <3>1, EndsApart
      <4> QED BY <1>0, <2>0, <4>1 DEF Mems
    <3>4. Apart(h) /\ Shut(h) /\ (told => told')
      BY <2>0, <3>1, <3>3 DEF Apart, Shut, Bare, Ends
    <3>5. LockClause(h)' /\ LaunchClause(h)'
      BY <1>0, <2>0, <3>1, <3>3, EndsLaunch DEF LockClause, Owned, Post, OfRefresh, OfRestart,
         OfLaunch
    <3> QED BY <2>0, <3>2, <3>3, <3>4, <3>5, HandlerDesk DEF OfHandler, Owned
  <2>2. CASE \E a \in Accounts : Set(h, [mem[h] EXCEPT !.to = a]) /\ Go(h, "auth") /\ UNCHANGED told
    <3>1. PICK a \in Accounts : Set(h, [mem[h] EXCEPT !.to = a]) /\ Go(h, "auth") /\ UNCHANGED told
      BY <2>2
    <3>2. [mem[h] EXCEPT !.to = a] \in Mems
      BY <1>0 DEF Mems
    <3>3. TasksTyped'
      BY <1>0, <3>1, <3>2, GoSetTyped DEF Places, Owned
    <3>4. /\ pc'[h] = "auth" /\ mem'[h] = [mem[h] EXCEPT !.to = a]
          /\ \A o \in Tasks : o # h => pc'[o] = pc[o] /\ mem'[o] = mem[o]
      BY <1>0, <3>1 DEF Go, Set, TasksTyped
    <3>5. mem'[h].op = "auto" /\ mem'[h].to = a /\ mem'[h].switched = mem[h].switched
      BY <1>0, <2>0, <3>4 DEF Mems
    <3>6. Apart(h) /\ Shut(h)
      BY <2>0, <3>4 DEF Apart, Shut, Bare
    <3>7. LockClause(h)' /\ LaunchClause(h)'
      BY <1>0, <2>0, <3>4, <3>5 DEF LockClause, LaunchClause, Owned, Post, OfRefresh, OfRestart,
         OfLaunch, Unswitched, OfHandler
    <3> QED BY <2>0, <3>1, <3>3, <3>4, <3>5, <3>6, <3>7, HandlerDesk DEF OfHandler, Owned
  <2>3. work.eligible \subseteq Accounts
    BY <1>0, WatchWork DEF DeskTyped, StoreTyped
  <2> QED BY <1>6, <2>1, <2>2, <2>3, PicksOf DEF Select
<1>7. CASE Release(h)
  BY <1>7, <1>1, <1>a DEF Release, Applied
<1> QED BY <1>2, <1>3, <1>4, <1>5, <1>6, <1>7 DEF HandlerStep

\* and so do the other steps of the session.
LEMMA SessionDesk ==
  ASSUME DeskIInv, SessionStep
  PROVE  DeskIInv'
<1>0. Reader \in Handlers /\ Signaller \in Handlers
  BY HandlersAre
<1>1. ASSUME UNCHANGED deskVars PROVE DeskIInv'
  BY <1>1, DeskStutters
<1>2. CASE StartSession
  <2>1. CASE StartReading(Reader)
    BY <1>2, <2>1, <1>0, StartDesk DEF StartSession, StartReading
  <2>2. CASE UNCHANGED <<pc, mem>>
    BY <1>2, <2>2, <1>1 DEF StartSession, Bare, deskVars, hist
  <2> QED BY <1>2, <2>1, <2>2 DEF StartSession
<1>3. CASE TimerFires
  BY <1>3, <1>0, StartDesk DEF TimerFires, StartReading
<1>4. CASE Poll
  BY <1>4, <1>0, StartDesk DEF Poll, StartReading
<1>5. CASE Signal
  BY <1>5, <1>0, StartDesk DEF Signal, Go
<1>6. CASE Connect \/ Disconnect \/ IdleFires \/ Activity \/ Cooled \/ Stop
  BY <1>6, <1>1 DEF Connect, Disconnect, IdleFires, Activity, Cooled, Stop
<1> QED BY <1>2, <1>3, <1>4, <1>5, <1>6 DEF SessionStep

\* What the end of an operation leaves of it.
LEMMA EndsMoves ==
  ASSUME DeskTyped, NEW t \in Tasks, NEW r, Ends(t, r)
  PROVE  /\ pc'[t] = IF lock = t THEN "unlock" ELSE "end"
         /\ mem'[t].op = mem[t].op /\ mem'[t].to = mem[t].to /\ mem'[t].end = r
<1>1. mem[t] \in Mems /\ mem'[t] = [mem[t] EXCEPT !.end = r, !.script = NoScript]
      /\ pc'[t] = IF lock = t THEN "unlock" ELSE "end"
  BY EndsApart DEF DeskTyped, TasksTyped
<1> QED BY <1>1 DEF Mems

\* A step of a task neither begins it nor makes it another operation.
Moved(t) ==
  /\ mem'[t].op = mem[t].op /\ mem'[t].to = mem[t].to
  /\ pc[t] \notin OfHandler \cup {"idle"} /\ pc'[t] \notin OfHandler \cup {"idle"}
  /\ pc'[t] = "end" => lock # t \/ mem[t].op \in {"switch", "launch"}
  /\ pc'[t] = "auth" => pc[t] = "lock"
  /\ lock = t /\ pc[t] # "unlock" => lock' = t

\* No step of a task does so, except for its begin.
LEMMA TaskMoves ==
  ASSUME DeskTyped, LockInv, NEW t \in Tasks, TaskStep(t) \/ SwitchFails(t) \/ GivesUp(t) \/ Interrupted(t)
  PROVE  Moved(t)
<1>0. TasksTyped /\ mem[t] \in Mems /\ LockClause(t)
  BY DEF DeskTyped, TasksTyped, LockInv
<1>a. ASSUME NEW r, Ends(t, r), pc[t] \notin OfHandler \cup {"idle"}, UNCHANGED lock PROVE Moved(t)
  BY <1>a, EndsMoves DEF Moved, OfHandler
<1>b. ASSUME NEW p, Go(t, p), UNCHANGED mem, pc[t] \notin OfHandler \cup {"idle"}, p \notin OfHandler \cup {"idle", "end", "auth"},
             UNCHANGED lock
      PROVE  Moved(t)
  BY <1>0, <1>b, GoApart DEF Moved
<1> USE DEF At, store
<1>1. CASE TakeLock(t)
  <2>1. CASE lock = NoTask
    BY <1>1, <2>1, <1>0, GoApart, DesktopAssumption DEF TakeLock, Moved, OfHandler
  <2>2. CASE lock # NoTask
    BY <1>1, <2>2, <1>a DEF TakeLock, OfHandler
  <2> QED BY <2>1, <2>2
<1>2. CASE SwitchAuth(t)
  <2>1. CASE \E r : Ends(t, r)
    BY <1>2, <2>1, <1>a DEF SwitchAuth, OfHandler
  <2>2. CASE Go(t, "open") /\ Set(t, [mem[t] EXCEPT !.before = auth])
    <3>1. mem'[t] = [mem[t] EXCEPT !.before = auth] /\ pc'[t] = "open"
      BY <2>2, <1>0 DEF Set, Go, TasksTyped
    <3> QED BY <1>2, <3>1, <1>0 DEF SwitchAuth, Moved, Mems, OfHandler
  <2>3. CASE /\ Set(t, [mem[t] EXCEPT !.before = auth, !.backup = (auth # NoAccount), !.switched = TRUE])
             /\ Go(t, AfterAuth(t))
    <3>1. /\ mem'[t] = [mem[t] EXCEPT !.before = auth, !.backup = (auth # NoAccount), !.switched = TRUE]
          /\ pc'[t] \in {"skip", "refresh", "open"}
      BY <2>3, <1>0 DEF Set, Go, TasksTyped, AfterAuth
    <3>2. mem'[t].op = mem[t].op /\ mem'[t].to = mem[t].to
      BY <3>1, <1>0 DEF Mems
    <3> QED BY <1>2, <3>1, <3>2 DEF SwitchAuth, Moved, OfHandler
  <2> QED BY <1>2, <2>1, <2>2, <2>3 DEF SwitchAuth
<1>3. CASE SwitchFails(t)
  BY <1>3, <1>a DEF SwitchFails, OfHandler
<1>4. CASE SkipRefresh(t)
  BY <1>4, <1>a, <1>b DEF SkipRefresh, OfHandler
<1>5. CASE Refresh(t)
  <2>1. CASE Inject(t)
    <3>1. PICK s \in Scripts : Set(t, [mem[t] EXCEPT !.script = s]) /\ Go(t, "await")
      BY <2>1 DEF Inject
    <3>2. mem'[t] = [mem[t] EXCEPT !.script = s] /\ pc'[t] = "await"
      BY <3>1, <1>0 DEF Set, Go, TasksTyped
    <3> QED BY <1>5, <3>2, <1>0 DEF Refresh, Moved, Mems, OfHandler
  <2>2. CASE ~Inject(t)
    BY <1>5, <2>2, <1>b DEF Refresh, OfHandler
  <2> QED BY <2>1, <2>2
<1>6. CASE Answered(t)
  BY <1>6, <1>a, <1>b DEF Answered, OfHandler
<1>7. CASE GivesUp(t)
  BY <1>7, <1>b DEF GivesUp, OfHandler
<1>8. CASE Interrupted(t)
  BY <1>8, <1>a DEF Interrupted, OfHandler
<1>9. CASE Fallback(t)
  BY <1>9, <1>a DEF Fallback, OfHandler
<1>10. CASE ListOthers(t)
  BY <1>10, <1>a DEF ListOthers, OfHandler
<1>11. CASE Unlock(t)
  BY <1>11, <1>0, GoApart DEF Unlock, Moved, OfHandler
<1>12. CASE RestartLook(t)
  BY <1>12, <1>a, <1>b DEF RestartLook, OfHandler
<1>13. CASE RestartCheck(t)
  <2>1. CASE \E r : Ends(t, r)
    BY <1>13, <2>1, <1>a DEF RestartCheck, OfHandler
  <2>2. CASE ~\E r : Ends(t, r)
    <3>1. Set(t, [mem[t] EXCEPT !.seen = Up]) /\ Go(t, IF Up = {} THEN "reopen" ELSE "requit")
      BY <1>13, <2>2 DEF RestartCheck
    <3>2. mem'[t] = [mem[t] EXCEPT !.seen = Up] /\ pc'[t] \in {"reopen", "requit"}
      BY <3>1, <1>0 DEF Set, Go, TasksTyped
    <3> QED BY <1>13, <3>2, <1>0 DEF RestartCheck, Moved, Mems, OfHandler
  <2> QED BY <2>1, <2>2
<1>14. CASE RestartQuit(t)
  BY <1>14, <1>a, <1>b DEF RestartQuit, OfHandler
<1>15. CASE RestartOpen(t)
  BY <1>15, <1>a, <1>b DEF RestartOpen, OfHandler
<1>16. CASE RestartTrack(t)
  BY <1>16, <1>a DEF RestartTrack, OfHandler
<1>17. CASE Look(t)
  <2>1. mem'[t] = [mem[t] EXCEPT !.seen = Up] /\ pc'[t] \in {"open", "lock", "confirm"}
    BY <1>17, <1>0 DEF Look, Set, Go, TasksTyped, NextOfLaunch
  <2> QED BY <1>17, <2>1, <1>0 DEF Look, Moved, Mems, OfHandler
<1>18. CASE Confirm(t)
  BY <1>18, <1>a, <1>b DEF Confirm, OfHandler
<1>19. CASE Quit(t)
  BY <1>19, <1>a, <1>b DEF Quit, OfHandler, NextOfLaunch
<1>20. CASE Open(t)
  BY <1>20, <1>a, <1>b DEF Open, OfHandler
<1>21. CASE Track(t)
  BY <1>21, <1>b DEF Track, OfHandler
<1>22. CASE Surface(t)
  BY <1>22, <1>a DEF Surface, OfHandler
<1>23. CASE Restore(t)
  BY <1>23, <1>a DEF Restore, OfHandler
<1> QED BY <1>1, <1>2, <1>3, <1>4, <1>5, <1>6, <1>7, <1>8, <1>9, <1>10, <1>11, <1>12, <1>13,
           <1>14, <1>15, <1>16, <1>17, <1>18, <1>19, <1>20, <1>21, <1>22, <1>23 DEF TaskStep

\* A handler of the session goes on as a task of Desktop between `auth' and `unlock'.
LEMMA HandlerMoves ==
  ASSUME DeskIInv, HandlersAct, LockInv', DeskTyped', NEW h \in Handlers,
         TaskStep(h) \/ SwitchFails(h) \/ GivesUp(h) \/ Interrupted(h)
  PROVE  /\ pc[h] \in Applied \ {"unlock"} /\ pc'[h] \in Applied \ {"auth"} /\ lock = h /\ lock' = h
         /\ mem[h].op = "auto" /\ mem'[h].op = "auto"
<1>0. /\ h \in Tasks /\ Moved(h) /\ mem[h].op \in {"none", "auto"} /\ pc[h] \in Acting \cup {"idle"}
      /\ LockClause(h) /\ LockClause(h)' /\ pc'[h] \in Places /\ Apart(h) /\ Shut(h)
  BY HandlersAre, TaskMoves, TaskApart DEF DeskIInv, HandlersAct, LockInv, DeskTyped, TasksTyped
<1>1. pc[h] \in Applied /\ mem[h].op = "auto" /\ mem'[h].op = "auto"
  BY <1>0 DEF Moved, Acting, LockClause
<1>2. lock = h
  BY <1>1, HandlersHold
<1>3. pc[h] # "unlock"
  BY <1>1 DEF TaskStep, TakeLock, SwitchAuth, SkipRefresh, Refresh, Answered, Fallback,
     ListOthers, Unlock, RestartLook,
     RestartCheck, RestartQuit, RestartOpen, RestartTrack, Look, Confirm, Quit, Open, Track, Surface, Restore,
     SwitchFails, GivesUp, Interrupted, At
<1>4. pc'[h] # "end"
  BY <1>0, <1>1, <1>2 DEF Moved
<1>5. pc'[h] \in Applied
  BY <1>0, <1>1, <1>4 DEF Moved, LockClause, Places, Owned, OfLaunch, OfRefresh, OfRestart,
     Applied, OfHandler
<1> QED BY <1>0, <1>1, <1>2, <1>3, <1>5 DEF Moved, Applied, OfRefresh, OfRestart

-----------------------------------------------------------------------------
(* Labels, and what the end of a handler leaves of a session *)

\* A sample recorded under the name n is the managed app's, as far as is known.
LabelOk(n) == told \/ auth \notin Accounts \/ n \in {NoAccount, auth}

\* A switch of a handler ends with a label that is.
LEMMA HandlerEnds ==
  ASSUME DeskIInv, HandlersAct, LockInv', DeskTyped', NEW h \in Handlers, UNCHANGED w,
         TaskStep(h) \/ SwitchFails(h) \/ GivesUp(h) \/ Interrupted(h)
  PROVE  /\ pc'[h] = "unlock" => mem'[h].end # "best"
         /\ (pc[h] = "auth" => LabelOk(w.label)) /\ pc'[h] = "unlock" => LabelOk(LabelAfter(h))'
<1> DEFINE Goal == /\ pc'[h] = "unlock" => mem'[h].end # "best"
                   /\ (pc[h] = "auth" => LabelOk(w.label)) /\ pc'[h] = "unlock" => LabelOk(LabelAfter(h))'
<1>0. /\ h \in Tasks /\ DeskTyped /\ TasksTyped /\ pc[h] \in Applied \ {"unlock"} /\ LockClause(h)
      /\ Proxy \notin Accounts
  BY HandlersAre, HandlerMoves, DesktopAssumption DEF DeskIInv, DeskTyped, LockInv
<1>1. /\ pc[h] \in OfRefresh \cup {"auth"}
      /\ pc[h] \in OfRefresh => auth = mem[h].to
  BY <1>0 DEF Applied, LockClause
<1>a. ASSUME NEW r \in Reports \ {"best", "refused", "threw"}, Ends(h, r), UNCHANGED auth,
             pc[h] # "auth" \/ auth = Proxy
      PROVE  Goal
  <2>1. mem'[h].end = r /\ mem'[h].to = mem[h].to
    BY <1>0, <1>a, EndsMoves
  <2>2. mem'[h].end \notin {"best", "refused", "threw"}
    BY <2>1, <1>a
  <2>3. LabelAfter(h)' = mem'[h].to
    BY <2>2 DEF LabelAfter
  <2>4. auth' = auth /\ (auth = mem[h].to \/ auth = Proxy)
    BY <1>1, <1>a
  <2>5. LabelOk(LabelAfter(h))'
    BY <1>0, <2>1, <2>3, <2>4 DEF LabelOk
  <2> QED BY <2>2, <2>5
<1>b. ASSUME Ends(h, "threw") PROVE Goal
  <2>1. mem'[h].end = "threw"
    BY <1>0, <1>b, EndsMoves DEF Reports
  <2>2. told'
    BY <1>b DEF Ends
  <2> QED BY <2>1, <2>2 DEF LabelOk
<1>c. ASSUME Ends(h, "refused"), UNCHANGED auth, pc[h] = "auth" PROVE Goal
  <2>1. mem'[h].end = "refused" /\ told' = told
    BY <1>0, <1>c, EndsMoves DEF Ends
  <2>2. LabelAfter(h)' = w'.label
    BY <2>1 DEF LabelAfter
  <2> QED BY <1>c, <2>1, <2>2 DEF LabelOk
<1>d. ASSUME NEW p, Go(h, p), p # "unlock" PROVE Goal
  BY <1>0, <1>d, GoApart
<1> HIDE DEF Goal
<1>e. ASSUME NEW r \in {"retained", "same", "applied", "elsewhere", "failed", "killed", "other", "restarted", "none"},
             Ends(h, r), UNCHANGED auth, pc[h] # "auth" \/ auth = Proxy
      PROVE  Goal
  BY <1>a, <1>e DEF Reports
<1> USE DEF At, store
<1>2. ASSUME SwitchAuth(h) PROVE Goal
  <2>1. CASE auth = Proxy /\ Ends(h, "retained")
    BY <1>2, <2>1, <1>e DEF SwitchAuth
  <2>2. CASE Go(h, "open") \/ Go(h, AfterAuth(h))
    BY <2>2, <1>d DEF AfterAuth
  <2> QED BY <1>2, <2>1, <2>2 DEF SwitchAuth
<1>3. ASSUME SwitchFails(h) PROVE Goal
  BY <1>3, <1>c DEF SwitchFails
<1>4. ASSUME Refresh(h) PROVE Goal
  BY <1>4, <1>d DEF Refresh, Inject
<1>5. ASSUME Answered(h) PROVE Goal
  BY <1>5, <1>d, <1>e DEF Answered
<1>6. ASSUME GivesUp(h) PROVE Goal
  BY <1>6, <1>d DEF GivesUp
<1>7. ASSUME Interrupted(h) PROVE Goal
  BY <1>7, <1>e DEF Interrupted
<1>8. ASSUME Fallback(h) PROVE Goal
  BY <1>8, <1>e DEF Fallback
<1>9. ASSUME ListOthers(h) PROVE Goal
  BY <1>9, <1>e DEF ListOthers
<1>10. ASSUME RestartLook(h) PROVE Goal
  BY <1>10, <1>d, <1>e DEF RestartLook
<1>11. ASSUME RestartCheck(h) PROVE Goal
  BY <1>11, <1>d, <1>e DEF RestartCheck
<1>12. ASSUME RestartQuit(h) PROVE Goal
  BY <1>12, <1>b, <1>d DEF RestartQuit
<1>13. ASSUME RestartOpen(h) PROVE Goal
  BY <1>13, <1>b, <1>d DEF RestartOpen
<1>14. ASSUME RestartTrack(h) PROVE Goal
  BY <1>14, <1>e DEF RestartTrack
<1>15. ASSUME pc[h] \in {"lock", "skip", "unlock"} \cup OfLaunch PROVE Goal
  BY <1>15, <1>1 DEF OfRefresh, OfRestart, OfLaunch
<1>16. Goal
  BY <1>2, <1>3, <1>4, <1>5, <1>6, <1>7, <1>8, <1>9, <1>10, <1>11, <1>12, <1>13, <1>14, <1>15
  DEF TaskStep, TakeLock, SkipRefresh, Unlock, Look, Confirm, Quit, Open, Track, Surface, Restore, OfLaunch
<1> QED BY <1>16 DEF Goal

\* Steps in which no handler starts or ends keep what the session says of itself.
LEMMA SessFrame ==
  ASSUME SessInv, UNCHANGED <<w, owed>>, HandlersAct', OthersAct', BestKnown',
         \A h \in Handlers : (pc'[h] = "idle" <=> pc[h] = "idle") /\ (pc'[h] \in Waiting <=> pc[h] \in Waiting)
  PROVE  SessInv'
<1>1. (\E h \in Handlers : pc[h] \notin Waiting)' <=> \E h \in Handlers : pc[h] \notin Waiting
  BY HandlersAre
<1>2. ((pc[Reader] # "idle")' <=> pc[Reader] # "idle") /\ ((pc[Signaller] = "idle")' <=> pc[Signaller] = "idle")
  BY HandlersAre
<1> QED BY <1>1, <1>2 DEF SessInv, Live, ActivityRead

\* The places of a handler.
LEMMA AppliedActs == /\ \A p \in Applied : p \in Acting /\ p # "idle" /\ p \notin Waiting
                     /\ \A p \in OfHandler \ {"select"} : p \in Waiting /\ p # "idle" /\ p \in Acting
                     /\ "select" \in Acting /\ "select" \notin Waiting /\ "idle" \in Waiting
BY DEF Applied, Acting, Waiting, OfHandler, OfRefresh, OfRestart

\* Every step of Desktop keeps what the session says of itself.
LEMMA DeskSess ==
  ASSUME DeskIInv, DeskIInv', SessInv, DeskNext, UNCHANGED watchVars
  PROVE  SessInv'
<1>0. /\ DeskTyped /\ LockInv /\ DeskTyped' /\ LockInv' /\ UNCHANGED <<w, owed>> /\ UNCHANGED w /\ HandlersAct /\ OthersAct /\ BestKnown
      /\ TasksTyped /\ work \in Works /\ Handlers \subseteq Tasks
  BY HandlersAre DEF DeskIInv, watchVars, SessInv, DeskTyped, StoreTyped
<1>1. ASSUME UNCHANGED <<pc, mem, auth>> PROVE SessInv'
  BY <1>0, <1>1, SessFrame DEF HandlersAct, OthersAct, BestKnown
<1>2. ASSUME NEW t \in Tasks, Begin(t) PROVE SessInv'
  <2>1. t \notin Handlers /\ work.jobs[t].op \in {"launch", "switch"}
    BY <1>0, <1>2, WatchWork, WorkTyped DEF Begin, Jobs
  <2>2. /\ pc'[t] \in {"look", "lock"} /\ mem'[t].op = work.jobs[t].op
        /\ \A o \in Tasks \ {t} : pc'[o] = pc[o] /\ mem'[o] = mem[o]
    BY <1>0, <1>2 DEF Begin, Go, Set, TasksTyped, NoMem
  <2>3. HandlersAct' /\ OthersAct'
    BY <1>0, <2>1, <2>2 DEF HandlersAct, OthersAct, OfHandler
  <2>4. BestKnown'
    BY <1>0, <1>2, <2>1, <2>2 DEF BestKnown, Begin, store
  <2> QED BY <1>0, <2>1, <2>2, <2>3, <2>4, SessFrame
<1>3. ASSUME NEW t \in Tasks, TaskStep(t) \/ SwitchFails(t) \/ GivesUp(t) \/ Interrupted(t) PROVE SessInv'
  <2>1. Apart(t)
    BY <1>0, <1>3, TaskApart
  <2>2. CASE t \in Handlers
    <3>1. pc[t] \in Applied /\ pc'[t] \in Applied /\ mem'[t].op = "auto"
      BY <1>0, <1>3, <2>2, HandlerMoves
    <3>2. HandlersAct' /\ OthersAct'
      BY <1>0, <2>1, <2>2, <3>1, AppliedActs DEF HandlersAct, OthersAct, Apart
    <3>3. BestKnown'
      <4>1. pc'[t] = "unlock" => mem'[t].end # "best"
        BY <1>0, <1>3, <2>2, HandlerEnds
      <4>2. ASSUME NEW h \in Handlers, h # t PROVE pc'[h] # "unlock"
        BY <1>0, <2>1, <2>2, <3>1, <4>2, HandlersHold DEF Apart, Applied
      <4> QED BY <4>1, <4>2 DEF BestKnown
    <3> QED BY <1>0, <2>1, <3>1, <3>2, <3>3, AppliedActs, SessFrame DEF Apart
  <2>3. CASE t \notin Handlers
    <3>1. Moved(t)
      BY <1>0, <1>3, TaskMoves
    <3>2. HandlersAct' /\ OthersAct'
      BY <1>0, <2>1, <2>3, <3>1 DEF HandlersAct, OthersAct, Apart, Moved
    <3>3. Shut(t)
      BY <1>0, <1>3, TaskApart
    <3>4. BestKnown'
      BY <1>0, <2>1, <2>3, <3>3, HandlersHold DEF BestKnown, Apart, Shut, Applied
    <3> QED BY <1>0, <2>1, <2>3, <3>2, <3>4, SessFrame DEF Apart
  <2> QED BY <2>2, <2>3
<1>4. ASSUME NEW s \in Scripts, ScriptStep(s) \/ ScriptFails(s) PROVE UNCHANGED <<pc, mem, auth>>
  BY <1>4 DEF store, ScriptStep, ScriptFails, Collect, ReadThread, Collected, RestartServer,
     ServerReady, ScriptGone
<1>5. ASSUME ThreadStarts \/ ThreadEnds \/ UserOpens \/ UserQuits PROVE UNCHANGED <<pc, mem, auth>>
  BY <1>5 DEF store, ThreadStarts, ThreadEnds, UserOpens, UserQuits
<1> QED BY <1>1, <1>2, <1>3, <1>4, <1>5 DEF DeskNext

-----------------------------------------------------------------------------
\* What the end of a handler leaves of a session.
LiveSt(s) == s.st \in {"start", "lost", "on"}
WillRead(s) == s.timer \/ (s.reading /\ s.pend)

\* A read that is scheduled comes.
LEMMA ScheduleReadOf ==
  ASSUME NEW s \in Sessions
  PROVE  /\ ScheduleRead(s) \in Sessions
         /\ ScheduleRead(s).st = s.st /\ ScheduleRead(s).mode = s.mode /\ ScheduleRead(s).reading = s.reading
         /\ ScheduleRead(s).switching = s.switching /\ ScheduleRead(s).label = s.label
         /\ WillRead(ScheduleRead(s))
BY DEF ScheduleRead, Sessions, WillRead

\* After a read, one that was asked for comes.
LEMMA AfterReadOf ==
  ASSUME NEW s \in Sessions, s.timer => LiveSt(s)
  PROVE  /\ AfterRead(s) \in Sessions
         /\ AfterRead(s).st = s.st /\ AfterRead(s).mode = s.mode /\ AfterRead(s).reading = FALSE
         /\ AfterRead(s).switching = s.switching /\ AfterRead(s).label = s.label
         /\ AfterRead(s).timer => LiveSt(s)
         /\ WillRead(s) /\ LiveSt(s) /\ s.mode = "desktop" => WillRead(AfterRead(s))
<1>1. CASE s.pend /\ LiveSt(s) /\ s.mode = "desktop"
  <2> DEFINE q == [s EXCEPT !.reading = FALSE]
  <2>1. /\ q \in Sessions /\ q.st = s.st /\ q.mode = s.mode /\ q.reading = FALSE /\ q.switching = s.switching
        /\ q.label = s.label
    BY DEF Sessions
  <2>2. AfterRead(s) = ScheduleRead(q)
    BY <1>1 DEF AfterRead, LiveSt
  <2> HIDE DEF q
  <2> QED BY <1>1, <2>1, <2>2, ScheduleReadOf
<1>2. CASE ~(s.pend /\ LiveSt(s) /\ s.mode = "desktop")
  <2>1. AfterRead(s) = [s EXCEPT !.reading = FALSE, !.pend = FALSE]
    BY <1>2 DEF AfterRead, LiveSt
  <2> QED BY <1>2, <2>1 DEF Sessions, WillRead
<1> QED BY <1>1, <1>2

\* What the session a is after a handler h that made s of it has ended.
EndOf(a, h, s) ==
  /\ a \in Sessions /\ a.mode = s.mode /\ a.switching = s.switching /\ a.label = s.label
  /\ IF h = Reader THEN a.reading = FALSE ELSE a.reading = s.reading
  /\ a.st = s.st \/ (s.st = "start" /\ a.st \in {"lost", "failed"}) \/ (s.st = "on" /\ a.st = "lost")
  /\ a.timer => LiveSt(a)
  /\ WillRead(s) /\ LiveSt(s) /\ s.mode = "desktop" /\ s.st # "start" => WillRead(a)

\* After(h, s, threw) is such a session.
LEMMA AfterOf ==
  ASSUME NEW h \in Handlers, NEW s \in Sessions, s.timer => LiveSt(s), NEW threw \in BOOLEAN
  PROVE  EndOf(After(h, s, threw), h, s)
<1> DEFINE r == IF h = Reader THEN AfterRead(s) ELSE s
<1>1. /\ r \in Sessions /\ r.st = s.st /\ r.mode = s.mode /\ r.switching = s.switching /\ r.label = s.label
      /\ IF h = Reader THEN r.reading = FALSE ELSE r.reading = s.reading
      /\ r.timer => LiveSt(s)
      /\ WillRead(s) /\ LiveSt(s) /\ s.mode = "desktop" => WillRead(r)
  BY AfterReadOf
<1>2. After(h, s, threw) =
        CASE h = Reader /\ s.st = "start" -> [r EXCEPT !.st = IF threw THEN "failed" ELSE "lost", !.timer = @ /\ ~threw]
          [] h = Signaller /\ threw /\ s.st = "on" -> [r EXCEPT !.st = "lost"]
          [] OTHER -> r
  BY DEF After
<1> HIDE DEF r
<1>3. CASE h = Reader /\ s.st = "start"
  <2>1. After(h, s, threw) = [r EXCEPT !.st = IF threw THEN "failed" ELSE "lost", !.timer = @ /\ ~threw]
    BY <1>2, <1>3, HandlersAre
  <2> QED BY <1>1, <1>3, <2>1 DEF Sessions, LiveSt, EndOf
<1>4. CASE ~(h = Reader /\ s.st = "start") /\ h = Signaller /\ threw /\ s.st = "on"
  <2>1. After(h, s, threw) = [r EXCEPT !.st = "lost"]
    BY <1>2, <1>4, HandlersAre
  <2> QED BY <1>1, <1>4, <2>1, HandlersAre DEF Sessions, LiveSt, WillRead, EndOf
<1>5. CASE ~(h = Reader /\ s.st = "start") /\ ~(h = Signaller /\ threw /\ s.st = "on")
  <2>1. After(h, s, threw) = r
    BY <1>2, <1>5
  <2> QED BY <1>1, <1>5, <2>1 DEF LiveSt, EndOf
<1> QED BY <1>3, <1>4, <1>5

-----------------------------------------------------------------------------
\* The initial values have their types,
LEMMA NoHandTyped == NoHand \in Hands /\ NoSession \in Sessions
BY DEF NoHand, Hands, NoSession, Sessions

\* a handler that starts keeps them,
LEMMA StartTyped ==
  ASSUME SessTyped, NEW h \in Handlers, StartReading(h)
  PROVE  hand' \in [Handlers -> Hands]
<1>1. PICK o \in Handlers \ {h} :
        hand' = [hand EXCEPT ![h] = [NoHand EXCEPT !.alone = (pc[o] = "idle")], ![o].alone = FALSE]
  BY DEF StartReading
<1>2. [NoHand EXCEPT !.alone = (pc[o] = "idle")] \in Hands
  BY DEF NoHand, Hands
<1> QED BY <1>1, <1>2 DEF SessTyped, Hands

\* and so does one that ends.
LEMMA FinishTyped ==
  ASSUME SessTyped, NEW h \in Handlers, NEW s \in Sessions, s.timer => LiveSt(s), NEW threw \in BOOLEAN,
         Finish(h, s, threw)
  PROVE  w' \in Sessions /\ hand' \in [Handlers -> Hands]
BY AfterOf, NoHandTyped DEF Finish, SessTyped, EndOf

\* The label after a switch is an account, or none.
LEMMA LabelAfterTyped ==
  ASSUME DeskTyped, SessTyped, NEW h \in Tasks, mem[h].end = "best" => auth \in Accounts
  PROVE  LabelAfter(h) \in Accounts \cup {NoAccount}
BY DEF DeskTyped, StoreTyped, TasksTyped, Mems, SessTyped, Sessions, LabelAfter, Auths

-----------------------------------------------------------------------------
(* What the session says of itself *)

\* Steps that leave the session and the tasks alone.
LEMMA SessStutters ==
  ASSUME SessTyped, SessInv, UNCHANGED <<auth, pc, mem, quota, w, hand, clis, owed>>
  PROVE  SessTyped' /\ SessInv'
<1>1. HandlersAct' /\ OthersAct' /\ BestKnown'
  BY DEF SessInv, HandlersAct, OthersAct, BestKnown
<1> QED BY <1>1, SessFrame DEF SessInv, SessTyped

\* The steps of one handler keep what is said of the places of handlers and tasks.
LEMMA ActKept ==
  ASSUME HandlersAct, OthersAct, BestKnown, UNCHANGED auth, NEW h \in Handlers,
         \A o \in Tasks \ {h} : pc'[o] = pc[o] /\ mem'[o] = mem[o],
         pc'[h] \in Acting \cup {"idle"}, mem'[h].op \in {"none", "auto"},
         pc'[h] = "unlock" /\ mem'[h].end = "best" => auth \in Accounts
  PROVE  HandlersAct' /\ OthersAct' /\ BestKnown'
<1>1. h \in Tasks /\ Handlers \subseteq Tasks
  BY HandlersAre
<1>2. HandlersAct'
  BY <1>1 DEF HandlersAct
<1>3. OthersAct'
  BY <1>1 DEF OthersAct
<1>4. BestKnown'
  BY <1>1 DEF BestKnown
<1> QED BY <1>2, <1>3, <1>4

\* A handler starts, in a session whose state then is the new w.
LEMMA StartSess ==
  ASSUME DeskIInv, SessTyped, SessInv, NEW h \in Handlers, pc[h] = "idle", NEW p \in {"read", "judge"}, Go(h, p),
         Set(h, [NoMem EXCEPT !.op = "auto"]), UNCHANGED <<auth, quota, clis>>, hand' \in [Handlers -> Hands],
         w' \in Sessions, h = Reader => w'.reading, h = Signaller => w'.reading = w.reading,
         w'.timer => LiveSt(w'), w'.st # "off", w'.switching = w.switching,
         owed' => owed /\ w'.mode = "desktop" /\ w'.st # "start" /\ (w'.st \in {"lost", "on"} => WillRead(w')),
         owed' \in BOOLEAN
  PROVE  SessTyped' /\ SessInv'
<1>0. h \in Tasks /\ TasksTyped /\ Reader \in Tasks /\ Signaller \in Tasks /\ Handlers = {Reader, Signaller} /\ Reader # Signaller
  BY HandlersAre DEF DeskIInv, DeskTyped
<1>1. /\ pc'[h] = p /\ mem'[h] = [NoMem EXCEPT !.op = "auto"] /\ mem'[h].op = "auto"
      /\ \A o \in Tasks \ {h} : pc'[o] = pc[o] /\ mem'[o] = mem[o]
  BY <1>0 DEF Go, Set, TasksTyped, NoMem
<1>2. p \in Acting /\ p \in Waiting /\ p \notin {"idle", "unlock"}
  BY DEF Acting, Waiting, OfHandler
<1>3. HandlersAct' /\ OthersAct' /\ BestKnown'
  BY <1>1, <1>2, ActKept DEF SessInv
<1>4. (\E o \in Handlers : pc[o] \notin Waiting)' <=> \E o \in Handlers : pc[o] \notin Waiting
  BY <1>0, <1>1, <1>2 DEF Waiting
<1>5. w'.reading <=> pc'[Reader] # "idle"
  BY <1>0, <1>1, <1>2 DEF SessInv, SessTyped, Sessions
<1>6. SessTyped'
  BY DEF SessTyped
<1> QED BY <1>3, <1>4, <1>5, <1>6 DEF SessInv, Live, LiveSt, WillRead, ActivityRead

\* Every step of the session keeps what it says of itself,
LEMMA SessionSess ==
  ASSUME DeskIInv, SessTyped, SessInv, SessionStep
  PROVE  SessTyped' /\ SessInv'
<1>0. Reader \in Handlers /\ Signaller \in Handlers /\ Handlers = {Reader, Signaller} /\ Reader # Signaller
  BY HandlersAre
<1>a. ASSUME UNCHANGED <<deskVars, quota, hand, clis>>, w' \in Sessions, w'.reading = w.reading,
             w'.timer => LiveSt(w'), w'.st = "off" => w.st = "off", w'.switching = w.switching, w'.mode = w.mode,
             owed' \in BOOLEAN, owed' => w'.mode = "desktop" /\ w'.st \notin {"off", "start"},
             owed' /\ w'.st \in {"lost", "on"} => WillRead(w')
      PROVE  SessTyped' /\ SessInv'
  <2>1. HandlersAct' /\ OthersAct' /\ BestKnown'
    BY <1>a DEF SessInv, HandlersAct, OthersAct, BestKnown, deskVars, store
  <2> QED BY <1>a, <2>1 DEF SessInv, SessTyped, deskVars, store, Live, LiveSt, ActivityRead,
             WillRead
<1>b. /\ w \in Sessions /\ owed \in BOOLEAN /\ (w.timer => LiveSt(w))
      /\ owed => w.mode = "desktop" /\ w.st \notin {"off", "start"} /\ (w.st \in {"lost", "on"} => WillRead(w))
  BY DEF SessTyped, SessInv, Live, LiveSt, ActivityRead, WillRead
<1>1. CASE StartSession
  <2> DEFINE desktop == \E p \in Up : Managed(p)
  <2>0. w.st = "off" /\ pc[Reader] = "idle" /\ ~owed /\ ~w.switching /\ UNCHANGED <<store, quota, clis, owed>> /\ owed' = FALSE
    BY <1>1, <1>0, <1>b DEF StartSession, SessInv, SessTyped, Sessions, Waiting
  <2>1. Label \in Accounts \cup {NoAccount} /\ NoSession \in Sessions
    BY NoHandTyped DEF Label
  <2>2. /\ w' = [NoSession EXCEPT !.st = IF desktop THEN "start" ELSE "on", !.label = Label,
                                  !.mode = IF desktop THEN "desktop" ELSE "cli", !.reading = desktop]
        /\ \/ desktop /\ StartReading(Reader)
           \/ ~desktop /\ UNCHANGED <<pc, mem, hand>>
    BY <1>1 DEF StartSession
  <2>3. /\ w' \in Sessions /\ w'.st \in {"start", "on"} /\ w'.reading = desktop /\ w'.timer = FALSE /\ w'.switching = FALSE
    <3>1. desktop \in BOOLEAN
      OBVIOUS
    <3> HIDE DEF desktop
    <3> QED BY <2>1, <2>2, <3>1 DEF Sessions, NoSession
  <2> HIDE DEF desktop
  <2>4. CASE desktop
    <3>1. StartReading(Reader) /\ hand' \in [Handlers -> Hands]
      BY <2>2, <2>4, <1>0, StartTyped
    <3> QED BY <1>0, <1>b, <2>0, <2>3, <2>4, <3>1, StartSess DEF StartReading, store, SessTyped,
               Sessions
  <2>5. CASE ~desktop
    <3>1. UNCHANGED <<pc, mem, hand, auth, owed>> /\ ~w'.reading /\ ~w'.timer /\ ~w'.switching /\ ~owed' /\ w'.st # "off"
      BY <2>0, <2>2, <2>3, <2>5 DEF store
    <3>2. HandlersAct' /\ OthersAct' /\ BestKnown'
      BY <3>1 DEF SessInv, HandlersAct, OthersAct, BestKnown
    <3>3. SessTyped'
      BY <2>0, <2>3, <3>1 DEF SessTyped
    <3>4. ~(\E h \in Handlers : pc[h] \notin Waiting)'
      BY <2>0, <3>1 DEF SessInv
    <3> QED BY <2>0, <3>1, <3>2, <3>3, <3>4 DEF SessInv, ActivityRead, Live
  <2> QED BY <2>4, <2>5
<1>2. CASE Connect \/ Disconnect \/ Cooled \/ Stop
  <2>1. PICK st \in {"lost", "on", "over"} : \/ w' = [w EXCEPT !.st = st] /\ w.st \in {"lost", "on"} /\ st # "over"
                                             \/ w' = [w EXCEPT !.recent = FALSE]
                                             \/ w' = [w EXCEPT !.st = "over", !.timer = FALSE]
    BY <1>2 DEF Connect, Disconnect, Cooled, Stop
  <2>2. /\ w' \in Sessions /\ w'.reading = w.reading /\ (w'.timer => LiveSt(w')) /\ (w'.st = "off" => w.st = "off")
        /\ w'.switching = w.switching /\ w'.mode = w.mode
        /\ owed => w'.mode = "desktop" /\ w'.st \notin {"off", "start"}
        /\ owed /\ w'.st \in {"lost", "on"} => WillRead(w')
    BY <1>b, <2>1 DEF Sessions, LiveSt, WillRead
  <2>3. UNCHANGED <<deskVars, quota, hand, clis, owed>>
    BY <1>2 DEF Connect, Disconnect, Cooled, Stop
  <2> QED BY <1>a, <1>b, <2>2, <2>3
<1>3. CASE IdleFires \/ Activity
  <2>1. w' = ScheduleRead(w) /\ w.st \in {"lost", "on"} /\ w.mode = "desktop" /\ UNCHANGED <<deskVars, quota, hand, clis>>
        /\ owed' \in BOOLEAN
    BY <1>3, <1>b DEF IdleFires, Activity
  <2> QED BY <1>a, <1>b, <2>1, ScheduleReadOf DEF LiveSt
<1>4. CASE TimerFires
  <2>1. w' = [w EXCEPT !.timer = FALSE, !.pend = FALSE, !.reading = TRUE] /\ w.st \in {"lost", "on"} /\ ~owed'
        /\ pc[Reader] = "idle" /\ StartReading(Reader) /\ UNCHANGED <<store, quota, clis>> /\ owed' \in BOOLEAN
    BY <1>4 DEF TimerFires
  <2>2. w' \in Sessions /\ w'.reading /\ ~w'.timer /\ w'.switching = w.switching /\ w'.st = w.st
    BY <1>b, <2>1 DEF Sessions
  <2>3. hand' \in [Handlers -> Hands]
    BY <1>0, <2>1, StartTyped
  <2> QED BY <1>0, <2>1, <2>2, <2>3, StartSess DEF StartReading, store
<1>5. CASE Poll
  <2>1. w' = [w EXCEPT !.reading = TRUE] /\ w.st = "on" /\ w.mode = "cli" /\ UNCHANGED owed
        /\ pc[Reader] = "idle" /\ StartReading(Reader) /\ UNCHANGED <<store, quota, clis>>
    BY <1>5 DEF Poll
  <2>2. /\ w' \in Sessions /\ w'.reading /\ w'.timer = w.timer /\ w'.switching = w.switching /\ w'.st = w.st
        /\ (w'.timer => LiveSt(w'))
    BY <1>b, <2>1 DEF Sessions, LiveSt
  <2>3. hand' \in [Handlers -> Hands] /\ ~owed' /\ owed' \in BOOLEAN
    BY <1>0, <1>b, <2>1, StartTyped
  <2> QED BY <1>0, <2>1, <2>2, <2>3, StartSess DEF StartReading, store
<1>6. CASE Signal
  <2>1. PICK p \in Up :
          /\ apps[p].acct \in Accounts
          /\ pc' = [pc EXCEPT ![Signaller] = "judge"] /\ Set(Signaller, [NoMem EXCEPT !.op = "auto"])
          /\ hand' = [hand EXCEPT ![Signaller] = [from |-> apps[p].acct, empty |-> Exhausted(apps[p].acct),
                                                  alone |-> (pc[Reader] = "idle")],
                                  ![Reader].alone = FALSE]
    BY <1>6 DEF Signal
  <2>2. w.st = "on" /\ w' = w /\ owed' = owed /\ pc[Signaller] = "idle" /\ UNCHANGED <<auth, quota, clis>>
    BY <1>6 DEF Signal, store
  <2>3. [from |-> apps[p].acct, empty |-> Exhausted(apps[p].acct), alone |-> (pc[Reader] = "idle")] \in Hands
    <3>1. Exhausted(apps[p].acct) \in BOOLEAN /\ (pc[Reader] = "idle") \in BOOLEAN
      BY DEF Exhausted
    <3> QED BY <2>1, <3>1 DEF Hands
  <2>4. hand' \in [Handlers -> Hands]
    BY <1>0, <2>1, <2>3 DEF SessTyped, Hands
  <2> QED BY <1>0, <1>b, <2>1, <2>2, <2>4, StartSess DEF Go, SessInv
<1> QED BY <1>1, <1>2, <1>3, <1>4, <1>5, <1>6 DEF SessionStep

\* The end of a handler, of which s is what it has made of the session before.
LEMMA FinishSess ==
  ASSUME DeskIInv, SessTyped, SessInv, NEW h \in Handlers, pc[h] # "idle", NEW s \in Sessions,
         s.st = w.st, s.mode = w.mode, s.timer = w.timer, s.pend = w.pend, s.reading = w.reading,
         s.switching <=> \E o \in Handlers \ {h} : pc[o] \notin Waiting,
         NEW threw \in BOOLEAN, Finish(h, s, threw), UNCHANGED <<auth, quota, owed>>, clis' \subseteq clis
  PROVE  SessTyped' /\ SessInv'
<1>0. h \in Tasks /\ TasksTyped /\ Handlers = {Reader, Signaller} /\ Reader # Signaller
  BY HandlersAre DEF DeskIInv, DeskTyped
<1>1. pc'[h] = "idle" /\ mem'[h].op = "none" /\ \A o \in Tasks \ {h} : pc'[o] = pc[o] /\ mem'[o] = mem[o]
  BY <1>0 DEF Finish, Go, Set, TasksTyped, NoMem
<1>2. HandlersAct' /\ OthersAct' /\ BestKnown'
  BY <1>1, ActKept DEF SessInv
<1>3. s.timer => LiveSt(s)
  BY DEF SessInv, Live, LiveSt
<1>4. /\ w' \in Sessions /\ w'.mode = w.mode /\ w'.switching = s.switching
      /\ IF h = Reader THEN w'.reading = FALSE ELSE w'.reading = w.reading
      /\ w'.st = w.st \/ (w.st = "start" /\ w'.st \in {"lost", "failed"}) \/ (w.st = "on" /\ w'.st = "lost")
      /\ w'.timer => LiveSt(w')
      /\ WillRead(s) /\ LiveSt(s) /\ w.mode = "desktop" /\ w.st # "start" => WillRead(w')
  <2>1. w' = After(h, s, threw)
    BY DEF Finish
  <2>2. EndOf(w', h, s)
    BY <1>3, <2>1, AfterOf
  <2> QED BY <2>2 DEF EndOf
<1>5. SessTyped'
  BY <1>3, FinishTyped DEF SessTyped
<1>6. \A o \in Handlers \ {h} : pc'[o] = pc[o]
  BY <1>0, <1>1, HandlersAre
<1>7. (\E o \in Handlers : pc[o] \notin Waiting)' <=> w'.switching
  BY <1>0, <1>1, <1>4, <1>6 DEF Waiting
<1>8. w'.reading <=> pc'[Reader] # "idle"
  BY <1>0, <1>1, <1>4, <1>6 DEF SessInv
<1>9. w'.st = "off" => pc'[Signaller] = "idle"
  BY <1>0, <1>1, <1>4, <1>6 DEF SessInv
<1>10. owed' => w'.mode = "desktop" /\ w'.st \notin {"off", "start"} /\ (w'.st \in {"lost", "on"} => WillRead(w'))
  BY <1>4 DEF SessInv, LiveSt, WillRead, ActivityRead
<1> QED BY <1>2, <1>4, <1>5, <1>7, <1>8, <1>9, <1>10 DEF SessInv, Live, LiveSt, WillRead,
           ActivityRead

\* Whether a handler switches is up to the other one, while it does not.
LEMMA NoneSwitching ==
  ASSUME DeskIInv, SessInv, NEW h \in Handlers, pc[h] \in Waiting, SessTyped
  PROVE  w.switching <=> \E o \in Handlers \ {h} : pc[o] \notin Waiting
BY DEF SessInv

\* A handler that goes on without ending.
LEMMA MoveSess ==
  ASSUME DeskIInv, SessTyped, SessInv, NEW h \in Handlers, pc[h] # "idle", UNCHANGED <<auth, quota, owed, clis>>,
         \A o \in Tasks \ {h} : pc'[o] = pc[o] /\ mem'[o] = mem[o],
         pc'[h] \in Acting, pc'[h] # "idle", mem'[h].op \in {"none", "auto"},
         pc'[h] = "unlock" /\ mem'[h].end = "best" => auth \in Accounts, hand' \in [Handlers -> Hands],
         \/ w' = w /\ (pc'[h] \in Waiting <=> pc[h] \in Waiting)
         \/ w' = [w EXCEPT !.switching = TRUE, !.recent = TRUE] /\ pc'[h] \notin Waiting
  PROVE  SessTyped' /\ SessInv'
<1>0. h \in Tasks /\ Handlers = {Reader, Signaller} /\ Reader \in Tasks /\ Signaller \in Tasks
  BY HandlersAre
<1>1. HandlersAct' /\ OthersAct' /\ BestKnown'
  BY ActKept DEF SessInv
<1>2. /\ w' \in Sessions /\ w'.st = w.st /\ w'.mode = w.mode /\ w'.timer = w.timer /\ w'.pend = w.pend
      /\ w'.reading = w.reading /\ (w'.switching = w.switching \/ (w'.switching /\ pc'[h] \notin Waiting))
  BY DEF SessTyped, Sessions
<1>3. SessTyped'
  BY <1>2 DEF SessTyped
<1>4. \A o \in Handlers : pc'[o] = "idle" <=> pc[o] = "idle"
  BY <1>0
<1>5. (\E o \in Handlers : pc[o] \notin Waiting)' <=> w'.switching
  <2>1. CASE w' = w /\ (pc'[h] \in Waiting <=> pc[h] \in Waiting)
    BY <1>0, <2>1 DEF SessInv
  <2>2. CASE w'.switching /\ pc'[h] \notin Waiting
    BY <2>2
  <2>3. [w EXCEPT !.switching = TRUE, !.recent = TRUE].switching
    BY DEF SessTyped, Sessions
  <2> QED BY <2>1, <2>2, <2>3
<1> QED BY <1>0, <1>1, <1>2, <1>3, <1>4, <1>5 DEF SessInv, Live, ActivityRead

\* every step of a handler does,
LEMMA HandlerSess ==
  ASSUME DeskIInv, SessTyped, SessInv, NEW h \in Handlers, HandlerStep(h)
  PROVE  SessTyped' /\ SessInv'
<1>0. /\ h \in Tasks /\ DeskTyped /\ TasksTyped /\ mem[h] \in Mems /\ mem[h].op \in {"none", "auto"}
      /\ w \in Sessions /\ clis \subseteq Accounts /\ Accounts \subseteq Accounts \cup {NoAccount}
  BY HandlersAre DEF DeskIInv, DeskTyped, TasksTyped, SessInv, HandlersAct, SessTyped
<1>a. ASSUME Finish(h, w, FALSE), pc[h] \in OfHandler \ {"select"}, UNCHANGED <<auth, quota, owed, clis>>
      PROVE  SessTyped' /\ SessInv'
  <2>1. pc[h] \in Waiting /\ pc[h] # "idle"
    BY <1>a, AppliedActs
  <2>2. w.switching <=> \E o \in Handlers \ {h} : pc[o] \notin Waiting
    BY <2>1, NoneSwitching
  <2> QED BY <1>0, <1>a, <2>1, <2>2, FinishSess
<1>b. ASSUME NEW p \in OfHandler \ {"select"}, Go(h, p), pc[h] \in OfHandler \ {"select"}, hand' \in [Handlers -> Hands],
             UNCHANGED <<mem, w, auth, quota, owed, clis>>
      PROVE  SessTyped' /\ SessInv'
  <2>1. pc'[h] = p /\ \A o \in Tasks \ {h} : pc'[o] = pc[o] /\ mem'[o] = mem[o]
    BY <1>0, <1>b, GoApart
  <2>2. p \in Waiting /\ pc[h] \in Waiting /\ p # "idle" /\ pc[h] # "idle" /\ p \in Acting /\ p # "unlock"
    BY <1>b, AppliedActs DEF OfHandler
  <2> QED BY <1>0, <1>b, <2>1, <2>2, MoveSess
<1> USE DEF At, store
<1>1. CASE ReadQuota(h)
  <2>1. CASE \E a \in ReadOf : hand' = [hand EXCEPT ![h].from = a, ![h].empty = Exhausted(a)] /\ Go(h, "judge") /\ UNCHANGED <<w, mem>>
    <3>1. PICK a \in ReadOf : hand' = [hand EXCEPT ![h].from = a, ![h].empty = Exhausted(a)]
      BY <2>1
    <3>2. a \in Accounts /\ Exhausted(a) \in BOOLEAN
      BY DEF ReadOf, Exhausted
    <3>3. hand' \in [Handlers -> Hands]
      BY <3>1, <3>2 DEF SessTyped, Hands
    <3> QED BY <1>1, <2>1, <3>3, <1>b DEF ReadQuota, OfHandler
  <2>2. CASE Finish(h, w, FALSE)
    BY <1>1, <2>2, <1>a DEF ReadQuota, OfHandler
  <2> QED BY <1>1, <2>1, <2>2 DEF ReadQuota
<1>2. CASE Judge(h)
  <2>1. CASE Go(h, "hlock") /\ UNCHANGED <<w, mem, hand>>
    BY <1>2, <2>1, <1>b DEF Judge, OfHandler, SessTyped
  <2>2. CASE Finish(h, w, FALSE)
    BY <1>2, <2>2, <1>a DEF Judge, OfHandler
  <2> QED BY <1>2, <2>1, <2>2 DEF Judge
<1>3. CASE LockForAuto(h)
  <2>1. CASE lock = NoTask
    BY <1>3, <2>1, <1>b DEF LockForAuto, OfHandler, SessTyped
  <2>2. CASE lock # NoTask
    BY <1>3, <2>2, <1>a DEF LockForAuto, OfHandler
  <2> QED BY <2>1, <2>2
<1>4. CASE Cool(h)
  <2>1. CASE w.switching \/ w.recent
    BY <1>4, <2>1, <1>a DEF Cool, OfHandler
  <2>2. CASE ~(w.switching \/ w.recent)
    <3>1. /\ w' = [w EXCEPT !.switching = TRUE, !.recent = TRUE] /\ Go(h, "select") /\ pc[h] = "cool"
          /\ UNCHANGED <<mem, hand, auth, quota, owed, clis>>
      BY <1>4, <2>2 DEF Cool
    <3>2. pc'[h] = "select" /\ \A o \in Tasks \ {h} : pc'[o] = pc[o] /\ mem'[o] = mem[o]
      BY <1>0, <3>1, GoApart
    <3> QED BY <1>0, <3>1, <3>2, AppliedActs, MoveSess DEF SessTyped
  <2> QED BY <2>1, <2>2
<1>5. CASE Select(h)
  <2>0. pc[h] = "select" /\ UNCHANGED <<auth, quota, w, hand, owed, clis>>
    BY <1>5 DEF Select, watchVars
  <2>1. CASE Ends(h, "threw") \/ (Ends(h, "best") /\ auth \in Accounts)
    <3>1. PICK r \in {"threw", "best"} : Ends(h, r) /\ (r = "best" => auth \in Accounts)
      BY <2>1
    <3>2. /\ \A o \in Tasks \ {h} : pc'[o] = pc[o] /\ mem'[o] = mem[o]
          /\ mem'[h].op = mem[h].op /\ mem'[h].end = r
      BY <1>0, <3>1, EndsApart, EndsMoves
    <3>3. pc'[h] = "unlock"
      BY <1>0, <2>0, <3>1, HandlersHold, EndsMoves DEF SessInv
    <3>4. "unlock" \in Acting /\ "unlock" \notin Waiting
      BY AppliedActs DEF Applied
    <3> QED BY <1>0, <2>0, <3>1, <3>2, <3>3, <3>4, AppliedActs, MoveSess DEF SessTyped
  <2>2. CASE \E a \in Accounts : Set(h, [mem[h] EXCEPT !.to = a]) /\ Go(h, "auth") /\ UNCHANGED told
    <3>1. PICK a \in Accounts : Set(h, [mem[h] EXCEPT !.to = a]) /\ Go(h, "auth")
      BY <2>2
    <3>2. /\ pc'[h] = "auth" /\ mem'[h] = [mem[h] EXCEPT !.to = a]
          /\ \A o \in Tasks \ {h} : pc'[o] = pc[o] /\ mem'[o] = mem[o]
      BY <1>0, <3>1 DEF Go, Set, TasksTyped
    <3>3. mem'[h].op = mem[h].op
      BY <1>0, <3>2 DEF Mems
    <3>4. "auth" \in Acting /\ "auth" \notin Waiting
      BY AppliedActs DEF Applied
    <3> QED BY <1>0, <2>0, <3>2, <3>3, <3>4, AppliedActs, MoveSess DEF SessTyped
  <2>3. work.eligible \subseteq Accounts
    BY <1>0, WatchWork DEF DeskTyped, StoreTyped
  <2> QED BY <1>5, <2>1, <2>2, <2>3, PicksOf DEF Select
<1>6. CASE Release(h)
  <2> DEFINE s == [w EXCEPT !.switching = NotSwitching(h), !.label = LabelAfter(h)]
             threw == w.mode = "desktop" /\ mem[h].end \in {"refused", "threw"}
  <2>1. pc[h] = "unlock" /\ Finish(h, s, threw) /\ UNCHANGED <<auth, quota, owed>> /\ clis' \subseteq clis
    BY <1>6 DEF Release
  <2>2. LabelAfter(h) \in Accounts \cup {NoAccount}
    BY <1>0, <2>1, LabelAfterTyped DEF SessInv, BestKnown
  <2>3. /\ s \in Sessions /\ s.st = w.st /\ s.mode = w.mode /\ s.timer = w.timer /\ s.pend = w.pend
        /\ s.reading = w.reading /\ s.switching = FALSE
    BY <1>0, <2>2 DEF Sessions, NotSwitching
  <2>4. threw \in BOOLEAN
    OBVIOUS
  <2>5. ASSUME NEW o \in Handlers \ {h} PROVE pc[o] \in Waiting
    <3>1. lock = h /\ HandlersAct /\ lock # o
      BY <2>1, HandlersHold DEF SessInv, Applied
    <3> QED BY <3>1, HandlersHold DEF HandlersAct, Acting, Waiting, OfHandler
  <2> HIDE DEF s, threw
  <2> QED BY <2>1, <2>3, <2>4, <2>5, FinishSess
<1> QED BY <1>1, <1>2, <1>3, <1>4, <1>5, <1>6 DEF HandlerStep

\* and so does the use of a quota.
LEMMA BurnSess ==
  ASSUME SessTyped, SessInv, NEW a \in Accounts, Burn(a)
  PROVE  SessTyped' /\ SessInv'
<1>1. UNCHANGED <<auth, pc, mem, w, hand, clis, owed>> /\ quota' = [quota EXCEPT ![a].five.used = 100]
  BY DEF Burn, deskVars, store, sess
<1>2. quota' \in [Accounts -> Quotas]
  <2>1. quota[a] \in Quotas /\ quota[a].five \in QuotaWindow
    BY DEF SessTyped, Quotas
  <2>2. [quota[a].five EXCEPT !.used = 100] \in QuotaWindow
    BY <2>1 DEF QuotaWindow
  <2>3. [quota[a] EXCEPT !.five = [quota[a].five EXCEPT !.used = 100]] \in Quotas
    BY <2>1, <2>2 DEF Quotas
  <2>4. quota' = [quota EXCEPT ![a] = [quota[a] EXCEPT !.five = [quota[a].five EXCEPT !.used = 100]]]
    BY <1>1
  <2> QED BY <2>3, <2>4 DEF SessTyped
<1>3. HandlersAct' /\ OthersAct' /\ BestKnown'
  BY <1>1 DEF SessInv, HandlersAct, OthersAct, BestKnown
<1>4. SessTyped'
  BY <1>1, <1>2 DEF SessTyped
<1>5. SessInv'
  BY <1>1, <1>3, SessFrame DEF SessInv
<1> QED BY <1>4, <1>5

-----------------------------------------------------------------------------
(* Under which name samples are recorded *)

\* With no command but the session, a sample that the only handler is about to record is
\* the managed app's, as far as is known; the label is right, or will be after the
\* switch under way; and no sample was recorded under another name.
SessionOnly == \A t \in Tasks \ Handlers : mem[t].op = "none"
ReadOk(h) == hand[h].alone /\ pc[h] = "judge" => hand[h].from \in Accounts /\ (told \/ hand[h].from = auth)
AfterOk(h) == pc[h] = "unlock" => LabelOk(LabelAfter(h))
Settled == \A h \in Handlers : pc[h] \notin OfRefresh \cup {"unlock"}
NamedInv ==
  /\ \A h, o \in Handlers : h # o /\ hand[h].alone => pc[o] = "idle"
  /\ SessionOnly => /\ ~misnamed
                    /\ \A h \in Handlers : ReadOk(h) /\ AfterOk(h)
                    /\ Settled => LabelOk(w.label)

\* A step of one handler keeps that if it does so for both,
LEMMA NamedStep ==
  ASSUME NamedInv, NEW h \in Handlers, \A o \in Tasks \ {h} : pc'[o] = pc[o] /\ mem'[o] = mem[o],
         \A o \in Handlers \ {h} : /\ hand'[o].alone => hand[o].alone /\ (pc[h] = "idle" => pc'[h] = "idle")
                                   /\ hand'[h].alone => pc[o] = "idle"
                                   /\ SessionOnly /\ ReadOk(o) /\ AfterOk(o) => ReadOk(o)' /\ AfterOk(o)',
         SessionOnly => ~misnamed' /\ ReadOk(h)' /\ AfterOk(h)' /\ (Settled' => LabelOk(w.label)')
  PROVE  NamedInv'
<1>0. h \in Tasks /\ Handlers \subseteq Tasks
  BY HandlersAre
<1>1. SessionOnly' => SessionOnly
  BY <1>0 DEF SessionOnly
<1>2. ASSUME NEW i \in Handlers, NEW o \in Handlers, i # o, hand'[i].alone PROVE pc'[o] = "idle"
  BY <1>0, <1>2 DEF NamedInv
<1>3. ASSUME SessionOnly, NEW o \in Handlers PROVE ReadOk(o)' /\ AfterOk(o)'
  BY <1>3 DEF NamedInv
<1> QED BY <1>1, <1>2, <1>3 DEF NamedInv

\* The handler that holds the lock: the other one waits, and is not alone.
LEMMA NamedHolder ==
  ASSUME DeskIInv, HandlersAct, NamedInv, NEW h \in Handlers, pc[h] \in {"cool", "select"} \cup Applied,
         \A o \in Tasks \ {h} : pc'[o] = pc[o] /\ mem'[o] = mem[o], pc'[h] # "judge",
         \A o \in Handlers \ {h} : hand'[o].alone => hand[o].alone, hand'[h].alone => hand[h].alone,
         SessionOnly => ~misnamed' /\ AfterOk(h)' /\ (Settled' => LabelOk(w.label)')
  PROVE  NamedInv'
<1>0. h \in Tasks /\ Handlers \subseteq Tasks /\ lock = h /\ pc[h] # "idle"
  BY HandlersAre, HandlersHold, AppliedActs DEF OfHandler
<1>1. ASSUME NEW o \in Handlers \ {h} PROVE ~hand'[o].alone /\ (hand'[h].alone => pc[o] = "idle") /\ pc'[o] # "unlock"
  <2>1. pc[o] # "unlock"
    BY <1>0, HandlersHold DEF Applied
  <2> QED BY <1>0, <2>1 DEF NamedInv
<1>2. \A o \in Handlers \ {h} : ReadOk(o)' /\ AfterOk(o)'
  BY <1>1 DEF ReadOk, AfterOk
<1>3. ReadOk(h)'
  BY DEF ReadOk
<1> QED BY <1>1, <1>2, <1>3, NamedStep

\* A handler that has not the lock, in steps that touch neither the account nor the label.
LEMMA NamedWaiter ==
  ASSUME NamedInv, NEW h \in Handlers, pc[h] \in Waiting, pc'[h] \in Waiting \cup {"select"},
         \A o \in Tasks \ {h} : pc'[o] = pc[o] /\ mem'[o] = mem[o],
         \A o \in Handlers \ {h} : \/ hand'[o] = hand[o] /\ (pc[h] = "idle" => pc'[h] = "idle")
                                   \/ ~hand'[o].alone,
         hand'[h].alone => \A o \in Handlers \ {h} : pc[o] = "idle",
         UNCHANGED <<auth, told>>, w'.label = w.label,
         SessionOnly => ~misnamed' /\ ReadOk(h)'
  PROVE  NamedInv'
<1>0. h \in Tasks /\ Handlers \subseteq Tasks /\ "select" \notin OfRefresh \cup {"unlock"}
      /\ \A p \in Waiting : p \notin OfRefresh \cup {"unlock"}
  BY HandlersAre DEF Waiting, OfRefresh, OfRestart
<1>1. \A o \in Handlers \ {h} : LabelAfter(o)' = LabelAfter(o)
  BY <1>0 DEF LabelAfter
<1>2. \A o \in Handlers \ {h} : ReadOk(o) /\ AfterOk(o) => ReadOk(o)' /\ AfterOk(o)'
  BY <1>0, <1>1 DEF ReadOk, AfterOk, LabelOk
<1>3. AfterOk(h)'
  BY <1>0 DEF AfterOk
<1>4. Settled' => Settled
  BY <1>0 DEF Settled
<1>5. SessionOnly => (Settled' => LabelOk(w.label)')
  BY <1>4 DEF NamedInv, LabelOk
<1> QED BY <1>2, <1>3, <1>5, NamedStep

\* and steps of neither if they leave the account and the label alone.
LEMMA NamedStutters ==
  ASSUME NamedInv, UNCHANGED <<auth, told, pc, mem, hand, misnamed>>, w'.label = w.label
  PROVE  NamedInv'
<1>1. \A h \in Handlers : LabelAfter(h)' = LabelAfter(h)
  BY DEF LabelAfter
<1>2. \A h \in Handlers : ReadOk(h) /\ AfterOk(h) => ReadOk(h)' /\ AfterOk(h)'
  BY <1>1 DEF ReadOk, AfterOk, LabelOk
<1> QED BY <1>2 DEF NamedInv, SessionOnly, Settled, LabelOk

\* With the session alone and no switch under way, Desktop runs the account of
\* auth.json unless it was said that it may not.
LEMMA SessionFollows ==
  ASSUME DeskIInv, HandlersAct, SessionOnly, \A h \in Handlers : pc[h] \notin Post
  PROVE  told \/ Follows
<1>0. /\ lock \in Tasks \cup {NoTask} /\ FollowInv /\ \A t \in Tasks : LockClause(t)
  BY DEF DeskIInv, DeskTyped, StoreTyped, LockInv
<1>1. ASSUME NEW t \in Tasks PROVE pc[t] \notin Post
  <2>1. CASE t \in Handlers
    BY <2>1
  <2>2. CASE t \notin Handlers
    BY <1>0, <2>2 DEF SessionOnly, LockClause, Post, OfRefresh, OfRestart
  <2> QED BY <2>1, <2>2
<1>2. ~Surfacing /\ ~Applying
  BY <1>0, <1>1 DEF Surfacing, Applying, Post
<1> QED BY <1>0, <1>2 DEF FollowInv, SeenTo

\* Every step of Desktop keeps what is said of samples,
LEMMA DeskNamed ==
  ASSUME DeskIInv, DeskIInv', SessInv, NamedInv, DeskNext, UNCHANGED watchVars
  PROVE  NamedInv'
<1>0. /\ DeskTyped /\ LockInv /\ DeskTyped' /\ LockInv' /\ HandlersAct /\ UNCHANGED <<w, hand, misnamed>> /\ w' = w
      /\ TasksTyped /\ work \in Works /\ Handlers \subseteq Tasks
  BY HandlersAre DEF DeskIInv, watchVars, SessInv, DeskTyped, StoreTyped
<1>1. ASSUME NEW t \in Tasks \ Handlers, Apart(t), mem'[t].op # "none" PROVE NamedInv'
  <2>1. ~SessionOnly'
    BY <1>1 DEF SessionOnly
  <2>2. \A h \in Handlers : pc'[h] = pc[h]
    BY <1>0, <1>1 DEF Apart
  <2> QED BY <1>0, <2>1, <2>2 DEF NamedInv
<1>2. ASSUME NEW t \in Tasks, Begin(t) PROVE NamedInv'
  <2>1. t \notin Handlers /\ work.jobs[t].op # "none"
    BY <1>0, <1>2, WatchWork DEF Begin
  <2>2. mem'[t].op = work.jobs[t].op
    BY <1>0, <1>2 DEF Begin, Set, TasksTyped, NoMem
  <2>3. Apart(t)
    BY <1>0, <1>2, TaskApart
  <2> QED BY <1>1, <2>1, <2>2, <2>3
<1>3. ASSUME NEW t \in Tasks, TaskStep(t) \/ SwitchFails(t) \/ GivesUp(t) \/ Interrupted(t) PROVE NamedInv'
  <2>1. Apart(t)
    BY <1>0, <1>3, TaskApart
  <2>2. CASE t \notin Handlers
    <3>1. Moved(t) /\ LockClause(t)
      BY <1>0, <1>3, TaskMoves DEF LockInv
    <3>2. mem'[t].op # "none"
      BY <3>1 DEF Moved, LockClause
    <3> QED BY <1>1, <2>1, <2>2, <3>2
  <2>3. CASE t \in Handlers
    <3>1. pc[t] \in Applied \ {"unlock"} /\ pc'[t] \in Applied \ {"auth"} /\ lock = t
      BY <1>0, <1>3, <2>3, HandlerMoves
    <3>2. /\ (pc[t] = "auth" => LabelOk(w.label)) /\ pc'[t] = "unlock" => LabelOk(LabelAfter(t))'
      BY <1>0, <1>3, <2>3, HandlerEnds
    <3>3. ASSUME SessionOnly, pc[t] = "auth" PROVE LabelOk(w.label)
      <4>1. ASSUME NEW o \in Handlers, o # t PROVE pc[o] \notin OfRefresh \cup {"unlock"}
        BY <1>0, <2>3, <3>1, <4>1, HandlersHold DEF Applied
      <4>2. pc[t] \notin OfRefresh \cup {"unlock"}
        BY <3>3 DEF OfRefresh, OfRestart
      <4> QED BY <3>3, <4>1, <4>2 DEF NamedInv, Settled
    <3>4. ~Settled'
      BY <2>3, <3>1 DEF Settled, Applied
    <3>5. SessionOnly => ~misnamed' /\ AfterOk(t)'
      BY <1>0, <3>2, <3>3 DEF AfterOk, NamedInv
    <3>6. pc'[t] # "judge"
      BY <3>1 DEF Applied, OfRefresh, OfRestart
    <3> QED BY <1>0, <2>1, <2>3, <3>1, <3>4, <3>5, <3>6, NamedHolder DEF Apart
  <2> QED BY <2>2, <2>3
<1>4. ASSUME NEW s \in Scripts, ScriptStep(s) \/ ScriptFails(s) PROVE UNCHANGED <<pc, mem, auth, told>>
  BY <1>4 DEF store, hist, ScriptStep, ScriptFails, Collect, ReadThread, Collected,
     RestartServer, ServerReady, ScriptGone
<1>5. ASSUME ThreadStarts \/ ThreadEnds \/ UserOpens \/ UserQuits PROVE UNCHANGED <<pc, mem, auth, told>>
  BY <1>5 DEF store, hist, ThreadStarts, ThreadEnds, UserOpens, UserQuits
<1>6. ASSUME UNCHANGED <<pc, mem, auth, told>> PROVE NamedInv'
  BY <1>0, <1>6, NamedStutters
<1> QED BY <1>2, <1>3, <1>4, <1>5, <1>6 DEF DeskNext

\* a read that starts does,
LEMMA StartNamed ==
  ASSUME DeskIInv, SessTyped, NamedInv, pc[Reader] = "idle", StartReading(Reader), UNCHANGED <<auth, told, misnamed>>,
         w'.label = w.label \/ (pc[Signaller] = "idle" /\ LabelOk(w'.label))
  PROVE  NamedInv'
<1>0. Reader \in Tasks /\ Signaller \in Tasks /\ Handlers = {Reader, Signaller} /\ Reader # Signaller /\ TasksTyped
  BY HandlersAre DEF DeskIInv, DeskTyped
<1>1. PICK o \in Handlers \ {Reader} :
        hand' = [hand EXCEPT ![Reader] = [NoHand EXCEPT !.alone = (pc[o] = "idle")], ![o].alone = FALSE]
  BY DEF StartReading
<1>2. o = Signaller
  BY <1>0, <1>1
<1>3. ~hand'[Signaller].alone /\ (hand'[Reader].alone => pc[Signaller] = "idle")
  BY <1>0, <1>1, <1>2 DEF SessTyped, Hands, NoHand
<1>4. pc'[Reader] = "read" /\ \A t \in Tasks \ {Reader} : pc'[t] = pc[t] /\ mem'[t] = mem[t]
  BY <1>0 DEF StartReading, Go, Set, TasksTyped
<1>5. ReadOk(Reader)'
  BY <1>4 DEF ReadOk
<1>6. CASE w'.label = w.label
  BY <1>0, <1>3, <1>4, <1>5, <1>6, NamedWaiter DEF Waiting, NamedInv
<1>7. CASE pc[Signaller] = "idle" /\ LabelOk(w'.label)
  <2>1. LabelOk(w.label)'
    BY <1>7 DEF LabelOk
  <2>2. AfterOk(Reader)' /\ AfterOk(Signaller)' /\ ReadOk(Signaller)'
    BY <1>0, <1>3, <1>4, <1>7 DEF AfterOk, ReadOk
  <2> QED BY <1>0, <1>3, <1>4, <1>5, <2>1, <2>2, NamedStep DEF NamedInv
<1> QED BY <1>6, <1>7

\* every step of the session does,
LEMMA SessionNamed ==
  ASSUME DeskIInv, SessTyped, SessInv, NamedInv, SessionStep
  PROVE  NamedInv'
<1>0. /\ Reader \in Tasks /\ Signaller \in Tasks /\ Handlers = {Reader, Signaller} /\ Reader # Signaller /\ TasksTyped
      /\ w \in Sessions /\ HandlersAct
  BY HandlersAre DEF DeskIInv, DeskTyped, SessTyped, SessInv
<1>1. CASE StartSession
  <2>1. w'.label = Label /\ LabelOk(w'.label)
    BY <1>1 DEF StartSession, NoSession, Label, LabelOk
  <2>2. w.st = "off" /\ pc[Reader] = "idle" /\ pc[Signaller] = "idle" /\ UNCHANGED <<auth, told, misnamed>>
    BY <1>1 DEF StartSession, SessInv, store
  <2>3. CASE StartReading(Reader)
    BY <2>1, <2>2, <2>3, StartNamed
  <2>4. CASE UNCHANGED <<pc, mem, hand>>
    <3>1. LabelOk(w.label)'
      BY <2>1, <2>2 DEF LabelOk
    <3>2. \A h \in Handlers : ReadOk(h)' /\ AfterOk(h)'
      BY <1>0, <2>2, <2>4 DEF ReadOk, AfterOk
    <3> QED BY <2>2, <2>4, <3>1, <3>2 DEF NamedInv, SessionOnly
  <2> QED BY <1>1, <2>3, <2>4 DEF StartSession
<1>2. CASE TimerFires
  <2>1. w'.label = w.label
    BY <1>0, <1>2 DEF TimerFires, Sessions
  <2> QED BY <1>2, <2>1, StartNamed DEF TimerFires, store
<1>3. CASE Poll
  <2>1. w'.label = w.label
    BY <1>0, <1>3 DEF Poll, Sessions
  <2> QED BY <1>3, <2>1, StartNamed DEF Poll, store
<1>4. CASE Signal
  <2>1. PICK p \in Up :
          /\ Managed(p) /\ apps[p].acct \in Accounts
          /\ pc' = [pc EXCEPT ![Signaller] = "judge"] /\ Set(Signaller, [NoMem EXCEPT !.op = "auto"])
          /\ hand' = [hand EXCEPT ![Signaller] = [from |-> apps[p].acct, empty |-> Exhausted(apps[p].acct),
                                                  alone |-> (pc[Reader] = "idle")],
                                  ![Reader].alone = FALSE]
    BY <1>4 DEF Signal
  <2>2. pc[Signaller] = "idle" /\ w' = w /\ UNCHANGED <<auth, told, misnamed>>
    BY <1>4 DEF Signal, store
  <2>3. /\ hand'[Signaller].from = apps[p].acct /\ ~hand'[Reader].alone
        /\ hand'[Signaller].alone => pc[Reader] = "idle"
    BY <1>0, <2>1 DEF SessTyped, Hands
  <2>4. pc'[Signaller] = "judge" /\ \A o \in Tasks \ {Signaller} : pc'[o] = pc[o] /\ mem'[o] = mem[o]
    BY <1>0, <2>1 DEF Set, TasksTyped
  <2>5. SessionOnly => ReadOk(Signaller)'
    <3>1. ASSUME SessionOnly, pc[Reader] = "idle" PROVE told \/ apps[p].acct = auth
      <4>1. \A h \in Handlers : pc[h] \notin Post
        BY <1>0, <2>2, <3>1 DEF Post, OfRefresh, OfRestart
      <4> QED BY <1>0, <2>1, <3>1, <4>1, SessionFollows DEF Follows
    <3> QED BY <2>1, <2>2, <2>3, <3>1 DEF ReadOk
  <2> QED BY <1>0, <2>2, <2>3, <2>4, <2>5, NamedWaiter DEF Waiting, NamedInv
<1>5. CASE Connect \/ Disconnect \/ IdleFires \/ Activity \/ Cooled \/ Stop
  <2>1. UNCHANGED <<auth, told, pc, mem, hand, misnamed>>
    BY <1>5 DEF Connect, Disconnect, IdleFires, Activity, Cooled, Stop, deskVars, store, hist
  <2>2. w'.label = w.label
    BY <1>0, <1>5, ScheduleReadOf DEF Connect, Disconnect, IdleFires, Activity, Cooled, Stop,
       Sessions
  <2> QED BY <2>1, <2>2, NamedStutters
<1> QED BY <1>1, <1>2, <1>3, <1>4, <1>5 DEF SessionStep

\* and every step of a handler.
LEMMA HandlerNamed ==
  ASSUME DeskIInv, SessTyped, SessInv, NamedInv, NEW h \in Handlers, HandlerStep(h)
  PROVE  NamedInv'
<1>0. /\ h \in Tasks /\ DeskTyped /\ TasksTyped /\ w \in Sessions /\ HandlersAct
      /\ (w.timer => LiveSt(w)) /\ hand \in [Handlers -> Hands]
  BY HandlersAre DEF DeskIInv, DeskTyped, SessInv, SessTyped, Live, LiveSt
<1>1. ASSUME NEW o \in Handlers, o # h, hand[h].alone PROVE pc[o] = "idle"
  BY <1>1 DEF NamedInv
<1>f. ASSUME NEW s, NEW threw, Finish(h, s, threw)
      PROVE  /\ pc'[h] = "idle" /\ \A o \in Tasks \ {h} : pc'[o] = pc[o] /\ mem'[o] = mem[o]
             /\ ~hand'[h].alone /\ \A o \in Handlers \ {h} : hand'[o] = hand[o]
  BY <1>0, <1>f DEF Finish, Go, Set, TasksTyped, NoHand
\* The handler ends before it has switched.
<1>a. ASSUME Finish(h, w, FALSE), pc[h] \in OfHandler \ {"select"}, UNCHANGED <<auth, told>>, SessionOnly => ~misnamed'
      PROVE  NamedInv'
  <2>1. w'.label = w.label
    BY <1>0, <1>a, AfterOf DEF Finish, EndOf
  <2>2. pc[h] \in Waiting /\ pc'[h] \in Waiting /\ ReadOk(h)' /\ pc[h] # "idle"
    BY <1>a, <1>f, AppliedActs DEF ReadOk
  <2>3. /\ \A o \in Tasks \ {h} : pc'[o] = pc[o] /\ mem'[o] = mem[o]
        /\ ~hand'[h].alone /\ \A o \in Handlers \ {h} : hand'[o] = hand[o]
    BY <1>a, <1>f
  <2> QED BY <1>a, <2>1, <2>2, <2>3, NamedWaiter
\* It goes on.
<1>b. ASSUME NEW p \in OfHandler, Go(h, p), pc[h] \in OfHandler \ {"select"}, UNCHANGED <<mem, auth, told>>,
             w'.label = w.label, SessionOnly => ~misnamed' /\ ReadOk(h)',
             hand'[h].alone => hand[h].alone, \A o \in Handlers \ {h} : hand'[o] = hand[o]
      PROVE  NamedInv'
  <2>1. pc'[h] = p /\ \A o \in Tasks \ {h} : pc'[o] = pc[o] /\ mem'[o] = mem[o]
    BY <1>0, <1>b, GoApart
  <2>2. pc[h] \in Waiting /\ pc'[h] \in Waiting \cup {"select"} /\ pc[h] # "idle"
    BY <1>b, <2>1, AppliedActs
  <2> QED BY <1>b, <1>1, <2>1, <2>2, NamedWaiter
<1> USE DEF At, store
<1>2. CASE ReadQuota(h)
  <2>1. CASE \E a \in ReadOf : hand' = [hand EXCEPT ![h].from = a, ![h].empty = Exhausted(a)] /\ Go(h, "judge") /\ UNCHANGED <<w, mem>>
    <3>1. PICK a \in ReadOf : hand' = [hand EXCEPT ![h].from = a, ![h].empty = Exhausted(a)]
      BY <2>1
    <3>2. /\ a \in Accounts /\ hand'[h].from = a /\ hand'[h].alone = hand[h].alone
          /\ \A o \in Handlers \ {h} : hand'[o] = hand[o]
      BY <1>0, <3>1 DEF ReadOf, Hands
    <3>3. ASSUME SessionOnly, hand[h].alone PROVE told \/ a = auth
      <4>1. \A o \in Handlers : pc[o] \notin Post
        BY <1>1, <1>2, <3>3 DEF ReadQuota, Post, OfRefresh, OfRestart
      <4> QED BY <1>0, <3>3, <4>1, SessionFollows DEF Follows, ReadOf
    <3>4. SessionOnly => ~misnamed' /\ ReadOk(h)'
      BY <1>2, <3>2, <3>3 DEF ReadQuota, ReadOk, NamedInv
    <3> QED BY <1>2, <2>1, <3>2, <3>4, <1>b DEF ReadQuota, OfHandler
  <2>2. CASE Finish(h, w, FALSE)
    BY <1>2, <2>2, <1>a DEF ReadQuota, OfHandler, NamedInv
  <2> QED BY <1>2, <2>1, <2>2 DEF ReadQuota
<1>3. CASE Judge(h)
  <2>1. ASSUME SessionOnly PROVE ~misnamed'
    <3>1. pc[h] = "judge" /\ ~misnamed /\ ReadOk(h) /\ (Settled => LabelOk(w.label))
      BY <1>3, <2>1 DEF Judge, NamedInv
    <3>2. hand[h].alone => Settled
      BY <1>1, <3>1 DEF Settled, OfRefresh, OfRestart
    <3>3. hand[h].alone /\ ~told => SampleOf = hand[h].from
      BY <3>1, <3>2, DesktopAssumption DEF ReadOk, LabelOk, SampleOf, Label
    <3> QED BY <1>3, <3>1, <3>3 DEF Judge
  <2>2. CASE Go(h, "hlock") /\ UNCHANGED <<w, mem, hand>>
    <3>1. ReadOk(h)'
      BY <1>0, <2>2, GoApart DEF ReadOk
    <3> QED BY <1>3, <2>1, <2>2, <3>1, <1>b DEF Judge, OfHandler
  <2>3. CASE Finish(h, w, FALSE)
    BY <1>3, <2>1, <2>3, <1>a DEF Judge, OfHandler
  <2> QED BY <1>3, <2>2, <2>3 DEF Judge
<1>4. CASE LockForAuto(h)
  <2>1. CASE lock = NoTask
    <3>1. Go(h, "cool") /\ UNCHANGED <<w, mem, hand, auth, told, misnamed>> /\ pc[h] = "hlock"
      BY <1>4, <2>1 DEF LockForAuto
    <3>2. ReadOk(h)'
      BY <1>0, <3>1, GoApart DEF ReadOk
    <3> QED BY <3>1, <3>2, <1>b DEF OfHandler, NamedInv
  <2>2. CASE lock # NoTask
    BY <1>4, <2>2, <1>a DEF LockForAuto, OfHandler, NamedInv
  <2> QED BY <2>1, <2>2
<1>5. CASE Cool(h)
  <2>1. CASE w.switching \/ w.recent
    BY <1>5, <2>1, <1>a DEF Cool, OfHandler, NamedInv
  <2>2. CASE ~(w.switching \/ w.recent)
    <3>1. /\ w' = [w EXCEPT !.switching = TRUE, !.recent = TRUE] /\ Go(h, "select") /\ pc[h] = "cool"
          /\ UNCHANGED <<mem, hand, auth, told, misnamed>>
      BY <1>5, <2>2 DEF Cool
    <3>2. ReadOk(h)' /\ w'.label = w.label
      BY <1>0, <3>1, GoApart DEF ReadOk, Sessions
    <3> QED BY <3>1, <3>2, <1>b DEF OfHandler, NamedInv
  <2> QED BY <2>1, <2>2
<1>6. CASE Select(h)
  <2>0. /\ pc[h] = "select" /\ UNCHANGED <<auth, w, hand, misnamed>> /\ h \in Handlers
        /\ lock = h
    <3>1. pc[h] = "select" /\ UNCHANGED <<auth, w, hand, misnamed>>
      BY <1>6 DEF Select, watchVars
    <3> QED BY <1>0, <3>1, HandlersHold
  <2>a. ASSUME SessionOnly PROVE ~misnamed' /\ LabelOk(w.label)
    <3>1. ASSUME NEW o \in Handlers PROVE pc[o] \notin OfRefresh \cup {"unlock"}
      <4>1. CASE o = h
        BY <2>0, <4>1 DEF OfRefresh, OfRestart
      <4>2. CASE o # h
        BY <1>0, <2>0, <4>2, HandlersHold DEF Applied
      <4> QED BY <4>1, <4>2
    <3> QED BY <2>0, <2>a, <3>1 DEF NamedInv, Settled
  <2>b. ASSUME pc'[h] \in {"auth", "unlock"}, \A o \in Tasks \ {h} : pc'[o] = pc[o] /\ mem'[o] = mem[o],
               pc'[h] = "unlock" => LabelOk(LabelAfter(h))', pc'[h] = "auth" => told' = told
        PROVE  NamedInv'
    <3>1. SessionOnly => (Settled' => LabelOk(w.label)')
      <4>1. CASE pc'[h] = "unlock"
        BY <4>1 DEF Settled
      <4>2. CASE pc'[h] = "auth"
        BY <2>0, <2>a, <2>b, <4>2 DEF LabelOk
      <4> QED BY <2>b, <4>1, <4>2
    <3>2. AfterOk(h)'
      BY <2>b DEF AfterOk
    <3> QED BY <1>0, <2>0, <2>a, <2>b, <3>1, <3>2, NamedHolder
  <2>1. CASE Ends(h, "threw") \/ (Ends(h, "best") /\ auth \in Accounts)
    <3>1. PICK r \in {"threw", "best"} : Ends(h, r)
      BY <2>1
    <3>2. /\ \A o \in Tasks \ {h} : pc'[o] = pc[o] /\ mem'[o] = mem[o]
          /\ mem'[h].end = r /\ pc'[h] = "unlock"
      BY <1>0, <2>0, <3>1, EndsApart, EndsMoves
    <3>3. LabelOk(LabelAfter(h))'
      <4>1. CASE r = "best"
        BY <2>0, <3>2, <4>1 DEF LabelOk, LabelAfter
      <4>2. CASE r = "threw"
        BY <3>1, <4>2 DEF LabelOk, Ends
      <4> QED BY <4>1, <4>2
    <3> QED BY <2>b, <3>2, <3>3
  <2>2. CASE \E a \in Accounts : Set(h, [mem[h] EXCEPT !.to = a]) /\ Go(h, "auth") /\ UNCHANGED told
    <3>1. PICK a \in Accounts : Set(h, [mem[h] EXCEPT !.to = a]) /\ Go(h, "auth") /\ UNCHANGED told
      BY <2>2
    <3>2. /\ pc'[h] = "auth" /\ \A o \in Tasks \ {h} : pc'[o] = pc[o] /\ mem'[o] = mem[o]
      BY <1>0, <3>1 DEF Go, Set, TasksTyped
    <3> QED BY <2>b, <3>1, <3>2
  <2>3. work.eligible \subseteq Accounts
    BY <1>0, WatchWork DEF DeskTyped, StoreTyped
  <2> QED BY <1>6, <2>1, <2>2, <2>3, PicksOf DEF Select
<1>7. CASE Release(h)
  <2> DEFINE s == [w EXCEPT !.switching = NotSwitching(h), !.label = LabelAfter(h)]
             threw == w.mode = "desktop" /\ mem[h].end \in {"refused", "threw"}
  <2>1. pc[h] = "unlock" /\ Finish(h, s, threw) /\ UNCHANGED <<auth, told, misnamed>>
    BY <1>7 DEF Release
  <2>2. LabelAfter(h) \in Accounts \cup {NoAccount}
    BY <1>0, <2>1, LabelAfterTyped DEF SessInv, BestKnown
  <2>3. s \in Sessions /\ s.timer = w.timer /\ s.st = w.st /\ s.label = LabelAfter(h) /\ threw \in BOOLEAN
    BY <1>0, <2>2 DEF Sessions, NotSwitching
  <2> HIDE DEF s, threw
  <2>4. w'.label = LabelAfter(h)
    <3>1. w' = After(h, s, threw) /\ (s.timer => LiveSt(s))
      BY <1>0, <2>1, <2>3 DEF Finish, LiveSt
    <3>2. EndOf(w', h, s)
      BY <2>3, <3>1, AfterOf
    <3> QED BY <2>3, <3>2 DEF EndOf
  <2>5. /\ pc'[h] = "idle" /\ \A o \in Tasks \ {h} : pc'[o] = pc[o] /\ mem'[o] = mem[o]
        /\ ~hand'[h].alone /\ \A o \in Handlers \ {h} : hand'[o] = hand[o]
    BY <2>1, <1>f
  <2>6. SessionOnly => ~misnamed' /\ LabelOk(w.label)'
    BY <2>1, <2>4 DEF NamedInv, AfterOk, LabelOk
  <2>7. AfterOk(h)' /\ pc[h] \in Applied /\ pc'[h] # "judge"
    BY <2>1, <2>5 DEF AfterOk, Applied
  <2> QED BY <1>0, <2>5, <2>6, <2>7, NamedHolder
<1> QED BY <1>2, <1>3, <1>4, <1>5, <1>6, <1>7 DEF HandlerStep

-----------------------------------------------------------------------------
\* The inductive invariant.
WatchIInv == DeskIInv /\ SessTyped /\ SessInv /\ NamedInv

\* It holds initially,
LEMMA WatchInits ==
  ASSUME WatchInit
  PROVE  WatchIInv
<1>0. /\ Reader \in Tasks /\ Signaller \in Tasks /\ Handlers = {Reader, Signaller} /\ work \in Works
      /\ DeskInit /\ pc = [t \in Tasks |-> "idle"] /\ mem = [t \in Tasks |-> NoMem] /\ w = NoSession
      /\ hand = [h \in Handlers |-> NoHand] /\ ~owed /\ ~misnamed /\ owed \in BOOLEAN
  BY HandlersAre DEF WatchInit, DeskInit
<1>1. DeskIInv
  BY <1>0, DeskInits
<1>2. SessTyped
  BY <1>0, NoHandTyped, WatchWork DEF WatchInit, SessTyped
<1>3. HandlersAct /\ OthersAct /\ BestKnown
  BY <1>0 DEF HandlersAct, OthersAct, BestKnown, OfHandler, NoMem
<1>4. SessInv
  BY <1>0, <1>3 DEF SessInv, NoSession, Waiting, ActivityRead, Live
<1>5. NamedInv
  BY <1>0 DEF NamedInv, SessionOnly, ReadOk, AfterOk, Settled, LabelOk, NoHand, NoSession, NoMem
<1> QED BY <1>1, <1>2, <1>4, <1>5 DEF WatchIInv

\* every step keeps it,
LEMMA WatchSteps ==
  ASSUME WatchIInv, [WatchNext]_allVars
  PROVE  WatchIInv'
<1>0. DeskIInv /\ SessTyped /\ SessInv /\ NamedInv
  BY DEF WatchIInv
<1>1. CASE DeskNext /\ UNCHANGED watchVars
  <2>1. DeskIInv' /\ SessTyped'
    BY <1>0, <1>1, DeskSteps DEF SessTyped, watchVars
  <2> QED BY <1>0, <1>1, <2>1, DeskSess, DeskNamed DEF WatchIInv
<1>2. CASE SessionStep
  BY <1>0, <1>2, SessionDesk, SessionSess, SessionNamed DEF WatchIInv
<1>3. CASE \E h \in Handlers : HandlerStep(h)
  BY <1>0, <1>3, HandlerStepDesk, HandlerSess, HandlerNamed DEF WatchIInv
<1>4. CASE \E a \in Accounts : Burn(a)
  <2>1. PICK a \in Accounts : Burn(a)
    BY <1>4
  <2>2. UNCHANGED deskVars /\ UNCHANGED <<w, hand, misnamed>>
    BY <2>1 DEF Burn, sess
  <2>3. UNCHANGED <<auth, told, pc, mem, hand, misnamed>> /\ w'.label = w.label
    BY <2>2 DEF deskVars, store, hist
  <2> QED BY <1>0, <2>1, <2>2, <2>3, DeskStutters, BurnSess, NamedStutters DEF WatchIInv
<1>5. CASE UNCHANGED allVars
  <2>1. UNCHANGED deskVars /\ UNCHANGED <<quota, w, hand, clis, owed, misnamed>>
    BY <1>5 DEF allVars, watchVars
  <2>2. UNCHANGED <<auth, told, pc, mem>> /\ w'.label = w.label
    BY <2>1 DEF deskVars, store, hist
  <2> QED BY <1>0, <2>1, <2>2, DeskStutters, SessStutters, NamedStutters DEF WatchIInv
<1> QED BY <1>1, <1>2, <1>3, <1>4, <1>5 DEF WatchNext

\* The inductive invariant of Desktop and the session holds in every state: where tasks,
\* scripts and handlers are, and what each may still rely on there.
THEOREM Invariance == WatchSpec => []WatchIInv
<1>1. WatchInit => WatchIInv
  BY WatchInits
<1>2. WatchIInv /\ [WatchNext]_allVars => WatchIInv'
  BY WatchSteps
<1> QED BY <1>1, <1>2, PTL DEF WatchSpec

\* and it implies the properties.
LEMMA WatchImplies ==
  ASSUME WatchIInv
  PROVE  DesktopInv /\ Undisturbed /\ WatchInv
<1>0. DeskIInv /\ SessTyped /\ SessInv /\ NamedInv
  BY DEF WatchIInv
<1>1. DesktopInv /\ Undisturbed
  BY <1>0, DeskImplies
<1>2. WatchTypeOK /\ ActivityRead
  BY <1>0 DEF SessTyped, SessInv, WatchTypeOK, Sessions, Waiting
<1>3. SamplesNamed
  BY <1>0 DEF NamedInv, SamplesNamed, SessionOnly
<1> QED BY <1>1, <1>2, <1>3 DEF WatchInv

-----------------------------------------------------------------------------
(* The theorems *)

\* Whatever commands, scripts, threads and the user do, and however calls fail or are
\* interrupted: at rest the managed app runs the account of auth.json unless it was
\* reported that it may not; a switch that is not forced quits no Desktop that the user
\* opened on their own, except one opened since codexm's look at what runs; and a launch
\* that fails leaves auth.json as it found it.
THEOREM DesktopKept == WatchSpec => []DesktopInv
<1>1. WatchIInv => DesktopInv
  BY WatchImplies
<1> QED BY <1>1, Invariance, PTL

\* A switch that is not forced interrupts no thread that has been active, and not with
\* empty activeFlags, since its check of the threads began.
THEOREM ThreadsKept == WatchSpec => []Undisturbed
<1>1. WatchIInv => Undisturbed
  BY WatchImplies
<1> QED BY <1>1, Invariance, PTL

\* The session knows when it reads and switches, forgets no signal while it is live, and
\* records samples under the account they are of, when no other command disturbs it.
THEOREM SessionSound == WatchSpec => []WatchInv
<1>1. WatchIInv => WatchInv
  BY WatchImplies
<1> QED BY <1>1, Invariance, PTL

\* The listing orders any accounts, and an exhausted pick has no account next to it that
\* is clearly better, for any quotas and percentages.
THEOREM RankingKept == WatchSpec => []RankingSound
<1>1. WatchIInv => RankingSound
  BY QuotasRanked DEF WatchIInv, DeskIInv, DeskTyped, StoreTyped, SessTyped, QuotasTyped
<1> QED BY <1>1, Invariance, PTL

\* The same of Desktop without a session.
THEOREM DesktopAlone == DeskSpec => [](DesktopInv /\ Undisturbed)
<1>1. DeskIInv /\ [DeskNext]_deskVars => DeskIInv'
  BY DeskSteps, DeskStutters
<1> QED BY <1>1, DeskInits, DeskImplies, PTL DEF DeskSpec
=============================================================================
