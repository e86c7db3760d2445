----------------------------- MODULE MCConsole -----------------------------
EXTENDS Console, TLC
CONSTANTS a, b, p1, p2, u, v, f1, f2
MCNames == {a, b}
MCTabs == {p1, p2}
MCFlows == {f1, f2}
MCRunners == Slots \cup Flows \cup {Loop}

Do(do, n) == [do |-> do, n |-> n, over |-> NoName, who |-> v]
Plan(one, two, tray) == p1 :> one @@ p2 :> two @@ Tray :> tray
Quiet == [saved |-> a :> u @@ b :> NoTok, listed |-> a :> u @@ b :> NoTok, active |-> u,
          registry |-> FALSE, twice |-> FALSE, app |-> "none", opens |-> 0, plan |-> Plan(<<>>, <<>>, <<>>),
          bounds |-> [loops |-> 0, elsewhere |-> 0, faults |-> 0, clicks |-> 0]]
Bounds(l, e, f, c) == [loops |-> l, elsewhere |-> e, faults |-> f, clicks |-> c]
Two(plan1, plan2) == Plan(plan1, plan2, <<>>)
Listed == [Quiet EXCEPT !.saved = a :> u @@ b :> v, !.listed = a :> u @@ b :> v, !.registry = TRUE]
MCWorks ==
  { \* a login that is cancelled, left, declined or fails, and tried again
    [Quiet EXCEPT !.plan = Two(<<Do("add", b), Do("add", b)>>, <<>>), !.bounds = Bounds(0, 0, 0, 2),
       !.twice = TRUE],
    [Quiet EXCEPT !.plan = Two(<<Do("add", b)>>, <<>>), !.bounds = Bounds(0, 0, 1, 1)],
    \* the console ends under a login
    [Quiet EXCEPT !.plan = Plan(<<Do("add", b)>>, <<>>, <<Do("quit", a)>>), !.bounds = Bounds(0, 0, 0, 1)],
    \* two pages add the same account
    [Quiet EXCEPT !.plan = Two(<<Do("add", b)>>, <<Do("add", b)>>)],
    \* names typed over
    [Quiet EXCEPT !.saved = a :> u @@ b :> v,
       !.plan = Two(<<[Do("relogin", a) EXCEPT !.over = b], [Do("add", b) EXCEPT !.over = a, !.who = u]>>, <<>>)],
    \* a dialog that is opened anew while the cancelled one's request is under way
    [Quiet EXCEPT !.saved = a :> u @@ b :> v, !.plan = Two(<<Do("add", b), Do("add", a)>>, <<>>),
       !.bounds = Bounds(0, 0, 0, 1)],
    \* removals beside logins, passes and pushes
    [Listed EXCEPT !.plan = Two(<<Do("remove", b), Do("sync", b)>>, <<>>), !.bounds = Bounds(1, 1, 1, 0)],
    [Listed EXCEPT !.plan = Two(<<Do("remove", b)>>, <<Do("relogin", b)>>)],
    \* switches beside passes that adopt
    [Listed EXCEPT !.plan = Two(<<Do("switch", b)>>, <<Do("switch", a)>>), !.bounds = Bounds(2, 1, 0, 0)],
    [Listed EXCEPT !.plan = Two(<<Do("remove", b)>>, <<Do("switch", b)>>)],
    \* restarts of Desktop
    [Quiet EXCEPT !.app = "ours", !.opens = 2, !.bounds = Bounds(0, 0, 1, 0),
       !.plan = Plan(<<Do("relaunch", a), Do("quit", a)>>, <<Do("relaunch", a)>>, <<Do("relaunch", a)>>)] }
=============================================================================
