------------------------------ MODULE MCWatch ------------------------------
\* Instances of the managed Desktop and its watch: two commands k1 and k2, and the
\* two handlers of a session.
EXTENDS Watch, TLC

CONSTANTS k1, k2, a, b, c, e1, e2

MCTasks == {k1, k2, Reader, Signaller}
MCAccounts == {a, b, c}
MCEmail == a :> e1 @@ b :> e1 @@ c :> e2

Job(op, to) == [op |-> op, to |-> to, force |-> FALSE]
Nothing == Job("none", NoAccount)
Switch(x) == Job("switch", x)
Force(x) == [Switch(x) EXCEPT !.force = TRUE]
Launch(x) == Job("launch", x)
Do(x, y) == k1 :> x @@ k2 :> y @@ Reader :> Nothing @@ Signaller :> Nothing

\* Percentages used, minutes to the reset; fetched at minute 0.
Win(used, reset) == [used |-> used, reset |-> reset]
Quota(plan, five, week) == [ok |-> TRUE, plan |-> plan, at |-> 0, five |-> five, week |-> week]
Full == Quota("plus", Win(10, 200), Win(50, 2000))
Half == Quota("plus", Win(60, 200), Win(70, 2000))
Empty == Quota("plus", Win(100, 100), Win(50, 3000))
\* Quotas that come close: exhausted but soon reset, nearly exhausted, of another plan.
Levels == { Full, Empty,
  Quota("plus", Win(100, 20), Win(10, 900)), Quota("plus", Win(100, 20), Win(100, 30)),
  Quota("plus", Win(80, 30), Win(96, 40)), Quota("plus", Win(40, None), Win(93, 50)),
  Quota("free", Win(None, None), Win(20, 400)), Quota("pro", Win(99, 10), Win(99, 500)),
  [Full EXCEPT !.ok = FALSE] }

Base == [platform |-> "mac", jobs |-> Do(Nothing, Nothing), auth |-> {a}, desktop |-> {"ours"},
         threads |-> 0, user |-> 0, faults |-> 0, aborts |-> 0, watch |-> FALSE, auto |-> TRUE,
         eligible |-> MCAccounts, burns |-> 0, stops |-> 0, signals |-> 0, clis |-> {{}},
         quotas |-> {a :> Full @@ b :> Full @@ c :> Half}, order |-> a :> 1 @@ b :> 2 @@ c :> 3]
Watching == [Base EXCEPT !.watch = TRUE, !.burns = 1]

MCWorks == {
  \* commands, without a watch
  [Base EXCEPT !.jobs = Do(Switch(b), Switch(c)), !.threads = 2, !.aborts = 1],
  [Base EXCEPT !.jobs = Do(Switch(b), Force(c)), !.faults = 2, !.user = 1],
  [Base EXCEPT !.jobs = Do(Launch(a), Nothing), !.faults = 2, !.user = 1,
               !.desktop = {"ours", "none", "user"}, !.auth = {a, NoAccount, Proxy}],
  [Base EXCEPT !.jobs = Do(Launch(b), Launch(NoAccount)), !.faults = 1, !.user = 1, !.desktop = {"ours", "none"}],
  [Base EXCEPT !.jobs = Do(Launch(NoAccount), Switch(c)), !.faults = 1, !.threads = 1],
  [Base EXCEPT !.jobs = Do(Switch(b), Launch(c)), !.platform = "win", !.faults = 1, !.user = 2,
               !.desktop = {"ours", "none", "user"}],
  [Base EXCEPT !.jobs = Do(Switch(b), Force(c)), !.platform = "win", !.user = 2],
  \* the ranking
  [Base EXCEPT !.desktop = {"none"}, !.quotas = [MCAccounts -> Levels]],
  \* a watch alone, with threads, faults, a second account that empties, an interruption
  [Watching EXCEPT !.burns = 2, !.signals = 1, !.faults = 1],
  [Watching EXCEPT !.signals = 1, !.threads = 1, !.stops = 1, !.aborts = 1, !.eligible = {a, c}],
  [Watching EXCEPT !.auth = {Proxy}, !.faults = 1],
  \* next to a command, and to a user who quits Desktop
  [Watching EXCEPT !.jobs = Do(Switch(b), Nothing), !.faults = 1],
  [Watching EXCEPT !.jobs = Do(Launch(NoAccount), Nothing), !.user = 1],
  \* codex in a terminal
  [Watching EXCEPT !.desktop = {"none"}, !.faults = 1, !.stops = 1, !.clis = {{a, c}}]}
=============================================================================
