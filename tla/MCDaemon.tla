------------------------------ MODULE MCDaemon ------------------------------
EXTENDS WatchLease, TLC
CONSTANTS t1, t2, m1, m2, m3
MCClients == {t1, t2}
MCTui == {t1, t2}
MCMonitors == {m1, m2, m3}
MCProcessOf == m1 :> t1 @@ m2 :> t1 @@ m3 :> t2

Work(ops, commands, overlap, kills, holder) ==
  [ops |-> ops, commands |-> commands, overlap |-> overlap, kills |-> kills, holder |-> holder]
DaemonLoads ==
  { \* every command, one at a time, with kills: the port free or taken
    Work(Ops \ {"askEnsure", "ask"}, 3, FALSE, 2, h) : h \in {Free, Foreign} } \cup
  { \* two commands at once
    Work(Ops \ {"restart", "proxyStop"}, 2, TRUE, 0, Free),
    \* requests
    Work({"start", "stop", "ask", "askEnsure"}, 3, TRUE, 1, Free) }
Autoswitch == Work({"autoOn"}, 1, FALSE, 0, Free)
NoDaemon == Work({}, 0, FALSE, 0, Free)
MCLoads == DaemonLoads \cup {Autoswitch, NoDaemon}
MCScreens ==
  \* no dashboard
  [load : DaemonLoads, opened : {{}}, now : {0}, quits : {0}, kills : {0}] \cup
  { \* two dashboards, one of them killed
    [load |-> NoDaemon, opened |-> {m1, m3}, now |-> 0, quits |-> 0, kills |-> 1],
    \* a dashboard that opens twice and sees Desktop quit
    [load |-> NoDaemon, opened |-> {m1, m2}, now |-> 0, quits |-> 1, kills |-> 0],
    \* a dashboard that asks for a reconciliation and sees Desktop quit
    [load |-> NoDaemon, opened |-> {m1}, now |-> 1, quits |-> 1, kills |-> 0],
    \* a dashboard while autoswitch is enabled
    [load |-> Autoswitch, opened |-> {m1}, now |-> 0, quits |-> 0, kills |-> 0] }
=============================================================================
