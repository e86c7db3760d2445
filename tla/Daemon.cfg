SPECIFICATION WatchSpec
CONSTANTS
  t1 = t1
  t2 = t2
  m1 = m1
  m2 = m2
  m3 = m3
  Clients <- MCClients
  Tui <- MCTui
  Pids = {p1, p2, p3}
  NoPid = NoPid
  Reqs = {r1, r2}
  NoState = NoState
  Foreign = Foreign
  Free = Free
  Loads <- MCLoads
  Monitors <- MCMonitors
  ProcessOf <- MCProcessOf
  Sessions = {s1, s2, s3}
  NoSession = NoSession
  NoLease = NoLease
  Screens <- MCScreens
INVARIANTS DaemonInv LeaseInv
PROPERTIES CommandsServed LeaseFreed
CHECK_DEADLOCK FALSE
