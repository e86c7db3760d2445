SPECIFICATION FairSpec
CONSTANTS
  a = a
  b = b
  pa = pa
  pb = pb
  sweep = sweep
  Clients = {a, b}
  NoClient = NoClient
  MaxExp = 3
  MaxLeases = 9
  Forced = {FALSE}
  Passes = {pa, pb, sweep}
  Sweepers = {sweep}
  MachineOf <- DaemonToo
  MaxDays = 1
  MaxEvents = 1
INVARIANTS LeaseExcludes TokensInv
PROPERTIES NeverRewound Propagates
