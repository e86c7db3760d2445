SPECIFICATION LockFairSpec
CONSTANTS
  Procs = {p1, p2, p3}
  NoPid = NoPid
  Partial = Partial
  MaxExits = 2
  MaxIoErrors = 1
INVARIANTS LockInv MutexUntilTakeover
PROPERTY DeadOwnerRecovered
\* every process may have exited
CHECK_DEADLOCK FALSE
