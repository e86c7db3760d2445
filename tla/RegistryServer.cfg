SPECIFICATION Spec
CONSTANTS
  Threads = {t1, t2}
  NoThread = NoThread
  Clients = {a, b}
  NoClient = NoClient
  MaxExp = 2
  MaxLeases = 2
  MaxVersion = 3
  MaxDeletes = 1
  MaxCrashes = 1
  MaxForced = 1
INVARIANT IndexInv
PROPERTIES NeverRewoundWhileUp AtomicApi
\* the bounds on uploads and leases let the clients run out of requests
CHECK_DEADLOCK FALSE
