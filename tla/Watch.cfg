SPECIFICATION WatchSpec
CONSTANTS
  k1 = k1
  k2 = k2
  a = a
  b = b
  c = c
  e1 = e1
  e2 = e2
  Reader = Reader
  Signaller = Signaller
  Tasks <- MCTasks
  NoTask = NoTask
  Pids = {1, 2, 3, 4, 5}
  NoPid = 0
  Scripts = {s1, s2}
  NoScript = NoScript
  Threads = {h1, h2}
  Accounts <- MCAccounts
  EmailOf <- MCEmail
  Proxy = Proxy
  NoAccount = NoAccount
  Works <- MCWorks
INVARIANTS DesktopInv Undisturbed WatchInv RankingSound
PROPERTY NothingStuck
CHECK_DEADLOCK FALSE
