SPECIFICATION FairSpec
CONSTANTS
  c1 = c1
  c2 = c2
  t1 = t1
  Cli = {c1, c2}
  Tui = {t1}
  Daemon = Daemon
  Server = Server
  NoProc = NoProc
  Accounts = {a, b}
  WithConfig = {b}
  Synth = Synth
  NoFile = NoFile
  Loads <- OrderlyOrOverlapping
  MaxLogins = 1
  MaxCrashes = 1
  
PROPERTY ProxyReturns
\* the bounds on commands let everything come to rest
CHECK_DEADLOCK FALSE
