SPECIFICATION Spec
CONSTANTS
  a = a
  b = b
  p1 = p1
  p2 = p2
  u = u
  v = v
  f1 = f1
  f2 = f2
  Names <- MCNames
  Who = {u, v}
  Tabs <- MCTabs
  Tray = Tray
  Flows <- MCFlows
  NoFlow = NoFlow
  Loop = Loop
  Runners <- MCRunners
  NoTok = NoTok
  NoName = NoName
  NoSlot = NoSlot
  Works <- MCWorks
INVARIANTS AddInv PortInv ConsoleInv
PROPERTY LoginsEnd
CHECK_DEADLOCK FALSE
