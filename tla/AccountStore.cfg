SPECIFICATION Spec
CONSTANTS
  p1 = p1
  p2 = p2
  Procs = {p1, p2}
  Names = {n1, n2}
  Ids = {i1, i2}
  NoName = NoName
  NoId = NoId
  NoProc = NoProc
  Loads <- AloneOrTame
  MaxTokens = 3
  MaxCrashes = 1
SYMMETRY StoreSymmetry
INVARIANTS StoreInv TokensLive SwitchSticks
