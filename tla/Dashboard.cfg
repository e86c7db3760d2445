SPECIFICATION DashSpec
CONSTANTS
  a = a
  b = b
  Accounts <- MCAccounts
  Imported = i
  Proxy = Proxy
  Matching <- MCMatching
  None = None
  Loads <- MCLoads
INVARIANT ScreenInv
PROPERTIES DeletedAsAgreed ScreenFollows Closes
CHECK_DEADLOCK FALSE
