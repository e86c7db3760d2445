SPECIFICATION HttpSpec
CONSTANTS
  acc1 = acc1
  acc2 = acc2
  acc3 = acc3
  key1 = key1
  key2 = key2
  Accounts <- MCAccounts
  Keys = {key1, key2}
  NoAccount = NoAccount
  Handlers = {h1, h2}
  Create = Create
  DoubleFailure = FALSE
  MaxTurns = 2
  MaxOpenFails = 1
  MaxDrops = 1
  Surfaces <- MCSurfaces
INVARIANTS ReplayInv SocketFollows ConversationInv AnsweredIsKnown
PROPERTY EachAnswered
\* clients stop after their last turn and request
CHECK_DEADLOCK FALSE
