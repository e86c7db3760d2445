SPECIFICATION RunnerFairSpec
CONSTANTS
  Contents = {1, 2, 3}
  MaxSwitches = 2
  MaxErrors = 1
INVARIANT ChildInv
PROPERTY FollowsAuth
\* a runner that has ended stops
CHECK_DEADLOCK FALSE
