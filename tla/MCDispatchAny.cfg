\* Routes of every kind, hooks that do anything.
CONSTANTS
  c1 = c1
  c2 = c2
  NoRoute = NoRoute
  Classes = {c1, c2}
  Routes <- AnyRoutes
  Rets = {"on", "false", "throw", "error"}
  Limit = 4
  MaxCalls = 1
  Reuse = TRUE
SPECIFICATION FairSpec
CHECK_DEADLOCK FALSE
INVARIANTS TypeOK NoForwardLost InitializedOnce InitializedBeforeAction
PROPERTY DispatchReturns
