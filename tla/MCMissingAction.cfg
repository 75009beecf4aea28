\* A route whose action the handler does not have.
CONSTANTS
  c1 = c1
  c2 = c2
  NoRoute = NoRoute
  Classes = {c1, c2}
  Routes <- MissingAction
  Rets = {"on", "false", "throw"}
  Limit = 4
  MaxCalls = 1
  Reuse = FALSE
SPECIFICATION Spec
CHECK_DEADLOCK FALSE
INVARIANT ActionOnInitialized
