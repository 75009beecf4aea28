\* A failed save() of a graph is tried again.
CONSTANTS
  a = a
  b = b
  c = c
  Records = {a, b, c}
  Shapes <- AllShapes
  MaxCalls = 2
  MaxLevel = 1
  Verdicts = {"ok", "veto"}
  Faults = {}
  AppTx = FALSE
  ThrowOnFail = {FALSE}
SPECIFICATION Spec
CHECK_DEADLOCK FALSE
INVARIANT TrueMeansStored
