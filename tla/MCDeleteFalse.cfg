\* A record of a cascade is refused.
CONSTANTS
  a = a
  b = b
  c = c
  e = e
  Rows = {a, b, c, e}
  Shapes <- AllShapes
  MaxCalls = 1
  MaxLevel = 1
  MaxDepth = 9
  Verdicts = {"ok", "veto"}
  Faults = {}
  Savepoints = {FALSE}
SPECIFICATION Spec
CHECK_DEADLOCK FALSE
INVARIANT FalseMeansKept
