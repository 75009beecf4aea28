\* delete() of records and result sets, in and out of transactions, with and
\* without savepoints; listeners and statements refuse or throw anywhere.
CONSTANTS
  a = a
  b = b
  c = c
  e = e
  Rows = {a, b, c, e}
  Shapes <- AllShapes
  MaxCalls = 2
  MaxLevel = 2
  MaxDepth = 9
  Verdicts = {"ok", "veto", "skip", "throw"}
  Faults = {"veto", "fail"}
  Savepoints = {FALSE, TRUE}
SPECIFICATION Spec
CHECK_DEADLOCK FALSE
INVARIANTS TypeOK LevelBalanced BulkAllOrNothing CascadeComplete RestrictHolds NoReentryOnceDeleted
