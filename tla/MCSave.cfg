\* Repeated save() calls in and out of transactions; validation, listeners and
\* statements refuse or throw anywhere.
CONSTANTS
  a = a
  b = b
  c = c
  Records = {a, b, c}
  Shapes <- AllShapes
  MaxCalls = 2
  MaxLevel = 2
  Verdicts = {"ok", "veto", "skip", "unchanged", "throw"}
  Faults = {"veto", "fail"}
  AppTx = TRUE
  ThrowOnFail = {FALSE, TRUE}
SPECIFICATION Spec
CHECK_DEADLOCK FALSE
INVARIANTS TypeOK LevelBalanced AllOrNothing AttachedAreStored ReferencesHold DepthBounded WrittenParentSkipped
PROPERTY DurableAtOnce
