\* Callers of every handle in any order, nested blocks, in a request the
\* client may abort.
CONSTANTS
  e1 = e1
  e2 = e2
  e3 = e3
  Effects = {e1, e2}
  MaxTx = 2
  MaxLevel = 2
  MayAbort = TRUE
SYMMETRY Interchangeable
SPECIFICATION Spec
CHECK_DEADLOCK FALSE
INVARIANTS TypeOK NumberIsCount PendingIsListed ShutdownRollsBack
PROPERTIES CommitIsForGood AbortStopsCommit
