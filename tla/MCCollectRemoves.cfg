\* A handle committed twice.
CONSTANTS
  e1 = e1
  e2 = e2
  e3 = e3
  Effects = {e1}
  MaxTx = 2
  MaxLevel = 1
  MayAbort = FALSE
SPECIFICATION Spec
CHECK_DEADLOCK FALSE
PROPERTY CollectRemoves
