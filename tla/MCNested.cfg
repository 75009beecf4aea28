\* Callers of any kind, vetoing listeners, a server that refuses commands, and
\* connections dropped and restored inside a scope.
CONSTANTS
  e1 = e1
  e2 = e2
  e3 = e3
  Effects = {e1, e2, e3}
  MaxLevel = 4
  MaxPoints = 4
  Faults = {"veto", "fail"}
SYMMETRY Interchangeable
SPECIFICATION Spec
INVARIANTS TypeOK SessionMatchesLevel ActiveIsCounted ScopesHaveSavepoints
PROPERTIES DurableOnlyOutside ImplementsNestedScopes
