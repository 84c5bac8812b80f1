\* The target is checked out at the root, and the mark of an attempt expires
\* while it validates.
SPECIFICATION Spec
CONSTANTS
  t1 = t1
  t2 = t2
  Task = {t1, t2}
  Arrivals <- InTurn
  CheckedOut = TRUE
  Validates = TRUE
  MaxRetries = 1
  MaxSetbacks = 1
INVARIANT MergedIsOnTarget
CHECK_DEADLOCK FALSE
