\* The target is checked out at the root: no two attempts overlap, and still a
\* retry that has nothing to merge takes another task's commit away.
SPECIFICATION Spec
CONSTANTS
  t1 = t1
  t2 = t2
  Task = {t1, t2}
  Arrivals <- InTurn
  CheckedOut = TRUE
  Validates = TRUE
  MaxRetries = 1
  MaxSetbacks = 1
INVARIANT AloneIsSafe
CHECK_DEADLOCK FALSE
