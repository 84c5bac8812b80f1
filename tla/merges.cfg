\* Two tasks merge into a target that is not checked out, with one setback and
\* one automatic retry of each.
SPECIFICATION FairSpec
CONSTANTS
  t1 = t1
  t2 = t2
  Task = {t1, t2}
  Arrivals <- InTurn
  CheckedOut = FALSE
  Validates = TRUE
  MaxRetries = 1
  MaxSetbacks = 1
INVARIANTS TypeOK AloneIsSafe
PROPERTY Settles
CHECK_DEADLOCK FALSE
