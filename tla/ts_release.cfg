SPECIFICATION Spec
CONSTANTS
  c1 = c1
  c2 = c2
  c3 = c3
  t1 = t1
  Task = {t1}
  Caller = {c1, c2}
  Initial <- AllStatuses
  Requests <- Moves
  CorrectiveTargets <- Repairs
  Branchless = {}
  MaxCalls = 2
INVARIANT ReleaseOnlyOnDeparture
CHECK_DEADLOCK FALSE
