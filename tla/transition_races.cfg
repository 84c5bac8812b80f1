SPECIFICATION FairSpec
CONSTANTS
  c1 = c1
  c2 = c2
  c3 = c3
  t1 = t1
  Task = {t1}
  Caller = {c1, c2}
  Initial <- AllStatuses
  Requests <- Moves
  CorrectiveTargets <- Repairs
  Branchless = {t1}
  MaxCalls = 2
INVARIANTS TypeOK ExitActionsOncePerDeparture
PROPERTIES ValidatedMovesAreLegal CallsReturn
CHECK_DEADLOCK FALSE
