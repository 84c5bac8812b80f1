SPECIFICATION Spec
CONSTANTS
  t1 = t1
  t2 = t2
  t3 = t3
  Task = {t1, t2}
  Scheduler = {s1, s2}
  Startup = startup
  Blockers <- Pair
  PlanMerge = {}
  Initial <- AtPair
  Moves <- Merges
  DbMayFail = FALSE
  MaxMoves = 1
  MaxCrashes = 0
PROPERTY StartedStaysStarted
CHECK_DEADLOCK FALSE
