SPECIFICATION FairSpec
CONSTANTS
  t1 = t1
  t2 = t2
  t3 = t3
  Task = {t1, t2}
  Scheduler = {}
  Startup = startup
  Blockers <- Pair
  PlanMerge = {}
  Initial <- AtPair
  Moves <- BlockersMove
  DbMayFail = FALSE
  MaxMoves = 2
  MaxCrashes = 2
INVARIANT NeverUnblockedEarly
PROPERTIES WakesAtStartup ReblocksAtStartup
CHECK_DEADLOCK FALSE
