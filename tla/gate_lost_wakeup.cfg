SPECIFICATION FairSpec
CONSTANTS
  t1 = t1
  t2 = t2
  t3 = t3
  Task = {t1, t2, t3}
  Scheduler = {}
  Startup = startup
  Blockers <- Join
  PlanMerge = {}
  Initial <- AtJoin
  Moves <- Merges
  DbMayFail = FALSE
  MaxMoves = 2
  MaxCrashes = 0
PROPERTY MergeUnblocks
CHECK_DEADLOCK FALSE
