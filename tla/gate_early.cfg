SPECIFICATION Spec
CONSTANTS
  t1 = t1
  t2 = t2
  t3 = t3
  Task = {t1, t2, t3}
  Scheduler = {s1}
  Startup = startup
  Blockers <- Join
  PlanMerge = {t1, t2}
  Initial <- AtJoin
  Moves <- BlockersMove
  DbMayFail = TRUE
  MaxMoves = 3
  MaxCrashes = 0
SYMMETRY BlockerSymmetry
INVARIANTS TypeOK NeverUnblockedEarly
CHECK_DEADLOCK FALSE
