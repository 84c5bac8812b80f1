\* One execution whose agent dies again and again, with nobody interfering.
SPECIFICATION Spec
CONSTANTS
  MaxRespawns = 1
  MaxRetries = 1
  MaxIsolation = 1
  MayBlock = FALSE
  MaxDeaths = 3
  MaxActs = 0
  MaxBreaks = 0
INVARIANT RespawnsAreBounded
CHECK_DEADLOCK FALSE
