\* A timed-out task whose retries the user ends, and a restart of the program.
SPECIFICATION Spec
CONSTANTS
  MaxRespawns = 1
  MaxRetries = 1
  MaxIsolation = 1
  MayBlock = FALSE
  MaxDeaths = 1
  MaxActs = 1
  MaxBreaks = 1
PROPERTY TimeoutGivenUpIsLeftAlone
CHECK_DEADLOCK FALSE
