\* An execution that fails, and the staleness threshold passes before it is
\* retried.
SPECIFICATION FairSpec
CONSTANTS
  MaxRespawns = 1
  MaxRetries = 1
  MaxIsolation = 1
  MayBlock = FALSE
  MaxDeaths = 1
  MaxActs = 0
  MaxBreaks = 1
PROPERTY OldFailureIsSettled
CHECK_DEADLOCK FALSE
