\* A task in execution whose agent or worktree fails once, with a restart of
\* the program and an intervention of the user in between.
SPECIFICATION FairSpec
CONSTANTS
  MaxRespawns = 1
  MaxRetries = 1
  MaxIsolation = 1
  MayBlock = TRUE
  MaxDeaths = 1
  MaxActs = 1
  MaxBreaks = 1
INVARIANT TypeOK
PROPERTIES GivenUpIsLeftAlone DeathIsNoticed FailedIsSettled
CHECK_DEADLOCK FALSE
