SPECIFICATION FairSpec
CONSTANTS
  t1 = t1
  t2 = t2
  Task = {t1, t2}
  Initial <- InWork
  Outcomes <- Reports
  MaxConcurrent = 1
  MaxResumeAttempts = 1
  ReadFails = TRUE
  MaxCommands = 1
  MaxRestarts = 1
PROPERTY WorkGoesOn
CHECK_DEADLOCK FALSE
