SPECIFICATION Spec
CONSTANTS
  t1 = t1
  t2 = t2
  Task = {t1, t2}
  Initial <- InWork
  Outcomes <- Reports
  MaxConcurrent = 1
  MaxResumeAttempts = 1
  ReadFails = FALSE
  MaxCommands = 2
  MaxRestarts = 1
SYMMETRY Symmetry
PROPERTY ResumesWherePaused
CHECK_DEADLOCK FALSE
