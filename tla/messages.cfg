SPECIFICATION FairSpec
CONSTANTS
  m1 = m1
  m2 = m2
  r1 = r1
  r2 = r2
  Message = {m1, m2}
  Run = {r1, r2}
  MaxPauses = 1
INVARIANTS TypeOK InOnePlace AnsweredOnce
PROPERTY Drains
CHECK_DEADLOCK FALSE
