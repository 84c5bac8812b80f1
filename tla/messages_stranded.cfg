SPECIFICATION FairSpec
CONSTANTS
  m1 = m1
  m2 = m2
  r1 = r1
  r2 = r2
  Message = {m1, m2}
  Run = {r1, r2}
  MaxPauses = 0
PROPERTY SentIsServed
CHECK_DEADLOCK FALSE
