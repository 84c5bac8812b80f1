SPECIFICATION Spec
CONSTANTS
  t1 = t1
  t2 = t2
  Task = {t1, t2}
  Arrivals <- InTurn
  CheckedOut = FALSE
  Validates = TRUE
  MaxRetries = 1
  MaxSetbacks = 1
INVARIANT CheckoutIsLeftAlone
CHECK_DEADLOCK FALSE
