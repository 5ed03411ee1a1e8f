SPECIFICATION Spec
CONSTANTS
  Unnamed = Unnamed
  k1 = k1
  k2 = k2
  Bodies <- Named
  MaxAttempts = 2
  MaxTurns = 2
  MaxMishaps = 2
INVARIANT RejectedRunAgain
CHECK_DEADLOCK FALSE
