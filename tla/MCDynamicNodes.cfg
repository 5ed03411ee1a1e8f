SPECIFICATION Spec
CONSTANTS
  Unnamed = Unnamed
  k1 = k1
  k2 = k2
  Bodies <- Ordinary
  MaxAttempts = 3
  MaxTurns = 2
  MaxMishaps = 2
INVARIANT OwnResults
INVARIANT RejectedStayRejected
PROPERTY RetryReplays
PROPERTY TurnsReplay
CHECK_DEADLOCK FALSE
