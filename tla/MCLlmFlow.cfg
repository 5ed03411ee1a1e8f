SPECIFICATION LiveSpec
CONSTANTS
  p = p
  l = l
  g = g
  h = h
  Plain = {p}
  Long = {l}
  Gated = {g}
  MaxTurns = 3
  MaxMishaps = 2
INVARIANT ModelSeesAnswers
INVARIANT LongRunsOnce
PROPERTY RecordedNeverReruns
PROPERTY ApprovedRuns
PROPERTY SealedNeverRuns
PROPERTY TurnEnds
CHECK_DEADLOCK FALSE
