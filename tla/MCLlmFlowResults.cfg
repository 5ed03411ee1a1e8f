SPECIFICATION Spec
CONSTANTS
  p = p
  l = l
  g = g
  h = h
  Plain = {p}
  Long = {l}
  Gated = {g, h}
  MaxTurns = 3
  MaxMishaps = 1
PROPERTY ResultsAreKept
CHECK_DEADLOCK FALSE
