CONSTANTS
  c1 = c1  c2 = c2  c3 = c3
  s1 = s1  s2 = s2
  p1 = p1  p2 = p2
  Client <- MCClient
  ProcessOf <- MCProcessOf
  Session = {s1, s2}
  SessionOf <- MCSessionOf
  Dialects = {"rows", "file"}
  NoCopy = NoCopy
  MaxStamp = 4
SPECIFICATION Spec
INVARIANTS FreshCopiesAreComplete
PROPERTIES NoBlindAppend NoDeltaLost
