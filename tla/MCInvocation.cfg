SPECIFICATION FairSpec
CONSTANTS
  Node = {n1, n2}
  Detached = {n2}
  Nobody = Nobody
  n1 = n1
  n2 = n2
  MaxEvents <- MCMaxEvents
INVARIANTS NodesSeeTheirEvents RetrySeesSiblings SealedAtMostOnce AbortedIsSealed EverythingSaid
PROPERTY EveryRunEnds
CHECK_DEADLOCK FALSE
