SPECIFICATION FairSpec
CONSTANTS
  N = 3
  MaxWorkers = 2
  Does <- ItemsDo
  MaxTurns = 3
INVARIANTS ResultsInPlace OneResultPerItem NothingLeftRunning InterruptSparesSiblings NeverStuck
PROPERTIES WorkerEnds
CHECK_DEADLOCK FALSE
