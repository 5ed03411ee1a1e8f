SPECIFICATION FairSpec
CONSTANTS
  Node <- LoopNode
  Start = "START"
  Edges <- LoopEdges
  NoRoute = "none"
  DefaultRoute = "default"
  Join = {"j"}
  WaitsForOutput = {}
  TaskAgent = {}
  RerunOnResume = {"x"}
  Limits = {1, 2}
  Does <- LoopDoes
  MaxRuns = 2
  MaxTurns = 3
INVARIANT OneResultPerRun
INVARIANT NeverStuck
INVARIANT CompletedMeansDrained
PROPERTY ReplayInOrder
PROPERTY JoinInputsAdvance
PROPERTY EveryTurnEnds
CHECK_DEADLOCK FALSE
