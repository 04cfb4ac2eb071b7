CONSTANTS
  Clients = {c1}
  NoClient = NoClient
  Vals = {v1, v2, v3}
  NoVal = NoVal
  Perfs = {1, 2}
  Infinity = 3
  MinCap = 3
  WordInts = 2
  ClientCount = 1
  PerClient = 1
  MaxJoins = 1
  MaxRestarts = 0
  MayPause = TRUE
  SigMatch = {TRUE}
  MayLeave = FALSE
  PoolIds = {1, 2, 3, 4, 5, 6, 7, 8}
  Stack <- AllLayers
  AggTimes = 2
  ValidVals = {v1, v2}
  SimplexSize = 2
  RejectType = "RANDOM"
  MaxRounds = 3
  StrategyInit <- ProStart
  StrategyRestart <- ProRestart
  StrategyGenerate <- ProGenerate
  StrategyRejected <- ProRejected
  StrategyAnalyze <- ProAnalyze
  StrategyBest <- ProBest
  StrategyConverged <- ProConverged
  LstackLen <- StackLen
  Callbacks <- StackCallbacks
  LayerInit <- StackInit
  LayerGenerate <- StackGenerate
  LayerAnalyze <- StackAnalyze
  LayerCallback <- StackCallback
SPECIFICATION Spec
INVARIANTS TrialsAccounted QueuedIsPrepared SkipIsForHit
PROPERTIES PoolSpec
CHECK_DEADLOCK FALSE
