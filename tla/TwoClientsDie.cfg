CONSTANTS
  Clients = {c1, c2}
  NoClient = NoClient
  Vals = {v1}
  NoVal = NoVal
  Perfs = {1, 2}
  Infinity = 3
  MinCap = 2
  WordInts = 2
  ClientCount = 1
  PerClient = 1
  MaxJoins = 2
  MaxRestarts = 0
  MayPause = FALSE
  SigMatch = {TRUE}
  MayLeave = FALSE
  PoolIds = {1, 2, 3, 4, 5, 6}
  Stack <- NoLayers
  AggTimes = 2
  ValidVals = {v1}
  SimplexSize = 2
  RejectType = "RANDOM"
  MaxRounds = 2
  StrategyInit <- ProStart
  StrategyRestart <- ProRestart
  StrategyGenerate <- ProGenerate
  StrategyRejected <- ProRejected
  StrategyAnalyze <- ProAnalyze
  StrategyBest <- ProBest
  StrategyConverged <- ProConverged
  LstackLen <- StackLen
  Callbacks <- StackCallbacks
  LayerInit <- StackInit
  LayerGenerate <- StackGenerate
  LayerAnalyze <- StackAnalyze
  LayerCallback <- StackCallback
SPECIFICATION Spec
INVARIANTS SessionAlive
CHECK_DEADLOCK FALSE
