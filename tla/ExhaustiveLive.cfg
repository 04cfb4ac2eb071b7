CONSTANTS
  Clients = {c1}
  NoClient = NoClient
  Vals = {1, 2, 3}
  NoVal = NoVal
  Perfs = {1, 2}
  Infinity = 3
  MinCap = 2
  WordInts = 2
  ClientCount = 1
  PerClient = 1
  MaxJoins = 1
  MaxRestarts = 0
  MayPause = FALSE
  SigMatch = {TRUE}
  MayLeave = FALSE
  PoolIds = {1, 2, 3, 4, 5, 6}
  Stack <- AggLayer
  AggTimes = 2
  ValidVals = {1, 2, 3}
  Plugins = {"exhaustive"}
  SimplexSize = 2
  RejectType = "RANDOM"
  MaxRounds = 1
  MaxTrials = 4
  PerfCount = 2
  Space <- ThreePoints
  Passes = 1
  StrategyInit <- SearchInit
  StrategyRestart <- SearchRestart
  StrategyGenerate <- SearchGenerate
  StrategyRejected <- SearchRejected
  StrategyAnalyze <- SearchAnalyze
  StrategyBest <- SearchBest
  StrategyConverged <- SearchConverged
  LstackLen <- StackLen
  Callbacks <- StackCallbacks
  LayerInit <- StackInit
  LayerGenerate <- StackGenerate
  LayerAnalyze <- StackAnalyze
  LayerCallback <- StackCallback
SPECIFICATION FairSpec
PROPERTIES VisitsAll TrialsReturnOrConverged
