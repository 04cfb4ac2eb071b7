CONSTANTS
  Clients = {c1, c2}
  Browsers = {}
  Names = {A, B}
  NoName = NoName
  MaxFd = 5
  HttpLimit = 1
  MaxCalls = 1
  MayDie = TRUE
  MayCrash = FALSE
SPECIFICATION FairSpec
INVARIANTS OwnSession ResponseMatches
PROPERTIES JoinedAnswered
CHECK_DEADLOCK FALSE
