CONSTANTS
  Clients = {c1, c2}
  Browsers = {}
  Names = {A}
  NoName = NoName
  MaxFd = 5
  HttpLimit = 1
  MaxCalls = 1
  MayDie = FALSE
  MayCrash = TRUE
SPECIFICATION Spec
INVARIANTS ResponseMatches
CHECK_DEADLOCK FALSE
