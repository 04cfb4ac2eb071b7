CONSTANTS
  Clients = {c1, c2}
  Browsers = {b1}
  Names = {A}
  NoName = NoName
  MaxFd = 5
  HttpLimit = 1
  MaxCalls = 1
  MayDie = FALSE
  MayCrash = FALSE
SPECIFICATION Spec
INVARIANTS TypeOK TablesSound OwnReplies
SYMMETRY ClientSymmetry
CHECK_DEADLOCK FALSE
