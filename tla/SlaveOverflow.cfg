CONSTANTS
  Generators = 2
  Tries = 2
  Prompt = TRUE
  MaxRequests = 3
  MaxSessions = 2
SPECIFICATION Spec
INVARIANTS NoOverflow
CHECK_DEADLOCK FALSE
