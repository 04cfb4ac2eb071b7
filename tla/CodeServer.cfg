CONSTANTS
  Generators = 2
  Tries = 3
  Prompt = TRUE
  MaxRequests = 4
  MaxSessions = 1
SPECIFICATION FairSpec
INVARIANTS TypeOK AnswersInOrder SlotsCounted NoOverflow
PROPERTIES RequestsAnswered
CHECK_DEADLOCK FALSE
