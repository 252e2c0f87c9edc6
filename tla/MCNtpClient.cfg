SPECIFICATION Spec
CONSTANTS
  MaxPoll = 3
  MaxRequests = 4
  Events = {"lost", "slow", "overtaken", "duplicate", "update"}
INVARIANTS
  TypeOK
PROPERTIES
  CalmAnswers
  InTimeIsAnswered
CHECK_DEADLOCK FALSE
