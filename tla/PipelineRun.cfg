SPECIFICATION LiveSpec
CHECK_DEADLOCK FALSE
CONSTANTS
  Jobs = {j1, j2}
  MaxRetries = 3
  MaxFaults = 2
INVARIANTS
  TypeOK
  StatusBacked
  QueuedIsComplete
  ReplyTruthful
  ReviewsAreStored
PROPERTIES
  StagesInOrder
  EveryRequestEnds
