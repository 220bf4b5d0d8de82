SPECIFICATION Spec
CHECK_DEADLOCK FALSE
CONSTANTS
  Jobs = {j1}
  MaxRetries = 3
  MaxFaults = 0
INVARIANTS
  FailureIsMarked
