SPECIFICATION LiveSpec
CHECK_DEADLOCK FALSE
CONSTANTS
  Notes = {n1}
  MaxSubmissions = 2
  Drains = {d1}
  EventLoop = EventLoop
  NoReport = NoReport
  MaxAttempts = 1
  BatchSize = 1
  BackoffBase = 1
  BackoffMax = 1
  MaxRetries = 1
  MaxSetback = 0
  MaxFaults = 1
INVARIANTS
  TypeOK
  AcknowledgedIsKept
  ErrorQueuedNothing
PROPERTIES
  PipelineSpec
  AcknowledgedArrives
VIEW Observed
