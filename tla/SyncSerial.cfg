SPECIFICATION LiveSpec
CONSTANTS
  Reports = {r1, r2}
  Drains = {d1}
  EventLoop = EventLoop
  NoReport = NoReport
  MaxAttempts = 3
  BatchSize = 1
  BackoffBase = 1
  BackoffMax = 3
  MaxSetback = 0
  MaxFaults = 2
PROPERTIES
  EachFailureCounts
  DeadLetterIsFinal
  BackoffRespected
  QueueSettles
