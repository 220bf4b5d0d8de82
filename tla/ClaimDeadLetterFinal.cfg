SPECIFICATION Spec
CONSTANTS
  Reports = {r1}
  Drains = {d1, d2}
  EventLoop = EventLoop
  NoReport = NoReport
  MaxAttempts = 2
  BatchSize = 1
  BackoffBase = 1
  BackoffMax = 1
  MaxSetback = 0
  MaxFaults = 0
PROPERTIES
  DeadLetterIsFinal
