SPECIFICATION HistoryLiveSpec
CONSTANTS
  Reports = {r1}
  Drains = {d1, d2}
  EventLoop = EventLoop
  NoReport = NoReport
  MaxAttempts = 3
  BatchSize = 1
  BackoffBase = 1
  BackoffMax = 2
  MaxSetback = 1
  MaxFaults = 1
INVARIANTS
  TypeOK
  NoReportLost
  DeadLettersTried
  RetriesBounded
PROPERTIES
  QueueSettles
