SPECIFICATION Spec
CONSTANTS
  Reports = {r1, r2}
  Drains = {d1, d2}
  EventLoop = EventLoop
  NoReport = NoReport
  MaxAttempts = 2
  BatchSize = 2
  BackoffBase = 1
  BackoffMax = 1
  MaxSetback = 1
  MaxFaults = 1
SYMMETRY Symmetry
VIEW Observed
PROPERTIES
  SyncedStaysSynced
  RetriesNeverSetBack
  OutboxSpec
