SPECIFICATION Spec
CONSTANTS
  Requests = {q1, q2}
  ProbeStates = {"ONLINE", "OFFLINE"}
  Startup = Startup
  None = None
INVARIANT StatusTellsDrains
