SPECIFICATION Spec
CHECK_DEADLOCK FALSE
CONSTANTS
  Clients = {c1, c2}
  Limit = 2
  Window = 2
  MaxTime = 7
INVARIANTS
  TypeOK
  LimitKept
  RejectedForCause
