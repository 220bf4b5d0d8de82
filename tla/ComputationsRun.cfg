SPECIFICATION Spec
CHECK_DEADLOCK FALSE
CONSTANTS
  SampleRates <- MCSampleRates
  TargetRate = 16000
  Logprobs <- MCLogprobs
  NoLogprob = NoLogprob
  MaxSegments = 4
  Parts = {"", "api", "reports", "health"}
  MaxParts = 4
INVARIANTS
  ResampleExact
  ReviewHasCause
  HealthUrlIsSibling
