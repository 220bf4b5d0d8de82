SPECIFICATION Spec
CONSTANTS
  Requests = {q1, q2}
  ProbeStates = {"ONLINE", "OFFLINE"}
  Startup = Startup
  None = None
INVARIANTS
  TypeOK
  OnlyTokenOpens
  ProductionConfigured
  ModelLoadedBefore
  TableWhenNeeded
  AnswersAudited
SYMMETRY Symmetry
VIEW Observed
