\* Three requests of one user on Postgres, a chain that ends with the stub.
CONSTANTS
  r1 = r1
  r2 = r2
  r3 = r3
  Requests = {r1, r2, r3}
  None = None
  Types <- MCTypes
  Cap <- MCCap
  CountsFirst = FALSE
  MaxDay = 0
  MaxCalls = 3
  Chain <- MCChain
  Checker = "openai"
  Asks <- MCAsks
CHECK_DEADLOCK FALSE
SYMMETRY Symmetry
SPECIFICATION Spec
INVARIANTS
  VerdictsStand
  SpendCapped
  AnswersAreBacked
  NoOrphans
  FailoverIsComplete
PROPERTIES
  UsesQuota
