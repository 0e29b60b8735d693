\* The first call of the day on Postgres.
CONSTANTS
  Requests = {r1}
  Types <- MCTypes
  None = None
  Cap <- MCCap
  CountsFirst = FALSE
  MaxDay = 0
  MaxCalls = 2
SYMMETRY Symmetry
SPECIFICATION Spec
INVARIANTS
  EveryCallCounted
