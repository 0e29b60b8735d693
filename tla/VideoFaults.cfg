\* Postgres; writes fail, clients leave, the process stops and restarts, and
\* three handlers compete for one channel slot.
CONSTANTS
  Jobs = {j1, j2, j3}
  None = None
  Buffer = 1
  CtxChecked = TRUE
  Faults = TRUE
SPECIFICATION FairSpec
INVARIANTS
  ResultsAreStored
  NothingForgotten
PROPERTIES
  FinalStands
  JobsSettle
