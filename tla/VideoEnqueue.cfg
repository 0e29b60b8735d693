\* A client leaves while its handler waits for channel space.
CONSTANTS
  Jobs = {j1, j2}
  None = None
  Buffer = 1
  CtxChecked = TRUE
  Faults = FALSE
SPECIFICATION Spec
INVARIANTS
  EnqueueFailureRecorded
