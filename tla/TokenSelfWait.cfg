\* A refresh token the server no longer accepts.
CONSTANTS
  Calls = {c1}
  Flights = {f1}
  None = None
  SessionsEnd = TRUE
  Losses = FALSE
  MaxPairs = 3
CHECK_DEADLOCK FALSE
SPECIFICATION FairSpec
PROPERTIES
  CallsEnd
