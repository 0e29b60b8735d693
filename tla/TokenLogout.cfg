\* The user logs out while a refresh is in flight.
CONSTANTS
  Calls = {c1}
  Flights = {f1}
  None = None
  SessionsEnd = FALSE
  Losses = FALSE
  MaxPairs = 3
SPECIFICATION Spec
INVARIANTS
  LogoutClears
