\* Two requests in flight on one account.
CONSTANTS
  Users = {u1}
  Tokens = {t1, t2, t3}
  Requests = {r1, r2}
  None = None
  MaxFailed = 1
  MaxAttempts = 1
  MaxVersion = 1
  MaxExpired = 1
SYMMETRY Symmetry
SPECIFICATION Spec
INVARIANTS
  RotatedIsRevoked
  LateTokensAreDeadEnds
  ThresholdLocks
  RotatedOnce
  NoSessionOutlivesReset
PROPERTIES
  ResetSpendsCurrentLink
  LockStands
