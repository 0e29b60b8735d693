\* Every component of the backend that has no run of its own, each with
\* overlapping calls and the failures its code handles; the quota in memory.
CONSTANTS
  Requests = {r1, r2, r3}
  Types <- MCTypes
  None = None
  Cap <- MCCap
  CountsFirst = TRUE
  MaxDay = 1
  MaxCalls = 3
  Callers = {c1, c2}
  Keys = {k1}
  Data = {d1, d2}
  NoBlob = NoBlob
  Torn = Torn
  Suggestions <- MCSuggestions
  Wanted <- MCWanted
  t1 = t1
  p1 = p1
  alice = alice
  bob = bob
  o1 = o1
  o2 = o2
  AdminOf <- MCAdminOf
  Sender <- MCSender
  Tasks = {t1, t2, t3}
  Admins = {alice, bob}
  Flags = {f1}
  Owners = {u1}
  Bodies <- MCBodies
  NoCap = NoCap
  Negative = Negative
  Nobody = Nobody
  MaxRecords = 1
  Puts = {p1, p2, p3}
  KitIds = {kit, Nil}
  Nil = Nil
  NilId = Nil
  People = {o1, o2}
  Inputs = {i1, i2}
  NoKit = NoKit
  Posts = {m1, m2, m3}
  Batch = 2
  Horizon = 1
  MaxClock = 2
  Visits = {v1, v2, v3}
  Addresses = {a1, a2}
  Visitors = {w1}
  Anonymous = Anonymous
  PerAddress = 2
  PerVisitor = 0
  NoBucket = NoBucket
  MaxTicks = 1
  Accounts = {x1}
  Operators = {}
  Ids = {j1, j2}
  NoId = NoId
  Handlers = {h1, h2}
  MaxTokens = 3
  Environments <- MCEnvironments
  Unset = Unset
CHECK_DEADLOCK FALSE
SPECIFICATION BackendSpec
INVARIANTS
  BackendTypeOK
  DailyCap
  EveryCallCounted
  TagsAsPromised
  StateIsAudited
  AdminsToldTruth
  KitsSafe
  NotifiedOnce
  RateKept
  TokensKeepTheirWord
  ServesAsConfigured
PROPERTIES
  ActsAsBlobStore
  AllFire
  DeletedIsOut
