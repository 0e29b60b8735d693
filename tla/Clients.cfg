\* The mobile app with lost answers, ended sessions and kills; its editor and
\* drafts; and the portal in a tab.
CONSTANTS
  Calls = {c1, c2}
  Flights = {f1, f2}
  None = None
  SessionsEnd = TRUE
  Losses = TRUE
  MaxPairs = 5
  l1 = l1
  l2 = l2
  LayerIds = {l1, l2}
  NoLayer = NoLayer
  Scenes <- MCScenes
  Drags <- MCDrags
  Pinches <- MCPinches
  s1 = s1
  s2 = s2
  s3 = s3
  Sessions = {s1, s2, s3}
  Edits <- MCEdits
  MaxDrafts = 2
  NoList = NoList
  Fetches = {q1, q2}
  Exchanges = {x1, x2}
  NoExchange = NoExchange
  MaxWebPairs = 4
CHECK_DEADLOCK FALSE
SPECIFICATION ClientsFairSpec
INVARIANTS
  ClientsTypeOK
  OneRefresh
  NoFalseAlarm
  StoredIsUsable
  LayersClear
  DraftsKept
  PortalRefreshSound
PROPERTIES
  CallsEndUnlessRefused
  DraftsLeave
