SPECIFICATION ServicesSpec
CONSTANTS
  w1 = w1
  c1 = c1
  Windows = {w1}
  Clients = {c1}
  Nobody = Nobody
  Snapshots <- MCWebOnly
  Retentions = {0, 1}
  DefaultRetention = 1
  MaxTimeline = 2
  StorageMayFail = TRUE
  MaxDay = 2
  MaxQueue = 2
  MaxSessions = 2
  v1 = v1
  k1 = k1
  k2 = k2
  Panes = {v1}
  Desktops = {0, 1}
  All = All
  Nowhere = Nowhere
  Callers = {k1, k2}
  Platforms = {"x11", "windows"}
  MaxTrail = 2
  MaxMoves = 1
  MaxRequests = 2
  u1 = u1
  u2 = u2
  Urls = {u1, u2}
  Requested = u1
  Opens = TRUE
  Retries = TRUE
  StatusPolls = TRUE
  MaxHistory = 1
  MaxLoads = 2
  h1 = h1
  h2 = h2
  h3 = h3
  Hosts = {h1, h2, h3}
  Foreign = Foreign
  NoInode = NoInode
  Paths = {NoInode, Foreign, 0}
  e1 = e1
  e2 = e2
  Senders = {e1, e2}
  Shapes <- MCShapes
  Systems = {"linux", "windows"}
  Threads = 1
  MaxKills = 1
  b1 = b1
  b2 = b2
  b3 = b3
  Batches = {b1, b2, b3}
  Actions <- MCActions
  MaxChanges = 1
  MaxPolls = 2
  Observations <- MCObservations
  Budget = 5
  Absent = Absent
INVARIANTS ServicesTypeOK PlacementIsTrue OrderlyIsLive TimelineIsTrue ServedPath
INVARIANTS OnlyReadsLeaveDoubt StepsAreTrue ResultIsBounded
INVARIANTS SessionsMatchOpenRows DisabledTracksNothing
PROPERTIES BegunEnds HistoryIsFinal NoPrematureLoss ImplementsLog
CHECK_DEADLOCK FALSE
