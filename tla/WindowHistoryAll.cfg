SPECIFICATION HostSpec
CONSTANTS
  w1 = w1
  w2 = w2
  Windows = {w1, w2}
  Clients = {c1}
  Nobody = Nobody
  Snapshots <- MCSnapshots
  Retentions = {0}
  DefaultRetention = 1
  MaxTimeline = 2
  StorageMayFail = TRUE
  MaxDay = 1
  MaxQueue = 3
  MaxSessions = 2
  Calls = {"open", "close_all", "list", "clear", "retention"}
  MaxPages = 1
INVARIANTS ReasonTruthful
