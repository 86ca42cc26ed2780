SPECIFICATION HostSpec
CONSTANTS
  w1 = w1
  w2 = w2
  Windows = {w1}
  Clients = {c1, c2}
  Nobody = Nobody
  Snapshots <- MCSnapshots
  Retentions = {}
  DefaultRetention = 1
  MaxTimeline = 2
  StorageMayFail = FALSE
  MaxDay = 1
  MaxQueue = 3
  MaxSessions = 2
  Calls = {"open", "status", "enable", "disable"}
  MaxPages = 2
INVARIANTS NoBackfill
