SPECIFICATION HostSpec
CONSTANTS
  w1 = w1
  w2 = w2
  Windows = {w1}
  Clients = {c1, c2}
  Nobody = Nobody
  Snapshots <- MCSnapshots
  Retentions = {}
  DefaultRetention = 1
  MaxTimeline = 2
  StorageMayFail = FALSE
  MaxDay = 1
  MaxQueue = 2
  MaxSessions = 3
  Calls = {"open", "close", "enable", "disable", "status"}
  MaxPages = 2
SYMMETRY MCSymmetry
INVARIANTS HostTypeOK TrackedWhileOpen NoGhostSession OneRowPerWindow FinalStateRecorded
