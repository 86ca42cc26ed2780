SPECIFICATION WorkspaceSpec
CONSTANTS
  v1 = v1
  k1 = k1
  k2 = k2
  Panes = {v1}
  Desktops = {0, 1}
  All = All
  Nowhere = Nowhere
  Callers = {k1, k2}
  Platforms = {"x11"}
  MaxTrail = 2
  MaxMoves = 1
  MaxRequests = 2
INVARIANT MoveIsConfirmed
CHECK_DEADLOCK FALSE
