SPECIFICATION ApplySpecification
CONSTANTS
  s1 = s1
  n1 = n1
  n2 = n2
  g1 = g1
  p1 = p1
  Ids = {1, 2, 3}
  Sources = {s1}
  Normal <- MCNormal
  Tags = {n1, n2}
  Trimmed <- MCTrimmed
  Geometries = {g1}
  Unset = Unset
  Documents <- MCTwins
  Appliers = {p1}
  MaxApplies = 2
  MaxOthers = 0
  OtherTags = {n1}
INVARIANT LayoutStaysOpen
CHECK_DEADLOCK FALSE
