SPECIFICATION AllSpec
CONSTANTS
  w1 = w1
  w2 = w2
  a = a
  c1 = c1
  c2 = c2
  Windows = {w1, w2}
  Words = {a}
  Text <- MCText
  Clients = {c1, c2}
  User = User
  Mixes <- MCMixes
  NoWindow = NoWindow
  Untagged = Untagged
  Described <- MCDescribed
  MaxFocus = 3
  s1 = s1
  s2 = s2
  s3 = s3
  n1 = n1
  n2 = n2
  d1 = d1
  d2 = d2
  g1 = g1
  p1 = p1
  p2 = p2
  Ids = {1, 2, 3}
  Sources = {s1, s2, s3}
  Normal <- MCNormal
  Tags = {n1, n2, d1, d2}
  Trimmed <- MCTrimmed
  Geometries = {g1}
  Unset = Unset
  Documents <- MCDocuments
  Appliers = {p1, p2}
  MaxApplies = 2
  MaxOthers = 1
  OtherTags = {n1}
  NaN = NaN
  NotGiven = NotGiven
  Asked <- MCRequests
  Found = 2
  MaxChars = 2
  MaxItems = 2
  MaxNumber = 2
  MaxFrame = 5
SYMMETRY MCSymmetry
INVARIANTS DeskTypeOK RecordsSettle LayoutIsKept AnswerIsHonest VerdictsAgree
PROPERTIES ResolvedIsMeant PruneIsSafe
CHECK_DEADLOCK FALSE
