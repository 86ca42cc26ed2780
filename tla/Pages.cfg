SPECIFICATION PagesSpec
CONSTANTS
  w1 = w1
  d1 = d1
  c1 = c1
  c2 = c2
  t1 = t1
  t2 = t2
  r1 = r1
  r2 = r2
  Page = Page
  Windows = {w1}
  Domains = {d1}
  Clients = {c1, c2}
  Terms = {t1, t2}
  Requests <- MCOneWindow
  Gui = Gui
  Approvers = {Page}
  User = User
  None = None
  Scripts = TRUE
  MaxTokens = 2
  MaxResponse = 1
  MaxU64 = 7
  MediaWindows = {m}
  VideoWindows = {v}
  Connections = {r1, r2}
  Headers <- FewHeaders
  Images = {}
  Bytes = 2
SYMMETRY Interchangeable
CONSTRAINT OneWindow
INVARIANTS TypeOK AnsweredIsAuthorized ClosedIsNotAuthorized GuiGoesOn
INVARIANTS PresentTypeOK NothingIsLeft EndedIsNotServed BodyIsItsRange
PROPERTIES NoLateApproval
CHECK_DEADLOCK FALSE
