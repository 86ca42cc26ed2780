SPECIFICATION Spec
CONSTANTS
  w1 = w1
  c1 = c1
  t1 = t1
  Page = Page
  Windows = {w1}
  Domains = {}
  Clients = {c1}
  Terms = {t1}
  Requests <- MCOneGrant
  Gui = Gui
  Approvers = {User, Page}
  User = User
  None = None
  Scripts = FALSE
  MaxTokens = 2
INVARIANT UserApproves
CHECK_DEADLOCK FALSE
