SPECIFICATION DeskSpec
CONSTANTS
  w1 = w1
  w2 = w2
  a = a
  c1 = c1
  Windows = {w1, w2}
  Words = {a}
  Text <- MCBoth
  Clients = {c1}
  User = User
  Described <- MCNone
  Mixes <- MCFocus
  NoWindow = NoWindow
  Untagged = Untagged
  MaxFocus = 2
PROPERTY AmbiguousFails
CHECK_DEADLOCK FALSE
