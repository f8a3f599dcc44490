SPECIFICATION Spec
CONSTANTS
  l1 = l1
  l2 = l2
  w1 = w1
  w2 = w2
  h1 = h1
  h2 = h2
  g = g
  None = None
  Listeners <- TwoTrays
  Threaded = {l2}
  Windows = {w1, w2}
  Identities <- TwoIcons
  Aliases <- ByWindow
  Handles = {h1, h2}
  MaxAsks = 3
INVARIANTS
  TypeOK
  ShowsWhatIsThere
CHECK_DEADLOCK FALSE
