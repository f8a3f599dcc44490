SPECIFICATION FairSpec
CONSTANTS
  UI = UI
  Shell = Shell
  p = p
  m1 = m1
  m2 = m2
  w = w
  n1 = n1
  n2 = n2
  None = None
  Threaded = {m1, m2}
  Plain = {p}
  Workers = {w}
  Loads <- TwoGenerations
  Names = {n1, n2}
  Core = {n1}
  MaxAdds = 2
  MaxCalls = 2
INVARIANTS
  TypeOK
  HeldExactly
  NoneAfterQuit
PROPERTY CommandsServed
CHECK_DEADLOCK FALSE
