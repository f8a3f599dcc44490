SPECIFICATION FairSpec
CONSTANTS
  w1 = w1
  w2 = w2
  m1 = m1
  m2 = m2
  Windows = {w1, w2}
  Monitors = {m1, m2}
  Places <- OneMoves
  Fronts = {w1, Shell}
  None = None
  Shell = Shell
  MaxPosted = 0
INVARIANTS
  TypeOK
  TellsWhatItHolds
  HiddenForAReason
PROPERTIES
  ToldOnce
  ModulesReturn
  HiddenAgain
  StopReturns
CHECK_DEADLOCK FALSE
