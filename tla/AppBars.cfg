SPECIFICATION FairSpec
CONSTANTS
  Windows = {w1,w2}
  Monitors = {"m1","m2"}
  Primary = "m1"
  Edges = {"left","top"}
  Places <- MCPlaces
  Size = 6
  WorkAreas <- MCWorkAreas
  MaxMoves = 3
  MaxEvents = 1
INVARIANTS
  TypeOK
  BarsDisjoint
  AreaFollowsBars
PROPERTY Settles
CHECK_DEADLOCK FALSE
