SPECIFICATION Spec
CONSTANTS
  Windows = {w1,w2}
  Monitors = {"m1","m2"}
  Primary = "m1"
  Edges = {"left","top"}
  Places <- MCPlaces
  Size = 6
  WorkAreas <- MCWorkAreas
  MaxMoves = 2
  MaxEvents = 1
INVARIANT DefaultIsExternal
CHECK_DEADLOCK FALSE
