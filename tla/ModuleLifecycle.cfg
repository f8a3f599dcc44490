SPECIFICATION FairSpec
CONSTANTS
  a = a
  b = b
  c = c
  None = None
  Locations = {a, b}
  Configured<-OneOfEach
  WhileIdle = {"unload", "reload", "reloadInstance", "recycle"}
  WhileWaiting = {"unload", "reload", "recycle"}
  WhileInit = {"unload", "reloadThreaded"}
  WhileQuit = {"unload"}
  Careless = FALSE
  WithQueue = FALSE
  MaxModules = 5
  MaxStack = 5
INVARIANTS
  TypeOK
  DeletedAfterUse
  OneActive
  UnloadsAll
PROPERTIES
  Finishes
CHECK_DEADLOCK FALSE
