SPECIFICATION Spec
CONSTANTS
  a = a
  b = b
  c = c
  None = None
  Locations = {a, b, c}
  Configured<-TwoPlain
  WhileIdle = {"unload", "reload", "reloadThreaded", "reloadInstance", "recycle"}
  WhileWaiting = {}
  WhileInit = {}
  WhileQuit = {"unload"}
  Careless = TRUE
  WithQueue = TRUE
  MaxModules = 2
  MaxStack = 4
INVARIANT
  NotQuitTwice
CHECK_DEADLOCK FALSE
