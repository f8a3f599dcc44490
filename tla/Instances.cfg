SPECIFICATION FairSpec
CONSTANTS
  Launches = 2
  Commands <- SomeCommands
  Requests = {"explorer"}
  MaxTurns = 3
  None = None
INVARIANTS
  TypeOK
  OneShell
PROPERTIES
  OncePerSession
  Decides
CHECK_DEADLOCK FALSE
