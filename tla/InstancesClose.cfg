SPECIFICATION FairSpec
CONSTANTS
  Launches = 2
  Commands <- SomeCommands
  Requests = {"explorer"}
  MaxTurns = 3
  None = None
PROPERTIES
  QuitsWhenAsked
CHECK_DEADLOCK FALSE
