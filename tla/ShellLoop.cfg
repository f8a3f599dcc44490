SPECIFICATION FairSpec
CONSTANTS
  MaxPosts = 3
  MaxChanges = 2
INVARIANTS
  TypeOK
  PendingIsServed
PROPERTIES
  QuitHonoured
  DisplayFollowed
CHECK_DEADLOCK FALSE
