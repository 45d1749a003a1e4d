\* a release while the message loop posts
SPECIFICATION Spec
CHECK_DEADLOCK FALSE
CONSTANTS
  MaxPrepares = 1
  MaxCalls = 0
  CallAfterStop = FALSE
  SetSourceAgain = FALSE
INVARIANTS
  PostsToHeld
