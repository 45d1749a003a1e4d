\* a media data source set while one is played
SPECIFICATION Spec
CHECK_DEADLOCK FALSE
CONSTANTS
  MaxPrepares = 1
  MaxCalls = 0
  CallAfterStop = FALSE
  SetSourceAgain = TRUE
INVARIANTS
  HeldWhileUsed
