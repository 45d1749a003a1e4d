\* a release that overtakes the message loop
SPECIFICATION Spec
CHECK_DEADLOCK FALSE
CONSTANTS
  MaxPrepares = 1
  MaxCalls = 0
  CallAfterStop = FALSE
  SetSourceAgain = FALSE
INVARIANTS NeverJoinsItself
