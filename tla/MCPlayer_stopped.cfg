\* a stop while a message is in flight
SPECIFICATION Spec
CHECK_DEADLOCK FALSE
CONSTANTS
  MaxPrepares = 1
  MaxCalls = 0
  CallAfterStop = FALSE
  SetSourceAgain = FALSE
PROPERTIES StoppedStays
