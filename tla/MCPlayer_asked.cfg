\* a release while another thread asks for the position
SPECIFICATION Spec
CHECK_DEADLOCK FALSE
CONSTANTS
  MaxPrepares = 1
  MaxCalls = 0
  CallAfterStop = FALSE
  SetSourceAgain = FALSE
INVARIANTS
  AsksOpenVideo
