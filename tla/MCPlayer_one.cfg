\* one preparation and one call; the application may stop calling at any time
SPECIFICATION FairSpec
CHECK_DEADLOCK FALSE
CONSTANTS
  MaxPrepares = 1
  MaxCalls = 1
  CallAfterStop = FALSE
  SetSourceAgain = FALSE
INVARIANTS HeldWhileUsed AtMostOneLate
PROPERTIES PrepareAnswered ReleaseEnds
