SPECIFICATION Spec
\* The environment's budget is spent in the end and the threads go idle.
CHECK_DEADLOCK FALSE
CONSTANTS
  Bound <- Sessions
  Relogin = FALSE
INVARIANTS
  OnlyCurrentListens
  SessionInstalled
PROPERTIES
  ImplementsLink
  Reconnects
