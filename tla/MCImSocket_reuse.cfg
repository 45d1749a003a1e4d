SPECIFICATION Spec
\* The environment's budget is spent in the end and the threads go idle.
CHECK_DEADLOCK FALSE
CONSTANTS
  Bound <- Twice
  Relogin = TRUE
INVARIANTS
  SocketReused
