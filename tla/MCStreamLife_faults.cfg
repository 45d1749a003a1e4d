SPECIFICATION Spec
CONSTANTS
  Files <- MCFiles
  Faults <- MCFaults
  Selected = {"audio"}
  OPENSLES_BUFFERS = 2
  Formats = 1
INVARIANTS
  HeldWhileRunning
  ReleasedOnce
  ToldOnce
PROPERTY
  CloseEnds
CHECK_DEADLOCK FALSE
