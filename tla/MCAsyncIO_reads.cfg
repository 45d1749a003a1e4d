CONSTANTS
  Size = 3
  Forwards = 1
  Backwards = 1
  Chunk = 2
  Short = 1
  MaxRead = 2
SPECIFICATION Spec
INVARIANTS
  RingHonest
  NobodyStuck
PROPERTIES
  ImplementsStream
  CallsEnd
CHECK_DEADLOCK FALSE
