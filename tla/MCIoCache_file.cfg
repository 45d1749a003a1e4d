CONSTANTS
  Size = 3
  Capacity = 3
  MaxRead = 2
  OnlyReadFile = FALSE
  SeekTo = {0}
  StaleMaps = FALSE
  Forwards = {0, 1}
  Faults = {}
SPECIFICATION AheadSpec
CHECK_DEADLOCK FALSE
INVARIANTS
  EntriesHonest
  MapHonest
PROPERTIES
  ImplementsStream
