SPECIFICATION Spec
CONSTANTS
  Files <- MCFiles
  MinFrames = 2
  RingSize = 2
  Delay = 0
  MaxRequests = 1
INVARIANTS
  LabelHonest
  SlotNotShared
  AtMostOneStale
PROPERTIES
  EndIsTheEnd
  CloseEnds
