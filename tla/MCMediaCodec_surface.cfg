SPECIFICATION CodecSpec
CONSTANTS
  Surfaces = {A}
  NoSurface = NoSurface
  Buffers = {b1, b2}
  FakeCap = 1
  CodecFails = TRUE
  Options <- TwoSlotsAndReordered
SYMMETRY BufferSymmetry
CHECK_DEADLOCK FALSE
INVARIANTS
  OwnBuffersOnly
  NoBufferLost
