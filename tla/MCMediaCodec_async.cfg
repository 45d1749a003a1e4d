SPECIFICATION CodecSpec
CONSTANTS
  Surfaces = {A}
  NoSurface = NoSurface
  Buffers = {b1}
  FakeCap = 1
  CodecFails = FALSE
  Options <- OnlyAsync
CHECK_DEADLOCK FALSE
INVARIANTS
  NothingForgotten
