SPECIFICATION CodecSpec
CONSTANTS
  Surfaces = {A}
  NoSurface = NoSurface
  Buffers = {b1}
  FakeCap = 1
  CodecFails = FALSE
  Options <- OnlyPlain
CHECK_DEADLOCK FALSE
INVARIANTS
  SameSurfaceReused
