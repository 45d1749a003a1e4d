SPECIFICATION CodecSpec
CONSTANTS
  Surfaces = {A}
  NoSurface = NoSurface
  Buffers = {b1}
  FakeCap = 1
  CodecFails = FALSE
  Options <- PlainAndOneThread
CHECK_DEADLOCK FALSE
PROPERTIES
  CloseEnds
