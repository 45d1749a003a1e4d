CONSTANTS
  Kinds = {"tcp", "http", "io", "live", "mds", "androidio"}
  Size = 3
  MaxRead = 2
  SeekTo = {0, 1, 3}
  Handles = {TRUE}
  AnyReconnect = FALSE
SPECIFICATION HookSpec
PROPERTIES
  ImplementsStream
  AnswersHonest
  InterruptEnds
