SPECIFICATION Spec
CHECK_DEADLOCK FALSE
CONSTANTS
  t1 = t1
  e1 = e1
  Text <- OneText
  Other <- Emojis
  MaxFalls = 1
  MaxErrors = 1
  MaxSys = 1
INVARIANTS
  HintHonest
  OthersAtMostOnce
PROPERTIES
  ImplementsDelivery
