SPECIFICATION WalletSpec
\* The clicks are spent in the end.
CHECK_DEADLOCK FALSE
CONSTANTS
  e1 = e1
  imageUrl = imageUrl
  username = username
  old = old
  new = new
  Envelope <- Envelopes
  Worth <- WorthTwo
  Amount <- Amounts
  Field <- Fields
  Picture = imageUrl
  Value <- Values
  First <- OldProfile
  Start = 3
  MaxClicks = 3
  MaxLost = 1
  Refuses = TRUE
INVARIANTS
  GiftsArePaid
  CacheAgrees
  Conserved
