CONSTANTS
  opener = opener
  stale = stale
  handler = handler
  updater = updater
  None = None
  Ways <- BothWays
  Sends <- SendsBoth
  Opener <- OpenerBoth
  Early = {stale}
  Atomic = {updater}
  MaxPackets = 2
  Base = 4
  MaxLen = 4
  Modulus = 128
  UuidLen = 2
  MaxString = 5
SPECIFICATION FairSpec
INVARIANT TypeOK
INVARIANT DeliveredAsSent
INVARIANT WiredPacketsRoundTrip
PROPERTY StreamIsChannel
CHECK_DEADLOCK FALSE
