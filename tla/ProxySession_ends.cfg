CONSTANTS
  s1 = s1
  s2 = s2
  p1 = p1
  Sessions = {s1, s2}
  Casts <- AloneOrTwice
  Route <- Routes
  Cap = 1
  Base = 4
  MaxLen = 4
  Modulus = 128
  UuidLen = 2
  MaxString = 5
SPECIFICATION FairSpec
INVARIANT TypeOK
INVARIANT ServerStreamIsFaithful
INVARIANT ClientStreamIsFaithful
INVARIANT TheLastWordArrives
INVARIANT EntriesHoldTheirSockets
INVARIANT PacketsRoundTrip
PROPERTY SessionsEnd
CHECK_DEADLOCK FALSE
