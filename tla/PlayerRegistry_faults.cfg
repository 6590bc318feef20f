CONSTANTS
  s1 = s1
  s2 = s2
  s3 = s3
  c1 = c1
  c2 = c2
  p1 = p1
  p2 = p2
  NoConn = NoConn
  Sessions <- ThreeSessions
  Record <- EqualRecords
  Conns = {c1, c2}
  LinkCap = 2
  MaxDrops = 1
  MaxRestarts = 1
SPECIFICATION Spec
INVARIANT TypeOK
INVARIANT LocalListIsExact
INVARIANT EntriesAreExplained
INVARIANT PlayingAreListed
CHECK_DEADLOCK FALSE
