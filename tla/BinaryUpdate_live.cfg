CONSTANTS
  c1 = c1
  c2 = c2
  r1 = r1
  u1 = u1
  u2 = u2
  NoConn = NoConn
  Nothing = Nothing
  Conns = {c1, c2}
  Requests = {r1}
  Uploaders = {u1}
  Chunks = 2
  LinkCap = 1
  AdminHashes = {}
  MaxUploads = 0
  MaxDrops = 1
  MaxKills = 1
  MaxRestarts = 0
  MaxDiskFaults = 0
  MaxEvents = 3
SPECIFICATION FairSpec
PROPERTY TransfersEnd
PROPERTY NodeBecomesCurrent
CHECK_DEADLOCK FALSE
