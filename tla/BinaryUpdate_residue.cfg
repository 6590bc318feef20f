CONSTANTS
  c1 = c1
  c2 = c2
  r1 = r1
  u1 = u1
  u2 = u2
  NoConn = NoConn
  Nothing = Nothing
  Conns = {c1, c2}
  Requests = {}
  Uploaders = {u1}
  Chunks = 2
  LinkCap = 1
  AdminHashes = {}
  MaxUploads = 0
  MaxDrops = 1
  MaxKills = 0
  MaxRestarts = 0
  MaxDiskFaults = 0
  MaxEvents = 3
SPECIFICATION Spec
INVARIANT UpgradesAreWhole
CHECK_DEADLOCK FALSE
