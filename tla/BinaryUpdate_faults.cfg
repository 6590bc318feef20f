CONSTANTS
  c1 = c1
  c2 = c2
  r1 = r1
  u1 = u1
  u2 = u2
  NoConn = NoConn
  Nothing = Nothing
  Conns = {c1, c2}
  Requests = {r1}
  Uploaders = {u1, u2}
  Chunks = 2
  LinkCap = 1
  AdminHashes <- OldHashes
  MaxUploads = 3
  MaxDrops = 1
  MaxKills = 1
  MaxRestarts = 1
  MaxDiskFaults = 1
  MaxEvents = 3
CONSTRAINT Focus
SYMMETRY Alike
SPECIFICATION Spec
INVARIANT TypeOK
INVARIANT HashDescribesFile
INVARIANT TransferIsExact
PROPERTY NoDowngrade
CHECK_DEADLOCK FALSE
