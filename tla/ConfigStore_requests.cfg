CONSTANTS
  a1 = a1
  a2 = a2
  cli = cli
  x = x
  y = y
  z = z
  w = w
  None = None
  Admins = {a1, a2}
  Cli = cli
  Kinds = {"routes", "nodes"}
  Keys = {x, y, z, w}
  Saved <- SomeSaved
  SignalRoom = 1
  MaxRequests = 2
  MaxRestarts = 1
SPECIFICATION Spec
INVARIANT TypeOK
INVARIANT LastTableIsWhole
INVARIANT QuietFileIsMemory
INVARIANT DomainsAreUnique
INVARIANT AddedIsSaved
PROPERTY StoreIsConfiguration
CHECK_DEADLOCK FALSE
SYMMETRY Interchangeable
