CONSTANTS
  n1 = n1
  n2 = n2
  c1 = c1
  c2 = c2
  d1 = d1
  a1 = a1
  a2 = a2
  Stalling = {n1}
  NoConn = NoConn
  Nodes <- OneNode
  Conns <- OneConn
  Owner <- OwnerOfOne
  Admins = {a1, a2}
  SignalCap = 1
  LinkCap = 1
  MaxVersion = 5
  MaxRestarts = 0
SPECIFICATION FairSpec
INVARIANT TypeOK
PROPERTY ChangesReachNodes
PROPERTY SignalsGetThrough
CHECK_DEADLOCK FALSE
