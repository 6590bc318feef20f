CONSTANTS
  n1 = n1
  n2 = n2
  c1 = c1
  c2 = c2
  d1 = d1
  a1 = a1
  a2 = a2
  Stalling = {}
  NoConn = NoConn
  Nodes <- OneNode
  Conns <- OneConn
  Owner <- OwnerOfOne
  Admins = {a1}
  SignalCap = 1
  LinkCap = 2
  MaxVersion = 2
  MaxRestarts = 0
SPECIFICATION FairSpec
PROPERTY NodesConverge
CHECK_DEADLOCK FALSE
