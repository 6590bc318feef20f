CONSTANTS
  n1 = n1
  n2 = n2
  c1 = c1
  c2 = c2
  d1 = d1
  a1 = a1
  a2 = a2
  Stalling = {}
  NoConn = NoConn
  Nodes <- TwoNodes
  Conns <- ThreeConns
  Owner <- OwnerOfThree
  Admins = {a1, a2}
  SignalCap = 1
  LinkCap = 1
  MaxVersion = 2
  MaxRestarts = 1
SPECIFICATION Spec
SYMMETRY AdminSymmetry
INVARIANT NoLostUpdate
INVARIANT PushedNodesAreCurrent
CHECK_DEADLOCK FALSE
