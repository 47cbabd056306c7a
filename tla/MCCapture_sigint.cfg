\* A debug pod that ends under a capture.
SPECIFICATION Spec
CONSTANTS
  n1 = n1
  n2 = n2
  p1 = p1
  p2 = p2
  Nodes = {n1}
  PIDs = {p1}
  NoNode = NoNode
  NoPod = NoPod
  NoPID = NoPID
  MaxUid = 1
  MaxInst = 1
  MaxFaults = 0
INVARIANTS
  SigintCodeOnlyOnSigint
