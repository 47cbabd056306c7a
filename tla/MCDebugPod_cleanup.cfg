\* A cleanup command with any filter beside a session, three nodes, two of which share a pod name.
SPECIFICATION Spec
CONSTANTS
  s1 = s1
  s2 = s2
  n1 = n1
  n2 = n2
  n3 = n3
  p1 = p1
  p2 = p2
  Sessions = {s1}
  Cleaners = {s2}
  Nodes = {n1, n2, n3}
  Names = {p1, p2}
  PodNameFor <- TwoNames
  NodeOf <- OneNode
  AnyNode = AnyNode
  NoPod = NoPod
  DefaultTTL = 1
  MaxPolls = 1
  MaxTime = 0
  MaxFaults = 1
INVARIANTS
  DeletedAreGone
  HandleOnNode
