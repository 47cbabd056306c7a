\* Two sessions race for the pod of one node, with one fault anywhere.
SPECIFICATION Spec
CONSTANTS
  s1 = s1
  s2 = s2
  n1 = n1
  n2 = n2
  n3 = n3
  p1 = p1
  p2 = p2
  Sessions = {s1, s2}
  Cleaners = {}
  Nodes = {n1}
  Names = {p1}
  PodNameFor <- OneName
  NodeOf <- OneNode
  AnyNode = AnyNode
  NoPod = NoPod
  DefaultTTL = 1
  MaxPolls = 2
  MaxTime = 2
  MaxFaults = 1
SYMMETRY SessionSymmetry
INVARIANTS
  TypeOK
  NoLostTermination
  StreamOnHandlePod
  LeaseBounded
PROPERTIES
  FreshDeletedOnlyIfRaced
  EnsureBounded
  ClaimSafe
