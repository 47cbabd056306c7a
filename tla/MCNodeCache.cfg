\* Two calls for one node and one for another, any of them cancelled.
SPECIFICATION FairSpec
CONSTANTS
  c1 = c1
  c2 = c2
  c3 = c3
  n1 = n1
  n2 = n2
  Calls = {c1, c2, c3}
  Nodes = {n1, n2}
  NodeOf <- MCNodeOf
  Nobody = Nobody
INVARIANTS
  TypeOK
  OneFetch
  SameAnswer
  CanceledByFetcher
PROPERTIES
  CallsReturn
  CellSpec
