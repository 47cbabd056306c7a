\* Two nodes, a target that is deleted and created again, perhaps on the other
\* node, while its process number is used again; one fault.
SPECIFICATION Spec
CONSTANTS
  n1 = n1
  n2 = n2
  p1 = p1
  p2 = p2
  Nodes = {n1, n2}
  PIDs = {p1}
  NoNode = NoNode
  NoPod = NoPod
  NoPID = NoPID
  MaxUid = 2
  MaxInst = 1
  MaxFaults = 1
SYMMETRY NodeSymmetry
INVARIANTS
  TypeOK
  CapturesTarget
  TargetOnNode
  FileSettled
  NoSilentFailure
  SigintCodeHasCause
