\* One node and incarnation whose container restarts, one fault; liveness.
SPECIFICATION FairSpec
CONSTANTS
  n1 = n1
  n2 = n2
  p1 = p1
  p2 = p2
  Nodes = {n1}
  PIDs = {p1}
  NoNode = NoNode
  NoPod = NoPod
  NoPID = NoPID
  MaxUid = 1
  MaxInst = 2
  MaxFaults = 1
INVARIANTS
  NoStopLost
PROPERTIES
  StopsWhenToldTo
  ReturnsAfterStreams
  FalseAlarmOnlyByServer
