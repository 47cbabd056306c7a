\* Every kind of command line, two failures, streams of up to four bytes.
SPECIFICATION FairSpec
CONSTANTS
  Requests <- Lines
  MaxFaults = 2
  MaxBytes = 4
  MaxChunk = 3
INVARIANTS
  TypeOK
  ErrorsBlamed
  SuccessEarned
  HandlesClosed
  GrepExact
PROPERTIES
  ResolvedAsDocumented
  InterruptWindsDown
  ProbeReturns
  InterruptStops
