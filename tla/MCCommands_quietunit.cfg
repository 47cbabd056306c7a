\* Logs of a unit whose node answers everything it is asked.
SPECIFICATION Spec
CONSTANTS
  Requests <- Journals
  MaxFaults = 0
  MaxBytes = 0
  MaxChunk = 1
INVARIANTS
  QuietUnitFound
