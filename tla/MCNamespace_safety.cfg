\* Three callers, with and without --auto-label, and three steps of others.
SPECIFICATION Spec
CONSTANTS
  Callers = {c1, c2, c3}
  MaxFaults = 3
SYMMETRY CallerSymmetry
INVARIANTS
  TypeOK
  ReadyWasPrivileged
PROPERTIES
  Consent
