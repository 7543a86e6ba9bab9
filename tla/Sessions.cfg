\* Two sessions of a user, two requests in flight, one logout of all.
SPECIFICATION Spec
CONSTANTS
  SessionIds = {s1, s2}
  NoSession = NoSession
  Clients = {c1, c2}
  Quantum = 1
  MaxEpoch = 1
  MaxTime = 1
  MaxFaults = 1
INVARIANTS
  StalenessIsBounded
PROPERTIES
  RevocationIsFinal
SYMMETRY Symmetry
CHECK_DEADLOCK FALSE
