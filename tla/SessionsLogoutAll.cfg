\* One session, two requests in flight, one logout of all.
SPECIFICATION Spec
CONSTANTS
  SessionIds = {s1}
  NoSession = NoSession
  Clients = {c1, c2}
  Quantum = 1
  MaxEpoch = 1
  MaxTime = 1
  MaxFaults = 0
INVARIANTS
  LogoutAllIsFinal
SYMMETRY Symmetry
CHECK_DEADLOCK FALSE
