\* Two requests in flight over one listing, a decision to restrict, one to
\* remove and a warning, two appeals against the former; the relay is not needed.
SPECIFICATION Spec
CONSTANTS
  l1 = l1
  restrict1 = restrict1
  remove1 = remove1
  warn1 = warn1
  ListingIds = {l1}
  ActionIds = {restrict1, remove1, warn1}
  AppealIds = {p1, p2}
  KindOf <- MCKindOf
  TargetOf <- MCTargetOf
  ActionOf <- MCActionOf
  Clients = {c1, c2}
  Relays = {}
  NoDoc = NoDoc
  MaxEdits = 4
  MaxMoves = 0
  MaxLost = 0
INVARIANTS
  DecisionStory
  RecordedMeansEnforced
PROPERTIES
  EffectsHaveReasons
  NoLostWrite
SYMMETRY Symmetry
CHECK_DEADLOCK FALSE
