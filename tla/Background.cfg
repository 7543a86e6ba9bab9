\* Two relay workers rebuild the index, process images or send a verification;
\* their runs overlap and are lost.
SPECIFICATION BackgroundSpec
CONSTANTS
  l1 = l1
  restrict1 = restrict1
  remove1 = remove1
  warn1 = warn1
  ListingIds = {l1}
  ActionIds = {restrict1}
  AppealIds = {}
  KindOf <- MCKindOf
  TargetOf <- MCTargetOf
  ActionOf <- MCActionOf
  Clients = {c1}
  Relays = {w1, w2}
  NoDoc = NoDoc
  MaxEdits = 4
  MaxMoves = 1
  MaxLost = 1
  AssetIds = {1}
  Galleries = {l1}
  NoGallery = NoGallery
  Processors = {w1, w2}
  MaxOverlaps = 1
  MaxFaults = 1
  MaxResends = 2
  MaxSendFaults = 2
INVARIANTS
  MediaStory
  CompletedMeansAnswered
PROPERTIES
  ImageOutcomeIsFinal
  WorkGetsDone
CHECK_DEADLOCK FALSE
