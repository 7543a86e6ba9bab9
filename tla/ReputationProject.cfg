\* Two inspections in which two users swap roles, their reviews, two relay
\* workers and a lost run: the trust transactions lock the profiles in opposite
\* orders, and a review is handled by two projectors in turn.
SPECIFICATION FairSpec
CONSTANTS
  Clients = {c1}
  Appointments = {"a1", "a2"}
  Flows = {}
  ChallengeIds = {k1, k2}
  TTL = 1
  MaxTime = 1
  Ratings = {4}
  Window = 2
  Workers = {w1, w2}
  Users = {"ada", "bea"}
  Listings = {"l1"}
  Requester <- MCRequester
  Provider <- MCProvider
  ListingOf <- MCListingOf
  VerifiedMin = 1
  EstablishedMin = 2
  MaxLost = 1
INVARIANTS
  ProjectionsAreRebuildable
  HandledIsCounted
PROPERTIES
  EventuallyCounted
CHECK_DEADLOCK FALSE
