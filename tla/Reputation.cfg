\* Two concurrent requests on an appointment and a flow, three challenges.
SPECIFICATION Spec
CONSTANTS
  Clients = {c1, c2}
  Appointments = {"a1"}
  Flows = {"f1"}
  ChallengeIds = {k1, k2, k3}
  TTL = 1
  MaxTime = 3
  Ratings = {4}
  Window = 2
  Workers = {}
  Users = {"ada", "bea"}
  Listings = {"l1"}
  Requester <- MCRequester
  Provider <- MCProvider
  ListingOf <- MCListingOf
  VerifiedMin = 1
  EstablishedMin = 2
  MaxLost = 0
INVARIANTS
  InteractionStory
PROPERTIES
  OutcomesAreFinal
CHECK_DEADLOCK FALSE
