\* An e-mail row with two holds that run out and a fault, a push row with
\* one fault, or both in one batch; two dispatchers.
SPECIFICATION MCFairSpec
CONSTANTS
  Deliveries = {"email", "push"}
  Workers = {w1, w2}
  Planners = {p1}
  NoDelivery = NoDelivery
  EndpointsOf <- MCEndpointsOf
  Unconfigured = {"tablet"}
  Contacts = {"address"}
  BatchSize = 2
  Cap = 2
  MaxClaims = 3
  MaxReclaims = 2
  MaxFaults = 1
INVARIANTS
  AcceptedByProvider
PROPERTIES
  OutcomesAreFinal
  StopsAreHonoured
  EventuallySettled
CHECK_DEADLOCK FALSE
