\* Two offers on one need, two transaction ids, two requests in flight, one
\* relay worker, three edits of the need and the offers.
SPECIFICATION FairSpec
CONSTANTS
  n1 = n1
  o2 = o2
  s1 = s1
  s2 = s2
  NeedIds = {n1}
  OfferIds = {o1, o2}
  TxnIds = {t1, t2}
  Services = {s1, s2}
  NeedOf <- MCNeedOf
  ServiceOf <- MCServiceOf
  Clients = {c1, c2}
  Relays = {w1}
  NoOffer = NoOffer
  MaxEdits = 3
INVARIANTS
  OneDealPerNeed
  EventsMatchDecisions
PROPERTIES
  LateWritesAreBounded
  CompletionSettles
CHECK_DEADLOCK FALSE
