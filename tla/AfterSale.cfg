\* Two ids of each kind on one transaction, two requests in flight.
SPECIFICATION Spec
CONSTANTS
  t1 = t1
  TxnIds = {t1}
  DeliveryIds = {d1, d2}
  PaymentIds = {p1, p2}
  DisputeIds = {x1, x2}
  TxnOfDelivery <- MCTxnOfDelivery
  TxnOfPayment <- MCTxnOfPayment
  TxnOfDispute <- MCTxnOfDispute
  Skips = {d2}
  Clients = {c1, c2}
SYMMETRY Symmetry
CONSTRAINT OneKind
INVARIANTS
  DeliveryStory
  OneOutcomeOfPayment
  DisputeStory
PROPERTIES
  LateWritesAreBounded
CHECK_DEADLOCK FALSE
