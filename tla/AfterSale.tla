----------------------------- MODULE AfterSale ------------------------------
(***************************************************************************)
(* Deliveries, payments and disputes of transactions that move on while    *)
(* the requests that looked at them are in flight.                         *)
(***************************************************************************)
EXTENDS Deliveries, Payments, Disputes, FiniteSets, Sequences, TLC

agreementVars == <<agreement, windowOpen>>
disputeVars == <<dispute, evidence>>
vars == <<agreementVars, delivery, payment, disputeVars, call, published>>

Init ==
  /\ AgreementsInit /\ DeliveriesInit /\ PaymentsInit /\ DisputesInit
  /\ call = [c \in Clients |-> Idle]
  /\ published = {}

\* A request ends between two of its steps.
Abandon(c) ==
  /\ call[c] # Idle
  /\ Return(c)
  /\ UNCHANGED <<delivery, payment, disputeVars, published>>

Request(c) ==
  /\ \/ DeliveriesNext(c) /\ UNCHANGED <<payment, disputeVars>>
     \/ PaymentsNext(c) /\ UNCHANGED <<delivery, disputeVars, published>>
     \/ DisputesNext(c) /\ UNCHANGED <<delivery, payment>>
     \/ Abandon(c)
  /\ UNCHANGED agreementVars

Move(t) ==
  /\ AgreementStep(t) \/ WindowCloses(t)
  /\ UNCHANGED <<delivery, payment, disputeVars, call, published>>

Next == (\E c \in Clients : Request(c)) \/ (\E t \in TxnIds : Move(t))

Spec == Init /\ [][Next]_vars

-----------------------------------------------------------------------------
(* Properties *)

Row(statuses) == [status : statuses, ver : Nat]

TypeOK ==
  /\ agreement \in [TxnIds -> AgreementStatuses]
  /\ windowOpen \in [TxnIds -> BOOLEAN]
  /\ delivery \in [DeliveryIds -> Row(DeliveryStatuses)]
  /\ payment \in [PaymentIds ->
        [status : PaymentStatuses, ver : Nat, past : SUBSET PaymentStatuses]]
  /\ dispute \in [DisputeIds -> Row(DisputeStatuses)]
  /\ evidence \in [DisputeIds -> SUBSET DisputeStatuses]

Announced(kind, id) == {k[3] : k \in {l \in published : l[1] = kind /\ l[2] = id}}

\* The statuses a delivery goes through when it is not cancelled.
Route(d) == IF d \in Skips THEN <<"pending", "ready", "delivered">>
                           ELSE <<"pending", "ready", "in_transit", "delivered">>

\* The events of a delivery tell its whole story: an unbroken part of its route,
\* up to the status of the row, and a cancellation exactly when it is cancelled,
\* which never follows the announcement that it was delivered.  A transaction has
\* one delivery, however many requests create it.
DeliveryStory ==
  /\ \A t \in TxnIds : Cardinality(DeliveriesOf(t)) <= 1
  /\ \A d \in DeliveryIds :
       LET told == Announced("delivery", d)
           cut == told \ {"cancelled"}
       IN  /\ \E n \in 0..Len(Route(d)) :
                /\ cut = {Route(d)[i] : i \in 1..n}
                /\ delivery[d].status \notin {"none", "cancelled"} =>
                     n > 0 /\ delivery[d].status = Route(d)[n]
                /\ delivery[d].status = "none" => n = 0
           /\ "cancelled" \in told <=> delivery[d].status = "cancelled"
           /\ ~ {"delivered", "cancelled"} \subseteq told

\* Money is captured only after it was authorized, and a payment is never both
\* captured and cancelled or failed, in whatever order the signals of the
\* provider come in.  A transaction has one payment.
OneOutcomeOfPayment ==
  /\ \A t \in TxnIds : Cardinality(PaymentsOf(t)) <= 1
  /\ \A p \in PaymentIds :
       /\ "captured" \in payment[p].past => "authorized" \in payment[p].past
       /\ Cardinality(payment[p].past \cap PaymentFinal) <= 1

\* A dispute is announced as resolved only after it was announced to be under
\* review, and never as withdrawn and reviewed both: staff and party decide
\* against each other on the same row.  A transaction has one active dispute.
DisputeStory ==
  /\ \A t \in TxnIds : Cardinality(DisputesOf(t, DisputeActive)) <= 1
  /\ \A d \in DisputeIds :
       LET told == Announced("dispute", d) IN
       /\ dispute[d].status # "none" => dispute[d].status \in told
       /\ told \cap DisputeConcluded # {} => "under_review" \in told
       /\ ~ {"under_review", "withdrawn"} \subseteq told

\* What the requests with this operation that end in a step had read.
Ended(op) == {call[c] : c \in {d \in Clients : call[d].op = op /\ call'[d] = Idle}}

\* One that looked at the transaction before it got the status it has.
Overtaken(op, t) == \E f \in Ended(op) : f.saw # agreement[t]
Pending(t) == agreement[t] \in {"pending", "active"}

BoundedDelivery(d) ==
  LET t == TxnOfDelivery[d]
      next == delivery'[d].status
  IN  next # delivery[d].status =>
        CASE next = "pending" -> Pending(t) \/ Overtaken("delivery_create", t)
          [] next = "cancelled" -> TRUE
          [] OTHER -> agreement[t] # "cancelled" \/ Overtaken("delivery", t)

BoundedPayment(p) ==
  LET t == TxnOfPayment[p] IN
  payment'[p].status = "pending" /\ payment[p].status = "none" =>
    Pending(t) \/ Overtaken("payment_create", t)

BoundedDispute(d) ==
  LET t == TxnOfDispute[d] IN
  /\ dispute'[d].status = "open" /\ dispute[d].status = "none" =>
       /\ agreement[t] # "cancelled" \/ Overtaken("dispute_create", t)
       /\ \E f \in Ended("dispute_create") : DisputesOf(t, DisputeConcluded) \cap f.known = {}
  /\ ~ (evidence'[d] \ evidence[d]) \subseteq DisputeActive =>
       \E f \in Ended("evidence") : f.saw # dispute[d].ver

BoundedWrites ==
  /\ \A d \in DeliveryIds : BoundedDelivery(d)
  /\ \A p \in PaymentIds : BoundedPayment(p)
  /\ \A d \in DisputeIds : BoundedDispute(d)

\* The transaction, and for evidence the dispute, is read outside the write that
\* depends on it.  A delivery or payment is opened and a delivery moved against
\* the status of the transaction, evidence is added to a dispute that is over, and
\* a second dispute opened beside a concluded one, only if that changed, or the
\* concluded dispute came up, while the request was under way.
LateWritesAreBounded == [][BoundedWrites]_vars

-----------------------------------------------------------------------------
(* The instance that is checked: one transaction; the delivery d2 is a handoff. *)

CONSTANT t1

MCTxnOfDelivery == [d \in DeliveryIds |-> t1]
MCTxnOfPayment == [p \in PaymentIds |-> t1]
MCTxnOfDispute == [x \in DisputeIds |-> t1]

\* The kinds do not read each other's rows, so that one kind at a time is
\* enough: states with rows of two kinds are not explored further.
Disputed == DisputesOf(t1, DisputeStatuses \ {"none"}) # {}
OneKind ==
  Cardinality({k \in 1..3 : <<DeliveriesOf(t1) # {}, PaymentsOf(t1) # {}, Disputed>>[k]}) <= 1

Symmetry == Permutations(Clients)
=============================================================================
