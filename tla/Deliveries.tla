----------------------------- MODULE Deliveries -----------------------------
(***************************************************************************)
(* backend/internal/deliveries: a participant opens the delivery of a      *)
(* transaction, the provider moves it forward, either one cancels it.      *)
(***************************************************************************)
EXTENDS Agreements

CONSTANTS
  DeliveryIds,    \* ids that may be minted
  TxnOfDelivery,  \* the transaction an id is minted for
  Skips           \* ids whose method (handoff, pickup) skips in_transit

VARIABLE delivery    \* the row of each delivery

DeliveryStatuses == {"none", "pending", "ready", "in_transit", "delivered", "cancelled"}
DeliveryFinal == {"delivered", "cancelled"}

DeliveriesInit == delivery = [d \in DeliveryIds |-> [status |-> "none", ver |-> 0]]

DeliveriesOf(t) == {d \in DeliveryIds : TxnOfDelivery[d] = t /\ delivery[d].status # "none"}

\* Mutant: the status of the transaction is not looked at.
MayCreateDeliveryAlways(t) == TRUE

MayCreateDelivery(t) == agreement[t] \in {"pending", "active"}

\* CreateForTransaction, up to the insert: an existing delivery is returned.
DeliveryCheck(c, t) ==
  /\ call[c] = Idle
  /\ DeliveriesOf(t) = {}
  /\ MayCreateDelivery(t)
  /\ Proceed(c, [op |-> "delivery_create", txn |-> t, saw |-> agreement[t]])
  /\ UNCHANGED <<delivery, published>>

\* enqueueStatus: one event for each status a delivery reaches.
DeliveryKey(d, status) == <<"delivery", d, status>>

\* Mutant: no unique index on transaction_id.
DeliveryCreateTwice(c) ==
  /\ call[c].op = "delivery_create"
  /\ \E d \in DeliveryIds :
       /\ TxnOfDelivery[d] = call[c].txn /\ delivery[d].status = "none"
       /\ delivery' = [delivery EXCEPT ![d] = Write(@, "pending")]
       /\ published' = published \cup {DeliveryKey(d, "pending")}
  /\ Return(c)

\* CreateForTransaction: the insert, unique per transaction, and its event; the
\* loser of two inserts gets the other's delivery.
DeliveryCreate(c) ==
  /\ call[c].op = "delivery_create"
  /\ \/ /\ DeliveriesOf(call[c].txn) = {}
        /\ \E d \in DeliveryIds :
             /\ TxnOfDelivery[d] = call[c].txn
             /\ delivery' = [delivery EXCEPT ![d] = Write(@, "pending")]
             /\ published' = published \cup {DeliveryKey(d, "pending")}
     \/ DeliveriesOf(call[c].txn) # {} /\ UNCHANGED <<delivery, published>>
  /\ Return(c)

DeliveryOps == {"ready", "in_transit", "delivered", "cancelled"}

\* MarkReady, MarkInTransit, MarkDelivered and Cancel.
DeliveryMoves(d, next) ==
  LET s == delivery[d].status IN
  CASE next = "ready" -> s = "pending"
    [] next = "in_transit" -> s = "ready" /\ d \notin Skips
    [] next = "delivered" -> s = (IF d \in Skips THEN "ready" ELSE "in_transit")
    [] next = "cancelled" -> s \in {"pending", "ready", "in_transit"}

\* apply, up to the write: the provider's steps are refused when the transaction
\* is cancelled, a cancellation is not.  The write only happens if the row is
\* still the one read here, so row and transaction may be read together.
DeliveryRead(c, d, next) ==
  /\ call[c] = Idle
  /\ DeliveryMoves(d, next)
  /\ next # "cancelled" => agreement[TxnOfDelivery[d]] # "cancelled"
  /\ Proceed(c, [op |-> "delivery", id |-> d, ver |-> delivery[d].ver, next |-> next,
                 saw |-> agreement[TxnOfDelivery[d]]])
  /\ UNCHANGED <<delivery, published>>

\* apply: the update and its event.  After a conflict the row is read again to
\* choose the answer, and nothing more is written.
DeliveryWrite(c) ==
  LET d == call[c].id
      keys == {DeliveryKey(d, call[c].next)}
  IN
  /\ call[c].op = "delivery"
  /\ IF Fresh(delivery[d], call[c].ver) /\ Publishable(keys)
       THEN /\ delivery' = [delivery EXCEPT ![d] = Write(@, call[c].next)]
            /\ published' = published \cup keys
       ELSE UNCHANGED <<delivery, published>>
  /\ Return(c)

DeliveriesNext(c) ==
  \/ \E t \in TxnIds : DeliveryCheck(c, t)
  \/ \E d \in DeliveryIds, next \in DeliveryOps : DeliveryRead(c, d, next)
  \/ DeliveryCreate(c) \/ DeliveryWrite(c)
=============================================================================
