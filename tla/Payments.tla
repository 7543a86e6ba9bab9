------------------------------ MODULE Payments ------------------------------
(***************************************************************************)
(* backend/internal/payments: the payer opens one payment of a priced      *)
(* transaction; authorize, capture, cancel and fail signals of a payment   *)
(* provider move it.  No provider is wired, so signals may come in any     *)
(* order, repeatedly and at the same time.  No events are emitted.         *)
(***************************************************************************)
EXTENDS Agreements

CONSTANTS PaymentIds, TxnOfPayment

VARIABLE payment    \* the row of each payment, and the statuses it went through

PaymentStatuses == {"none", "pending", "authorized", "captured", "cancelled", "failed"}
PaymentFinal == {"captured", "cancelled", "failed"}

PaymentsInit == payment = [p \in PaymentIds |-> [status |-> "none", ver |-> 0, past |-> {}]]

PaymentsOf(t) == {p \in PaymentIds : TxnOfPayment[p] = t /\ payment[p].status # "none"}

\* assertPayable, of a transaction with a price.
Payable(t) == agreement[t] \in {"pending", "active"}

\* authorized_at, captured_at, ... record what happened, next to the status.
PaymentSet(p, next) ==
  payment' = [payment EXCEPT ![p] = [Write(payment[p], next) EXCEPT !.past = @ \cup {next}]]

\* CreateForTransaction, up to the insert.
PaymentCheck(c, t) ==
  /\ call[c] = Idle
  /\ Payable(t)
  /\ PaymentsOf(t) = {}
  /\ Proceed(c, [op |-> "payment_create", txn |-> t, saw |-> agreement[t]])
  /\ UNCHANGED payment

\* CreateForTransaction: the insert, unique per transaction.
PaymentCreate(c) ==
  /\ call[c].op = "payment_create"
  /\ \/ /\ PaymentsOf(call[c].txn) = {}
        /\ \E p \in PaymentIds : TxnOfPayment[p] = call[c].txn /\ PaymentSet(p, "pending")
     \/ PaymentsOf(call[c].txn) # {} /\ UNCHANGED payment
  /\ Return(c)

PaymentOps == {"authorized", "captured", "cancelled", "failed"}

\* Mutant: a capture needs no authorization.
PaymentMovesEarly(p, next) ==
  payment[p].status \in {"pending", "authorized"} \ {next}

\* Authorize, Capture, Cancel and Fail.
PaymentMoves(p, next) ==
  CASE next = "authorized" -> payment[p].status = "pending"
    [] next = "captured" -> payment[p].status = "authorized"
    [] OTHER -> payment[p].status \in {"pending", "authorized"}

\* applyInternal, up to the write.
PaymentRead(c, p, next) ==
  /\ call[c] = Idle
  /\ PaymentMoves(p, next)
  /\ Proceed(c, [op |-> "payment", id |-> p, ver |-> payment[p].ver, next |-> next])
  /\ UNCHANGED payment

\* applyInternal: the update; a conflict writes nothing.
PaymentWrite(c) ==
  LET p == call[c].id IN
  /\ call[c].op = "payment"
  /\ IF Fresh(payment[p], call[c].ver) THEN PaymentSet(p, call[c].next) ELSE UNCHANGED payment
  /\ Return(c)

PaymentsNext(c) ==
  \/ \E t \in TxnIds : PaymentCheck(c, t)
  \/ \E p \in PaymentIds, next \in PaymentOps : PaymentRead(c, p, next)
  \/ PaymentCreate(c) \/ PaymentWrite(c)
=============================================================================
