-------------------------- MODULE AfterSaleProofs ---------------------------
(***************************************************************************)
(* The stories of deliveries, payments and disputes, and bounded late      *)
(* writes, for any number of rows, transactions and requests.              *)
(*                                                                         *)
(* The argument, once for each kind of row: the status of a row says which *)
(* events were announced and which statuses it went through, exactly; and  *)
(* a write finds the row in the status it was read in, because every write *)
(* of a row raises updated_at and the write compares it.                   *)
(***************************************************************************)
EXTENDS AfterSale, TLAPS, FiniteSetTheorems

-----------------------------------------------------------------------------
(* The inductive invariants *)

\* The statuses MarkReady, MarkInTransit, MarkDelivered and Cancel start from.
DeliveryFrom(d, next) ==
  CASE next = "ready" -> {"pending"}
    [] next = "in_transit" -> IF d \in Skips THEN {} ELSE {"ready"}
    [] next = "delivered" -> IF d \in Skips THEN {"ready"} ELSE {"in_transit"}
    [] OTHER -> {"pending", "ready", "in_transit"}

\* What a request knows of the deliveries, given as rows.
DeliveryFrameOK(f, rows) ==
  /\ f.op = "delivery_create" => f.saw \in {"pending", "active"}
  /\ f.op = "delivery" =>
       /\ f.id \in DeliveryIds /\ f.next \in DeliveryOps /\ f.ver \in Nat
       /\ f.ver <= rows[f.id].ver
       /\ f.ver = rows[f.id].ver => rows[f.id].status \in DeliveryFrom(f.id, f.next)
       /\ f.next # "cancelled" => f.saw # "cancelled"

\* The part of its route a delivery has behind it in a status.
Behind(d, status) ==
  CASE status = "none" -> {}
    [] status = "pending" -> {"pending"}
    [] status = "ready" -> {"pending", "ready"}
    [] status = "in_transit" -> {"pending", "ready", "in_transit"}
    [] OTHER -> IF d \in Skips THEN {"pending", "ready", "delivered"}
                ELSE {"pending", "ready", "in_transit", "delivered"}

\* The events of a delivery in a status.
DeliveryTold(d, status, told) ==
  IF status = "cancelled"
    THEN \E s \in {"pending", "ready", "in_transit"} :
           (s = "in_transit" => d \notin Skips) /\ told = Behind(d, s) \cup {"cancelled"}
    ELSE (status = "in_transit" => d \notin Skips) /\ told = Behind(d, status)

DeliveryInv ==
  /\ delivery \in [DeliveryIds -> Row(DeliveryStatuses)]
  /\ DOMAIN call = Clients /\ \A c \in Clients : DeliveryFrameOK(call[c], delivery)
  /\ \A d \in DeliveryIds : DeliveryTold(d, delivery[d].status, Announced("delivery", d))
  /\ \A d, e \in DeliveryIds :
       TxnOfDelivery[d] = TxnOfDelivery[e] /\ "none" \notin {delivery[d].status, delivery[e].status}
         => d = e

\* The statuses Authorize, Capture, Cancel and Fail start from.
PaymentFrom(next) ==
  CASE next = "authorized" -> {"pending"}
    [] next = "captured" -> {"authorized"}
    [] OTHER -> {"pending", "authorized"}

PaymentFrameOK(f, rows) ==
  /\ f.op = "payment_create" => f.saw \in {"pending", "active"}
  /\ f.op = "payment" =>
       /\ f.id \in PaymentIds /\ f.next \in PaymentOps /\ f.ver \in Nat
       /\ f.ver <= rows[f.id].ver
       /\ f.ver = rows[f.id].ver => rows[f.id].status \in PaymentFrom(f.next)

\* The statuses a payment in a status went through.
PaymentPasts(status) ==
  CASE status = "none" -> {{}}
    [] status = "pending" -> {{"pending"}}
    [] status = "authorized" -> {{"pending", "authorized"}}
    [] status = "captured" -> {{"pending", "authorized", "captured"}}
    [] OTHER -> {{"pending", status}, {"pending", "authorized", status}}

PaymentInv ==
  /\ payment \in [PaymentIds -> [status : PaymentStatuses, ver : Nat, past : SUBSET PaymentStatuses]]
  /\ DOMAIN call = Clients /\ \A c \in Clients : PaymentFrameOK(call[c], payment)
  /\ \A p \in PaymentIds : payment[p].past \in PaymentPasts(payment[p].status)
  /\ \A p, q \in PaymentIds :
       TxnOfPayment[p] = TxnOfPayment[q] /\ "none" \notin {payment[p].status, payment[q].status}
         => p = q

\* The disputes a new one was opened beside, all of them withdrawn; evidence is
\* for a dispute that was active when it was read.
DisputeFrameOK(f, rows) ==
  /\ f.op = "dispute_create" =>
       /\ f.saw # "cancelled"
       /\ f.known \subseteq DisputeIds /\ \A d \in f.known : rows[d].status = "withdrawn"
  /\ f.op = "dispute" =>
       /\ f.id \in DisputeIds /\ f.next \in DOMAIN DisputeFrom /\ f.ver \in Nat
       /\ f.ver <= rows[f.id].ver
       /\ f.ver = rows[f.id].ver => rows[f.id].status = DisputeFrom[f.next]
  /\ f.op = "evidence" =>
       /\ f.id \in DisputeIds /\ f.saw \in Nat
       /\ f.saw <= rows[f.id].ver
       /\ f.saw = rows[f.id].ver => rows[f.id].status \in DisputeActive

\* The events of a dispute in a status.
DisputeTold(status) ==
  CASE status = "none" -> {}
    [] status = "open" -> {"open"}
    [] status = "under_review" -> {"open", "under_review"}
    [] status = "resolved" -> {"open", "under_review", "resolved"}
    [] status = "closed" -> {"open", "under_review", "resolved", "closed"}
    [] OTHER -> {"open", "withdrawn"}

DisputeInv ==
  /\ dispute \in [DisputeIds -> Row(DisputeStatuses)]
  /\ evidence \in [DisputeIds -> SUBSET DisputeStatuses]
  /\ DOMAIN call = Clients /\ \A c \in Clients : DisputeFrameOK(call[c], dispute)
  /\ \A d \in DisputeIds : Announced("dispute", d) = DisputeTold(dispute[d].status)
  /\ \A d, e \in DisputeIds :
       TxnOfDispute[d] = TxnOfDispute[e] /\ {dispute[d].status, dispute[e].status} \subseteq DisputeActive
         => d = e

AfterSaleInv == DeliveryInv /\ PaymentInv /\ DisputeInv

-----------------------------------------------------------------------------
(* Facts about sets, events and frames *)

\* A set whose members are all equal has at most one.
LEMMA AtMostOne ==
  ASSUME NEW S, \A x, y \in S : x = y
  PROVE  Cardinality(S) <= 1
<1>1. CASE S = {}
  BY <1>1, FS_EmptySet
<1>2. CASE S # {}
  <2>1. PICK x \in S : TRUE
    BY <1>2
  <2>2. S = {x}
    BY <2>1
  <2> QED
    BY <2>2, FS_Singleton
<1> QED
  BY <1>1, <1>2

\* Write is an update of a row.
LEMMA WriteRow ==
  ASSUME NEW statuses, NEW row \in Row(statuses), NEW next \in statuses
  PROVE  Write(row, next) \in Row(statuses)
<1>1. row.ver \in Nat /\ row.ver + 1 \in Nat /\ DOMAIN row = {"status", "ver"}
  BY DEF Row
<1> QED
  BY <1>1 DEF Write, Row

\* An event is announced for one row and one status of it.
LEMMA Told ==
  ASSUME NEW kind, NEW id, NEW status, published' = published \cup {<<kind, id, status>>}
  PROVE  \A k, i : Announced(k, i)' = IF k = kind /\ i = id THEN Announced(k, i) \cup {status}
                                                           ELSE Announced(k, i)
<1>1. TAKE k, i
<1>2. CASE k = kind /\ i = id
  <2> DEFINE new == <<kind, id, status>>
             Of(set) == {l \in set : l[1] = k /\ l[2] = i}
  <2>1. Of(published') = Of(published) \cup {new} /\ new[3] = status
    BY <1>2
  <2>2. ASSUME NEW S
        PROVE  {l[3] : l \in S \cup {new}} = {l[3] : l \in S} \cup {new[3]}
    <3> HIDE DEF new
    <3> QED
      OBVIOUS
  <2> QED
    BY <1>2, <2>1, <2>2 DEF Announced
<1>3. CASE ~ (k = kind /\ i = id)
  BY <1>3 DEF Announced
<1> QED
  BY <1>2, <1>3

LEMMA NothingTold ==
  ASSUME UNCHANGED published
  PROVE  \A k, i : Announced(k, i)' = Announced(k, i)
BY DEF Announced

\* A request that ends.
LEMMA Ends ==
  ASSUME NEW c \in Clients, DOMAIN call = Clients, call[c].op # "idle", Return(c)
  PROVE  call[c] \in Ended(call[c].op)
BY DEF Ended, Return, Idle

\* Idle is none of the operations.
LEMMA IdleFrame ==
  /\ \A rows : DeliveryFrameOK(Idle, rows)
  /\ \A rows : PaymentFrameOK(Idle, rows)
  /\ \A rows : DisputeFrameOK(Idle, rows)
BY DEF DeliveryFrameOK, PaymentFrameOK, DisputeFrameOK, Idle

-----------------------------------------------------------------------------
(* Deliveries *)

DeliveriesAdvance ==
  \A d \in DeliveryIds : \/ delivery'[d] = delivery[d]
                         \/ delivery[d].ver < delivery'[d].ver

LEMMA DeliveryFrames ==
  ASSUME DeliveryInv, (delivery \in [DeliveryIds -> Row(DeliveryStatuses)])', DeliveriesAdvance,
         NEW c \in Clients, NEW f, call' = [call EXCEPT ![c] = f], DeliveryFrameOK(f, delivery')
  PROVE  (DOMAIN call = Clients /\ \A e \in Clients : DeliveryFrameOK(call[e], delivery))'
<1>1. ASSUME NEW e \in Clients
      PROVE  DeliveryFrameOK(call[e], delivery')
  BY DEF DeliveryInv, DeliveryFrameOK, DeliveriesAdvance, Row
<1> QED
  BY <1>1 DEF DeliveryInv

\* A step that touches no delivery.
LEMMA OtherThanDelivery ==
  ASSUME DeliveryInv, UNCHANGED delivery,
         \A d \in DeliveryIds : Announced("delivery", d)' = Announced("delivery", d),
         \/ UNCHANGED call
         \/ \E c \in Clients : \E f : /\ call' = [call EXCEPT ![c] = f]
                                     /\ DeliveryFrameOK(f, delivery)
  PROVE  DeliveryInv' /\ \A d \in DeliveryIds : BoundedDelivery(d)
<1>1. \A d \in DeliveryIds : BoundedDelivery(d)
  BY DEF BoundedDelivery
<1>2. (DOMAIN call = Clients /\ \A e \in Clients : DeliveryFrameOK(call[e], delivery))'
  BY DeliveryFrames DEF DeliveryInv, DeliveriesAdvance
<1> QED
  BY <1>1, <1>2 DEF DeliveryInv

LEMMA DeliveryMovesFrom ==
  ASSUME NEW d, NEW next \in DeliveryOps
  PROVE  DeliveryMoves(d, next) <=> delivery[d].status \in DeliveryFrom(d, next)
BY DEF DeliveryMoves, DeliveryFrom, DeliveryOps

LEMMA DeliveryCheckStep ==
  ASSUME DeliveryInv, NEW c \in Clients, NEW t \in TxnIds, DeliveryCheck(c, t)
  PROVE  DeliveryInv' /\ \A d \in DeliveryIds : BoundedDelivery(d)
<1> DEFINE f == [op |-> "delivery_create", txn |-> t, saw |-> agreement[t]]
<1>1. DeliveryFrameOK(f, delivery)
  BY DEF DeliveryCheck, MayCreateDelivery, DeliveryFrameOK
<1>2. call' = [call EXCEPT ![c] = f] /\ UNCHANGED <<delivery, published>>
  BY DEF DeliveryCheck, Proceed
<1> QED
  BY <1>1, <1>2, OtherThanDelivery, NothingTold

LEMMA DeliveryReadStep ==
  ASSUME DeliveryInv, NEW c \in Clients, NEW d \in DeliveryIds, NEW next \in DeliveryOps,
         DeliveryRead(c, d, next)
  PROVE  DeliveryInv' /\ \A e \in DeliveryIds : BoundedDelivery(e)
<1> DEFINE f == [op |-> "delivery", id |-> d, ver |-> delivery[d].ver, next |-> next,
                 saw |-> agreement[TxnOfDelivery[d]]]
<1>1. DeliveryFrameOK(f, delivery)
  BY DeliveryMovesFrom DEF DeliveryInv, DeliveryRead, DeliveryFrameOK, Row
<1>2. call' = [call EXCEPT ![c] = f] /\ UNCHANGED <<delivery, published>>
  BY DEF DeliveryRead, Proceed
<1> QED
  BY <1>1, <1>2, OtherThanDelivery, NothingTold

\* A delivery that is written: opened, or moved from the status it was read in.
LEMMA DeliveryWritten ==
  ASSUME DeliveryInv, NEW c \in Clients, Return(c), NEW d \in DeliveryIds, NEW next,
         delivery' = [delivery EXCEPT ![d] = Write(@, next)],
         published' = published \cup {<<"delivery", d, next>>},
         \/ /\ next = "pending" /\ delivery[d].status = "none"
            /\ \A e \in DeliveryIds : TxnOfDelivery[e] = TxnOfDelivery[d] => delivery[e].status = "none"
         \/ next \in DeliveryOps /\ delivery[d].status \in DeliveryFrom(d, next)
  PROVE  DeliveryInv'
<1>1. delivery'[d].status = next /\ delivery'[d].ver = delivery[d].ver + 1
  BY DEF DeliveryInv, Write, Row
<1>2. \A e \in DeliveryIds \ {d} : delivery'[e] = delivery[e]
  BY DEF DeliveryInv
<1>3. (delivery \in [DeliveryIds -> Row(DeliveryStatuses)])'
  <2>1. next \in DeliveryStatuses
    BY DEF DeliveryStatuses, DeliveryOps
  <2>2. Write(delivery[d], next) \in Row(DeliveryStatuses)
    BY <2>1, WriteRow DEF DeliveryInv
  <2> QED
    BY <2>2 DEF DeliveryInv
<1>4. (DOMAIN call = Clients /\ \A e \in Clients : DeliveryFrameOK(call[e], delivery))'
  <2>1. DeliveriesAdvance
    BY <1>1, <1>2 DEF DeliveriesAdvance, DeliveryInv, Row
  <2> QED
    BY <1>3, <2>1, DeliveryFrames, IdleFrame DEF Return
<1>5. (\A e \in DeliveryIds : DeliveryTold(e, delivery[e].status, Announced("delivery", e)))'
  <2>1. DeliveryTold(d, next, Announced("delivery", d) \cup {next})
    <3>1. DeliveryTold(d, delivery[d].status, Announced("delivery", d))
      BY DEF DeliveryInv
    <3>2. CASE next = "pending"
      BY <3>1, <3>2 DEF DeliveryTold, Behind, DeliveryOps
    <3>3. CASE next = "ready"
      BY <3>1, <3>3 DEF DeliveryTold, Behind, DeliveryFrom
    <3>4. CASE next = "in_transit"
      BY <3>1, <3>4 DEF DeliveryTold, Behind, DeliveryFrom
    <3>5. CASE next = "delivered"
      BY <3>1, <3>5 DEF DeliveryTold, Behind, DeliveryFrom
    <3>6. CASE next = "cancelled"
      <4>1. delivery[d].status \in {"pending", "ready", "in_transit"}
        BY <3>6 DEF DeliveryFrom, DeliveryOps
      <4> QED
        BY <3>1, <3>6, <4>1 DEF DeliveryTold
    <3> QED
      BY <3>2, <3>3, <3>4, <3>5, <3>6 DEF DeliveryOps
  <2>2. /\ Announced("delivery", d)' = Announced("delivery", d) \cup {next}
        /\ \A e \in DeliveryIds \ {d} : Announced("delivery", e)' = Announced("delivery", e)
    BY Told
  <2> QED
    BY <1>1, <1>2, <2>1, <2>2 DEF DeliveryInv
<1>6. (\A e, g \in DeliveryIds :
        TxnOfDelivery[e] = TxnOfDelivery[g] /\ "none" \notin {delivery[e].status, delivery[g].status}
          => e = g)'
  BY <1>1, <1>2 DEF DeliveryInv, DeliveryFrom
<1> QED
  BY <1>3, <1>4, <1>5, <1>6 DEF DeliveryInv

LEMMA DeliveryCreateStep ==
  ASSUME DeliveryInv, NEW c \in Clients, DeliveryCreate(c)
  PROVE  DeliveryInv' /\ \A d \in DeliveryIds : BoundedDelivery(d)
<1>1. Return(c) /\ call[c].op = "delivery_create"
  BY DEF DeliveryCreate
<1>2. CASE DeliveriesOf(call[c].txn) = {}
  <2>1. PICK d \in DeliveryIds :
          /\ TxnOfDelivery[d] = call[c].txn
          /\ delivery' = [delivery EXCEPT ![d] = Write(@, "pending")]
          /\ published' = published \cup {<<"delivery", d, "pending">>}
    BY <1>2 DEF DeliveryCreate, DeliveryKey
  <2>2. \A e \in DeliveryIds : TxnOfDelivery[e] = TxnOfDelivery[d] => delivery[e].status = "none"
    BY <1>2, <2>1 DEF DeliveriesOf
  <2>3. DeliveryInv'
    BY <1>1, <2>1, <2>2, DeliveryWritten
  <2>4. BoundedDelivery(d)
    <3>1. call[c] \in Ended("delivery_create") /\ call[c].saw \in {"pending", "active"}
      BY <1>1, Ends DEF DeliveryInv, DeliveryFrameOK
    <3>2. delivery'[d].status = "pending"
      BY <2>1 DEF DeliveryInv, Write, Row
    <3> QED
      BY <3>1, <3>2 DEF BoundedDelivery, Overtaken, Pending
  <2>5. \A e \in DeliveryIds \ {d} : BoundedDelivery(e)
    BY <2>1 DEF BoundedDelivery, DeliveryInv
  <2> QED
    BY <2>3, <2>4, <2>5
<1>3. CASE UNCHANGED <<delivery, published>>
  BY <1>1, <1>3, OtherThanDelivery, NothingTold, IdleFrame DEF Return
<1> QED
  BY <1>2, <1>3 DEF DeliveryCreate

LEMMA DeliveryWriteStep ==
  ASSUME DeliveryInv, NEW c \in Clients, DeliveryWrite(c)
  PROVE  DeliveryInv' /\ \A d \in DeliveryIds : BoundedDelivery(d)
<1> DEFINE d == call[c].id
           next == call[c].next
<1>1. Return(c) /\ call[c].op = "delivery"
  BY DEF DeliveryWrite
<1>2. /\ d \in DeliveryIds /\ next \in DeliveryOps
      /\ call[c].ver = delivery[d].ver => delivery[d].status \in DeliveryFrom(d, next)
      /\ next # "cancelled" => call[c].saw # "cancelled"
  BY <1>1 DEF DeliveryInv, DeliveryFrameOK
<1>3. CASE UNCHANGED <<delivery, published>>
  BY <1>1, <1>3, OtherThanDelivery, NothingTold, IdleFrame DEF Return
<1>4. CASE ~ UNCHANGED <<delivery, published>>
  <2>1. /\ Fresh(delivery[d], call[c].ver)
        /\ delivery' = [delivery EXCEPT ![d] = Write(@, next)]
        /\ published' = published \cup {<<"delivery", d, next>>}
    BY <1>4 DEF DeliveryWrite, DeliveryKey
  <2>2. delivery[d].status \in DeliveryFrom(d, next)
    BY <1>2, <2>1 DEF Fresh
  <2>3. DeliveryInv'
    BY <1>1, <1>2, <2>1, <2>2, DeliveryWritten
  <2>4. BoundedDelivery(d)
    <3>1. call[c] \in Ended("delivery")
      BY <1>1, Ends DEF DeliveryInv
    <3>2. delivery'[d].status = next
      BY <1>2, <2>1 DEF DeliveryInv, Write, Row
    <3> QED
      BY <1>2, <3>1, <3>2 DEF BoundedDelivery, Overtaken, DeliveryOps
  <2>5. \A e \in DeliveryIds \ {d} : BoundedDelivery(e)
    BY <2>1 DEF BoundedDelivery, DeliveryInv
  <2> QED
    BY <2>3, <2>4, <2>5
<1> QED
  BY <1>3, <1>4

-----------------------------------------------------------------------------
(* Payments *)

PaymentsAdvance ==
  \A p \in PaymentIds : \/ payment'[p] = payment[p]
                        \/ payment[p].ver < payment'[p].ver

PaymentRow == [status : PaymentStatuses, ver : Nat, past : SUBSET PaymentStatuses]

LEMMA PaymentFrames ==
  ASSUME PaymentInv, (payment \in [PaymentIds -> PaymentRow])', PaymentsAdvance,
         NEW c \in Clients, NEW f, call' = [call EXCEPT ![c] = f], PaymentFrameOK(f, payment')
  PROVE  (DOMAIN call = Clients /\ \A e \in Clients : PaymentFrameOK(call[e], payment))'
<1>1. ASSUME NEW e \in Clients
      PROVE  PaymentFrameOK(call[e], payment')
  BY DEF PaymentInv, PaymentFrameOK, PaymentsAdvance, PaymentRow
<1> QED
  BY <1>1 DEF PaymentInv

\* A step that touches no payment.
LEMMA OtherThanPayment ==
  ASSUME PaymentInv, UNCHANGED payment,
         \/ UNCHANGED call
         \/ \E c \in Clients : \E f : /\ call' = [call EXCEPT ![c] = f]
                                     /\ PaymentFrameOK(f, payment)
  PROVE  PaymentInv' /\ \A p \in PaymentIds : BoundedPayment(p)
<1>1. \A p \in PaymentIds : BoundedPayment(p)
  BY DEF BoundedPayment
<1>2. (DOMAIN call = Clients /\ \A e \in Clients : PaymentFrameOK(call[e], payment))'
  BY PaymentFrames DEF PaymentInv, PaymentsAdvance, PaymentRow
<1> QED
  BY <1>1, <1>2 DEF PaymentInv

LEMMA PaymentCheckStep ==
  ASSUME PaymentInv, NEW c \in Clients, NEW t \in TxnIds, PaymentCheck(c, t)
  PROVE  PaymentInv' /\ \A p \in PaymentIds : BoundedPayment(p)
<1> DEFINE f == [op |-> "payment_create", txn |-> t, saw |-> agreement[t]]
<1>1. PaymentFrameOK(f, payment)
  BY DEF PaymentCheck, Payable, PaymentFrameOK
<1>2. call' = [call EXCEPT ![c] = f] /\ UNCHANGED payment
  BY DEF PaymentCheck, Proceed
<1> QED
  BY <1>1, <1>2, OtherThanPayment

LEMMA PaymentReadStep ==
  ASSUME PaymentInv, NEW c \in Clients, NEW p \in PaymentIds, NEW next \in PaymentOps,
         PaymentRead(c, p, next)
  PROVE  PaymentInv' /\ \A q \in PaymentIds : BoundedPayment(q)
<1> DEFINE f == [op |-> "payment", id |-> p, ver |-> payment[p].ver, next |-> next]
<1>1. payment[p].status \in PaymentFrom(next)
  BY DEF PaymentRead, PaymentMoves, PaymentFrom
<1>2. PaymentFrameOK(f, payment)
  BY <1>1 DEF PaymentInv, PaymentFrameOK
<1>3. call' = [call EXCEPT ![c] = f] /\ UNCHANGED payment
  BY DEF PaymentRead, Proceed
<1> QED
  BY <1>2, <1>3, OtherThanPayment

\* A payment that is written: opened, or moved from the status it was read in.
LEMMA PaymentWritten ==
  ASSUME PaymentInv, NEW c \in Clients, Return(c), NEW p \in PaymentIds, NEW next,
         PaymentSet(p, next),
         \/ /\ next = "pending" /\ payment[p].status = "none"
            /\ \A q \in PaymentIds : TxnOfPayment[q] = TxnOfPayment[p] => payment[q].status = "none"
         \/ next \in PaymentOps /\ payment[p].status \in PaymentFrom(next)
  PROVE  /\ PaymentInv'
         /\ payment'[p].status = next /\ \A q \in PaymentIds \ {p} : payment'[q] = payment[q]
<1>1. payment[p] \in PaymentRow /\ next \in PaymentStatuses
  BY DEF PaymentInv, PaymentRow, PaymentStatuses, PaymentOps
<1> DEFINE row == [Write(payment[p], next) EXCEPT !.past = @ \cup {next}]
<1>2. /\ row \in PaymentRow /\ row.status = next /\ row.ver = payment[p].ver + 1
      /\ row.past = payment[p].past \cup {next}
  <2>1. /\ payment[p].ver \in Nat /\ payment[p].ver + 1 \in Nat
        /\ DOMAIN payment[p] = {"status", "ver", "past"}
        /\ payment[p].past \cup {next} \subseteq PaymentStatuses
    BY <1>1 DEF PaymentRow
  <2> QED
    BY <1>1, <2>1 DEF Write, PaymentRow
<1>3. /\ payment'[p] = row /\ \A q \in PaymentIds \ {p} : payment'[q] = payment[q]
      /\ (payment \in [PaymentIds -> PaymentRow])'
  <2>1. payment' = [payment EXCEPT ![p] = row]
    BY DEF PaymentSet
  <2> HIDE DEF row
  <2> QED
    BY <1>2, <2>1 DEF PaymentInv, PaymentRow
<1> HIDE DEF row
<1>4. (DOMAIN call = Clients /\ \A e \in Clients : PaymentFrameOK(call[e], payment))'
  <2>1. PaymentsAdvance
    BY <1>1, <1>2, <1>3 DEF PaymentsAdvance, PaymentRow
  <2> QED
    BY <1>3, <2>1, PaymentFrames, IdleFrame DEF Return
<1>5. payment[p].past \cup {next} \in PaymentPasts(next)
  <2>1. payment[p].past \in PaymentPasts(payment[p].status)
    BY DEF PaymentInv
  <2> QED
    BY <2>1 DEF PaymentPasts, PaymentFrom, PaymentOps
<1>6. (\A q \in PaymentIds : payment[q].past \in PaymentPasts(payment[q].status))'
  BY <1>2, <1>3, <1>5 DEF PaymentInv
<1>7. (\A q, r \in PaymentIds :
        TxnOfPayment[q] = TxnOfPayment[r] /\ "none" \notin {payment[q].status, payment[r].status}
          => q = r)'
  BY <1>2, <1>3 DEF PaymentInv, PaymentFrom
<1> QED
  BY <1>2, <1>3, <1>4, <1>6, <1>7 DEF PaymentInv, PaymentRow

LEMMA PaymentCreateStep ==
  ASSUME PaymentInv, NEW c \in Clients, PaymentCreate(c)
  PROVE  PaymentInv' /\ \A p \in PaymentIds : BoundedPayment(p)
<1>1. Return(c) /\ call[c].op = "payment_create"
  BY DEF PaymentCreate
<1>2. CASE PaymentsOf(call[c].txn) = {}
  <2>1. PICK p \in PaymentIds : TxnOfPayment[p] = call[c].txn /\ PaymentSet(p, "pending")
    BY <1>2 DEF PaymentCreate
  <2>2. \A q \in PaymentIds : TxnOfPayment[q] = TxnOfPayment[p] => payment[q].status = "none"
    BY <1>2, <2>1 DEF PaymentsOf
  <2>3. PaymentInv' /\ \A q \in PaymentIds \ {p} : payment'[q] = payment[q]
    BY <1>1, <2>1, <2>2, PaymentWritten
  <2>4. call[c] \in Ended("payment_create") /\ call[c].saw \in {"pending", "active"}
    BY <1>1, Ends DEF PaymentInv, PaymentFrameOK
  <2> QED
    BY <2>3, <2>4 DEF BoundedPayment, Overtaken, Pending
<1>3. CASE UNCHANGED payment
  BY <1>1, <1>3, OtherThanPayment, IdleFrame DEF Return
<1> QED
  BY <1>2, <1>3 DEF PaymentCreate

LEMMA PaymentWriteStep ==
  ASSUME PaymentInv, NEW c \in Clients, PaymentWrite(c)
  PROVE  PaymentInv' /\ \A p \in PaymentIds : BoundedPayment(p)
<1> DEFINE p == call[c].id
           next == call[c].next
<1>1. Return(c) /\ call[c].op = "payment"
  BY DEF PaymentWrite
<1>2. /\ p \in PaymentIds /\ next \in PaymentOps
      /\ call[c].ver = payment[p].ver => payment[p].status \in PaymentFrom(next)
  BY <1>1 DEF PaymentInv, PaymentFrameOK
<1>3. CASE UNCHANGED payment
  BY <1>1, <1>3, OtherThanPayment, IdleFrame DEF Return
<1>4. CASE Fresh(payment[p], call[c].ver) /\ PaymentSet(p, next)
  <2>1. /\ PaymentInv' /\ payment'[p].status = next
        /\ \A q \in PaymentIds \ {p} : payment'[q] = payment[q]
    BY <1>1, <1>2, <1>4, PaymentWritten DEF Fresh
  <2> QED
    BY <1>2, <2>1 DEF BoundedPayment, PaymentOps
<1> QED
  BY <1>3, <1>4 DEF PaymentWrite

-----------------------------------------------------------------------------
(* Disputes *)

\* A dispute that was withdrawn stays so.
DisputesAdvance ==
  \A d \in DisputeIds : \/ dispute'[d] = dispute[d]
                        \/ dispute[d].status # "withdrawn" /\ dispute[d].ver < dispute'[d].ver

LEMMA DisputeFrames ==
  ASSUME DisputeInv, (dispute \in [DisputeIds -> Row(DisputeStatuses)])', DisputesAdvance,
         NEW c \in Clients, NEW f, call' = [call EXCEPT ![c] = f], DisputeFrameOK(f, dispute')
  PROVE  (DOMAIN call = Clients /\ \A e \in Clients : DisputeFrameOK(call[e], dispute))'
<1>1. ASSUME NEW e \in Clients
      PROVE  DisputeFrameOK(call[e], dispute')
  BY DEF DisputeInv, DisputeFrameOK, DisputesAdvance, Row
<1> QED
  BY <1>1 DEF DisputeInv

\* A step that touches no dispute.
LEMMA OtherThanDispute ==
  ASSUME DisputeInv, UNCHANGED <<dispute, evidence>>,
         \A d \in DisputeIds : Announced("dispute", d)' = Announced("dispute", d),
         \/ UNCHANGED call
         \/ \E c \in Clients : \E f : /\ call' = [call EXCEPT ![c] = f]
                                     /\ DisputeFrameOK(f, dispute)
  PROVE  DisputeInv' /\ \A d \in DisputeIds : BoundedDispute(d)
<1>1. \A d \in DisputeIds : BoundedDispute(d)
  BY DEF BoundedDispute
<1>2. (DOMAIN call = Clients /\ \A e \in Clients : DisputeFrameOK(call[e], dispute))'
  BY DisputeFrames DEF DisputeInv, DisputesAdvance
<1> QED
  BY <1>1, <1>2 DEF DisputeInv

LEMMA DisputeCheckStep ==
  ASSUME DisputeInv, NEW c \in Clients, NEW t \in TxnIds, DisputeCheck(c, t)
  PROVE  DisputeInv' /\ \A d \in DisputeIds : BoundedDispute(d)
<1> DEFINE f == [op |-> "dispute_create", txn |-> t, saw |-> agreement[t],
                 known |-> DisputesOf(t, DisputeStatuses \ {"none"})]
<1>1. DisputeFrameOK(f, dispute)
  <2>1. \A d \in f.known : d \in DisputeIds /\ dispute[d].status = "withdrawn"
    BY DEF DisputeCheck, DisputesOf, DisputeStatuses, DisputeActive, DisputeConcluded
  <2> QED
    BY <2>1 DEF DisputeCheck, MayOpenDispute, DisputeFrameOK
<1>2. call' = [call EXCEPT ![c] = f] /\ UNCHANGED <<dispute, evidence, published>>
  BY DEF DisputeCheck, Proceed
<1> HIDE DEF f
<1> QED
  BY <1>1, <1>2, OtherThanDispute, NothingTold

LEMMA DisputeReadStep ==
  ASSUME DisputeInv, NEW c \in Clients, NEW d \in DisputeIds, NEW next \in DOMAIN DisputeFrom,
         DisputeRead(c, d, next)
  PROVE  DisputeInv' /\ \A e \in DisputeIds : BoundedDispute(e)
<1> DEFINE f == [op |-> "dispute", id |-> d, ver |-> dispute[d].ver, next |-> next]
<1>1. DisputeFrameOK(f, dispute)
  BY DEF DisputeInv, DisputeRead, DisputeFrameOK, Row
<1>2. call' = [call EXCEPT ![c] = f] /\ UNCHANGED <<dispute, evidence, published>>
  BY DEF DisputeRead, Proceed
<1> QED
  BY <1>1, <1>2, OtherThanDispute, NothingTold

LEMMA EvidenceCheckStep ==
  ASSUME DisputeInv, NEW c \in Clients, NEW d \in DisputeIds, EvidenceCheck(c, d)
  PROVE  DisputeInv' /\ \A e \in DisputeIds : BoundedDispute(e)
<1> DEFINE f == [op |-> "evidence", id |-> d, saw |-> dispute[d].ver]
<1>1. DisputeFrameOK(f, dispute)
  BY DEF DisputeInv, EvidenceCheck, DisputeFrameOK, Row
<1>2. call' = [call EXCEPT ![c] = f] /\ UNCHANGED <<dispute, evidence, published>>
  BY DEF EvidenceCheck, Proceed
<1> QED
  BY <1>1, <1>2, OtherThanDispute, NothingTold

\* A dispute that is written: opened, or moved from the status it was read in.
LEMMA DisputeWritten ==
  ASSUME DisputeInv, NEW c \in Clients, Return(c), NEW d \in DisputeIds, NEW next,
         dispute' = [dispute EXCEPT ![d] = Write(@, next)],
         published' = published \cup {<<"dispute", d, next>>}, UNCHANGED evidence,
         \/ /\ next = "open" /\ dispute[d].status = "none"
            /\ \A e \in DisputeIds : TxnOfDispute[e] = TxnOfDispute[d]
                                       => dispute[e].status \notin DisputeActive
         \/ next \in DOMAIN DisputeFrom /\ dispute[d].status = DisputeFrom[next]
  PROVE  /\ DisputeInv' /\ dispute'[d].status = next
         /\ \A e \in DisputeIds \ {d} : dispute'[e] = dispute[e]
<1>1. next = "open" \/ next \in {"under_review", "resolved", "closed", "withdrawn"}
  BY DEF DisputeFrom
<1>2. /\ dispute'[d].status = next /\ dispute'[d].ver = dispute[d].ver + 1
      /\ \A e \in DisputeIds \ {d} : dispute'[e] = dispute[e]
  BY DEF DisputeInv, Write, Row
<1>3. (dispute \in [DisputeIds -> Row(DisputeStatuses)])'
  <2>1. next \in DisputeStatuses
    BY <1>1 DEF DisputeStatuses
  <2>2. Write(dispute[d], next) \in Row(DisputeStatuses)
    BY <2>1, WriteRow DEF DisputeInv
  <2> QED
    BY <2>2 DEF DisputeInv
<1>4. \/ next = "open" /\ dispute[d].status = "none"
      \/ next = "under_review" /\ dispute[d].status = "open"
      \/ next = "resolved" /\ dispute[d].status = "under_review"
      \/ next = "closed" /\ dispute[d].status = "resolved"
      \/ next = "withdrawn" /\ dispute[d].status = "open"
  BY <1>1 DEF DisputeFrom
<1>5. (DOMAIN call = Clients /\ \A e \in Clients : DisputeFrameOK(call[e], dispute))'
  <2>1. DisputesAdvance
    BY <1>2, <1>4 DEF DisputesAdvance, DisputeInv, Row
  <2> QED
    BY <1>3, <2>1, DisputeFrames, IdleFrame DEF Return
<1>6. (\A e \in DisputeIds : Announced("dispute", e) = DisputeTold(dispute[e].status))'
  <2>1. DisputeTold(dispute[d].status) \cup {next} = DisputeTold(next)
    BY <1>4 DEF DisputeTold
  <2>2. /\ Announced("dispute", d)' = Announced("dispute", d) \cup {next}
        /\ \A e \in DisputeIds \ {d} : Announced("dispute", e)' = Announced("dispute", e)
    BY Told
  <2> QED
    BY <1>2, <2>1, <2>2 DEF DisputeInv
<1>7. (\A e, g \in DisputeIds :
        TxnOfDispute[e] = TxnOfDispute[g] /\ {dispute[e].status, dispute[g].status} \subseteq DisputeActive
          => e = g)'
  <2>1. \A e, g \in DisputeIds :
          TxnOfDispute[e] = TxnOfDispute[g] /\ dispute[e].status \in DisputeActive
            /\ dispute[g].status \in DisputeActive => e = g
    BY DEF DisputeInv
  <2>2. CASE next = "open"
    BY <1>2, <2>1, <2>2 DEF DisputeActive, DisputeFrom
  <2>3. CASE next # "open"
    BY <1>2, <1>4, <2>1, <2>3 DEF DisputeActive
  <2> QED
    BY <2>2, <2>3
<1> QED
  BY <1>2, <1>3, <1>5, <1>6, <1>7 DEF DisputeInv

LEMMA DisputeCreateStep ==
  ASSUME DisputeInv, NEW c \in Clients, DisputeCreate(c)
  PROVE  DisputeInv' /\ \A d \in DisputeIds : BoundedDispute(d)
<1>1. Return(c) /\ call[c].op = "dispute_create" /\ UNCHANGED evidence
  BY DEF DisputeCreate
<1>2. CASE DisputesOf(call[c].txn, DisputeActive) = {}
  <2>1. PICK d \in DisputeIds :
          /\ TxnOfDispute[d] = call[c].txn /\ dispute[d].status = "none"
          /\ dispute' = [dispute EXCEPT ![d] = Write(@, "open")]
          /\ published' = published \cup {<<"dispute", d, "open">>}
    BY <1>2 DEF DisputeCreate, DisputeKey
  <2>2. \A e \in DisputeIds : TxnOfDispute[e] = TxnOfDispute[d] => dispute[e].status \notin DisputeActive
    BY <1>2, <2>1 DEF DisputesOf
  <2>3. DisputeInv' /\ \A e \in DisputeIds \ {d} : dispute'[e] = dispute[e]
    BY <1>1, <2>1, <2>2, DisputeWritten
  <2>4. call[c] \in Ended("dispute_create")
    BY <1>1, Ends DEF DisputeInv
  <2>5. /\ call[c].saw # "cancelled"
        /\ DisputesOf(TxnOfDispute[d], DisputeConcluded) \cap call[c].known = {}
    BY <1>1 DEF DisputeInv, DisputeFrameOK, DisputesOf, DisputeConcluded
  <2> QED
    BY <1>1, <2>3, <2>4, <2>5 DEF BoundedDispute, Overtaken
<1>3. CASE UNCHANGED <<dispute, published>>
  BY <1>1, <1>3, OtherThanDispute, NothingTold, IdleFrame DEF Return
<1> QED
  BY <1>2, <1>3 DEF DisputeCreate

LEMMA DisputeWriteStep ==
  ASSUME DisputeInv, NEW c \in Clients, DisputeWrite(c)
  PROVE  DisputeInv' /\ \A d \in DisputeIds : BoundedDispute(d)
<1> DEFINE d == call[c].id
           next == call[c].next
<1>1. Return(c) /\ call[c].op = "dispute" /\ UNCHANGED evidence
  BY DEF DisputeWrite
<1>2. /\ d \in DisputeIds /\ next \in DOMAIN DisputeFrom
      /\ call[c].ver = dispute[d].ver => dispute[d].status = DisputeFrom[next]
  BY <1>1 DEF DisputeInv, DisputeFrameOK
<1>3. CASE UNCHANGED <<dispute, published>>
  BY <1>1, <1>3, OtherThanDispute, NothingTold, IdleFrame DEF Return
<1>4. CASE ~ UNCHANGED <<dispute, published>>
  <2>1. /\ Fresh(dispute[d], call[c].ver)
        /\ dispute' = [dispute EXCEPT ![d] = Write(@, next)]
        /\ published' = published \cup {<<"dispute", d, next>>}
    BY <1>4 DEF DisputeWrite, DisputeKey
  <2>2. /\ DisputeInv' /\ dispute'[d].status = next
        /\ \A e \in DisputeIds \ {d} : dispute'[e] = dispute[e]
    BY <1>1, <1>2, <2>1, DisputeWritten DEF Fresh
  <2>3. next # "open"
    BY <1>2 DEF DisputeFrom
  <2> QED
    BY <1>1, <2>2, <2>3 DEF BoundedDispute
<1> QED
  BY <1>3, <1>4

LEMMA EvidenceAppendStep ==
  ASSUME DisputeInv, NEW c \in Clients, EvidenceAppend(c)
  PROVE  DisputeInv' /\ \A d \in DisputeIds : BoundedDispute(d)
<1> DEFINE d == call[c].id
<1>1. /\ call[c].op = "evidence" /\ Return(c) /\ UNCHANGED <<dispute, published>>
      /\ evidence' = [evidence EXCEPT ![d] = @ \cup {dispute[d].status}]
  BY DEF EvidenceAppend
<1>2. /\ d \in DisputeIds /\ dispute[d].status \in DisputeStatuses
      /\ call[c].saw = dispute[d].ver => dispute[d].status \in DisputeActive
  BY <1>1 DEF DisputeInv, DisputeFrameOK, Row
<1>3. (evidence \in [DisputeIds -> SUBSET DisputeStatuses])'
  BY <1>1, <1>2 DEF DisputeInv
<1>4. (DOMAIN call = Clients /\ \A e \in Clients : DisputeFrameOK(call[e], dispute))'
  BY <1>1, DisputeFrames, IdleFrame DEF DisputeInv, DisputesAdvance, Return
<1>5. DisputeInv'
  BY <1>1, <1>3, <1>4, NothingTold DEF DisputeInv
<1>6. call[c] \in Ended("evidence")
  BY <1>1, Ends DEF DisputeInv
<1>7. /\ evidence'[d] \ evidence[d] \subseteq {dispute[d].status}
      /\ \A e \in DisputeIds \ {d} : evidence'[e] = evidence[e]
  BY <1>1, <1>2 DEF DisputeInv
<1> QED
  BY <1>1, <1>2, <1>5, <1>6, <1>7 DEF BoundedDispute

-----------------------------------------------------------------------------
(* Every step *)

LEMMA AbandonStep ==
  ASSUME AfterSaleInv, NEW c \in Clients, Abandon(c)
  PROVE  AfterSaleInv' /\ BoundedWrites
BY OtherThanDelivery, OtherThanPayment, OtherThanDispute, NothingTold, IdleFrame
   DEF AfterSaleInv, BoundedWrites, Abandon, Return, disputeVars

\* The frames of the requests of one kind say nothing to the other kinds.
LEMMA DeliveriesStep ==
  ASSUME AfterSaleInv, NEW c \in Clients, DeliveriesNext(c), UNCHANGED <<payment, disputeVars>>
  PROVE  AfterSaleInv' /\ BoundedWrites
<1>1. DeliveryInv' /\ \A d \in DeliveryIds : BoundedDelivery(d)
  BY DeliveryCheckStep, DeliveryReadStep, DeliveryCreateStep, DeliveryWriteStep
     DEF AfterSaleInv, DeliveriesNext
<1>2. PICK f : /\ call' = [call EXCEPT ![c] = f]
               /\ f.op \in {"idle", "delivery_create", "delivery"}
  BY DEF DeliveriesNext, DeliveryCheck, DeliveryRead, DeliveryCreate, DeliveryWrite, Proceed, Return, Idle
<1>3. PaymentFrameOK(f, payment) /\ DisputeFrameOK(f, dispute)
  BY <1>2 DEF PaymentFrameOK, DisputeFrameOK
<1>4. \A d \in DisputeIds : Announced("dispute", d)' = Announced("dispute", d)
  <2>1. \/ UNCHANGED published
        \/ \E d, s : published' = published \cup {<<"delivery", d, s>>}
    BY DEF DeliveriesNext, DeliveryCheck, DeliveryRead, DeliveryCreate, DeliveryWrite, DeliveryKey
  <2>2. CASE UNCHANGED published
    BY <2>2, NothingTold
  <2>3. ASSUME NEW d, NEW s, published' = published \cup {<<"delivery", d, s>>}
        PROVE  \A e \in DisputeIds : Announced("dispute", e)' = Announced("dispute", e)
    <3>1. \A k, i : Announced(k, i)' = IF k = "delivery" /\ i = d THEN Announced(k, i) \cup {s}
                                                               ELSE Announced(k, i)
      BY <2>3, Told
    <3> QED
      BY <3>1
  <2> QED
    BY <2>1, <2>2, <2>3
<1> QED
  BY <1>1, <1>2, <1>3, <1>4, OtherThanPayment, OtherThanDispute
     DEF AfterSaleInv, BoundedWrites, disputeVars

LEMMA PaymentsStep ==
  ASSUME AfterSaleInv, NEW c \in Clients, PaymentsNext(c), UNCHANGED <<delivery, disputeVars, published>>
  PROVE  AfterSaleInv' /\ BoundedWrites
<1>1. PaymentInv' /\ \A p \in PaymentIds : BoundedPayment(p)
  BY PaymentCheckStep, PaymentReadStep, PaymentCreateStep, PaymentWriteStep
     DEF AfterSaleInv, PaymentsNext
<1>2. PICK f : /\ call' = [call EXCEPT ![c] = f]
               /\ f.op \in {"idle", "payment_create", "payment"}
  BY DEF PaymentsNext, PaymentCheck, PaymentRead, PaymentCreate, PaymentWrite, Proceed, Return, Idle
<1>3. DeliveryFrameOK(f, delivery) /\ DisputeFrameOK(f, dispute)
  BY <1>2 DEF DeliveryFrameOK, DisputeFrameOK
<1> QED
  BY <1>1, <1>2, <1>3, OtherThanDelivery, OtherThanDispute, NothingTold
     DEF AfterSaleInv, BoundedWrites, disputeVars

LEMMA DisputesStep ==
  ASSUME AfterSaleInv, NEW c \in Clients, DisputesNext(c), UNCHANGED <<delivery, payment>>
  PROVE  AfterSaleInv' /\ BoundedWrites
<1>1. DisputeInv' /\ \A d \in DisputeIds : BoundedDispute(d)
  BY DisputeCheckStep, DisputeReadStep, EvidenceCheckStep, DisputeCreateStep, DisputeWriteStep,
     EvidenceAppendStep DEF AfterSaleInv, DisputesNext
<1>2. PICK f : /\ call' = [call EXCEPT ![c] = f]
               /\ f.op \in {"idle", "dispute_create", "dispute", "evidence"}
  BY DEF DisputesNext, DisputeCheck, DisputeRead, EvidenceCheck, DisputeCreate, DisputeWrite,
         EvidenceAppend, Proceed, Return, Idle
<1>3. DeliveryFrameOK(f, delivery) /\ PaymentFrameOK(f, payment)
  BY <1>2 DEF DeliveryFrameOK, PaymentFrameOK
<1>4. \A d \in DeliveryIds : Announced("delivery", d)' = Announced("delivery", d)
  <2>1. \/ UNCHANGED published
        \/ \E d, s : published' = published \cup {<<"dispute", d, s>>}
    BY DEF DisputesNext, DisputeCheck, DisputeRead, EvidenceCheck, DisputeCreate, DisputeWrite,
           EvidenceAppend, DisputeKey
  <2>2. CASE UNCHANGED published
    BY <2>2, NothingTold
  <2>3. ASSUME NEW d, NEW s, published' = published \cup {<<"dispute", d, s>>}
        PROVE  \A e \in DeliveryIds : Announced("delivery", e)' = Announced("delivery", e)
    <3>1. \A k, i : Announced(k, i)' = IF k = "dispute" /\ i = d THEN Announced(k, i) \cup {s}
                                                               ELSE Announced(k, i)
      BY <2>3, Told
    <3> QED
      BY <3>1
  <2> QED
    BY <2>1, <2>2, <2>3
<1> QED
  BY <1>1, <1>2, <1>3, <1>4, OtherThanDelivery, OtherThanPayment
     DEF AfterSaleInv, BoundedWrites

\* A step in which no request takes part: the transaction moves, or nothing does.
LEMMA QuietStep ==
  ASSUME AfterSaleInv, UNCHANGED <<delivery, payment, disputeVars, call, published>>
  PROVE  AfterSaleInv' /\ BoundedWrites
BY OtherThanDelivery, OtherThanPayment, OtherThanDispute, NothingTold
   DEF AfterSaleInv, BoundedWrites, disputeVars

LEMMA AfterSaleInitially == Init => AfterSaleInv
<1> SUFFICES ASSUME Init PROVE AfterSaleInv
  OBVIOUS
<1> USE DEF Init, DeliveriesInit, PaymentsInit, DisputesInit
<1>1. \A k, i : Announced(k, i) = {}
  BY DEF Announced
<1>2. DOMAIN call = Clients /\ \A c \in Clients : call[c] = Idle
  OBVIOUS
<1>3. DeliveryInv
  BY <1>1, <1>2, IdleFrame DEF DeliveryInv, DeliveryStatuses, Row, DeliveryTold, Behind
<1>4. PaymentInv
  BY <1>2, IdleFrame DEF PaymentInv, PaymentStatuses, PaymentPasts
<1>5. DisputeInv
  BY <1>1, <1>2, IdleFrame DEF DisputeInv, DisputeStatuses, DisputeActive, Row, DisputeTold
<1> QED
  BY <1>3, <1>4, <1>5 DEF AfterSaleInv

LEMMA AfterSaleStep == AfterSaleInv /\ [Next]_vars => AfterSaleInv' /\ BoundedWrites
<1> SUFFICES ASSUME AfterSaleInv, [Next]_vars PROVE AfterSaleInv' /\ BoundedWrites
  OBVIOUS
<1>1. CASE \E c \in Clients : Request(c)
  BY <1>1, AbandonStep, DeliveriesStep, PaymentsStep, DisputesStep DEF Request
<1>2. CASE (\E t \in TxnIds : Move(t)) \/ UNCHANGED vars
  BY <1>2, QuietStep DEF Move, vars
<1> QED
  BY <1>1, <1>2 DEF Next

LEMMA AfterSaleInvariant == Spec => []AfterSaleInv
BY AfterSaleInitially, AfterSaleStep, PTL DEF Spec

-----------------------------------------------------------------------------
(* What follows *)

\* The rows, the evidence and the transactions keep their types.
THEOREM AfterSaleTypeCorrect == Spec => []TypeOK
<1> DEFINE AgreementsOK == /\ agreement \in [TxnIds -> AgreementStatuses]
                           /\ windowOpen \in [TxnIds -> BOOLEAN]
<1>1. Init => AgreementsOK
  BY DEF Init, AgreementsInit, AgreementStatuses
<1>2. AgreementsOK /\ [Next]_vars => AgreementsOK'
  <2> SUFFICES ASSUME AgreementsOK, [Next]_vars PROVE AgreementsOK'
    OBVIOUS
  <2>1. CASE UNCHANGED agreementVars
    BY <2>1 DEF agreementVars
  <2>2. ASSUME NEW t \in TxnIds, AgreementStep(t)
        PROVE  AgreementsOK'
    <3>1. agreement' \in [TxnIds -> AgreementStatuses]
      BY <2>2 DEF AgreementStep, AgreementStatuses
    <3>2. (windowOpen[t] \/ agreement'[t] = "completed") \in BOOLEAN
      OBVIOUS
    <3> QED
      BY <2>2, <3>1, <3>2 DEF AgreementStep
  <2>3. ASSUME NEW t \in TxnIds, WindowCloses(t)
        PROVE  AgreementsOK'
    BY <2>3 DEF WindowCloses
  <2> QED
    BY <2>1, <2>2, <2>3 DEF Next, Request, Move, vars
<1>3. AfterSaleInv /\ AgreementsOK => TypeOK
  BY DEF AfterSaleInv, DeliveryInv, PaymentInv, DisputeInv, TypeOK
<1> QED
  BY <1>1, <1>2, <1>3, AfterSaleInvariant, PTL DEF Spec

LEMMA Routes ==
  ASSUME NEW d
  PROVE  /\ d \notin Skips => /\ Len(Route(d)) = 4
                              /\ Route(d)[1] = "pending" /\ Route(d)[2] = "ready"
                              /\ Route(d)[3] = "in_transit" /\ Route(d)[4] = "delivered"
         /\ d \in Skips => /\ Len(Route(d)) = 3
                           /\ Route(d)[1] = "pending" /\ Route(d)[2] = "ready"
                           /\ Route(d)[3] = "delivered"
BY DEF Route

\* What a delivery has behind it is the beginning of its route, which ends with
\* its status.
LEMMA BehindOnRoute ==
  ASSUME NEW d, NEW s \in DeliveryStatuses \ {"cancelled"}, s = "in_transit" => d \notin Skips
  PROVE  \E n \in 0..Len(Route(d)) : /\ Behind(d, s) = {Route(d)[i] : i \in 1..n}
                                     /\ IF s = "none" THEN n = 0 ELSE n > 0 /\ s = Route(d)[n]
<1> USE Routes
<1>1. CASE s = "none"
  <2>1. Behind(d, s) = {Route(d)[i] : i \in 1..0}
    BY <1>1 DEF Behind
  <2> QED
    BY <1>1, <2>1
<1>2. CASE s = "pending"
  <2>1. 1..1 = {1}
    OBVIOUS
  <2>2. Behind(d, s) = {Route(d)[i] : i \in 1..1} /\ s = Route(d)[1]
    BY <1>2, <2>1 DEF Behind
  <2> QED
    BY <1>2, <2>2
<1>3. CASE s = "ready"
  <2>1. 1..2 = {1, 2}
    OBVIOUS
  <2>2. Behind(d, s) = {Route(d)[i] : i \in 1..2} /\ s = Route(d)[2]
    BY <1>3, <2>1 DEF Behind
  <2> QED
    BY <1>3, <2>2
<1>4. CASE s = "in_transit" \/ (s = "delivered" /\ d \in Skips)
  <2>1. 1..3 = {1, 2, 3}
    OBVIOUS
  <2>2. Behind(d, s) = {Route(d)[i] : i \in 1..3} /\ s = Route(d)[3]
    BY <1>4, <2>1 DEF Behind
  <2> QED
    BY <1>4, <2>2
<1>5. CASE s = "delivered" /\ d \notin Skips
  <2>1. 1..4 = {1, 2, 3, 4}
    OBVIOUS
  <2>2. Behind(d, s) = {Route(d)[i] : i \in 1..4} /\ s = Route(d)[4]
    BY <1>5, <2>1 DEF Behind
  <2> QED
    BY <1>5, <2>2
<1> QED
  BY <1>1, <1>2, <1>3, <1>4, <1>5 DEF DeliveryStatuses

\* The events of a delivery are an unbroken part of its route up to its status,
\* and its cancellation exactly if it is cancelled, however its requests overlap
\* and whatever becomes of the transaction.
THEOREM DeliveriesTellTheirStory == Spec => []DeliveryStory
<1>1. ASSUME AfterSaleInv PROVE DeliveryStory
  <2>1. \A t \in TxnIds : Cardinality(DeliveriesOf(t)) <= 1
    BY <1>1, AtMostOne DEF AfterSaleInv, DeliveryInv, DeliveriesOf
  <2>2. ASSUME NEW d \in DeliveryIds
        PROVE  LET told == Announced("delivery", d)
                   cut == told \ {"cancelled"}
               IN  /\ \E n \in 0..Len(Route(d)) :
                        /\ cut = {Route(d)[i] : i \in 1..n}
                        /\ delivery[d].status \notin {"none", "cancelled"} =>
                             n > 0 /\ delivery[d].status = Route(d)[n]
                        /\ delivery[d].status = "none" => n = 0
                   /\ "cancelled" \in told <=> delivery[d].status = "cancelled"
                   /\ ~ {"delivered", "cancelled"} \subseteq told
    <3> DEFINE told == Announced("delivery", d)
               cut == told \ {"cancelled"}
               status == delivery[d].status
    <3>1. DeliveryTold(d, status, told) /\ status \in DeliveryStatuses
      BY <1>1 DEF AfterSaleInv, DeliveryInv, Row
    <3> HIDE DEF told, status
    <3>2. PICK s \in DeliveryStatuses \ {"cancelled"} :
            /\ cut = Behind(d, s) /\ (s = "in_transit" => d \notin Skips)
            /\ IF status = "cancelled" THEN s \in {"pending", "ready", "in_transit"} ELSE s = status
      <4>1. CASE status = "cancelled"
        BY <3>1, <4>1 DEF DeliveryTold, Behind, DeliveryStatuses
      <4>2. CASE status # "cancelled"
        BY <3>1, <4>2 DEF DeliveryTold, Behind, DeliveryStatuses
      <4> QED
        BY <4>1, <4>2
    <3>3. \E n \in 0..Len(Route(d)) : /\ cut = {Route(d)[i] : i \in 1..n}
                                      /\ IF s = "none" THEN n = 0 ELSE n > 0 /\ s = Route(d)[n]
      BY <3>2, BehindOnRoute
    <3>4. "cancelled" \in told <=> status = "cancelled"
      BY <3>1 DEF DeliveryTold, Behind, DeliveryStatuses
    <3>5. ~ {"delivered", "cancelled"} \subseteq told
      BY <3>1 DEF DeliveryTold, Behind, DeliveryStatuses
    <3> QED
      BY <3>2, <3>3, <3>4, <3>5 DEF told, status
  <2> QED
    BY <2>1, <2>2 DEF DeliveryStory
<1> QED
  BY <1>1, AfterSaleInvariant, PTL

\* A payment is captured only after it was authorized, and ends in one way, in
\* whatever order and however often the provider signals.
THEOREM PaymentsEndOnce == Spec => []OneOutcomeOfPayment
<1>1. ASSUME AfterSaleInv PROVE OneOutcomeOfPayment
  <2>1. \A t \in TxnIds : Cardinality(PaymentsOf(t)) <= 1
    BY <1>1, AtMostOne DEF AfterSaleInv, PaymentInv, PaymentsOf
  <2>2. ASSUME NEW p \in PaymentIds
        PROVE  /\ "captured" \in payment[p].past => "authorized" \in payment[p].past
               /\ Cardinality(payment[p].past \cap PaymentFinal) <= 1
    <3>1. payment[p].past \in PaymentPasts(payment[p].status) /\ payment[p].status \in PaymentStatuses
      BY <1>1 DEF AfterSaleInv, PaymentInv
    <3>2. "captured" \in payment[p].past => "authorized" \in payment[p].past
      BY <3>1 DEF PaymentPasts, PaymentStatuses
    <3>3. \A x, y \in payment[p].past \cap PaymentFinal : x = y
      BY <3>1 DEF PaymentPasts, PaymentStatuses, PaymentFinal
    <3> QED
      BY <3>2, <3>3, AtMostOne
  <2> QED
    BY <2>1, <2>2 DEF OneOutcomeOfPayment
<1> QED
  BY <1>1, AfterSaleInvariant, PTL

\* The events of a dispute are a legal history of it, and a transaction has one
\* active dispute, however staff and party decide against each other.
THEOREM DisputesTellTheirStory == Spec => []DisputeStory
<1>1. ASSUME AfterSaleInv PROVE DisputeStory
  <2>1. \A t \in TxnIds : Cardinality(DisputesOf(t, DisputeActive)) <= 1
    BY <1>1, AtMostOne DEF AfterSaleInv, DisputeInv, DisputesOf
  <2>2. ASSUME NEW d \in DisputeIds
        PROVE  LET told == Announced("dispute", d) IN
               /\ dispute[d].status # "none" => dispute[d].status \in told
               /\ told \cap DisputeConcluded # {} => "under_review" \in told
               /\ ~ {"under_review", "withdrawn"} \subseteq told
    <3>1. /\ Announced("dispute", d) = DisputeTold(dispute[d].status)
          /\ dispute[d].status \in DisputeStatuses
      BY <1>1 DEF AfterSaleInv, DisputeInv, Row
    <3> QED
      BY <3>1 DEF DisputeTold, DisputeStatuses, DisputeConcluded
  <2> QED
    BY <2>1, <2>2 DEF DisputeStory
<1> QED
  BY <1>1, AfterSaleInvariant, PTL

\* What is opened or moved against the transaction, and evidence added to a
\* dispute that is over, come from a request that had looked before the change.
THEOREM LateWritesBounded == Spec => LateWritesAreBounded
BY AfterSaleInvariant, AfterSaleStep, PTL DEF Spec, LateWritesAreBounded
=============================================================================
