---------------------------- MODULE Transactions ----------------------------
(***************************************************************************)
(* backend/internal/transactions: the requester makes a transaction from   *)
(* an accepted offer; either participant starts, completes or cancels it.  *)
(* Completion is announced through the outbox, and CompletionHandler, run  *)
(* by the relay at least once per event, fulfils the need.                 *)
(***************************************************************************)
EXTENDS Offers

CONSTANTS
  TxnIds,      \* ids that may be minted
  NoOffer,
  Relays       \* relay workers that run the completion handler

ASSUME TransactionsAssumption == NoOffer \notin OfferIds

VARIABLES
  txn,         \* the row of each transaction: offer, status and updated_at
  handling,    \* what each run of the completion handler has read
  settled      \* completed events whose handler has returned nil

TxnStatuses == {"none", "pending", "active", "completed", "cancelled"}
TxnFinal == {"completed", "cancelled"}

TransactionsInit ==
  /\ txn = [t \in TxnIds |-> [offer |-> NoOffer, status |-> "none", ver |-> 0]]
  /\ handling = [w \in Relays |-> Idle]
  /\ settled = {}

TxnNeed(t) == NeedOf[txn[t].offer]
TxnsOfOffer(o) == {t \in TxnIds : txn[t].offer = o}

-----------------------------------------------------------------------------
\* CreateFromAcceptedOffer, up to the write.  An accepted offer stays accepted,
\* so the offer and the need may be taken to be read together.  "saw" is history:
\* the need as it was then.
DealCheck(c, o) ==
  /\ call[c] = Idle
  /\ offer[o].status = "accepted"
  /\ NeedIsOpen(NeedOf[o])
  /\ Proceed(c, [op |-> "deal", id |-> o, saw |-> need[NeedOf[o]].ver])
  /\ UNCHANGED <<txn, published>>

\* CreateFromAcceptedOffer: insert a fresh id, unique per offer, and the created
\* event; an existing transaction of the offer is returned instead.
DealWrite(c) ==
  LET o == call[c].id IN
  /\ call[c].op = "deal"
  /\ \/ /\ TxnsOfOffer(o) = {}
        /\ \E t \in TxnIds :
             /\ txn[t].status = "none"
             /\ txn' = [txn EXCEPT ![t] = [offer |-> o, status |-> "pending", ver |-> 1]]
             /\ published' = published \cup {<<"created", t>>}
     \/ /\ TxnsOfOffer(o) # {}
        /\ UNCHANGED <<txn, published>>
  /\ Return(c)

\* Start, Complete and Cancel: from which status, and the need they ask for.
TxnOps == {"start", "complete", "cancel"}
TxnNext(op, status) ==
  CASE op = "start" /\ status = "pending" -> "active"
    [] op = "complete" /\ status = "active" -> "completed"
    [] op = "cancel" /\ status \in {"pending", "active"} -> "cancelled"
    [] OTHER -> "none"
NeedAllows(op, t) ==
  CASE op = "start" -> NeedIsOpen(TxnNeed(t))
    [] op = "complete" -> need[TxnNeed(t)].status \in {"open", "fulfilled"}
    [] OTHER -> TRUE

\* apply, up to the write; an unchanged or refused transition returns.  The
\* write below only happens if the row is still the one read here, so the row
\* and the need may be taken to be read together.
TxnRead(c, t, op) ==
  /\ call[c] = Idle
  /\ TxnNext(op, txn[t].status) # "none"
  /\ NeedAllows(op, t)
  /\ Proceed(c, [op |-> "txn", id |-> t, ver |-> txn[t].ver,
                 next |-> TxnNext(op, txn[t].status), saw |-> need[TxnNeed(t)].ver])
  /\ UNCHANGED <<txn, published>>

\* The event of a transition; starting is not announced.
TxnKeys(t, next) == IF next = "active" THEN {} ELSE {<<next, t>>}

\* apply: store.Update and the event in one transaction.  After a conflict the
\* row is read again to choose the answer, and nothing more is written.
TxnWrite(c) ==
  LET t == call[c].id
      keys == TxnKeys(t, call[c].next)
  IN
  /\ call[c].op = "txn"
  /\ IF Fresh(txn[t], call[c].ver) /\ Publishable(keys)
       THEN /\ txn' = [txn EXCEPT ![t].status = call[c].next, ![t].ver = @ + 1]
            /\ published' = published \cup keys
       ELSE UNCHANGED <<txn, published>>
  /\ Return(c)

TransactionsNext(c) ==
  \/ \E o \in OfferIds : DealCheck(c, o)
  \/ \E t \in TxnIds, op \in TxnOps : TxnRead(c, t, op)
  \/ DealWrite(c) \/ TxnWrite(c)

-----------------------------------------------------------------------------
\* CompletionHandler.Handle for a delivery of the completed event of t, then
\* FulfillFromCompletedTransaction up to the write.  Deliveries may repeat, also
\* after the event is settled.  A need that is not open is left as it is.
HandlerRead(w, t) ==
  /\ handling[w] = Idle
  /\ <<"completed", t>> \in published
  /\ IF txn[t].status = "completed" /\ NeedIsOpen(TxnNeed(t))
       THEN /\ handling' = [handling EXCEPT ![w] =
                  [op |-> "fulfil", id |-> t, ver |-> need[TxnNeed(t)].ver]]
            /\ settled' = settled
       ELSE settled' = settled \cup {t} /\ handling' = handling
  /\ UNCHANGED need

\* Mutant: the handler takes a conflict for an update that is already done.
HandlerWriteGivesUp(w) ==
  LET t == handling[w].id
      n == TxnNeed(t)
  IN
  /\ handling[w].op = "fulfil"
  /\ need' = IF Fresh(need[n], handling[w].ver)
               THEN [need EXCEPT ![n] = Write(@, "fulfilled")] ELSE need
  /\ settled' = settled \cup {t}
  /\ handling' = [handling EXCEPT ![w] = Idle]

\* store.Update; a conflict makes the handler fail and the event is retried.
HandlerWrite(w) ==
  LET t == handling[w].id
      n == TxnNeed(t)
  IN
  /\ handling[w].op = "fulfil"
  /\ IF Fresh(need[n], handling[w].ver)
       THEN /\ need' = [need EXCEPT ![n] = Write(@, "fulfilled")]
            /\ settled' = settled \cup {t}
       ELSE UNCHANGED <<need, settled>>
  /\ handling' = [handling EXCEPT ![w] = Idle]

\* The relay worker is stopped or its lease runs out: the run is forgotten.
HandlerLost(w) ==
  /\ handling[w] # Idle
  /\ handling' = [handling EXCEPT ![w] = Idle]
  /\ UNCHANGED <<need, settled>>
=============================================================================
