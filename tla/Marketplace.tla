---------------------------- MODULE Marketplace -----------------------------
(***************************************************************************)
(* Needs, offers, transactions and the completion handler running          *)
(* concurrently against one database.                                      *)
(***************************************************************************)
EXTENDS Transactions, FiniteSets

vars == <<need, call, offer, published, txn, handling, settled>>

Init ==
  /\ NeedsInit /\ OffersInit /\ TransactionsInit
  /\ published = {}
  /\ call = [c \in Clients |-> Idle]

\* A request ends between two of its steps (disconnect, crash, lost database).
Abandon(c) ==
  /\ call[c] # Idle
  /\ Return(c)
  /\ UNCHANGED <<need, offer, published, txn, handling, settled>>

Request(c) ==
  \/ NeedsNext(c) /\ UNCHANGED <<offer, published, txn, handling, settled>>
  \/ OffersNext(c) /\ UNCHANGED <<need, txn, handling, settled>>
  \/ TransactionsNext(c) /\ UNCHANGED <<need, offer, handling, settled>>
  \/ Abandon(c)

Handle(w) ==
  /\ HandlerWrite(w) \/ \E t \in TxnIds : HandlerRead(w, t)
  /\ UNCHANGED <<call, offer, published, txn>>

Redeliver(w) ==
  /\ HandlerLost(w)
  /\ UNCHANGED <<call, offer, published, txn>>

Next ==
  \/ \E c \in Clients : Request(c)
  \/ \E w \in Relays : Handle(w) \/ Redeliver(w)

Spec == Init /\ [][Next]_vars

\* Delivery of an unsettled event is repeated until its handler succeeds, and
\* not every run of the handler is cut off (AtLeastOnce, and leases longer than
\* the handler).  Nothing is assumed of clients.
FairSpec ==
  /\ Spec
  /\ \A t \in TxnIds : SF_vars(\E w \in Relays : t \notin settled /\ HandlerRead(w, t)
                                 /\ UNCHANGED <<call, offer, published, txn>>)
  /\ \A w \in Relays : SF_vars(HandlerWrite(w) /\ UNCHANGED <<call, offer, published, txn>>)

-----------------------------------------------------------------------------
(* Properties *)

OfferKeys == {"submitted", "accepted", "rejected"} \X OfferIds
DealKeys == {"created", "completed", "cancelled"} \X TxnIds

\* The rows and the outbox keys are well formed.
TypeOK ==
  /\ need \in [NeedIds -> [status : NeedStatuses, ver : Nat]]
  /\ offer \in [OfferIds -> [status : OfferStatuses, ver : Nat]]
  /\ txn \in [TxnIds -> [offer : OfferIds \cup {NoOffer}, status : TxnStatuses, ver : Nat]]
  /\ published \subseteq OfferKeys \cup DealKeys
  /\ settled \subseteq TxnIds

Deals(n) == {t \in TxnIds : txn[t].status # "none" /\ TxnNeed(t) = n}

\* A need has at most one accepted offer and at most one transaction, however
\* accepts, withdrawals, rejections and creations overlap, and the transaction
\* belongs to the accepted offer.
OneDealPerNeed ==
  \A n \in NeedIds :
    /\ Cardinality(OffersWith(n, "accepted")) <= 1
    /\ Cardinality(Deals(n)) <= 1
    /\ \A t \in Deals(n) : txn[t].offer \in OffersWith(n, "accepted")

Decided(n) == OffersWith(n, "accepted") # {}

\* The outbox tells of the decisions that were committed: a request whose write
\* lost a race, or whose transaction was aborted by a taken key, leaves neither a
\* row nor an event behind.  It does so exactly, but for rejections: offers.Accept
\* sends them from a list that it read before its transaction, so that an offer
\* may be told rejected that its provider had withdrawn, and one be rejected
\* untold.  Either happens only where another offer of the need was accepted, and
\* BoundedWrite says to which offers.
EventsMatchDecisions ==
  /\ \A o \in OfferIds :
       /\ <<"submitted", o>> \in published <=> offer[o].status # "none"
       /\ <<"accepted", o>> \in published <=> offer[o].status = "accepted"
       /\ <<"rejected", o>> \in published => \/ offer[o].status = "rejected"
                                             \/ offer[o].status = "withdrawn" /\ Decided(NeedOf[o])
       /\ offer[o].status = "rejected" => <<"rejected", o>> \in published \/ Decided(NeedOf[o])
  /\ \A t \in TxnIds :
       /\ <<"created", t>> \in published <=> txn[t].status # "none"
       /\ <<"completed", t>> \in published <=> txn[t].status = "completed"
       /\ <<"cancelled", t>> \in published <=> txn[t].status = "cancelled"

\* The rule of V1: creating and starting a transaction require the need to be
\* open, completing it requires the need to be open or fulfilled.
AllowedBy(n, status) ==
  CASE status \in {"pending", "active"} -> need[n].status = "open"
    [] status = "completed" -> need[n].status \in {"open", "fulfilled"}
    [] OTHER -> TRUE

\* What a write that comes late may do.  It never brings a closed need, a decided
\* offer or a closed transaction back.  An offer is rejected without its event
\* only if it was submitted after the accept had listed its siblings, and told
\* rejected without being so only if it was withdrawn after that
\* (offers.Service.Accept).  A deal is made or moved against the rule of V1
\* only if the need changed after the request had looked at it
\* (CreateFromAcceptedOffer and apply of transactions.Service).
BoundedWrite ==
  /\ \A n \in NeedIds : need[n].status \in NeedFinal => need'[n] = need[n]
  /\ \A o \in OfferIds :
       /\ offer[o].status \in OfferFinal => offer'[o] = offer[o]
       /\ offer'[o].status = "rejected" => \/ <<"rejected", o>> \in published'
                                          \/ offer[o].status = "rejected"
                                          \/ \E c \in Clients : call[c].op = "accept" /\ o \notin call[c].known
       /\ <<"rejected", o>> \in published' \ published =>
            \/ offer'[o].status = "rejected"
            \/ /\ offer[o].status = "withdrawn"
               /\ \E c \in Clients : call[c].op = "accept" /\ o \in call[c].siblings
  /\ \A t \in TxnIds :
       /\ txn[t].status \in TxnFinal => txn'[t] = txn[t]
       /\ txn'[t].status # txn[t].status =>
            LET n == NeedOf[txn'[t].offer] IN
              \/ AllowedBy(n, txn'[t].status)
              \/ \E c \in Clients : /\ call[c].op \in {"deal", "txn"} /\ call'[c] = Idle
                                    /\ call[c].saw # need[n].ver
LateWritesAreBounded == [][BoundedWrite]_vars

\* A completed transaction eventually closes its need, and stays settled.
CompletionSettles ==
  \A t \in TxnIds :
    txn[t].status = "completed" ~> t \in settled /\ need[TxnNeed(t)].status \in NeedFinal

-----------------------------------------------------------------------------
(* The instance that is checked: offers of different services on one need. *)

CONSTANTS n1, o2, s1, s2

MCNeedOf == [o \in OfferIds |-> n1]
MCServiceOf == [o \in OfferIds |-> IF o = o2 THEN s2 ELSE s1]
=============================================================================
