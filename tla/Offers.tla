------------------------------- MODULE Offers -------------------------------
(***************************************************************************)
(* backend/internal/offers: providers submit offers on open needs and      *)
(* withdraw them; the requester accepts one, which rejects the others, or  *)
(* rejects one.  The need is read through the Needs contract outside the   *)
(* transaction that writes the offer, and the events of a write are rows   *)
(* of the outbox inserted in that transaction.                             *)
(***************************************************************************)
EXTENDS Needs

CONSTANTS
  OfferIds,            \* ids that may be minted
  Services,
  NeedOf, ServiceOf    \* the need and the service an id is minted for

ASSUME OffersAssumption == NeedOf \in [OfferIds -> NeedIds] /\ ServiceOf \in [OfferIds -> Services]

VARIABLE offer    \* the row of each offer

OffersInit == offer = [o \in OfferIds |-> [status |-> "none", ver |-> 0]]

OfferStatuses == {"none", "submitted", "withdrawn", "accepted", "rejected"}
OfferFinal == {"withdrawn", "accepted", "rejected"}

OffersWith(n, status) == {o \in OfferIds : NeedOf[o] = n /\ offer[o].status = status}

NeedIsOpen(n) == need[n].status = "open"

-----------------------------------------------------------------------------
\* Create: requireOpenNeed.
SubmitCheck(c, n, s) ==
  /\ call[c] = Idle
  /\ NeedIsOpen(n)
  /\ Proceed(c, [op |-> "submit_find", need |-> n, service |-> s])
  /\ UNCHANGED <<offer, published>>

SubmittedFor(n, s) == {o \in OffersWith(n, "submitted") : ServiceOf[o] = s}

\* Create: FindSubmitted returns an existing offer, or the insert is prepared.
SubmitFind(c) ==
  /\ call[c].op = "submit_find"
  /\ IF SubmittedFor(call[c].need, call[c].service) = {}
       THEN Proceed(c, [call[c] EXCEPT !.op = "submit"])
       ELSE Return(c)
  /\ UNCHANGED <<offer, published>>

\* Create: the insert of a fresh id, unique per need and service among the
\* submitted offers, and its event; a conflict returns the existing offer.
SubmitWrite(c) ==
  /\ call[c].op = "submit"
  /\ \/ /\ SubmittedFor(call[c].need, call[c].service) = {}
        /\ \E o \in OffersWith(call[c].need, "none") :
             /\ ServiceOf[o] = call[c].service
             /\ offer' = [offer EXCEPT ![o] = Write(@, "submitted")]
             /\ published' = published \cup {<<"submitted", o>>}
     \/ /\ SubmittedFor(call[c].need, call[c].service) # {}
        /\ UNCHANGED <<offer, published>>
  /\ Return(c)

\* Withdraw and Reject, up to the write.
OfferRead(c, o, next) ==
  /\ call[c] = Idle
  /\ offer[o].status = "submitted"
  /\ Proceed(c, [op |-> "offer", id |-> o, ver |-> offer[o].ver, next |-> next])
  /\ UNCHANGED <<offer, published>>

\* Mutant: the event is enqueued before, and outside, the update.
OfferWriteEventFirst(c) ==
  LET o == call[c].id IN
  /\ call[c].op = "offer"
  /\ published' = published \cup (IF call[c].next = "rejected" THEN {<<"rejected", o>>} ELSE {})
  /\ offer' = IF Fresh(offer[o], call[c].ver)
                THEN [offer EXCEPT ![o] = Write(@, call[c].next)]
                ELSE offer
  /\ Return(c)

\* The write of Withdraw, which emits nothing, and of Reject, with its event.
OfferWrite(c) ==
  LET o == call[c].id
      keys == IF call[c].next = "rejected" THEN {<<"rejected", o>>} ELSE {}
  IN
  /\ call[c].op = "offer"
  /\ IF Fresh(offer[o], call[c].ver) /\ Publishable(keys)
       THEN /\ offer' = [offer EXCEPT ![o] = Write(@, call[c].next)]
            /\ published' = published \cup keys
       ELSE UNCHANGED <<offer, published>>
  /\ Return(c)

\* Accept: assertNeedOwner and requireOpenNeed.
AcceptCheck(c, o) ==
  /\ call[c] = Idle
  /\ offer[o].status # "none"
  /\ NeedIsOpen(NeedOf[o])
  /\ Proceed(c, [op |-> "accept_list", id |-> o])
  /\ UNCHANGED <<offer, published>>

\* Accept: an accepted offer is returned; otherwise the submitted siblings are
\* listed, outside the transaction.  "known" is history: the offers there were.
AcceptList(c) ==
  LET o == call[c].id IN
  /\ call[c].op = "accept_list"
  /\ IF offer[o].status = "accepted"
       THEN Return(c)
       ELSE Proceed(c, [op |-> "accept", id |-> o,
                        siblings |-> OffersWith(NeedOf[o], "submitted") \ {o},
                        known |-> {p \in OfferIds : offer[p].status # "none"}])
  /\ UNCHANGED <<offer, published>>

\* Mutant: only the offer itself is checked under the lock.
AcceptableAlone(o) == offer[o].status = "submitted"

\* acceptExclusive, with every offer of the need locked: refuse when another
\* offer is accepted or this one is no longer submitted ...
Acceptable(o) ==
  /\ offer[o].status = "submitted"
  /\ OffersWith(NeedOf[o], "accepted") = {}

\* ... and otherwise accept it and reject all that are submitted now.
AcceptExclusive(o) ==
  offer' = [p \in OfferIds |->
    IF p = o THEN Write(offer[p], "accepted")
    ELSE IF p \in OffersWith(NeedOf[o], "submitted") THEN Write(offer[p], "rejected")
    ELSE offer[p]]

\* Accept: the transaction, with the accepted event and a rejected event for
\* every sibling that was listed.  An offer accepted meanwhile is returned as
\* it is, but its event exists already and the transaction aborts.
AcceptWrite(c) ==
  LET o == call[c].id
      keys == {<<"accepted", o>>} \cup {<<"rejected", p>> : p \in call[c].siblings}
  IN
  /\ call[c].op = "accept"
  /\ IF Acceptable(o) /\ Publishable(keys)
       THEN AcceptExclusive(o) /\ published' = published \cup keys
       ELSE UNCHANGED <<offer, published>>
  /\ Return(c)

OffersNext(c) ==
  \/ \E n \in NeedIds, s \in Services : SubmitCheck(c, n, s)
  \/ \E o \in OfferIds :
       \/ AcceptCheck(c, o)
       \/ OfferRead(c, o, "withdrawn") \/ OfferRead(c, o, "rejected")
  \/ SubmitFind(c) \/ SubmitWrite(c) \/ OfferWrite(c) \/ AcceptList(c) \/ AcceptWrite(c)
=============================================================================
