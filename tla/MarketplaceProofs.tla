------------------------- MODULE MarketplaceProofs --------------------------
(***************************************************************************)
(* One deal per need, events that match the decisions and bounded late     *)
(* writes, for any number of needs, offers, transactions and requests.     *)
(*                                                                         *)
(* The argument: the status of a row moves in one direction and every      *)
(* write of it raises updated_at (RowsAdvance).  So whatever a request has *)
(* read and compares again in its write still holds when the comparison    *)
(* succeeds (FrameOK): that is all a write needs to know of the past.      *)
(***************************************************************************)
EXTENDS Marketplace, TLAPS, FiniteSetTheorems

-----------------------------------------------------------------------------
(* The inductive invariant *)

NeedFrame == [op : {"need"}, id : NeedIds, ver : Nat, next : NeedStatuses]
SubmitFrame == [op : {"submit_find", "submit"}, need : NeedIds, service : Services]
OfferFrame == [op : {"offer"}, id : OfferIds, ver : Nat, next : {"withdrawn", "rejected"}]
AcceptListFrame == [op : {"accept_list"}, id : OfferIds]
AcceptFrame == [op : {"accept"}, id : OfferIds, siblings : SUBSET OfferIds, known : SUBSET OfferIds]
DealFrame == [op : {"deal"}, id : OfferIds, saw : Nat]
TxnFrame == [op : {"txn"}, id : TxnIds, ver : Nat, next : {"active", "completed", "cancelled"}, saw : Nat]
FulfilFrame == [op : {"fulfil"}, id : TxnIds, ver : Nat]

\* What a request knows of the rows, given as ns, os and ts.  One that writes a
\* need has read one that is not closed.
NeedFrameOK(f, ns) ==
  f.op = "need" =>
    /\ f \in NeedFrame /\ f.next # "none"
    /\ f.ver <= ns[f.id].ver
    /\ f.ver = ns[f.id].ver => ns[f.id].status \notin NeedFinal \cup {"none"}

\* Withdraw and Reject have read an offer that was not decided yet; the siblings
\* of an accept are the undecided ones of the offers that were there.
OfferFrameOK(f, os) ==
  /\ f.op \in {"submit_find", "submit"} => f \in SubmitFrame
  /\ f.op = "accept_list" => f \in AcceptListFrame /\ os[f.id].status # "none"
  /\ f.op = "offer" =>
       /\ f \in OfferFrame
       /\ f.ver <= os[f.id].ver
       /\ f.ver = os[f.id].ver => os[f.id].status = "submitted"
  /\ f.op = "accept" =>
       /\ f \in AcceptFrame
       /\ f.id \notin f.siblings
       /\ \A p \in f.siblings : NeedOf[p] = NeedOf[f.id] /\ os[p].status # "none"
       /\ \A p \in f.known : os[p].status # "none"
       /\ \A p \in f.known : p # f.id /\ NeedOf[p] = NeedOf[f.id] /\ os[p].status = "submitted"
                               => p \in f.siblings

\* The rule of V1: what a status asks of the need.
Asks(status) ==
  CASE status \in {"pending", "active"} -> {"open"}
    [] status = "completed" -> {"open", "fulfilled"}
    [] OTHER -> NeedStatuses

\* The rule of V1 held for the need as it was read.
DealFrameOK(f, ns, os) ==
  f.op = "deal" =>
    LET n == NeedOf[f.id] IN
    /\ f \in DealFrame
    /\ os[f.id].status = "accepted"
    /\ f.saw <= ns[n].ver
    /\ f.saw = ns[n].ver => ns[n].status \in Asks("pending")

TxnFrameOK(f, ns, ts) ==
  f.op = "txn" =>
    LET n == NeedOf[ts[f.id].offer] IN
    /\ f \in TxnFrame
    /\ ts[f.id].status # "none"
    /\ f.ver <= ts[f.id].ver
    /\ f.ver = ts[f.id].ver => ts[f.id].status \notin TxnFinal
    /\ f.saw <= ns[n].ver
    /\ f.saw = ns[n].ver => ns[n].status \in Asks(f.next)

\* The completion handler has read an open need.
FulfilFrameOK(f, ns, ts) ==
  f.op = "fulfil" =>
    LET n == NeedOf[ts[f.id].offer] IN
    /\ f \in FulfilFrame
    /\ ts[f.id].status # "none"
    /\ f.ver <= ns[n].ver
    /\ f.ver = ns[n].ver => ns[n].status = "open"

FrameOK(f, ns, os, ts) ==
  /\ NeedFrameOK(f, ns) /\ OfferFrameOK(f, os) /\ DealFrameOK(f, ns, os)
  /\ TxnFrameOK(f, ns, ts) /\ FulfilFrameOK(f, ns, ts)

FramesOK ==
  /\ DOMAIN call = Clients /\ \A c \in Clients : FrameOK(call[c], need, offer, txn)
  /\ DOMAIN handling = Relays /\ \A w \in Relays : FrameOK(handling[w], need, offer, txn)

\* One accepted offer per need, and one transaction per offer, which is accepted.
RowsOK ==
  /\ \A o, p \in OfferIds :
       NeedOf[o] = NeedOf[p] /\ offer[o].status = "accepted" /\ offer[p].status = "accepted" => o = p
  /\ \A t \in TxnIds :
       IF txn[t].status = "none" THEN txn[t].offer = NoOffer /\ txn[t].ver = 0
       ELSE txn[t].offer \in OfferIds /\ offer[txn[t].offer].status = "accepted"
  /\ \A t, u \in TxnIds : txn[t].offer = txn[u].offer /\ txn[t].offer # NoOffer => t = u

MarketplaceInv == TypeOK /\ RowsOK /\ EventsMatchDecisions /\ FramesOK

\* What a step may do to the rows: a status moves in one direction, and a row
\* that changes gets a later updated_at.
NeedsAdvance ==
  \A n \in NeedIds : \/ need'[n] = need[n]
                     \/ need[n].status \notin NeedFinal /\ need[n].ver < need'[n].ver
OffersAdvance ==
  \A o \in OfferIds : \/ offer'[o] = offer[o]
                      \/ /\ offer[o].ver < offer'[o].ver
                         /\ \/ offer[o].status = "none" /\ offer'[o].status = "submitted"
                            \/ offer[o].status = "submitted" /\ offer'[o].status \in OfferFinal
TxnsAdvance ==
  \A t \in TxnIds : \/ txn'[t] = txn[t]
                    \/ /\ txn[t].status \notin TxnFinal /\ txn'[t].status # "none"
                       /\ txn[t].ver < txn'[t].ver
                       /\ txn[t].status # "none" => txn'[t].offer = txn[t].offer
RowsAdvance == NeedsAdvance /\ OffersAdvance /\ TxnsAdvance

-----------------------------------------------------------------------------
(* Facts about rows and frames *)

\* A set whose members are all equal has at most one.
LEMMA AtMostOne ==
  ASSUME NEW S, \A x, y \in S : x = y
  PROVE  Cardinality(S) <= 1
<1>1. CASE S = {}
  BY <1>1, FS_EmptySet
<1>2. CASE S # {}
  <2>1. PICK x \in S : TRUE
    BY <1>2
  <2>2. S = {x}
    BY <2>1
  <2> QED
    BY <2>2, FS_Singleton
<1> QED
  BY <1>1, <1>2

\* Write is an update of a row.
LEMMA WriteRow ==
  ASSUME NEW statuses, NEW row \in [status : statuses, ver : Nat], NEW next \in statuses
  PROVE  /\ Write(row, next) \in [status : statuses, ver : Nat]
         /\ Write(row, next).status = next /\ Write(row, next).ver = row.ver + 1
<1>1. row.ver \in Nat /\ row.ver + 1 \in Nat /\ DOMAIN row = {"status", "ver"}
  OBVIOUS
<1> QED
  BY <1>1 DEF Write

\* What is known to a request stays true while others write.
LEMMA FramesStable ==
  ASSUME TypeOK, TypeOK', RowsOK, RowsAdvance, NEW f, FrameOK(f, need, offer, txn)
  PROVE  FrameOK(f, need', offer', txn')
<1>1. NeedFrameOK(f, need')
  <2>1. NeedFrameOK(f, need)
    BY DEF FrameOK
  <2> QED
    BY <2>1 DEF NeedFrameOK, NeedFrame, RowsAdvance, NeedsAdvance, TypeOK
<1>2. OfferFrameOK(f, offer')
  <2>1. OfferFrameOK(f, offer)
    BY DEF FrameOK
  <2> QED
    BY <2>1 DEF OfferFrameOK, OfferFrame, AcceptListFrame, AcceptFrame, RowsAdvance, OffersAdvance,
                TypeOK, OfferFinal
<1>3. DealFrameOK(f, need', offer')
  <2>1. DealFrameOK(f, need, offer)
    BY DEF FrameOK
  <2> QED
    BY <2>1, OffersAssumption DEF DealFrameOK, DealFrame, RowsAdvance, NeedsAdvance, OffersAdvance, TypeOK
<1>4. TxnFrameOK(f, need', txn')
  <2>1. TxnFrameOK(f, need, txn)
    BY DEF FrameOK
  <2> SUFFICES ASSUME f.op = "txn" PROVE TxnFrameOK(f, need', txn')
    BY DEF TxnFrameOK
  <2>2. f \in TxnFrame /\ f.id \in TxnIds /\ txn[f.id].status # "none" /\ txn[f.id].offer \in OfferIds
    BY <2>1 DEF TxnFrameOK, TxnFrame, RowsOK
  <2>3. txn'[f.id].offer = txn[f.id].offer /\ NeedOf[txn[f.id].offer] \in NeedIds
    BY <2>2, OffersAssumption DEF RowsAdvance, TxnsAdvance
  <2> DEFINE n == NeedOf[txn[f.id].offer]
  <2>4. f.ver \in Nat /\ f.saw \in Nat /\ need[n].ver \in Nat /\ need'[n].ver \in Nat
        /\ txn[f.id].ver \in Nat /\ txn'[f.id].ver \in Nat
    BY <2>2, <2>3 DEF TxnFrame, TypeOK
  <2>5. f.saw <= need'[n].ver /\ (f.saw = need'[n].ver => need'[n] = need[n])
    BY <2>1, <2>3, <2>4 DEF TxnFrameOK, RowsAdvance, NeedsAdvance
  <2>6. txn'[f.id].status # "none" /\ f.ver <= txn'[f.id].ver /\ (f.ver = txn'[f.id].ver => txn'[f.id] = txn[f.id])
    BY <2>1, <2>2, <2>4 DEF TxnFrameOK, RowsAdvance, TxnsAdvance
  <2> QED
    BY <2>1, <2>2, <2>3, <2>5, <2>6 DEF TxnFrameOK
<1>5. FulfilFrameOK(f, need', txn')
  <2>1. FulfilFrameOK(f, need, txn)
    BY DEF FrameOK
  <2> SUFFICES ASSUME f.op = "fulfil" PROVE FulfilFrameOK(f, need', txn')
    BY DEF FulfilFrameOK
  <2>2. f \in FulfilFrame /\ f.id \in TxnIds /\ txn[f.id].status # "none" /\ txn[f.id].offer \in OfferIds
    BY <2>1 DEF FulfilFrameOK, FulfilFrame, RowsOK
  <2>3. txn'[f.id].offer = txn[f.id].offer /\ NeedOf[txn[f.id].offer] \in NeedIds
    BY <2>2, OffersAssumption DEF RowsAdvance, TxnsAdvance
  <2> DEFINE n == NeedOf[txn[f.id].offer]
  <2>4. f.ver \in Nat /\ need[n].ver \in Nat /\ need'[n].ver \in Nat
    BY <2>2, <2>3 DEF FulfilFrame, TypeOK
  <2>5. f.ver <= need'[n].ver /\ (f.ver = need'[n].ver => need'[n] = need[n])
    BY <2>1, <2>3, <2>4 DEF FulfilFrameOK, RowsAdvance, NeedsAdvance
  <2>6. txn'[f.id].status # "none"
    BY <2>2 DEF FulfilFrameOK, RowsAdvance, TxnsAdvance
  <2> QED
    BY <2>1, <2>2, <2>3, <2>5, <2>6 DEF FulfilFrameOK
<1> QED
  BY <1>1, <1>2, <1>3, <1>4, <1>5 DEF FrameOK

\* A request that has returned knows nothing.
LEMMA IdleOK == \A ns, os, ts : FrameOK(Idle, ns, os, ts)
BY DEF Idle, FrameOK, NeedFrameOK, OfferFrameOK, DealFrameOK, TxnFrameOK, FulfilFrameOK

\* The frames after a step of one request, or of one run of the handler.
LEMMA RequestFrames ==
  ASSUME MarketplaceInv, TypeOK', RowsAdvance, NEW c \in Clients, NEW f, Proceed(c, f),
         FrameOK(f, need', offer', txn'), UNCHANGED handling
  PROVE  FramesOK'
BY FramesStable DEF MarketplaceInv, FramesOK, Proceed

LEMMA HandlerFrames ==
  ASSUME MarketplaceInv, TypeOK', RowsAdvance, NEW w \in Relays, NEW f,
         handling' = [handling EXCEPT ![w] = f], FrameOK(f, need', offer', txn'), UNCHANGED call
  PROVE  FramesOK'
BY FramesStable DEF MarketplaceInv, FramesOK

\* So too when a request returns, and when none moves.
LEMMA ReturnFrames ==
  ASSUME MarketplaceInv, TypeOK', RowsAdvance, NEW c \in Clients, Return(c), UNCHANGED handling
  PROVE  FramesOK'
BY RequestFrames, IdleOK DEF Return, Proceed

LEMMA SameFrames ==
  ASSUME MarketplaceInv, TypeOK', RowsAdvance, UNCHANGED <<call, handling>>
  PROVE  FramesOK'
BY FramesStable DEF MarketplaceInv, FramesOK

\* A step that writes no row.
LEMMA ReadingStep ==
  ASSUME MarketplaceInv, UNCHANGED <<need, offer, txn, published>>, settled' \subseteq TxnIds
  PROVE  TypeOK' /\ RowsAdvance /\ RowsOK' /\ EventsMatchDecisions' /\ BoundedWrite
BY DEF MarketplaceInv, TypeOK, RowsAdvance, NeedsAdvance, OffersAdvance, TxnsAdvance, RowsOK,
       EventsMatchDecisions, Decided, OffersWith, BoundedWrite

-----------------------------------------------------------------------------
(* Steps *)

\* One write of a need, whoever makes it.
LEMMA WriteNeed ==
  ASSUME MarketplaceInv, NEW n \in NeedIds, NEW next \in NeedStatuses,
         need[n].status \notin NeedFinal, need' = [need EXCEPT ![n] = Write(@, next)],
         UNCHANGED <<offer, txn, published>>, settled' \subseteq TxnIds
  PROVE  TypeOK' /\ RowsAdvance /\ RowsOK' /\ EventsMatchDecisions' /\ BoundedWrite
<1>1. need[n] \in [status : NeedStatuses, ver : Nat]
  BY DEF MarketplaceInv, TypeOK
<1>2. /\ Write(need[n], next) \in [status : NeedStatuses, ver : Nat]
      /\ Write(need[n], next).ver = need[n].ver + 1
  BY <1>1, WriteRow
<1>3. TypeOK'
  BY <1>2 DEF MarketplaceInv, TypeOK
<1>4. RowsAdvance
  BY <1>1, <1>2 DEF MarketplaceInv, TypeOK, RowsAdvance, NeedsAdvance, OffersAdvance, TxnsAdvance
<1>5. RowsOK' /\ EventsMatchDecisions'
  BY DEF MarketplaceInv, RowsOK, EventsMatchDecisions, Decided, OffersWith
<1>6. BoundedWrite
  BY DEF MarketplaceInv, TypeOK, BoundedWrite
<1> QED
  BY <1>3, <1>4, <1>5, <1>6

\* Operations of the owner on a need.
LEMMA NeedsStep ==
  ASSUME MarketplaceInv, NEW c \in Clients, NeedsNext(c),
         UNCHANGED <<offer, published, txn, handling, settled>>
  PROVE  MarketplaceInv' /\ BoundedWrite
<1>0. settled' \subseteq TxnIds
  BY DEF MarketplaceInv, TypeOK
<1>1. CASE \E n \in NeedIds : NeedCreate(n)
  <2>1. PICK n \in NeedIds : NeedCreate(n)
    BY <1>1
  <2> QED
    BY <1>0, <2>1, WriteNeed, SameFrames DEF NeedCreate, NeedStatuses, NeedFinal, MarketplaceInv
<1>2. CASE \E n \in NeedIds, op \in NeedOps : NeedRead(c, n, op)
  <2>1. PICK n \in NeedIds, op \in NeedOps : NeedRead(c, n, op)
    BY <1>2
  <2> DEFINE f == [op |-> "need", id |-> n, ver |-> need[n].ver, next |-> NeedNext(op, need[n].status)]
  <2>2. FrameOK(f, need', offer', txn')
    <3>1. need[n].ver \in Nat /\ need[n].status \in NeedStatuses
      BY DEF MarketplaceInv, TypeOK
    <3>2. /\ NeedNext(op, need[n].status) \in NeedStatuses
          /\ need[n].status \in {"draft", "open"}
      BY <2>1, <3>1 DEF NeedRead, NeedNext, NeedStatuses, NeedOps
    <3> QED
      BY <2>1, <3>1, <3>2 DEF NeedRead, FrameOK, NeedFrameOK, OfferFrameOK, DealFrameOK, TxnFrameOK,
                              FulfilFrameOK, NeedFrame, NeedFinal
  <2>3. TypeOK' /\ RowsAdvance /\ RowsOK' /\ EventsMatchDecisions' /\ BoundedWrite
    BY <1>0, <2>1, ReadingStep DEF NeedRead
  <2> QED
    BY <2>1, <2>2, <2>3, RequestFrames DEF NeedRead, MarketplaceInv
<1>3. CASE NeedWrite(c)
  <2>1. FrameOK(call[c], need, offer, txn)
    BY DEF MarketplaceInv, FramesOK
  <2>2. /\ call[c].op = "need" /\ call[c].id \in NeedIds /\ call[c].next \in NeedStatuses
        /\ Fresh(need[call[c].id], call[c].ver) => need[call[c].id].status \notin NeedFinal
    BY <1>3, <2>1 DEF NeedWrite, FrameOK, NeedFrameOK, NeedFrame, Fresh
  <2>3. TypeOK' /\ RowsAdvance /\ RowsOK' /\ EventsMatchDecisions' /\ BoundedWrite
    <3>1. CASE Fresh(need[call[c].id], call[c].ver)
      BY <1>0, <1>3, <2>2, <3>1, WriteNeed DEF NeedWrite
    <3>2. CASE ~Fresh(need[call[c].id], call[c].ver)
      BY <1>0, <1>3, <2>2, <3>2, ReadingStep DEF NeedWrite
    <3> QED
      BY <3>1, <3>2
  <2> QED
    BY <1>3, <2>3, ReturnFrames DEF NeedWrite, MarketplaceInv
<1> QED
  BY <1>1, <1>2, <1>3 DEF NeedsNext

\* A frame of the offers package knows nothing of needs and transactions.
LEMMA OfferFrames ==
  ASSUME NEW f, NEW os, OfferFrameOK(f, os),
         f.op \in {"submit_find", "submit", "offer", "accept_list", "accept"}
  PROVE  \A ns, ts : FrameOK(f, ns, os, ts)
BY DEF FrameOK, NeedFrameOK, DealFrameOK, TxnFrameOK, FulfilFrameOK

\* One write of an undecided offer that is not an accept, with its event.
LEMMA WriteOffer ==
  ASSUME MarketplaceInv, NEW o \in OfferIds, NEW next \in {"submitted", "withdrawn", "rejected"},
         offer[o].status = (IF next = "submitted" THEN "none" ELSE "submitted"),
         offer' = [offer EXCEPT ![o] = Write(@, next)],
         published' = published \cup (IF next = "withdrawn" THEN {} ELSE {<<next, o>>}),
         UNCHANGED <<need, txn, settled>>
  PROVE  TypeOK' /\ RowsAdvance /\ RowsOK' /\ EventsMatchDecisions' /\ BoundedWrite
<1>1. offer[o] \in [status : OfferStatuses, ver : Nat] /\ next \in OfferStatuses
  BY DEF MarketplaceInv, TypeOK, OfferStatuses
<1>2. /\ Write(offer[o], next) \in [status : OfferStatuses, ver : Nat]
      /\ Write(offer[o], next).status = next
      /\ Write(offer[o], next).ver = offer[o].ver + 1
  BY <1>1, WriteRow
<1>3. /\ offer'[o].status = next /\ offer'[o].ver = offer[o].ver + 1
      /\ \A p \in OfferIds : p # o => offer'[p] = offer[p]
  BY <1>2 DEF MarketplaceInv, TypeOK
<1>4. TypeOK'
  BY <1>2 DEF MarketplaceInv, TypeOK, OfferKeys
<1>5. RowsAdvance
  BY <1>1, <1>3 DEF RowsAdvance, NeedsAdvance, OffersAdvance, TxnsAdvance, OfferFinal
<1>6. RowsOK'
  BY <1>3 DEF MarketplaceInv, RowsOK
<1>7. EventsMatchDecisions'
  <2>1. \A p \in OfferIds : offer[p].status = "accepted" <=> offer'[p].status = "accepted"
    BY <1>3
  <2>2. \A n \in NeedIds : Decided(n)' <=> Decided(n)
    BY <2>1 DEF Decided, OffersWith
  <2>3. \A p \in OfferIds : NeedOf[p] \in NeedIds
    BY OffersAssumption
  <2> QED
    BY <1>3, <2>2, <2>3 DEF MarketplaceInv, EventsMatchDecisions
<1>8. BoundedWrite
  BY <1>3 DEF BoundedWrite, OfferFinal
<1> QED
  BY <1>4, <1>5, <1>6, <1>7, <1>8

\* Create, Withdraw and Reject.
LEMMA OfferStep ==
  ASSUME MarketplaceInv, NEW c \in Clients, UNCHANGED <<need, txn, handling, settled>>,
         \/ \E n \in NeedIds, s \in Services : SubmitCheck(c, n, s)
         \/ \E o \in OfferIds : OfferRead(c, o, "withdrawn") \/ OfferRead(c, o, "rejected")
         \/ SubmitFind(c) \/ SubmitWrite(c) \/ OfferWrite(c)
  PROVE  MarketplaceInv' /\ BoundedWrite
<1>0. settled' \subseteq TxnIds /\ OfferFrameOK(call[c], offer)
  BY DEF MarketplaceInv, TypeOK, FramesOK, FrameOK
<1>1. CASE \E n \in NeedIds, s \in Services : SubmitCheck(c, n, s)
  <2>1. PICK n \in NeedIds, s \in Services : SubmitCheck(c, n, s)
    BY <1>1
  <2> DEFINE f == [op |-> "submit_find", need |-> n, service |-> s]
  <2>2. FrameOK(f, need', offer', txn')
    BY OfferFrames DEF OfferFrameOK, SubmitFrame
  <2>3. TypeOK' /\ RowsAdvance /\ RowsOK' /\ EventsMatchDecisions' /\ BoundedWrite
    BY <1>0, <2>1, ReadingStep DEF SubmitCheck
  <2> QED
    BY <2>1, <2>2, <2>3, RequestFrames DEF SubmitCheck, MarketplaceInv
<1>2. CASE SubmitFind(c)
  <2> DEFINE f == [call[c] EXCEPT !.op = "submit"]
  <2>1. FrameOK(f, need', offer', txn')
    <3>1. call[c] \in SubmitFrame
      BY <1>0, <1>2 DEF SubmitFind, OfferFrameOK
    <3>2. f \in SubmitFrame /\ f.op = "submit"
      BY <3>1 DEF SubmitFrame
    <3> QED
      BY <3>2, OfferFrames DEF OfferFrameOK
  <2>2. TypeOK' /\ RowsAdvance /\ RowsOK' /\ EventsMatchDecisions' /\ BoundedWrite
    BY <1>0, <1>2, ReadingStep DEF SubmitFind
  <2> QED
    BY <1>2, <2>1, <2>2, RequestFrames, ReturnFrames DEF SubmitFind, MarketplaceInv
<1>3. CASE SubmitWrite(c)
  <2>1. TypeOK' /\ RowsAdvance /\ RowsOK' /\ EventsMatchDecisions' /\ BoundedWrite
    <3>1. CASE UNCHANGED <<offer, published>>
      BY <1>0, <3>1, ReadingStep
    <3>2. CASE \E o \in OffersWith(call[c].need, "none") :
                  /\ offer' = [offer EXCEPT ![o] = Write(@, "submitted")]
                  /\ published' = published \cup {<<"submitted", o>>}
      BY <3>2, WriteOffer DEF OffersWith
    <3> QED
      BY <1>3, <3>1, <3>2 DEF SubmitWrite
  <2> QED
    BY <1>3, <2>1, ReturnFrames DEF SubmitWrite, MarketplaceInv
<1>4. CASE \E o \in OfferIds : OfferRead(c, o, "withdrawn") \/ OfferRead(c, o, "rejected")
  <2>1. PICK o \in OfferIds, next \in {"withdrawn", "rejected"} : OfferRead(c, o, next)
    BY <1>4
  <2> DEFINE f == [op |-> "offer", id |-> o, ver |-> offer[o].ver, next |-> next]
  <2>2. offer[o].ver \in Nat /\ offer[o].status = "submitted" /\ offer' = offer
    BY <2>1 DEF OfferRead, MarketplaceInv, TypeOK
  <2>3. FrameOK(f, need', offer', txn')
    BY <2>2, OfferFrames DEF OfferFrameOK, OfferFrame
  <2>4. TypeOK' /\ RowsAdvance /\ RowsOK' /\ EventsMatchDecisions' /\ BoundedWrite
    BY <1>0, <2>1, ReadingStep DEF OfferRead
  <2> QED
    BY <2>1, <2>3, <2>4, RequestFrames DEF OfferRead, MarketplaceInv
<1>5. CASE OfferWrite(c)
  <2> DEFINE o == call[c].id
             next == call[c].next
  <2>1. o \in OfferIds /\ next \in {"withdrawn", "rejected"}
        /\ (Fresh(offer[o], call[c].ver) => offer[o].status = "submitted")
    BY <1>0, <1>5 DEF OfferWrite, OfferFrameOK, OfferFrame, Fresh
  <2>2. TypeOK' /\ RowsAdvance /\ RowsOK' /\ EventsMatchDecisions' /\ BoundedWrite
    <3>1. CASE UNCHANGED <<offer, published>>
      BY <1>0, <3>1, ReadingStep
    <3>2. CASE /\ offer[o].status = "submitted"
               /\ offer' = [offer EXCEPT ![o] = Write(@, next)]
               /\ published' = published \cup (IF next = "withdrawn" THEN {} ELSE {<<next, o>>})
      BY <2>1, <3>2, WriteOffer
    <3> QED
      BY <1>5, <2>1, <3>1, <3>2 DEF OfferWrite
  <2> QED
    BY <1>5, <2>2, ReturnFrames DEF OfferWrite, MarketplaceInv
<1> QED
  BY <1>1, <1>2, <1>3, <1>4, <1>5

\* The transaction of Accept.
LEMMA AcceptWrites ==
  ASSUME MarketplaceInv, NEW c \in Clients, AcceptWrite(c), UNCHANGED <<need, txn, handling, settled>>
  PROVE  TypeOK' /\ RowsAdvance /\ RowsOK' /\ EventsMatchDecisions' /\ BoundedWrite
<1>0. settled' \subseteq TxnIds
  BY DEF MarketplaceInv, TypeOK
<1> DEFINE o == call[c].id
           n == NeedOf[o]
           siblings == call[c].siblings
           keys == {<<"accepted", o>>} \cup {<<"rejected", p>> : p \in siblings}
<1>1. CASE UNCHANGED <<offer, published>>
  BY <1>0, <1>1, ReadingStep
<1>2. CASE Acceptable(o) /\ AcceptExclusive(o) /\ published' = published \cup keys
  <2>1. OfferFrameOK(call[c], offer) /\ call[c].op = "accept"
    BY DEF MarketplaceInv, FramesOK, FrameOK, AcceptWrite
  <2>2. o \in OfferIds /\ siblings \subseteq OfferIds /\ o \notin siblings
    BY <2>1 DEF OfferFrameOK, AcceptFrame
  <2>3. \A p \in siblings : NeedOf[p] = n /\ offer[p].status # "none"
    BY <2>1 DEF OfferFrameOK
  <2>4. /\ offer[o].status = "submitted"
        /\ \A p \in OfferIds : NeedOf[p] = n => offer[p].status # "accepted"
    BY <1>2 DEF Acceptable, OffersWith
  <2>5. \A p \in OfferIds :
          /\ offer[p] \in [status : OfferStatuses, ver : Nat]
          /\ Write(offer[p], "accepted") \in [status : OfferStatuses, ver : Nat]
          /\ Write(offer[p], "rejected") \in [status : OfferStatuses, ver : Nat]
          /\ Write(offer[p], "accepted").status = "accepted" /\ Write(offer[p], "accepted").ver = offer[p].ver + 1
          /\ Write(offer[p], "rejected").status = "rejected" /\ Write(offer[p], "rejected").ver = offer[p].ver + 1
    <3>1. "accepted" \in OfferStatuses /\ "rejected" \in OfferStatuses
      BY DEF OfferStatuses
    <3>2. \A p \in OfferIds : offer[p] \in [status : OfferStatuses, ver : Nat]
      BY DEF MarketplaceInv, TypeOK
    <3> QED
      BY <3>1, <3>2, WriteRow
  <2>6. /\ offer'[o].status = "accepted" /\ offer'[o].ver = offer[o].ver + 1
        /\ \A p \in OfferIds \ {o} :
             IF NeedOf[p] = n /\ offer[p].status = "submitted"
               THEN offer'[p].status = "rejected" /\ offer'[p].ver = offer[p].ver + 1
               ELSE offer'[p] = offer[p]
    BY <1>2, <2>2, <2>5 DEF AcceptExclusive, OffersWith
  <2>7. TypeOK'
    <3>1. offer' \in [OfferIds -> [status : OfferStatuses, ver : Nat]]
      BY <1>2, <2>5 DEF AcceptExclusive
    <3>2. keys \subseteq OfferKeys
      BY <2>2 DEF OfferKeys
    <3> QED
      BY <1>2, <3>1, <3>2 DEF MarketplaceInv, TypeOK
  <2>8. RowsAdvance
    BY <2>2, <2>4, <2>5, <2>6 DEF RowsAdvance, NeedsAdvance, OffersAdvance, TxnsAdvance, OfferFinal
  <2>9. RowsOK'
    BY <2>2, <2>4, <2>6 DEF MarketplaceInv, RowsOK
  <2>10. EventsMatchDecisions'
    <3>1. ASSUME NEW p \in OfferIds
          PROVE  /\ <<"submitted", p>> \in published' <=> offer'[p].status # "none"
                 /\ <<"accepted", p>> \in published' <=> offer'[p].status = "accepted"
                 /\ <<"rejected", p>> \in published' => \/ offer'[p].status = "rejected"
                                                        \/ offer'[p].status = "withdrawn" /\ Decided(NeedOf[p])'
                 /\ offer'[p].status = "rejected" => <<"rejected", p>> \in published' \/ Decided(NeedOf[p])'
      <4>1. /\ <<"submitted", p>> \in published' <=> <<"submitted", p>> \in published
            /\ <<"accepted", p>> \in published' <=> <<"accepted", p>> \in published \/ p = o
            /\ <<"rejected", p>> \in published' <=> <<"rejected", p>> \in published \/ p \in siblings
        BY <1>2
      <4>2. /\ <<"submitted", p>> \in published <=> offer[p].status # "none"
            /\ <<"accepted", p>> \in published <=> offer[p].status = "accepted"
            /\ <<"rejected", p>> \in published => \/ offer[p].status = "rejected"
                                                  \/ offer[p].status = "withdrawn" /\ Decided(NeedOf[p])
            /\ offer[p].status = "rejected" => <<"rejected", p>> \in published \/ Decided(NeedOf[p])
        BY DEF MarketplaceInv, EventsMatchDecisions
      <4>3. offer[p].status \in OfferStatuses
        BY <2>5
      <4>4. NeedOf[p] = n => Decided(NeedOf[p])'
        BY <2>2, <2>6 DEF Decided, OffersWith
      <4>5. Decided(NeedOf[p]) => Decided(NeedOf[p])'
        BY <2>2, <2>4, <2>6 DEF Decided, OffersWith
      <4> QED
        BY <2>2, <2>3, <2>4, <2>6, <4>1, <4>2, <4>3, <4>4, <4>5 DEF OfferStatuses
    <3>2. \A t \in TxnIds, kind \in {"created", "completed", "cancelled"} :
            <<kind, t>> \in published' <=> <<kind, t>> \in published
      BY <1>2
    <3> QED
      BY <3>1, <3>2 DEF MarketplaceInv, EventsMatchDecisions
  <2>11. BoundedWrite
    <3>1. ASSUME NEW p \in OfferIds, offer'[p].status = "rejected", offer[p].status # "rejected",
                 p \in call[c].known
          PROVE  <<"rejected", p>> \in published'
      BY <1>2, <2>1, <2>6, <3>1 DEF OfferFrameOK
    <3>2. ASSUME NEW p \in OfferIds, <<"rejected", p>> \in published' \ published, offer'[p].status # "rejected"
          PROVE  offer[p].status = "withdrawn" /\ p \in siblings
      <4>1. p \in siblings /\ NeedOf[p] = n /\ p # o
        BY <1>2, <2>2, <2>3, <3>2
      <4>2. offer[p].status \in OfferStatuses \ {"none", "submitted", "accepted", "rejected"}
        BY <2>3, <2>4, <2>5, <2>6, <3>2, <4>1
      <4> QED
        BY <4>1, <4>2 DEF OfferStatuses
    <3> QED
      BY <2>1, <2>2, <2>4, <2>6, <3>1, <3>2 DEF BoundedWrite, OfferFinal
  <2> QED
    BY <2>7, <2>8, <2>9, <2>10, <2>11
<1> QED
  BY <1>1, <1>2 DEF AcceptWrite

\* Accept, from its checks to its transaction.
LEMMA AcceptStep ==
  ASSUME MarketplaceInv, NEW c \in Clients, UNCHANGED <<need, txn, handling, settled>>,
         (\E o \in OfferIds : AcceptCheck(c, o)) \/ AcceptList(c) \/ AcceptWrite(c)
  PROVE  MarketplaceInv' /\ BoundedWrite
<1>0. settled' \subseteq TxnIds /\ OfferFrameOK(call[c], offer)
  BY DEF MarketplaceInv, TypeOK, FramesOK, FrameOK
<1>1. CASE \E o \in OfferIds : AcceptCheck(c, o)
  <2>1. PICK o \in OfferIds : AcceptCheck(c, o)
    BY <1>1
  <2> DEFINE f == [op |-> "accept_list", id |-> o]
  <2>2. FrameOK(f, need', offer', txn')
    BY <2>1, OfferFrames DEF AcceptCheck, OfferFrameOK, AcceptListFrame
  <2>3. TypeOK' /\ RowsAdvance /\ RowsOK' /\ EventsMatchDecisions' /\ BoundedWrite
    BY <1>0, <2>1, ReadingStep DEF AcceptCheck
  <2> QED
    BY <2>1, <2>2, <2>3, RequestFrames DEF AcceptCheck, MarketplaceInv
<1>2. CASE AcceptList(c)
  <2> DEFINE o == call[c].id
             f == [op |-> "accept", id |-> o,
                   siblings |-> OffersWith(NeedOf[o], "submitted") \ {o},
                   known |-> {p \in OfferIds : offer[p].status # "none"}]
  <2>1. o \in OfferIds /\ offer' = offer
    BY <1>0, <1>2 DEF AcceptList, OfferFrameOK, AcceptListFrame
  <2>2. OfferFrameOK(f, offer')
    BY <2>1 DEF OfferFrameOK, AcceptFrame, OffersWith
  <2>3. FrameOK(f, need', offer', txn')
    BY <2>2, OfferFrames
  <2>4. TypeOK' /\ RowsAdvance /\ RowsOK' /\ EventsMatchDecisions' /\ BoundedWrite
    BY <1>0, <1>2, ReadingStep DEF AcceptList
  <2> QED
    BY <1>2, <2>3, <2>4, RequestFrames, ReturnFrames DEF AcceptList, MarketplaceInv
<1>3. CASE AcceptWrite(c)
  BY <1>3, AcceptWrites, ReturnFrames DEF AcceptWrite, MarketplaceInv
<1> QED
  BY <1>1, <1>2, <1>3

\* The rule of V1 as the frames know it and as the property states it.
LEMMA AsksIsAllowed ==
  ASSUME TypeOK, NEW n \in NeedIds, NEW status \in TxnStatuses
  PROVE  need[n].status \in Asks(status) => AllowedBy(n, status)
BY DEF TypeOK, Asks, AllowedBy, TxnStatuses, NeedStatuses

\* CreateFromAcceptedOffer inserts a transaction of an accepted offer that has none.
LEMMA InsertDeal ==
  ASSUME MarketplaceInv, NEW c \in Clients, NEW t \in TxnIds, DealWrite(c), txn[t].status = "none",
         TxnsOfOffer(call[c].id) = {},
         txn' = [txn EXCEPT ![t] = [offer |-> call[c].id, status |-> "pending", ver |-> 1]],
         published' = published \cup {<<"created", t>>},
         UNCHANGED <<need, offer, handling, settled>>
  PROVE  TypeOK' /\ RowsAdvance /\ RowsOK' /\ EventsMatchDecisions' /\ BoundedWrite
<1> DEFINE o == call[c].id
           n == NeedOf[o]
<1>1. DealFrameOK(call[c], need, offer) /\ call[c].op = "deal"
  BY DEF MarketplaceInv, FramesOK, FrameOK, DealWrite
<1>2. o \in OfferIds /\ n \in NeedIds /\ offer[o].status = "accepted"
  BY <1>1, OffersAssumption DEF DealFrameOK, DealFrame
<1>3. /\ txn'[t].offer = o /\ txn'[t].status = "pending" /\ txn'[t].ver = 1
      /\ \A u \in TxnIds : u # t => txn'[u] = txn[u]
  BY DEF MarketplaceInv, TypeOK
<1>4. TypeOK'
  <2>1. [offer |-> o, status |-> "pending", ver |-> 1]
          \in [offer : OfferIds \cup {NoOffer}, status : TxnStatuses, ver : Nat]
    BY <1>2 DEF TxnStatuses
  <2>2. <<"created", t>> \in DealKeys
    BY DEF DealKeys
  <2> QED
    BY <2>1, <2>2 DEF MarketplaceInv, TypeOK
<1>5. RowsAdvance
  <2>1. txn[t].ver < 1
    BY DEF MarketplaceInv, RowsOK
  <2> QED
    BY <1>3, <2>1 DEF RowsAdvance, NeedsAdvance, OffersAdvance, TxnsAdvance, TxnFinal
<1>6. RowsOK'
  BY <1>2, <1>3, TransactionsAssumption DEF MarketplaceInv, RowsOK, TxnsOfOffer
<1>7. EventsMatchDecisions'
  BY <1>3 DEF MarketplaceInv, EventsMatchDecisions, Decided, OffersWith
<1>8. BoundedWrite
  <2>1. AllowedBy(n, "pending") \/ call[c].saw # need[n].ver
    BY <1>1, <1>2, AsksIsAllowed DEF DealFrameOK, MarketplaceInv, TxnStatuses
  <2>2. call'[c] = Idle
    BY DEF DealWrite, Return, MarketplaceInv, FramesOK
  <2> QED
    BY <1>1, <1>3, <2>1, <2>2 DEF BoundedWrite, TxnFinal, OfferFinal
<1> QED
  BY <1>4, <1>5, <1>6, <1>7, <1>8

\* A step that leaves the offers alone and makes no deal keeps the deals exclusive.
LEMMA SameDeals ==
  ASSUME RowsOK, UNCHANGED offer,
         \A u \in TxnIds : /\ txn'[u].offer = txn[u].offer
                           /\ txn[u].status = "none" => txn'[u] = txn[u]
                           /\ txn'[u].status = "none" <=> txn[u].status = "none"
  PROVE  RowsOK'
<1>1. \A u \in TxnIds :
        IF txn'[u].status = "none" THEN txn'[u].offer = NoOffer /\ txn'[u].ver = 0
        ELSE txn'[u].offer \in OfferIds /\ offer'[txn'[u].offer].status = "accepted"
  BY DEF RowsOK
<1>2. \A u, v \in TxnIds : txn'[u].offer = txn'[v].offer /\ txn'[u].offer # NoOffer => u = v
  BY DEF RowsOK
<1> QED
  BY <1>1, <1>2 DEF RowsOK

\* Start, Complete and Cancel write a transaction that is not closed.
LEMMA MoveDeal ==
  ASSUME MarketplaceInv, NEW c \in Clients, TxnWrite(c), Fresh(txn[call[c].id], call[c].ver),
         txn' = [txn EXCEPT ![call[c].id].status = call[c].next, ![call[c].id].ver = @ + 1],
         published' = published \cup TxnKeys(call[c].id, call[c].next),
         UNCHANGED <<need, offer, handling, settled>>
  PROVE  TypeOK' /\ RowsAdvance /\ RowsOK' /\ EventsMatchDecisions' /\ BoundedWrite
<1> DEFINE t == call[c].id
           next == call[c].next
           n == NeedOf[txn[t].offer]
<1>1. TxnFrameOK(call[c], need, txn) /\ call[c].op = "txn"
  BY DEF MarketplaceInv, FramesOK, FrameOK, TxnWrite
<1>2. t \in TxnIds /\ next \in {"active", "completed", "cancelled"}
      /\ txn[t].status \notin TxnFinal \cup {"none"} /\ txn[t].offer \in OfferIds
  BY <1>1 DEF TxnFrameOK, TxnFrame, Fresh, MarketplaceInv, RowsOK
<1>3. n \in NeedIds /\ next \in TxnStatuses
      /\ txn[t] \in [offer : OfferIds \cup {NoOffer}, status : TxnStatuses, ver : Nat]
  BY <1>2, OffersAssumption DEF MarketplaceInv, TypeOK, TxnStatuses
<1>4. /\ txn'[t] \in [offer : OfferIds \cup {NoOffer}, status : TxnStatuses, ver : Nat]
      /\ txn'[t].offer = txn[t].offer /\ txn'[t].status = next /\ txn'[t].ver = txn[t].ver + 1
      /\ \A u \in TxnIds : u # t => txn'[u] = txn[u]
  BY <1>2, <1>3 DEF MarketplaceInv, TypeOK
<1>5. TypeOK'
  <2>1. TxnKeys(t, next) \subseteq DealKeys
    BY <1>2 DEF TxnKeys, DealKeys
  <2>2. txn' \in [TxnIds -> [offer : OfferIds \cup {NoOffer}, status : TxnStatuses, ver : Nat]]
    BY <1>2, <1>4 DEF MarketplaceInv, TypeOK
  <2> QED
    BY <2>1, <2>2 DEF MarketplaceInv, TypeOK
<1>6. RowsAdvance
  <2>1. txn[t].ver < txn'[t].ver /\ next # "none" /\ txn[t].status \notin TxnFinal
    BY <1>2, <1>3, <1>4
  <2> HIDE DEF t, next
  <2> QED
    BY <1>4, <2>1 DEF RowsAdvance, NeedsAdvance, OffersAdvance, TxnsAdvance
<1>7. RowsOK'
  <2>1. \A u \in TxnIds : /\ txn'[u].offer = txn[u].offer
                          /\ txn[u].status = "none" => txn'[u] = txn[u]
                          /\ txn'[u].status = "none" <=> txn[u].status = "none"
    BY <1>2, <1>4
  <2> QED
    BY <2>1, SameDeals DEF MarketplaceInv
<1>8. EventsMatchDecisions'
  BY <1>2, <1>4 DEF MarketplaceInv, EventsMatchDecisions, Decided, OffersWith, TxnKeys, TxnFinal
<1>9. BoundedWrite
  <2>1. AllowedBy(n, next) \/ call[c].saw # need[n].ver
    BY <1>1, <1>3, AsksIsAllowed DEF TxnFrameOK, MarketplaceInv
  <2>2. call'[c] = Idle
    BY DEF TxnWrite, Return, MarketplaceInv, FramesOK
  <2>3. \A o \in OfferIds : <<"rejected", o>> \notin published' \ published
    BY <1>2, <1>4 DEF TxnKeys
  <2> QED
    BY <1>1, <1>2, <1>4, <2>1, <2>2, <2>3 DEF BoundedWrite
<1> QED
  BY <1>5, <1>6, <1>7, <1>8, <1>9

\* Operations on transactions.
LEMMA TransactionsStep ==
  ASSUME MarketplaceInv, NEW c \in Clients, TransactionsNext(c),
         UNCHANGED <<need, offer, handling, settled>>
  PROVE  MarketplaceInv' /\ BoundedWrite
<1>0. settled' \subseteq TxnIds
  BY DEF MarketplaceInv, TypeOK
<1>1. CASE \E o \in OfferIds : DealCheck(c, o)
  <2>1. PICK o \in OfferIds : DealCheck(c, o)
    BY <1>1
  <2> DEFINE f == [op |-> "deal", id |-> o, saw |-> need[NeedOf[o]].ver]
  <2>2. NeedOf[o] \in NeedIds /\ need[NeedOf[o]].ver \in Nat /\ "open" \in Asks("pending")
    BY OffersAssumption DEF MarketplaceInv, TypeOK, Asks
  <2>3. FrameOK(f, need', offer', txn')
    BY <2>1, <2>2 DEF DealCheck, NeedIsOpen, FrameOK, NeedFrameOK, OfferFrameOK, DealFrameOK, TxnFrameOK,
                      FulfilFrameOK, DealFrame
  <2>4. TypeOK' /\ RowsAdvance /\ RowsOK' /\ EventsMatchDecisions' /\ BoundedWrite
    BY <1>0, <2>1, ReadingStep DEF DealCheck
  <2> QED
    BY <2>1, <2>3, <2>4, RequestFrames DEF DealCheck, MarketplaceInv
<1>2. CASE DealWrite(c)
  <2>1. TypeOK' /\ RowsAdvance /\ RowsOK' /\ EventsMatchDecisions' /\ BoundedWrite
    <3>1. CASE UNCHANGED <<txn, published>>
      BY <1>0, <3>1, ReadingStep
    <3>2. CASE ~ UNCHANGED <<txn, published>>
      BY <1>2, <3>2, InsertDeal DEF DealWrite
    <3> QED
      BY <3>1, <3>2
  <2> QED
    BY <1>2, <2>1, ReturnFrames DEF DealWrite, MarketplaceInv
<1>3. CASE \E t \in TxnIds, op \in TxnOps : TxnRead(c, t, op)
  <2>1. PICK t \in TxnIds, op \in TxnOps : TxnRead(c, t, op)
    BY <1>3
  <2> DEFINE next == TxnNext(op, txn[t].status)
             f == [op |-> "txn", id |-> t, ver |-> txn[t].ver, next |-> next, saw |-> need[TxnNeed(t)].ver]
  <2>2. /\ next \in {"active", "completed", "cancelled"} /\ txn[t].status \in {"pending", "active"}
        /\ op = "cancel" => next = "cancelled"
        /\ op = "start" => next = "active"
        /\ op = "complete" => next = "completed"
    BY <2>1 DEF TxnRead, TxnNext, TxnOps
  <2>3. /\ txn[t].offer \in OfferIds /\ TxnNeed(t) \in NeedIds
        /\ txn[t].ver \in Nat /\ need[TxnNeed(t)].ver \in Nat /\ need[TxnNeed(t)].status \in NeedStatuses
    BY <2>2, OffersAssumption DEF MarketplaceInv, RowsOK, TypeOK, TxnNeed
  <2>4. need[TxnNeed(t)].status \in Asks(next)
    BY <2>1, <2>2, <2>3 DEF TxnRead, NeedAllows, NeedIsOpen, Asks, TxnOps
  <2>5. FrameOK(f, need', offer', txn')
    BY <2>1, <2>2, <2>3, <2>4 DEF TxnRead, FrameOK, NeedFrameOK, OfferFrameOK, DealFrameOK, TxnFrameOK,
                                  FulfilFrameOK, TxnFrame, TxnNeed, TxnFinal
  <2>6. TypeOK' /\ RowsAdvance /\ RowsOK' /\ EventsMatchDecisions' /\ BoundedWrite
    BY <1>0, <2>1, ReadingStep DEF TxnRead
  <2> QED
    BY <2>1, <2>5, <2>6, RequestFrames DEF TxnRead, MarketplaceInv
<1>4. CASE TxnWrite(c)
  <2>1. TypeOK' /\ RowsAdvance /\ RowsOK' /\ EventsMatchDecisions' /\ BoundedWrite
    <3>1. CASE UNCHANGED <<txn, published>>
      BY <1>0, <3>1, ReadingStep
    <3>2. CASE ~ UNCHANGED <<txn, published>>
      BY <1>4, <3>2, MoveDeal DEF TxnWrite
    <3> QED
      BY <3>1, <3>2
  <2> QED
    BY <1>4, <2>1, ReturnFrames DEF TxnWrite, MarketplaceInv
<1> QED
  BY <1>1, <1>2, <1>3, <1>4 DEF TransactionsNext

\* The completion handler.
LEMMA HandlerStep ==
  ASSUME MarketplaceInv, NEW w \in Relays, Handle(w) \/ Redeliver(w)
  PROVE  MarketplaceInv' /\ BoundedWrite
<1>1. ASSUME NEW t \in TxnIds, HandlerRead(w, t), UNCHANGED <<call, offer, published, txn>>
      PROVE  MarketplaceInv' /\ BoundedWrite
  <2> DEFINE f == [op |-> "fulfil", id |-> t, ver |-> need[TxnNeed(t)].ver]
  <2>1. settled' \subseteq TxnIds
    BY <1>1 DEF HandlerRead, MarketplaceInv, TypeOK
  <2>2. TypeOK' /\ RowsAdvance /\ RowsOK' /\ EventsMatchDecisions' /\ BoundedWrite
    BY <1>1, <2>1, ReadingStep DEF HandlerRead
  <2>3. CASE txn[t].status = "completed" /\ NeedIsOpen(TxnNeed(t))
    <3>1. TxnNeed(t) \in NeedIds /\ need[TxnNeed(t)].ver \in Nat
      BY <2>3, OffersAssumption DEF MarketplaceInv, RowsOK, TypeOK, TxnNeed
    <3>2. FrameOK(f, need', offer', txn')
      BY <1>1, <2>3, <3>1 DEF HandlerRead, NeedIsOpen, FrameOK, NeedFrameOK, OfferFrameOK, DealFrameOK,
                              TxnFrameOK, FulfilFrameOK, FulfilFrame, TxnNeed
    <3> QED
      BY <1>1, <2>2, <2>3, <3>2, HandlerFrames DEF HandlerRead, MarketplaceInv
  <2>4. CASE ~(txn[t].status = "completed" /\ NeedIsOpen(TxnNeed(t)))
    BY <1>1, <2>2, <2>4, SameFrames DEF HandlerRead, MarketplaceInv
  <2> QED
    BY <2>3, <2>4
<1>2. CASE HandlerWrite(w) /\ UNCHANGED <<call, offer, published, txn>>
  <2> DEFINE t == handling[w].id
             n == TxnNeed(t)
  <2>1. FulfilFrameOK(handling[w], need, txn) /\ handling[w].op = "fulfil"
    BY <1>2 DEF HandlerWrite, MarketplaceInv, FramesOK, FrameOK
  <2>2. t \in TxnIds /\ n \in NeedIds /\ (Fresh(need[n], handling[w].ver) => need[n].status = "open")
    BY <2>1, OffersAssumption DEF FulfilFrameOK, FulfilFrame, MarketplaceInv, RowsOK, TxnNeed, Fresh
  <2>3. settled' \subseteq TxnIds
    BY <1>2, <2>2 DEF HandlerWrite, MarketplaceInv, TypeOK
  <2>4. TypeOK' /\ RowsAdvance /\ RowsOK' /\ EventsMatchDecisions' /\ BoundedWrite
    <3>1. CASE Fresh(need[n], handling[w].ver)
      BY <1>2, <2>2, <2>3, <3>1, WriteNeed DEF HandlerWrite, NeedStatuses, NeedFinal
    <3>2. CASE ~Fresh(need[n], handling[w].ver)
      BY <1>2, <2>3, <3>2, ReadingStep DEF HandlerWrite
    <3> QED
      BY <3>1, <3>2
  <2> QED
    BY <1>2, <2>4, HandlerFrames, IdleOK DEF HandlerWrite, MarketplaceInv
<1>3. CASE Redeliver(w)
  <2>1. settled' \subseteq TxnIds
    BY <1>3 DEF Redeliver, HandlerLost, MarketplaceInv, TypeOK
  <2>2. TypeOK' /\ RowsAdvance /\ RowsOK' /\ EventsMatchDecisions' /\ BoundedWrite
    BY <1>3, <2>1, ReadingStep DEF Redeliver, HandlerLost
  <2> QED
    BY <1>3, <2>2, HandlerFrames, IdleOK DEF Redeliver, HandlerLost, MarketplaceInv
<1> QED
  BY <1>1, <1>2, <1>3 DEF Handle

-----------------------------------------------------------------------------
(* The theorems *)

LEMMA MarketplaceInit == Init => MarketplaceInv
<1> SUFFICES ASSUME Init PROVE MarketplaceInv
  OBVIOUS
<1> USE DEF Init, NeedsInit, OffersInit, TransactionsInit
<1>1. TypeOK
  BY DEF TypeOK, NeedStatuses, OfferStatuses, TxnStatuses
<1>2. RowsOK
  BY DEF RowsOK
<1>3. EventsMatchDecisions
  BY DEF EventsMatchDecisions
<1>4. FramesOK
  BY IdleOK DEF FramesOK
<1> QED
  BY <1>1, <1>2, <1>3, <1>4 DEF MarketplaceInv

LEMMA MarketplaceStep == MarketplaceInv /\ [Next]_vars => MarketplaceInv' /\ (BoundedWrite \/ UNCHANGED vars)
<1> SUFFICES ASSUME MarketplaceInv, [Next]_vars
             PROVE  MarketplaceInv' /\ (BoundedWrite \/ UNCHANGED vars)
  OBVIOUS
<1>1. CASE UNCHANGED vars
  <2>1. settled' \subseteq TxnIds
    BY <1>1 DEF vars, MarketplaceInv, TypeOK
  <2> QED
    BY <1>1, <2>1, ReadingStep, SameFrames DEF vars, MarketplaceInv
<1>2. ASSUME NEW c \in Clients, Request(c)
      PROVE  MarketplaceInv' /\ BoundedWrite
  <2>1. CASE NeedsNext(c) /\ UNCHANGED <<offer, published, txn, handling, settled>>
    BY <2>1, NeedsStep
  <2>2. CASE OffersNext(c) /\ UNCHANGED <<need, txn, handling, settled>>
    BY <2>2, OfferStep, AcceptStep DEF OffersNext
  <2>3. CASE TransactionsNext(c) /\ UNCHANGED <<need, offer, handling, settled>>
    BY <2>3, TransactionsStep
  <2>4. CASE Abandon(c)
    <3>1. settled' \subseteq TxnIds
      BY <2>4 DEF Abandon, MarketplaceInv, TypeOK
    <3> QED
      BY <2>4, <3>1, ReadingStep, ReturnFrames DEF Abandon, MarketplaceInv
  <2> QED
    BY <1>2, <2>1, <2>2, <2>3, <2>4 DEF Request
<1> QED
  BY <1>1, <1>2, HandlerStep DEF Next

\* The rows and the keys of the outbox are well formed in every state.
THEOREM MarketplaceTypeCorrect == Spec => []TypeOK
<1>1. MarketplaceInv => TypeOK
  BY DEF MarketplaceInv
<1> QED
  BY <1>1, MarketplaceInit, MarketplaceStep, PTL DEF Spec

\* However accepts, withdrawals, rejections and creations overlap, a need has at
\* most one accepted offer and at most one transaction, the one of that offer
\* (acceptExclusive, CreateFromAcceptedOffer).
THEOREM DealsAreExclusive == Spec => []OneDealPerNeed
<1>1. MarketplaceInv => OneDealPerNeed
  <2> SUFFICES ASSUME MarketplaceInv, NEW n \in NeedIds
               PROVE  /\ Cardinality(OffersWith(n, "accepted")) <= 1
                      /\ Cardinality(Deals(n)) <= 1
                      /\ \A t \in Deals(n) : txn[t].offer \in OffersWith(n, "accepted")
    BY DEF OneDealPerNeed
  <2>1. \A o, p \in OffersWith(n, "accepted") : o = p
    BY DEF OffersWith, MarketplaceInv, RowsOK
  <2>2. \A t \in Deals(n) : txn[t].offer \in OffersWith(n, "accepted")
    BY DEF Deals, TxnNeed, OffersWith, MarketplaceInv, RowsOK
  <2>3. \A t, u \in Deals(n) : t = u
    BY <2>1, <2>2, TransactionsAssumption DEF Deals, OffersWith, MarketplaceInv, RowsOK
  <2>4. Cardinality(OffersWith(n, "accepted")) <= 1
    BY <2>1, AtMostOne
  <2>5. Cardinality(Deals(n)) <= 1
    BY <2>3, AtMostOne
  <2> QED
    BY <2>2, <2>4, <2>5
<1> QED
  BY <1>1, MarketplaceInit, MarketplaceStep, PTL DEF Spec

\* The outbox holds the events of exactly the submissions, acceptances and moves
\* of deals that were committed; an event of a rejection without one, or a
\* rejection without its event, stands only beside an accepted offer.
THEOREM EventsTellDecisions == Spec => []EventsMatchDecisions
<1>1. MarketplaceInv => EventsMatchDecisions
  BY DEF MarketplaceInv
<1> QED
  BY <1>1, MarketplaceInit, MarketplaceStep, PTL DEF Spec

\* A write that comes late undoes no decision, and goes against what it was
\* decided on only if that changed while its request was under way.
THEOREM LateWritesBounded == Spec => LateWritesAreBounded
<1>1. MarketplaceInv /\ [Next]_vars => [BoundedWrite]_vars
  BY MarketplaceStep
<1> QED
  BY <1>1, MarketplaceInit, MarketplaceStep, PTL DEF Spec, LateWritesAreBounded
=============================================================================
