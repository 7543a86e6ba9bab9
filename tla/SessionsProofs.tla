--------------------------- MODULE SessionsProofs ---------------------------
(***************************************************************************)
(* Bounded staleness of revoked sessions, for any number of sessions,      *)
(* requests, logouts and faults.  The argument: a revoked row is never     *)
(* written again, so every copy of it, in Valkey or in a request, carries  *)
(* a last_seen_at that is not later than the revocation; once a quantum    *)
(* has passed since the revocation, every request that uses a copy has to  *)
(* touch the row, and the touch of a revoked row is refused.               *)
(***************************************************************************)
EXTENDS Sessions, TLAPS

ResolveOps == {"hot", "user", "row", "principal", "populate", "populate_epoch", "touch",
               "touching", "touched", "accepted"}

\* What is known of a row is from the past, and of a revoked row from before its end.
RowsOK ==
  \A s \in SessionIds :
    /\ session[s].seen <= now /\ session[s].ended <= now /\ hot[s].seen <= now
    /\ session[s].status \in Revoked => hot[s].seen <= session[s].ended

\* So it is for the frame of a request at a time t.  A row that was revoked when
\* the request began still is, and its touch does not go on.
Fits(f, t, rows) ==
  /\ f.seen <= t /\ f.at <= t
  /\ f.op \in ResolveOps =>
       /\ f.id \in SessionIds
       /\ rows[f.id].status \in Revoked => f.seen <= rows[f.id].ended
       /\ f.was \in Revoked => rows[f.id].status \in Revoked
       /\ f.op \in {"touching", "touched"} => f.was \notin Revoked
       /\ f.op = "accepted" /\ f.was \in Revoked /\ ~f.untouched =>
            f.at < rows[f.id].ended + Quantum

CallsOK == \A c \in Clients : Fits(call[c], now, session)

StalenessInv == TypeOK /\ RowsOK /\ CallsOK

\* What a step may do to the rows: a revoked row stays, a revocation is dated now.
RowsAdvance ==
  /\ now <= now'
  /\ \A s \in SessionIds :
       \/ session'[s] = session[s]
       \/ session[s].status \notin Revoked /\ session'[s].status \notin Revoked
       \/ session[s].status \notin Revoked /\ session'[s].ended = now

-----------------------------------------------------------------------------
(* Types *)

\* The empty values are of their type.
LEMMA EmptyTypes == NoCopy \in Copy /\ Idle \in Frame
BY SessionsAssumption DEF NoCopy, Copy, NoEpoch, Idle, Frame, Ops, Revoked

\* What the steps of a request change in its frame.
LEMMA FrameUpdates ==
  ASSUME NEW f \in Frame
  PROVE  \A op \in Ops :
           /\ [f EXCEPT !.op = op] \in Frame
           /\ \A t \in Nat : /\ [f EXCEPT !.op = op, !.seen = t] \in Frame
                             /\ [f EXCEPT !.op = op, !.at = t] \in Frame
           /\ \A e \in Int : [f EXCEPT !.op = op, !.epoch = e] \in Frame
           /\ \A t \in Nat, b \in BOOLEAN :
                [f EXCEPT !.op = op, !.at = t, !.untouched = b] \in Frame
BY DEF Frame

\* Types are kept when one request takes a step and the rest stays well typed.
LEMMA RequestTypeOK ==
  ASSUME TypeOK, NEW c \in Clients, NEW f \in Frame, Become(c, f),
         now' \in Nat, session' \in [SessionIds -> Row], epoch' \in Nat,
         hot' \in [SessionIds -> Copy], hotEpoch' \in Int, faults' \in 0..MaxFaults
  PROVE  TypeOK'
BY DEF TypeOK, Become

\* The statements on rows and copies are well typed.
LEMMA StatementTypes ==
  ASSUME TypeOK
  PROVE  /\ \A s \in SessionIds : MayDelete(s) => hot' \in [SessionIds -> Copy]
         /\ \A S \in SUBSET SessionIds, status \in Revoked :
              Revoke(S, status) => session' \in [SessionIds -> Row]
<1>1. ASSUME NEW s \in SessionIds, MayDelete(s) PROVE hot' \in [SessionIds -> Copy]
  BY <1>1, EmptyTypes DEF TypeOK, MayDelete
<1>2. ASSUME NEW S \in SUBSET SessionIds, NEW status \in Revoked, Revoke(S, status)
      PROVE  session' \in [SessionIds -> Row]
  <2>1. ASSUME NEW s \in SessionIds
        PROVE  [session[s] EXCEPT !.status = status, !.ended = now] \in Row
    BY DEF TypeOK, Row
  <2> QED
    BY <1>2, <2>1 DEF TypeOK, Revoke
<1> QED
  BY <1>1, <1>2

\* The type invariant is preserved by the steps of Resolve ...
LEMMA ResolveTypeOK ==
  ASSUME TypeOK, CallsOK, NEW c \in Clients, Resolve(c)
  PROVE  TypeOK'
<1>1. call[c] \in Frame /\ call[c].epoch \in Int /\ call[c].seen \in Nat /\ call[c].at \in Nat
  BY DEF TypeOK, Frame
<1>2. call[c].id \in SessionIds /\ session[call[c].id].seen \in Nat
  <2>1. call[c].op \in ResolveOps
    BY DEF Resolve, CheckHotEpoch, CheckUser, ReadRow, ReadPrincipal, Populate, PopulateEpoch,
           MaybeTouch, TouchWrite, TouchInvalidate, TouchFails, ResolveOps
  <2> QED
    BY <2>1 DEF CallsOK, Fits, TypeOK, Row
<1>3. \A op \in Ops : [call[c] EXCEPT !.op = op] \in Frame
  BY <1>1, FrameUpdates
<1>4. \A b \in BOOLEAN : [call[c] EXCEPT !.op = "accepted", !.at = now, !.untouched = b] \in Frame
  BY <1>1, FrameUpdates DEF TypeOK, Ops
<1>5. CASE CheckHotEpoch(c) \/ CheckUser(c)
  BY <1>2, <1>3, <1>5, RequestTypeOK, StatementTypes
  DEF CheckHotEpoch, CheckUser, Goto, Ops, TypeOK
<1>6. CASE ReadRow(c)
  BY <1>1, <1>2, <1>6, FrameUpdates, EmptyTypes, RequestTypeOK
  DEF ReadRow, Return, Ops, TypeOK
<1>7. CASE ReadPrincipal(c)
  <2>1. epoch \in Int
    BY DEF TypeOK
  <2>2. [call[c] EXCEPT !.op = "populate", !.epoch = epoch] \in Frame
    BY <1>1, <2>1, FrameUpdates DEF Ops
  <2> QED
    BY <1>7, <2>2, RequestTypeOK DEF ReadPrincipal, TypeOK
<1>8. CASE Populate(c)
  <2>1. hot' \in [SessionIds -> Copy]
    BY <1>1, <1>8 DEF Populate, TypeOK, Copy
  <2> QED
    BY <1>3, <1>8, <2>1, RequestTypeOK DEF Populate, Goto, Ops, TypeOK
<1>9. CASE PopulateEpoch(c)
  BY <1>1, <1>3, <1>9, RequestTypeOK DEF PopulateEpoch, Goto, Ops, TypeOK
<1>10. CASE MaybeTouch(c)
  BY <1>1, <1>4, <1>10, FrameUpdates, EmptyTypes, RequestTypeOK
  DEF MaybeTouch, Accept, Return, Ops, TypeOK
<1>11. CASE TouchWrite(c)
  <2>1. session' \in [SessionIds -> Row]
    <3>1. ASSUME NEW t \in call[c].at..now
          PROVE  [session EXCEPT ![call[c].id].seen = t] \in [SessionIds -> Row]
      <4>1. t \in Nat
        BY <1>1, <3>1 DEF TypeOK
      <4> QED
        BY <1>2, <4>1 DEF TypeOK, Row
    <3> QED
      BY <1>11, <3>1 DEF TouchWrite, TypeOK
  <2> QED
    BY <1>3, <1>11, <2>1, EmptyTypes, RequestTypeOK DEF TouchWrite, Goto, Return, Ops, TypeOK
<1>12. CASE TouchInvalidate(c) \/ TouchFails(c)
  <2>1. hot' \in [SessionIds -> Copy]
    BY <1>2, <1>12, StatementTypes DEF TouchInvalidate, TouchFails, TypeOK
  <2>3. faults' \in 0..MaxFaults
    <3>1. faults \in 0..MaxFaults /\ MaxFaults \in Nat
      BY SessionsAssumption DEF TypeOK
    <3>2. faults' = faults \/ (faults < MaxFaults /\ faults' = faults + 1)
      BY <1>12 DEF TouchInvalidate, TouchFails
    <3> QED
      BY <3>1, <3>2
  <2>2. PICK b \in BOOLEAN : Accept(c, b)
    BY <1>12 DEF TouchInvalidate, TouchFails
  <2> QED
    BY <1>4, <1>12, <2>1, <2>2, <2>3, RequestTypeOK DEF TouchInvalidate, TouchFails, Accept, TypeOK
<1> QED
  BY <1>5, <1>6, <1>7, <1>8, <1>9, <1>10, <1>11, <1>12 DEF Resolve

\* ... by the beginning of a request ...
LEMMA BeginTypeOK ==
  ASSUME TypeOK, NEW c \in Clients, NEW s \in SessionIds,
         ResolveBegin(c, s) \/ RevokeOne(c, s) \/ OthersCheck(c, s)
  PROVE  TypeOK'
<1>1. CASE ResolveBegin(c, s)
  <2>1. /\ [Idle EXCEPT !.op = "hot", !.id = s, !.was = session[s].status,
                        !.seen = hot[s].seen, !.epoch = hot[s].epoch] \in Frame
        /\ [Idle EXCEPT !.op = "row", !.id = s, !.was = session[s].status] \in Frame
    BY EmptyTypes DEF Frame, TypeOK, Row, Copy, Ops
  <2> QED
    BY <1>1, <2>1, RequestTypeOK DEF ResolveBegin, TypeOK
<1>2. CASE RevokeOne(c, s)
  <2>1. [Idle EXCEPT !.op = "clear", !.rest = {s}] \in Frame
    BY EmptyTypes DEF Frame, Ops
  <2>2. session' \in [SessionIds -> Row]
    BY <1>2, StatementTypes DEF RevokeOne, Revoked
  <2> QED
    BY <1>2, <2>1, <2>2, RequestTypeOK DEF RevokeOne, TypeOK
<1>3. CASE OthersCheck(c, s)
  <2>1. [Idle EXCEPT !.op = "others", !.id = s] \in Frame
    BY EmptyTypes DEF Frame, Ops
  <2> QED
    BY <1>3, <2>1, RequestTypeOK DEF OthersCheck, TypeOK
<1> QED
  BY <1>1, <1>2, <1>3

\* ... by revocations and the end of a request ...
LEMMA RevokeTypeOK ==
  ASSUME TypeOK, NEW c \in Clients,
         End(c) \/ OthersWrite(c) \/ Clear(c) \/ LogoutAll(c) \/ PublishEpoch(c)
  PROVE  TypeOK'
<1>1. CASE End(c)
  BY <1>1, EmptyTypes, RequestTypeOK DEF End, Return, TypeOK
<1>2. CASE OthersWrite(c)
  <2> DEFINE others == Active \ {call[c].id}
  <2>1. [Idle EXCEPT !.op = "clear", !.rest = others] \in Frame
    BY EmptyTypes DEF Frame, Ops, Active
  <2>2. session' \in [SessionIds -> Row]
    BY <1>2, StatementTypes DEF OthersWrite, Revoked, Active
  <2> QED
    BY <1>2, <2>1, <2>2, RequestTypeOK DEF OthersWrite, TypeOK
<1>3. CASE Clear(c)
  <2>1. \A s : [call[c] EXCEPT !.rest = @ \ {s}] \in Frame
    BY DEF TypeOK, Frame
  <2>2. call[c].rest \subseteq SessionIds
    BY DEF TypeOK, Frame
  <2> QED
    BY <1>3, <2>1, <2>2, EmptyTypes, StatementTypes, RequestTypeOK DEF Clear, Return, TypeOK
<1>4. CASE LogoutAll(c)
  <2>4. epoch + 1 \in Int
    BY DEF TypeOK
  <2>1. [Idle EXCEPT !.op = "publish", !.epoch = epoch + 1] \in Frame
    BY <2>4, EmptyTypes DEF Frame, Ops
  <2>2. session' \in [SessionIds -> Row]
    BY <1>4, StatementTypes DEF LogoutAll, Revoked
  <2>3. epoch' \in Nat
    BY <1>4 DEF LogoutAll, TypeOK
  <2> QED
    BY <1>4, <2>1, <2>2, <2>3, RequestTypeOK DEF LogoutAll, TypeOK
<1>5. CASE PublishEpoch(c)
  <2>1. hotEpoch' \in Int
    BY <1>5 DEF PublishEpoch, TypeOK, Frame
  <2> QED
    BY <1>5, <2>1, EmptyTypes, RequestTypeOK DEF PublishEpoch, Return, TypeOK
<1> QED
  BY <1>1, <1>2, <1>3, <1>4, <1>5

\* ... and so by every step.
LEMMA NextTypeOK ==
  ASSUME TypeOK, CallsOK, [Next]_vars
  PROVE  TypeOK'
<1>1. CASE UNCHANGED vars
  BY <1>1 DEF vars, TypeOK
<1>2. CASE Tick \/ EvictEpoch
  BY <1>2 DEF Tick, EvictEpoch, TypeOK, NoEpoch
<1>3. ASSUME NEW s \in SessionIds, Evict(s) \/ Create(s)
      PROVE  TypeOK'
  <2>1. [status |-> "active", seen |-> now, ended |-> 0] \in Row
    BY DEF TypeOK, Row
  <2> QED
    BY <1>3, <2>1, EmptyTypes DEF Evict, Create, TypeOK
<1> QED
  BY <1>1, <1>2, <1>3, ResolveTypeOK, BeginTypeOK, RevokeTypeOK DEF Next

-----------------------------------------------------------------------------
(* Staleness *)

\* What a request knows stays right whatever happens to the rows.
LEMMA FramesSurvive ==
  ASSUME TypeOK, TypeOK', RowsAdvance, NEW f \in Frame, Fits(f, now, session)
  PROVE  Fits(f, now', session')
<1>1. /\ now \in Int /\ now' \in Int /\ now <= now'
      /\ f.seen \in Int /\ f.at \in Int
  BY DEF TypeOK, RowsAdvance, Frame
<1>2. f.seen <= now /\ f.at <= now
  BY DEF Fits
<1>3. f.seen <= now' /\ f.at <= now'
  BY <1>1, <1>2
<1>4. ASSUME f.op \in ResolveOps
      PROVE  /\ f.id \in SessionIds
             /\ session'[f.id].status \in Revoked => f.seen <= session'[f.id].ended
             /\ f.was \in Revoked => session'[f.id].status \in Revoked
             /\ f.op \in {"touching", "touched"} => f.was \notin Revoked
             /\ f.op = "accepted" /\ f.was \in Revoked /\ ~f.untouched =>
                  f.at < session'[f.id].ended + Quantum
  <2>1. f.id \in SessionIds
    BY <1>4 DEF Fits
  <2>2. CASE session'[f.id] = session[f.id]
    BY <1>4, <2>1, <2>2 DEF Fits
  <2>3. CASE session[f.id].status \notin Revoked /\ session'[f.id].status \notin Revoked
    BY <1>4, <2>1, <2>3 DEF Fits
  <2>4. CASE session[f.id].status \notin Revoked /\ session'[f.id].ended = now
    BY <1>2, <1>4, <2>1, <2>4 DEF Fits
  <2> QED
    BY <2>1, <2>2, <2>3, <2>4 DEF RowsAdvance
<1> QED
  BY <1>3, <1>4 DEF Fits

\* So a step of one request keeps what every request knows, if its own new frame fits.
LEMMA RequestCallsOK ==
  ASSUME TypeOK, TypeOK', CallsOK, RowsAdvance,
         NEW c \in Clients, NEW f, Become(c, f), Fits(f, now', session')
  PROVE  CallsOK'
<1> SUFFICES ASSUME NEW d \in Clients PROVE Fits(call'[d], now', session')
  BY DEF CallsOK
<1>1. CASE d = c
  BY <1>1 DEF TypeOK, Become
<1>2. CASE d # c
  <2>1. call'[d] = call[d] /\ call[d] \in Frame
    BY <1>2 DEF TypeOK, Become
  <2> QED
    BY <2>1, FramesSurvive DEF CallsOK
<1> QED
  BY <1>1, <1>2

\* The rows stay right when Valkey loses copies.
LEMMA LostCopies ==
  ASSUME TypeOK, TypeOK', RowsOK, RowsAdvance,
         \A s \in SessionIds : session'[s].seen <= now' /\ session'[s].ended <= now',
         \A s \in SessionIds : hot'[s] = hot[s] \/ hot'[s] = NoCopy
  PROVE  RowsOK'
<1> SUFFICES ASSUME NEW s \in SessionIds
             PROVE  /\ session'[s].seen <= now' /\ session'[s].ended <= now'
                    /\ hot'[s].seen <= now'
                    /\ session'[s].status \in Revoked => hot'[s].seen <= session'[s].ended
  BY DEF RowsOK
<1>1. /\ now \in Nat /\ now' \in Nat /\ now <= now'
      /\ session'[s].ended \in Nat /\ hot[s].seen \in Nat
  BY DEF TypeOK, RowsAdvance, Row, Copy
<1>2. CASE hot'[s] = NoCopy
  BY <1>1, <1>2 DEF NoCopy
<1>3. CASE hot'[s] = hot[s]
  <2>1. hot'[s].seen <= now'
    BY <1>1, <1>3 DEF RowsOK
  <2>2. session'[s].status \in Revoked => hot'[s].seen <= session'[s].ended
    BY <1>3 DEF RowsOK, RowsAdvance
  <2> QED
    BY <2>1, <2>2
<1> QED
  BY <1>2, <1>3

\* What every step keeps besides the types.
Kept == RowsAdvance /\ RowsOK' /\ CallsOK'

\* A frame that is not about a session that is being resolved fits.
LEMMA OtherFramesFit ==
  ASSUME TypeOK, NEW f \in Frame, f.seen = 0, f.at = 0, f.op \notin ResolveOps
  PROVE  Fits(f, now, session)
BY DEF TypeOK, Fits

LEMMA IdleFits ==
  ASSUME TypeOK
  PROVE  Fits(Idle, now, session)
BY EmptyTypes, OtherFramesFit DEF Idle, ResolveOps

\* A request takes a step that writes no row, and Valkey loses at most copies.
LEMMA QuietStep ==
  ASSUME TypeOK, TypeOK', RowsOK, CallsOK, UNCHANGED <<now, session>>,
         NEW c \in Clients, NEW f, Become(c, f), Fits(f, now, session),
         \A s \in SessionIds : hot'[s] = hot[s] \/ hot'[s] = NoCopy
  PROVE  Kept
<1>1. RowsAdvance
  <2>1. now \in Int
    BY DEF TypeOK
  <2> QED
    BY <2>1 DEF RowsAdvance
<1>2. RowsOK'
  BY <1>1, LostCopies DEF RowsOK
<1>3. CallsOK'
  BY <1>1, RequestCallsOK
<1> QED
  BY <1>1, <1>2, <1>3 DEF Kept

LEMMA DeletedCopies ==
  ASSUME TypeOK, NEW s \in SessionIds, MayDelete(s)
  PROVE  \A r \in SessionIds : hot'[r] = hot[r] \/ hot'[r] = NoCopy
BY DEF TypeOK, MayDelete

\* The steps of Resolve before the touch
LEMMA LookupKept ==
  ASSUME StalenessInv, TypeOK', NEW c \in Clients,
         \/ CheckHotEpoch(c) \/ CheckUser(c) \/ ReadRow(c) \/ ReadPrincipal(c)
         \/ Populate(c) \/ PopulateEpoch(c)
  PROVE  Kept
<1> USE DEF StalenessInv
<1>1. call[c] \in Frame /\ Fits(call[c], now, session) /\ call[c].op \in ResolveOps
  BY DEF TypeOK, CallsOK, CheckHotEpoch, CheckUser, ReadRow, ReadPrincipal, Populate,
         PopulateEpoch, ResolveOps
<1>2. call[c].id \in SessionIds /\ call[c].op \notin {"touching", "touched", "accepted"}
  BY <1>1 DEF Fits, CheckHotEpoch, CheckUser, ReadRow, ReadPrincipal, Populate, PopulateEpoch
<1>3. \A op \in {"row", "user", "touch", "populate_epoch"} :
        Fits([call[c] EXCEPT !.op = op], now, session)
  BY <1>1 DEF Fits, Frame, ResolveOps
<1>4. CASE CheckHotEpoch(c) \/ CheckUser(c)
  BY <1>2, <1>3, <1>4, QuietStep, DeletedCopies DEF CheckHotEpoch, CheckUser, Goto
<1>5. CASE ReadRow(c)
  <2> DEFINE f == [call[c] EXCEPT !.op = "principal", !.seen = session[call[c].id].seen]
  <2>1. session[call[c].id].status = "active" => Fits(f, now, session)
    BY <1>1, <1>2 DEF Fits, Frame, RowsOK, Revoked
  <2> QED
    BY <1>5, <2>1, IdleFits, QuietStep DEF ReadRow, Return
<1>6. CASE ReadPrincipal(c)
  <2> DEFINE f == [call[c] EXCEPT !.op = "populate", !.epoch = epoch]
  <2>1. Fits(f, now, session)
    BY <1>1 DEF Fits, Frame, ResolveOps
  <2> QED
    BY <1>6, <2>1, QuietStep DEF ReadPrincipal
<1>7. CASE PopulateEpoch(c)
  BY <1>3, <1>7, QuietStep DEF PopulateEpoch, Goto
<1>8. CASE Populate(c)
  <2>1. RowsAdvance
    <3>1. now \in Int
      BY DEF TypeOK
    <3> QED
      BY <1>8, <3>1 DEF RowsAdvance, Populate
  <2>2. RowsOK'
    <3> SUFFICES ASSUME NEW s \in SessionIds
                 PROVE  /\ hot'[s].seen <= now
                        /\ session[s].status \in Revoked => hot'[s].seen <= session[s].ended
      BY <1>8 DEF RowsOK, Populate
    <3>1. hot'[s] = hot[s] \/ (s = call[c].id /\ hot'[s].seen = call[c].seen)
      BY <1>8 DEF Populate, TypeOK
    <3> QED
      BY <1>1, <3>1 DEF RowsOK, Fits
  <2>3. CallsOK'
    BY <1>3, <1>8, <2>1, RequestCallsOK DEF Populate, Goto
  <2> QED
    BY <2>1, <2>2, <2>3 DEF Kept
<1> QED
  BY <1>4, <1>5, <1>6, <1>7, <1>8

\* The touch: a copy of a revoked row that is a quantum old is not accepted.
LEMMA TouchKept ==
  ASSUME StalenessInv, TypeOK', NEW c \in Clients,
         MaybeTouch(c) \/ TouchWrite(c) \/ TouchInvalidate(c) \/ TouchFails(c)
  PROVE  Kept
<1> USE DEF StalenessInv
<1>1. call[c] \in Frame /\ Fits(call[c], now, session) /\ call[c].op \in ResolveOps
  BY DEF TypeOK, CallsOK, MaybeTouch, TouchWrite, TouchInvalidate, TouchFails, ResolveOps
<1>2. call[c].id \in SessionIds /\ session[call[c].id] \in Row
  BY <1>1 DEF Fits, TypeOK
<1>3. /\ now \in Int /\ call[c].seen \in Int /\ call[c].at \in Int
      /\ session[call[c].id].ended \in Int /\ Quantum \in Int /\ 0 < Quantum
  BY <1>1, <1>2, SessionsAssumption DEF TypeOK, Frame, Row
<1>4. \A b \in BOOLEAN :
        b \/ ~Due(c) \/ call[c].was \notin Revoked =>
          Fits([call[c] EXCEPT !.op = "accepted", !.at = now, !.untouched = b], now, session)
  <2> SUFFICES ASSUME NEW b \in BOOLEAN, b \/ ~Due(c) \/ call[c].was \notin Revoked
               PROVE  Fits([call[c] EXCEPT !.op = "accepted", !.at = now, !.untouched = b],
                           now, session)
    OBVIOUS
  <2>1. ~Due(c) /\ call[c].seen <= session[call[c].id].ended =>
          now < session[call[c].id].ended + Quantum
    BY <1>3 DEF Due
  <2>2. call[c].was \in Revoked => call[c].seen <= session[call[c].id].ended
    BY <1>1 DEF Fits
  <2>3. /\ call[c].seen <= now /\ now <= now
        /\ session[call[c].id].status \in Revoked => call[c].seen <= session[call[c].id].ended
        /\ call[c].was \in Revoked => session[call[c].id].status \in Revoked
        /\ call[c].was \in Revoked /\ ~b => now < session[call[c].id].ended + Quantum
    BY <1>1, <1>3, <2>1, <2>2 DEF Fits
  <2> QED
    BY <1>1, <1>2, <2>3 DEF Fits, Frame
<1>5. CASE MaybeTouch(c)
  <2> DEFINE f == [call[c] EXCEPT !.op = "touching", !.at = now]
  <2>1. session[call[c].id].status = "active" => Fits(f, now, session)
    BY <1>1, <1>2, <1>3 DEF Fits, Frame, Revoked
  <2> QED
    BY <1>4, <1>5, <2>1, IdleFits, QuietStep DEF MaybeTouch, Accept, Return
<1>6. CASE TouchWrite(c)
  <2>1. CASE session[call[c].id].status = "active"
    <3>1. /\ now' = now /\ hot' = hot
          /\ \A s \in SessionIds : /\ session'[s].status = session[s].status
                                   /\ session'[s].ended = session[s].ended
                                   /\ session'[s].seen = session[s].seen \/ session'[s].seen <= now
                                   /\ session[s].status \in Revoked => session'[s] = session[s]
      <4>1. PICK t \in call[c].at..now : session' = [session EXCEPT ![call[c].id].seen = t]
        BY <1>6, <2>1 DEF TouchWrite
      <4>2. t <= now
        BY <1>3, <4>1
      <4> QED
        BY <1>2, <1>6, <2>1, <4>1, <4>2 DEF TouchWrite, TypeOK, Row, Revoked
    <3>2. RowsAdvance
      BY <1>3, <3>1 DEF RowsAdvance
    <3>3. RowsOK'
      BY <1>1, <3>1, <3>2, LostCopies DEF RowsOK, Fits
    <3>4. Fits([call[c] EXCEPT !.op = "touched"], now, session)
      BY <1>1, <1>6 DEF Fits, Frame, TouchWrite, ResolveOps
    <3>5. [call[c] EXCEPT !.op = "touched"] \in Frame
      BY <1>1, FrameUpdates DEF Ops
    <3>6. Fits([call[c] EXCEPT !.op = "touched"], now', session')
      BY <3>2, <3>4, <3>5, FramesSurvive
    <3> QED
      BY <1>6, <2>1, <3>2, <3>3, <3>6, RequestCallsOK DEF Kept, TouchWrite, Goto
  <2>2. CASE session[call[c].id].status # "active"
    BY <1>6, <2>2, IdleFits, QuietStep DEF TouchWrite, Return
  <2> QED
    BY <2>1, <2>2
<1>7. CASE TouchInvalidate(c)
  <2>1. call[c].was \notin Revoked
    BY <1>1, <1>7 DEF Fits, TouchInvalidate
  <2> QED
    BY <1>2, <1>4, <1>7, <2>1, QuietStep, DeletedCopies DEF TouchInvalidate, Accept
<1>8. CASE TouchFails(c)
  BY <1>4, <1>8, QuietStep DEF TouchFails, Accept
<1> QED
  BY <1>5, <1>6, <1>7, <1>8

\* Revocations date the end of a row now, and leave a revoked row alone.
LEMMA RevokeAdvances ==
  ASSUME StalenessInv, TypeOK', NEW S \in SUBSET SessionIds, NEW status \in Revoked,
         Revoke(S, status), UNCHANGED <<now, hot>>
  PROVE  RowsAdvance /\ RowsOK'
<1> USE DEF StalenessInv
<1>1. \A s \in SessionIds :
        \/ session'[s] = session[s]
        \/ /\ session[s].status \notin Revoked
           /\ session'[s].ended = now /\ session'[s].seen = session[s].seen
  BY DEF Revoke, Active, TypeOK, Row, Revoked
<1>2. now \in Int
  BY DEF TypeOK
<1>3. RowsAdvance
  BY <1>1, <1>2 DEF RowsAdvance
<1>4. \A s \in SessionIds : session'[s].seen <= now' /\ session'[s].ended <= now'
  BY <1>1, <1>2 DEF RowsOK
<1> QED
  BY <1>3, <1>4, LostCopies

\* The steps that begin a request or revoke sessions
LEMMA OperationKept ==
  ASSUME StalenessInv, TypeOK', NEW c \in Clients,
         \/ \E s \in SessionIds : ResolveBegin(c, s) \/ RevokeOne(c, s) \/ OthersCheck(c, s)
         \/ End(c) \/ OthersWrite(c) \/ Clear(c) \/ LogoutAll(c) \/ PublishEpoch(c)
  PROVE  Kept
<1> USE DEF StalenessInv
<1>1. Idle \in Frame /\ Idle.seen = 0 /\ Idle.at = 0 /\ "clear" \notin ResolveOps
      /\ "publish" \notin ResolveOps /\ "others" \notin ResolveOps
  BY EmptyTypes DEF Idle, ResolveOps
<1>2. ASSUME NEW S \in SUBSET SessionIds, NEW status \in Revoked, NEW f \in Frame,
             Revoke(S, status), UNCHANGED <<now, hot>>, Become(c, f),
             f.seen = 0, f.at = 0, f.op \notin ResolveOps
      PROVE  Kept
  <2>1. RowsAdvance /\ RowsOK'
    BY <1>2, RevokeAdvances
  <2>2. Fits(f, now', session')
    BY <1>2, <2>1, OtherFramesFit, FramesSurvive
  <2> QED
    BY <1>2, <2>1, <2>2, RequestCallsOK DEF Kept
<1>3. ASSUME NEW s \in SessionIds, ResolveBegin(c, s)
      PROVE  Kept
  <2>1. now \in Nat /\ session[s].ended \in Nat
    BY DEF TypeOK, Row
  <2>2. Fits([Idle EXCEPT !.op = "hot", !.id = s, !.was = session[s].status,
                          !.seen = hot[s].seen, !.epoch = hot[s].epoch], now, session)
    BY <2>1 DEF Fits, Idle, RowsOK
  <2>3. Fits([Idle EXCEPT !.op = "row", !.id = s, !.was = session[s].status], now, session)
    BY <2>1 DEF Fits, Idle
  <2> QED
    BY <1>3, <2>2, <2>3, QuietStep DEF ResolveBegin
<1>4. ASSUME NEW s \in SessionIds, RevokeOne(c, s)
      PROVE  Kept
  <2> DEFINE f == [Idle EXCEPT !.op = "clear", !.rest = {s}]
  <2>1. f \in Frame /\ f.seen = 0 /\ f.at = 0 /\ f.op \notin ResolveOps
    BY <1>1 DEF Frame, Ops
  <2> QED
    BY <1>2, <1>4, <2>1 DEF RevokeOne, Revoked
<1>5. ASSUME NEW s \in SessionIds, OthersCheck(c, s)
      PROVE  Kept
  <2> DEFINE f == [Idle EXCEPT !.op = "others", !.id = s]
  <2>1. f \in Frame /\ f.seen = 0 /\ f.at = 0 /\ f.op \notin ResolveOps
    BY <1>1 DEF Frame, Ops
  <2> QED
    BY <1>5, <2>1, OtherFramesFit, QuietStep DEF OthersCheck
<1>6. CASE End(c)
  BY <1>6, IdleFits, QuietStep DEF End, Return
<1>7. CASE OthersWrite(c)
  <2> DEFINE f == [Idle EXCEPT !.op = "clear", !.rest = Active \ {call[c].id}]
  <2>1. f \in Frame /\ f.seen = 0 /\ f.at = 0 /\ f.op \notin ResolveOps
    BY <1>1 DEF Frame, Ops, Active
  <2>2. Active \ {call[c].id} \in SUBSET SessionIds
    BY DEF Active
  <2> QED
    BY <1>2, <1>7, <2>1, <2>2 DEF OthersWrite, Revoked
<1>8. CASE Clear(c)
  <2>1. call[c] \in Frame /\ Fits(call[c], now, session) /\ call[c].op = "clear"
    BY <1>8 DEF TypeOK, CallsOK, Clear
  <2>2. \A s : Fits([call[c] EXCEPT !.rest = @ \ {s}], now, session)
    BY <1>1, <2>1 DEF Fits, Frame
  <2>3. call[c].rest \subseteq SessionIds
    BY <2>1 DEF Frame
  <2> QED
    BY <1>8, <2>2, <2>3, IdleFits, QuietStep, DeletedCopies DEF Clear, Return
<1>9. CASE LogoutAll(c)
  <2> DEFINE f == [Idle EXCEPT !.op = "publish", !.epoch = epoch + 1]
  <2>1. epoch + 1 \in Int
    BY DEF TypeOK
  <2>2. f \in Frame /\ f.seen = 0 /\ f.at = 0 /\ f.op \notin ResolveOps
    BY <1>1, <2>1 DEF Frame, Ops
  <2> QED
    BY <1>2, <1>9, <2>2 DEF LogoutAll, Revoked
<1>10. CASE PublishEpoch(c)
  BY <1>10, IdleFits, QuietStep DEF PublishEpoch, Return
<1> QED
  BY <1>3, <1>4, <1>5, <1>6, <1>7, <1>8, <1>9, <1>10

\* The clock, Valkey and new sessions
LEMMA EnvironmentKept ==
  ASSUME StalenessInv, TypeOK', UNCHANGED call,
         \/ UNCHANGED vars \/ Tick \/ EvictEpoch
         \/ \E s \in SessionIds : Evict(s) \/ Create(s)
  PROVE  Kept
<1> USE DEF StalenessInv
<1>1. now \in Nat
  BY DEF TypeOK
<1>2. /\ now' = now \/ now' = now + 1
      /\ \A s \in SessionIds :
           \/ session'[s] = session[s]
           \/ /\ session[s].status \notin Revoked /\ session'[s].status \notin Revoked
              /\ session'[s].seen = now /\ session'[s].ended = 0
      /\ \A s \in SessionIds : hot'[s] = hot[s] \/ hot'[s] = NoCopy
  BY DEF vars, Tick, EvictEpoch, Evict, Create, TypeOK, Revoked
<1>3. now <= now'
  BY <1>1, <1>2
<1>4. RowsAdvance
  BY <1>2, <1>3 DEF RowsAdvance
<1>5. \A s \in SessionIds : session'[s].seen <= now' /\ session'[s].ended <= now'
  <2> TAKE s \in SessionIds
  <2>1. session[s].seen \in Int /\ session[s].ended \in Int /\ now \in Nat /\ now' \in Int
    BY DEF TypeOK, Row
  <2> QED
    BY <1>2, <1>3, <2>1 DEF RowsOK
<1>6. RowsOK'
  BY <1>2, <1>4, <1>5, LostCopies
<1>7. CallsOK'
  <2> SUFFICES ASSUME NEW c \in Clients PROVE Fits(call[c], now', session')
    BY DEF CallsOK
  <2>1. call[c] \in Frame /\ Fits(call[c], now, session)
    BY DEF TypeOK, CallsOK
  <2> QED
    BY <1>4, <2>1, FramesSurvive
<1> QED
  BY <1>4, <1>6, <1>7 DEF Kept

LEMMA InitStaleness == Init => StalenessInv
<1> SUFFICES ASSUME Init PROVE StalenessInv
  OBVIOUS
<1>1. TypeOK
  <2>1. [status |-> "none", seen |-> 0, ended |-> 0] \in Row
    BY DEF Row
  <2>2. faults \in 0..MaxFaults
    BY SessionsAssumption DEF Init
  <2> QED
    BY <2>1, <2>2, EmptyTypes DEF Init, TypeOK, NoEpoch
<1>2. RowsOK
  <2> SUFFICES ASSUME NEW s \in SessionIds
               PROVE  /\ session[s].seen <= now /\ session[s].ended <= now
                      /\ hot[s].seen <= now
                      /\ session[s].status \notin Revoked
    BY DEF RowsOK
  <2>1. hot[s] = NoCopy /\ now = 0
    BY DEF Init
  <2>2. session[s] = [status |-> "none", seen |-> 0, ended |-> 0]
    BY DEF Init
  <2> QED
    BY <2>1, <2>2 DEF NoCopy, Revoked
<1>3. CallsOK
  BY <1>1, IdleFits DEF Init, CallsOK
<1> QED
  BY <1>1, <1>2, <1>3 DEF StalenessInv

LEMMA NextStaleness ==
  ASSUME StalenessInv, [Next]_vars
  PROVE  StalenessInv' /\ RowsAdvance
<1>1. TypeOK'
  BY NextTypeOK DEF StalenessInv
<1>2. CASE UNCHANGED vars \/ Tick \/ EvictEpoch \/ \E s \in SessionIds : Evict(s) \/ Create(s)
  BY <1>1, <1>2, EnvironmentKept DEF StalenessInv, Kept, vars, Tick, EvictEpoch, Evict, Create
<1>3. CASE \E c \in Clients, s \in SessionIds :
             ResolveBegin(c, s) \/ RevokeOne(c, s) \/ OthersCheck(c, s)
  BY <1>1, <1>3, OperationKept DEF StalenessInv, Kept
<1>4. ASSUME NEW c \in Clients, Resolve(c)
      PROVE  StalenessInv' /\ RowsAdvance
  BY <1>1, <1>4, LookupKept, TouchKept DEF Resolve, StalenessInv, Kept
<1>5. CASE \E c \in Clients : \/ End(c) \/ OthersWrite(c) \/ Clear(c)
                              \/ LogoutAll(c) \/ PublishEpoch(c)
  BY <1>1, <1>5, OperationKept DEF StalenessInv, Kept
<1> QED
  BY <1>2, <1>3, <1>4, <1>5 DEF Next

-----------------------------------------------------------------------------
(* The theorems *)

\* Sessions keeps to its types: no last_seen_at before the clock's origin, no
\* frame about a session that was never minted.
THEOREM SessionsTypeCorrect == Spec => []TypeOK
<1>1. StalenessInv => TypeOK
  BY DEF StalenessInv
<1> QED
  BY <1>1, InitStaleness, NextStaleness, PTL DEF Spec

\* A revoked session is let through for less than one TouchQuantum after its
\* revocation, whatever Valkey loses or keeps.
THEOREM SessionStalenessBounded == Spec => []StalenessIsBounded
<1>1. StalenessInv => StalenessIsBounded
  BY DEF StalenessInv, CallsOK, Fits, StalenessIsBounded, Accepted, ResolveOps
<1> QED
  BY <1>1, InitStaleness, NextStaleness, PTL DEF Spec

\* No touch and no second revocation writes a revoked row.
THEOREM SessionRevocationFinal == Spec => RevocationIsFinal
<1>1. RowsAdvance =>
        \A s \in SessionIds : session[s].status \in Revoked => session'[s] = session[s]
  BY DEF RowsAdvance
<1>2. StalenessInv /\ [Next]_vars =>
        /\ StalenessInv'
        /\ [\A s \in SessionIds : session[s].status \in Revoked => session'[s] = session[s]]_vars
  BY <1>1, NextStaleness
<1> QED
  BY <1>2, InitStaleness, PTL DEF Spec, RevocationIsFinal
=============================================================================
