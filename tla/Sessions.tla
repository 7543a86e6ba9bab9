------------------------------ MODULE Sessions ------------------------------
(***************************************************************************)
(* backend/internal/identity: the browser sessions of one user.  Rows in   *)
(* PostgreSQL are the truth; Valkey keeps a copy of a row per token, with  *)
(* the session epoch of the user it was made under, and that epoch again   *)
(* per user.  A request resolves its cookie against the copy, or against   *)
(* the row when there is none, and from time to time touches the row.      *)
(* Revocation of one session or of all others deletes the copies; logout   *)
(* of all raises the epoch of the user instead.                            *)
(*                                                                         *)
(* Valkey loses entries at any time, by eviction or TTL, and calls to it   *)
(* may fail; errors of it are ignored.  No code disables a user or sets a  *)
(* device on a session, and expiry is compared with the same clock in row  *)
(* and copy, so that these refusals are left out.                          *)
(***************************************************************************)
EXTENDS Integers, TLC

CONSTANTS
  SessionIds,   \* ids that may be minted
  NoSession,
  Clients,      \* requests in flight at the same time
  Quantum,      \* SessionPolicy.TouchQuantum
  MaxEpoch,     \* bound: logouts of all sessions
  MaxTime,      \* bound: the last clock value
  MaxFaults     \* bound: touches that the database fails

ASSUME SessionsAssumption ==
  /\ NoSession \notin SessionIds
  /\ Quantum \in Nat \ {0} /\ MaxEpoch \in Nat /\ MaxTime \in Nat /\ MaxFaults \in Nat

VARIABLES
  now,
  session,    \* the row: status, last_seen_at and when its revocation committed
  epoch,      \* users.session_epoch
  hot,        \* the copy in Valkey: last_seen_at and epoch, or NoCopy
  hotEpoch,   \* the epoch in Valkey, or NoEpoch
  call,       \* what each request in flight has read so far
  faults

vars == <<now, session, epoch, hot, hotEpoch, call, faults>>

NoEpoch == -1
NoCopy == [seen |-> 0, epoch |-> NoEpoch]

Revoked == {"revoked", "revoked_all"}    \* by id, or by a logout of all

\* was: status of the row when the request began; at: when it was let through;
\* untouched: the touch was due and the database failed it.
Idle == [op |-> "idle", id |-> NoSession, was |-> "none", seen |-> 0, epoch |-> NoEpoch,
         at |-> 0, untouched |-> FALSE, rest |-> {}]

Init ==
  /\ now = 0
  /\ session = [s \in SessionIds |-> [status |-> "none", seen |-> 0, ended |-> 0]]
  /\ epoch = 0
  /\ hot = [s \in SessionIds |-> NoCopy]
  /\ hotEpoch = NoEpoch
  /\ call = [c \in Clients |-> Idle]
  /\ faults = 0

Become(c, frame) == call' = [call EXCEPT ![c] = frame]
Goto(c, op) == Become(c, [call[c] EXCEPT !.op = op])
Return(c) == Become(c, Idle)

\* A best-effort call to Valkey happens or fails.
MayDelete(s) == hot' \in {hot, [hot EXCEPT ![s] = NoCopy]}

-----------------------------------------------------------------------------
(* The clock, Valkey, and new sessions *)

Tick ==
  /\ now < MaxTime
  /\ now' = now + 1
  /\ UNCHANGED <<session, epoch, hot, hotEpoch, call, faults>>

Evict(s) ==
  /\ hot[s] # NoCopy
  /\ hot' = [hot EXCEPT ![s] = NoCopy]
  /\ UNCHANGED <<now, session, epoch, hotEpoch, call, faults>>

EvictEpoch ==
  /\ hotEpoch # NoEpoch
  /\ hotEpoch' = NoEpoch
  /\ UNCHANGED <<now, session, epoch, hot, call, faults>>

\* CreateWithSecurity, at login, signup and step-up
Create(s) ==
  /\ session[s].status = "none"
  /\ session' = [session EXCEPT ![s] = [status |-> "active", seen |-> now, ended |-> 0]]
  /\ UNCHANGED <<now, epoch, hot, hotEpoch, call, faults>>

-----------------------------------------------------------------------------
(* Resolve: the copy *)

\* resolveHot: read the copy; none, or an error, leads to the row.
ResolveBegin(c, s) ==
  /\ call[c].op = "idle"
  /\ session[s].status # "none"
  /\ \/ /\ hot[s] # NoCopy
        /\ Become(c, [Idle EXCEPT !.op = "hot", !.id = s, !.was = session[s].status,
                                  !.seen = hot[s].seen, !.epoch = hot[s].epoch])
     \/ Become(c, [Idle EXCEPT !.op = "row", !.id = s, !.was = session[s].status])
  /\ UNCHANGED <<now, session, epoch, hot, hotEpoch, faults>>

\* resolveHot: compare with the epoch in Valkey; none, or an error, goes on.
CheckHotEpoch(c) ==
  /\ call[c].op = "hot"
  /\ \/ /\ hotEpoch \notin {NoEpoch, call[c].epoch}
        /\ MayDelete(call[c].id)
        /\ Goto(c, "row")
     \/ hot' = hot /\ Goto(c, "user")
  /\ UNCHANGED <<now, session, epoch, hotEpoch, faults>>

\* resolveHot: compare with the epoch of the user's row; a failed read leads to
\* the session's row.
CheckUser(c) ==
  /\ call[c].op = "user"
  /\ \/ call[c].epoch = epoch /\ hot' = hot /\ Goto(c, "touch")
     \/ call[c].epoch # epoch /\ MayDelete(call[c].id) /\ Goto(c, "row")
     \/ hot' = hot /\ Goto(c, "row")
  /\ UNCHANGED <<now, session, epoch, hotEpoch, faults>>

-----------------------------------------------------------------------------
(* Resolve: the row *)

\* GetSessionByTokenHash, and what AuthorizeSession says of the row
ReadRow(c) ==
  LET row == session[call[c].id] IN
  /\ call[c].op = "row"
  /\ IF row.status = "active"
       THEN Become(c, [call[c] EXCEPT !.op = "principal", !.seen = row.seen])
       ELSE Return(c)
  /\ UNCHANGED <<now, session, epoch, hot, hotEpoch, faults>>

\* loadPrincipal: the user, in a statement of its own
ReadPrincipal(c) ==
  /\ call[c].op = "principal"
  /\ Become(c, [call[c] EXCEPT !.op = "populate", !.epoch = epoch])
  /\ UNCHANGED <<now, session, epoch, hot, hotEpoch, faults>>

\* populateHot: the copy ...
Populate(c) ==
  /\ call[c].op = "populate"
  /\ hot' \in {hot, [hot EXCEPT ![call[c].id] = [seen |-> call[c].seen, epoch |-> call[c].epoch]]}
  /\ Goto(c, "populate_epoch")
  /\ UNCHANGED <<now, session, epoch, hotEpoch, faults>>

\* ... and the epoch.
PopulateEpoch(c) ==
  /\ call[c].op = "populate_epoch"
  /\ hotEpoch' \in {hotEpoch, call[c].epoch}
  /\ Goto(c, "touch")
  /\ UNCHANGED <<now, session, epoch, hot, faults>>

-----------------------------------------------------------------------------
(* Resolve: the touch *)

\* Mutant: no touch yet when exactly a quantum has passed.
DueLate(c) == now - call[c].seen > Quantum

\* TouchQuantum has passed since the last_seen_at that the request read.
Due(c) == now - call[c].seen >= Quantum

\* The request goes on as the session's user.
Accept(c, untouched) ==
  Become(c, [call[c] EXCEPT !.op = "accepted", !.at = now, !.untouched = untouched])

\* maybeTouch: nothing to do, or Touch reads the row and authorizes it.
MaybeTouch(c) ==
  /\ call[c].op = "touch"
  /\ IF ~Due(c) THEN Accept(c, FALSE)
     ELSE IF session[call[c].id].status = "active"
       THEN Become(c, [call[c] EXCEPT !.op = "touching", !.at = now])
       ELSE Return(c)
  /\ UNCHANGED <<now, session, epoch, hot, hotEpoch, faults>>

\* Mutant: no look at the number of updated rows.
TouchWriteBlind(c) ==
  /\ call[c].op = "touching"
  /\ session' = [session EXCEPT ![call[c].id].seen = call[c].at]
  /\ Goto(c, "touched")
  /\ UNCHANGED <<now, epoch, hot, hotEpoch, faults>>

\* UpdateSessionActivity: UPDATE ... WHERE revoked_at IS NULL, with a time read
\* after the row was; no row means that the session was revoked meanwhile.
TouchWrite(c) ==
  LET s == call[c].id IN
  /\ call[c].op = "touching"
  /\ IF session[s].status = "active"
       THEN /\ \E t \in call[c].at..now : session' = [session EXCEPT ![s].seen = t]
            /\ Goto(c, "touched")
       ELSE session' = session /\ Return(c)
  /\ UNCHANGED <<now, epoch, hot, hotEpoch, faults>>

\* Touch: invalidateHot
TouchInvalidate(c) ==
  /\ call[c].op = "touched"
  /\ MayDelete(call[c].id)
  /\ Accept(c, FALSE)
  /\ UNCHANGED <<now, session, epoch, hotEpoch, faults>>

\* maybeTouch: an unavailable database does not fail the request.
TouchFails(c) ==
  /\ call[c].op \in {"touch", "touching"}
  /\ Due(c) \/ call[c].op = "touching"
  /\ faults < MaxFaults
  /\ faults' = faults + 1
  /\ Accept(c, TRUE)
  /\ UNCHANGED <<now, session, epoch, hot, hotEpoch>>

\* The handler of the request is done, or the request is cut off.
End(c) ==
  /\ call[c].op # "idle"
  /\ Return(c)
  /\ UNCHANGED <<now, session, epoch, hot, hotEpoch, faults>>

-----------------------------------------------------------------------------
(* Revocation *)

Active == {s \in SessionIds : session[s].status = "active"}

\* UPDATE ... SET revoked_at ... WHERE revoked_at IS NULL
Revoke(S, status) ==
  session' = [s \in SessionIds |->
    IF s \in S \cap Active THEN [session[s] EXCEPT !.status = status, !.ended = now] ELSE session[s]]

\* RevokeWithSecurity: logout, revocation by the owner, rotation at login
RevokeOne(c, s) ==
  /\ call[c].op = "idle"
  /\ session[s].status # "none"
  /\ Revoke({s}, "revoked")
  /\ Become(c, [Idle EXCEPT !.op = "clear", !.rest = {s}])
  /\ UNCHANGED <<now, epoch, hot, hotEpoch, faults>>

\* RevokeOthersWithSecurity: the kept session is authorized ...
OthersCheck(c, keep) ==
  /\ call[c].op = "idle"
  /\ keep \in Active
  /\ Become(c, [Idle EXCEPT !.op = "others", !.id = keep])
  /\ UNCHANGED <<now, session, epoch, hot, hotEpoch, faults>>

\* ... and the others are revoked, whose tokens the statement returns.
OthersWrite(c) ==
  LET others == Active \ {call[c].id} IN
  /\ call[c].op = "others"
  /\ Revoke(others, "revoked")
  /\ Become(c, [Idle EXCEPT !.op = "clear", !.rest = others])
  /\ UNCHANGED <<now, epoch, hot, hotEpoch, faults>>

\* invalidateHot, one token after the other
Clear(c) ==
  /\ call[c].op = "clear"
  /\ \/ \E s \in call[c].rest :
          /\ MayDelete(s)
          /\ Become(c, [call[c] EXCEPT !.rest = @ \ {s}])
     \/ call[c].rest = {} /\ Return(c) /\ hot' = hot
  /\ UNCHANGED <<now, session, epoch, hotEpoch, faults>>

\* RevokeSessionsForUserTx, in the transaction of CompletePasswordReset and of
\* RemovePasskeyWithSecurity
LogoutAll(c) ==
  /\ call[c].op = "idle"
  /\ epoch < MaxEpoch
  /\ Revoke(SessionIds, "revoked_all")
  /\ epoch' = epoch + 1
  /\ Become(c, [Idle EXCEPT !.op = "publish", !.epoch = epoch + 1])
  /\ UNCHANGED <<now, hot, hotEpoch, faults>>

\* ApplyUserEpoch
PublishEpoch(c) ==
  /\ call[c].op = "publish"
  /\ hotEpoch' \in {hotEpoch, call[c].epoch}
  /\ Return(c)
  /\ UNCHANGED <<now, session, epoch, hot, faults>>

-----------------------------------------------------------------------------
Resolve(c) ==
  \/ CheckHotEpoch(c) \/ CheckUser(c) \/ ReadRow(c) \/ ReadPrincipal(c)
  \/ Populate(c) \/ PopulateEpoch(c)
  \/ MaybeTouch(c) \/ TouchWrite(c) \/ TouchInvalidate(c) \/ TouchFails(c)

Next ==
  \/ Tick \/ EvictEpoch
  \/ \E s \in SessionIds : Evict(s) \/ Create(s)
  \/ \E c \in Clients, s \in SessionIds : ResolveBegin(c, s) \/ RevokeOne(c, s) \/ OthersCheck(c, s)
  \/ \E c \in Clients :
       Resolve(c) \/ End(c) \/ OthersWrite(c) \/ Clear(c) \/ LogoutAll(c) \/ PublishEpoch(c)

Spec == Init /\ [][Next]_vars

-----------------------------------------------------------------------------
(* Properties *)

Ops == {"idle", "hot", "user", "row", "principal", "populate", "populate_epoch", "touch",
        "touching", "touched", "accepted", "others", "clear", "publish"}

Row == [status : {"none", "active"} \cup Revoked, seen : Nat, ended : Nat]
Copy == [seen : Nat, epoch : Int]
Frame == [op : Ops, id : SessionIds \cup {NoSession}, was : {"none", "active"} \cup Revoked,
          seen : Nat, epoch : Int, at : Nat, untouched : BOOLEAN, rest : SUBSET SessionIds]

TypeOK ==
  /\ now \in Nat
  /\ session \in [SessionIds -> Row]
  /\ epoch \in Nat
  /\ hot \in [SessionIds -> Copy]
  /\ hotEpoch \in Int
  /\ call \in [Clients -> Frame]
  /\ faults \in 0..MaxFaults

Accepted(c) == call[c].op = "accepted"

\* A revoked session that Valkey still has a copy of is let through for less
\* than one TouchQuantum after its revocation, whatever deletes are lost, copies
\* written late and touches overlapping; then the touch of Resolve finds the
\* revocation.  (Except when the database fails the touch.)
StalenessIsBounded ==
  \A c \in Clients :
    Accepted(c) /\ call[c].was \in Revoked /\ ~call[c].untouched =>
      call[c].at < session[call[c].id].ended + Quantum

\* "n=0 does not revive the row; concurrent revoke wins": neither a touch nor a
\* second revocation changes a revoked row.
RevocationIsFinal ==
  [][\A s \in SessionIds : session[s].status \in Revoked => session'[s] = session[s]]_vars

\* session_epoch "is the Valkey-stale safety net for logout-all": a request that
\* begins after all sessions were logged out does not pass with one of them.
LogoutAllIsFinal ==
  \A c \in Clients : Accepted(c) => call[c].was # "revoked_all"

-----------------------------------------------------------------------------
(* The instances that are checked: sessions and requests are interchangeable. *)

Symmetry == Permutations(SessionIds) \cup Permutations(Clients)
=============================================================================
