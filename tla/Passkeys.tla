------------------------------ MODULE Passkeys ------------------------------
(***************************************************************************)
(* backend/internal/identity and its httpapi: logging in with a password   *)
(* or a passkey, stepping up, and the passkeys of an account.              *)
(*                                                                         *)
(* WebAuthn ceremonies are rows that are consumed once.  What a session    *)
(* may do beyond being logged in is kept in Valkey under its id: step-up   *)
(* after an assertion, bootstrap for the first passkey of an account that  *)
(* has none.  Calls to Valkey may be lost, and their errors are mostly     *)
(* ignored.  Resolving a cookie is the subject of module Sessions: here a  *)
(* session passes while its row is live.  A ceremony or a proof that       *)
(* expires is one that no request comes for.                               *)
(*                                                                         *)
(* "late", "raced" and "crossed" are history: the login had verified its   *)
(* credential when a reset or a removal revoked all sessions; another      *)
(* passkey of the user came or went while the request that added this one  *)
(* (raced) or the one that removed it (crossed) was under way.             *)
(***************************************************************************)
EXTENDS Challenges

CONSTANTS
  SessionIds,
  NoSession,
  PasskeyIds,
  CeremonyIds,
  MaxCount       \* bound: sign counts of an authenticator

ASSUME PasskeysAssumption ==
  /\ NoSession \notin SessionIds /\ MaxCount \in Nat
  /\ SessionIds \cup PasskeyIds \cup CeremonyIds \subseteq Nat

VARIABLES
  session,     \* sessions: status, user and the credential it rests on
  stepUp,      \* Valkey: sessions that may do sensitive operations
  bootstrap,   \* Valkey: sessions that may add a first passkey
  passkey,     \* passkey_credentials
  ceremony     \* webauthn_ceremonies

grantVars == <<stepUp, bootstrap>>
passkeyVars == <<session, grantVars, passkey, ceremony>>

NoSessionRow == [status |-> "none", user |-> NoUser, cred |-> <<"password", 0>>, late |-> FALSE]
NoPasskey == [status |-> "none", user |-> NoUser, count |-> 0, by |-> "none", first |-> FALSE,
              raced |-> FALSE, crossed |-> FALSE]
NoCeremony == [status |-> "none", kind |-> "authentication", user |-> NoUser]

PasskeysInit ==
  /\ bootstrap = {}
  /\ ceremony = [x \in CeremonyIds |-> NoCeremony]

-----------------------------------------------------------------------------
(* What the handlers ask *)

\* requireOriginSessionCSRF, requireSession
Live(s) == session[s].status = "live"

\* What a browser may send along: no cookie, or one that resolves.
Cookies == {NoSession} \cup {s \in SessionIds : Live(s)}

\* ListActiveForUser
ActivePasskeys(u) == {p \in PasskeyIds : passkey[p].status = "active" /\ passkey[p].user = u}

\* StepUp.Require
RecentlyStrong(s) == s \in stepUp

\* Mutant: the passkeys of the account are not counted.
BootstrapAllowsAny(s) == s \in bootstrap

\* PasskeyBootstrap.Allow
BootstrapAllows(s) == s \in bootstrap /\ ActivePasskeys(session[s].user) = {}

\* requirePasskeyAdd
MayAddPasskey(s) == RecentlyStrong(s) \/ BootstrapAllows(s)

\* CredentialGuard: no user removes the last way in.
MayRemovePasskey(u, p) ==
  /\ passkey[p].status = "active" /\ passkey[p].user = u
  /\ ActivePasskeys(u) \ {p} # {} \/ password[u] > 0

-----------------------------------------------------------------------------
(* What they change together *)

\* clearElevations, always for a session that is revoked at the same time: a
\* delete that is lost leaves a key no request can use.
ClearElevations(s) ==
  /\ stepUp' = stepUp \ {s}
  /\ bootstrap' = bootstrap \ {s}

Revoked(S) == [s \in SessionIds |->
  IF s \in S /\ Live(s) THEN [session[s] EXCEPT !.status = "revoked"] ELSE session[s]]

\* The event each revocation on request leaves in the security log.
Ended(S) == {<<"ended", s>> : s \in S}

\* Mutant: the sessions stay.
RevokeSessionsForUserNot(u) == session' = session

\* RevokeSessionsForUserTx
RevokeSessionsForUser(u) == session' = Revoked({s \in SessionIds : session[s].user = u})

\* Other logins of the user under way become late, other changes of the user's
\* passkeys raced; the request itself goes on with its own frame.
Overtake(c, u, frame) ==
  call' = [d \in Clients |->
    CASE d = c -> frame
      [] d # c /\ call[d].op \in {"rotate", "create_session"} /\ call[d].user = u
           -> [call[d] EXCEPT !.late = TRUE]
      [] d # c /\ call[d].op \in {"register", "insert_passkey", "remove"} /\ call[d].user = u
           -> [call[d] EXCEPT !.raced = TRUE]
      [] OTHER -> call[d]]

-----------------------------------------------------------------------------
(* A new session: login, sign-up and step-up *)

\* createFreshSession, for a request that comes with the cookie "old" or none.
NewLogin(u, cred, old, grant) ==
  [op |-> "rotate", user |-> u, cred |-> cred, old |-> old, grant |-> grant, late |-> FALSE]

\* passwordLogin: resolve the identifier and verify the password.
PasswordLogin(c, i, old) ==
  /\ call[c] = Idle
  /\ old \in Cookies
  /\ \E u \in ActiveHolders(i) :
       /\ password[u] > 0
       /\ Proceed(c, NewLogin(u, <<"password", password[u]>>, old, "none"))
  /\ UNCHANGED <<published, challengeVars, accountVars, passkeyVars>>

\* rotatePredecessor: the session of the cookie ends first.
RotatePredecessor(c) ==
  /\ call[c].op = "rotate"
  /\ IF call[c].old = NoSession
       THEN UNCHANGED <<session, grantVars>>
       ELSE session' = Revoked({call[c].old}) /\ ClearElevations(call[c].old)
  /\ Proceed(c, [call[c] EXCEPT !.op = "create_session"])
  /\ UNCHANGED <<published, challengeVars, accountVars, passkey, ceremony>>

\* CreateWithSecurity: the row and its event.
CreateSession(c, s) ==
  /\ call[c].op = "create_session"
  /\ NewID(session, NoSessionRow, s)
  /\ session' = [session EXCEPT ![s] =
       [status |-> "live", user |-> call[c].user, cred |-> call[c].cred, late |-> call[c].late]]
  /\ published' = published \cup {<<"session", s>>}
  /\ IF call[c].grant = "none"
       THEN Return(c)
       ELSE Proceed(c, [op |-> call[c].grant, id |-> s, old |-> call[c].old])
  /\ UNCHANGED <<challengeVars, accountVars, grantVars, passkey, ceremony>>

\* StepUp.Grant after a passkey login: an error is ignored.
GrantLogin(c) ==
  /\ call[c].op = "grant_login"
  /\ stepUp' \in {stepUp, stepUp \cup {call[c].id}}
  /\ Return(c)
  /\ UNCHANGED <<published, challengeVars, accountVars, session, bootstrap, passkey, ceremony>>

\* PasskeyBootstrap.GrantSignup: refused once there is a passkey or a password,
\* and without the grant the new session ends.
GrantSignup(c) ==
  LET s == call[c].id
      u == session[s].user
  IN
  /\ call[c].op = "grant_signup"
  /\ \/ /\ ActivePasskeys(u) = {} /\ password[u] = 0
        /\ bootstrap' = bootstrap \cup {s}
        /\ UNCHANGED <<session, stepUp>>
     \/ ClearElevations(s) /\ session' = Revoked({s})
  /\ Return(c)
  /\ UNCHANGED <<published, challengeVars, accountVars, passkey, ceremony>>

\* CompleteSignup: an account without a password may enrol a passkey.
SignupAccount(c, u) ==
  /\ call[c].op = "create_account"
  /\ CreateAccount(c, u, NewLogin(u, <<"password", call[c].password>>, NoSession,
                                IF call[c].password = 0 THEN "grant_signup" ELSE "none"))
  /\ UNCHANGED passkeyVars

\* CompletePasswordReset: the new password, and every session of the user ends.
ResetAccount(c) ==
  /\ call[c].op = "reset_account"
  /\ \/ /\ ResetPassword(c)
        /\ RevokeSessionsForUser(proof[call[c].id].user)
        /\ Overtake(c, proof[call[c].id].user, Idle)
     \/ /\ ~Redeemable(proof[call[c].id])
        /\ Return(c)
        /\ UNCHANGED <<published, challengeVars, accountVars, session>>
  /\ UNCHANGED <<grantVars, passkey, ceremony>>

-----------------------------------------------------------------------------
(* Assertions *)

\* InsertCeremony
Begin(x, kind, u) ==
  /\ NewID(ceremony, NoCeremony, x)
  /\ ceremony' = [ceremony EXCEPT ![x] = [status |-> "open", kind |-> kind, user |-> u]]
  /\ UNCHANGED <<call, published, challengeVars, accountVars, session, grantVars, passkey>>

BeginAuthentication(x) == Begin(x, "authentication", NoUser)

BeginStepUp(s, x) ==
  /\ Live(s) /\ ActivePasskeys(session[s].user) # {}
  /\ Begin(x, "authentication", session[s].user)

\* ConsumeCeremonyByTokenHash: at most one request gets it, whatever comes of it.
ConsumeCeremony(x) ==
  /\ ceremony[x].status = "open"
  /\ ceremony' = [ceremony EXCEPT ![x].status = "consumed"]

\* FinishAuthentication: a ceremony that is bound to no user.
FinishAuthentication(c, x, p, old) ==
  /\ call[c] = Idle
  /\ old \in Cookies
  /\ ceremony[x].kind = "authentication"
  /\ ConsumeCeremony(x)
  /\ IF ceremony[x].user = NoUser
       THEN Proceed(c, [op |-> "assert", passkey |-> p, old |-> old, grant |-> "grant_login"])
       ELSE UNCHANGED call
  /\ UNCHANGED <<published, challengeVars, accountVars, session, grantVars, passkey>>

\* FinishStepUp: a ceremony that is bound to the user of the session.
FinishStepUp(c, s, x, p) ==
  /\ call[c] = Idle
  /\ Live(s)
  /\ ceremony[x].kind = "authentication"
  /\ ConsumeCeremony(x)
  /\ IF ceremony[x].user = session[s].user /\ passkey[p].user = session[s].user
       THEN Proceed(c, [op |-> "assert", passkey |-> p, old |-> s, grant |-> "grant_step_up"])
       ELSE UNCHANGED call
  /\ UNCHANGED <<published, challengeVars, accountVars, session, grantVars, passkey>>

\* The signature counter warns of a clone unless it rises or is not in use.
CounterAccepted(stored, n) == n > stored \/ (n = 0 /\ stored = 0)

\* resolveAssertionSubject and the verification of the assertion
VerifyAssertion(c, n) ==
  LET pk == passkey[call[c].passkey] IN
  /\ call[c].op = "assert"
  /\ IF pk.status = "active" /\ CounterAccepted(pk.count, n)
       THEN Proceed(c, [op |-> "use", passkey |-> call[c].passkey, count |-> n,
                        old |-> call[c].old, grant |-> call[c].grant])
       ELSE Return(c)
  /\ UNCHANGED <<published, challengeVars, accountVars, passkeyVars>>

\* Mutant: the count that was verified is stored whatever the row says now.
CountStorableAlways(pk, n) == pk.status = "active"

\* UpdatePasskeySuccessfulUse ... WHERE revoked_at IS NULL AND
\* (sign_count = 0 OR new >= sign_count)
CountStorable(pk, n) == pk.status = "active" /\ (pk.count = 0 \/ n >= pk.count)

\* RecordSuccessfulUse; a step-up keeps its session until the new one is there.
RecordSuccessfulUse(c) ==
  LET p == call[c].passkey IN
  /\ call[c].op = "use"
  /\ IF CountStorable(passkey[p], call[c].count)
       THEN /\ passkey' = [passkey EXCEPT ![p].count = call[c].count]
            /\ Proceed(c, [NewLogin(passkey[p].user, <<"passkey", p>>, call[c].old, call[c].grant) EXCEPT
                 !.op = IF call[c].grant = "grant_step_up" THEN "create_session" ELSE "rotate"])
       ELSE Return(c) /\ UNCHANGED passkey
  /\ UNCHANGED <<published, challengeVars, accountVars, session, grantVars, ceremony>>

\* finishStepUp: no grant, no new session.
GrantStepUp(c) ==
  /\ call[c].op = "grant_step_up"
  /\ \/ /\ stepUp' = stepUp \cup {call[c].id}
        /\ Proceed(c, [op |-> "retire", id |-> call[c].id, old |-> call[c].old])
        /\ UNCHANGED session
     \/ /\ session' = Revoked({call[c].id})
        /\ Return(c)
        /\ UNCHANGED stepUp
  /\ UNCHANGED <<published, challengeVars, accountVars, bootstrap, passkey, ceremony>>

\* finishStepUp: the old session ends, or else the new one.
Retire(c) ==
  /\ call[c].op = "retire"
  /\ \E s \in {call[c].old, call[c].id} : session' = Revoked({s}) /\ ClearElevations(s)
  /\ Return(c)
  /\ UNCHANGED <<published, challengeVars, accountVars, passkey, ceremony>>

-----------------------------------------------------------------------------
(* Adding and removing passkeys *)

\* passwordReauthForPasskeyAdd: the checks of GrantPassword ...
PasswordReauth(c, s) ==
  /\ call[c] = Idle
  /\ Live(s) /\ ActivePasskeys(session[s].user) = {} /\ password[session[s].user] > 0
  /\ Proceed(c, [op |-> "grant_password", id |-> s])
  /\ UNCHANGED <<published, challengeVars, accountVars, passkeyVars>>

\* ... and its record in Valkey
GrantPassword(c) ==
  /\ call[c].op = "grant_password"
  /\ bootstrap' = bootstrap \cup {call[c].id}
  /\ Return(c)
  /\ UNCHANGED <<published, challengeVars, accountVars, session, stepUp, passkey, ceremony>>

BeginRegistration(s, x) ==
  /\ Live(s) /\ MayAddPasskey(s)
  /\ Begin(x, "registration", session[s].user)

\* finishPasskeyRegister, up to the ceremony: may this session add a passkey?
FinishRegistration(c, s) ==
  /\ call[c] = Idle
  /\ Live(s) /\ MayAddPasskey(s)
  /\ Proceed(c, [op |-> "register", session |-> s, user |-> session[s].user, raced |-> FALSE,
                 by |-> IF RecentlyStrong(s) THEN "step_up" ELSE "bootstrap"])
  /\ UNCHANGED <<published, challengeVars, accountVars, passkeyVars>>

\* FinishRegistrationWithSecurity: the ceremony of this user, consumed.
ConsumeRegistration(c, x) ==
  /\ call[c].op = "register"
  /\ ceremony[x].kind = "registration"
  /\ ConsumeCeremony(x)
  /\ IF ceremony[x].user = call[c].user
       THEN Proceed(c, [call[c] EXCEPT !.op = "insert_passkey"])
       ELSE Return(c)
  /\ UNCHANGED <<published, challengeVars, accountVars, session, grantVars, passkey>>

\* persistPasskey: the row and its event.
InsertPasskey(c, p) ==
  /\ call[c].op = "insert_passkey"
  /\ NewID(passkey, NoPasskey, p)
  /\ passkey' = [passkey EXCEPT ![p] =
       [status |-> "active", user |-> call[c].user, count |-> 0, by |-> call[c].by,
        first |-> ActivePasskeys(call[c].user) = {}, raced |-> call[c].raced, crossed |-> FALSE]]
  /\ published' = published \cup {<<"passkey_added", p>>}
  /\ Overtake(c, call[c].user, [op |-> "used_bootstrap", id |-> call[c].session])
  /\ UNCHANGED <<challengeVars, accountVars, session, grantVars, ceremony>>

\* PasskeyBootstrap.Consume: a delete that may be lost.
ConsumeBootstrap(c) ==
  /\ call[c].op = "used_bootstrap"
  /\ bootstrap' \in {bootstrap, bootstrap \ {call[c].id}}
  /\ Return(c)
  /\ UNCHANGED <<published, challengeVars, accountVars, session, stepUp, passkey, ceremony>>

\* removePasskey: everything is read before the transaction begins.
RemovePasskey(c, s, p) ==
  /\ call[c] = Idle
  /\ Live(s) /\ RecentlyStrong(s)
  /\ MayRemovePasskey(session[s].user, p)
  /\ Proceed(c, [op |-> "remove", session |-> s, passkey |-> p, user |-> session[s].user, raced |-> FALSE])
  /\ UNCHANGED <<published, challengeVars, accountVars, passkeyVars>>

\* revokePasskeyWithSecurity: the passkey and every session of the user.
RevokePasskey(c) ==
  LET p == call[c].passkey IN
  /\ call[c].op = "remove"
  /\ passkey' = [passkey EXCEPT ![p].status = "revoked", ![p].crossed = @ \/ call[c].raced]
  /\ RevokeSessionsForUser(call[c].user)
  /\ published' = published \cup {<<"passkey_removed", p>>}
  /\ ClearElevations(call[c].session)
  /\ Overtake(c, call[c].user, Idle)
  /\ UNCHANGED <<challengeVars, accountVars, ceremony>>

-----------------------------------------------------------------------------
(* Ending sessions, and what Valkey forgets *)

Logout(s) ==
  /\ Live(s)
  /\ session' = Revoked({s})
  /\ ClearElevations(s)
  /\ published' = published \cup Ended({s})
  /\ UNCHANGED <<call, challengeVars, accountVars, passkey, ceremony>>

\* revokeSession: one session of the user's own.
RevokeSession(s, t) ==
  /\ Live(s) /\ session[t].user = session[s].user /\ Live(t)
  /\ session' = Revoked({t})
  /\ ClearElevations(t)
  /\ published' = published \cup Ended({t})
  /\ UNCHANGED <<call, challengeVars, accountVars, passkey, ceremony>>

\* revokeOtherSessions: clearElevations for each of them.
RevokeOtherSessions(s) ==
  LET others == {t \in SessionIds \ {s} : session[t].user = session[s].user /\ Live(t)} IN
  /\ Live(s)
  /\ session' = Revoked(others)
  /\ stepUp' = stepUp \ others
  /\ bootstrap' = bootstrap \ others
  /\ published' = published \cup Ended(others)
  /\ UNCHANGED <<call, challengeVars, accountVars, passkey, ceremony>>

\* The TTL of an elevation, or an eviction
ElevationExpires(s) ==
  /\ s \in stepUp \cup bootstrap
  /\ \/ stepUp' = stepUp \ {s} /\ UNCHANGED bootstrap
     \/ bootstrap' = bootstrap \ {s} /\ UNCHANGED stepUp
  /\ UNCHANGED <<call, published, challengeVars, accountVars, session, passkey, ceremony>>

PasskeysNext(c) ==
  \/ \E i \in Idents, old \in SessionIds \cup {NoSession} : PasswordLogin(c, i, old)
  \/ RotatePredecessor(c) \/ GrantLogin(c) \/ GrantSignup(c) \/ GrantStepUp(c) \/ Retire(c)
  \/ \E u \in Users : SignupAccount(c, u)
  \/ ResetAccount(c)
  \/ \E x \in CeremonyIds, p \in PasskeyIds, old \in SessionIds \cup {NoSession} : FinishAuthentication(c, x, p, old)
  \/ \E s \in SessionIds, x \in CeremonyIds, p \in PasskeyIds : FinishStepUp(c, s, x, p)
  \/ \E n \in 0..MaxCount : VerifyAssertion(c, n)
  \/ RecordSuccessfulUse(c) \/ GrantPassword(c) \/ ConsumeBootstrap(c) \/ RevokePasskey(c)
  \/ \E x \in CeremonyIds : ConsumeRegistration(c, x)
  \/ \E p \in PasskeyIds : InsertPasskey(c, p)
  \/ \E s \in SessionIds :
       \/ CreateSession(c, s) \/ PasswordReauth(c, s) \/ FinishRegistration(c, s)
       \/ \E p \in PasskeyIds : RemovePasskey(c, s, p)

BrowserNext ==
  \/ \E x \in CeremonyIds : BeginAuthentication(x)
  \/ \E s \in SessionIds :
       \/ Logout(s) \/ RevokeOtherSessions(s) \/ ElevationExpires(s)
       \/ \E t \in SessionIds : RevokeSession(s, t)
       \/ \E x \in CeremonyIds : BeginStepUp(s, x) \/ BeginRegistration(s, x)
=============================================================================
