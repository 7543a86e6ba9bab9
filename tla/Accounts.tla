------------------------------ MODULE Accounts ------------------------------
(***************************************************************************)
(* Accounts: codes and proofs (Challenges), credentials and sessions       *)
(* (Passkeys), with any of their requests under way at the same time.      *)
(***************************************************************************)
EXTENDS Passkeys, FiniteSets, TLC

CONSTANTS
  Stories,   \* the accounts a run begins with: "new", "password", "passkeys", "logged_in"
  Budget     \* bound: codes, ceremonies and sessions together

ASSUME AccountsAssumption ==
  /\ Users # {} /\ Idents # {}
  /\ "logged_in" \in Stories => 1 \in PasskeyIds

vars == <<call, published, challengeVars, accountVars, passkeyVars>>

\* Nobody yet; a user with a password; a user with every passkey and no
\* password; or one with a single passkey who has logged in with it, whether the
\* step-up of that login still holds or not.
Owner == CHOOSE u \in Users : TRUE
Enrolled(P) == [p \in PasskeyIds |->
  IF p \in P THEN [NoPasskey EXCEPT !.status = "active", !.user = Owner, !.by = "step_up"]
             ELSE NoPasskey]
LoggedIn(S) == [s \in SessionIds |->
  IF s \in S THEN [status |-> "live", user |-> Owner, cred |-> <<"passkey", 1>>, late |-> FALSE]
             ELSE NoSessionRow]

Init ==
  /\ call = [c \in Clients |-> Idle]
  /\ published = {}
  /\ ChallengesInit
  /\ PasskeysInit
  /\ \E story \in Stories :
       /\ holder = [i \in Idents |-> IF story = "new" THEN {} ELSE {Owner}]
       /\ password = [u \in Users |-> IF story = "password" /\ u = Owner THEN 1 ELSE 0]
       /\ passkey = Enrolled(CASE story = "passkeys" -> PasskeyIds
                               [] story = "logged_in" -> {1}
                               [] OTHER -> {})
       /\ session = LoggedIn(IF story = "logged_in" THEN {1} ELSE {})
       /\ stepUp \in (IF story = "logged_in" THEN SUBSET {1} ELSE {{}})

\* The client goes away, or the process dies, between two steps.
Abandon(c) ==
  /\ call[c] # Idle
  /\ Return(c)
  /\ UNCHANGED <<published, challengeVars, accountVars, passkeyVars>>

Next ==
  \/ \E c \in Clients :
       \/ ChallengesNext(c) /\ UNCHANGED passkeyVars
       \/ PasskeysNext(c)
       \/ Abandon(c)
  \/ BrowserNext
  \/ /\ \/ \E k \in ChallengeIds : ChallengeExpires(k)
        \/ \E p \in Purposes, i \in Idents : WindowEnds(p, i)
     /\ UNCHANGED passkeyVars

Spec == Init /\ [][Next]_vars

-----------------------------------------------------------------------------
(* Properties *)

\* An identifier is active for at most one user, however many sign-ups of it
\* complete at once (CompleteSignup, InsertIdentifierTx).  A code that has been
\* used was used before its attempts ran out, and can be sent no more; a proof
\* exists only for such a code, and a user who signed up here for the proof
\* that was spent on it.
AccountStory ==
  /\ \A i \in Idents : Cardinality(holder[i]) <= 1
  /\ \A k \in ChallengeIds :
       /\ challenge[k].status = "consumed" =>
            challenge[k].failed < MaxAttempts /\ material[k] = "destroyed" /\ k \in received
       /\ proof[k].status # "none" => challenge[k].status = "consumed"
       /\ challenge[k].purpose = "signup" /\ proof[k].status = "consumed" =>
            proof[k].user \in holder[challenge[k].ident]

\* A live session whose password was replaced, or whose passkey was removed,
\* belongs to a login that had checked that credential when the reset or the
\* removal committed, and inserted its session after it
\* (CompletePasswordReset, revokePasskeyWithSecurity, createFreshSession).
Superseded(s) ==
  LET cred == session[s].cred IN
  IF cred[1] = "password" THEN password[session[s].user] # cred[2] ELSE passkey[cred[2]].status = "revoked"
ResetEndsSessions == \A s \in SessionIds : Live(s) /\ Superseded(s) => session[s].late

\* The bootstrap grant enrols a passkey for an account that has one only for
\* a request that was past requirePasskeyAdd when the other was added, and a
\* user with neither a passkey nor a password left has had two removals under
\* way at once (requirePasskeyAdd, PasskeyBootstrap.Consume,
\* RemovePasskeyWithSecurity).
PasskeysOf(u) == {p \in PasskeyIds : passkey[p].user = u}
CredentialStory ==
  /\ \A p \in PasskeyIds : passkey[p].by = "bootstrap" /\ ~passkey[p].first => passkey[p].raced
  /\ \A u \in Users :
       PasskeysOf(u) # {} /\ ActivePasskeys(u) = {} /\ password[u] = 0 =>
         \E p \in PasskeysOf(u) : passkey[p].crossed

CountsKept ==
  \A p \in PasskeyIds :
    /\ passkey'[p].count >= passkey[p].count
    /\ passkey[p].status = "revoked" => passkey'[p].count = passkey[p].count

\* No assertion, however it overlaps with others, takes the sign count of a
\* passkey back, and none touches a removed passkey
\* (RecordSuccessfulUse, UpdatePasskeySuccessfulUse).
CountsNeverFall == [][CountsKept]_vars

-----------------------------------------------------------------------------
(* The instance that is checked: a behaviour that has asked for enough codes *)
(* and begun enough ceremonies is not followed any further.                  *)

Symmetry == Permutations(Clients)

Spent ==
  Cardinality({k \in ChallengeIds : challenge[k] # NoChallenge})
    + Cardinality({x \in CeremonyIds : ceremony[x] # NoCeremony})
    + Cardinality({s \in SessionIds : session[s] # NoSessionRow})

\* Two codes may be about, but not both to reset a password and nothing else then.
Codes(purposes) == {k \in ChallengeIds : challenge[k] # NoChallenge /\ challenge[k].purpose \in purposes}
WithinBudget ==
  /\ Spent <= Budget
  /\ Cardinality(Codes({"reset"})) <= 1
  /\ Cardinality(Codes(Purposes)) = 2 => Spent = 2
=============================================================================
