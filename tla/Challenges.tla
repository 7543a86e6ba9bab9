----------------------------- MODULE Challenges -----------------------------
(***************************************************************************)
(* backend/internal/identity: sign-up and password reset.  A code is sent  *)
(* to an e-mail address or telephone number, the code is exchanged for a   *)
(* proof, and the proof for an account or a new password.                  *)
(*                                                                         *)
(* The secret of a challenge is sealed in a row of its own until it has    *)
(* been used; the worker opens it to send it.  A request may submit the    *)
(* right code only once it has been sent.  Identifiers are verified when   *)
(* they are created and no handler revokes one or disables a user.         *)
(***************************************************************************)
EXTENDS Requests

CONSTANTS
  Users,           \* ids that may be minted for users
  NoUser,
  Idents,          \* canonical e-mail addresses and telephone numbers
  ChallengeIds,    \* ids are numbered in the order they are minted
  MaxAttempts,     \* ChallengePolicy.MaxAttempts
  DestinationMax,  \* IssuancePolicy.DestinationMax
  MaxPassword      \* bound: passwords set for one user

ASSUME ChallengesAssumption ==
  /\ NoUser \notin Users /\ ChallengeIds \subseteq Nat
  /\ MaxAttempts \in Nat \ {0} /\ DestinationMax \in Nat \ {0} /\ MaxPassword \in Nat

VARIABLES
  issuance,    \* Valkey: challenges asked for per purpose and identifier
  challenge,   \* verification_challenges
  material,    \* verification_material: the sealed code of each challenge
  received,    \* challenges whose code has been sent
  proof,       \* signup_proofs and password_reset_proofs, one per challenge
  holder,      \* user_identifiers: the users an identifier is active for
  password     \* password_credentials: 0 is none, n the n-th one of the user

challengeVars == <<issuance, challenge, material, received, proof>>
accountVars == <<holder, password>>

Purposes == {"signup", "reset"}
NoChallenge == [status |-> "none", purpose |-> "signup", ident |-> CHOOSE i \in Idents : TRUE, failed |-> 0]
NoProof == [status |-> "none", user |-> NoUser]

ChallengesInit ==
  /\ issuance = [p \in Purposes |-> [i \in Idents |-> 0]]
  /\ challenge = [k \in ChallengeIds |-> NoChallenge]
  /\ material = [k \in ChallengeIds |-> "none"]
  /\ received = {}
  /\ proof = [k \in ChallengeIds |-> NoProof]

-----------------------------------------------------------------------------
(* The rows *)

\* NewID: the first id of no row yet.
NewID(table, none, id) == table[id] = none /\ \A k \in DOMAIN table : k < id => table[k] # none

\* prepareIssued
NewChallenge(purpose, i) == [status |-> "open", purpose |-> purpose, ident |-> i, failed |-> 0]

\* rejectUnusable: not consumed, not expired, attempts left.
Usable(ch) == ch.status = "open" /\ ch.failed < MaxAttempts

\* SignupProof.rejectUnusable and PasswordResetProof.rejectUnusable
Redeemable(pr) == pr.status = "open"

\* GetActiveIdentifier: the users that hold the identifier.
ActiveHolders(i) == holder[i]

\* The intent the worker sends the code for; the key is the challenge's.
SignupIntent(k) == <<"signup", k>>
ResetIntent(k) == <<"reset", k>>

-----------------------------------------------------------------------------
(* Asking for a code *)

\* IssuanceLimiter.Allow: INCR first, then compare.
Allow(purpose, i) ==
  /\ issuance[purpose][i] < DestinationMax
  /\ issuance' = [issuance EXCEPT ![purpose][i] = @ + 1]

\* The window of the counter ends.
WindowEnds(purpose, i) ==
  /\ issuance[purpose][i] > 0
  /\ issuance' = [issuance EXCEPT ![purpose][i] = 0]
  /\ UNCHANGED <<call, published, challenge, material, received, proof, holder, password>>

StartSignupVerification(c, i) ==
  /\ call[c] = Idle
  /\ Allow("signup", i)
  /\ Proceed(c, [op |-> "signup_lookup", ident |-> i])
  /\ UNCHANGED <<published, challenge, material, received, proof, holder, password>>

StartPasswordReset(c, i) ==
  /\ call[c] = Idle
  /\ Allow("reset", i)
  /\ Proceed(c, [op |-> "reset_lookup", ident |-> i])
  /\ UNCHANGED <<published, challenge, material, received, proof, holder, password>>

\* An identifier in use gets the id of no challenge.
SignupLookup(c) ==
  /\ call[c].op = "signup_lookup"
  /\ IF ActiveHolders(call[c].ident) = {}
       THEN Proceed(c, [op |-> "issue", purpose |-> "signup", ident |-> call[c].ident])
       ELSE Return(c)
  /\ UNCHANGED <<published, challengeVars, accountVars>>

\* So does an identifier nobody uses: coverResetStart.
ResetLookup(c) ==
  /\ call[c].op = "reset_lookup"
  /\ IF ActiveHolders(call[c].ident) # {}
       THEN Proceed(c, [op |-> "issue", purpose |-> "reset", ident |-> call[c].ident])
       ELSE Return(c)
  /\ UNCHANGED <<published, challengeVars, accountVars>>

\* InsertChallengeAndMaterial and the intent, in one transaction.
IssueChallenge(c, k) ==
  /\ call[c].op = "issue"
  /\ NewID(challenge, NoChallenge, k)
  /\ challenge' = [challenge EXCEPT ![k] = NewChallenge(call[c].purpose, call[c].ident)]
  /\ material' = [material EXCEPT ![k] = "sealed"]
  /\ published' = published \cup
       {IF call[c].purpose = "signup" THEN SignupIntent(k) ELSE ResetIntent(k)}
  /\ Return(c)
  /\ UNCHANGED <<issuance, received, proof, holder, password>>

-----------------------------------------------------------------------------
(* Sending it: ResolveVerificationDelivery, called by the worker *)

\* An unusable challenge is not sent, and what is left of its material goes.
DeliverRead(c, k) ==
  /\ call[c] = Idle
  /\ {SignupIntent(k), ResetIntent(k)} \cap published # {}
  /\ IF Usable(challenge[k])
       THEN Proceed(c, [op |-> "open_material", id |-> k]) /\ UNCHANGED material
       ELSE material' = [material EXCEPT ![k] = "destroyed"] /\ UNCHANGED call
  /\ UNCHANGED <<published, issuance, challenge, received, proof, holder, password>>

\* GetActiveMaterial, Open, and the provider.
DeliverOpen(c) ==
  /\ call[c].op = "open_material"
  /\ received' = IF material[call[c].id] = "sealed" THEN received \cup {call[c].id} ELSE received
  /\ Return(c)
  /\ UNCHANGED <<published, issuance, challenge, material, proof, holder, password>>

-----------------------------------------------------------------------------
(* Submitting a code *)

\* verifySecret, up to the write: the challenge is read and must be usable.
SubmitCode(c, k, purpose, right) ==
  /\ call[c] = Idle
  /\ challenge[k].purpose = purpose
  /\ Usable(challenge[k])
  /\ right => k \in received
  /\ Proceed(c, [op |-> IF right THEN "consume" ELSE "fail", id |-> k])
  /\ UNCHANGED <<published, challengeVars, accountVars>>

FinishSignupVerification(c, k) == \E right \in BOOLEAN : SubmitCode(c, k, "signup", right)
VerifyPasswordReset(c, k) == \E right \in BOOLEAN : SubmitCode(c, k, "reset", right)

\* The UPDATE looks at the row again.
IncrementFailedAttempt(c) ==
  LET k == call[c].id IN
  /\ call[c].op = "fail"
  /\ challenge' = IF Usable(challenge[k]) THEN [challenge EXCEPT ![k].failed = @ + 1] ELSE challenge
  /\ Return(c)
  /\ UNCHANGED <<published, issuance, material, received, proof, holder, password>>

\* Mutant: the attempts left are those that were read.
ConsumeChallengeStale(c) ==
  LET k == call[c].id IN
  /\ call[c].op = "consume"
  /\ challenge[k].status = "open"
  /\ challenge' = [challenge EXCEPT ![k].status = "consumed"]
  /\ material' = [material EXCEPT ![k] = "destroyed"]
  /\ Proceed(c, [op |-> "prove", id |-> k])
  /\ UNCHANGED <<published, issuance, received, proof, holder, password>>

\* ConsumeChallenge also destroys the material, in its transaction.
ConsumeChallenge(c) ==
  LET k == call[c].id IN
  /\ call[c].op = "consume"
  /\ IF Usable(challenge[k])
       THEN /\ challenge' = [challenge EXCEPT ![k].status = "consumed"]
            /\ material' = [material EXCEPT ![k] = "destroyed"]
            /\ Proceed(c, [op |-> "prove", id |-> k])
       ELSE Return(c) /\ UNCHANGED <<challenge, material>>
  /\ UNCHANGED <<published, issuance, received, proof, holder, password>>

\* SignupProofs.Issue, for a challenge that this request consumed.
IssueSignupProof(c) ==
  /\ call[c].op = "prove"
  /\ challenge[call[c].id].purpose = "signup"
  /\ proof' = [proof EXCEPT ![call[c].id].status = "open"]
  /\ Return(c)
  /\ UNCHANGED <<published, issuance, challenge, material, received, holder, password>>

\* ResolveVerified once more, then ResetProofs.Issue for that user.
IssueResetProof(c) ==
  /\ call[c].op = "prove"
  /\ challenge[call[c].id].purpose = "reset"
  /\ proof' \in {[proof EXCEPT ![call[c].id] = [status |-> "open", user |-> u]] :
                   u \in ActiveHolders(challenge[call[c].id].ident)}
  /\ Return(c)
  /\ UNCHANGED <<published, issuance, challenge, material, received, holder, password>>

ChallengeExpires(k) ==
  /\ challenge[k].status = "open"
  /\ challenge' = [challenge EXCEPT ![k].status = "expired"]
  /\ UNCHANGED <<call, published, issuance, material, received, proof, holder, password>>

-----------------------------------------------------------------------------
(* Redeeming a proof *)

\* The account is made in one transaction later on; a password is hashed first.
CompleteSignup(c, k) ==
  /\ call[c] = Idle
  /\ challenge[k].purpose = "signup" /\ proof[k].status # "none"
  /\ \E pw \in {0, 1} : Proceed(c, [op |-> "create_account", id |-> k, password |-> pw])
  /\ UNCHANGED <<published, challengeVars, accountVars>>

CompletePasswordReset(c, k) ==
  /\ call[c] = Idle
  /\ challenge[k].purpose = "reset" /\ proof[k].status # "none"
  /\ Proceed(c, [op |-> "reset_account", id |-> k])
  /\ UNCHANGED <<published, challengeVars, accountVars>>

\* GetActiveIdentifierTx, and the unique index that decides between two
\* transactions that both found nobody.
Vacant(i) == ActiveHolders(i) = {}

\* InsertUserTx, InsertIdentifierTx and InsertPasswordCredentialTx
InsertAccount(u, i, pw) ==
  /\ holder' = [holder EXCEPT ![i] = @ \cup {u}]
  /\ password' = [password EXCEPT ![u] = pw]

\* CompleteSignup's transaction: consume the proof, insert the account, or
\* roll back and leave the proof as it was.
CreateAccount(c, u, next) ==
  LET k == call[c].id
      i == challenge[k].ident
  IN
  /\ call[c].op = "create_account"
  /\ u \notin UNION {holder[j] : j \in Idents}
  /\ IF Redeemable(proof[k]) /\ Vacant(i)
       THEN /\ proof' = [proof EXCEPT ![k] = [status |-> "consumed", user |-> u]]
            /\ InsertAccount(u, i, call[c].password)
            /\ Proceed(c, next)
       ELSE Return(c) /\ UNCHANGED <<proof, holder, password>>
  /\ UNCHANGED <<published, issuance, challenge, material, received>>

\* CompletePasswordReset's transaction, but for the sessions it revokes.
ResetPassword(c) ==
  LET k == call[c].id IN
  /\ Redeemable(proof[k])
  /\ password[proof[k].user] < MaxPassword
  /\ proof' = [proof EXCEPT ![k].status = "consumed"]
  /\ password' = [password EXCEPT ![proof[k].user] = @ + 1]
  /\ published' = published \cup {<<"password_reset_completed", k>>}
  /\ UNCHANGED <<issuance, challenge, material, received, holder>>

ChallengesNext(c) ==
  \/ \E i \in Idents : StartSignupVerification(c, i) \/ StartPasswordReset(c, i)
  \/ SignupLookup(c) \/ ResetLookup(c)
  \/ IncrementFailedAttempt(c) \/ ConsumeChallenge(c) \/ IssueSignupProof(c) \/ IssueResetProof(c)
  \/ DeliverOpen(c)
  \/ \E k \in ChallengeIds :
       \/ IssueChallenge(c, k) \/ DeliverRead(c, k)
       \/ FinishSignupVerification(c, k) \/ VerifyPasswordReset(c, k)
       \/ CompleteSignup(c, k) \/ CompletePasswordReset(c, k)
=============================================================================
