--------------------------- MODULE AccountsProofs ---------------------------
(***************************************************************************)
(* Accounts, credentials and sessions, for any number of users, codes,     *)
(* passkeys, sessions and requests.                                        *)
(*                                                                         *)
(* The argument has two parts.  What a request knows of a code stays true, *)
(* because a consumed code stays consumed and a proof stays issued         *)
(* (ChallengeInv).  What a login or a change of passkeys has checked may   *)
(* become false, but then the step that made it so has ended the sessions  *)
(* of the user and overtaken the request (CredentialInv).                  *)
(***************************************************************************)
EXTENDS Accounts, TLAPS, FiniteSetTheorems

-----------------------------------------------------------------------------
(* Codes and proofs *)

ChallengeRow == [status : {"none", "open", "consumed", "expired"}, purpose : Purposes,
                 ident : Idents, failed : Nat]
ProofRow == [status : {"none", "open", "consumed"}, user : Users \cup {NoUser}]

ChallengesTypeOK ==
  /\ challenge \in [ChallengeIds -> ChallengeRow]
  /\ material \in [ChallengeIds -> {"none", "sealed", "destroyed"}]
  /\ proof \in [ChallengeIds -> ProofRow]
  /\ holder \in [Idents -> SUBSET Users]

\* What a request that works on a code knows of it.
Proved(f, chs, purpose) ==
  f.id \in ChallengeIds /\ chs[f.id].status = "consumed" /\ chs[f.id].purpose = purpose

ChallengeFrameOK(f, chs, got, prs) ==
  /\ f.op \in {"signup_lookup", "reset_lookup"} => f.ident \in Idents
  /\ f.op = "issue" => f.ident \in Idents /\ f.purpose \in Purposes
  /\ f.op \in {"consume", "fail"} => f.id \in ChallengeIds
  /\ f.op = "consume" => f.id \in got
  /\ f.op = "prove" => \E purpose \in Purposes : Proved(f, chs, purpose)
  /\ f.op = "create_account" => Proved(f, chs, "signup") /\ f.password \in {0, 1}
  /\ f.op = "reset_account" => Proved(f, chs, "reset") /\ prs[f.id].status # "none"

\* A code, its material, whether it was sent, and the proof it was exchanged for.
ChallengeOK(ch, mat, sent, pr, held) ==
  /\ ch.status = "consumed" => ch.failed < MaxAttempts /\ mat = "destroyed" /\ sent
  /\ pr.status # "none" => ch.status = "consumed"
  /\ ch.purpose = "signup" /\ pr.status = "consumed" => pr.user \in held[ch.ident]
  /\ ch.purpose = "reset" /\ pr.status # "none" => pr.user \in Users

ChallengeInv ==
  /\ ChallengesTypeOK
  /\ DOMAIN call = Clients
  /\ \A c \in Clients : ChallengeFrameOK(call[c], challenge, received, proof)
  /\ \A k \in ChallengeIds :
       ChallengeOK(challenge[k], material[k], k \in received, proof[k], holder)
  /\ \A i \in Idents : \A u, v \in holder[i] : u = v

-----------------------------------------------------------------------------
(* Credentials and sessions *)

Creds == ({"password"} \X Nat) \cup ({"passkey"} \X PasskeyIds)
Grants == {"none", "grant_login", "grant_signup", "grant_step_up"}
Olds == SessionIds \cup {NoSession}

SessionRow == [status : {"none", "live", "revoked"}, user : Users \cup {NoUser}, cred : Creds, late : BOOLEAN]
PasskeyRow == [status : {"none", "active", "revoked"}, user : Users \cup {NoUser}, count : Nat,
               by : {"none", "step_up", "bootstrap"}, first : BOOLEAN, raced : BOOLEAN, crossed : BOOLEAN]

CredentialsTypeOK ==
  /\ holder \in [Idents -> SUBSET Users]
  /\ password \in [Users -> Nat]
  /\ session \in [SessionIds -> SessionRow]
  /\ passkey \in [PasskeyIds -> PasskeyRow]

\* Users who hold an identifier: only they have credentials and sessions.
Known(held) == UNION {held[i] : i \in Idents}

LoginFrame == [op : {"rotate", "create_session"}, user : Users, cred : Creds, old : Olds,
               grant : Grants, late : BOOLEAN]
AssertFrame == [op : {"assert"}, passkey : PasskeyIds, old : Olds, grant : Grants]
UseFrame == [op : {"use"}, passkey : PasskeyIds, count : Nat, old : Olds, grant : Grants]
AddFrame == [op : {"register", "insert_passkey"}, session : SessionIds, user : Users,
             raced : BOOLEAN, by : {"step_up", "bootstrap"}]
RemoveFrame == [op : {"remove"}, session : SessionIds, passkey : PasskeyIds, user : Users, raced : BOOLEAN]

ActiveOf(u, pks) == {p \in PasskeyIds : pks[p].status = "active" /\ pks[p].user = u}

\* A credential of the user that still is one.
Current(u, cred, pws, pks) ==
  IF cred[1] = "password" THEN pws[u] = cred[2] ELSE cred[2] \in ActiveOf(u, pks)

\* What a request has checked still holds, or it has been overtaken.
LoginFrameOK(f, held, pws, pks) ==
  f.op \in {"rotate", "create_session"} =>
    /\ f \in LoginFrame /\ f.user \in Known(held)
    /\ f.late \/ Current(f.user, f.cred, pws, pks)

PasskeyFrameOK(f, held, pws, pks) ==
  /\ f.op = "assert" => f \in AssertFrame
  /\ f.op = "use" => f \in UseFrame
  /\ f.op \in {"register", "insert_passkey"} =>
       /\ f \in AddFrame /\ f.user \in Known(held)
       /\ f.by = "bootstrap" => f.raced \/ ActiveOf(f.user, pks) = {}
  /\ f.op = "remove" =>
       /\ f \in RemoveFrame /\ f.user \in Known(held)
       /\ pks[f.passkey].user = f.user
       /\ f.raced \/ ActiveOf(f.user, pks) \ {f.passkey} # {} \/ pws[f.user] > 0

CredentialFrameOK(f, held, pws, pks) == LoginFrameOK(f, held, pws, pks) /\ PasskeyFrameOK(f, held, pws, pks)

SessionOK(row, held, pws, pks) ==
  /\ row.status # "none" => row.user \in Known(held)
  /\ row.status = "live" => row.late \/ Current(row.user, row.cred, pws, pks)

PasskeyOK(row, held) ==
  /\ row.status = "none" => row = NoPasskey
  /\ row.status # "none" => row.user \in Known(held)
  /\ row.by = "bootstrap" /\ ~row.first => row.raced

\* A user who has lost the last way in.
LockedOut(u, pws, pks) ==
  /\ \E p \in PasskeyIds : pks[p].user = u
  /\ ActiveOf(u, pks) = {}
  /\ pws[u] = 0

CredentialInv ==
  /\ CredentialsTypeOK
  /\ DOMAIN call = Clients
  /\ \A c \in Clients : CredentialFrameOK(call[c], holder, password, passkey)
  /\ \A s \in SessionIds : SessionOK(session[s], holder, password, passkey)
  /\ \A p \in PasskeyIds : PasskeyOK(passkey[p], holder)
  /\ \A u \in Users : LockedOut(u, password, passkey) =>
       \E p \in PasskeyIds : passkey[p].user = u /\ passkey[p].crossed

AccountsInv == ChallengeInv /\ CredentialInv

-----------------------------------------------------------------------------
(* General facts *)

\* A set whose members are all equal has at most one.
LEMMA AtMostOne ==
  ASSUME NEW S, \A x, y \in S : x = y
  PROVE  Cardinality(S) <= 1
<1>1. CASE S = {}
  BY <1>1, FS_EmptySet
<1>2. CASE S # {}
  <2>1. PICK x \in S : TRUE
    BY <1>2
  <2>2. S = {x}
    BY <2>1
  <2> QED
    BY <2>2, FS_Singleton
<1> QED
  BY <1>1, <1>2

\* Operations whose frames say nothing about codes, or about credentials.
ChallengeOps == {"signup_lookup", "reset_lookup", "issue", "consume", "fail", "prove",
                 "create_account", "reset_account"}
CredentialOps == {"rotate", "create_session", "assert", "use", "register", "insert_passkey", "remove"}

LEMMA OtherFrames ==
  /\ \A f, chs, got, prs : f.op \notin ChallengeOps => ChallengeFrameOK(f, chs, got, prs)
  /\ \A f, held, pws, pks : f.op \notin CredentialOps => CredentialFrameOK(f, held, pws, pks)
BY DEF ChallengeOps, CredentialOps, ChallengeFrameOK, CredentialFrameOK, LoginFrameOK, PasskeyFrameOK

-----------------------------------------------------------------------------
(* Codes and proofs: what keeps the invariant *)

\* A consumed code stays so, a proof stays issued, and a code stays sent.
ChallengesAdvance ==
  /\ \A k \in ChallengeIds : challenge[k].status = "consumed" =>
       challenge'[k].status = "consumed" /\ challenge'[k].purpose = challenge[k].purpose
  /\ \A k \in ChallengeIds : proof[k].status # "none" => proof'[k].status # "none"
  /\ received \subseteq received'

LEMMA ChallengeFrames ==
  ASSUME ChallengeInv, ChallengesAdvance, DOMAIN call' = Clients,
         \A c \in Clients : \/ call'[c] = call[c]
                            \/ ChallengeFrameOK(call'[c], challenge', received', proof')
  PROVE  \A c \in Clients : ChallengeFrameOK(call'[c], challenge', received', proof')
<1> SUFFICES ASSUME NEW c \in Clients, call'[c] = call[c]
             PROVE  ChallengeFrameOK(call[c], challenge', received', proof')
  OBVIOUS
<1>1. ChallengeFrameOK(call[c], challenge, received, proof)
  BY DEF ChallengeInv
<1> QED
  BY <1>1 DEF ChallengeFrameOK, Proved, ChallengesAdvance

\* A step that changes no code, proof or holder.
LEMMA ChallengesStay ==
  ASSUME ChallengeInv, UNCHANGED <<challenge, material, received, proof, holder>>, DOMAIN call' = Clients,
         \A c \in Clients : \/ call'[c] = call[c]
                            \/ ChallengeFrameOK(call'[c], challenge, received, proof)
  PROVE  ChallengeInv'
<1>1. \A c \in Clients : ChallengeFrameOK(call'[c], challenge', received', proof')
  BY ChallengeFrames DEF ChallengesAdvance
<1> QED
  BY <1>1 DEF ChallengeInv, ChallengesTypeOK

\* A step that changes one code, or its proof.
LEMMA OneChallenge ==
  ASSUME ChallengeInv, ChallengesTypeOK', ChallengesAdvance, NEW k \in ChallengeIds,
         \A j \in ChallengeIds \ {k} : /\ challenge'[j] = challenge[j] /\ material'[j] = material[j]
                                       /\ proof'[j] = proof[j],
         \A i \in Idents : holder[i] \subseteq holder'[i],
         \A i \in Idents : \A u, v \in holder'[i] : u = v,
         ChallengeOK(challenge'[k], material'[k], k \in received', proof'[k], holder'),
         NEW c \in Clients, NEW f, call' = [call EXCEPT ![c] = f],
         ChallengeFrameOK(f, challenge', received', proof')
  PROVE  ChallengeInv'
<1>1. DOMAIN call' = Clients /\ \A d \in Clients : ChallengeFrameOK(call'[d], challenge', received', proof')
  BY ChallengeFrames DEF ChallengeInv
<1>2. ASSUME NEW j \in ChallengeIds \ {k}
      PROVE  ChallengeOK(challenge'[j], material'[j], j \in received', proof'[j], holder')
  <2>1. ChallengeOK(challenge[j], material[j], j \in received, proof[j], holder)
    BY DEF ChallengeInv
  <2>2. challenge[j].ident \in Idents
    BY DEF ChallengeInv, ChallengesTypeOK, ChallengeRow
  <2> QED
    BY <2>1, <2>2 DEF ChallengeOK, ChallengesAdvance
<1> QED
  BY <1>1, <1>2 DEF ChallengeInv

LEMMA IssueChallengeStep ==
  ASSUME ChallengeInv, NEW c \in Clients, NEW k \in ChallengeIds, IssueChallenge(c, k)
  PROVE  ChallengeInv'
<1> DEFINE new == NewChallenge(call[c].purpose, call[c].ident)
<1>1. /\ challenge[k] = NoChallenge
      /\ challenge' = [challenge EXCEPT ![k] = new]
      /\ material' = [material EXCEPT ![k] = "sealed"]
      /\ call' = [call EXCEPT ![c] = Idle]
      /\ UNCHANGED <<received, proof, holder>>
  BY DEF IssueChallenge, NewID, Return
<1>2. new \in ChallengeRow /\ new.status = "open"
  BY DEF IssueChallenge, ChallengeInv, ChallengeFrameOK, NewChallenge, ChallengeRow
<1>3. proof[k].status = "none"
  BY <1>1 DEF ChallengeInv, ChallengeOK, NoChallenge
<1> HIDE DEF new
<1>4. ChallengesTypeOK'
  BY <1>1, <1>2 DEF ChallengeInv, ChallengesTypeOK
<1>5. ChallengesAdvance
  BY <1>1, <1>2 DEF ChallengesAdvance, ChallengeInv, ChallengesTypeOK, NoChallenge
<1>6. ChallengeOK(challenge'[k], material'[k], k \in received', proof'[k], holder')
  BY <1>1, <1>2, <1>3 DEF ChallengeOK, ChallengeInv, ChallengesTypeOK
<1>7. ChallengeFrameOK(Idle, challenge', received', proof')
  BY OtherFrames DEF Idle, ChallengeOps
<1> QED
  BY <1>1, <1>4, <1>5, <1>6, <1>7, OneChallenge DEF ChallengeInv, ChallengesTypeOK

LEMMA DeliverReadStep ==
  ASSUME ChallengeInv, NEW c \in Clients, NEW k \in ChallengeIds, DeliverRead(c, k)
  PROVE  ChallengeInv'
<1>1. CASE Usable(challenge[k])
  <2> DEFINE f == [op |-> "open_material", id |-> k]
  <2>1. call' = [call EXCEPT ![c] = f] /\ UNCHANGED <<challenge, material, received, proof, holder>>
    BY <1>1 DEF DeliverRead, Proceed
  <2>2. ChallengeFrameOK(f, challenge, received, proof)
    BY OtherFrames DEF ChallengeOps
  <2> QED
    BY <2>1, <2>2, ChallengesStay DEF ChallengeInv
<1>2. CASE ~ Usable(challenge[k])
  <2>1. /\ material' = [material EXCEPT ![k] = "destroyed"]
        /\ UNCHANGED <<call, challenge, received, proof, holder>>
    BY <1>2 DEF DeliverRead
  <2>2. ChallengesTypeOK'
    BY <2>1 DEF ChallengeInv, ChallengesTypeOK
  <2>3. (\A j \in ChallengeIds :
          ChallengeOK(challenge[j], material[j], j \in received, proof[j], holder))'
    BY <2>1 DEF ChallengeInv, ChallengesTypeOK, ChallengeOK
  <2> QED
    BY <2>1, <2>2, <2>3 DEF ChallengeInv
<1> QED
  BY <1>1, <1>2

LEMMA DeliverOpenStep ==
  ASSUME ChallengeInv, NEW c \in Clients, DeliverOpen(c)
  PROVE  ChallengeInv'
<1>1. /\ received \subseteq received' /\ call' = [call EXCEPT ![c] = Idle]
      /\ UNCHANGED <<challenge, material, proof, holder>>
  BY DEF DeliverOpen, Return
<1>2. \A d \in Clients : ChallengeFrameOK(call'[d], challenge', received', proof')
  <2>1. ChallengeFrameOK(Idle, challenge', received', proof')
    BY OtherFrames DEF Idle, ChallengeOps
  <2> QED
    BY <1>1, <2>1, ChallengeFrames DEF ChallengesAdvance, ChallengeInv
<1>3. (\A j \in ChallengeIds :
        ChallengeOK(challenge[j], material[j], j \in received, proof[j], holder))'
  BY <1>1 DEF ChallengeInv, ChallengeOK
<1> QED
  BY <1>1, <1>2, <1>3 DEF ChallengeInv, ChallengesTypeOK

LEMMA IncrementFailedAttemptStep ==
  ASSUME ChallengeInv, NEW c \in Clients, IncrementFailedAttempt(c)
  PROVE  ChallengeInv'
<1> DEFINE k == call[c].id
<1>1. k \in ChallengeIds /\ challenge[k] \in ChallengeRow
  BY DEF IncrementFailedAttempt, ChallengeInv, ChallengeFrameOK, ChallengesTypeOK
<1>2. call' = [call EXCEPT ![c] = Idle] /\ UNCHANGED <<material, received, proof, holder>>
  BY DEF IncrementFailedAttempt, Return
<1>3. ChallengeFrameOK(Idle, challenge', received', proof')
  BY OtherFrames DEF Idle, ChallengeOps
<1>4. CASE UNCHANGED challenge
  BY <1>2, <1>3, <1>4, ChallengesStay DEF ChallengeInv
<1>5. CASE Usable(challenge[k])
  <2> DEFINE new == [challenge[k] EXCEPT !.failed = @ + 1]
  <2>1. challenge' = [challenge EXCEPT ![k] = new]
    BY <1>5 DEF IncrementFailedAttempt
  <2>2. new \in ChallengeRow /\ new.status = "open" /\ new.purpose = challenge[k].purpose
    BY <1>1, <1>5 DEF Usable, ChallengeRow
  <2>3. proof[k].status = "none"
    BY <1>1, <1>5 DEF Usable, ChallengeInv, ChallengeOK
  <2> HIDE DEF new
  <2>4. ChallengesTypeOK'
    BY <1>1, <1>2, <2>1, <2>2 DEF ChallengeInv, ChallengesTypeOK
  <2>5. ChallengesAdvance
    BY <1>1, <1>2, <1>5, <2>1, <2>2 DEF ChallengesAdvance, ChallengeInv, ChallengesTypeOK, Usable
  <2>6. ChallengeOK(challenge'[k], material'[k], k \in received', proof'[k], holder')
    BY <1>1, <1>2, <2>1, <2>2, <2>3 DEF ChallengeOK, ChallengeInv, ChallengesTypeOK
  <2> QED
    BY <1>1, <1>2, <1>3, <2>1, <2>4, <2>5, <2>6, OneChallenge DEF ChallengeInv, ChallengesTypeOK
<1> QED
  BY <1>4, <1>5 DEF IncrementFailedAttempt

LEMMA ConsumeChallengeStep ==
  ASSUME ChallengeInv, NEW c \in Clients, ConsumeChallenge(c)
  PROVE  ChallengeInv'
<1> DEFINE k == call[c].id
<1>1. k \in ChallengeIds /\ k \in received /\ challenge[k] \in ChallengeRow
  BY DEF ConsumeChallenge, ChallengeInv, ChallengeFrameOK, ChallengesTypeOK
<1>2. UNCHANGED <<received, proof, holder>>
  BY DEF ConsumeChallenge
<1>3. CASE ~ Usable(challenge[k])
  <2>1. ChallengeFrameOK(Idle, challenge, received, proof)
    BY OtherFrames DEF Idle, ChallengeOps
  <2> QED
    BY <1>2, <1>3, <2>1, ChallengesStay DEF ChallengeInv, ConsumeChallenge, Return
<1>4. CASE Usable(challenge[k])
  <2> DEFINE new == [challenge[k] EXCEPT !.status = "consumed"]
             f == [op |-> "prove", id |-> k]
  <2>1. /\ challenge' = [challenge EXCEPT ![k] = new]
        /\ material' = [material EXCEPT ![k] = "destroyed"]
        /\ call' = [call EXCEPT ![c] = f]
    BY <1>4 DEF ConsumeChallenge, Proceed
  <2>2. /\ new \in ChallengeRow /\ new.status = "consumed" /\ new.purpose = challenge[k].purpose
        /\ new.failed < MaxAttempts
    BY <1>1, <1>4 DEF Usable, ChallengeRow
  <2>3. proof[k].status = "none"
    BY <1>1, <1>4 DEF Usable, ChallengeInv, ChallengeOK
  <2> HIDE DEF new
  <2>4. ChallengesTypeOK'
    BY <1>1, <1>2, <2>1, <2>2 DEF ChallengeInv, ChallengesTypeOK
  <2>5. ChallengesAdvance
    BY <1>1, <1>2, <2>1, <2>2 DEF ChallengesAdvance, ChallengeInv, ChallengesTypeOK
  <2>6. challenge'[k] = new /\ material'[k] = "destroyed"
    BY <1>1, <2>1 DEF ChallengeInv, ChallengesTypeOK
  <2>7. ChallengeOK(challenge'[k], material'[k], k \in received', proof'[k], holder')
    BY <1>1, <1>2, <2>2, <2>3, <2>6 DEF ChallengeOK
  <2>8. ChallengeFrameOK(f, challenge', received', proof')
    BY <1>1, <2>2, <2>6 DEF ChallengeFrameOK, Proved, ChallengeRow
  <2> QED
    BY <1>1, <1>2, <2>1, <2>4, <2>5, <2>7, <2>8, OneChallenge DEF ChallengeInv, ChallengesTypeOK
<1> QED
  BY <1>3, <1>4

\* A proof that a step issues, spends or renews, for a consumed code.
LEMMA ProofStep ==
  ASSUME ChallengeInv, NEW c \in Clients, NEW k \in ChallengeIds, NEW pr \in ProofRow,
         proof' = [proof EXCEPT ![k] = pr], UNCHANGED <<challenge, material, received>>,
         challenge[k].status = "consumed", pr.status # "none",
         holder' \in [Idents -> SUBSET Users],
         \A i \in Idents : holder[i] \subseteq holder'[i],
         \A i \in Idents : \A u, v \in holder'[i] : u = v,
         challenge[k].purpose = "signup" /\ pr.status = "consumed" => pr.user \in holder'[challenge[k].ident],
         challenge[k].purpose = "reset" => pr.user \in Users,
         DOMAIN call' = Clients,
         \A d \in Clients : \/ call'[d] = call[d]
                            \/ ChallengeFrameOK(call'[d], challenge', received', proof')
  PROVE  ChallengeInv'
<1>1. ChallengesTypeOK'
  BY DEF ChallengeInv, ChallengesTypeOK
<1>2. ChallengesAdvance
  BY DEF ChallengesAdvance, ChallengeInv, ChallengesTypeOK
<1>3. \A d \in Clients : ChallengeFrameOK(call'[d], challenge', received', proof')
  BY <1>2, ChallengeFrames
<1>4. proof'[k] = pr /\ \A j \in ChallengeIds \ {k} : proof'[j] = proof[j]
  BY DEF ChallengeInv, ChallengesTypeOK
<1>5. ASSUME NEW j \in ChallengeIds
      PROVE  ChallengeOK(challenge'[j], material'[j], j \in received', proof'[j], holder')
  <2>1. ChallengeOK(challenge[j], material[j], j \in received, proof[j], holder)
    BY DEF ChallengeInv
  <2>2. challenge[j].ident \in Idents
    BY DEF ChallengeInv, ChallengesTypeOK, ChallengeRow
  <2>3. CASE j # k
    BY <1>4, <2>1, <2>2, <2>3 DEF ChallengeOK
  <2>4. CASE j = k
    BY <1>4, <2>1, <2>4 DEF ChallengeOK
  <2> QED
    BY <2>3, <2>4
<1> QED
  BY <1>1, <1>3, <1>5 DEF ChallengeInv

LEMMA IssueSignupProofStep ==
  ASSUME ChallengeInv, NEW c \in Clients, IssueSignupProof(c)
  PROVE  ChallengeInv'
<1> DEFINE k == call[c].id
           pr == [proof[k] EXCEPT !.status = "open"]
<1>1. k \in ChallengeIds /\ challenge[k].status = "consumed" /\ challenge[k].purpose = "signup"
  BY DEF IssueSignupProof, ChallengeInv, ChallengeFrameOK, Proved
<1>2. pr \in ProofRow /\ pr.status = "open"
  BY <1>1 DEF ChallengeInv, ChallengesTypeOK, ProofRow
<1>3. proof' = [proof EXCEPT ![k] = pr] /\ call' = [call EXCEPT ![c] = Idle]
  BY DEF IssueSignupProof, Return
<1>4. UNCHANGED <<challenge, material, received, holder>>
  BY DEF IssueSignupProof
<1>5. ChallengeFrameOK(Idle, challenge', received', proof')
  BY OtherFrames DEF Idle, ChallengeOps
<1> HIDE DEF pr
<1> QED
  BY <1>1, <1>2, <1>3, <1>4, <1>5, ProofStep DEF ChallengeInv, ChallengesTypeOK

LEMMA IssueResetProofStep ==
  ASSUME ChallengeInv, NEW c \in Clients, IssueResetProof(c)
  PROVE  ChallengeInv'
<1> DEFINE k == call[c].id
<1>1. k \in ChallengeIds /\ challenge[k].status = "consumed" /\ challenge[k].purpose = "reset"
  BY DEF IssueResetProof, ChallengeInv, ChallengeFrameOK, Proved
<1>2. PICK u \in holder[challenge[k].ident] : proof' = [proof EXCEPT ![k] = [status |-> "open", user |-> u]]
  BY DEF IssueResetProof, ActiveHolders
<1>3. u \in Users
  BY <1>1 DEF ChallengeInv, ChallengesTypeOK, ChallengeRow
<1>4. [status |-> "open", user |-> u] \in ProofRow
  BY <1>3 DEF ProofRow
<1>5. UNCHANGED <<challenge, material, received, holder>> /\ call' = [call EXCEPT ![c] = Idle]
  BY DEF IssueResetProof, Return
<1>6. ChallengeFrameOK(Idle, challenge', received', proof')
  BY OtherFrames DEF Idle, ChallengeOps
<1> DEFINE pr == [status |-> "open", user |-> u]
<1>7. pr.status = "open" /\ pr.user = u
  OBVIOUS
<1> HIDE DEF pr
<1> QED
  BY <1>1, <1>2, <1>3, <1>4, <1>5, <1>6, <1>7, ProofStep DEF pr, ChallengeInv, ChallengesTypeOK

LEMMA ChallengeExpiresStep ==
  ASSUME ChallengeInv, NEW k \in ChallengeIds, ChallengeExpires(k)
  PROVE  ChallengeInv'
<1> DEFINE new == [challenge[k] EXCEPT !.status = "expired"]
<1>1. /\ challenge[k].status = "open" /\ challenge' = [challenge EXCEPT ![k] = new]
      /\ UNCHANGED <<call, material, received, proof, holder>>
  BY DEF ChallengeExpires
<1>2. new \in ChallengeRow /\ new.status = "expired" /\ new.purpose = challenge[k].purpose
  BY DEF ChallengeInv, ChallengesTypeOK, ChallengeRow
<1> HIDE DEF new
<1>3. ChallengesTypeOK'
  BY <1>1, <1>2 DEF ChallengeInv, ChallengesTypeOK
<1>4. ChallengesAdvance
  BY <1>1, <1>2 DEF ChallengesAdvance, ChallengeInv, ChallengesTypeOK
<1>5. \A d \in Clients : ChallengeFrameOK(call'[d], challenge', received', proof')
  BY <1>1, <1>4, ChallengeFrames DEF ChallengeInv
<1>6. challenge'[k] = new /\ \A j \in ChallengeIds \ {k} : challenge'[j] = challenge[j]
  BY <1>1 DEF ChallengeInv, ChallengesTypeOK
<1>7. (\A j \in ChallengeIds :
        ChallengeOK(challenge[j], material[j], j \in received, proof[j], holder))'
  BY <1>1, <1>2, <1>6 DEF ChallengeInv, ChallengeOK
<1> QED
  BY <1>1, <1>3, <1>5, <1>7 DEF ChallengeInv

\* The requests that only look, or ask for a code.
Looks(c) ==
  \/ \E i \in Idents : StartSignupVerification(c, i) \/ StartPasswordReset(c, i)
  \/ SignupLookup(c) \/ ResetLookup(c)
  \/ \E k \in ChallengeIds :
       \/ FinishSignupVerification(c, k) \/ VerifyPasswordReset(c, k)
       \/ CompleteSignup(c, k) \/ CompletePasswordReset(c, k)

LEMMA LooksStep ==
  ASSUME ChallengeInv, NEW c \in Clients, Looks(c)
  PROVE  ChallengeInv'
<1>1. UNCHANGED <<challenge, material, received, proof, holder>>
  BY DEF Looks, StartSignupVerification, StartPasswordReset, SignupLookup, ResetLookup,
         FinishSignupVerification, VerifyPasswordReset, SubmitCode, CompleteSignup,
         CompletePasswordReset, challengeVars, accountVars
<1>2. PICK f : call' = [call EXCEPT ![c] = f] /\ ChallengeFrameOK(f, challenge, received, proof)
  <2>1. ASSUME NEW i \in Idents, StartSignupVerification(c, i) \/ StartPasswordReset(c, i)
        PROVE  \E f : call' = [call EXCEPT ![c] = f] /\ ChallengeFrameOK(f, challenge, received, proof)
    <3>1. PICK op \in {"signup_lookup", "reset_lookup"} :
            call' = [call EXCEPT ![c] = [op |-> op, ident |-> i]]
      BY <2>1 DEF StartSignupVerification, StartPasswordReset, Proceed
    <3>2. ChallengeFrameOK([op |-> op, ident |-> i], challenge, received, proof)
      BY DEF ChallengeFrameOK
    <3> QED
      BY <3>1, <3>2
  <2>2. ASSUME SignupLookup(c) \/ ResetLookup(c)
        PROVE  \E f : call' = [call EXCEPT ![c] = f] /\ ChallengeFrameOK(f, challenge, received, proof)
    <3>1. call[c].ident \in Idents
      BY <2>2 DEF SignupLookup, ResetLookup, ChallengeInv, ChallengeFrameOK
    <3>2. ChallengeFrameOK(Idle, challenge, received, proof)
      BY OtherFrames DEF Idle, ChallengeOps
    <3> QED
      BY <2>2, <3>1, <3>2 DEF SignupLookup, ResetLookup, Proceed, Return, ChallengeFrameOK, Purposes
  <2>3. ASSUME NEW k \in ChallengeIds, FinishSignupVerification(c, k) \/ VerifyPasswordReset(c, k)
        PROVE  \E f : call' = [call EXCEPT ![c] = f] /\ ChallengeFrameOK(f, challenge, received, proof)
    <3>1. PICK right \in BOOLEAN :
            /\ right => k \in received
            /\ call' = [call EXCEPT ![c] = [op |-> IF right THEN "consume" ELSE "fail", id |-> k]]
      BY <2>3 DEF FinishSignupVerification, VerifyPasswordReset, SubmitCode, Proceed
    <3>2. ChallengeFrameOK([op |-> IF right THEN "consume" ELSE "fail", id |-> k], challenge, received, proof)
      BY <3>1 DEF ChallengeFrameOK
    <3> QED
      BY <3>1, <3>2
  <2>4. ASSUME NEW k \in ChallengeIds, CompleteSignup(c, k) \/ CompletePasswordReset(c, k)
        PROVE  \E f : call' = [call EXCEPT ![c] = f] /\ ChallengeFrameOK(f, challenge, received, proof)
    <3>1. challenge[k].status = "consumed"
      BY <2>4 DEF CompleteSignup, CompletePasswordReset, ChallengeInv, ChallengeOK
    <3>2. CASE CompleteSignup(c, k)
      <4>1. PICK pw \in {0, 1} :
              call' = [call EXCEPT ![c] = [op |-> "create_account", id |-> k, password |-> pw]]
        BY <3>2 DEF CompleteSignup, Proceed
      <4>2. ChallengeFrameOK([op |-> "create_account", id |-> k, password |-> pw], challenge, received, proof)
        BY <3>1, <3>2 DEF CompleteSignup, ChallengeFrameOK, Proved
      <4> QED
        BY <4>1, <4>2
    <3>3. CASE CompletePasswordReset(c, k)
      <4> DEFINE f == [op |-> "reset_account", id |-> k]
      <4>1. call' = [call EXCEPT ![c] = f]
        BY <3>3 DEF CompletePasswordReset, Proceed
      <4>2. ChallengeFrameOK(f, challenge, received, proof)
        BY <3>1, <3>3 DEF CompletePasswordReset, ChallengeFrameOK, Proved
      <4> QED
        BY <4>1, <4>2
    <3> QED
      BY <2>4, <3>2, <3>3
  <2> QED
    BY <2>1, <2>2, <2>3, <2>4 DEF Looks
<1> QED
  BY <1>1, <1>2, ChallengesStay DEF ChallengeInv

LEMMA ChallengesNextStep ==
  ASSUME ChallengeInv, NEW c \in Clients, ChallengesNext(c)
  PROVE  ChallengeInv'
BY LooksStep, IncrementFailedAttemptStep, ConsumeChallengeStep, IssueSignupProofStep,
   IssueResetProofStep, DeliverOpenStep, IssueChallengeStep, DeliverReadStep
   DEF ChallengesNext, Looks

-----------------------------------------------------------------------------
(* Credentials and sessions: what keeps the invariant *)

LEMMA KnownUsers ==
  ASSUME CredentialInv
  PROVE  /\ Known(holder) \subseteq Users
         /\ \A s \in SessionIds : session[s].status # "none" => session[s].user \in Known(holder)
         /\ \A p \in PasskeyIds : passkey[p].status # "none" => passkey[p].user \in Known(holder)
         /\ \A p \in PasskeyIds : passkey[p].user \in Users => passkey[p].status # "none"
BY ChallengesAssumption DEF CredentialInv, CredentialsTypeOK, Known, SessionOK, PasskeyOK, NoPasskey

\* The credentials of a user are those there were.
KeptFor(u) == password'[u] = password[u] /\ ActiveOf(u, passkey') = ActiveOf(u, passkey)

\* A passkey keeps its user.
OwnersKept == \A p \in PasskeyIds : passkey[p].status # "none" => passkey'[p].user = passkey[p].user

HoldersKept == \A i \in Idents : holder[i] \subseteq holder'[i]

LEMMA FrameKept ==
  ASSUME CredentialInv, HoldersKept, OwnersKept, NEW c \in Clients,
         call[c].op \in CredentialOps \ {"assert", "use"} => KeptFor(call[c].user)
  PROVE  CredentialFrameOK(call[c], holder', password', passkey')
<1> DEFINE f == call[c]
<1>1. CredentialFrameOK(f, holder, password, passkey)
  BY DEF CredentialInv
<1>2. Known(holder) \subseteq Known(holder')
  BY DEF Known, HoldersKept
<1>3. LoginFrameOK(f, holder', password', passkey')
  BY <1>1, <1>2 DEF CredentialFrameOK, LoginFrameOK, Current, KeptFor, CredentialOps
<1>4. PasskeyFrameOK(f, holder', password', passkey')
  <2>1. PasskeyFrameOK(f, holder, password, passkey)
    BY <1>1 DEF CredentialFrameOK
  <2>2. f.op = "remove" => passkey'[f.passkey].user = f.user
    <3>1. f.op = "remove" => f.passkey \in PasskeyIds /\ f.user \in Users /\ passkey[f.passkey].user = f.user
      BY <2>1 DEF PasskeyFrameOK, RemoveFrame
    <3> QED
      BY <3>1, KnownUsers DEF OwnersKept
  <2> QED
    BY <1>2, <2>1, <2>2 DEF PasskeyFrameOK, KeptFor, CredentialOps
<1> QED
  BY <1>3, <1>4 DEF CredentialFrameOK

LEMMA SessionKept ==
  ASSUME CredentialInv, HoldersKept, NEW s \in SessionIds,
         session[s].status = "live" => KeptFor(session[s].user)
  PROVE  SessionOK(session[s], holder', password', passkey')
<1>1. Known(holder) \subseteq Known(holder')
  BY DEF Known, HoldersKept
<1>2. SessionOK(session[s], holder, password, passkey)
  BY DEF CredentialInv
<1> QED
  BY <1>1, <1>2 DEF SessionOK, Current, KeptFor

\* A step that changes no password, passkey or holder.
LEMMA CredentialsStay ==
  ASSUME CredentialInv, UNCHANGED <<holder, password, passkey>>,
         session' \in [SessionIds -> SessionRow],
         \A s \in SessionIds : SessionOK(session'[s], holder, password, passkey),
         DOMAIN call' = Clients,
         \A c \in Clients : \/ call'[c] = call[c]
                            \/ CredentialFrameOK(call'[c], holder, password, passkey)
  PROVE  CredentialInv'
BY DEF CredentialInv, CredentialsTypeOK

\* Such a step of one request, when no session changes.
LEMMA CredentialsStayFor ==
  ASSUME CredentialInv, UNCHANGED <<holder, password, passkey, session>>, NEW c \in Clients,
         NEW f, call' = [call EXCEPT ![c] = f], CredentialFrameOK(f, holder, password, passkey)
  PROVE  CredentialInv'
BY CredentialsStay DEF CredentialInv, CredentialsTypeOK

LEMMA RevokedSessions ==
  ASSUME CredentialInv, NEW S, session' = Revoked(S)
  PROVE  /\ session' \in [SessionIds -> SessionRow]
         /\ \A s \in SessionIds : session'[s].user = session[s].user
                               /\ session'[s].status \in {session[s].status, "revoked"}
         /\ \A s \in SessionIds : session'[s].status = "live" => s \notin S /\ session'[s] = session[s]
         /\ \A s \in SessionIds : SessionOK(session'[s], holder, password, passkey)
<1>1. \A s \in SessionIds : session[s] \in SessionRow
  BY DEF CredentialInv, CredentialsTypeOK
<1>2. \A s \in SessionIds :
        /\ [session[s] EXCEPT !.status = "revoked"] \in SessionRow
        /\ [session[s] EXCEPT !.status = "revoked"].user = session[s].user
        /\ [session[s] EXCEPT !.status = "revoked"].status = "revoked"
  BY <1>1 DEF SessionRow
<1>3. \A s \in SessionIds : session'[s] = IF s \in S /\ Live(s) THEN [session[s] EXCEPT !.status = "revoked"]
                                                              ELSE session[s]
  BY DEF Revoked
<1>4. session' \in [SessionIds -> SessionRow]
  BY <1>1, <1>2 DEF Revoked
<1>5. \A s \in SessionIds : session'[s].user = session[s].user
                         /\ session'[s].status \in {session[s].status, "revoked"}
  BY <1>2, <1>3
<1>6. \A s \in SessionIds : session'[s].status = "live" => s \notin S /\ session'[s] = session[s]
  BY <1>2, <1>3 DEF Live
<1>7. \A s \in SessionIds : SessionOK(session'[s], holder, password, passkey)
  <2> SUFFICES ASSUME NEW s \in SessionIds
               PROVE  SessionOK(session'[s], holder, password, passkey)
    OBVIOUS
  <2>1. SessionOK(session[s], holder, password, passkey)
    BY DEF CredentialInv
  <2> QED
    BY <1>2, <1>3, <2>1 DEF SessionOK, Live
<1> QED
  BY <1>4, <1>5, <1>6, <1>7

\* Sessions end, and a request goes on to what has no credential in it.
LEMMA SessionsEnd ==
  ASSUME CredentialInv, NEW S, session' = Revoked(S), UNCHANGED <<holder, password, passkey>>,
         \/ UNCHANGED call
         \/ \E c \in Clients : \E f : /\ call' = [call EXCEPT ![c] = f]
                                     /\ CredentialFrameOK(f, holder, password, passkey)
  PROVE  CredentialInv'
<1>1. DOMAIN call' = Clients /\ \A c \in Clients : \/ call'[c] = call[c]
                                                  \/ CredentialFrameOK(call'[c], holder, password, passkey)
  BY DEF CredentialInv
<1> QED
  BY <1>1, RevokedSessions, CredentialsStay

\* What a step that overtakes the requests of a user does to them.
LEMMA OvertakenFrames ==
  ASSUME CredentialInv, HoldersKept, OwnersKept, NEW c \in Clients, NEW u, NEW frame,
         Overtake(c, u, frame), CredentialFrameOK(frame, holder', password', passkey'),
         \A v \in Users \ {u} : KeptFor(v)
  PROVE  /\ DOMAIN call' = Clients
         /\ \A d \in Clients : CredentialFrameOK(call'[d], holder', password', passkey')
<1>1. DOMAIN call' = Clients
  BY DEF Overtake
<1>2. ASSUME NEW d \in Clients
      PROVE  CredentialFrameOK(call'[d], holder', password', passkey')
  <2> DEFINE f == call[d]
  <2>1. CredentialFrameOK(f, holder, password, passkey)
    BY DEF CredentialInv
  <2>2. f.op \in CredentialOps \ {"assert", "use"} => f.user \in Users
    BY <2>1 DEF CredentialFrameOK, LoginFrameOK, PasskeyFrameOK, CredentialOps,
                LoginFrame, AddFrame, RemoveFrame
  <2>3. Known(holder) \subseteq Known(holder')
    BY DEF Known, HoldersKept
  <2>4. CASE d = c
    BY <2>4 DEF Overtake
  <2>5. CASE d # c /\ f.op \in {"rotate", "create_session"} /\ f.user = u
    <3>1. call'[d] = [f EXCEPT !.late = TRUE]
      BY <2>5 DEF Overtake
    <3>2. f \in LoginFrame /\ f.user \in Known(holder)
      BY <2>1, <2>5 DEF CredentialFrameOK, LoginFrameOK
    <3>3. call'[d] \in LoginFrame /\ call'[d].late /\ call'[d].user = f.user
      BY <3>1, <3>2 DEF LoginFrame
    <3>4. call'[d].op \in {"rotate", "create_session"}
      BY <3>3 DEF LoginFrame
    <3> QED
      BY <2>3, <3>2, <3>3, <3>4 DEF CredentialFrameOK, LoginFrameOK, PasskeyFrameOK
  <2>6. CASE d # c /\ f.op \in {"register", "insert_passkey"} /\ f.user = u
    <3>1. call'[d] = [f EXCEPT !.raced = TRUE]
      BY <2>6 DEF Overtake
    <3>2. f \in AddFrame /\ f.user \in Known(holder)
      BY <2>1, <2>6 DEF CredentialFrameOK, PasskeyFrameOK
    <3>3. call'[d] \in AddFrame /\ call'[d].raced /\ call'[d].user = f.user
      BY <3>1, <3>2 DEF AddFrame
    <3>4. call'[d].op \in {"register", "insert_passkey"}
      BY <3>3 DEF AddFrame
    <3> QED
      BY <2>3, <3>2, <3>3, <3>4 DEF CredentialFrameOK, LoginFrameOK, PasskeyFrameOK
  <2>7. CASE d # c /\ f.op = "remove" /\ f.user = u
    <3>1. call'[d] = [f EXCEPT !.raced = TRUE]
      BY <2>7 DEF Overtake
    <3>2. f \in RemoveFrame /\ f.user \in Known(holder) /\ passkey[f.passkey].user = f.user
      BY <2>1, <2>7 DEF CredentialFrameOK, PasskeyFrameOK
    <3>3. /\ call'[d] \in RemoveFrame /\ call'[d].raced /\ call'[d].user = f.user
          /\ call'[d].passkey = f.passkey
      BY <3>1, <3>2 DEF RemoveFrame
    <3>4. call'[d].op = "remove"
      BY <3>3 DEF RemoveFrame
    <3>5. passkey'[f.passkey].user = f.user
      BY <3>2, KnownUsers DEF OwnersKept, RemoveFrame
    <3> QED
      BY <2>3, <3>2, <3>3, <3>4, <3>5 DEF CredentialFrameOK, LoginFrameOK, PasskeyFrameOK
  <2>8. CASE d # c /\ ~ (f.op \in CredentialOps \ {"assert", "use"} /\ f.user = u)
    <3>1. call'[d] = f
      BY <2>8 DEF Overtake, CredentialOps
    <3> QED
      BY <2>2, <2>8, <3>1, FrameKept
  <2> QED
    BY <2>4, <2>5, <2>6, <2>7, <2>8 DEF CredentialOps
<1> QED
  BY <1>1, <1>2

\* A step that changes the credentials of one user.
LEMMA OneUser ==
  ASSUME CredentialInv, CredentialsTypeOK', HoldersKept, OwnersKept, NEW u,
         \A v \in Users \ {u} : KeptFor(v),
         \A p \in PasskeyIds : /\ passkey'[p].user \in {passkey[p].user, u}
                               /\ passkey[p].crossed => passkey'[p].crossed
                               /\ PasskeyOK(passkey'[p], holder'),
         DOMAIN call' = Clients,
         \A d \in Clients : CredentialFrameOK(call'[d], holder', password', passkey'),
         \A s \in SessionIds : SessionOK(session'[s], holder', password', passkey'),
         u \in Users /\ LockedOut(u, password', passkey') =>
           \E p \in PasskeyIds : passkey'[p].user = u /\ passkey'[p].crossed
  PROVE  CredentialInv'
<1>1. ASSUME NEW v \in Users \ {u}, LockedOut(v, password', passkey')
      PROVE  \E p \in PasskeyIds : passkey'[p].user = v /\ passkey'[p].crossed
  <2>1. LockedOut(v, password, passkey)
    BY <1>1 DEF LockedOut, KeptFor
  <2>2. PICK p \in PasskeyIds : passkey[p].user = v /\ passkey[p].crossed
    BY <2>1 DEF CredentialInv
  <2>3. passkey'[p].user = v
    BY <2>2, KnownUsers DEF OwnersKept
  <2> QED
    BY <2>2, <2>3
<1> QED
  BY <1>1 DEF CredentialInv

-----------------------------------------------------------------------------
(* The steps that touch no credential *)

\* The frame a request goes on with, when it is not about credentials.
GoesOn(c) ==
  \/ UNCHANGED call
  \/ \E f : call' = [call EXCEPT ![c] = f] /\ f.op \notin CredentialOps

LEMMA GoesOnStep ==
  ASSUME CredentialInv, NEW c \in Clients, GoesOn(c), UNCHANGED <<holder, password, passkey, session>>
  PROVE  CredentialInv'
BY OtherFrames, CredentialsStay DEF GoesOn, CredentialInv, CredentialsTypeOK

LEMMA ChallengeFramesGoOn ==
  ASSUME NEW c \in Clients, ChallengesNext(c)
  PROVE  GoesOn(c) /\ UNCHANGED <<holder, password>>
<1> USE DEF GoesOn, CredentialOps, Proceed, Return, Idle, challengeVars, accountVars
<1>1. ASSUME NEW i \in Idents, StartSignupVerification(c, i) \/ StartPasswordReset(c, i)
      PROVE  GoesOn(c) /\ UNCHANGED <<holder, password>>
  BY <1>1 DEF StartSignupVerification, StartPasswordReset
<1>2. ASSUME SignupLookup(c) \/ ResetLookup(c)
      PROVE  GoesOn(c) /\ UNCHANGED <<holder, password>>
  BY <1>2 DEF SignupLookup, ResetLookup
<1>3. ASSUME IncrementFailedAttempt(c) \/ ConsumeChallenge(c) \/ IssueSignupProof(c) \/ IssueResetProof(c)
               \/ DeliverOpen(c)
      PROVE  GoesOn(c) /\ UNCHANGED <<holder, password>>
  BY <1>3 DEF IncrementFailedAttempt, ConsumeChallenge, IssueSignupProof, IssueResetProof, DeliverOpen
<1>4. ASSUME NEW k \in ChallengeIds, IssueChallenge(c, k) \/ DeliverRead(c, k)
      PROVE  GoesOn(c) /\ UNCHANGED <<holder, password>>
  BY <1>4 DEF IssueChallenge, DeliverRead
<1>5. ASSUME NEW k \in ChallengeIds, FinishSignupVerification(c, k) \/ VerifyPasswordReset(c, k)
      PROVE  GoesOn(c) /\ UNCHANGED <<holder, password>>
  BY <1>5 DEF FinishSignupVerification, VerifyPasswordReset, SubmitCode
<1>6. ASSUME NEW k \in ChallengeIds, CompleteSignup(c, k) \/ CompletePasswordReset(c, k)
      PROVE  GoesOn(c) /\ UNCHANGED <<holder, password>>
  BY <1>6 DEF CompleteSignup, CompletePasswordReset
<1> HIDE DEF GoesOn
<1> QED
  BY <1>1, <1>2, <1>3, <1>4, <1>5, <1>6 DEF ChallengesNext

\* The steps of passkeys and sessions that only look or touch Valkey.
Quiet(c) ==
  \/ GrantLogin(c) \/ GrantPassword(c) \/ ConsumeBootstrap(c)
  \/ \E s \in SessionIds : PasswordReauth(c, s)

LEMMA QuietStep ==
  ASSUME CredentialInv, NEW c \in Clients, Quiet(c)
  PROVE  CredentialInv'
<1>1. GoesOn(c)
  BY DEF Quiet, GoesOn, GrantLogin, GrantPassword, ConsumeBootstrap, PasswordReauth, Proceed, Return,
         Idle, CredentialOps
<1>2. UNCHANGED <<holder, password, passkey, session>>
  BY DEF Quiet, GrantLogin, GrantPassword, ConsumeBootstrap, PasswordReauth, accountVars,
         passkeyVars, grantVars
<1> QED
  BY <1>1, <1>2, GoesOnStep

\* The steps that end sessions.
Ending(c) == GrantSignup(c) \/ GrantStepUp(c) \/ Retire(c)

LEMMA EndingStep ==
  ASSUME CredentialInv, NEW c \in Clients, Ending(c)
  PROVE  CredentialInv'
<1>1. GoesOn(c)
  BY DEF Ending, GoesOn, GrantSignup, GrantStepUp, Retire, Proceed, Return, Idle, CredentialOps
<1>2. UNCHANGED <<holder, password, passkey>>
  BY DEF Ending, GrantSignup, GrantStepUp, Retire, accountVars
<1>3. UNCHANGED session \/ \E S : session' = Revoked(S)
  BY DEF Ending, GrantSignup, GrantStepUp, Retire
<1> QED
  BY <1>1, <1>2, <1>3, GoesOnStep, SessionsEnd, OtherFrames DEF GoesOn

LEMMA BrowserStep ==
  ASSUME CredentialInv, BrowserNext
  PROVE  /\ CredentialInv' /\ UNCHANGED <<call, challengeVars, accountVars, passkey>>
<1>1. UNCHANGED <<call, challengeVars, accountVars, passkey>>
  BY DEF BrowserNext, BeginAuthentication, BeginStepUp, BeginRegistration, Begin, Logout,
         RevokeSession, RevokeOtherSessions, ElevationExpires
<1>2. UNCHANGED session \/ \E S : session' = Revoked(S)
  BY DEF BrowserNext, BeginAuthentication, BeginStepUp, BeginRegistration, Begin, Logout,
         RevokeSession, RevokeOtherSessions, ElevationExpires
<1>3. UNCHANGED <<holder, password, passkey>>
  BY <1>1 DEF accountVars
<1>4. CASE UNCHANGED session
  BY <1>1, <1>3, <1>4 DEF CredentialInv, CredentialsTypeOK
<1> QED
  BY <1>1, <1>2, <1>3, <1>4, SessionsEnd

-----------------------------------------------------------------------------
(* Logging in *)

LEMMA PasswordLoginStep ==
  ASSUME CredentialInv, NEW c \in Clients, NEW i \in Idents, NEW old \in Olds, PasswordLogin(c, i, old)
  PROVE  CredentialInv'
<1>1. PICK u \in holder[i] : call' = [call EXCEPT ![c] = NewLogin(u, <<"password", password[u]>>, old, "none")]
  BY DEF PasswordLogin, ActiveHolders, Proceed
<1>2. u \in Users /\ u \in Known(holder) /\ password[u] \in Nat
  BY DEF CredentialInv, CredentialsTypeOK, Known
<1> DEFINE f == NewLogin(u, <<"password", password[u]>>, old, "none")
<1>3. f \in LoginFrame /\ f.user = u /\ f.cred = <<"password", password[u]>>
  BY <1>2 DEF NewLogin, LoginFrame, Creds, Grants
<1>4. f.op = "rotate"
  BY DEF NewLogin
<1> HIDE DEF f
<1>5. CredentialFrameOK(f, holder, password, passkey)
  BY <1>2, <1>3, <1>4 DEF CredentialFrameOK, LoginFrameOK, PasskeyFrameOK, Current
<1>6. UNCHANGED <<holder, password, passkey, session>>
  BY DEF PasswordLogin, accountVars, passkeyVars
<1> QED
  BY <1>1, <1>5, <1>6, CredentialsStayFor DEF f

LEMMA RotatePredecessorStep ==
  ASSUME CredentialInv, NEW c \in Clients, RotatePredecessor(c)
  PROVE  CredentialInv'
<1> DEFINE f == [call[c] EXCEPT !.op = "create_session"]
<1>1. /\ call[c] \in LoginFrame /\ call[c].user \in Known(holder)
      /\ call[c].late \/ Current(call[c].user, call[c].cred, password, passkey)
  BY DEF RotatePredecessor, CredentialInv, CredentialFrameOK, LoginFrameOK
<1>2. /\ f \in LoginFrame /\ f.op = "create_session" /\ f.user = call[c].user
      /\ f.cred = call[c].cred /\ f.late = call[c].late
  BY <1>1 DEF LoginFrame
<1>3. call' = [call EXCEPT ![c] = f] /\ UNCHANGED <<holder, password, passkey>>
  BY DEF RotatePredecessor, Proceed, accountVars
<1> HIDE DEF f
<1>4. CredentialFrameOK(f, holder, password, passkey)
  BY <1>1, <1>2 DEF CredentialFrameOK, LoginFrameOK, PasskeyFrameOK
<1>5. UNCHANGED session \/ session' = Revoked({call[c].old})
  BY DEF RotatePredecessor
<1> QED
  BY <1>3, <1>4, <1>5, CredentialsStayFor, SessionsEnd

LEMMA CreateSessionStep ==
  ASSUME CredentialInv, NEW c \in Clients, NEW s \in SessionIds, CreateSession(c, s)
  PROVE  CredentialInv'
<1> DEFINE row == [status |-> "live", user |-> call[c].user, cred |-> call[c].cred, late |-> call[c].late]
<1>1. /\ call[c] \in LoginFrame /\ call[c].user \in Known(holder)
      /\ call[c].late \/ Current(call[c].user, call[c].cred, password, passkey)
  BY DEF CreateSession, CredentialInv, CredentialFrameOK, LoginFrameOK
<1>2. row \in SessionRow /\ SessionOK(row, holder, password, passkey)
  BY <1>1 DEF LoginFrame, SessionRow, SessionOK
<1>3. session' = [session EXCEPT ![s] = row] /\ UNCHANGED <<holder, password, passkey>>
  BY DEF CreateSession, accountVars
<1>4. PICK f : call' = [call EXCEPT ![c] = f] /\ f.op \notin CredentialOps
  <2>1. call[c].grant \in Grants
    BY <1>1 DEF LoginFrame
  <2>2. CASE call[c].grant = "none"
    BY <2>2 DEF CreateSession, Return, Idle, CredentialOps
  <2>3. CASE call[c].grant # "none"
    <3> DEFINE g == [op |-> call[c].grant, id |-> s, old |-> call[c].old]
    <3>1. call' = [call EXCEPT ![c] = g]
      BY <2>3 DEF CreateSession, Proceed
    <3>2. g.op \notin CredentialOps
      BY <2>1, <2>3 DEF Grants, CredentialOps
    <3> QED
      BY <3>1, <3>2
  <2> QED
    BY <2>2, <2>3
<1> HIDE DEF row
<1>5. CredentialFrameOK(f, holder, password, passkey)
  BY <1>4, OtherFrames
<1>6. session' \in [SessionIds -> SessionRow]
  BY <1>2, <1>3 DEF CredentialInv, CredentialsTypeOK
<1>7. \A t \in SessionIds : SessionOK(session'[t], holder, password, passkey)
  BY <1>2, <1>3 DEF CredentialInv, CredentialsTypeOK
<1>8. DOMAIN call' = Clients /\ \A d \in Clients : \/ call'[d] = call[d]
                                                  \/ CredentialFrameOK(call'[d], holder, password, passkey)
  BY <1>4, <1>5 DEF CredentialInv
<1> QED
  BY <1>3, <1>6, <1>7, <1>8, CredentialsStay

-----------------------------------------------------------------------------
(* Assertions *)

\* The request goes on to verify the assertion, or nothing comes of it.
LEMMA AssertionStep ==
  ASSUME CredentialInv, NEW c \in Clients, NEW x \in CeremonyIds, NEW p \in PasskeyIds,
         \/ \E old \in Olds : FinishAuthentication(c, x, p, old)
         \/ \E s \in SessionIds : FinishStepUp(c, s, x, p)
  PROVE  CredentialInv'
<1>1. UNCHANGED <<holder, password, passkey, session>>
  BY DEF FinishAuthentication, FinishStepUp, accountVars
<1>2. CASE UNCHANGED call
  BY <1>1, <1>2, GoesOnStep DEF GoesOn
<1>3. CASE ~ UNCHANGED call
  <2>1. PICK o \in Olds, g \in Grants :
          call' = [call EXCEPT ![c] = [op |-> "assert", passkey |-> p, old |-> o, grant |-> g]]
    BY <1>3 DEF FinishAuthentication, FinishStepUp, Proceed, Olds, Grants
  <2>2. CredentialFrameOK([op |-> "assert", passkey |-> p, old |-> o, grant |-> g], holder, password, passkey)
    BY DEF CredentialFrameOK, LoginFrameOK, PasskeyFrameOK, AssertFrame
  <2> QED
    BY <1>1, <2>1, <2>2, CredentialsStayFor
<1> QED
  BY <1>2, <1>3

LEMMA VerifyAssertionStep ==
  ASSUME CredentialInv, NEW c \in Clients, NEW n \in 0..MaxCount, VerifyAssertion(c, n)
  PROVE  CredentialInv'
<1> DEFINE f == [op |-> "use", passkey |-> call[c].passkey, count |-> n,
                 old |-> call[c].old, grant |-> call[c].grant]
<1>1. call[c] \in AssertFrame /\ n \in Nat
  BY DEF VerifyAssertion, CredentialInv, CredentialFrameOK, PasskeyFrameOK
<1>2. CredentialFrameOK(f, holder, password, passkey)
  BY <1>1 DEF CredentialFrameOK, LoginFrameOK, PasskeyFrameOK, AssertFrame, UseFrame
<1>3. CredentialFrameOK(Idle, holder, password, passkey)
  BY OtherFrames DEF Idle, CredentialOps
<1>4. call' = [call EXCEPT ![c] = f] \/ call' = [call EXCEPT ![c] = Idle]
  BY DEF VerifyAssertion, Proceed, Return
<1>5. UNCHANGED <<holder, password, passkey, session>>
  BY DEF VerifyAssertion, accountVars, passkeyVars
<1> HIDE DEF f
<1> QED
  BY <1>2, <1>3, <1>4, <1>5, CredentialsStayFor

\* A step that counts an assertion, and nothing else of a passkey.
LEMMA RecordSuccessfulUseStep ==
  ASSUME CredentialInv, NEW c \in Clients, RecordSuccessfulUse(c)
  PROVE  CredentialInv' /\ CountsKept
<1> DEFINE p == call[c].passkey
           n == call[c].count
<1>1. call[c] \in UseFrame
  BY DEF RecordSuccessfulUse, CredentialInv, CredentialFrameOK, PasskeyFrameOK
<1>2. p \in PasskeyIds /\ n \in Nat /\ passkey[p] \in PasskeyRow
  BY <1>1 DEF UseFrame, CredentialInv, CredentialsTypeOK
<1>3. UNCHANGED <<holder, password, session>>
  BY DEF RecordSuccessfulUse, accountVars
<1>4. CASE ~ CountStorable(passkey[p], n)
  <2>1. UNCHANGED passkey /\ call' = [call EXCEPT ![c] = Idle]
    BY <1>4 DEF RecordSuccessfulUse, Return
  <2>2. CredentialFrameOK(Idle, holder, password, passkey)
    BY OtherFrames DEF Idle, CredentialOps
  <2>3. CountsKept
    BY <2>1 DEF CountsKept, CredentialInv, CredentialsTypeOK, PasskeyRow
  <2> QED
    BY <1>3, <2>1, <2>2, <2>3, CredentialsStayFor
<1>5. CASE CountStorable(passkey[p], n)
  <2> DEFINE row == [passkey[p] EXCEPT !.count = n]
             u == passkey[p].user
             login == NewLogin(u, <<"passkey", p>>, call[c].old, call[c].grant)
             f == [login EXCEPT !.op = IF call[c].grant = "grant_step_up" THEN "create_session" ELSE "rotate"]
  <2>1. passkey[p].status = "active" /\ (passkey[p].count = 0 \/ n >= passkey[p].count)
    BY <1>5 DEF CountStorable
  <2>2. passkey' = [passkey EXCEPT ![p] = row] /\ call' = [call EXCEPT ![c] = f]
    BY <1>5 DEF RecordSuccessfulUse, Proceed
  <2>3. /\ row \in PasskeyRow /\ row.status = "active" /\ row.user = u /\ row.count = n
        /\ row.by = passkey[p].by /\ row.first = passkey[p].first
        /\ row.raced = passkey[p].raced /\ row.crossed = passkey[p].crossed
    BY <1>2, <2>1 DEF PasskeyRow
  <2>4. u \in Users /\ u \in Known(holder)
    BY <1>2, <2>1, KnownUsers
  <2>5. f \in LoginFrame /\ f.user = u /\ f.cred = <<"passkey", p>>
    BY <1>1, <1>2, <2>4 DEF NewLogin, LoginFrame, UseFrame, Creds
  <2> HIDE DEF row, f
  <2>6. passkey'[p] = row /\ \A q \in PasskeyIds \ {p} : passkey'[q] = passkey[q]
    BY <1>2, <2>2 DEF CredentialInv, CredentialsTypeOK
  <2>7. \A v : ActiveOf(v, passkey') = ActiveOf(v, passkey)
    BY <2>1, <2>3, <2>6 DEF ActiveOf
  <2>8. CredentialsTypeOK' /\ HoldersKept /\ OwnersKept /\ \A v \in Users : KeptFor(v)
    BY <1>2, <1>3, <2>2, <2>3, <2>6, <2>7
       DEF CredentialInv, CredentialsTypeOK, HoldersKept, OwnersKept, KeptFor
  <2>9. CredentialFrameOK(f, holder', password', passkey')
    <3>1. p \in ActiveOf(u, passkey')
      BY <1>2, <2>1, <2>7 DEF ActiveOf
    <3>2. Current(u, <<"passkey", p>>, password', passkey')
      BY <3>1 DEF Current
    <3>3. f.op \in {"rotate", "create_session"}
      BY <2>5 DEF LoginFrame
    <3> QED
      BY <1>3, <2>4, <2>5, <3>2, <3>3 DEF CredentialFrameOK, LoginFrameOK, PasskeyFrameOK
  <2>10. \A d \in Clients : CredentialFrameOK(call'[d], holder', password', passkey')
    <3>1. \A d \in Clients : call[d].op \in CredentialOps \ {"assert", "use"} => call[d].user \in Users
      BY DEF CredentialInv, CredentialFrameOK, LoginFrameOK, PasskeyFrameOK, CredentialOps,
             LoginFrame, AddFrame, RemoveFrame
    <3>2. \A d \in Clients : CredentialFrameOK(call[d], holder', password', passkey')
      BY <2>8, <3>1, FrameKept
    <3> QED
      BY <2>2, <2>9, <3>2 DEF CredentialInv
  <2>11. \A s \in SessionIds : SessionOK(session'[s], holder', password', passkey')
    BY <1>3, <2>8, SessionKept, KnownUsers
  <2>12. \A q \in PasskeyIds : /\ passkey'[q].user \in {passkey[q].user, u}
                               /\ passkey[q].crossed => passkey'[q].crossed
                               /\ PasskeyOK(passkey'[q], holder')
    BY <1>2, <1>3, <2>1, <2>3, <2>6 DEF PasskeyOK, CredentialInv
  <2>13. LockedOut(u, password', passkey') => \E q \in PasskeyIds : passkey'[q].user = u /\ passkey'[q].crossed
    <3>1. p \in ActiveOf(u, passkey')
      BY <1>2, <2>1, <2>7 DEF ActiveOf
    <3> QED
      BY <3>1 DEF LockedOut
  <2>14. DOMAIN call' = Clients
    BY <2>2 DEF CredentialInv
  <2>15. CredentialInv'
    BY <2>8, <2>10, <2>11, <2>12, <2>13, <2>14, OneUser
  <2>16. CountsKept
    BY <1>2, <2>1, <2>3, <2>6 DEF CountsKept, CredentialInv, CredentialsTypeOK, PasskeyRow
  <2> QED
    BY <2>15, <2>16
<1> QED
  BY <1>4, <1>5

-----------------------------------------------------------------------------
(* Adding and removing passkeys *)

LEMMA FinishRegistrationStep ==
  ASSUME CredentialInv, NEW c \in Clients, NEW s \in SessionIds, FinishRegistration(c, s)
  PROVE  CredentialInv'
<1> DEFINE u == session[s].user
           by == IF RecentlyStrong(s) THEN "step_up" ELSE "bootstrap"
           f == [op |-> "register", session |-> s, user |-> u, raced |-> FALSE, by |-> by]
<1>1. u \in Users /\ u \in Known(holder)
  BY KnownUsers DEF FinishRegistration, Live
<1>2. by = "bootstrap" => ActiveOf(u, passkey) = {}
  BY DEF FinishRegistration, MayAddPasskey, BootstrapAllows, ActivePasskeys, ActiveOf
<1>3. call' = [call EXCEPT ![c] = f] /\ UNCHANGED <<holder, password, passkey, session>>
  BY DEF FinishRegistration, Proceed, accountVars, passkeyVars
<1>4. by \in {"step_up", "bootstrap"}
  OBVIOUS
<1> HIDE DEF by
<1>5. CredentialFrameOK(f, holder, password, passkey)
  BY <1>1, <1>2, <1>4 DEF CredentialFrameOK, LoginFrameOK, PasskeyFrameOK, AddFrame
<1> QED
  BY <1>3, <1>5, CredentialsStayFor

LEMMA ConsumeRegistrationStep ==
  ASSUME CredentialInv, NEW c \in Clients, NEW x \in CeremonyIds, ConsumeRegistration(c, x)
  PROVE  CredentialInv'
<1> DEFINE f == [call[c] EXCEPT !.op = "insert_passkey"]
<1>1. /\ call[c] \in AddFrame /\ call[c].user \in Known(holder)
      /\ call[c].by = "bootstrap" => call[c].raced \/ ActiveOf(call[c].user, passkey) = {}
  BY DEF ConsumeRegistration, CredentialInv, CredentialFrameOK, PasskeyFrameOK
<1>2. /\ f \in AddFrame /\ f.op = "insert_passkey" /\ f.user = call[c].user
      /\ f.by = call[c].by /\ f.raced = call[c].raced
  BY <1>1 DEF AddFrame
<1> HIDE DEF f
<1>3. CredentialFrameOK(f, holder, password, passkey)
  BY <1>1, <1>2 DEF CredentialFrameOK, LoginFrameOK, PasskeyFrameOK
<1>4. CredentialFrameOK(Idle, holder, password, passkey)
  BY OtherFrames DEF Idle, CredentialOps
<1>5. call' = [call EXCEPT ![c] = f] \/ call' = [call EXCEPT ![c] = Idle]
  BY DEF ConsumeRegistration, Proceed, Return, f
<1>6. UNCHANGED <<holder, password, passkey, session>>
  BY DEF ConsumeRegistration, accountVars
<1> QED
  BY <1>3, <1>4, <1>5, <1>6, CredentialsStayFor

LEMMA RemovePasskeyStep ==
  ASSUME CredentialInv, NEW c \in Clients, NEW s \in SessionIds, NEW p \in PasskeyIds, RemovePasskey(c, s, p)
  PROVE  CredentialInv'
<1> DEFINE u == session[s].user
           f == [op |-> "remove", session |-> s, passkey |-> p, user |-> u, raced |-> FALSE]
<1>1. u \in Users /\ u \in Known(holder)
  BY KnownUsers DEF RemovePasskey, Live
<1>2. passkey[p].user = u /\ (ActiveOf(u, passkey) \ {p} # {} \/ password[u] > 0)
  BY DEF RemovePasskey, MayRemovePasskey, ActivePasskeys, ActiveOf
<1>3. call' = [call EXCEPT ![c] = f] /\ UNCHANGED <<holder, password, passkey, session>>
  BY DEF RemovePasskey, Proceed, accountVars, passkeyVars
<1>4. CredentialFrameOK(f, holder, password, passkey)
  BY <1>1, <1>2 DEF CredentialFrameOK, LoginFrameOK, PasskeyFrameOK, RemoveFrame
<1> QED
  BY <1>3, <1>4, CredentialsStayFor

LEMMA InsertPasskeyStep ==
  ASSUME CredentialInv, NEW c \in Clients, NEW p \in PasskeyIds, InsertPasskey(c, p)
  PROVE  CredentialInv' /\ CountsKept
<1> DEFINE u == call[c].user
           row == [status |-> "active", user |-> u, count |-> 0, by |-> call[c].by,
                   first |-> ActivePasskeys(u) = {}, raced |-> call[c].raced, crossed |-> FALSE]
           f == [op |-> "used_bootstrap", id |-> call[c].session]
<1>1. /\ call[c] \in AddFrame /\ u \in Known(holder)
      /\ call[c].by = "bootstrap" => call[c].raced \/ ActiveOf(u, passkey) = {}
  BY DEF InsertPasskey, CredentialInv, CredentialFrameOK, PasskeyFrameOK
<1>2. u \in Users
  BY <1>1, KnownUsers
<1>3. passkey[p] = NoPasskey /\ passkey' = [passkey EXCEPT ![p] = row] /\ Overtake(c, u, f)
  BY DEF InsertPasskey, NewID
<1>4. UNCHANGED <<holder, password, session>>
  BY DEF InsertPasskey, accountVars
<1>5. (ActivePasskeys(u) = {}) \in BOOLEAN
  OBVIOUS
<1>6. row \in PasskeyRow
  BY <1>1, <1>2, <1>5 DEF AddFrame, PasskeyRow
<1>7. row.by = "bootstrap" /\ ~row.first => row.raced
  BY <1>1 DEF ActiveOf, ActivePasskeys
<1>8. row.status = "active" /\ row.user = u /\ row.count = 0
  OBVIOUS
<1>9. CredentialFrameOK(f, holder', password', passkey')
  BY OtherFrames DEF CredentialOps
<1> HIDE DEF row, f
<1>10. passkey'[p] = row /\ \A q \in PasskeyIds \ {p} : passkey'[q] = passkey[q]
  BY <1>3 DEF CredentialInv, CredentialsTypeOK
<1>11. passkey[p].status = "none" /\ ~passkey[p].crossed /\ passkey[p].count = 0
  BY <1>3 DEF NoPasskey
<1>12. CredentialsTypeOK'
  BY <1>3, <1>4, <1>6 DEF CredentialInv, CredentialsTypeOK
<1>13. HoldersKept /\ OwnersKept
  BY <1>4, <1>10, <1>11 DEF HoldersKept, OwnersKept
<1>14. \A v \in Users \ {u} : KeptFor(v)
  BY <1>4, <1>8, <1>10, <1>11 DEF KeptFor, ActiveOf
<1>15. \A v : ActiveOf(v, passkey) \subseteq ActiveOf(v, passkey')
  BY <1>10, <1>11 DEF ActiveOf
<1>16. /\ DOMAIN call' = Clients
       /\ \A d \in Clients : CredentialFrameOK(call'[d], holder', password', passkey')
  BY <1>3, <1>9, <1>13, <1>14, OvertakenFrames
<1>17. \A s \in SessionIds : SessionOK(session'[s], holder', password', passkey')
  <2> SUFFICES ASSUME NEW s \in SessionIds
               PROVE  SessionOK(session[s], holder', password', passkey')
    BY <1>4
  <2>1. SessionOK(session[s], holder, password, passkey)
    BY DEF CredentialInv
  <2> QED
    BY <1>4, <1>15, <2>1 DEF SessionOK, Current
<1>18. \A q \in PasskeyIds : /\ passkey'[q].user \in {passkey[q].user, u}
                             /\ passkey[q].crossed => passkey'[q].crossed
                             /\ PasskeyOK(passkey'[q], holder')
  BY <1>1, <1>4, <1>7, <1>8, <1>10, <1>11 DEF PasskeyOK, CredentialInv
<1>19. ~ LockedOut(u, password', passkey')
  <2>1. p \in ActiveOf(u, passkey')
    BY <1>8, <1>10 DEF ActiveOf
  <2> QED
    BY <2>1 DEF LockedOut
<1>20. CredentialInv'
  BY <1>12, <1>13, <1>14, <1>16, <1>17, <1>18, <1>19, OneUser
<1>21. CountsKept
  BY <1>8, <1>10, <1>11 DEF CountsKept, CredentialInv, CredentialsTypeOK, PasskeyRow
<1> QED
  BY <1>20, <1>21

\* The sessions of a user whose credentials change all end.
LEMMA SessionsOfUserEnd ==
  ASSUME CredentialInv, HoldersKept, NEW u, RevokeSessionsForUser(u), \A v \in Users \ {u} : KeptFor(v)
  PROVE  /\ session' \in [SessionIds -> SessionRow]
         /\ \A s \in SessionIds : SessionOK(session'[s], holder', password', passkey')
<1> DEFINE S == {s \in SessionIds : session[s].user = u}
<1>1. session' = Revoked(S)
  BY DEF RevokeSessionsForUser
<1> HIDE DEF S
<1>2. ASSUME NEW s \in SessionIds
      PROVE  SessionOK(session'[s], holder', password', passkey')
  <2>1. CASE session'[s].status = "live"
    <3>1. session'[s] = session[s] /\ session[s].user # u
      BY <1>1, <2>1, RevokedSessions DEF S
    <3>2. session[s].user \in Users
      BY <2>1, <3>1, KnownUsers
    <3> QED
      BY <3>1, <3>2, SessionKept
  <2>2. CASE session'[s].status # "live"
    <3>1. SessionOK(session'[s], holder, password, passkey)
      BY <1>1, RevokedSessions
    <3> QED
      BY <2>2, <3>1 DEF SessionOK, Known, HoldersKept
  <2> QED
    BY <2>1, <2>2
<1> QED
  BY <1>1, <1>2, RevokedSessions

LEMMA RevokePasskeyStep ==
  ASSUME CredentialInv, NEW c \in Clients, RevokePasskey(c)
  PROVE  CredentialInv' /\ CountsKept
<1> DEFINE u == call[c].user
           p == call[c].passkey
           raced == call[c].raced
           row == [passkey[p] EXCEPT !.status = "revoked", !.crossed = @ \/ raced]
<1>1. /\ call[c] \in RemoveFrame /\ u \in Known(holder) /\ passkey[p].user = u
      /\ raced \/ ActiveOf(u, passkey) \ {p} # {} \/ password[u] > 0
  BY DEF RevokePasskey, CredentialInv, CredentialFrameOK, PasskeyFrameOK
<1>2. u \in Users /\ p \in PasskeyIds /\ raced \in BOOLEAN /\ passkey[p] \in PasskeyRow
  BY <1>1 DEF RemoveFrame, CredentialInv, CredentialsTypeOK
<1>3. passkey[p].status # "none"
  BY <1>1, <1>2, KnownUsers
<1>4. passkey' = [passkey EXCEPT ![p] = row]
  BY DEF RevokePasskey
<1>5. Overtake(c, u, Idle) /\ RevokeSessionsForUser(u) /\ UNCHANGED <<holder, password>>
  BY DEF RevokePasskey, accountVars
<1>6. /\ row.status = "revoked" /\ row.user = u /\ row.count = passkey[p].count
      /\ row.by = passkey[p].by /\ row.first = passkey[p].first /\ row.raced = passkey[p].raced
      /\ row.crossed = (passkey[p].crossed \/ raced)
  BY <1>1, <1>2 DEF PasskeyRow
<1>7. row \in PasskeyRow
  <2>1. (passkey[p].crossed \/ raced) \in BOOLEAN
    OBVIOUS
  <2> QED
    BY <1>2, <2>1 DEF PasskeyRow
<1> HIDE DEF row, raced
<1>8. passkey'[p] = row /\ \A q \in PasskeyIds \ {p} : passkey'[q] = passkey[q]
  BY <1>2, <1>4 DEF CredentialInv, CredentialsTypeOK
<1>9. HoldersKept /\ OwnersKept
  BY <1>1, <1>5, <1>6, <1>8 DEF HoldersKept, OwnersKept
<1>10. \A v \in Users \ {u} : KeptFor(v)
  BY <1>1, <1>5, <1>6, <1>8 DEF KeptFor, ActiveOf
<1>11. CredentialFrameOK(Idle, holder', password', passkey')
  BY OtherFrames DEF Idle, CredentialOps
<1>12. /\ DOMAIN call' = Clients
       /\ \A d \in Clients : CredentialFrameOK(call'[d], holder', password', passkey')
  BY <1>5, <1>9, <1>10, <1>11, OvertakenFrames
<1>13. /\ session' \in [SessionIds -> SessionRow]
       /\ \A s \in SessionIds : SessionOK(session'[s], holder', password', passkey')
  BY <1>5, <1>9, <1>10, SessionsOfUserEnd
<1>14. CredentialsTypeOK'
  BY <1>4, <1>5, <1>7, <1>13 DEF CredentialInv, CredentialsTypeOK
<1>15. \A q \in PasskeyIds : PasskeyOK(passkey'[q], holder')
  BY <1>1, <1>3, <1>5, <1>6, <1>8 DEF PasskeyOK, CredentialInv
<1>16. \A q \in PasskeyIds : /\ passkey'[q].user \in {passkey[q].user, u}
                             /\ passkey[q].crossed => passkey'[q].crossed
  BY <1>1, <1>6, <1>8
<1>17. ASSUME LockedOut(u, password', passkey')
       PROVE  passkey'[p].user = u /\ passkey'[p].crossed
  <2>1. ActiveOf(u, passkey) \ {p} \subseteq ActiveOf(u, passkey')
    BY <1>8 DEF ActiveOf
  <2>2. raced
    BY <1>1, <1>5, <1>17, <2>1 DEF LockedOut
  <2> QED
    BY <1>6, <1>8, <2>2
<1>18. CredentialInv'
  BY <1>2, <1>9, <1>10, <1>12, <1>13, <1>14, <1>15, <1>16, <1>17, OneUser
<1>19. CountsKept
  BY <1>2, <1>6, <1>8 DEF CountsKept, CredentialInv, CredentialsTypeOK, PasskeyRow
<1> QED
  BY <1>18, <1>19

-----------------------------------------------------------------------------
(* Accounts that are made or get a new password *)

\* Requests that are overtaken keep their operations.
LEMMA OvertakenOps ==
  ASSUME CredentialInv, NEW c \in Clients, NEW u, NEW frame, Overtake(c, u, frame),
         frame.op \notin ChallengeOps
  PROVE  /\ DOMAIN call' = Clients
         /\ \A d \in Clients : call'[d] = call[d] \/ call'[d].op \notin ChallengeOps
<1>1. DOMAIN call' = Clients
  BY DEF Overtake
<1>2. ASSUME NEW d \in Clients, call'[d] # call[d]
      PROVE  call'[d].op \notin ChallengeOps
  <2> DEFINE f == call[d]
  <2>1. CASE d = c
    BY <2>1 DEF Overtake
  <2>2. CASE d # c /\ f.op \in {"rotate", "create_session"}
    <3>1. f \in LoginFrame
      BY <2>2 DEF CredentialInv, CredentialFrameOK, LoginFrameOK
    <3>2. call'[d] = [f EXCEPT !.late = TRUE]
      BY <1>2, <2>2 DEF Overtake
    <3> QED
      BY <3>1, <3>2 DEF LoginFrame, ChallengeOps
  <2>3. CASE d # c /\ f.op \in {"register", "insert_passkey", "remove"}
    <3>1. f \in AddFrame \cup RemoveFrame
      BY <2>3 DEF CredentialInv, CredentialFrameOK, PasskeyFrameOK
    <3>2. call'[d] = [f EXCEPT !.raced = TRUE]
      BY <1>2, <2>3 DEF Overtake
    <3> QED
      BY <3>1, <3>2 DEF AddFrame, RemoveFrame, ChallengeOps
  <2> QED
    BY <1>2, <2>1, <2>2, <2>3 DEF Overtake
<1> QED
  BY <1>1, <1>2

LEMMA ResetAccountStep ==
  ASSUME AccountsInv, NEW c \in Clients, ResetAccount(c)
  PROVE  AccountsInv' /\ UNCHANGED passkey
<1> DEFINE k == call[c].id
           u == proof[k].user
           pr == [proof[k] EXCEPT !.status = "consumed"]
<1>1. /\ k \in ChallengeIds /\ challenge[k].status = "consumed" /\ challenge[k].purpose = "reset"
      /\ proof[k].status # "none"
  BY DEF ResetAccount, AccountsInv, ChallengeInv, ChallengeFrameOK, Proved
<1>2. u \in Users
  BY <1>1 DEF AccountsInv, ChallengeInv, ChallengeOK
<1>3. UNCHANGED passkey
  BY DEF ResetAccount
<1>4. CASE ResetPassword(c) /\ RevokeSessionsForUser(u) /\ Overtake(c, u, Idle)
  <2>1. /\ proof' = [proof EXCEPT ![k] = pr] /\ password' = [password EXCEPT ![u] = @ + 1]
        /\ UNCHANGED <<challenge, material, received, holder>>
    BY <1>4 DEF ResetPassword
  <2>2. pr \in ProofRow /\ pr.status = "consumed" /\ pr.user = u
    BY <1>1 DEF AccountsInv, ChallengeInv, ChallengesTypeOK, ProofRow
  <2> HIDE DEF pr
  <2>3. ChallengeInv'
    <3>1. DOMAIN call' = Clients
      BY <1>4 DEF Overtake
    <3>2. \A d \in Clients : \/ call'[d] = call[d]
                             \/ ChallengeFrameOK(call'[d], challenge', received', proof')
      <4>1. CredentialInv /\ Idle.op \notin ChallengeOps
        BY DEF AccountsInv, Idle, ChallengeOps
      <4> QED
        BY <1>4, <4>1, OvertakenOps, OtherFrames
    <3>3. holder' \in [Idents -> SUBSET Users] /\ \A i \in Idents : \A v, w \in holder'[i] : v = w
      BY <2>1 DEF AccountsInv, ChallengeInv, ChallengesTypeOK
    <3> QED
      BY <1>1, <1>2, <2>1, <2>2, <3>1, <3>2, <3>3, ProofStep DEF AccountsInv
  <2>4. CredentialInv'
    <3>1. CredentialInv
      BY DEF AccountsInv
    <3>2. password' \in [Users -> Nat] /\ password'[u] > 0 /\ \A v \in Users \ {u} : password'[v] = password[v]
      BY <1>2, <2>1, <3>1 DEF CredentialInv, CredentialsTypeOK
    <3>3. HoldersKept /\ OwnersKept /\ \A v \in Users \ {u} : KeptFor(v)
      BY <1>3, <2>1, <3>2 DEF HoldersKept, OwnersKept, KeptFor
    <3>4. CredentialFrameOK(Idle, holder', password', passkey')
      BY OtherFrames DEF Idle, CredentialOps
    <3>5. /\ DOMAIN call' = Clients
          /\ \A d \in Clients : CredentialFrameOK(call'[d], holder', password', passkey')
      BY <1>4, <3>1, <3>3, <3>4, OvertakenFrames
    <3>6. /\ session' \in [SessionIds -> SessionRow]
          /\ \A s \in SessionIds : SessionOK(session'[s], holder', password', passkey')
      BY <1>4, <3>1, <3>3, SessionsOfUserEnd
    <3>7. CredentialsTypeOK'
      BY <1>3, <2>1, <3>1, <3>2, <3>6 DEF CredentialInv, CredentialsTypeOK
    <3>8. \A p \in PasskeyIds : PasskeyOK(passkey'[p], holder')
      BY <1>3, <2>1, <3>1 DEF CredentialInv
    <3>9. ~ LockedOut(u, password', passkey')
      BY <3>2 DEF LockedOut
    <3> QED
      BY <1>3, <3>1, <3>3, <3>5, <3>6, <3>7, <3>8, <3>9, OneUser
  <2> QED
    BY <1>3, <2>3, <2>4 DEF AccountsInv
<1>5. CASE Return(c) /\ UNCHANGED <<challengeVars, accountVars, session>>
  <2>1. ChallengeFrameOK(Idle, challenge, received, proof) /\ Idle.op \notin CredentialOps
    BY OtherFrames DEF Idle, ChallengeOps, CredentialOps
  <2>2. ChallengeInv'
    BY <1>5, <2>1, ChallengesStay DEF AccountsInv, ChallengeInv, Return, challengeVars, accountVars
  <2>3. CredentialInv'
    BY <1>3, <1>5, <2>1, GoesOnStep DEF AccountsInv, GoesOn, Return, accountVars
  <2> QED
    BY <1>3, <2>2, <2>3 DEF AccountsInv
<1> QED
  BY <1>4, <1>5 DEF ResetAccount

LEMMA SignupAccountStep ==
  ASSUME AccountsInv, NEW c \in Clients, NEW u \in Users, SignupAccount(c, u)
  PROVE  AccountsInv' /\ UNCHANGED passkey
<1> DEFINE k == call[c].id
           i == challenge[k].ident
           pw == call[c].password
           pr == [status |-> "consumed", user |-> u]
           f == NewLogin(u, <<"password", pw>>, NoSession, IF pw = 0 THEN "grant_signup" ELSE "none")
<1>1. /\ k \in ChallengeIds /\ challenge[k].status = "consumed" /\ challenge[k].purpose = "signup"
      /\ pw \in {0, 1} /\ i \in Idents
  BY DEF SignupAccount, AccountsInv, ChallengeInv, ChallengeFrameOK, Proved, ChallengesTypeOK, ChallengeRow
<1>2. u \notin Known(holder)
  BY DEF SignupAccount, CreateAccount, Known
<1>3. UNCHANGED <<challenge, material, received, session, passkey>>
  BY DEF SignupAccount, CreateAccount, passkeyVars
<1>4. CASE Return(c) /\ UNCHANGED <<proof, holder, password>>
  <2>1. ChallengeFrameOK(Idle, challenge, received, proof) /\ Idle.op \notin CredentialOps
    BY OtherFrames DEF Idle, ChallengeOps, CredentialOps
  <2>2. ChallengeInv'
    BY <1>3, <1>4, <2>1, ChallengesStay DEF AccountsInv, ChallengeInv, Return
  <2>3. CredentialInv'
    BY <1>3, <1>4, <2>1, GoesOnStep DEF AccountsInv, GoesOn, Return
  <2> QED
    BY <1>3, <2>2, <2>3 DEF AccountsInv
<1>5. CASE ~ (Return(c) /\ UNCHANGED <<proof, holder, password>>)
  <2>1. /\ Vacant(i) /\ proof' = [proof EXCEPT ![k] = pr]
        /\ holder' = [holder EXCEPT ![i] = @ \cup {u}]
        /\ password' = [password EXCEPT ![u] = pw]
        /\ call' = [call EXCEPT ![c] = f]
    BY <1>5 DEF SignupAccount, CreateAccount, InsertAccount, Proceed
  <2>2. f \in LoginFrame /\ f.op = "rotate" /\ f.user = u /\ f.cred = <<"password", pw>>
    BY <1>1 DEF NewLogin, LoginFrame, Creds, Grants, Olds
  <2>3. pr \in ProofRow /\ pr.status = "consumed" /\ pr.user = u
    BY DEF ProofRow
  <2> HIDE DEF f, pr
  <2>4. holder'[i] = {u} /\ \A j \in Idents \ {i} : holder'[j] = holder[j]
    BY <1>1, <2>1 DEF AccountsInv, ChallengeInv, ChallengesTypeOK, Vacant, ActiveHolders
  <2>5. holder' \in [Idents -> SUBSET Users] /\ HoldersKept
    BY <1>1, <2>1 DEF AccountsInv, ChallengeInv, ChallengesTypeOK, HoldersKept
  <2>6. ChallengeInv'
    <3>1. ChallengeFrameOK(f, challenge', received', proof')
      BY <2>2, OtherFrames DEF ChallengeOps
    <3>2. \A j \in Idents : \A v, w \in holder'[j] : v = w
      BY <2>4 DEF AccountsInv, ChallengeInv
    <3>3. DOMAIN call' = Clients /\ \A d \in Clients : \/ call'[d] = call[d]
                                                      \/ ChallengeFrameOK(call'[d], challenge', received', proof')
      BY <2>1, <3>1 DEF AccountsInv, ChallengeInv
    <3>4. pr.user \in holder'[i]
      BY <2>3, <2>4
    <3> QED
      BY <1>1, <1>3, <2>1, <2>3, <2>5, <3>2, <3>3, <3>4, ProofStep DEF AccountsInv, HoldersKept
  <2>7. CredentialInv'
    <3>1. CredentialInv
      BY DEF AccountsInv
    <3>2. password' \in [Users -> Nat] /\ password'[u] = pw /\ \A v \in Users \ {u} : password'[v] = password[v]
      BY <1>1, <2>1, <3>1 DEF CredentialInv, CredentialsTypeOK
    <3>3. OwnersKept /\ \A v \in Users \ {u} : KeptFor(v)
      BY <1>3, <3>2 DEF OwnersKept, KeptFor
    <3>4. \A d \in Clients : call[d].op \in CredentialOps \ {"assert", "use"} => call[d].user \in Known(holder)
      BY <3>1 DEF CredentialInv, CredentialFrameOK, LoginFrameOK, PasskeyFrameOK, CredentialOps
    <3>5. \A d \in Clients : CredentialFrameOK(call[d], holder', password', passkey')
      <4> SUFFICES ASSUME NEW d \in Clients
                   PROVE  CredentialFrameOK(call[d], holder', password', passkey')
        OBVIOUS
      <4>1. call[d].op \in CredentialOps \ {"assert", "use"} => KeptFor(call[d].user)
        BY <1>2, <3>1, <3>3, <3>4, KnownUsers
      <4> QED
        BY <2>5, <3>1, <3>3, <4>1, FrameKept
    <3>6. CredentialFrameOK(f, holder', password', passkey')
      <4>1. u \in Known(holder')
        BY <1>1, <2>4 DEF Known
      <4> QED
        BY <2>2, <3>2, <4>1 DEF CredentialFrameOK, LoginFrameOK, PasskeyFrameOK, Current
    <3>7. DOMAIN call' = Clients /\ \A d \in Clients : CredentialFrameOK(call'[d], holder', password', passkey')
      BY <2>1, <3>1, <3>5, <3>6 DEF CredentialInv
    <3>8. \A s \in SessionIds : SessionOK(session'[s], holder', password', passkey')
      <4> SUFFICES ASSUME NEW s \in SessionIds
                   PROVE  SessionOK(session[s], holder', password', passkey')
        BY <1>3
      <4>1. session[s].status = "live" => KeptFor(session[s].user)
        BY <1>2, <3>1, <3>3, KnownUsers
      <4> QED
        BY <2>5, <3>1, <4>1, SessionKept
    <3>9. CredentialsTypeOK'
      BY <1>3, <2>5, <3>1, <3>2 DEF CredentialInv, CredentialsTypeOK
    <3>10. \A p \in PasskeyIds : PasskeyOK(passkey'[p], holder')
      BY <1>3, <2>5, <3>1 DEF CredentialInv, PasskeyOK, Known, HoldersKept
    <3>11. ~ LockedOut(u, password', passkey')
      BY <1>2, <1>3, <3>1, KnownUsers DEF LockedOut
    <3> QED
      BY <1>3, <2>5, <3>1, <3>3, <3>7, <3>8, <3>9, <3>10, <3>11, OneUser
  <2> QED
    BY <1>3, <2>6, <2>7 DEF AccountsInv
<1> QED
  BY <1>4, <1>5

-----------------------------------------------------------------------------
(* Every step *)

\* Passkeys and sessions do not touch codes, but for the two steps above.
OfPasskeys(c) ==
  \/ Quiet(c) \/ Ending(c)
  \/ \E i \in Idents, old \in Olds : PasswordLogin(c, i, old)
  \/ RotatePredecessor(c) \/ RecordSuccessfulUse(c) \/ RevokePasskey(c)
  \/ \E x \in CeremonyIds, p \in PasskeyIds, old \in Olds : FinishAuthentication(c, x, p, old)
  \/ \E s \in SessionIds, x \in CeremonyIds, p \in PasskeyIds : FinishStepUp(c, s, x, p)
  \/ \E n \in 0..MaxCount : VerifyAssertion(c, n)
  \/ \E x \in CeremonyIds : ConsumeRegistration(c, x)
  \/ \E p \in PasskeyIds : InsertPasskey(c, p)
  \/ \E s \in SessionIds :
       \/ CreateSession(c, s) \/ FinishRegistration(c, s)
       \/ \E p \in PasskeyIds : RemovePasskey(c, s, p)

LEMMA PasskeyCases ==
  ASSUME NEW c \in Clients, PasskeysNext(c)
  PROVE  OfPasskeys(c) \/ ResetAccount(c) \/ \E u \in Users : SignupAccount(c, u)
BY DEF PasskeysNext, OfPasskeys, Quiet, Ending, Olds

\* The frames that passkeys and sessions leave are not about codes.
LEMMA OfPasskeysFrames ==
  ASSUME CredentialInv, NEW c \in Clients, OfPasskeys(c)
  PROVE  /\ DOMAIN call' = Clients
         /\ \A d \in Clients : call'[d] = call[d] \/ call'[d].op \notin ChallengeOps
<1> DEFINE Moves(f) == call' = [call EXCEPT ![c] = f] /\ f.op \notin ChallengeOps
<1>1. ASSUME UNCHANGED call \/ \E f : Moves(f)
      PROVE  /\ DOMAIN call' = Clients
             /\ \A d \in Clients : call'[d] = call[d] \/ call'[d].op \notin ChallengeOps
  BY <1>1 DEF CredentialInv
<1>2. Idle.op \notin ChallengeOps
  BY DEF Idle, ChallengeOps
<1>3. CASE Quiet(c) \/ Ending(c)
  <2>1. UNCHANGED call \/ \E f : Moves(f)
    BY <1>3 DEF Quiet, Ending, GrantLogin, GrantPassword, ConsumeBootstrap, PasswordReauth,
                GrantSignup, GrantStepUp, Retire, Proceed, Return, Idle, ChallengeOps
  <2> QED
    BY <1>1, <2>1
<1>4. ASSUME NEW i \in Idents, NEW old \in Olds, PasswordLogin(c, i, old)
      PROVE  \E f : Moves(f)
  <2>1. PICK u : call' = [call EXCEPT ![c] = NewLogin(u, <<"password", password[u]>>, old, "none")]
    BY <1>4 DEF PasswordLogin, Proceed
  <2>2. NewLogin(u, <<"password", password[u]>>, old, "none").op \notin ChallengeOps
    BY DEF NewLogin, ChallengeOps
  <2> QED
    BY <2>1, <2>2
<1>5. CASE RotatePredecessor(c)
  <2>1. call[c] \in LoginFrame /\ call' = [call EXCEPT ![c] = [call[c] EXCEPT !.op = "create_session"]]
    BY <1>5 DEF RotatePredecessor, Proceed, CredentialInv, CredentialFrameOK, LoginFrameOK
  <2>2. [call[c] EXCEPT !.op = "create_session"].op \notin ChallengeOps
    BY <2>1 DEF LoginFrame, ChallengeOps
  <2> QED
    BY <1>1, <2>1, <2>2
<1>6. CASE RecordSuccessfulUse(c)
  <2> DEFINE p == call[c].passkey
             login == NewLogin(passkey[p].user, <<"passkey", p>>, call[c].old, call[c].grant)
             f == [login EXCEPT !.op = IF call[c].grant = "grant_step_up" THEN "create_session" ELSE "rotate"]
  <2>1. f.op \in {"create_session", "rotate"}
    BY DEF NewLogin
  <2>2. call' = [call EXCEPT ![c] = f] \/ call' = [call EXCEPT ![c] = Idle]
    BY <1>6 DEF RecordSuccessfulUse, Proceed, Return
  <2>3. f.op \notin ChallengeOps
    BY <2>1 DEF ChallengeOps
  <2> HIDE DEF f
  <2> QED
    BY <1>1, <1>2, <2>2, <2>3
<1>7. CASE RevokePasskey(c)
  BY <1>2, <1>7, OvertakenOps DEF RevokePasskey
<1>8. ASSUME NEW x \in CeremonyIds, NEW p \in PasskeyIds, NEW old \in Olds, FinishAuthentication(c, x, p, old)
      PROVE  UNCHANGED call \/ \E f : Moves(f)
  <2> DEFINE g == [op |-> "assert", passkey |-> p, old |-> old, grant |-> "grant_login"]
  <2>1. UNCHANGED call \/ call' = [call EXCEPT ![c] = g]
    BY <1>8 DEF FinishAuthentication, Proceed
  <2>2. g.op \notin ChallengeOps
    BY DEF ChallengeOps
  <2> HIDE DEF g
  <2> QED
    BY <2>1, <2>2
<1>9. ASSUME NEW s \in SessionIds, NEW x \in CeremonyIds, NEW p \in PasskeyIds, FinishStepUp(c, s, x, p)
      PROVE  UNCHANGED call \/ \E f : Moves(f)
  <2> DEFINE g == [op |-> "assert", passkey |-> p, old |-> s, grant |-> "grant_step_up"]
  <2>1. UNCHANGED call \/ call' = [call EXCEPT ![c] = g]
    BY <1>9 DEF FinishStepUp, Proceed
  <2>2. g.op \notin ChallengeOps
    BY DEF ChallengeOps
  <2> HIDE DEF g
  <2> QED
    BY <2>1, <2>2
<1>10. ASSUME NEW n \in 0..MaxCount, VerifyAssertion(c, n)
       PROVE  \E f : Moves(f)
  BY <1>2, <1>10 DEF VerifyAssertion, Proceed, Return, ChallengeOps
<1>11. ASSUME NEW x \in CeremonyIds, ConsumeRegistration(c, x)
       PROVE  \E f : Moves(f)
  <2> DEFINE f == [call[c] EXCEPT !.op = "insert_passkey"]
  <2>1. call[c] \in AddFrame
    BY <1>11 DEF ConsumeRegistration, CredentialInv, CredentialFrameOK, PasskeyFrameOK
  <2>2. f.op \notin ChallengeOps
    BY <2>1 DEF AddFrame, ChallengeOps
  <2>3. call' = [call EXCEPT ![c] = f] \/ call' = [call EXCEPT ![c] = Idle]
    BY <1>11 DEF ConsumeRegistration, Proceed, Return
  <2> HIDE DEF f
  <2> QED
    BY <1>2, <2>2, <2>3
<1>12. ASSUME NEW p \in PasskeyIds, InsertPasskey(c, p)
       PROVE  /\ DOMAIN call' = Clients
              /\ \A d \in Clients : call'[d] = call[d] \/ call'[d].op \notin ChallengeOps
  <2>1. [op |-> "used_bootstrap", id |-> call[c].session].op \notin ChallengeOps
    BY DEF ChallengeOps
  <2> QED
    BY <1>12, <2>1, OvertakenOps DEF InsertPasskey
<1>13. ASSUME NEW s \in SessionIds, CreateSession(c, s)
       PROVE  \E f : Moves(f)
  <2> DEFINE g == [op |-> call[c].grant, id |-> s, old |-> call[c].old]
  <2>1. call[c].grant \in Grants
    BY <1>13 DEF CreateSession, CredentialInv, CredentialFrameOK, LoginFrameOK, LoginFrame
  <2>2. g.op \notin ChallengeOps
    BY <2>1 DEF Grants, ChallengeOps
  <2>3. call' = [call EXCEPT ![c] = g] \/ call' = [call EXCEPT ![c] = Idle]
    BY <1>13 DEF CreateSession, Proceed, Return
  <2> HIDE DEF g
  <2> QED
    BY <1>2, <2>2, <2>3
<1>14. ASSUME NEW s \in SessionIds, FinishRegistration(c, s)
       PROVE  \E f : Moves(f)
  <2> DEFINE g == [op |-> "register", session |-> s, user |-> session[s].user, raced |-> FALSE,
                   by |-> IF RecentlyStrong(s) THEN "step_up" ELSE "bootstrap"]
  <2>1. call' = [call EXCEPT ![c] = g]
    BY <1>14 DEF FinishRegistration, Proceed
  <2>2. g.op \notin ChallengeOps
    BY DEF ChallengeOps
  <2> HIDE DEF g
  <2> QED
    BY <2>1, <2>2
<1>15. ASSUME NEW s \in SessionIds, NEW p \in PasskeyIds, RemovePasskey(c, s, p)
       PROVE  \E f : Moves(f)
  <2> DEFINE g == [op |-> "remove", session |-> s, passkey |-> p, user |-> session[s].user, raced |-> FALSE]
  <2>1. call' = [call EXCEPT ![c] = g]
    BY <1>15 DEF RemovePasskey, Proceed
  <2>2. g.op \notin ChallengeOps
    BY DEF ChallengeOps
  <2> HIDE DEF g
  <2> QED
    BY <2>1, <2>2
<1> HIDE DEF Moves
<1> QED
  BY <1>1, <1>3, <1>4, <1>5, <1>6, <1>7, <1>8, <1>9, <1>10, <1>11, <1>12, <1>13, <1>14, <1>15 DEF OfPasskeys

LEMMA SameCounts ==
  ASSUME CredentialInv, UNCHANGED passkey
  PROVE  CountsKept
BY DEF CredentialInv, CredentialsTypeOK, CountsKept, PasskeyRow

LEMMA OfPasskeysStep ==
  ASSUME AccountsInv, NEW c \in Clients, OfPasskeys(c)
  PROVE  AccountsInv' /\ CountsKept
<1>1. ChallengeInv /\ CredentialInv
  BY DEF AccountsInv
<1>2. UNCHANGED <<challenge, material, received, proof, holder>>
  BY DEF OfPasskeys, Quiet, Ending, GrantLogin, GrantPassword, ConsumeBootstrap, PasswordReauth,
         GrantSignup, GrantStepUp, Retire, PasswordLogin, RotatePredecessor, RecordSuccessfulUse,
         RevokePasskey, FinishAuthentication, FinishStepUp, VerifyAssertion, ConsumeRegistration,
         InsertPasskey, CreateSession, FinishRegistration, RemovePasskey, challengeVars, accountVars
<1>3. ChallengeInv'
  BY <1>1, <1>2, OfPasskeysFrames, OtherFrames, ChallengesStay
<1>4. CASE RecordSuccessfulUse(c) \/ RevokePasskey(c) \/ \E p \in PasskeyIds : InsertPasskey(c, p)
  BY <1>1, <1>3, <1>4, RecordSuccessfulUseStep, RevokePasskeyStep, InsertPasskeyStep DEF AccountsInv
<1>5. CASE ~ (RecordSuccessfulUse(c) \/ RevokePasskey(c) \/ \E p \in PasskeyIds : InsertPasskey(c, p))
  <2>1. UNCHANGED passkey
    BY <1>5 DEF OfPasskeys, Quiet, Ending, GrantLogin, GrantPassword, ConsumeBootstrap, PasswordReauth,
         GrantSignup, GrantStepUp, Retire, PasswordLogin, RotatePredecessor,
         FinishAuthentication, FinishStepUp, VerifyAssertion, ConsumeRegistration,
         CreateSession, FinishRegistration, RemovePasskey, passkeyVars
  <2>2. CASE \/ \E x \in CeremonyIds, p \in PasskeyIds, old \in Olds : FinishAuthentication(c, x, p, old)
             \/ \E s \in SessionIds, x \in CeremonyIds, p \in PasskeyIds : FinishStepUp(c, s, x, p)
    <3>1. CredentialInv'
      BY <1>1, <2>2, AssertionStep
    <3> QED
      BY <1>1, <1>3, <2>1, <3>1, SameCounts DEF AccountsInv
  <2>3. CASE ~ \/ \E x \in CeremonyIds, p \in PasskeyIds, old \in Olds : FinishAuthentication(c, x, p, old)
               \/ \E s \in SessionIds, x \in CeremonyIds, p \in PasskeyIds : FinishStepUp(c, s, x, p)
    <3>1. CredentialInv'
      BY <1>1, <1>5, <2>3, QuietStep, EndingStep, PasswordLoginStep, RotatePredecessorStep, VerifyAssertionStep,
         ConsumeRegistrationStep, CreateSessionStep, FinishRegistrationStep, RemovePasskeyStep DEF OfPasskeys
    <3> QED
      BY <1>1, <1>3, <2>1, <3>1, SameCounts DEF AccountsInv
  <2> QED
    BY <2>2, <2>3
<1> QED
  BY <1>4, <1>5

LEMMA AbandonStep ==
  ASSUME AccountsInv, NEW c \in Clients, Abandon(c)
  PROVE  AccountsInv' /\ CountsKept
<1>1. UNCHANGED <<challenge, material, received, proof, holder, password, session, passkey>>
  BY DEF Abandon, challengeVars, accountVars, passkeyVars
<1>2. call' = [call EXCEPT ![c] = Idle]
  BY DEF Abandon, Return
<1>3. Idle.op \notin ChallengeOps /\ Idle.op \notin CredentialOps
  BY DEF Idle, CredentialOps, ChallengeOps
<1>4. GoesOn(c)
  BY <1>2, <1>3 DEF GoesOn
<1> QED
  BY <1>1, <1>2, <1>3, <1>4, GoesOnStep, ChallengesStay, OtherFrames, SameCounts DEF AccountsInv, ChallengeInv

\* Time passes, or nothing happens.
LEMMA TimeStep ==
  ASSUME AccountsInv,
         \/ /\ \/ \E k \in ChallengeIds : ChallengeExpires(k)
               \/ \E p \in Purposes, i \in Idents : WindowEnds(p, i)
            /\ UNCHANGED passkeyVars
         \/ UNCHANGED vars
  PROVE  AccountsInv' /\ CountsKept
<1>1. UNCHANGED <<call, holder, password, session, passkey>>
  BY DEF ChallengeExpires, WindowEnds, passkeyVars, vars, accountVars
<1>2. CredentialInv' /\ CountsKept
  BY <1>1, SameCounts DEF AccountsInv, CredentialInv, CredentialsTypeOK
<1>3. CASE \E k \in ChallengeIds : ChallengeExpires(k)
  BY <1>2, <1>3, ChallengeExpiresStep DEF AccountsInv
<1>4. CASE UNCHANGED <<challenge, material, received, proof>>
  BY <1>1, <1>2, <1>4 DEF AccountsInv, ChallengeInv, ChallengesTypeOK
<1> QED
  BY <1>3, <1>4 DEF WindowEnds, vars, challengeVars

LEMMA AccountsStep == AccountsInv /\ [Next]_vars => AccountsInv' /\ CountsKept
<1> SUFFICES ASSUME AccountsInv, [Next]_vars PROVE AccountsInv' /\ CountsKept
  OBVIOUS
<1>1. ASSUME NEW c \in Clients, ChallengesNext(c), UNCHANGED passkeyVars
      PROVE  AccountsInv' /\ CountsKept
  <2>1. ChallengeInv' /\ GoesOn(c) /\ UNCHANGED <<holder, password, passkey, session>>
    BY <1>1, ChallengesNextStep, ChallengeFramesGoOn DEF AccountsInv, passkeyVars
  <2> QED
    BY <2>1, GoesOnStep, SameCounts DEF AccountsInv
<1>2. ASSUME NEW c \in Clients, PasskeysNext(c)
      PROVE  AccountsInv' /\ CountsKept
  BY <1>2, PasskeyCases, OfPasskeysStep, ResetAccountStep, SignupAccountStep, SameCounts DEF AccountsInv
<1>3. ASSUME NEW c \in Clients, Abandon(c)
      PROVE  AccountsInv' /\ CountsKept
  BY <1>3, AbandonStep
<1>4. CASE BrowserNext
  <2>1. CredentialInv' /\ UNCHANGED <<call, challenge, material, received, proof, holder, passkey>>
    BY <1>4, BrowserStep DEF AccountsInv, challengeVars, accountVars
  <2> QED
    BY <2>1, SameCounts DEF AccountsInv, ChallengeInv, ChallengesTypeOK
<1>5. CASE \/ /\ \/ \E k \in ChallengeIds : ChallengeExpires(k)
                 \/ \E p \in Purposes, i \in Idents : WindowEnds(p, i)
              /\ UNCHANGED passkeyVars
           \/ UNCHANGED vars
  BY <1>5, TimeStep
<1> QED
  BY <1>1, <1>2, <1>3, <1>4, <1>5 DEF Next

LEMMA AccountsInitially == Init => AccountsInv
<1> SUFFICES ASSUME Init PROVE AccountsInv
  OBVIOUS
<1> USE AccountsAssumption, ChallengesAssumption, PasskeysAssumption
<1>1. DOMAIN call = Clients /\ \A c \in Clients : call[c] = Idle
  BY DEF Init
<1>2. Idle.op \notin ChallengeOps /\ Idle.op \notin CredentialOps
  BY DEF Idle, ChallengeOps, CredentialOps
<1>3. Owner \in Users
  BY DEF Owner
<1>4. PICK story \in Stories :
        /\ holder = [i \in Idents |-> IF story = "new" THEN {} ELSE {Owner}]
        /\ password = [u \in Users |-> IF story = "password" /\ u = Owner THEN 1 ELSE 0]
        /\ passkey = Enrolled(CASE story = "passkeys" -> PasskeyIds
                                [] story = "logged_in" -> {1}
                                [] OTHER -> {})
        /\ session = LoggedIn(IF story = "logged_in" THEN {1} ELSE {})
  BY DEF Init
<1>5. holder \in [Idents -> SUBSET Users] /\ password \in [Users -> Nat]
  BY <1>3, <1>4
<1>6. story # "new" => Owner \in Known(holder)
  BY <1>4 DEF Known
<1>7. ChallengeInv
  <2>1. (CHOOSE i \in Idents : TRUE) \in Idents
    OBVIOUS
  <2>2. NoChallenge \in ChallengeRow /\ NoChallenge.status = "none"
    BY <2>1 DEF NoChallenge, ChallengeRow, Purposes
  <2>3. NoProof \in ProofRow /\ NoProof.status = "none"
    BY DEF NoProof, ProofRow
  <2>4. ChallengesTypeOK
    BY <1>5, <2>2, <2>3 DEF Init, ChallengesInit, ChallengesTypeOK
  <2>5. \A k \in ChallengeIds : ChallengeOK(challenge[k], material[k], k \in received, proof[k], holder)
    BY <2>2, <2>3 DEF Init, ChallengesInit, ChallengeOK
  <2>6. \A i \in Idents : \A u, v \in holder[i] : u = v
    BY <1>4
  <2> QED
    BY <1>1, <1>2, <2>4, <2>5, <2>6, OtherFrames DEF ChallengeInv
<1>8. CredentialInv
  <2> DEFINE P == CASE story = "passkeys" -> PasskeyIds [] story = "logged_in" -> {1} [] OTHER -> {}
             key == [NoPasskey EXCEPT !.status = "active", !.user = Owner, !.by = "step_up"]
             login == [status |-> "live", user |-> Owner, cred |-> <<"passkey", 1>>, late |-> FALSE]
  <2>1. /\ NoPasskey \in PasskeyRow /\ NoPasskey.status = "none" /\ NoPasskey.user = NoUser
        /\ NoPasskey.by = "none"
    BY DEF NoPasskey, PasskeyRow
  <2>2. key \in PasskeyRow /\ key.status = "active" /\ key.user = Owner /\ key.by = "step_up"
    BY <1>3 DEF NoPasskey, PasskeyRow
  <2>3. NoSessionRow \in SessionRow /\ NoSessionRow.status = "none"
    BY DEF NoSessionRow, SessionRow, Creds
  <2>4. story = "logged_in" => login \in SessionRow
    BY <1>3, <1>4 DEF SessionRow, Creds
  <2>5. passkey = [p \in PasskeyIds |-> IF p \in P THEN key ELSE NoPasskey]
    BY <1>4 DEF Enrolled
  <2>6. session = [s \in SessionIds |-> IF story = "logged_in" /\ s = 1 THEN login ELSE NoSessionRow]
    BY <1>4 DEF LoggedIn
  <2>7. P # {} => story # "new"
    OBVIOUS
  <2>8. story = "logged_in" => 1 \in P /\ 1 \in PasskeyIds
    BY <1>4
  <2> HIDE DEF P, key
  <2>9. CredentialsTypeOK
    BY <1>5, <2>1, <2>2, <2>3, <2>4, <2>5, <2>6 DEF CredentialsTypeOK
  <2>10. \A p \in PasskeyIds : PasskeyOK(passkey[p], holder)
    BY <1>6, <2>1, <2>2, <2>5, <2>7 DEF PasskeyOK
  <2>11. \A s \in SessionIds : SessionOK(session[s], holder, password, passkey)
    <3>1. story = "logged_in" => 1 \in ActiveOf(Owner, passkey)
      BY <2>2, <2>5, <2>8 DEF ActiveOf
    <3>2. story = "logged_in" => SessionOK(login, holder, password, passkey)
      BY <1>6, <3>1 DEF SessionOK, Current
    <3>3. SessionOK(NoSessionRow, holder, password, passkey)
      BY <2>3 DEF SessionOK
    <3> HIDE DEF login
    <3> QED
      BY <2>6, <3>2, <3>3
  <2>12. \A u \in Users : ~ LockedOut(u, password, passkey)
    BY <2>1, <2>2, <2>5 DEF LockedOut, ActiveOf
  <2> QED
    BY <1>1, <1>2, <2>9, <2>10, <2>11, <2>12, OtherFrames DEF CredentialInv
<1> QED
  BY <1>7, <1>8 DEF AccountsInv

LEMMA AccountsInvariant == Spec => []AccountsInv
BY AccountsInitially, AccountsStep, PTL DEF Spec

-----------------------------------------------------------------------------
(* What follows *)

\* An identifier is active for at most one user and a code is exchanged once, in
\* time and for the user who gave the proof, however sign-ups, resets and the
\* worker overlap.
THEOREM AccountsTellTheirStory == Spec => []AccountStory
<1>1. AccountsInv => AccountStory
  BY AtMostOne DEF AccountsInv, ChallengeInv, ChallengeOK, AccountStory
<1> QED
  BY <1>1, AccountsInvariant, PTL

\* A session that outlives the credential it rests on is of a login that had
\* checked it when the reset or the removal committed.
THEOREM ResetsEndSessions == Spec => []ResetEndsSessions
<1>1. ASSUME AccountsInv PROVE ResetEndsSessions
  <2> SUFFICES ASSUME NEW s \in SessionIds, Live(s), Superseded(s)
               PROVE  session[s].late
    BY DEF ResetEndsSessions
  <2>1. SessionOK(session[s], holder, password, passkey)
    BY <1>1 DEF AccountsInv, CredentialInv
  <2> QED
    BY <2>1 DEF SessionOK, Live, Superseded, Current, ActiveOf
<1> QED
  BY <1>1, AccountsInvariant, PTL

\* The bootstrap grant adds a passkey beside another, and the last way into an
\* account goes, only when two requests of its user overlap.
THEOREM CredentialsTellTheirStory == Spec => []CredentialStory
<1>1. ASSUME AccountsInv PROVE CredentialStory
  <2>1. \A p \in PasskeyIds : passkey[p].by = "bootstrap" /\ ~passkey[p].first => passkey[p].raced
    BY <1>1 DEF AccountsInv, CredentialInv, PasskeyOK
  <2>2. ASSUME NEW u \in Users, PasskeysOf(u) # {}, ActivePasskeys(u) = {}, password[u] = 0
        PROVE  \E p \in PasskeysOf(u) : passkey[p].crossed
    <3>1. LockedOut(u, password, passkey)
      BY <2>2 DEF LockedOut, PasskeysOf, ActivePasskeys, ActiveOf
    <3> QED
      BY <1>1, <3>1 DEF AccountsInv, CredentialInv, PasskeysOf
  <2> QED
    BY <2>1, <2>2 DEF CredentialStory
<1> QED
  BY <1>1, AccountsInvariant, PTL

\* No assertion takes a sign count back, and none touches a removed passkey.
THEOREM SignCountsKept == Spec => CountsNeverFall
BY AccountsInvariant, AccountsStep, PTL DEF Spec, CountsNeverFall
=============================================================================
