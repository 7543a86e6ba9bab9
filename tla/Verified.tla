------------------------------ MODULE Verified ------------------------------
(***************************************************************************)
(* backend/internal/verified and backend/internal/reviews: two users prove *)
(* that they met, and one of them rates it.                                *)
(*                                                                         *)
(* The scope of a verification is an appointment, which the provider       *)
(* accepts first, or a flow of type transaction or delivery, which the     *)
(* provider opens.  The provider is issued a challenge; the requester who  *)
(* submits it in time completes the scope, and the verified interaction is *)
(* recorded with its event in one transaction.                             *)
(*                                                                         *)
(* Each request reads the clock once, early; expires_at is compared with   *)
(* that reading, not with the time of the write.  The clock counts whole   *)
(* seconds, the precision events carry times with.  The tokens of two      *)
(* challenges are taken to differ.                                         *)
(***************************************************************************)
EXTENDS Requests, FiniteSets

CONSTANTS
  Appointments, Flows,   \* ids of scopes that may be created
  ChallengeIds,          \* ids that may be minted
  TTL,                   \* Policy.ChallengeTTL
  MaxTime,               \* bound: the last clock value
  Ratings,               \* the ratings given: a subset of MinRating..MaxRating
  Window                 \* Policy.CreationWindow

ASSUME VerifiedAssumption ==
  /\ Appointments \cap Flows = {}
  /\ TTL \in Nat \ {0} /\ MaxTime \in Nat \ {0}
  /\ Ratings \subseteq 1..5 /\ Window \in Nat \ {0}

Scopes == Appointments \cup Flows

VARIABLES
  now,
  scope,         \* status of each appointment and flow
  challenge,     \* per id: "none", or its scope, expires_at and whether consumed
  interaction,   \* verified_at of the interaction of each scope; 0: none
  review         \* per scope: NoReview, or the ratings and created_at

NoChallenge == [of |-> "none"]

VerifiedInit ==
  /\ now = 1
  /\ scope = [s \in Scopes |-> "none"]
  /\ challenge = [k \in ChallengeIds |-> NoChallenge]
  /\ interaction = [s \in Scopes |-> 0]

NoReview == [at |-> 0]

ReviewsInit == review = [s \in Scopes |-> NoReview]

Tick ==
  /\ now < MaxTime
  /\ now' = now + 1
  /\ UNCHANGED <<scope, challenge, interaction, call, published>>

\* The statuses in which a scope can be verified.
Verifiable(s) == scope[s] = IF s \in Appointments THEN "accepted" ELSE "open"

Issued == {k \in ChallengeIds : challenge[k] # NoChallenge}
ChallengesOf(s) == {k \in Issued : challenge[k].of = s}

-----------------------------------------------------------------------------
(* Appointments *)

AppointmentCreate(s) ==
  /\ scope[s] = "none"
  /\ scope' = [scope EXCEPT ![s] = "requested"]
  /\ UNCHANGED <<now, challenge, interaction, call, published>>

\* AcceptAppointment, RejectAppointment and CancelAppointment, by the status
\* they write: the statuses they start from.
AppointmentFrom(next) == IF next = "cancelled" THEN {"requested", "accepted"} ELSE {"requested"}

AppointmentRead(c, s, next) ==
  /\ call[c] = Idle
  /\ scope[s] \in AppointmentFrom(next)
  /\ Proceed(c, [op |-> "appointment", id |-> s, from |-> scope[s], next |-> next])
  /\ UNCHANGED <<now, scope, challenge, interaction, published>>

\* Mutant: UPDATE ... WHERE id, without the status that was read.
AppointmentWriteBlind(c) ==
  /\ call[c].op = "appointment"
  /\ scope' = [scope EXCEPT ![call[c].id] = call[c].next]
  /\ Return(c)
  /\ UNCHANGED <<now, challenge, interaction, published>>

\* UpdateAppointmentStatus: UPDATE ... WHERE id AND status.
AppointmentWrite(c) ==
  /\ call[c].op = "appointment"
  /\ scope' = [scope EXCEPT ![call[c].id] = IF @ = call[c].from THEN call[c].next ELSE @]
  /\ Return(c)
  /\ UNCHANGED <<now, challenge, interaction, published>>

-----------------------------------------------------------------------------
(* Challenges *)

\* StartVerification, up to the transaction.
StartCheck(c, s) ==
  /\ call[c] = Idle
  /\ Verifiable(s)
  /\ Proceed(c, [op |-> "replace", id |-> s, at |-> now])
  /\ UNCHANGED <<now, scope, challenge, interaction, published>>

\* ReplaceChallenge: its UPDATE sees the challenges committed by now ...
ReplaceBegin(c) ==
  /\ call[c].op = "replace"
  /\ Proceed(c, [op |-> "replacing", id |-> call[c].id, at |-> call[c].at,
                 seen |-> ChallengesOf(call[c].id)])
  /\ UNCHANGED <<now, scope, challenge, interaction, published>>

NewChallenge(s, at) == [of |-> s, expires |-> at + TTL, consumed |-> FALSE]

\* ... and at the commit those of them that are still live end, and the new
\* one exists.  The appointment is not locked.
ReplaceCommit(c) ==
  LET s == call[c].id
      at == call[c].at
      live == {k \in call[c].seen : ~challenge[k].consumed /\ challenge[k].expires > at}
  IN
  /\ call[c].op = "replacing"
  /\ \E new \in ChallengeIds \ Issued :
       challenge' = [k \in ChallengeIds |->
         IF k = new THEN NewChallenge(s, at)
         ELSE IF k \in live THEN [challenge[k] EXCEPT !.expires = at]
         ELSE challenge[k]]
  /\ Return(c)
  /\ UNCHANGED <<now, scope, interaction, published>>

\* startFlowVerification: the flow and its only challenge.
FlowStart(s) ==
  /\ scope[s] = "none"
  /\ scope' = [scope EXCEPT ![s] = "open"]
  /\ \E new \in ChallengeIds \ Issued : challenge' = [challenge EXCEPT ![new] = NewChallenge(s, now)]
  /\ UNCHANGED <<now, interaction, call, published>>

-----------------------------------------------------------------------------
(* Completion *)

\* FinishVerification and FinishFlowVerification, up to the transaction; a
\* wrong token ends with an error.
FinishCheck(c, k) ==
  /\ call[c] = Idle
  /\ challenge[k] # NoChallenge
  /\ Verifiable(challenge[k].of)
  /\ Proceed(c, [op |-> "finish", id |-> challenge[k].of, token |-> k, at |-> now])
  /\ UNCHANGED <<now, scope, challenge, interaction, published>>

Usable(k, at) == ~challenge[k].consumed /\ at < challenge[k].expires

\* Mutant: the challenge is left usable.
FinishedUnconsumed(c) ==
  LET s == call[c].id IN
  /\ scope' = [scope EXCEPT ![s] = "completed"]
  /\ interaction' = [interaction EXCEPT ![s] = call[c].at]
  /\ published' = published \cup {<<"interaction", s>>}
  /\ UNCHANGED challenge

\* consumeChallenge, the status, the interaction and its event
Finished(c) ==
  LET s == call[c].id IN
  /\ challenge' = [challenge EXCEPT ![call[c].token].consumed = TRUE]
  /\ scope' = [scope EXCEPT ![s] = "completed"]
  /\ interaction' = [interaction EXCEPT ![s] = call[c].at]
  /\ published' = published \cup {<<"interaction", s>>}

\* CompleteVerification and CompleteFlowVerification: the scope and the
\* challenge are locked and checked again.
FinishWrite(c) ==
  /\ call[c].op = "finish"
  /\ IF Verifiable(call[c].id) /\ Usable(call[c].token, call[c].at)
       THEN Finished(c)
       ELSE UNCHANGED <<scope, challenge, interaction, published>>
  /\ Return(c)
  /\ UNCHANGED now

VerifiedNext(c) ==
  \/ \E s \in Appointments :
       \/ AppointmentCreate(s) \/ StartCheck(c, s)
       \/ \E next \in {"accepted", "rejected", "cancelled"} : AppointmentRead(c, s, next)
  \/ \E s \in Flows : FlowStart(s)
  \/ \E k \in ChallengeIds : FinishCheck(c, k)
  \/ AppointmentWrite(c) \/ ReplaceBegin(c) \/ ReplaceCommit(c) \/ FinishWrite(c)

-----------------------------------------------------------------------------
(* Reviews: the requester of a verified inspection rates the listing and the *)
(* provider, once, within a window.                                          *)

\* Create: the interaction is an inspection, recent and not reviewed yet.
Eligible(s) ==
  /\ s \in Appointments
  /\ interaction[s] # 0
  /\ now < interaction[s] + Window
  /\ review[s] = NoReview

ReviewCheck(c, s) ==
  /\ call[c] = Idle
  /\ Eligible(s)
  /\ \E accuracy, service \in Ratings :
       Proceed(c, [op |-> "review", id |-> s,
                   row |-> [at |-> now, accuracy |-> accuracy, service |-> service]])
  /\ UNCHANGED <<now, scope, challenge, interaction, review, published>>

\* InsertReview: unique per interaction, with its event.
ReviewWrite(c) ==
  LET s == call[c].id IN
  /\ call[c].op = "review"
  /\ IF review[s] = NoReview
       THEN /\ review' = [review EXCEPT ![s] = call[c].row]
            /\ published' = published \cup {<<"review", s>>}
       ELSE UNCHANGED <<review, published>>
  /\ Return(c)
  /\ UNCHANGED <<now, scope, challenge, interaction>>

ReviewsNext(c) == ReviewWrite(c) \/ \E s \in Scopes : ReviewCheck(c, s)
=============================================================================
