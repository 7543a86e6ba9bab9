-------------------------------- MODULE Eids --------------------------------
(***************************************************************************)
(* backend/internal/eids: verification of one listing with the authority.  *)
(* An owner starts an attempt and asks the gateway; the authority's signed *)
(* decision about an attempt comes on its own, late, twice or in the wrong *)
(* order.  Expiry is only written when somebody reads the listing's latest *)
(* attempt, which is the one that was written last.                        *)
(***************************************************************************)
EXTENDS Requests, FiniteSets

CONSTANTS
  Attempts,      \* numbered in the order they are created
  MaxVersion,    \* bound: versions of an attempt
  MaxDay,        \* bound: the last day
  MaxDecisions   \* bound: decisions the authority signs

ASSUME EidsAssumption == Attempts \subseteq Nat \ {0} /\ MaxVersion \in Nat

VARIABLES
  attempt,     \* eids.verifications
  latest,      \* the attempt with the greatest updated_at
  subjects,    \* eids.subject_refs: the attempts with a reference
  decisions,   \* what the authority has signed: any of it may arrive at any time
  replays,     \* eids.tr_signed_decisions
  today        \* now, in days

eidsVars == <<attempt, latest, subjects, decisions, replays, today>>

NoAttempt == [status |-> "none", until |-> 0, ver |-> 0]
NewPending == [NoAttempt EXCEPT !.status = "pending"]

EidsInit ==
  /\ attempt = [a \in Attempts |-> NoAttempt]
  /\ latest = 0
  /\ subjects = {} /\ decisions = {} /\ replays = {}
  /\ today = 1

\* Status.Open
Open(a) == attempt[a].status \in {"pending", "in_progress", "unavailable"}

\* allowedTransition
AllowedTransition(from, to) ==
  from = to \/ from \in {"pending", "unavailable"} \/ (from = "in_progress" /\ to # "pending")

\* IsExpired; Effective
IsExpired(row) == row.until # 0 /\ today >= row.until
Effective(row) ==
  IF IsExpired(row) /\ row.status \notin {"expired", "failed"} THEN [row EXCEPT !.status = "expired"] ELSE row

\* IsVerified: the status of the latest attempt, once its expiry is written
Verified == latest # 0 /\ Effective(attempt[latest]).status = "verified"

\* PostgresStore.Update: the attempt is still the one read.
Current(a, row) == attempt[a].ver = row.ver

\* A write beyond the bound is not tried.
Bounded(a, row) == Current(a, row) => row.ver < MaxVersion

\* Every write gives the greatest updated_at.
Written(row) == [row EXCEPT !.ver = @ + 1]
UpdateAttempt(a, row) ==
  /\ attempt' = [attempt EXCEPT ![a] = Written(row)]
  /\ latest' = a

-----------------------------------------------------------------------------
(* The owner *)

\* GetOpen, and on with the attempt that was read, if there is one
GetOpen(c, otherwise) ==
  IF \E a \in Attempts : Open(a)
    THEN LET a == CHOOSE a \in Attempts : Open(a) IN Proceed(c, [op |-> "retry", id |-> a, row |-> attempt[a]])
    ELSE Proceed(c, otherwise)

\* startKind: GetOpen ...
StartForOwner(c) ==
  /\ call[c] = Idle
  /\ GetOpen(c, [op |-> "latest", then |-> "create"])
  /\ UNCHANGED <<published, eidsVars>>

\* CurrentForOwner, and IsVerified for the publish gate of module Listings
CurrentForOwner(c) ==
  /\ call[c] = Idle
  /\ Proceed(c, [op |-> "latest", then |-> "answer"])
  /\ UNCHANGED <<published, eidsVars>>

\* ... latestEffective: an expiry is still to be written, the attempt is
\* verified, or a new attempt is made.
LatestEffective(c) ==
  /\ call[c].op = "latest"
  /\ IF latest # 0 /\ Effective(attempt[latest]) # attempt[latest]
       THEN Proceed(c, [op |-> "expire", id |-> latest, row |-> attempt[latest], then |-> call[c].then])
       ELSE IF call[c].then = "answer" \/ Verified
         THEN Return(c)
         ELSE Proceed(c, [op |-> "create"])
  /\ UNCHANGED <<published, eidsVars>>

\* persistEffective
PersistEffective(c) ==
  /\ call[c].op = "expire" /\ Bounded(call[c].id, call[c].row)
  /\ IF Current(call[c].id, call[c].row)
       THEN /\ UpdateAttempt(call[c].id, Effective(call[c].row))
            /\ IF call[c].then = "create" THEN Proceed(c, [op |-> "create"]) ELSE Return(c)
       ELSE Return(c) /\ UNCHANGED <<attempt, latest>>
  /\ UNCHANGED <<published, subjects, decisions, replays, today>>

\* Create: the unique index on the open attempt lets it.
MayCreate == \A a \in Attempts : ~Open(a)

\* NewPending and Create ...
CreateAttempt(c, a) ==
  /\ call[c].op = "create"
  /\ attempt[a] = NoAttempt /\ \A b \in Attempts : b < a => attempt[b] # NoAttempt
  /\ IF MayCreate
       THEN UpdateAttempt(a, NewPending) /\ Proceed(c, [op |-> "retry", id |-> a, row |-> Written(NewPending)])
       ELSE Proceed(c, [op |-> "lost"]) /\ UNCHANGED <<attempt, latest>>
  /\ UNCHANGED <<published, subjects, decisions, replays, today>>

\* ... the loser of a race goes on with the winner's attempt, if it is open still.
ReadWinner(c) ==
  /\ call[c].op = "lost"
  /\ GetOpen(c, Idle)
  /\ UNCHANGED <<published, eidsVars>>

\* retryOrReturn: ensureSubjectRef, then the gateway unless it is under way.
\* persistEffective has nothing to write, as an open attempt has no end yet.
RetryOrReturn(c) ==
  /\ call[c].op = "retry"
  /\ subjects' = subjects \cup {call[c].id}
  /\ IF call[c].row.status \in {"pending", "unavailable"}
       THEN Proceed(c, [call[c] EXCEPT !.op = "gateway"])
       ELSE Return(c)
  /\ UNCHANGED <<published, attempt, latest, decisions, replays, today>>

\* ApplyOutcome; an outcome that is not valid, or an error, is "unavailable"
Outcomes == {"verified", "failed", "unavailable", "in_progress"}
ApplyOutcome(row, outcome, until) ==
  [row EXCEPT !.status = outcome, !.until = IF outcome = "verified" /\ until # 0 THEN until ELSE @]

\* invokeGateway
InvokeGateway(c, outcome, until) ==
  /\ call[c].op = "gateway" /\ Bounded(call[c].id, call[c].row)
  /\ AllowedTransition(call[c].row.status, outcome)
  /\ IF Current(call[c].id, call[c].row)
       THEN UpdateAttempt(call[c].id, ApplyOutcome(call[c].row, outcome, until))
       ELSE UNCHANGED <<attempt, latest>>
  /\ Return(c)
  /\ UNCHANGED <<published, subjects, decisions, replays, today>>

-----------------------------------------------------------------------------
(* The authority *)

\* Issuer.Issue, at the authority: it decides about attempts it was given a reference to.
Issue(a, approved) ==
  /\ a \in subjects
  /\ Cardinality(decisions) < MaxDecisions
  /\ decisions' = decisions \cup {[id |-> a, issued |-> today, approved |-> approved, until |-> today + 2]}
  /\ UNCHANGED <<call, published, attempt, latest, subjects, replays, today>>

\* Verifier.Verify, checkTime: not older than a day, and still valid
Acceptable(d) == today <= d.issued + 1 /\ today <= d.until

\* IngestSignedDecision: a repeated one is answered; LookupSubject locks the subject ...
IngestSignedDecision(c, d) ==
  /\ call[c] = Idle
  /\ d \in decisions \ replays /\ Acceptable(d)
  /\ \A e \in Clients : call[e].op = "ingest" => call[e].decision.id # d.id
  /\ Proceed(c, [op |-> "ingest", decision |-> d, row |-> attempt[d.id]])
  /\ UNCHANGED <<published, eidsVars>>

\* ApplySignedDecision, on an attempt in any status
ApplySignedDecision(row, d) ==
  IF d.approved THEN [row EXCEPT !.status = "verified", !.until = d.until]
                ELSE [row EXCEPT !.status = "failed"]

\* LatestReplayIssuedAt: one of the same subject that was issued later, or at the same time
Overtaken(d) == \E r \in replays : r.id = d.id /\ r.issued > d.issued
Tied(d) == \E r \in replays : r.id = d.id /\ r.issued = d.issued

\* ... an overtaken decision is only recorded, a tied one refused, and any other
\* recorded and applied.  An attempt that was written meanwhile stays as it is:
\* replayInsertErr finds the replay that was just inserted, and the transaction
\* commits it alone.
ApplyReplayAndUpdate(c) ==
  /\ call[c].op = "ingest"
  /\ LET d == call[c].decision
         row == call[c].row
     IN \/ /\ Overtaken(d)
           /\ replays' = replays \cup {d}
           /\ UNCHANGED <<attempt, latest>>
        \/ /\ ~Overtaken(d) /\ Tied(d)
           /\ UNCHANGED <<replays, attempt, latest>>
        \/ /\ ~Overtaken(d) /\ ~Tied(d) /\ Bounded(d.id, row)
           /\ replays' = replays \cup {d}
           /\ IF Current(d.id, row)
                THEN UpdateAttempt(d.id, ApplySignedDecision(row, d))
                ELSE UNCHANGED <<attempt, latest>>
  /\ Return(c)
  /\ UNCHANGED <<published, subjects, decisions, today>>

\* time.Now
DayBreaks ==
  /\ today < MaxDay
  /\ today' = today + 1
  /\ UNCHANGED <<call, published, attempt, latest, subjects, decisions, replays>>

EidsNext ==
  \/ DayBreaks
  \/ \E a \in Attempts, approved \in BOOLEAN : Issue(a, approved)
  \/ \E c \in Clients :
       \/ StartForOwner(c) \/ CurrentForOwner(c) \/ LatestEffective(c) \/ PersistEffective(c)
       \/ \E a \in Attempts : CreateAttempt(c, a)
       \/ ReadWinner(c) \/ RetryOrReturn(c)
       \/ \E outcome \in Outcomes, until \in {0, today + 1} : InvokeGateway(c, outcome, until)
       \/ \E d \in decisions : IngestSignedDecision(c, d)
       \/ ApplyReplayAndUpdate(c)

-----------------------------------------------------------------------------
\* The attempt follows decision d.
Follows(row, d) ==
  IF d.approved THEN row.status \in {"verified", "expired"} /\ row.until = d.until ELSE row.status = "failed"

\* d was issued last of those that came in about its attempt.
LastIssued(d, ds) == \A r \in ds : r.id = d.id /\ r.issued >= d.issued => r = d

\* A listing has one open attempt at most, and an open attempt does not end by itself.
EidsStory ==
  /\ \A a, b \in Attempts : Open(a) /\ Open(b) => a = b
  /\ \A a \in Attempts : Open(a) => attempt[a].until = 0

\* A verified listing stops being verified only when its validity ends, by a
\* decision against it, or because of another attempt: one that was still open,
\* or one that a request made or expired after looking at the listing earlier.
VerifiedUntil ==
  Verified /\ ~Verified' =>
    \/ IsExpired(attempt[latest])'
    \/ \E d \in replays' \ replays : ~d.approved /\ attempt'[d.id].status = "failed"
    \/ \E a \in Attempts \ {latest} : Open(a)
    \/ \E c \in Clients : call[c].op \in {"create", "expire"} /\ call'[c] # call[c]

\* An attempt follows the decision issued last of those that came in about it,
\* in whatever order they came: from then on, whatever the gateway says, and at
\* once, unless another request wrote the attempt after this one was read for the
\* decision.  Such a decision is recorded, answered as done, and never applied.
DecisionsAreFollowed ==
  /\ \A d \in replays :
       LastIssued(d, replays') /\ Follows(attempt[d.id], d) => Follows(attempt'[d.id], d)
  /\ \A d \in replays' \ replays :
       \/ LastIssued(d, replays') => Follows(attempt'[d.id], d)
       \/ \E c \in Clients : call[c].op = "ingest" /\ call[c].decision = d /\ call[c].row # attempt[d.id]

EidsSteps == VerifiedUntil /\ DecisionsAreFollowed
=============================================================================
