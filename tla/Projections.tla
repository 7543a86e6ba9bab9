---------------------------- MODULE Projections -----------------------------
(***************************************************************************)
(* backend/internal/reviewaggregates and backend/internal/trust: relay     *)
(* workers apply the events of verified and reviews to derived rows.  An   *)
(* event is handled at least once, in any order, perhaps by two workers at *)
(* the same time.  Each projector remembers the events it applied in the   *)
(* transaction that applies them.  A transaction of the trust projector    *)
(* locks the profile of the requester and then that of the provider; when  *)
(* two wait for each other PostgreSQL aborts one.                          *)
(***************************************************************************)
EXTENDS Verified, FiniteSetsExt

CONSTANTS
  Workers,
  Users, Listings,
  Requester, Provider, ListingOf,    \* of each scope
  VerifiedMin, EstablishedMin,       \* LevelPolicy
  MaxLost                            \* bound: handler runs that fail or are lost

\* LevelPolicy.Validate, and a scope has two participants.
ASSUME ProjectionsAssumption ==
  /\ Requester \in [Scopes -> Users] /\ Provider \in [Scopes -> Users]
  /\ ListingOf \in [Scopes -> Listings]
  /\ VerifiedMin \in Nat \ {0} /\ EstablishedMin \in Nat /\ EstablishedMin > VerifiedMin
  /\ \A s \in Scopes : Requester[s] # Provider[s]
  /\ MaxLost \in Nat

VARIABLES
  job,        \* the handler run of each worker: the event and the next step
  handled,    \* events whose outbox row is completed
  applied,    \* processed_events of each projector
  accuracy,   \* listing_accuracy, per listing
  service,    \* provider_service, per provider
  profile,    \* trust.user_profiles
  history,    \* trust.user_verified_history: scope and participant
  lost

projectionVars == <<job, handled, applied, accuracy, service, profile, history, lost>>
sourceVars == <<now, scope, challenge, interaction, review, call, published>>

ZeroSummary == [count |-> 0, sum |-> 0]
ZeroProfile == [interactions |-> 0, last |-> 0, level |-> "new", written |-> 0,
                rated |-> ZeroSummary]
NoJob == [step |-> "idle"]

ProjectionsInit ==
  /\ job = [w \in Workers |-> NoJob]
  /\ handled = {}
  /\ applied = [aggregates |-> {}, trust |-> {}]
  /\ accuracy = [l \in Listings |-> ZeroSummary]
  /\ service = [u \in Users |-> ZeroSummary]
  /\ profile = [u \in Users |-> ZeroProfile]
  /\ history = {}
  /\ lost = 0

IsReview(ev) == ev[1] = "review"
Bump(summary, rating) == [count |-> summary.count + 1, sum |-> summary.sum + rating]

\* LevelPolicy.Level
Level(n) ==
  IF n >= EstablishedMin THEN "established" ELSE IF n >= VerifiedMin THEN "verified" ELSE "new"

To(w, next) == job' = [job EXCEPT ![w] = [event |-> job[w].event, step |-> next]]

\* The handler returned an error, or nothing: its transaction is rolled back and
\* the row is not completed, so that the event will be handed out again.
Failed(w) ==
  /\ job' = [job EXCEPT ![w] = NoJob]
  /\ UNCHANGED handled

-----------------------------------------------------------------------------
\* The relay hands an event to a worker; a review goes to both projectors.
Deliver(w, ev) ==
  /\ job[w] = NoJob
  /\ job' = [job EXCEPT ![w] =
       [event |-> ev, step |-> IF IsReview(ev) THEN "aggregate" ELSE "mark"]]
  /\ UNCHANGED <<sourceVars, handled, applied, accuracy, service, profile, history, lost>>

\* Mutant: an event that was applied before is an error of the handler.
AggregateOnce(w) ==
  LET s == job[w].event[2] IN
  /\ job[w].step = "aggregate"
  /\ IF job[w].event \in applied.aggregates
       THEN Failed(w) /\ UNCHANGED <<applied, accuracy, service>>
       ELSE /\ applied' = [applied EXCEPT !.aggregates = @ \cup {job[w].event}]
            /\ accuracy' = [accuracy EXCEPT ![ListingOf[s]] = Bump(@, review[s].accuracy)]
            /\ service' = [service EXCEPT ![Provider[s]] = Bump(@, review[s].service)]
            /\ To(w, "mark") /\ UNCHANGED handled
  /\ UNCHANGED <<sourceVars, profile, history, lost>>

\* reviewaggregates: ApplyVerified.  Every transaction locks a listing row and
\* then a provider row, so none can wait in a circle.
Aggregate(w) ==
  LET s == job[w].event[2] IN
  /\ job[w].step = "aggregate"
  /\ IF job[w].event \in applied.aggregates
       THEN UNCHANGED <<applied, accuracy, service>>
       ELSE /\ applied' = [applied EXCEPT !.aggregates = @ \cup {job[w].event}]
            /\ accuracy' = [accuracy EXCEPT ![ListingOf[s]] = Bump(@, review[s].accuracy)]
            /\ service' = [service EXCEPT ![Provider[s]] = Bump(@, review[s].service)]
  /\ To(w, "mark")
  /\ UNCHANGED <<sourceVars, handled, profile, history, lost>>

-----------------------------------------------------------------------------
(* trust: ApplyCompleted and ApplyVerifiedReview *)

\* Events that change profiles: reviews, and interactions that count.
Counts(ev) == IsReview(ev) \/ ev[2] \in Appointments

\* The profile a transaction locks next, and those it has locked.
NextLock(w) == IF job[w].step = "first" THEN Requester[job[w].event[2]] ELSE Provider[job[w].event[2]]
Locks(w) ==
  CASE job[w].step = "second" -> {Requester[job[w].event[2]]}
    [] job[w].step = "commit" /\ Counts(job[w].event) ->
         {Requester[job[w].event[2]], Provider[job[w].event[2]]}
    [] OTHER -> {}
InTrust(w) == job[w].step \in {"first", "second", "commit"}

\* Mutant: an event that another transaction is inserting counts as processed.
TrustMarkNoWait(w) ==
  /\ job[w].step = "mark"
  /\ To(w, IF \/ job[w].event \in applied.trust
              \/ \E v \in Workers : InTrust(v) /\ job[v].event = job[w].event
           THEN "settle"
           ELSE IF Counts(job[w].event) THEN "first" ELSE "commit")
  /\ UNCHANGED <<sourceVars, handled, applied, accuracy, service, profile, history, lost>>

\* markProcessed: INSERT ... ON CONFLICT DO NOTHING waits for a transaction
\* that is inserting the same event.
TrustMark(w) ==
  /\ job[w].step = "mark"
  /\ \A v \in Workers : InTrust(v) => job[v].event # job[w].event
  /\ To(w, IF job[w].event \in applied.trust THEN "settle"
           ELSE IF Counts(job[w].event) THEN "first" ELSE "commit")
  /\ UNCHANGED <<sourceVars, handled, applied, accuracy, service, profile, history, lost>>

\* The upsert of one profile row, which is not visible before the commit.
TrustLock(w) ==
  /\ job[w].step \in {"first", "second"}
  /\ \A v \in Workers \ {w} : NextLock(w) \notin Locks(v)
  /\ To(w, IF job[w].step = "first" THEN "second" ELSE "commit")
  /\ UNCHANGED <<sourceVars, handled, applied, accuracy, service, profile, history, lost>>

\* Mutant: the level is that of the counter before the increment.
BumpProfileOldLevel(p, at) ==
  [p EXCEPT !.interactions = @ + 1, !.last = IF at > @ THEN at ELSE @,
            !.level = Level(p.interactions)]

\* bumpProfile: the counter, the later time, and the level of the new counter.
BumpProfile(p, at) ==
  [p EXCEPT !.interactions = @ + 1, !.last = IF at > @ THEN at ELSE @,
            !.level = Level(p.interactions + 1)]

\* insertHistory of both participants: the rows an interaction adds.
HistoryRows(ev) ==
  IF IsReview(ev) THEN {} ELSE {<<ev[2], Requester[ev[2]]>>, <<ev[2], Provider[ev[2]]>>}

\* bumpReviewer and bumpProviderService, or bumpProfile of each participant
\* whose history row is new.
Applied(u, ev) ==
  LET s == ev[2] IN
  CASE IsReview(ev) /\ u = Requester[s] -> [profile[u] EXCEPT !.written = @ + 1]
    [] IsReview(ev) /\ u = Provider[s] -> [profile[u] EXCEPT !.rated = Bump(@, review[s].service)]
    [] Counts(ev) /\ <<s, u>> \in HistoryRows(ev) \ history -> BumpProfile(profile[u], interaction[s])
    [] OTHER -> profile[u]

TrustCommit(w) ==
  /\ job[w].step = "commit"
  /\ applied' = [applied EXCEPT !.trust = @ \cup {job[w].event}]
  /\ profile' = [u \in Users |-> Applied(u, job[w].event)]
  /\ history' = history \cup HistoryRows(job[w].event)
  /\ To(w, "settle")
  /\ UNCHANGED <<sourceVars, handled, accuracy, service, lost>>

-----------------------------------------------------------------------------
\* Every handler returned nil: the outbox row is completed.
Settle(w) ==
  /\ job[w].step = "settle"
  /\ handled' = handled \cup {job[w].event}
  /\ job' = [job EXCEPT ![w] = NoJob]
  /\ UNCHANGED <<sourceVars, applied, accuracy, service, profile, history, lost>>

\* A run fails or is lost with its worker.
HandlerLost(w) ==
  /\ job[w] # NoJob
  /\ lost < MaxLost
  /\ lost' = lost + 1
  /\ Failed(w)
  /\ UNCHANGED <<sourceVars, applied, accuracy, service, profile, history>>

\* PostgreSQL aborts one transaction of a circle of waiting ones, and withTx
\* returns the error.
WaitsFor(v, u) == job[v].step = "second" /\ NextLock(v) \in Locks(u)
DeadlockAbort(w) ==
  /\ \E S \in SUBSET Workers :
       w \in S /\ \A v \in S : \E u \in S : u # v /\ WaitsFor(v, u)
  /\ Failed(w)
  /\ UNCHANGED <<sourceVars, applied, accuracy, service, profile, history, lost>>

ProjectionsNext(w) ==
  \/ \E ev \in published \ handled : Deliver(w, ev)
  \/ Aggregate(w) \/ TrustMark(w) \/ TrustLock(w) \/ TrustCommit(w) \/ Settle(w)
  \/ HandlerLost(w) \/ DeadlockAbort(w)
=============================================================================
