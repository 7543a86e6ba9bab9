----------------------------- MODULE Reputation -----------------------------
(***************************************************************************)
(* Verified interactions, the reviews written on them, and the projections *)
(* both are counted in, with requests and relay workers interleaved.       *)
(***************************************************************************)
EXTENDS Projections, TLC

Init ==
  /\ VerifiedInit /\ ReviewsInit /\ ProjectionsInit
  /\ call = [c \in Clients |-> Idle]
  /\ published = {}

Next ==
  \/ Tick /\ UNCHANGED <<review, projectionVars>>
  \/ \E c \in Clients : VerifiedNext(c) /\ UNCHANGED <<review, projectionVars>>
  \/ \E c \in Clients : ReviewsNext(c) /\ UNCHANGED projectionVars
  \/ \E w \in Workers : ProjectionsNext(w)

vars == <<sourceVars, projectionVars>>

Spec == Init /\ [][Next]_vars

Work(w) ==
  \/ Aggregate(w) \/ TrustMark(w) \/ TrustLock(w) \/ TrustCommit(w) \/ Settle(w)
  \/ DeadlockAbort(w)

\* The relay keeps handing out an event until it is handled, a handler runs to
\* its end, and a row lock that is free again and again is granted (PostgreSQL
\* queues the waiting transactions; the aborted one comes back after a
\* backoff).
FairSpec ==
  /\ Spec
  /\ \A w \in Workers : SF_vars(Work(w)) /\ SF_vars(job[w].step = "second" /\ TrustLock(w))
  /\ \A ev \in {"interaction", "review"} \X Scopes :
       WF_vars(\E w \in Workers : ev \in published \ handled /\ Deliver(w, ev))

-----------------------------------------------------------------------------
TypeOK ==
  /\ now \in 1..MaxTime
  /\ \A s \in Appointments :
       scope[s] \in {"none", "requested", "accepted", "rejected", "cancelled", "completed"}
  /\ \A s \in Flows : scope[s] \in {"none", "open", "completed"}
  /\ \A k \in Issued : challenge[k].of \in Scopes /\ challenge[k].consumed \in BOOLEAN
  /\ interaction \in [Scopes -> 0..MaxTime]
  /\ \A s \in Scopes : review[s] # NoReview => review[s].accuracy \in Ratings
  /\ published \subseteq {"interaction", "review"} \X Scopes
  /\ handled \subseteq published
  /\ history \subseteq Scopes \X Users
  /\ lost \in 0..MaxLost

Consumed(s) == {k \in ChallengesOf(s) : challenge[k].consumed}

\* FinishVerification racing with itself, with a cancellation and with a new
\* challenge: a scope is completed exactly when its interaction is recorded,
\* its event exists and exactly one of its challenges is consumed.
InteractionStory ==
  \A s \in Scopes :
    LET completed == scope[s] = "completed" IN
    /\ completed <=> interaction[s] # 0
    /\ completed <=> <<"interaction", s>> \in published
    /\ Cardinality(Consumed(s)) = IF completed THEN 1 ELSE 0

\* What was verified, rejected or cancelled stays so, and what a review or an
\* interaction says never changes, whatever requests are still in flight.
OutcomesStay ==
  \A s \in Scopes :
     /\ scope[s] \in {"rejected", "cancelled", "completed"} => scope'[s] = scope[s]
     /\ interaction[s] # 0 => interaction'[s] = interaction[s]
     /\ review[s] # NoReview => review'[s] = review[s]
OutcomesAreFinal == [][OutcomesStay]_vars

-----------------------------------------------------------------------------
(* What the projections are when rebuilt from the tables of verified and   *)
(* reviews, over the events that a projector has applied.                  *)

ReviewsOf(events) == {ev[2] : ev \in {e \in events : IsReview(e)}}
InspectionsOf(events) == {ev[2] : ev \in {e \in events : ~IsReview(e)}} \cap Appointments

\* Ratings are in 1..5, so their sum follows from how often each was given.
Given(ratings, r) == Cardinality({s \in DOMAIN ratings : ratings[s] = r})
Summary(ratings) ==
  [count |-> Cardinality(DOMAIN ratings),
   sum |-> Given(ratings, 1) + 2 * Given(ratings, 2) + 3 * Given(ratings, 3)
           + 4 * Given(ratings, 4) + 5 * Given(ratings, 5)]
Latest(S) == IF S = {} THEN 0 ELSE Max({interaction[s] : s \in S})

\* Of the events that were applied: the inspections of u, the reviews that u
\* wrote, and what the reviews say about a provider and about a listing.
Met(u, events) == {s \in InspectionsOf(events) : u \in {Requester[s], Provider[s]}}
Wrote(u, events) == {s \in ReviewsOf(events) : Requester[s] = u}
Served(u, events) == [s \in {v \in ReviewsOf(events) : Provider[v] = u} |-> review[s].service]
Described(l, events) == [s \in {v \in ReviewsOf(events) : ListingOf[v] = l} |-> review[s].accuracy]

RebuiltProfile(u, events) ==
  LET met == Cardinality(Met(u, events))
  IN [interactions |-> met, last |-> Latest(Met(u, events)), level |-> Level(met),
      written |-> Cardinality(Wrote(u, events)), rated |-> Summary(Served(u, events))]

\* Redelivered, reordered and concurrently handled events are counted exactly
\* once: profiles and rating summaries are what a rebuild from the reviews and
\* the interactions gives, and a level never disagrees with its counter.
ProjectionsAreRebuildable ==
  /\ history = UNION {HistoryRows(ev) : ev \in applied.trust}
  /\ \A u \in Users : profile[u] = RebuiltProfile(u, applied.trust)
  /\ \A l \in Listings : accuracy[l] = Summary(Described(l, applied.aggregates))
  /\ \A u \in Users : service[u] = Summary(Served(u, applied.aggregates))

Counted(ev) == ev \in applied.trust /\ (IsReview(ev) => ev \in applied.aggregates)

\* A completed outbox row has been counted by each of its projectors.
HandledIsCounted == \A ev \in handled : Counted(ev)

\* Every verified interaction and every review ends up counted, although runs
\* are lost and transactions that lock two profiles deadlock.
EventuallyCounted == <>[](\A ev \in published : Counted(ev))

-----------------------------------------------------------------------------
(* The instances that are checked: the two users meet in both roles, and     *)
(* clients, workers and challenge ids are interchangeable.                   *)

MCRequester == [s \in Scopes |-> IF s = "a1" THEN "ada" ELSE "bea"]
MCProvider == [s \in Scopes |-> IF s = "a1" THEN "bea" ELSE "ada"]
MCListingOf == [s \in Scopes |-> "l1"]

Symmetry == Permutations(Clients) \cup Permutations(Workers) \cup Permutations(ChallengeIds)
=============================================================================
