------------------------------ MODULE Dispatch ------------------------------
(***************************************************************************)
(* backend/internal/notifications: a domain event is materialized once per *)
(* recipient into one delivery row per channel; dispatcher loops claim the *)
(* rows that are due, check again that the user still wants them, send to  *)
(* every endpoint and write the outcome.  A row has no lease column: one   *)
(* that stays "processing" for the hold time is claimed again, and the     *)
(* write of an outcome asks only that the row is processing, not by whom.  *)
(*                                                                         *)
(* Time is left out: a row may be due, and a hold may have passed, at any  *)
(* moment.                                                                 *)
(***************************************************************************)
EXTENDS Integers, FiniteSets

CONSTANTS
  Deliveries,      \* rows of channel_deliveries of one recipient (intent and channel)
  Workers,         \* dispatcher loops
  Planners,        \* relay workers that materialize events
  NoDelivery,
  EndpointsOf,     \* of each row: push endpoints, or the one contact
  Unconfigured,    \* endpoints whose provider has no adapter
  Contacts,        \* endpoints that are an e-mail address or phone number
  BatchSize,
  Cap,             \* BoundedBackoff gives up at this attempt
  MaxClaims,       \* bound: attempts of one row saturate here
  MaxReclaims,     \* bound: rows claimed again while their dispatcher runs
  MaxFaults        \* bound: crashes, failed lookups and failed writes

Endpoints == UNION {EndpointsOf[d] : d \in Deliveries}

ASSUME DispatchAssumption ==
  /\ NoDelivery \notin Deliveries
  /\ BatchSize \in Nat \ {0} /\ Cap \in Nat \ {0}
  /\ MaxClaims \in Nat /\ MaxClaims >= Cap
  /\ MaxReclaims \in Nat /\ MaxFaults \in Nat
  /\ Contacts \subseteq Endpoints /\ Unconfigured \subseteq Endpoints \ Contacts

VARIABLES
  delivery,   \* state and attempts of each row
  wanted,     \* preferences and consents allow the row, or it is required
  disabled,   \* the account is disabled or deleted
  active,     \* endpoints that are registered or verified
  plan,       \* what a planner has read
  batch,      \* rows a dispatcher has claimed and not looked at yet
  job,        \* the row a dispatcher works on
  accepts,    \* history: providers that accepted the row
  reclaims, faults

userVars == <<wanted, disabled, active>>
workVars == <<batch, job>>
boundVars == <<reclaims, faults>>
vars == <<delivery, userVars, plan, workVars, accepts, boundVars>>

NoJob == [op |-> "idle", id |-> NoDelivery]
Final == {"accepted", "permanently_failed", "suppressed"}

Init ==
  /\ delivery = [d \in Deliveries |-> [state |-> "none", attempts |-> 0]]
  /\ wanted = [d \in Deliveries |-> TRUE]
  /\ disabled = FALSE
  /\ active = Endpoints
  /\ plan = [p \in Planners |-> NoJob]
  /\ batch = [w \in Workers |-> {}]
  /\ job = [w \in Workers |-> NoJob]
  /\ accepts = [d \in Deliveries |-> {}]
  /\ reclaims = 0 /\ faults = 0

Reachable(d) == EndpointsOf[d] \cap active

\* policy.Resolve: the row may be sent.
Allowed(d) == ~disabled /\ wanted[d] /\ Reachable(d) # {}

-----------------------------------------------------------------------------
(* The user, and materialization *)

\* PatchPreferences, RecordConsent: the user opts out.
OptOut(d) ==
  /\ wanted[d]
  /\ wanted' = [wanted EXCEPT ![d] = FALSE]
  /\ UNCHANGED <<delivery, disabled, active, plan, workVars, accepts, boundVars>>

\* Identity disables or deletes the account.
DisableAccount ==
  /\ ~disabled
  /\ disabled' = TRUE
  /\ UNCHANGED <<delivery, wanted, active, plan, workVars, accepts, boundVars>>

\* EndpointService.Revoke, or the contact is removed.
RemoveEndpoint(e) ==
  /\ e \in active
  /\ active' = active \ {e}
  /\ UNCHANGED <<delivery, wanted, disabled, plan, workVars, accepts, boundVars>>

\* Materialize, up to the transaction.
PlanRead(p, d) ==
  /\ plan[p] = NoJob
  /\ plan' = [plan EXCEPT ![p] =
       [op |-> IF Allowed(d) THEN "pending" ELSE "suppressed", id |-> d]]
  /\ UNCHANGED <<delivery, userVars, workVars, accepts, boundVars>>

\* Materialize: the intent is unique per recipient and dedupe key.
PlanWrite(p) ==
  /\ plan[p] # NoJob
  /\ delivery' = [delivery EXCEPT ![plan[p].id].state = IF @ = "none" THEN plan[p].op ELSE @]
  /\ plan' = [plan EXCEPT ![p] = NoJob]
  /\ UNCHANGED <<userVars, workVars, accepts, boundVars>>

-----------------------------------------------------------------------------
(* Claiming *)

Waiting == {d \in Deliveries : delivery[d].state \in {"pending", "retryable_failed"}}
Stranded == {d \in Deliveries : delivery[d].state = "processing"}

Attempt(d) == IF delivery[d].attempts < MaxClaims THEN delivery[d].attempts + 1 ELSE MaxClaims

\* Mutant: rows that are processing are never claimed again.
ReclaimableNever == {}

\* A dispatcher that is still running has the row.
Held(d) == \E w \in Workers : job[w].id = d \/ \E row \in batch[w] : row.id = d

\* processing for at least the hold time; the bound is on rows taken from a
\* dispatcher that is only slow.
Reclaimable == {d \in Stranded : Held(d) => reclaims < MaxReclaims}

Claim(w) ==
  /\ batch[w] = {} /\ job[w] = NoJob
  /\ \E S \in SUBSET (Waiting \cup Reclaimable) :
       /\ S # {} /\ Cardinality(S) <= BatchSize
       /\ reclaims' = reclaims + Cardinality({d \in S : Held(d)})
       /\ reclaims' <= MaxReclaims
       /\ delivery' = [d \in Deliveries |->
            IF d \in S THEN [state |-> "processing", attempts |-> Attempt(d)] ELSE delivery[d]]
       /\ batch' = [batch EXCEPT ![w] = {[id |-> d, attempts |-> Attempt(d),
                                             wanted |-> wanted[d], disabled |-> disabled] : d \in S}]
  /\ UNCHANGED <<userVars, plan, job, accepts, faults>>

\* processOne starts on the next row of the batch.
Take(w) ==
  /\ job[w] = NoJob
  /\ \E row \in batch[w] :
       /\ batch' = [batch EXCEPT ![w] = @ \ {row}]
       /\ job' = [job EXCEPT ![w] = [op |-> "recheck", id |-> row.id, attempts |-> row.attempts,
                                     wanted |-> row.wanted, disabled |-> row.disabled,
                                     blind |-> FALSE, left |-> {}, outcomes |-> {}]]
  /\ UNCHANGED <<delivery, userVars, plan, accepts, boundVars>>

-----------------------------------------------------------------------------
(* Sending *)

Goto(w, op) == job' = [job EXCEPT ![w].op = op]

\* Mutant: what was allowed when the row was planned is sent.
RecheckSkipped(w) ==
  /\ job[w].op = "recheck"
  /\ Goto(w, "list")
  /\ UNCHANGED <<delivery, userVars, plan, batch, accepts, boundVars>>

\* recheck: policy.Resolve with the current preferences and consents.
Recheck(w) ==
  /\ job[w].op = "recheck"
  /\ Goto(w, IF Allowed(job[w].id) THEN "list" ELSE "suppressed")
  /\ UNCHANGED <<delivery, userVars, plan, batch, accepts, boundVars>>

\* resolveDestination, ListDispatchRows
List(w) ==
  /\ job[w].op = "list"
  /\ job' = [job EXCEPT ![w].left = Reachable(job[w].id),
                        ![w].op = IF Reachable(job[w].id) = {} THEN "suppressed" ELSE "send"]
  /\ UNCHANGED <<delivery, userVars, plan, batch, accepts, boundVars>>

\* What a provider may answer; only a push endpoint can be found invalid.
Answers(e) ==
  IF e \in Unconfigured THEN {"unconfigured"}
  ELSE IF e \in Contacts THEN {"accepted", "retryable", "permanent"}
  ELSE {"accepted", "retryable", "permanent", "invalid"}

\* One endpoint; an invalid one is revoked.
Send(w) ==
  /\ job[w].op = "send"
  /\ \E e \in job[w].left : \E answer \in Answers(e) :
       /\ job' = [job EXCEPT ![w].left = @ \ {e}, ![w].outcomes = @ \cup {answer}]
       /\ accepts' = IF answer = "accepted"
                       THEN [accepts EXCEPT ![job[w].id] = @ \cup {e}] ELSE accepts
       /\ active' = IF answer = "invalid" THEN active \ {e} ELSE active
  /\ UNCHANGED <<delivery, wanted, disabled, plan, batch, boundVars>>

Retry(attempts) == IF attempts >= Cap THEN "permanently_failed" ELSE "retryable_failed"

\* Mutant: a provider without an adapter counts as a success.
DecideFakeSuccess(outcomes, attempts) ==
  IF "accepted" \in outcomes \/ outcomes \subseteq {"unconfigured"} THEN "accepted"
  ELSE IF "retryable" \in outcomes THEN Retry(attempts)
  ELSE IF "permanent" \in outcomes THEN "permanently_failed"
  ELSE "suppressed"

\* pushFanout.decide, failRetryable and parkUnconfigured
Decide(outcomes, attempts) ==
  IF "accepted" \in outcomes THEN "accepted"
  ELSE IF outcomes \subseteq {"unconfigured"} THEN "pending"
  ELSE IF "retryable" \in outcomes THEN Retry(attempts)
  ELSE IF "permanent" \in outcomes THEN "permanently_failed"
  ELSE "suppressed"

\* The next state of the row is known, whatever the path to it.
Outcome(w) ==
  IF job[w].op = "suppressed" THEN "suppressed"
  ELSE IF job[w].op = "failed" THEN Retry(job[w].attempts)
  ELSE Decide(job[w].outcomes, job[w].attempts)

Decided(w) == job[w].op \in {"suppressed", "failed"} \/ (job[w].op = "send" /\ job[w].left = {})

\* Mutant: UPDATE ... WHERE id alone.
FinishAny(w) ==
  /\ Decided(w)
  /\ delivery' = [delivery EXCEPT ![job[w].id].state = Outcome(w)]
  /\ job' = [job EXCEPT ![w] = NoJob]
  /\ UNCHANGED <<userVars, plan, batch, accepts, boundVars>>

\* FinishChannelDelivery: UPDATE ... WHERE id AND state = 'processing'.
Finish(w) ==
  /\ Decided(w)
  /\ delivery' = [delivery EXCEPT ![job[w].id].state = IF @ = "processing" THEN Outcome(w) ELSE @]
  /\ job' = [job EXCEPT ![w] = NoJob]
  /\ UNCHANGED <<userVars, plan, batch, accepts, boundVars>>

-----------------------------------------------------------------------------
(* Faults *)

Fault == faults < MaxFaults /\ faults' = faults + 1 /\ UNCHANGED reclaims

\* Materialize: preferences, consents or endpoints that cannot be read suppress
\* the row; contacts that cannot be read fail the run, as if it had not begun.
PlanReadFails(p, d) ==
  /\ plan[p] = NoJob
  /\ Fault
  /\ plan' = [plan EXCEPT ![p] = [op |-> "suppressed", id |-> d]]
  /\ UNCHANGED <<delivery, userVars, workVars, accepts>>

\* recheck: a failed lookup suppresses the row, but a push row needs no contact,
\* and an account that cannot be read counts as active.
RecheckFails(w) ==
  /\ job[w].op = "recheck"
  /\ Fault
  /\ \/ Goto(w, "suppressed")
     \/ /\ wanted[job[w].id] /\ Reachable(job[w].id) \ Contacts # {}
        /\ job' = [job EXCEPT ![w].op = "list", ![w].blind = TRUE]
  /\ UNCHANGED <<delivery, userVars, plan, batch, accepts>>

\* GetIntent, the contact or the endpoints cannot be read.
LookupFails(w) ==
  /\ job[w].op \in {"recheck", "list"}
  /\ Fault
  /\ Goto(w, "failed")
  /\ UNCHANGED <<delivery, userVars, plan, batch, accepts>>

\* The outcome is not written: logged, and the row stays processing.
FinishFails(w) ==
  /\ Decided(w)
  /\ Fault
  /\ job' = [job EXCEPT ![w] = NoJob]
  /\ UNCHANGED <<delivery, userVars, plan, batch, accepts>>

Crash(w) ==
  /\ job[w] # NoJob \/ batch[w] # {}
  /\ Fault
  /\ job' = [job EXCEPT ![w] = NoJob]
  /\ batch' = [batch EXCEPT ![w] = {}]
  /\ UNCHANGED <<delivery, userVars, plan, accepts>>

Work(w) == Claim(w) \/ Take(w) \/ Recheck(w) \/ List(w) \/ Send(w) \/ Finish(w)

Next ==
  \/ \E d \in Deliveries : OptOut(d)
  \/ DisableAccount
  \/ \E e \in Endpoints : RemoveEndpoint(e)
  \/ \E p \in Planners : PlanWrite(p) \/ \E d \in Deliveries : PlanRead(p, d) \/ PlanReadFails(p, d)
  \/ \E w \in Workers : Work(w) \/ RecheckFails(w) \/ LookupFails(w) \/ FinishFails(w) \/ Crash(w)

Spec == Init /\ [][Next]_vars

\* Every loop keeps running and its provider calls return.  The rows that have
\* been due for longest are claimed first, so that a row which is due again and
\* again is claimed in the end, although others are parked and due as well.
Fairness ==
  /\ \A w \in Workers : WF_vars(Work(w))
  /\ \A d \in Deliveries : SF_vars(\E w \in Workers : Claim(w) /\ \E row \in batch'[w] : row.id = d)
FairSpec == Spec /\ Fairness

-----------------------------------------------------------------------------
\* "No accepted -> pending. No suppressed -> accepted without a new plan": an
\* outcome is final, although an event is materialized twice at once and a
\* dispatcher that was taken for dead still writes the outcome of its row.
FinalStays == \A d \in Deliveries : delivery[d].state \in Final => delivery'[d].state = delivery[d].state
OutcomesAreFinal == [][FinalStays]_vars

\* "Never fake success": a row says accepted only if a provider accepted it, in
\* this run of a dispatcher or in another.
AcceptedByProvider ==
  \A d \in Deliveries : delivery[d].state = "accepted" => accepts[d] # {}

\* "Re-checked at dispatch (withdrawn consent, current preference,
\* disabled/deleted account)": when the user opted out or the account was
\* disabled before the row was claimed, that claim sends nothing, unless the
\* account could not be read: an unknown account counts as active.
SendsAreWanted ==
  \A w \in Workers : (job[w].op = "send" /\ job'[w].op = "send" /\ job'[w].left # job[w].left) =>
    job[w].wanted /\ (job[w].disabled => job[w].blind)
StopsAreHonoured == [][SendsAreWanted]_vars

\* Every planned row reaches an outcome, though a dispatcher strands it, a
\* write fails, or the provider asks for retries for ever: attempts are
\* counted by the claims and BoundedBackoff gives up.  Rows that only wait for
\* a provider without an adapter are parked again and again.
EventuallySettled ==
  \A d \in Deliveries : EndpointsOf[d] \cap Unconfigured = {} =>
    (delivery[d].state \in {"pending", "retryable_failed"} ~> delivery[d].state \in Final)

-----------------------------------------------------------------------------
(* The instance that is checked: an e-mail row and a mobile push row with    *)
(* two devices, one of a provider without an adapter.  A behaviour begins    *)
(* with a row that is still to be planned while the user has turned the      *)
(* other one off, or with both rows due for their second attempt.            *)

MCEndpointsOf ==
  [d \in Deliveries |-> IF d = "email" THEN {"address"} ELSE {"phone", "tablet"}]

Unplanned == [state |-> "none", attempts |-> 0]
TurnedOff == [state |-> "suppressed", attempts |-> 0]
FailedOnce == [state |-> "retryable_failed", attempts |-> 1]

Story(email, push, held, failed) ==
  [row |-> [d \in Deliveries |-> IF d = "email" THEN email ELSE push], reclaims |-> held, faults |-> failed]

Stories ==
  {Story(Unplanned, TurnedOff, 0, 0),
   Story(TurnedOff, Unplanned, MaxReclaims, 0),
   Story(FailedOnce, FailedOnce, MaxReclaims, MaxFaults)}

MCInit ==
  \E story \in Stories :
    /\ delivery = story.row
    /\ wanted = [d \in Deliveries |-> story.row[d] # TurnedOff]
    /\ disabled = FALSE
    /\ active = UNION {EndpointsOf[d] : d \in {e \in Deliveries : story.row[e] # TurnedOff}}
    /\ plan = [p \in Planners |-> NoJob]
    /\ batch = [w \in Workers |-> {}]
    /\ job = [w \in Workers |-> NoJob]
    /\ accepts = [d \in Deliveries |-> {}]
    /\ reclaims = story.reclaims /\ faults = story.faults

MCFairSpec == MCInit /\ [][Next]_vars /\ Fairness
=============================================================================
