------------------------------- MODULE Outbox -------------------------------
(***************************************************************************)
(* The transactional outbox of backend/internal/platform/outbox and the    *)
(* relay loops of cmd/worker that drain it.  A row is inserted by a domain *)
(* transaction (Enqueue); competing workers claim due rows under a lease,  *)
(* run the registered handlers one after the other, and then complete or   *)
(* reschedule the row.  Neither Complete nor Reschedule checks that the    *)
(* caller still holds the claim, so a worker whose lease ran out may still *)
(* write to a row that another worker has claimed since.                   *)
(*                                                                         *)
(* Time.  available_at and claim_until are kept relative to the clock:     *)
(* availableIn[e] = available_at - now and claimLeft[e] = claim_until - now*)
(* (0 when the claim is NULL or expired); Tick lets one unit pass.  Rows   *)
(* that are already due keep only their order (see Aged), which is all     *)
(* that ORDER BY available_at looks at, so no bound on time is needed.     *)
(***************************************************************************)
EXTENDS Integers, FiniteSets

CONSTANTS
  Events,            \* row ids
  Workers,           \* relay poll loops, in one or several processes
  NoEvent,           \* "not dispatching anything"
  Key,               \* idempotency key of each event
  Fanout,            \* number of handlers registered for the event's type
  Unregistered,      \* events whose (type, version) has no handler
  Poison,            \* events with a handler that never succeeds
  BatchSizes,        \* the batch sizes that may be configured
  Lease, BackoffBase, BackoffMultiplier, BackoffCap, Jitter,
  MaxAttempts,       \* bound: attempts saturates (the backoff has hit its cap)
  MaxFailures,       \* bound: transient handler, timeout and database failures
  MaxCrashes         \* bound: workers stopped or crashed

ASSUME OutboxAssumption ==
  /\ IsFiniteSet(Events) /\ NoEvent \notin Events
  /\ Fanout \in [Events -> Nat \ {0}]
  /\ Unregistered \subseteq Events /\ Poison \subseteq Events
  /\ MaxAttempts \in Nat \ {0} /\ MaxFailures \in Nat /\ MaxCrashes \in Nat

\* Policy.Validate
ASSUME PolicyAssumption ==
  /\ BatchSizes \subseteq Nat \ {0} /\ Lease \in Nat \ {0}
  /\ BackoffBase \in Nat \ {0} /\ BackoffMultiplier \in Nat \ {0}
  /\ BackoffCap \in Nat /\ BackoffCap >= BackoffBase /\ Jitter \in Nat

VARIABLES
  batchSize,     \* Policy.BatchSize: chosen at the start and then constant
  row,           \* "absent", "queued" (completed_at IS NULL) or "completed"
  availableIn,   \* available_at, relative to the clock
  claimLeft,     \* claim_until, relative to the clock
  attempts,
  pc,            \* what each worker does next
  todo,          \* claimed events of its batch not yet dispatched
  cur,           \* the event it dispatches
  seenAttempts,  \* attempts, in the Event values its Claim returned
  seenLeft,      \* claim_until, in the Event values its Claim returned
  step,          \* index of the handler it runs (sequentialOutboxHandlers)
  effects,       \* handlers whose effect on the event has been applied
  staleRelease,  \* history: a worker without a lease rescheduled the row
  failures, crashes

rowVars == <<row, availableIn, claimLeft, attempts>>
workerVars == <<pc, todo, cur, seenAttempts, seenLeft, step>>
envVars == <<failures, crashes>>
vars == <<batchSize, rowVars, workerVars, effects, staleRelease, envVars>>

-----------------------------------------------------------------------------
(* Row predicates and the retry policy *)

Init ==
  /\ batchSize \in BatchSizes
  /\ row = [e \in Events |-> "absent"]
  /\ availableIn = [e \in Events |-> 0]
  /\ claimLeft = [e \in Events |-> 0]
  /\ attempts = [e \in Events |-> 0]
  /\ pc = [w \in Workers |-> "idle"]
  /\ todo = [w \in Workers |-> {}]
  /\ cur = [w \in Workers |-> NoEvent]
  /\ seenAttempts = [w \in Workers |-> [e \in Events |-> 0]]
  /\ seenLeft = [w \in Workers |-> [e \in Events |-> 0]]
  /\ step = [w \in Workers |-> 1]
  /\ effects = [e \in Events |-> {}]
  /\ staleRelease = [e \in Events |-> FALSE]
  /\ failures = 0 /\ crashes = 0

\* Mutant: a claim that another worker still holds is not skipped.
ClaimableIgnoringLease(e) == row[e] = "queued" /\ availableIn[e] <= 0

\* isClaimable, and the WHERE clause of claimSQL
Claimable(e) ==
  /\ row[e] = "queued"
  /\ availableIn[e] <= 0
  /\ claimLeft[e] = 0

\* Mutant: the claim statement without its ORDER BY.
ClaimBatchesUnordered ==
  LET due == {e \in Events : Claimable(e)}
      size == IF Cardinality(due) < batchSize THEN Cardinality(due) ELSE batchSize
  IN  {S \in SUBSET due : Cardinality(S) = size}

\* ORDER BY available_at ... LIMIT: the batches a claim statement may return.
ClaimBatches ==
  LET due == {e \in Events : Claimable(e)}
      size == IF Cardinality(due) < batchSize THEN Cardinality(due) ELSE batchSize
  IN  {S \in SUBSET due :
         /\ Cardinality(S) = size
         /\ \A e \in S, f \in due \ S : availableIn[e] <= availableIn[f]}

\* NextAvailableAt: BackoffBase * BackoffMultiplier^(attempts-1), at most
\* BackoffCap.
Backoff(n) ==
  LET delay == BackoffBase * BackoffMultiplier ^ (IF n = 0 THEN 0 ELSE n - 1)
  IN  IF delay < BackoffCap THEN delay ELSE BackoffCap

\* One unit of time later a future row is closer to its due time, and the due
\* rows keep their order by available_at: each gets minus the number of due
\* rows that are not older than it.
Due(e) == row[e] = "queued" /\ availableIn[e] <= 0
Aged(e) ==
  IF row[e] # "queued" THEN availableIn[e]
  ELSE IF availableIn[e] > 0 THEN availableIn[e] - 1
  ELSE -Cardinality({f \in Events : Due(f) /\ availableIn[f] >= availableIn[e]})

Less(n) == IF n > 0 THEN n - 1 ELSE 0

-----------------------------------------------------------------------------
(* Producers and the clock *)

\* Mutant: no unique index on the idempotency key.
EnqueueAnyKey(e) ==
  /\ row[e] = "absent"
  /\ row' = [row EXCEPT ![e] = "queued"]
  /\ availableIn' = [availableIn EXCEPT ![e] = 0]
  /\ UNCHANGED <<batchSize, claimLeft, attempts, workerVars, effects, staleRelease, envVars>>

\* Outbox.Enqueue inside a domain transaction; the unique idempotency key
\* refuses a second row, completed or not.
Enqueue(e) ==
  /\ row[e] = "absent"
  /\ \A f \in Events : Key[f] = Key[e] => row[f] = "absent"
  /\ row' = [row EXCEPT ![e] = "queued"]
  /\ availableIn' = [availableIn EXCEPT ![e] = 0]
  /\ UNCHANGED <<batchSize, claimLeft, attempts, workerVars, effects, staleRelease, envVars>>

Tick ==
  /\ availableIn' = [e \in Events |-> Aged(e)]
  /\ claimLeft' = [e \in Events |-> Less(claimLeft[e])]
  /\ seenLeft' = [w \in Workers |-> [e \in Events |-> Less(seenLeft[w][e])]]
  /\ UNCHANGED <<batchSize, row, attempts, pc, todo, cur, seenAttempts, step, effects,
                 staleRelease, envVars>>

-----------------------------------------------------------------------------
(* The relay *)

NextAttempts(e) == IF attempts[e] < MaxAttempts THEN attempts[e] + 1 ELSE MaxAttempts

\* The claim statement: every row of the batch gets a lease and one attempt.
ClaimRows(S) ==
  /\ attempts' = [e \in Events |-> IF e \in S THEN NextAttempts(e) ELSE attempts[e]]
  /\ claimLeft' = [e \in Events |-> IF e \in S THEN Lease ELSE claimLeft[e]]
  /\ UNCHANGED <<row, availableIn>>

Claim(w) ==
  /\ pc[w] = "idle"
  /\ \E S \in ClaimBatches :
       /\ S # {}
       /\ ClaimRows(S)
       /\ todo' = [todo EXCEPT ![w] = S]
       /\ seenAttempts' = [seenAttempts EXCEPT ![w] =
             [e \in Events |-> IF e \in S THEN NextAttempts(e) ELSE 0]]
       /\ seenLeft' = [seenLeft EXCEPT ![w] = [e \in Events |-> IF e \in S THEN Lease ELSE 0]]
  /\ pc' = [pc EXCEPT ![w] = "loop"]
  /\ UNCHANGED <<batchSize, cur, step, effects, staleRelease, envVars>>

\* The statement commits but reading its rows fails: the worker polls again,
\* and the rows wait for their lease to run out.
ClaimLost(w) ==
  /\ pc[w] = "idle"
  /\ failures < MaxFailures
  /\ failures' = failures + 1
  /\ \E S \in ClaimBatches : S # {} /\ ClaimRows(S)
  /\ UNCHANGED <<batchSize, workerVars, effects, staleRelease, crashes>>

\* dispatch: look the handler up and start it, or go and reschedule.
Dispatch(w) ==
  /\ pc[w] = "loop"
  /\ \E e \in todo[w] :
       /\ todo' = [todo EXCEPT ![w] = @ \ {e}]
       /\ cur' = [cur EXCEPT ![w] = e]
       /\ pc' = [pc EXCEPT ![w] = IF e \in Unregistered THEN "reschedule" ELSE "handle"]
  /\ UNCHANGED <<batchSize, rowVars, seenAttempts, seenLeft, step, effects, staleRelease, envVars>>

\* Mutant: the position in the handler list is set back to 0.
EndDispatchFromZero(w) ==
  /\ cur' = [cur EXCEPT ![w] = NoEvent]
  /\ pc' = [pc EXCEPT ![w] = IF todo[w] = {} THEN "idle" ELSE "loop"]
  /\ seenAttempts' = [seenAttempts EXCEPT ![w][cur[w]] = 0]
  /\ seenLeft' = [seenLeft EXCEPT ![w][cur[w]] = 0]
  /\ step' = [step EXCEPT ![w] = 0]
  /\ todo' = todo

\* The dispatch is over: next event of the batch, or the next poll.
EndDispatch(w) ==
  /\ cur' = [cur EXCEPT ![w] = NoEvent]
  /\ pc' = [pc EXCEPT ![w] = IF todo[w] = {} THEN "idle" ELSE "loop"]
  /\ seenAttempts' = [seenAttempts EXCEPT ![w][cur[w]] = 0]
  /\ seenLeft' = [seenLeft EXCEPT ![w][cur[w]] = 0]
  /\ step' = [step EXCEPT ![w] = 1]
  /\ todo' = todo

\* One handler of the event's list returns nil.
HandlerSucceeds(w) ==
  /\ pc[w] = "handle"
  /\ cur[w] \notin Poison
  /\ effects' = [effects EXCEPT ![cur[w]] = @ \cup {step[w]}]
  /\ IF step[w] = Fanout[cur[w]]
       THEN pc' = [pc EXCEPT ![w] = "complete"] /\ step' = step
       ELSE step' = [step EXCEPT ![w] = @ + 1] /\ pc' = pc
  /\ UNCHANGED <<batchSize, rowVars, todo, cur, seenAttempts, seenLeft, staleRelease, envVars>>

\* A transient failure uses up the budget; a poisoned event always fails.
Fail(w) ==
  \/ cur[w] \in Poison /\ failures' = failures
  \/ failures < MaxFailures /\ failures' = failures + 1

\* Mutant: an error of the handler is dropped and the row completed.
HandlerFailsUnnoticed(w) ==
  /\ pc[w] = "handle"
  /\ Fail(w)
  /\ effects' = effects
  /\ pc' = [pc EXCEPT ![w] = "complete"]
  /\ UNCHANGED <<batchSize, rowVars, todo, cur, seenAttempts, seenLeft, step, staleRelease, crashes>>

\* Mutant: the list goes on with the next handler after an error.
HandlerFailsGoesOn(w) ==
  /\ pc[w] = "handle"
  /\ Fail(w)
  /\ effects' = effects
  /\ IF step[w] = Fanout[cur[w]]
       THEN pc' = [pc EXCEPT ![w] = "reschedule"] /\ step' = step
       ELSE step' = [step EXCEPT ![w] = @ + 1] /\ pc' = pc
  /\ UNCHANGED <<batchSize, rowVars, todo, cur, seenAttempts, seenLeft, staleRelease, crashes>>

\* The handler returns an error, before or after its effect was applied.  A
\* list of handlers stops at the first error.
HandlerFails(w) ==
  /\ pc[w] = "handle"
  /\ Fail(w)
  /\ \/ effects' = effects
     \/ cur[w] \notin Poison /\ effects' = [effects EXCEPT ![cur[w]] = @ \cup {step[w]}]
  /\ pc' = [pc EXCEPT ![w] = "reschedule"]
  /\ UNCHANGED <<batchSize, rowVars, todo, cur, seenAttempts, seenLeft, step, staleRelease, crashes>>

\* The handler returns context.DeadlineExceeded of its own call: dispatch
\* returns and the claim is left to expire.
HandlerTimesOut(w) ==
  /\ pc[w] = "handle"
  /\ failures < MaxFailures
  /\ failures' = failures + 1
  /\ \/ effects' = effects
     \/ cur[w] \notin Poison /\ effects' = [effects EXCEPT ![cur[w]] = @ \cup {step[w]}]
  /\ EndDispatch(w)
  /\ UNCHANGED <<batchSize, rowVars, staleRelease, crashes>>

\* Complete: UPDATE ... WHERE id AND completed_at IS NULL.
Complete(w) ==
  /\ pc[w] = "complete"
  /\ row' = [row EXCEPT ![cur[w]] = IF @ = "queued" THEN "completed" ELSE @]
  /\ EndDispatch(w)
  /\ UNCHANGED <<batchSize, availableIn, claimLeft, attempts, effects, staleRelease, envVars>>

\* Reschedule: the next available_at, from the attempts of the worker's copy,
\* and the claim cleared, WHERE id AND completed_at IS NULL.
Reschedule(w) ==
  LET e == cur[w] IN
  /\ pc[w] = "reschedule"
  /\ IF row[e] = "queued"
       THEN /\ \E j \in 0..Jitter :
                 availableIn' = [availableIn EXCEPT ![e] = Backoff(seenAttempts[w][e]) + j]
            /\ claimLeft' = [claimLeft EXCEPT ![e] = 0]
            /\ staleRelease' = [staleRelease EXCEPT ![e] = @ \/ seenLeft[w][e] = 0]
       ELSE UNCHANGED <<availableIn, claimLeft, staleRelease>>
  /\ EndDispatch(w)
  /\ UNCHANGED <<batchSize, row, attempts, effects, envVars>>

\* Complete or Reschedule fails on the database: logged, and the claim is left.
WriteFails(w) ==
  /\ pc[w] \in {"complete", "reschedule"}
  /\ failures < MaxFailures
  /\ failures' = failures + 1
  /\ EndDispatch(w)
  /\ UNCHANGED <<batchSize, rowVars, effects, staleRelease, crashes>>

\* The context is cancelled or the process dies: the batch is forgotten and
\* its claims stay in the table.
Stop(w) ==
  /\ pc[w] # "stopped"
  /\ crashes < MaxCrashes
  /\ crashes' = crashes + 1
  /\ pc' = [pc EXCEPT ![w] = "stopped"]
  /\ todo' = [todo EXCEPT ![w] = {}]
  /\ cur' = [cur EXCEPT ![w] = NoEvent]
  /\ seenAttempts' = [seenAttempts EXCEPT ![w] = [e \in Events |-> 0]]
  /\ seenLeft' = [seenLeft EXCEPT ![w] = [e \in Events |-> 0]]
  /\ step' = [step EXCEPT ![w] = 1]
  /\ UNCHANGED <<batchSize, rowVars, effects, staleRelease, failures>>

Start(w) ==
  /\ pc[w] = "stopped"
  /\ pc' = [pc EXCEPT ![w] = "idle"]
  /\ UNCHANGED <<batchSize, rowVars, todo, cur, seenAttempts, seenLeft, step, effects, staleRelease, envVars>>

Work(w) ==
  \/ Claim(w) \/ Dispatch(w) \/ HandlerSucceeds(w) \/ Complete(w)
  \/ Reschedule(w) \/ Start(w)

Fault(w) ==
  \/ ClaimLost(w) \/ HandlerFails(w) \/ HandlerTimesOut(w) \/ WriteFails(w) \/ Stop(w)

Next ==
  \/ \E e \in Events : Enqueue(e)
  \/ Tick
  \/ \E w \in Workers : Work(w) \/ Fault(w)

Spec == Init /\ [][Next]_vars

\* Every poll loop keeps running and its handler calls return; clocks advance.
FairSpec ==
  /\ Spec
  /\ WF_vars(Tick)
  /\ \A w \in Workers : WF_vars(Work(w) \/ HandlerFails(w))

-----------------------------------------------------------------------------
(* Properties *)

TypeOK ==
  /\ batchSize \in BatchSizes
  /\ row \in [Events -> {"absent", "queued", "completed"}]
  /\ availableIn \in [Events -> Int]
  /\ claimLeft \in [Events -> 0..Lease]
  /\ attempts \in [Events -> 0..MaxAttempts]
  /\ pc \in [Workers -> {"idle", "loop", "handle", "complete", "reschedule", "stopped"}]
  /\ todo \in [Workers -> SUBSET Events]
  /\ cur \in [Workers -> Events \cup {NoEvent}]
  /\ seenAttempts \in [Workers -> [Events -> 0..MaxAttempts]]
  /\ seenLeft \in [Workers -> [Events -> 0..Lease]]
  /\ step \in [Workers -> Nat \ {0}]
  /\ effects \in [Events -> SUBSET Nat]
  /\ staleRelease \in [Events -> BOOLEAN]
  /\ failures \in 0..MaxFailures /\ crashes \in 0..MaxCrashes

Handlers(e) == 1..Fanout[e]

\* The worker still has the event to dispatch, or is dispatching it.
Holds(w, e) == e \in todo[w] \/ cur[w] = e

\* It holds it under a lease that has not run out.
LiveHolder(w, e) == Holds(w, e) /\ seenLeft[w][e] > 0

\* At-least-once: whatever crashes, times out, is retried or is completed by a
\* worker that lost its claim, a row is completed only after every handler of
\* its list has been applied to it (ADR-003: the side effect comes first).
CompletedMeansHandled ==
  \A e \in Events : row[e] = "completed" => effects[e] = Handlers(e)

\* sequentialOutboxHandlers: a later handler of the list has never been applied
\* to an event to which an earlier one was not, over any number of retries of
\* the event by different workers.
HandlersInOrder ==
  \A e \in Events : \A i \in effects[e] : 1..i \subseteq effects[e]

\* Two workers hold the same event under live leases only if some worker
\* rescheduled the row after its own lease had run out: claims, completions,
\* crashes and failed writes alone keep a live lease exclusive.
LeaseExclusive ==
  \A e \in Events : ~staleRelease[e] =>
    \A w, v \in Workers : LiveHolder(w, e) /\ LiveHolder(v, e) => w = v

\* "active lease must skip rows": no claim is granted on a row that some worker
\* holds under a lease that has not run out.
ActiveLeaseSkipped ==
  [][\A e \in Events : claimLeft'[e] > claimLeft[e] =>
        ~ \E w \in Workers : LiveHolder(w, e)]_vars

\* Once failures stop, every row whose handlers can succeed is completed, also
\* when its claim was lost with a worker, and also when other rows fail for
\* ever (ADR-003: a poison row must not block the claim of other rows).
EventuallyCompleted ==
  <>[](\A e \in Events \ (Poison \cup Unregistered) : row[e] # "queued")

\* What producers and consumers may rely on, without rows, leases or workers.
AtLeastOnce == INSTANCE AtLeastOnce WITH
  status <- [e \in Events |-> CASE row[e] = "absent" -> "none"
                                [] row[e] = "queued" -> "pending"
                                [] OTHER -> "settled"],
  delivered <- effects
AtLeastOnceSpec == AtLeastOnce!Spec

-----------------------------------------------------------------------------
(* The instance that is checked: all events but one have the same key and are *)
(* fanned out to two handlers.                                                *)

CONSTANT lone

MCKey == [e \in Events |-> IF e = lone THEN 2 ELSE 1]
MCFanout == [e \in Events |-> IF e = lone THEN 1 ELSE 2]
=============================================================================
