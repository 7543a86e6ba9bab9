---------------------------- MODULE OutboxProofs ----------------------------
(***************************************************************************)
(* Proofs about Outbox for every set of events and workers, every fan-out  *)
(* and every policy that Policy.Validate accepts.                          *)
(***************************************************************************)
EXTENDS Outbox, FiniteSetTheorems, TLAPS

-----------------------------------------------------------------------------
(* Facts about the operators of the model *)

\* NextAvailableAt yields a delay between one unit and BackoffCap.
LEMMA BackoffType ==
  ASSUME NEW n \in Nat PROVE Backoff(n) \in Int
<1>1. BackoffMultiplier ^ (IF n = 0 THEN 0 ELSE n - 1) \in Int
  BY PolicyAssumption
<1>2. BackoffBase * BackoffMultiplier ^ (IF n = 0 THEN 0 ELSE n - 1) \in Int
  BY <1>1, PolicyAssumption
<1> QED BY <1>2, PolicyAssumption DEF Backoff

\* The age of a row stays an integer: due rows are ranked among finitely many.
LEMMA AgedType ==
  ASSUME TypeOK, NEW e \in Events PROVE Aged(e) \in Int
<1> DEFINE D == {f \in Events : Due(f) /\ availableIn[f] >= availableIn[e]}
<1>1. IsFiniteSet(D)
  BY FS_Subset, OutboxAssumption
<1>2. Cardinality(D) \in Nat
  BY <1>1, FS_CardinalityType
<1> QED BY <1>2 DEF Aged, TypeOK

-----------------------------------------------------------------------------
(* Type correctness *)

\* A worker that dispatches has an event to dispatch; a poll loop that waits
\* has nothing left of its batch.
PcOK ==
  \A w \in Workers :
    /\ pc[w] \in {"handle", "complete", "reschedule"} <=> cur[w] # NoEvent
    /\ pc[w] \in {"idle", "stopped"} => todo[w] = {}

\* Every step of the relay (enqueue, claim, dispatch, handler, reschedule,
\* complete, tick and fault) keeps the types and the worker's program counter
\* in agreement with its batch.
LEMMA TypeStep ==
  ASSUME TypeOK, PcOK, [Next]_vars PROVE TypeOK' /\ PcOK'
<1> USE OutboxAssumption, PolicyAssumption
<1>1. ASSUME NEW e \in Events, Enqueue(e) PROVE TypeOK' /\ PcOK'
  BY <1>1 DEF Enqueue, TypeOK, PcOK, workerVars, envVars
<1>2. CASE Tick
  <2>1. availableIn' \in [Events -> Int]
    BY <1>2, AgedType DEF Tick
  <2> QED BY <1>2, <2>1 DEF Tick, TypeOK, PcOK, envVars, Less
<1>3. ASSUME NEW S \in SUBSET Events, ClaimRows(S)
      PROVE  /\ attempts' \in [Events -> 0..MaxAttempts]
             /\ claimLeft' \in [Events -> 0..Lease]
             /\ \A e \in Events : NextAttempts(e) \in 0..MaxAttempts
  BY <1>3 DEF ClaimRows, NextAttempts, TypeOK
<1>4. ClaimBatches \subseteq SUBSET Events
  BY DEF ClaimBatches
<1>5. ASSUME NEW w \in Workers, Claim(w) PROVE TypeOK' /\ PcOK'
  <2>1. PICK S \in SUBSET Events :
          /\ S # {}
          /\ ClaimRows(S)
          /\ todo' = [todo EXCEPT ![w] = S]
          /\ seenAttempts' = [seenAttempts EXCEPT ![w] =
                [e \in Events |-> IF e \in S THEN NextAttempts(e) ELSE 0]]
          /\ seenLeft' = [seenLeft EXCEPT ![w] = [e \in Events |-> IF e \in S THEN Lease ELSE 0]]
    BY <1>4, <1>5 DEF Claim
  <2>2. [e \in Events |-> IF e \in S THEN NextAttempts(e) ELSE 0] \in [Events -> 0..MaxAttempts]
    BY <1>3, <2>1
  <2>3. [e \in Events |-> IF e \in S THEN Lease ELSE 0] \in [Events -> 0..Lease]
    OBVIOUS
  <2>4. seenAttempts' \in [Workers -> [Events -> 0..MaxAttempts]]
    BY <2>1, <2>2 DEF TypeOK
  <2>5. seenLeft' \in [Workers -> [Events -> 0..Lease]]
    BY <2>1, <2>3 DEF TypeOK
  <2>6. TypeOK'
    BY <1>3, <1>5, <2>1, <2>4, <2>5 DEF Claim, ClaimRows, TypeOK, envVars
  <2>7. PcOK'
    BY <1>5, <2>1 DEF Claim, TypeOK, PcOK
  <2> QED BY <2>6, <2>7
<1>6. ASSUME NEW w \in Workers, ClaimLost(w) PROVE TypeOK' /\ PcOK'
  <2>1. PICK S \in SUBSET Events : ClaimRows(S)
    BY <1>4, <1>6 DEF ClaimLost
  <2>2. UNCHANGED <<batchSize, row, availableIn, workerVars, effects, staleRelease, crashes>>
    BY <1>6, <2>1 DEF ClaimLost, ClaimRows
  <2>3. failures' \in 0..MaxFailures
    BY <1>6 DEF ClaimLost, TypeOK
  <2> QED BY <1>3, <2>1, <2>2, <2>3 DEF TypeOK, PcOK, workerVars
<1>7. ASSUME NEW w \in Workers, Dispatch(w) PROVE TypeOK' /\ PcOK'
  BY <1>7 DEF Dispatch, TypeOK, PcOK, rowVars, envVars
<1>8. ASSUME NEW w \in Workers, EndDispatch(w), pc[w] \in {"handle", "complete", "reschedule"}
      PROVE  /\ PcOK'
             /\ pc' \in [Workers -> {"idle", "loop", "handle", "complete", "reschedule", "stopped"}]
             /\ todo' \in [Workers -> SUBSET Events]
             /\ cur' \in [Workers -> Events \cup {NoEvent}]
             /\ seenAttempts' \in [Workers -> [Events -> 0..MaxAttempts]]
             /\ seenLeft' \in [Workers -> [Events -> 0..Lease]]
             /\ step' \in [Workers -> Nat \ {0}]
  BY <1>8 DEF EndDispatch, TypeOK, PcOK
<1>9. ASSUME NEW w \in Workers, HandlerSucceeds(w) PROVE TypeOK' /\ PcOK'
  <2>1. cur[w] \in Events /\ step[w] \in Nat \ {0}
    BY <1>9 DEF HandlerSucceeds, TypeOK, PcOK
  <2>2. effects' \in [Events -> SUBSET Nat]
    BY <1>9, <2>1 DEF HandlerSucceeds, TypeOK
  <2>3. \/ step' = step /\ pc' = [pc EXCEPT ![w] = "complete"]
        \/ step' = [step EXCEPT ![w] = @ + 1] /\ pc' = pc
    BY <1>9 DEF HandlerSucceeds
  <2>4. step' \in [Workers -> Nat \ {0}]
    <3>1. step \in [Workers -> Nat \ {0}] /\ step[w] + 1 \in Nat \ {0}
      BY <2>1 DEF TypeOK
    <3> HIDE PolicyAssumption, OutboxAssumption
    <3> QED BY <2>3, <3>1
  <2>5. pc' \in [Workers -> {"idle", "loop", "handle", "complete", "reschedule", "stopped"}]
    BY <2>3 DEF TypeOK
  <2>6. UNCHANGED <<batchSize, rowVars, todo, cur, seenAttempts, seenLeft, staleRelease, envVars>>
        /\ pc[w] = "handle"
    BY <1>9 DEF HandlerSucceeds
  <2>7. PcOK'
    BY <2>3, <2>6 DEF TypeOK, PcOK
  <2> QED BY <2>2, <2>4, <2>5, <2>6, <2>7 DEF TypeOK, rowVars, envVars
<1>10. ASSUME NEW w \in Workers, HandlerFails(w) PROVE TypeOK' /\ PcOK'
  <2>1. cur[w] \in Events /\ step[w] \in Nat \ {0}
    BY <1>10 DEF HandlerFails, TypeOK, PcOK
  <2>2. effects' \in [Events -> SUBSET Nat]
    <3>1. effects' = effects \/ effects' = [effects EXCEPT ![cur[w]] = @ \cup {step[w]}]
      BY <1>10 DEF HandlerFails
    <3>2. effects \in [Events -> SUBSET Nat] /\ effects[cur[w]] \cup {step[w]} \in SUBSET Nat
      BY <2>1 DEF TypeOK
    <3> HIDE PolicyAssumption, OutboxAssumption
    <3> QED BY <3>1, <3>2
  <2>3. failures' \in 0..MaxFailures
    BY <1>10 DEF HandlerFails, Fail, TypeOK
  <2>4. /\ UNCHANGED <<batchSize, rowVars, todo, cur, seenAttempts, seenLeft, step, staleRelease, crashes>>
        /\ pc[w] = "handle" /\ pc' = [pc EXCEPT ![w] = "reschedule"]
    BY <1>10 DEF HandlerFails
  <2>5. PcOK' /\ pc' \in [Workers -> {"idle", "loop", "handle", "complete", "reschedule", "stopped"}]
    BY <2>4 DEF TypeOK, PcOK
  <2> QED BY <2>2, <2>3, <2>4, <2>5 DEF TypeOK, rowVars
<1>11. ASSUME NEW w \in Workers, HandlerTimesOut(w) PROVE TypeOK' /\ PcOK'
  <2>1. cur[w] \in Events /\ step[w] \in Nat \ {0}
    BY <1>11 DEF HandlerTimesOut, TypeOK, PcOK
  <2>2. effects' \in [Events -> SUBSET Nat]
    <3>1. effects' = effects \/ effects' = [effects EXCEPT ![cur[w]] = @ \cup {step[w]}]
      BY <1>11 DEF HandlerTimesOut
    <3>2. effects \in [Events -> SUBSET Nat] /\ effects[cur[w]] \cup {step[w]} \in SUBSET Nat
      BY <2>1 DEF TypeOK
    <3> HIDE PolicyAssumption, OutboxAssumption
    <3> QED BY <3>1, <3>2
  <2> QED BY <1>8, <1>11, <2>2 DEF HandlerTimesOut, TypeOK, rowVars
<1>12. ASSUME NEW w \in Workers, Complete(w) PROVE TypeOK' /\ PcOK'
  BY <1>8, <1>12 DEF Complete, TypeOK, envVars
<1>13. ASSUME NEW w \in Workers, Reschedule(w) PROVE TypeOK' /\ PcOK'
  <2>1. cur[w] \in Events /\ seenAttempts[w][cur[w]] \in Nat
    BY <1>13 DEF Reschedule, TypeOK, PcOK
  <2>2. Backoff(seenAttempts[w][cur[w]]) \in Int
    BY <2>1, BackoffType
  <2>3. availableIn' \in [Events -> Int]
    BY <1>13, <2>2 DEF Reschedule, TypeOK
  <2>4. staleRelease' \in [Events -> BOOLEAN]
    BY <1>13, <2>1 DEF Reschedule, TypeOK
  <2>5. claimLeft' = [claimLeft EXCEPT ![cur[w]] = 0] \/ claimLeft' = claimLeft
    BY <1>13 DEF Reschedule
  <2>6. claimLeft' \in [Events -> 0..Lease]
    <3>1. 0 \in 0..Lease /\ claimLeft \in [Events -> 0..Lease]
      BY DEF TypeOK
    <3> HIDE PolicyAssumption, OutboxAssumption
    <3> QED BY <2>5, <3>1
  <2> QED BY <1>8, <1>13, <2>3, <2>4, <2>6 DEF Reschedule, TypeOK, envVars
<1>14. ASSUME NEW w \in Workers, WriteFails(w) PROVE TypeOK' /\ PcOK'
  BY <1>8, <1>14 DEF WriteFails, TypeOK, rowVars
<1>15. ASSUME NEW w \in Workers, Stop(w) PROVE TypeOK' /\ PcOK'
  BY <1>15 DEF Stop, TypeOK, PcOK, rowVars
<1>16. ASSUME NEW w \in Workers, Start(w) PROVE TypeOK' /\ PcOK'
  BY <1>16 DEF Start, TypeOK, PcOK, rowVars, envVars
<1>17. CASE UNCHANGED vars
  BY <1>17 DEF vars, rowVars, workerVars, envVars, TypeOK, PcOK
<1> QED
  BY <1>1, <1>2, <1>5, <1>6, <1>7, <1>9, <1>10, <1>11, <1>12, <1>13, <1>14, <1>15,
     <1>16, <1>17 DEF Next, Work, Fault

\* Every variable keeps its type along every behaviour of the outbox.
THEOREM TypeCorrect == Spec => []TypeOK
<1>1. Init => TypeOK /\ PcOK
  BY OutboxAssumption, PolicyAssumption DEF Init, TypeOK, PcOK
<1>2. TypeOK /\ PcOK /\ [Next]_vars => TypeOK' /\ PcOK'
  BY TypeStep
<1> QED BY <1>1, <1>2, PTL DEF Spec

-----------------------------------------------------------------------------
(* Completed rows have been handled, in order *)

\* How far each dispatch has come is recorded in the effects of its event.
Progress ==
  \A w \in Workers :
    /\ pc[w] \in {"idle", "loop", "stopped"} => step[w] = 1
    /\ pc[w] = "handle" =>
         step[w] <= Fanout[cur[w]] /\ \A i \in 1..(step[w] - 1) : i \in effects[cur[w]]
    /\ pc[w] = "complete" => \A i \in Handlers(cur[w]) : i \in effects[cur[w]]

\* Workers hold rows that exist.
HeldRows == \A w \in Workers, e \in Events : Holds(w, e) => row[e] # "absent"

EffectsOK ==
  \A e \in Events :
    /\ \A i \in effects[e] : i \in Handlers(e) /\ \A j \in 1..i : j \in effects[e]
    /\ row[e] = "completed" => \A i \in Handlers(e) : i \in effects[e]

HandledInv == TypeOK /\ PcOK /\ Progress /\ HeldRows /\ EffectsOK

\* Applying the next handler of a dispatch keeps the effects in order.
LEMMA ApplyEffect ==
  ASSUME HandledInv, NEW w \in Workers, pc[w] = "handle", row' = row,
         \/ effects' = effects
         \/ effects' = [effects EXCEPT ![cur[w]] = @ \cup {step[w]}]
  PROVE  EffectsOK' /\ \A e \in Events : effects[e] \subseteq effects'[e]
<1>1. cur[w] \in Events /\ step[w] \in Nat \ {0} /\ step[w] <= Fanout[cur[w]]
  BY DEF HandledInv, TypeOK, PcOK, Progress
<1>2. Fanout \in [Events -> Nat \ {0}]
  BY OutboxAssumption
<1>3. CASE effects' = effects
  BY <1>3 DEF HandledInv, EffectsOK, Handlers
<1>4. CASE effects' = [effects EXCEPT ![cur[w]] = @ \cup {step[w]}]
  <2>1. \A e \in Events : effects[e] \subseteq effects'[e]
    BY <1>1, <1>4 DEF HandledInv, TypeOK
  <2>2. ASSUME NEW e \in Events, NEW i \in effects'[e]
        PROVE  i \in Handlers(e) /\ \A j \in 1..i : j \in effects'[e]
    <3>1. CASE i \in effects[e]
      BY <2>1, <3>1 DEF HandledInv, EffectsOK
    <3>2. CASE i \notin effects[e]
      <4>1. e = cur[w] /\ i = step[w]
        BY <1>1, <1>4, <2>2, <3>2 DEF HandledInv, TypeOK
      <4>2. i \in Handlers(e)
        BY <1>1, <1>2, <4>1 DEF Handlers
      <4>3. \A j \in 1..(step[w] - 1) : j \in effects[cur[w]]
        BY DEF HandledInv, Progress
      <4>4. step[w] \in effects'[cur[w]]
        BY <1>1, <1>4 DEF HandledInv, TypeOK
      <4> QED BY <1>1, <2>1, <4>1, <4>2, <4>3, <4>4
    <3> QED BY <3>1, <3>2
  <2>3. ASSUME NEW e \in Events, row'[e] = "completed"
        PROVE  \A i \in Handlers(e) : i \in effects'[e]
    BY <2>1, <2>3 DEF HandledInv, EffectsOK
  <2> QED BY <2>1, <2>2, <2>3 DEF EffectsOK, Handlers
<1> QED BY <1>3, <1>4

\* When a dispatch ends, every other dispatch goes on where it was.
LEMMA EndDispatchProgress ==
  ASSUME HandledInv, NEW w \in Workers, EndDispatch(w),
         \A e \in Events : effects[e] \subseteq effects'[e],
         \A e \in Events : row[e] # "absent" => row'[e] # "absent"
  PROVE  Progress' /\ HeldRows'
<1>1. Progress'
  <2> SUFFICES ASSUME NEW v \in Workers
               PROVE /\ pc'[v] \in {"idle", "loop", "stopped"} => step'[v] = 1
                     /\ pc'[v] = "handle" =>
                          step'[v] <= Fanout[cur'[v]]
                          /\ \A i \in 1..(step'[v] - 1) : i \in effects'[cur'[v]]
                     /\ pc'[v] = "complete" =>
                          \A i \in Handlers(cur'[v]) : i \in effects'[cur'[v]]
    BY DEF Progress, Handlers
  <2>1. CASE v = w
    BY <2>1 DEF EndDispatch, HandledInv, TypeOK
  <2>2. CASE v # w
    <3>1. pc'[v] = pc[v] /\ step'[v] = step[v] /\ cur'[v] = cur[v]
      BY <2>2 DEF EndDispatch, HandledInv, TypeOK
    <3>2. pc[v] \in {"handle", "complete"} => cur[v] \in Events
      BY DEF HandledInv, PcOK, TypeOK
    <3> QED BY <3>1, <3>2 DEF HandledInv, Progress
  <2> QED BY <2>1, <2>2
<1>2. HeldRows'
  BY OutboxAssumption DEF EndDispatch, HandledInv, TypeOK, HeldRows, Holds
<1> QED BY <1>1, <1>2

\* Every step keeps the facts about how far each dispatch has come: the effects
\* of a row are a prefix of its handler list, at least as long as what any
\* worker that dispatches it has run.
LEMMA HandledStep ==
  ASSUME HandledInv, [Next]_vars PROVE HandledInv'
<1>1. TypeOK' /\ PcOK'
  BY TypeStep DEF HandledInv
<1>2. SUFFICES Progress' /\ HeldRows' /\ EffectsOK'
  BY <1>1 DEF HandledInv
<1>3. ASSUME NEW e \in Events, Enqueue(e) PROVE Progress' /\ HeldRows' /\ EffectsOK'
  BY <1>3 DEF Enqueue, HandledInv, TypeOK, Progress, HeldRows, EffectsOK, Holds, Handlers,
              workerVars
<1>4. CASE Tick
  BY <1>4 DEF Tick, HandledInv, Progress, HeldRows, EffectsOK, Holds, Handlers
<1>5. ASSUME NEW w \in Workers, Claim(w) PROVE Progress' /\ HeldRows' /\ EffectsOK'
  <2>1. PICK S \in ClaimBatches : ClaimRows(S) /\ todo' = [todo EXCEPT ![w] = S]
    BY <1>5 DEF Claim
  <2>2. \A e \in S : row[e] = "queued"
    BY DEF ClaimBatches, Claimable
  <2>3. UNCHANGED <<row, cur, step, effects>> /\ pc' = [pc EXCEPT ![w] = "loop"] /\ pc[w] = "idle"
    BY <1>5, <2>1 DEF Claim, ClaimRows
  <2>4. HeldRows'
    BY <2>1, <2>2, <2>3 DEF HandledInv, TypeOK, HeldRows, Holds
  <2>5. Progress'
    BY <2>3 DEF HandledInv, TypeOK, Progress, Handlers
  <2>6. EffectsOK'
    BY <2>3 DEF HandledInv, EffectsOK, Handlers
  <2> QED BY <2>4, <2>5, <2>6
<1>6. ASSUME NEW w \in Workers, ClaimLost(w) PROVE Progress' /\ HeldRows' /\ EffectsOK'
  <2>1. UNCHANGED <<row, pc, todo, cur, step, effects>>
    BY <1>6 DEF ClaimLost, ClaimRows, workerVars
  <2> QED BY <2>1 DEF HandledInv, Progress, HeldRows, EffectsOK, Holds, Handlers
<1>7. ASSUME NEW w \in Workers, Dispatch(w) PROVE Progress' /\ HeldRows' /\ EffectsOK'
  <2>1. PICK e \in todo[w] :
          /\ todo' = [todo EXCEPT ![w] = @ \ {e}]
          /\ cur' = [cur EXCEPT ![w] = e]
          /\ pc' = [pc EXCEPT ![w] = IF e \in Unregistered THEN "reschedule" ELSE "handle"]
    BY <1>7 DEF Dispatch
  <2>2. UNCHANGED <<row, step, effects>> /\ pc[w] = "loop" /\ step[w] = 1
    BY <1>7 DEF Dispatch, rowVars, HandledInv, Progress
  <2>3. e \in Events /\ Fanout[e] \in Nat \ {0}
    BY OutboxAssumption, <2>1 DEF HandledInv, TypeOK
  <2>4. Progress'
    BY <2>1, <2>2, <2>3 DEF HandledInv, TypeOK, Progress, Handlers
  <2>5. HeldRows'
    BY <2>1, <2>2 DEF HandledInv, TypeOK, HeldRows, Holds
  <2>6. EffectsOK'
    BY <2>2 DEF HandledInv, EffectsOK, Handlers
  <2> QED BY <2>4, <2>5, <2>6
<1>8. ASSUME NEW w \in Workers, HandlerSucceeds(w) PROVE Progress' /\ HeldRows' /\ EffectsOK'
  <2>1. /\ pc[w] = "handle"
        /\ effects' = [effects EXCEPT ![cur[w]] = @ \cup {step[w]}]
        /\ UNCHANGED <<row, todo, cur>>
    BY <1>8 DEF HandlerSucceeds, rowVars
  <2>2. EffectsOK' /\ \A e \in Events : effects[e] \subseteq effects'[e]
    BY <2>1, ApplyEffect
  <2>3. HeldRows'
    BY <2>1 DEF HandledInv, HeldRows, Holds
  <2>4. /\ cur[w] \in Events /\ step[w] \in Nat \ {0} /\ Fanout[cur[w]] \in Nat \ {0}
        /\ step[w] <= Fanout[cur[w]] /\ step[w] \in effects'[cur[w]]
        /\ \A i \in 1..(step[w] - 1) : i \in effects'[cur[w]]
    <3>1. cur[w] \in Events /\ step[w] \in Nat \ {0} /\ step[w] <= Fanout[cur[w]]
      BY <2>1 DEF HandledInv, TypeOK, PcOK, Progress
    <3>2. Fanout[cur[w]] \in Nat \ {0}
      BY <3>1, OutboxAssumption
    <3>3. step[w] \in effects'[cur[w]]
      BY <2>1, <3>1 DEF HandledInv, TypeOK
    <3>4. \A i \in 1..(step[w] - 1) : i \in effects[cur[w]]
      BY <2>1 DEF HandledInv, Progress
    <3> QED BY <2>2, <3>1, <3>2, <3>3, <3>4
  <2>5. \A i \in 1..step[w] : i \in effects'[cur[w]]
    BY <2>4
  <2>6. ASSUME NEW v \in Workers, v # w
        PROVE  /\ pc'[v] = pc[v] /\ step'[v] = step[v]
               /\ pc[v] \in {"handle", "complete"} => cur[v] \in Events
    BY <1>8, <2>6 DEF HandlerSucceeds, HandledInv, TypeOK, PcOK
  <2>7. CASE step[w] = Fanout[cur[w]]
    <3>1. pc' = [pc EXCEPT ![w] = "complete"] /\ step' = step
      BY <1>8, <2>7 DEF HandlerSucceeds
    <3>2. \A i \in Handlers(cur[w]) : i \in effects'[cur[w]]
      BY <2>5, <2>7 DEF Handlers
    <3> QED BY <2>1, <2>2, <2>3, <2>6, <3>1, <3>2 DEF HandledInv, TypeOK, Progress, Handlers
  <2>8. CASE step[w] # Fanout[cur[w]]
    <3>1. step' = [step EXCEPT ![w] = @ + 1] /\ pc' = pc
      BY <1>8, <2>8 DEF HandlerSucceeds
    <3>2. step'[w] = step[w] + 1 /\ step'[w] <= Fanout[cur[w]] /\ step'[w] - 1 = step[w]
      <4>1. step'[w] = step[w] + 1
        BY <3>1 DEF HandledInv, TypeOK
      <4> QED BY <2>4, <2>8, <4>1
    <3> QED BY <2>1, <2>2, <2>3, <2>5, <2>6, <3>1, <3>2 DEF HandledInv, TypeOK, Progress, Handlers
  <2> QED BY <2>7, <2>8
<1>9. ASSUME NEW w \in Workers, HandlerFails(w) PROVE Progress' /\ HeldRows' /\ EffectsOK'
  <2>1. /\ pc[w] = "handle" /\ pc' = [pc EXCEPT ![w] = "reschedule"]
        /\ \/ effects' = effects
           \/ effects' = [effects EXCEPT ![cur[w]] = @ \cup {step[w]}]
        /\ UNCHANGED <<row, todo, cur, step>>
    BY <1>9 DEF HandlerFails, rowVars
  <2>2. EffectsOK' /\ \A e \in Events : effects[e] \subseteq effects'[e]
    BY <2>1, ApplyEffect
  <2>3. HeldRows'
    BY <2>1 DEF HandledInv, HeldRows, Holds
  <2>4. \A v \in Workers : pc[v] \in {"handle", "complete"} => cur[v] \in Events
    BY DEF HandledInv, PcOK, TypeOK
  <2>5. Progress'
    BY <2>1, <2>2, <2>4 DEF HandledInv, TypeOK, Progress, Handlers
  <2> QED BY <2>2, <2>3, <2>5
<1>10. ASSUME NEW w \in Workers, HandlerTimesOut(w) PROVE Progress' /\ HeldRows' /\ EffectsOK'
  <2>1. /\ pc[w] = "handle" /\ EndDispatch(w) /\ row' = row
        /\ \/ effects' = effects
           \/ effects' = [effects EXCEPT ![cur[w]] = @ \cup {step[w]}]
    BY <1>10 DEF HandlerTimesOut, rowVars
  <2>2. EffectsOK' /\ \A e \in Events : effects[e] \subseteq effects'[e]
    BY <2>1, ApplyEffect
  <2> QED BY <2>1, <2>2, EndDispatchProgress
<1>11. ASSUME NEW w \in Workers, Complete(w) PROVE Progress' /\ HeldRows' /\ EffectsOK'
  <2>1. /\ pc[w] = "complete" /\ EndDispatch(w) /\ effects' = effects
        /\ row' = [row EXCEPT ![cur[w]] = IF @ = "queued" THEN "completed" ELSE @]
    BY <1>11 DEF Complete
  <2>2. cur[w] \in Events /\ \A i \in Handlers(cur[w]) : i \in effects[cur[w]]
    BY <2>1 DEF HandledInv, TypeOK, PcOK, Progress
  <2>3. EffectsOK'
    BY <2>1, <2>2 DEF HandledInv, TypeOK, EffectsOK, Handlers
  <2>4. Progress' /\ HeldRows'
    BY <2>1, EndDispatchProgress DEF HandledInv, TypeOK
  <2> QED BY <2>3, <2>4
<1>12. ASSUME NEW w \in Workers, Reschedule(w) \/ WriteFails(w)
       PROVE Progress' /\ HeldRows' /\ EffectsOK'
  <2>1. EndDispatch(w) /\ effects' = effects /\ row' = row
    BY <1>12 DEF Reschedule, WriteFails, rowVars
  <2>2. EffectsOK'
    BY <2>1 DEF HandledInv, EffectsOK, Handlers
  <2> QED BY <2>1, <2>2, EndDispatchProgress
<1>13. ASSUME NEW w \in Workers, Stop(w) PROVE Progress' /\ HeldRows' /\ EffectsOK'
  BY <1>13, OutboxAssumption
     DEF Stop, rowVars, HandledInv, TypeOK, Progress, HeldRows, EffectsOK, Holds, Handlers
<1>14. ASSUME NEW w \in Workers, Start(w) PROVE Progress' /\ HeldRows' /\ EffectsOK'
  BY <1>14 DEF Start, rowVars, HandledInv, TypeOK, Progress, HeldRows, EffectsOK, Holds, Handlers
<1>15. CASE UNCHANGED vars
  BY <1>15 DEF vars, rowVars, workerVars, HandledInv, Progress, HeldRows, EffectsOK, Holds, Handlers
<1> QED
  BY <1>3, <1>4, <1>5, <1>6, <1>7, <1>8, <1>9, <1>10, <1>11, <1>12, <1>13, <1>14, <1>15
     DEF Next, Work, Fault

\* The empty outbox satisfies the invariant about dispatches.
LEMMA HandledInit == Init => HandledInv
<1>1. Init => TypeOK /\ PcOK
  BY OutboxAssumption, PolicyAssumption DEF Init, TypeOK, PcOK
<1>2. Init => Progress /\ HeldRows /\ EffectsOK
  BY OutboxAssumption DEF Init, Progress, HeldRows, EffectsOK, Holds
<1> QED BY <1>1, <1>2 DEF HandledInv

\* The invariant about dispatches holds in every reachable state.
LEMMA HandledInvariant == Spec => []HandledInv
<1>1. Init => HandledInv
  BY HandledInit
<1>2. HandledInv /\ [Next]_vars => HandledInv'
  BY HandledStep
<1> QED BY <1>1, <1>2, PTL DEF Spec

\* A row is completed only after every handler of its list has been applied,
\* for any number of workers, retries, crashes and lost claims.
THEOREM CompletedRowsWereHandled == Spec => []CompletedMeansHandled
<1>1. HandledInv => CompletedMeansHandled
  BY DEF HandledInv, EffectsOK, CompletedMeansHandled
<1> QED BY <1>1, HandledInvariant, PTL

\* The handlers of a list take effect in the order of the list.
THEOREM EffectsFollowTheList == Spec => []HandlersInOrder
<1>1. HandledInv => HandlersInOrder
  BY DEF HandledInv, EffectsOK, HandlersInOrder
<1> QED BY <1>1, HandledInvariant, PTL

-----------------------------------------------------------------------------
(* Live leases are exclusive until a worker releases a claim it has lost *)

\* The lease a worker sees is the one in the row.
LeaseOK ==
  \A w \in Workers, e \in Events :
    LiveHolder(w, e) /\ row[e] = "queued" /\ ~staleRelease[e] => claimLeft[e] = seenLeft[w][e]

LeaseInv == HandledInv /\ LeaseOK /\ LeaseExclusive

\* A claim statement only takes rows without a live holder.
LEMMA BatchWithoutHolders ==
  ASSUME LeaseInv, NEW S \in ClaimBatches, NEW e \in S, ~staleRelease[e]
  PROVE  e \in Events /\ \A w \in Workers : ~LiveHolder(w, e)
<1>1. e \in Events /\ Claimable(e)
  BY DEF ClaimBatches
<1> QED BY <1>1 DEF LeaseInv, LeaseOK, LiveHolder, Claimable, HandledInv, TypeOK

\* Fewer holders of the same rows keep the lease invariant.
LEMMA FewerHolders ==
  ASSUME LeaseInv, TypeOK',
         \A w \in Workers, e \in Events :
           LiveHolder(w, e)' => LiveHolder(w, e) /\ seenLeft'[w][e] = seenLeft[w][e],
         UNCHANGED <<claimLeft, staleRelease>>,
         \A e \in Events : row'[e] = "queued" => row[e] = "queued"
  PROVE  LeaseOK' /\ LeaseExclusive'
BY DEF LeaseInv, LeaseOK, LeaseExclusive

\* Every step keeps live leases exclusive, and a live holder's view of
\* claim_until equal to the row's, unless a stale Reschedule released the row.
LEMMA LeaseStep ==
  ASSUME LeaseInv, [Next]_vars PROVE LeaseInv'
<1>1. HandledInv /\ TypeOK /\ HandledInv' /\ TypeOK'
  BY HandledStep DEF LeaseInv, HandledInv
<1>2. SUFFICES LeaseOK' /\ LeaseExclusive'
  BY <1>1 DEF LeaseInv
<1>3. ASSUME NEW e \in Events, Enqueue(e) PROVE LeaseOK' /\ LeaseExclusive'
  <2>1. \A w \in Workers : ~Holds(w, e)
    BY <1>1, <1>3 DEF HandledInv, HeldRows, Enqueue
  <2> QED BY <1>1, <1>3, <2>1
          DEF Enqueue, workerVars, TypeOK, LeaseInv, LeaseOK, LeaseExclusive, LiveHolder, Holds
<1>4. CASE Tick
  <2>1. \A w \in Workers, e \in Events : seenLeft'[w][e] = Less(seenLeft[w][e])
                                       /\ claimLeft'[e] = Less(claimLeft[e])
    BY <1>4 DEF Tick
  <2>2. UNCHANGED <<row, todo, cur, staleRelease>>
    BY <1>4 DEF Tick
  <2>3. \A w \in Workers, e \in Events : LiveHolder(w, e)' => LiveHolder(w, e)
    BY <1>1, <2>1, <2>2 DEF TypeOK, LiveHolder, Holds, Less
  <2> QED BY <2>1, <2>2, <2>3 DEF LeaseInv, LeaseOK, LeaseExclusive
<1>5. ASSUME NEW w \in Workers, Claim(w) PROVE LeaseOK' /\ LeaseExclusive'
  <2>1. PICK S \in ClaimBatches :
          /\ ClaimRows(S)
          /\ todo' = [todo EXCEPT ![w] = S]
          /\ seenLeft' = [seenLeft EXCEPT ![w] = [e \in Events |-> IF e \in S THEN Lease ELSE 0]]
    BY <1>5 DEF Claim
  <2>2. pc[w] = "idle" /\ UNCHANGED <<row, cur, staleRelease>> /\ cur[w] \notin Events
        /\ claimLeft' = [e \in Events |-> IF e \in S THEN Lease ELSE claimLeft[e]]
    BY <1>1, <1>5, <2>1, OutboxAssumption DEF Claim, ClaimRows, HandledInv, PcOK, TypeOK
  <2>3. \A e \in Events : LiveHolder(w, e)' => e \in S /\ seenLeft'[w][e] = Lease
    BY <1>1, <2>1, <2>2 DEF TypeOK, LiveHolder, Holds
  <2>4. \A v \in Workers, e \in Events : v # w =>
          /\ LiveHolder(v, e)' => LiveHolder(v, e)
          /\ seenLeft'[v][e] = seenLeft[v][e]
    BY <1>1, <2>1, <2>2 DEF TypeOK, LiveHolder, Holds
  <2>5. \A v \in Workers, e \in S : ~staleRelease[e] => ~LiveHolder(v, e)
    BY BatchWithoutHolders
  <2>6. LeaseOK'
    BY <2>2, <2>3, <2>4, <2>5 DEF LeaseInv, LeaseOK
  <2>7. LeaseExclusive'
    BY <2>2, <2>3, <2>4, <2>5 DEF LeaseInv, LeaseExclusive
  <2> QED BY <2>6, <2>7
<1>6. ASSUME NEW w \in Workers, ClaimLost(w) PROVE LeaseOK' /\ LeaseExclusive'
  <2>1. PICK S \in ClaimBatches : ClaimRows(S)
    BY <1>6 DEF ClaimLost
  <2>2. \A v \in Workers, e \in S : ~staleRelease[e] => ~LiveHolder(v, e)
    BY BatchWithoutHolders
  <2>3. UNCHANGED <<row, todo, cur, seenLeft, staleRelease>>
        /\ claimLeft' = [e \in Events |-> IF e \in S THEN Lease ELSE claimLeft[e]]
    BY <1>6, <2>1 DEF ClaimLost, ClaimRows, workerVars
  <2> QED BY <2>2, <2>3 DEF LeaseInv, LeaseOK, LeaseExclusive, LiveHolder, Holds
<1>7. ASSUME NEW w \in Workers, Dispatch(w) PROVE LeaseOK' /\ LeaseExclusive'
  BY <1>1, <1>7, FewerHolders DEF Dispatch, rowVars, TypeOK, LiveHolder, Holds
<1>8. ASSUME NEW w \in Workers, HandlerSucceeds(w) \/ HandlerFails(w)
      PROVE LeaseOK' /\ LeaseExclusive'
  BY <1>1, <1>8, FewerHolders DEF HandlerSucceeds, HandlerFails, rowVars, LiveHolder, Holds
<1>9. ASSUME NEW w \in Workers, EndDispatch(w), cur[w] \in Events
      PROVE  \A v \in Workers, e \in Events : LiveHolder(v, e)' =>
               /\ LiveHolder(v, e) /\ seenLeft'[v][e] = seenLeft[v][e]
               /\ ~(v = w /\ e = cur[w])
  <2> SUFFICES ASSUME NEW v \in Workers, NEW e \in Events, LiveHolder(v, e)'
               PROVE  /\ LiveHolder(v, e) /\ seenLeft'[v][e] = seenLeft[v][e]
                      /\ ~(v = w /\ e = cur[w])
    OBVIOUS
  <2>1. seenLeft'[v][e] = IF v = w /\ e = cur[w] THEN 0 ELSE seenLeft[v][e]
    BY <1>1, <1>9 DEF EndDispatch, TypeOK
  <2>2. ~(v = w /\ e = cur[w]) /\ seenLeft'[v][e] = seenLeft[v][e]
    BY <2>1 DEF LiveHolder
  <2>3. todo' = todo /\ (cur'[v] = cur[v] \/ cur'[v] = NoEvent)
    BY <1>1, <1>9 DEF EndDispatch, TypeOK
  <2> QED BY <2>2, <2>3, OutboxAssumption DEF LiveHolder, Holds
<1>10. ASSUME NEW w \in Workers, HandlerTimesOut(w) \/ Complete(w) \/ WriteFails(w)
       PROVE LeaseOK' /\ LeaseExclusive'
  <2>1. EndDispatch(w) /\ cur[w] \in Events /\ UNCHANGED <<claimLeft, staleRelease>>
    BY <1>1, <1>10 DEF HandlerTimesOut, Complete, WriteFails, rowVars, HandledInv, PcOK, TypeOK
  <2>2. \A e \in Events : row'[e] = "queued" => row[e] = "queued"
    BY <1>1, <1>10 DEF HandlerTimesOut, Complete, WriteFails, rowVars, TypeOK
  <2> QED BY <1>1, <1>9, <2>1, <2>2, FewerHolders
<1>11. ASSUME NEW w \in Workers, Reschedule(w) PROVE LeaseOK' /\ LeaseExclusive'
  <2>1. EndDispatch(w) /\ cur[w] \in Events /\ row' = row
    BY <1>1, <1>11 DEF Reschedule, HandledInv, PcOK, TypeOK
  <2>2. CASE row[cur[w]] # "queued"
    <3>1. UNCHANGED <<claimLeft, staleRelease>>
      BY <1>11, <2>2 DEF Reschedule
    <3> QED BY <1>1, <1>9, <2>1, <3>1, FewerHolders
  <2>3. CASE row[cur[w]] = "queued"
    <3>1. /\ claimLeft' = [claimLeft EXCEPT ![cur[w]] = 0]
          /\ staleRelease' = [staleRelease EXCEPT ![cur[w]] = @ \/ seenLeft[w][cur[w]] = 0]
      BY <1>11, <2>3 DEF Reschedule
    <3>2. \A e \in Events : ~staleRelease'[e] => ~staleRelease[e]
      BY <1>1, <3>1 DEF TypeOK
    <3>3. ~staleRelease'[cur[w]] => LiveHolder(w, cur[w])
      <4>1. ~staleRelease'[cur[w]] => seenLeft[w][cur[w]] # 0
        BY <1>1, <2>1, <3>1 DEF TypeOK
      <4>2. seenLeft[w][cur[w]] \in Nat
        BY <1>1, <2>1 DEF TypeOK
      <4> QED BY <4>1, <4>2 DEF LiveHolder, Holds
    <3>4. ASSUME NEW v \in Workers, NEW e \in Events, e = cur[w],
                 LiveHolder(v, e)', ~staleRelease'[e]
          PROVE  FALSE
      <4>1. LiveHolder(v, e) /\ v # w
        BY <1>9, <2>1, <3>4
      <4> QED BY <2>1, <3>2, <3>3, <3>4, <4>1 DEF LeaseInv, LeaseExclusive
    <3>5. \A e \in Events : e # cur[w] => claimLeft'[e] = claimLeft[e]
      BY <1>1, <3>1 DEF TypeOK
    <3>6. LeaseOK'
      BY <1>9, <2>1, <3>2, <3>4, <3>5 DEF LeaseInv, LeaseOK
    <3>7. LeaseExclusive'
      BY <1>9, <2>1, <3>2, <3>4 DEF LeaseInv, LeaseExclusive
    <3> QED BY <3>6, <3>7
  <2> QED BY <2>2, <2>3
<1>12. ASSUME NEW w \in Workers, Stop(w) PROVE LeaseOK' /\ LeaseExclusive'
  <2>1. \A v \in Workers, e \in Events :
          LiveHolder(v, e)' => LiveHolder(v, e) /\ seenLeft'[v][e] = seenLeft[v][e]
    BY <1>1, <1>12, OutboxAssumption DEF Stop, TypeOK, LiveHolder, Holds
  <2> QED BY <1>1, <1>12, <2>1, FewerHolders DEF Stop, rowVars
<1>13. ASSUME NEW w \in Workers, Start(w) PROVE LeaseOK' /\ LeaseExclusive'
  BY <1>1, <1>13, FewerHolders DEF Start, rowVars, LiveHolder, Holds
<1>14. CASE UNCHANGED vars
  BY <1>1, <1>14, FewerHolders DEF vars, rowVars, workerVars, LiveHolder, Holds
<1> QED
  BY <1>3, <1>4, <1>5, <1>6, <1>7, <1>8, <1>10, <1>11, <1>12, <1>13, <1>14
     DEF Next, Work, Fault

\* Claims, completions, crashes and failed writes never give two workers a live
\* lease on one event: only a Reschedule by a worker whose own lease had run
\* out can.
THEOREM LiveLeasesAreExclusive == Spec => []LeaseExclusive
<1>1. Init => LeaseOK /\ LeaseExclusive
  BY OutboxAssumption DEF Init, LeaseOK, LeaseExclusive, LiveHolder, Holds
<1>2. Init => LeaseInv
  BY <1>1, HandledInit DEF LeaseInv
<1>3. LeaseInv /\ [Next]_vars => LeaseInv'
  BY LeaseStep
<1>4. LeaseInv => LeaseExclusive
  BY DEF LeaseInv
<1> QED BY <1>2, <1>3, <1>4, PTL DEF Spec

-----------------------------------------------------------------------------
(* The relay implements the at-least-once queue *)

Status == [e \in Events |-> CASE row[e] = "absent" -> "none"
                              [] row[e] = "queued" -> "pending"
                              [] OTHER -> "settled"]

\* An effect applied by a dispatch is a delivery of the abstract queue.
LEMMA EffectIsDelivery ==
  ASSUME HandledInv, NEW w \in Workers, pc[w] = "handle", row' = row,
         \/ effects' = effects
         \/ effects' = [effects EXCEPT ![cur[w]] = @ \cup {step[w]}]
  PROVE  [AtLeastOnce!Next]_(AtLeastOnce!vars)
<1>1. CASE effects' = effects
  BY <1>1 DEF AtLeastOnce!vars
<1>2. CASE effects' = [effects EXCEPT ![cur[w]] = @ \cup {step[w]}]
  <2>1. cur[w] \in Events /\ step[w] \in 1..Fanout[cur[w]]
    BY OutboxAssumption DEF HandledInv, TypeOK, PcOK, Progress
  <2>2. row[cur[w]] # "absent"
    BY <2>1 DEF HandledInv, HeldRows, Holds
  <2>3. Status[cur[w]] # "none"
    BY <2>1, <2>2 DEF Status, HandledInv, TypeOK
  <2>4. 1..(step[w] - 1) \subseteq effects[cur[w]]
    BY DEF HandledInv, Progress
  <2>5. PICK e \in Events, i \in Nat : e = cur[w] /\ i = step[w] /\ i \in 1..Fanout[e]
    BY <2>1
  <2>6. AtLeastOnce!Deliver(e, i)
    BY <1>2, <2>3, <2>4, <2>5 DEF AtLeastOnce!Deliver, Status
  <2> QED BY <2>5, <2>6 DEF AtLeastOnce!Next
<1> QED BY <1>1, <1>2

\* Every step of the relay is a step of the abstract queue, or leaves it as it
\* is.
LEMMA StepRefines ==
  ASSUME HandledInv, [Next]_vars PROVE [AtLeastOnce!Next]_(AtLeastOnce!vars)
<1>1. ASSUME NEW e \in Events, Enqueue(e) PROVE AtLeastOnce!Publish(e)
  BY <1>1 DEF Enqueue, AtLeastOnce!Publish, HandledInv, TypeOK
<1>2. ASSUME NEW w \in Workers, HandlerSucceeds(w) \/ HandlerFails(w) \/ HandlerTimesOut(w)
      PROVE  [AtLeastOnce!Next]_(AtLeastOnce!vars)
  <2>1. /\ pc[w] = "handle" /\ row' = row
        /\ \/ effects' = effects
           \/ effects' = [effects EXCEPT ![cur[w]] = @ \cup {step[w]}]
    BY <1>2 DEF HandlerSucceeds, HandlerFails, HandlerTimesOut, rowVars
  <2> QED BY <2>1, EffectIsDelivery
<1>3. ASSUME NEW w \in Workers, Complete(w) PROVE [AtLeastOnce!Next]_(AtLeastOnce!vars)
  <2>1. /\ pc[w] = "complete" /\ effects' = effects
        /\ row' = [row EXCEPT ![cur[w]] = IF @ = "queued" THEN "completed" ELSE @]
    BY <1>3 DEF Complete
  <2>2. cur[w] \in Events /\ \A i \in Handlers(cur[w]) : i \in effects[cur[w]]
    BY <2>1 DEF HandledInv, TypeOK, PcOK, Progress
  <2>3. effects[cur[w]] = 1..Fanout[cur[w]]
    BY <2>2 DEF HandledInv, EffectsOK, Handlers
  <2>4. CASE row[cur[w]] = "queued"
    <3>1. PICK e \in Events : e = cur[w]
      BY <2>2
    <3>2. AtLeastOnce!Settle(e)
      BY <2>1, <2>2, <2>3, <2>4, <3>1 DEF AtLeastOnce!Settle, HandledInv, TypeOK
    <3> QED BY <3>2 DEF AtLeastOnce!Next
  <2>5. CASE row[cur[w]] # "queued"
    <3>1. row' = row
      BY <2>1, <2>5 DEF HandledInv, TypeOK
    <3> QED BY <2>1, <3>1 DEF AtLeastOnce!vars
  <2> QED BY <2>4, <2>5
<1>4. ASSUME \/ Tick
             \/ \E w \in Workers : \/ Claim(w) \/ ClaimLost(w) \/ Dispatch(w) \/ Reschedule(w)
                                   \/ WriteFails(w) \/ Stop(w) \/ Start(w)
             \/ UNCHANGED vars
      PROVE  UNCHANGED AtLeastOnce!vars
  <2>1. row' = row /\ effects' = effects
    BY <1>4 DEF Tick, Claim, ClaimLost, ClaimRows, Dispatch, Reschedule, WriteFails, Stop, Start,
                vars, rowVars
  <2> QED BY <2>1 DEF AtLeastOnce!vars
<1> QED
  BY <1>1, <1>2, <1>3, <1>4 DEF Next, Work, Fault, AtLeastOnce!Next

\* Every behaviour of the relay is one of the at-least-once queue: one row per
\* key, deliveries in the order of the handler list, and settled only when all
\* of them have been made.
THEOREM RelayImplementsAtLeastOnce == Spec => AtLeastOnceSpec
<1>1. Init => AtLeastOnce!Init
  BY DEF Init, AtLeastOnce!Init
<1>2. HandledInv /\ [Next]_vars => [AtLeastOnce!Next]_(AtLeastOnce!vars)
  BY StepRefines
<1> QED BY <1>1, <1>2, HandledInvariant, PTL DEF Spec, AtLeastOnceSpec, AtLeastOnce!Spec
=============================================================================
