------------------------ MODULE VerificationDelivery ------------------------
(***************************************************************************)
(* notifications.IntentHandler and DeliveryService: a relay worker upserts *)
(* the delivery row of a verification intent, resolves the secret, calls   *)
(* the provider and saves the row by its id alone.  Intents do not share   *)
(* rows, so one intent is modelled.  The relay may start a second run of   *)
(* the event while a slow one is still going (module Outbox).              *)
(***************************************************************************)
EXTENDS Integers

CONSTANTS
  Workers,
  MaxOverlaps,   \* bound: runs started while another is going
  MaxFaults      \* bound: lost runs and failed saves

VARIABLES
  event,      \* the outbox row: "open" or "completed"
  status,     \* of the delivery row
  usable,     \* the challenge is neither expired nor consumed
  run,        \* of each worker: what it has read and been answered
  answers,    \* history: what the provider answered
  overlaps, faults

vars == <<event, status, usable, run, answers, overlaps, faults>>

Idle == [op |-> "idle", answer |-> "none"]

Init ==
  /\ event = "open" /\ status = "none" /\ usable = TRUE
  /\ run = [w \in Workers |-> Idle]
  /\ answers = {}
  /\ overlaps = 0 /\ faults = 0

Goto(w, op) == run' = [run EXCEPT ![w] = [op |-> op, answer |-> "none"]]

\* The relay claims the event; UpsertDelivery keeps an existing row and
\* returns it.
Upsert(w) ==
  /\ event = "open" /\ run[w] = Idle
  /\ overlaps' = IF \E v \in Workers : run[v] # Idle THEN overlaps + 1 ELSE overlaps
  /\ overlaps' <= MaxOverlaps
  /\ status' = IF status = "none" THEN "pending" ELSE status
  /\ Goto(w, IF status = "sent" THEN "handled" ELSE "resolve")
  /\ UNCHANGED <<event, usable, answers, faults>>

\* VerificationMaterialResolver.Resolve; without material the run fails and the
\* relay retries.
Resolve(w) ==
  /\ run[w].op = "resolve"
  /\ IF usable THEN Goto(w, "send") ELSE run' = [run EXCEPT ![w] = Idle]
  /\ UNCHANGED <<event, status, usable, answers, overlaps, faults>>

\* EmailSender.Send or SMSSender.Send
Send(w) ==
  /\ run[w].op = "send"
  /\ \E answer \in {"accepted", "retryable", "permanent"} :
       /\ run' = [run EXCEPT ![w] = [op |-> "save", answer |-> answer]]
       /\ answers' = answers \cup {answer}
  /\ UNCHANGED <<event, status, usable, overlaps, faults>>

\* Handle returns nil: sent, or ClassifyProviderError says to give up.
Settles(answer) == answer \in {"accepted", "permanent"}

\* Mutant: the row is saved as sent before the answer is looked at.
StatusOfSent(answer) == "sent"

StatusOf(answer) == IF answer = "accepted" THEN "sent" ELSE "failed"

\* SaveDelivery: UPDATE ... WHERE id.
Save(w) ==
  /\ run[w].op = "save"
  /\ status' = StatusOf(run[w].answer)
  /\ IF Settles(run[w].answer) THEN Goto(w, "handled") ELSE run' = [run EXCEPT ![w] = Idle]
  /\ UNCHANGED <<event, usable, answers, overlaps, faults>>

\* The relay completes the event.
Complete(w) ==
  /\ run[w].op = "handled"
  /\ event' = "completed"
  /\ run' = [run EXCEPT ![w] = Idle]
  /\ UNCHANGED <<status, usable, answers, overlaps, faults>>

\* The challenge expires or is consumed.
Expire ==
  /\ usable
  /\ usable' = FALSE
  /\ UNCHANGED <<event, status, run, answers, overlaps, faults>>

\* A crash, or SaveDelivery fails.
RunLost(w) ==
  /\ run[w] # Idle
  /\ faults < MaxFaults
  /\ faults' = faults + 1
  /\ run' = [run EXCEPT ![w] = Idle]
  /\ UNCHANGED <<event, status, usable, answers, overlaps>>

Work(w) == Upsert(w) \/ Resolve(w) \/ Send(w) \/ Save(w) \/ Complete(w)
Next == Expire \/ \E w \in Workers : Work(w) \/ RunLost(w)
Spec == Init /\ [][Next]_vars

-----------------------------------------------------------------------------
\* "never completes as a successful send": the event is completed, or a row
\* says sent, only after the provider accepted the message; a completed event
\* may also have been refused for good.
CompletedMeansAnswered ==
  /\ status = "sent" => "accepted" \in answers
  /\ event = "completed" => answers \cap {"accepted", "permanent"} # {}

\* "Already-sent rows are not resent": the provider is called only while the
\* row is not sent.
SentIsNotResent ==
  [][(\E w \in Workers : run[w].op = "send" /\ run'[w].op = "save") => status # "sent"]_vars
=============================================================================
