------------------------------ MODULE Requests ------------------------------
(***************************************************************************)
(* How a request of cmd/server changes a row, the same way in every domain *)
(* package: read it, decide, and write it back in one statement that holds *)
(* only if updated_at is still the one that was read, with the events of   *)
(* the change inserted in the same transaction.  Other requests run in     *)
(* between.  updated_at is a version number: two writes of one row are     *)
(* taken to have different timestamps.                                     *)
(*                                                                         *)
(* Requests of users who may not touch the row they name end with an error *)
(* before anything is written, so only entitled requests are modelled.     *)
(***************************************************************************)
EXTENDS Integers

CONSTANT Clients    \* requests in flight at the same time

VARIABLES
  call,        \* what each request in flight has read so far
  published    \* idempotency keys in platform.outbox_events

Idle == [op |-> "idle"]

Return(c) == call' = [call EXCEPT ![c] = Idle]
Proceed(c, frame) == call' = [call EXCEPT ![c] = frame]

\* Mutant: UPDATE ... WHERE id alone.
FreshAlways(row, ver) == TRUE

\* UPDATE ... WHERE id AND updated_at: the row is still the one that was read.
Fresh(row, ver) == row.ver = ver

Write(row, next) == [row EXCEPT !.status = next, !.ver = @ + 1]

\* Enqueue in the transaction.  A unique idempotency key that is already taken
\* aborts the whole PostgreSQL transaction, although the producers map the
\* error to nil: the commit fails and nothing is written.
Publishable(keys) == keys \cap published = {}
=============================================================================
