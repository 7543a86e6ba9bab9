---------------------------- MODULE AtLeastOnce ----------------------------
(***************************************************************************)
(* What the outbox promises (ADR-003), without rows, leases, clocks and    *)
(* workers: an event published once per idempotency key is delivered to    *)
(* each handler of its list, in order and possibly again after it is       *)
(* settled, and it is settled only when all of them have had it.           *)
(***************************************************************************)
EXTENDS Integers

CONSTANTS Events, Key, Fanout

VARIABLES status, delivered

vars == <<status, delivered>>

Init ==
  /\ status = [e \in Events |-> "none"]
  /\ delivered = [e \in Events |-> {}]

Publish(e) ==
  /\ \A f \in Events : Key[f] = Key[e] => status[f] = "none"
  /\ status' = [status EXCEPT ![e] = "pending"]
  /\ UNCHANGED delivered

Deliver(e, i) ==
  /\ status[e] # "none"
  /\ 1..(i - 1) \subseteq delivered[e]
  /\ delivered' = [delivered EXCEPT ![e] = @ \cup {i}]
  /\ UNCHANGED status

Settle(e) ==
  /\ status[e] = "pending"
  /\ delivered[e] = 1..Fanout[e]
  /\ status' = [status EXCEPT ![e] = "settled"]
  /\ UNCHANGED delivered

Next ==
  \E e \in Events :
    \/ Publish(e)
    \/ \E i \in 1..Fanout[e] : Deliver(e, i)
    \/ Settle(e)

Spec == Init /\ [][Next]_vars
=============================================================================
