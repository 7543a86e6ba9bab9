----------------------------- MODULE Agreements -----------------------------
(***************************************************************************)
(* The transaction as deliveries, payments and disputes see it, through    *)
(* transactions/contracts.Lookup: its status and the start of its dispute  *)
(* window.  Transactions.tla has the full component; here a status change  *)
(* is the committed write alone.  In the frames of requests, "saw" and     *)
(* "known" are history: what there was when the request looked.            *)
(***************************************************************************)
EXTENDS Requests

CONSTANT TxnIds

VARIABLES
  agreement,     \* status of each transaction
  windowOpen     \* the dispute window that starts at DisputeAnchor is open

AgreementStatuses == {"pending", "active", "completed", "cancelled"}

AgreementsInit ==
  /\ agreement = [t \in TxnIds |-> "pending"]
  /\ windowOpen = [t \in TxnIds |-> TRUE]

\* Start, Complete and Cancel of transactions.  Completion moves the anchor of
\* the dispute window from CreatedAt to CompletedAt.
AgreementStep(t) ==
  /\ \/ agreement[t] = "pending" /\ agreement' = [agreement EXCEPT ![t] = "active"]
     \/ agreement[t] = "active" /\ agreement' = [agreement EXCEPT ![t] = "completed"]
     \/ /\ agreement[t] \in {"pending", "active"}
        /\ agreement' = [agreement EXCEPT ![t] = "cancelled"]
  /\ windowOpen' = [windowOpen EXCEPT ![t] = @ \/ agreement'[t] = "completed"]

\* policy.Window has passed since the anchor.
WindowCloses(t) ==
  /\ windowOpen[t]
  /\ windowOpen' = [windowOpen EXCEPT ![t] = FALSE]
  /\ UNCHANGED agreement
=============================================================================
