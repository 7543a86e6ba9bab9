------------------------------ MODULE Disputes ------------------------------
(***************************************************************************)
(* backend/internal/disputes: a participant opens a dispute, withdraws it  *)
(* and adds evidence; staff review, resolve and close it.                  *)
(***************************************************************************)
EXTENDS Agreements

CONSTANTS DisputeIds, TxnOfDispute

VARIABLES
  dispute,     \* the row of each dispute
  evidence     \* status of the dispute at each append of evidence

DisputeStatuses == {"none", "open", "under_review", "resolved", "closed", "withdrawn"}
DisputeActive == {"open", "under_review"}
DisputeConcluded == {"resolved", "closed"}

DisputesInit ==
  /\ dispute = [d \in DisputeIds |-> [status |-> "none", ver |-> 0]]
  /\ evidence = [d \in DisputeIds |-> {}]

DisputesOf(t, statuses) == {d \in DisputeIds : TxnOfDispute[d] = t /\ dispute[d].status \in statuses}

\* MayOpenDispute and assertWindow.
MayOpenDispute(t) == agreement[t] # "cancelled" /\ windowOpen[t]

\* CreateForTransaction, up to the insert: an active dispute is returned, and a
\* concluded one refuses another.
DisputeCheck(c, t) ==
  /\ call[c] = Idle
  /\ DisputesOf(t, DisputeActive) = {}
  /\ DisputesOf(t, DisputeConcluded) = {}
  /\ MayOpenDispute(t)
  /\ Proceed(c, [op |-> "dispute_create", txn |-> t, saw |-> agreement[t],
                 known |-> DisputesOf(t, DisputeStatuses \ {"none"})])
  /\ UNCHANGED <<dispute, evidence, published>>

\* encodeUpdated: one event for each status a dispute reaches.
DisputeKey(d, status) == <<"dispute", d, status>>

\* CreateForTransaction: the insert, unique per transaction among the active
\* disputes, and its event; the loser of two inserts gets the other's dispute.
DisputeCreate(c) ==
  /\ call[c].op = "dispute_create"
  /\ \/ /\ DisputesOf(call[c].txn, DisputeActive) = {}
        /\ \E d \in DisputeIds :
             /\ TxnOfDispute[d] = call[c].txn /\ dispute[d].status = "none"
             /\ dispute' = [dispute EXCEPT ![d] = Write(@, "open")]
             /\ published' = published \cup {DisputeKey(d, "open")}
     \/ DisputesOf(call[c].txn, DisputeActive) # {} /\ UNCHANGED <<dispute, published>>
  /\ Return(c)
  /\ UNCHANGED evidence

\* StartReview, Resolve, Close and Withdraw: the status each one asks for.
DisputeFrom == [under_review |-> "open", resolved |-> "under_review",
                closed |-> "resolved", withdrawn |-> "open"]

\* apply, up to the write.
DisputeRead(c, d, next) ==
  /\ call[c] = Idle
  /\ dispute[d].status = DisputeFrom[next]
  /\ Proceed(c, [op |-> "dispute", id |-> d, ver |-> dispute[d].ver, next |-> next])
  /\ UNCHANGED <<dispute, evidence, published>>

\* Mutant: the update does not look at the version that was read.
DisputeWriteBlind(c) ==
  LET d == call[c].id
      keys == {DisputeKey(d, call[c].next)}
  IN
  /\ call[c].op = "dispute"
  /\ IF Publishable(keys)
       THEN /\ dispute' = [dispute EXCEPT ![d] = Write(@, call[c].next)]
            /\ published' = published \cup keys
       ELSE UNCHANGED <<dispute, published>>
  /\ Return(c)
  /\ UNCHANGED evidence

\* apply: the update and its event.
DisputeWrite(c) ==
  LET d == call[c].id
      keys == {DisputeKey(d, call[c].next)}
  IN
  /\ call[c].op = "dispute"
  /\ IF Fresh(dispute[d], call[c].ver) /\ Publishable(keys)
       THEN /\ dispute' = [dispute EXCEPT ![d] = Write(@, call[c].next)]
            /\ published' = published \cup keys
       ELSE UNCHANGED <<dispute, published>>
  /\ Return(c)
  /\ UNCHANGED evidence

\* AddEvidence and AddInternalEvidence, up to the insert: AcceptsEvidence.
EvidenceCheck(c, d) ==
  /\ call[c] = Idle
  /\ dispute[d].status \in DisputeActive
  /\ Proceed(c, [op |-> "evidence", id |-> d, saw |-> dispute[d].ver])
  /\ UNCHANGED <<dispute, evidence, published>>

\* appendEvidence: the insert looks at no version of the dispute.
EvidenceAppend(c) ==
  /\ call[c].op = "evidence"
  /\ evidence' = [evidence EXCEPT ![call[c].id] = @ \cup {dispute[call[c].id].status}]
  /\ Return(c)
  /\ UNCHANGED <<dispute, published>>

DisputesNext(c) ==
  \/ \E t \in TxnIds : DisputeCheck(c, t)
  \/ \E d \in DisputeIds, next \in DOMAIN DisputeFrom : DisputeRead(c, d, next)
  \/ \E d \in DisputeIds : EvidenceCheck(c, d)
  \/ DisputeCreate(c) \/ DisputeWrite(c) \/ EvidenceAppend(c)
=============================================================================
