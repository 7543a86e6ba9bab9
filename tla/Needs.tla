------------------------------- MODULE Needs --------------------------------
(***************************************************************************)
(* backend/internal/needs: a need and the owner's operations on it.        *)
(***************************************************************************)
EXTENDS Requests

CONSTANTS
  NeedIds,
  MaxEdits     \* bound: writes of one need

ASSUME NeedsAssumption == MaxEdits \in Nat

VARIABLE need    \* the row of each need: status and updated_at

NeedStatuses == {"none", "draft", "open", "fulfilled", "cancelled", "expired"}
NeedFinal == {"fulfilled", "cancelled", "expired"}

NeedsInit == need = [n \in NeedIds |-> [status |-> "none", ver |-> 0]]

-----------------------------------------------------------------------------
\* Create: a draft.
NeedCreate(n) ==
  /\ need[n].status = "none"
  /\ need' = [need EXCEPT ![n] = Write(@, "draft")]
  /\ UNCHANGED call

\* The transitions of domain.go, by operation: from which statuses, and to
\* which one (UpdateContent keeps the status it read).
NeedOps == {"update", "open", "fulfill", "cancel", "expire"}
NeedNext(op, status) ==
  CASE op = "update" /\ status \in {"draft", "open"} -> status
    [] op = "open" /\ status = "draft" -> "open"
    [] op = "fulfill" /\ status = "open" -> "fulfilled"
    [] op = "cancel" /\ status \in {"draft", "open"} -> "cancelled"
    [] op = "expire" /\ status \in {"draft", "open"} -> "expired"
    [] OTHER -> "none"

\* mutateOwned and ExpireIfDue, up to the write; a refused transition returns.
NeedRead(c, n, op) ==
  /\ call[c] = Idle
  /\ NeedNext(op, need[n].status) # "none"
  /\ need[n].ver < MaxEdits
  /\ Proceed(c, [op |-> "need", id |-> n, ver |-> need[n].ver,
                 next |-> NeedNext(op, need[n].status)])
  /\ UNCHANGED need

\* store.Update; a conflict is returned to the caller and nothing is written.
NeedWrite(c) ==
  /\ call[c].op = "need"
  /\ LET n == call[c].id IN
       need' = IF Fresh(need[n], call[c].ver)
                 THEN [need EXCEPT ![n] = Write(@, call[c].next)]
                 ELSE need
  /\ Return(c)

NeedsNext(c) ==
  \/ \E n \in NeedIds : NeedCreate(n) \/ \E op \in NeedOps : NeedRead(c, n, op)
  \/ NeedWrite(c)
=============================================================================
