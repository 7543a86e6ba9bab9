----------------------------- MODULE Moderation -----------------------------
(***************************************************************************)
(* backend/internal/moderation: the decisions staff take on a listing, the *)
(* owner's appeals against them, and the case history that records both.   *)
(* The effect on the listing is another package's transaction, committed   *)
(* before the decision is recorded.                                        *)
(*                                                                         *)
(* UpdateAction and UpdateAppeal compare the status that was read, and a   *)
(* status never returns, so a transition without an effect is one step.    *)
(* The checks of the case (not closed) and of the appeal window only       *)
(* refuse requests and are left out.                                       *)
(***************************************************************************)
EXTENDS Listings, Sequences

CONSTANTS
  ActionIds, KindOf, TargetOf,    \* a decision, its type and its listing
  AppealIds, ActionOf             \* an appeal and the decision it is against

\* Foreign keys, and ids of two tables.
ASSUME ModerationAssumption ==
  /\ ActionIds \cap AppealIds = {}
  /\ TargetOf \in [ActionIds -> ListingIds]
  /\ ActionOf \in [AppealIds -> ActionIds]

VARIABLES
  action,      \* case_actions.status of each decision
  appeal,      \* appeals.status of each appeal
  history      \* case_history: the entries about each decision and appeal

ActionStatuses == {"none", "proposed", "approved", "executed", "cancelled"}
AppealStatuses == {"none", "submitted", "under_review", "accepted", "rejected", "withdrawn"}
AppealActive == {"submitted", "under_review"}

ModerationInit ==
  /\ action = [a \in ActionIds |-> "none"]
  /\ appeal = [p \in AppealIds |-> "none"]
  /\ history = [x \in ActionIds \cup AppealIds |-> <<>>]

listingVars == <<listing, place, published, enforced>>

\* restrict and remove change the listing, no_action and warning do not, and
\* suspend is refused on execution.
Effect == [restrict |-> "restricted", remove |-> "removed"]
Enforcing(a) == KindOf[a] \in DOMAIN Effect

\* newHistory and insertHistory, in the transaction of the row.
Entry(x, e) == history' = [history EXCEPT ![x] = Append(@, e)]

\* enqueueWarningIntent.
WarningKey(a) == <<"warning", a>>

-----------------------------------------------------------------------------
\* CanTransitionAction.
ActionMoves == {<<"proposed", "approved">>, <<"proposed", "cancelled">>,
                <<"approved", "executed">>, <<"approved", "cancelled">>}

\* CreateAction.
CreateAction(a) ==
  /\ action[a] = "none" /\ listing[TargetOf[a]].status # "none"
  /\ action' = [action EXCEPT ![a] = "proposed"]
  /\ Entry(a, "proposed")
  /\ UNCHANGED <<call, appeal>> /\ UNCHANGED listingVars

\* TransitionAction to approved or cancelled.
TransitionAction(a, to) ==
  /\ <<action[a], to>> \in ActionMoves /\ to # "executed"
  /\ action' = [action EXCEPT ![a] = to]
  /\ Entry(a, to)
  /\ UNCHANGED <<call, appeal>> /\ UNCHANGED listingVars

\* TransitionAction to executed, up to applyExecution.
ExecuteRead(c, a) ==
  /\ call[c] = Idle
  /\ <<action[a], "executed">> \in ActionMoves
  /\ KindOf[a] # "suspend"
  /\ LET record == [op |-> "record", id |-> a] IN
       Proceed(c, IF Enforcing(a)
                    THEN [op |-> "enforce", id |-> TargetOf[a], state |-> Effect[KindOf[a]], after |-> record]
                    ELSE record)
  /\ UNCHANGED <<action, appeal, history>> /\ UNCHANGED listingVars

\* Mutant: UPDATE case_actions WHERE id alone.
RecordActionBlind(c) ==
  /\ call[c].op = "record" /\ call[c].id \in ActionIds
  /\ LET a == call[c].id IN
       /\ action' = [action EXCEPT ![a] = "executed"]
       /\ Entry(a, "executed")
       /\ published' = published \cup (IF KindOf[a] = "warning" THEN {WarningKey(a)} ELSE {})
  /\ Return(c)
  /\ UNCHANGED <<appeal, listing, place, enforced>>

\* TransitionAction to executed: UpdateAction and, for a warning, its event in
\* one transaction, or a conflict.
RecordAction(c) ==
  /\ call[c].op = "record" /\ call[c].id \in ActionIds
  /\ LET a == call[c].id IN
       IF <<action[a], "executed">> \in ActionMoves
         THEN /\ action' = [action EXCEPT ![a] = "executed"]
              /\ Entry(a, "executed")
              /\ published' = published \cup (IF KindOf[a] = "warning" THEN {WarningKey(a)} ELSE {})
         ELSE UNCHANGED <<action, history, published>>
  /\ Return(c)
  /\ UNCHANGED <<appeal, listing, place, enforced>>

-----------------------------------------------------------------------------
\* CanTransitionAppeal.
AppealMoves == {<<"submitted", "under_review">>, <<"submitted", "withdrawn">>,
                <<"under_review", "accepted">>, <<"under_review", "rejected">>}

\* SubmitAppeal: one active appeal of the owner against a decision.
SubmitAppeal(p) ==
  /\ appeal[p] = "none"
  /\ action[ActionOf[p]] = "executed"
  /\ \A q \in AppealIds : ActionOf[q] = ActionOf[p] => appeal[q] \notin AppealActive
  /\ appeal' = [appeal EXCEPT ![p] = "submitted"]
  /\ Entry(p, "submitted")
  /\ UNCHANGED <<call, action>> /\ UNCHANGED listingVars

\* WithdrawAppeal, and TransitionAppeal to under_review or rejected.
TransitionAppeal(p, to) ==
  /\ <<appeal[p], to>> \in AppealMoves /\ to # "accepted"
  /\ appeal' = [appeal EXCEPT ![p] = to]
  /\ Entry(p, to)
  /\ UNCHANGED <<call, action>> /\ UNCHANGED listingVars

\* Mutant: the status of the appeal is not looked at before the listing is restored.
AcceptReadEarly(c, p) ==
  /\ call[c] = Idle
  /\ appeal[p] \in AppealActive
  /\ LET record == [op |-> "record", id |-> p] IN
       Proceed(c, IF Enforcing(ActionOf[p])
                    THEN [op |-> "enforce", id |-> TargetOf[ActionOf[p]], state |-> "none", after |-> record]
                    ELSE record)
  /\ UNCHANGED <<action, appeal, history>> /\ UNCHANGED listingVars

\* TransitionAppeal to accepted, up to the restoration.
AcceptRead(c, p) ==
  /\ call[c] = Idle
  /\ <<appeal[p], "accepted">> \in AppealMoves
  /\ LET record == [op |-> "record", id |-> p] IN
       Proceed(c, IF Enforcing(ActionOf[p])
                    THEN [op |-> "enforce", id |-> TargetOf[ActionOf[p]], state |-> "none", after |-> record]
                    ELSE record)
  /\ UNCHANGED <<action, appeal, history>> /\ UNCHANGED listingVars

\* TransitionAppeal to accepted: UpdateAppeal with the entry of the restoration,
\* or a conflict.
RecordAppeal(c) ==
  /\ call[c].op = "record" /\ call[c].id \in AppealIds
  /\ LET p == call[c].id IN
       IF <<appeal[p], "accepted">> \in AppealMoves
         THEN /\ appeal' = [appeal EXCEPT ![p] = "accepted"]
              /\ history' = [history EXCEPT ![p] =
                   @ \o (IF Enforcing(ActionOf[p]) THEN <<"restored", "accepted">> ELSE <<"accepted">>)]
         ELSE UNCHANGED <<appeal, history>>
  /\ Return(c)
  /\ UNCHANGED action /\ UNCHANGED listingVars

ModerationNextStep(c) ==
  \/ \E a \in ActionIds :
       \/ CreateAction(a) \/ ExecuteRead(c, a)
       \/ \E to \in {"approved", "cancelled"} : TransitionAction(a, to)
  \/ \E p \in AppealIds :
       \/ SubmitAppeal(p) \/ AcceptRead(c, p)
       \/ \E to \in {"under_review", "rejected", "withdrawn"} : TransitionAppeal(p, to)
  \/ RecordAction(c) \/ RecordAppeal(c)
=============================================================================
