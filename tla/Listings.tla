------------------------------ MODULE Listings ------------------------------
(***************************************************************************)
(* backend/internal/listings and the point internal/location keeps for a   *)
(* listing: the owner's lifecycle, the moderation state staff set through  *)
(* the ModerationEnforcement contract, and the events both enqueue.        *)
(*                                                                         *)
(* Every write stores the whole row that was computed from an earlier      *)
(* read, so an owner's request carries an old moderation state and a       *)
(* moderator's request an old status; updated_at keeps them apart.         *)
(***************************************************************************)
EXTENDS Requests

CONSTANTS
  ListingIds,
  MaxEdits,    \* bound: writes of one listing
  MaxMoves     \* bound: points set for one listing

ASSUME ListingsAssumption == MaxEdits \in Nat /\ MaxMoves \in Nat

VARIABLES
  listing,     \* the row of each listing
  place,       \* the point of each listing: 0 is none, n the n-th one set
  enforced     \* actions and appeals whose effect a listing write has stored

ListingStatuses == {"none", "draft", "ready", "verification_pending", "published", "archived"}
ModerationStates == {"none", "restricted", "removed"}

ListingsInit ==
  /\ listing = [l \in ListingIds |-> [status |-> "none", mod |-> "none", ver |-> 0]]
  /\ place = [l \in ListingIds |-> 0]
  /\ enforced = {}

\* PubliclyVisible.
Visible(row) == row.status = "published" /\ row.mod = "none"

-----------------------------------------------------------------------------
\* encodeListingEvent and encodeListingChangedEvent: the stamp is updated_at.
ListingKey(l, ver) == <<"listing", l, ver>>
PlaceKey(l, n) == <<"location", l, n>>

\* Mutant: a change of the moderation state alone is no event.
LifecycleEventOwnerOnly(prev, next) ==
  \/ next.status \in {"published", "archived"} /\ prev.status # next.status

\* lifecycleEventType: does this write enqueue an event?
LifecycleEvent(prev, next) ==
  \/ next.status = "archived" /\ prev.status # "archived"
  \/ next.status = "published"
  \/ prev.mod # next.mod

\* CreateListingDraft: the draft and, in the same transaction, its point.
CreateDraft(l) ==
  /\ listing[l].status = "none"
  /\ listing' = [listing EXCEPT ![l].status = "draft", ![l].ver = 1]
  /\ \/ UNCHANGED <<place, published>>
     \/ /\ MaxMoves > 0
        /\ place' = [place EXCEPT ![l] = 1]
        /\ published' = published \cup {PlaceKey(l, 1)}
  /\ UNCHANGED <<call, enforced>>

\* ReplaceOwnedLocation: the point and its event; no status is asked for.
SetLocation(l) ==
  /\ listing[l].status # "none"
  /\ place[l] < MaxMoves
  /\ place' = [place EXCEPT ![l] = @ + 1]
  /\ published' = published \cup {PlaceKey(l, place[l] + 1)}
  /\ UNCHANGED <<call, listing, enforced>>

-----------------------------------------------------------------------------
\* What the operations of domain.go make of a row, or no row when they refuse.
\* Publish also asks for the EIDS decision, which can only refuse.
OwnerOps == {"update", "ready", "publish", "archive"}
OwnerNext(op, row) ==
  LET To(status) == {[row EXCEPT !.status = status, !.ver = @ + 1]} IN
  CASE op = "update" /\ row.status = "draft" -> To("draft")
    [] op = "ready" /\ row.status = "draft" -> To("ready")
    [] op = "publish" /\ row.status \in {"ready", "verification_pending"} -> To("published")
    [] op = "archive" /\ row.status \notin {"none", "archived"} -> To("archived")
    [] OTHER -> {}

\* ApplyModeration and ClearModeration: the status is left alone, and the
\* state the row already has is written again.
ModerationNext(row, state) == [row EXCEPT !.mod = state, !.ver = @ + 1]

\* mutate, up to the write.  "after" is where the request goes on when the
\* write is committed.
Mutate(c, l, next, after) ==
  Proceed(c, [op |-> "listing", id |-> l, ver |-> listing[l].ver, next |-> next, after |-> after])

\* The owner's UpdateDraft, MarkReady, Publish and Archive.
OwnerRead(c, l, op) ==
  /\ call[c] = Idle
  /\ listing[l].ver < MaxEdits
  /\ \E next \in OwnerNext(op, listing[l]) : Mutate(c, l, next, Idle)
  /\ UNCHANGED <<listing, place, published, enforced>>

\* ApplyModerationState and ClearModerationState: the Get before mutate.
EnforceRead(c) ==
  /\ call[c].op = "enforce"
  /\ LET l == call[c].id IN
       /\ listing[l].ver < MaxEdits
       /\ Mutate(c, l, ModerationNext(listing[l], call[c].state), call[c].after)
  /\ UNCHANGED <<listing, place, published, enforced>>

\* Mutant: the caller does not look at the error of the write.
ListingWriteErrorLost(c) ==
  /\ call[c].op = "listing"
  /\ LET l == call[c].id
         next == call[c].next
     IN IF Fresh(listing[l], call[c].ver)
          THEN /\ listing' = [listing EXCEPT ![l] = next]
               /\ published' = IF LifecycleEvent(listing[l], next)
                                 THEN published \cup {ListingKey(l, next.ver)}
                                 ELSE published
               /\ enforced' = enforced \cup (IF call[c].after = Idle THEN {} ELSE {call[c].after.id})
          ELSE UNCHANGED <<listing, published, enforced>>
  /\ Proceed(c, call[c].after)
  /\ UNCHANGED place

\* mutate: the update and its event in one transaction, or a conflict.
ListingWrite(c) ==
  /\ call[c].op = "listing"
  /\ LET l == call[c].id
         next == call[c].next
     IN \/ /\ Fresh(listing[l], call[c].ver)
           /\ listing' = [listing EXCEPT ![l] = next]
           /\ published' = IF LifecycleEvent(listing[l], next)
                             THEN published \cup {ListingKey(l, next.ver)}
                             ELSE published
           /\ enforced' = IF call[c].after = Idle THEN enforced ELSE enforced \cup {call[c].after.id}
           /\ Proceed(c, call[c].after)
        \/ /\ ~Fresh(listing[l], call[c].ver)
           /\ Return(c)
           /\ UNCHANGED <<listing, published, enforced>>
  /\ UNCHANGED place

ListingsNext(c) ==
  \/ \E l \in ListingIds : CreateDraft(l) \/ SetLocation(l) \/ \E op \in OwnerOps : OwnerRead(c, l, op)
  \/ EnforceRead(c) \/ ListingWrite(c)
=============================================================================
