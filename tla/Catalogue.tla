----------------------------- MODULE Catalogue ------------------------------
(***************************************************************************)
(* Owners, staff and the relay's workers over the same listings: listings, *)
(* moderation and the search index, which meet only in the listing row and *)
(* in the events of its changes.                                           *)
(*                                                                         *)
(* backend/internal/search projects listings into an index.  The workers   *)
(* rebuild a document from the listing and its point as they are when an   *)
(* event is handled; Upsert and Remove look at no version of the document  *)
(* they replace.                                                           *)
(***************************************************************************)
EXTENDS Moderation, FiniteSets, TLC

CONSTANTS
  Relays,
  NoDoc,
  MaxLost      \* bound: runs that end before the relay completes their event

ASSUME SearchAssumption == MaxLost \in Nat

VARIABLES
  index,       \* search.listing_documents: the document of each listing
  rebuild,     \* what each worker's run of Rebuild has read so far
  handled,     \* events the relay has completed
  lost,        \* runs lost so far
  newest,      \* the newest listing and point a document was written from
  raced        \* a run has written from older reads than a run before it

Asleep == [phase |-> "asleep"]

SearchInit ==
  /\ index = [l \in ListingIds |-> NoDoc]
  /\ rebuild = [w \in Relays |-> Asleep]
  /\ handled = {}
  /\ lost = 0
  /\ newest = [l \in ListingIds |-> [ver |-> 0, place |-> 0]]
  /\ raced = [l \in ListingIds |-> FALSE]

\* documentFromSnapshot, with the point.
Document(ver, point) == [ver |-> ver, place |-> point]

\* knownSearchEvent.
KnownSearchEvent(e) == e[1] \in {"listing", "location"}

\* ProjectionHandler.Handle and Rebuild, up to the snapshot.  A run that lost
\* its lease goes on beside the run of the worker that took the event over.
RebuildRead(w, e) ==
  /\ rebuild[w] = Asleep
  /\ e \in published \ handled /\ KnownSearchEvent(e)
  /\ LET l == e[2] IN
       rebuild' = [rebuild EXCEPT ![w] =
                     [phase |-> IF Visible(listing[l]) THEN "point" ELSE "remove",
                      event |-> e, ver |-> listing[l].ver]]
  /\ UNCHANGED <<index, handled, lost, newest, raced>>

\* Rebuild: the point of a visible listing.
RebuildPoint(w) ==
  /\ rebuild[w].phase = "point"
  /\ rebuild' = [rebuild EXCEPT ![w] =
                   [phase |-> "upsert", event |-> rebuild[w].event,
                    doc |-> Document(rebuild[w].ver, place[rebuild[w].event[2]])]]
  /\ UNCHANGED <<index, handled, lost, newest, raced>>

Lose == lost < MaxLost /\ lost' = lost + 1

\* The relay completes the event, or loses the run after the write.
Acknowledge(w) ==
  /\ \/ handled' = handled \cup {rebuild[w].event} /\ UNCHANGED lost
     \/ Lose /\ UNCHANGED handled
  /\ rebuild' = [rebuild EXCEPT ![w] = Asleep]

Note(l, doc) ==
  /\ newest' = [newest EXCEPT ![l] = doc]
  /\ raced' = [raced EXCEPT ![l] = @ \/ doc.ver < newest[l].ver \/ doc.place < newest[l].place]

\* Upsert.
RebuildUpsert(w) ==
  /\ rebuild[w].phase = "upsert"
  /\ LET l == rebuild[w].event[2]
         doc == rebuild[w].doc
     IN index' = [index EXCEPT ![l] = doc] /\ Note(l, doc)
  /\ Acknowledge(w)

\* Remove.
RebuildRemove(w) ==
  /\ rebuild[w].phase = "remove"
  /\ LET l == rebuild[w].event[2] IN
       index' = [index EXCEPT ![l] = NoDoc] /\ Note(l, Document(rebuild[w].ver, newest[l].place))
  /\ Acknowledge(w)

\* The run ends before its write: an error, a crash, the database lost.
RebuildLost(w) ==
  /\ rebuild[w] # Asleep
  /\ Lose
  /\ rebuild' = [rebuild EXCEPT ![w] = Asleep]
  /\ UNCHANGED <<index, handled, newest, raced>>

SearchNext(w) ==
  \/ \E e \in published : RebuildRead(w, e)
  \/ RebuildPoint(w) \/ RebuildUpsert(w) \/ RebuildRemove(w) \/ RebuildLost(w)

-----------------------------------------------------------------------------

vars == <<call, published, listing, place, enforced, action, appeal, history,
          index, rebuild, handled, lost, newest, raced>>
moderationVars == <<action, appeal, history>>
searchVars == <<index, rebuild, handled, lost, newest, raced>>

Init ==
  /\ ListingsInit /\ ModerationInit /\ SearchInit
  /\ published = {}
  /\ call = [c \in Clients |-> Idle]

\* A request ends between two of its steps (disconnect, crash, lost database).
Abandon(c) ==
  /\ call[c] # Idle
  /\ Return(c)
  /\ UNCHANGED listingVars /\ UNCHANGED moderationVars /\ UNCHANGED searchVars

Request(c) ==
  \/ ListingsNext(c) /\ UNCHANGED moderationVars /\ UNCHANGED searchVars
  \/ ModerationNextStep(c) /\ UNCHANGED searchVars
  \/ Abandon(c)

Relay(w) == SearchNext(w) /\ UNCHANGED call /\ UNCHANGED listingVars /\ UNCHANGED moderationVars

Next ==
  \/ \E c \in Clients : Request(c)
  \/ \E w \in Relays : Relay(w)

Spec == Init /\ [][Next]_vars

-----------------------------------------------------------------------------
(* Properties *)

\* The histories a decision and an appeal may have.
ActionStories == {<<>>, <<"proposed">>, <<"proposed", "cancelled">>, <<"proposed", "approved">>,
                  <<"proposed", "approved", "cancelled">>, <<"proposed", "approved", "executed">>}
AppealStories == {<<>>, <<"submitted">>, <<"submitted", "withdrawn">>, <<"submitted", "under_review">>,
                  <<"submitted", "under_review", "accepted">>, <<"submitted", "under_review", "rejected">>,
                  <<"submitted", "under_review", "restored", "accepted">>}

\* The case history tells one unbroken story of each decision and each appeal,
\* although staff execute, cancel, accept and reject at the same time, and a
\* decision has at most one active appeal.
DecisionStory ==
  /\ \A a \in ActionIds : history[a] \in ActionStories
       /\ (history[a] # <<>> => action[a] = history[a][Len(history[a])])
  /\ \A p \in AppealIds : history[p] \in AppealStories
       /\ (history[p] # <<>> => appeal[p] = history[p][Len(history[p])])
  /\ \A a \in ActionIds :
       Cardinality({p \in AppealIds : ActionOf[p] = a /\ appeal[p] \in AppealActive}) <= 1

\* The contract of ModerationEnforcement: a decision is recorded as executed,
\* and an appeal as accepted, only after the listing took its effect; and the
\* owner is warned exactly when a warning is recorded as executed.
RecordedMeansEnforced ==
  /\ \A a \in ActionIds : Enforcing(a) /\ action[a] = "executed" => a \in enforced
  /\ \A p \in AppealIds : Enforcing(ActionOf[p]) /\ appeal[p] = "accepted" => p \in enforced
  /\ \A a \in ActionIds : WarningKey(a) \in published <=> KindOf[a] = "warning" /\ action[a] = "executed"

Told(x, e) == \E i \in DOMAIN history[x] : history[x][i] = e

\* A listing is hidden only on a decision of that kind that was approved, and
\* shown again only on an appeal that was taken under review.
ReasonedEffects ==
  \A l \in ListingIds : listing'[l].mod # listing[l].mod =>
     IF listing'[l].mod # "none"
       THEN \E a \in ActionIds : /\ TargetOf[a] = l /\ Enforcing(a) /\ Told(a, "approved")
                                 /\ Effect[KindOf[a]] = listing'[l].mod
       ELSE \E p \in AppealIds : /\ TargetOf[ActionOf[p]] = l /\ Enforcing(ActionOf[p])
                                 /\ Told(p, "under_review")
EffectsHaveReasons == [][ReasonedEffects]_vars

StatusRank == [none |-> 0, draft |-> 1, ready |-> 2, verification_pending |-> 2,
               published |-> 3, archived |-> 4]

\* Owner and staff never undo each other: a write of the owner leaves the
\* moderation state as it is and a write of staff the status, although both
\* store a whole row they read earlier; and a status never goes back.
NothingLost ==
  \A l \in ListingIds :
     /\ StatusRank[listing'[l].status] >= StatusRank[listing[l].status]
     /\ listing'[l].status = listing[l].status \/ listing'[l].mod = listing[l].mod
NoLostWrite == [][NothingLost]_vars

\* The index shows a visible listing in its last version at its last point and
\* no other listing, unless a run wrote from older reads than a run before it,
\* which Upsert and Remove do not notice.
IndexIsCurrent ==
  \A l \in ListingIds :
    \/ raced[l]
    \/ index[l] = IF Visible(listing[l]) THEN Document(listing[l].ver, place[l]) ELSE NoDoc

-----------------------------------------------------------------------------
(* The instances that are checked: decisions of up to three kinds on one      *)
(* listing, and appeals against the first.                                   *)

CONSTANTS l1, restrict1, remove1, warn1

MCKindOf == [a \in ActionIds |-> CASE a = remove1 -> "remove" [] a = restrict1 -> "restrict" [] a = warn1 -> "warning"]
MCTargetOf == [a \in ActionIds |-> l1]
MCActionOf == [p \in AppealIds |-> restrict1]

Symmetry == Permutations(Clients) \cup Permutations(AppealIds)
=============================================================================
