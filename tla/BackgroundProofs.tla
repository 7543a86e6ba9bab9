-------------------------- MODULE BackgroundProofs --------------------------
(***************************************************************************)
(* The decisions on listings and their effects (Catalogue), and the images *)
(* and verification messages the relay's workers handle (Background), for  *)
(* any number of listings, decisions, images, requests and workers.        *)
(*                                                                         *)
(* The argument is that of the other components: a row that is written     *)
(* gets a later updated_at and its status never goes back, so what a       *)
(* request, a run or the sweeper has read of it still holds when the       *)
(* comparison in its write succeeds.                                       *)
(***************************************************************************)
EXTENDS Background, TLAPS, FiniteSetTheorems, SequenceTheorems

-----------------------------------------------------------------------------
(* Catalogue: the inductive invariant *)

ListingRow == [status : ListingStatuses, mod : ModerationStates, ver : Nat]

ToldIn(story, e) == \E i \in DOMAIN story : story[i] = e

\* Why a listing may be given a moderation state: x is an approved decision
\* with that effect, or an appeal under review against a decision with one.
Reason(x, l, state, stories) ==
  \/ /\ x \in ActionIds /\ TargetOf[x] = l /\ Enforcing(x)
     /\ state = Effect[KindOf[x]]
     /\ ToldIn(stories[x], "approved")
  \/ /\ x \in AppealIds /\ TargetOf[ActionOf[x]] = l /\ Enforcing(ActionOf[x])
     /\ state = "none"
     /\ ToldIn(stories[x], "under_review")

\* A row may be followed by this one.
Follows(row, next) ==
  /\ next \in ListingRow
  /\ row.ver < next.ver
  /\ next.status # "none"
  /\ StatusRank[next.status] >= StatusRank[row.status]

\* The effect of x has been stored, if it has one.
Stored(x, effects) ==
  /\ x \in ActionIds /\ Enforcing(x) => x \in effects
  /\ x \in AppealIds /\ Enforcing(ActionOf[x]) => x \in effects

\* What a request knows of the listings, the case histories and the effects.
FrameOK(f, rows, stories, effects) ==
  /\ f.op = "enforce" =>
       /\ f.id \in ListingIds /\ rows[f.id].status # "none"
       /\ f.after = [op |-> "record", id |-> f.after.id]
       /\ Reason(f.after.id, f.id, f.state, stories)
  /\ f.op = "listing" =>
       /\ f.id \in ListingIds /\ rows[f.id].status # "none"
       /\ f.ver \in Nat /\ f.ver <= rows[f.id].ver
       /\ f.ver = rows[f.id].ver =>
            /\ Follows(rows[f.id], f.next)
            /\ \/ f.after = Idle /\ f.next.mod = rows[f.id].mod
               \/ /\ f.after = [op |-> "record", id |-> f.after.id]
                  /\ f.next.status = rows[f.id].status
                  /\ Reason(f.after.id, f.id, f.next.mod, stories)
  /\ f.op = "record" => Stored(f.id, effects)

Entries == ActionStatuses \cup AppealStatuses \cup {"restored"}

\* The case history that goes with a status, which is its last entry.
ActionTold(s, h) ==
  /\ h \in Seq(Entries)
  /\ IF s = "none" THEN Len(h) = 0 ELSE Len(h) > 0 /\ h[1] = "proposed" /\ h[Len(h)] = s
  /\ s = "proposed" => Len(h) = 1
  /\ s = "approved" => Len(h) = 2
  /\ s = "executed" => Len(h) = 3 /\ h[2] = "approved"
  /\ s = "cancelled" => Len(h) = 2 \/ (Len(h) = 3 /\ h[2] = "approved")
AppealTold(s, h) ==
  /\ h \in Seq(Entries)
  /\ IF s = "none" THEN Len(h) = 0 ELSE Len(h) > 0 /\ h[1] = "submitted" /\ h[Len(h)] = s
  /\ s = "submitted" => Len(h) = 1
  /\ s \in {"under_review", "withdrawn"} => Len(h) = 2
  /\ s = "rejected" => Len(h) = 3 /\ h[2] = "under_review"
  /\ s = "accepted" => h[2] = "under_review" /\ (Len(h) = 3 \/ (Len(h) = 4 /\ h[3] = "restored"))

RowsOK ==
  /\ listing \in [ListingIds -> ListingRow]
  /\ \A l \in ListingIds : listing[l].status = "none" => listing[l].ver = 0

FramesOK ==
  /\ DOMAIN call = Clients
  /\ \A c \in Clients : FrameOK(call[c], listing, history, enforced)

\* A decision is on a listing that exists, an appeal against a decision that was
\* executed, and at most one of those against it is active.
StoriesOK ==
  /\ action \in [ActionIds -> ActionStatuses]
  /\ appeal \in [AppealIds -> AppealStatuses]
  /\ DOMAIN history = ActionIds \cup AppealIds
  /\ \A a \in ActionIds :
       /\ ActionTold(action[a], history[a])
       /\ action[a] # "none" => listing[TargetOf[a]].status # "none"
  /\ \A p \in AppealIds :
       /\ AppealTold(appeal[p], history[p])
       /\ appeal[p] # "none" => action[ActionOf[p]] = "executed"
  /\ \A p, q \in AppealIds :
       ActionOf[p] = ActionOf[q] /\ {appeal[p], appeal[q]} \subseteq AppealActive => p = q

CatalogueInv == RowsOK /\ FramesOK /\ StoriesOK /\ RecordedMeansEnforced

-----------------------------------------------------------------------------
(* What one step may do *)

\* A listing that is written gets a later updated_at and keeps existing.
Advance(rows, next) ==
  \A l \in ListingIds :
    \/ next[l] = rows[l]
    \/ rows[l].ver < next[l].ver /\ next[l].status # "none"

\* What a history tells it goes on telling.
Retold(stories, next) ==
  \A x \in ActionIds \cup AppealIds : \A e : ToldIn(stories[x], e) => ToldIn(next[x], e)

\* What a request knows stays true.
LEMMA FrameStays ==
  ASSUME NEW f, NEW rows, NEW next, NEW stories, NEW told, NEW effects, NEW more,
         FrameOK(f, rows, stories, effects),
         Advance(rows, next), Retold(stories, told), effects \subseteq more,
         rows \in [ListingIds -> ListingRow], next \in [ListingIds -> ListingRow]
  PROVE  FrameOK(f, next, told, more)
<1>1. ASSUME NEW x, NEW l, NEW state, Reason(x, l, state, stories)
      PROVE  Reason(x, l, state, told)
  BY <1>1 DEF Reason, Retold
<1>2. CASE f.op = "enforce"
  BY <1>1, <1>2 DEF FrameOK, Advance
<1>3. CASE f.op = "listing"
  <2>1. f.id \in ListingIds /\ next[f.id].status # "none"
    BY <1>3 DEF FrameOK, Advance
  <2>2. f.ver <= rows[f.id].ver
    BY <1>3 DEF FrameOK
  <2>3. CASE next[f.id] = rows[f.id]
    BY <1>1, <1>3, <2>3 DEF FrameOK
  <2>4. CASE rows[f.id].ver < next[f.id].ver
    <3>1. rows[f.id].ver \in Nat /\ next[f.id].ver \in Nat /\ f.ver \in Nat
      BY <1>3, <2>1 DEF ListingRow, FrameOK
    <3>2. f.ver < next[f.id].ver
      BY <2>2, <2>4, <3>1
    <3> QED
      BY <1>3, <2>1, <3>1, <3>2 DEF FrameOK
  <2> QED
    BY <2>1, <2>3, <2>4 DEF Advance
<1>4. CASE f.op = "record"
  BY <1>4 DEF FrameOK, Stored
<1> QED
  BY <1>2, <1>3, <1>4 DEF FrameOK

\* What a step has to show: its rows and its stories, what they are allowed to
\* become, and the frame of the request that made it.
LEMMA StepKeeps ==
  ASSUME CatalogueInv, RowsOK', StoriesOK', RecordedMeansEnforced',
         Advance(listing, listing'), Retold(history, history'), enforced \subseteq enforced',
         \/ UNCHANGED call
         \/ \E c \in Clients : \E f :
              call' = [call EXCEPT ![c] = f] /\ FrameOK(f, listing', history', enforced')
  PROVE  CatalogueInv'
<1>1. \A c \in Clients : FrameOK(call[c], listing', history', enforced')
  BY FrameStays DEF CatalogueInv, FramesOK, RowsOK
<1>2. FramesOK'
  BY <1>1 DEF CatalogueInv, FramesOK
<1> QED
  BY <1>2 DEF CatalogueInv

LEMMA SameListings == UNCHANGED listing => Advance(listing, listing')
BY DEF Advance

LEMMA SameHistories == UNCHANGED history => Retold(history, history')
BY DEF Retold

LEMMA IdleOK ==
  ASSUME NEW rows, NEW stories, NEW effects
  PROVE  FrameOK(Idle, rows, stories, effects)
BY DEF FrameOK, Idle

\* A step that writes listings only.
LEMMA ListingsStep ==
  ASSUME CatalogueInv, RowsOK', Advance(listing, listing'), UNCHANGED moderationVars,
         enforced \subseteq enforced',
         \A a \in ActionIds : WarningKey(a) \in published' <=> WarningKey(a) \in published,
         \/ UNCHANGED call
         \/ \E c \in Clients : \E f :
              call' = [call EXCEPT ![c] = f] /\ FrameOK(f, listing', history', enforced')
  PROVE  CatalogueInv'
<1>1. StoriesOK'
  BY ModerationAssumption DEF CatalogueInv, StoriesOK, RowsOK, Advance, moderationVars
<1>2. RecordedMeansEnforced'
  BY DEF CatalogueInv, RecordedMeansEnforced, moderationVars, Enforcing
<1> QED
  BY <1>1, <1>2, StepKeeps, SameHistories DEF moderationVars

\* A step that writes decisions and appeals only.
LEMMA ModerationStep ==
  ASSUME CatalogueInv, UNCHANGED <<listing, enforced>>, StoriesOK', RecordedMeansEnforced',
         Retold(history, history'),
         \/ UNCHANGED call
         \/ \E c \in Clients : \E f :
              call' = [call EXCEPT ![c] = f] /\ FrameOK(f, listing', history', enforced')
  PROVE  CatalogueInv'
<1>1. RowsOK'
  BY DEF CatalogueInv, RowsOK
<1> QED
  BY <1>1, StepKeeps, SameListings

LEMMA HistoryTypes ==
  ASSUME StoriesOK
  PROVE  \A x \in ActionIds \cup AppealIds : history[x] \in Seq(Entries)
BY DEF StoriesOK, ActionTold, AppealTold

\* Entries are added to a history and nothing in it changes.
LEMMA MoreTells ==
  ASSUME StoriesOK, NEW x \in ActionIds \cup AppealIds, NEW h \in Seq(Entries),
         Len(history[x]) <= Len(h), \A i \in 1..Len(history[x]) : h[i] = history[x][i],
         history' = [history EXCEPT ![x] = h]
  PROVE  Retold(history, history')
<1> SUFFICES ASSUME NEW y \in ActionIds \cup AppealIds, NEW i \in DOMAIN history[y]
             PROVE  i \in DOMAIN history'[y] /\ history'[y][i] = history[y][i]
  BY DEF Retold, ToldIn
<1>1. history[y] \in Seq(Entries) /\ DOMAIN history = ActionIds \cup AppealIds
  BY HistoryTypes DEF StoriesOK
<1>2. CASE y = x
  BY <1>1, <1>2
<1>3. CASE y # x
  BY <1>1, <1>3
<1> QED
  BY <1>2, <1>3

\* Entry.
LEMMA EntryTells ==
  ASSUME StoriesOK, NEW x \in ActionIds \cup AppealIds, NEW e \in Entries, Entry(x, e)
  PROVE  Retold(history, history')
<1>1. history[x] \in Seq(Entries)
  BY HistoryTypes
<1>2. /\ Append(history[x], e) \in Seq(Entries)
      /\ Len(history[x]) <= Len(Append(history[x], e))
      /\ \A i \in 1..Len(history[x]) : Append(history[x], e)[i] = history[x][i]
  BY <1>1
<1> QED
  BY <1>2, MoreTells DEF Entry

\* The entry that goes with a change of status.
LEMMA ActionEntry ==
  ASSUME NEW s, NEW next, NEW h, ActionTold(s, h),
         <<s, next>> \in ActionMoves \cup {<<"none", "proposed">>}
  PROVE  ActionTold(next, Append(h, next))
<1>1. next \in Entries /\ h \in Seq(Entries)
  BY DEF ActionMoves, ActionTold, Entries, ActionStatuses
<1>2. /\ Append(h, next) \in Seq(Entries) /\ Len(Append(h, next)) = Len(h) + 1
      /\ Append(h, next)[Len(h) + 1] = next
      /\ \A i \in 1..Len(h) : Append(h, next)[i] = h[i]
  BY <1>1
<1> DEFINE g == Append(h, next)
<1> HIDE DEF g
<1>3. /\ g \in Seq(Entries) /\ Len(g) = Len(h) + 1 /\ g[Len(h) + 1] = next
      /\ \A i \in 1..Len(h) : g[i] = h[i]
  BY <1>2 DEF g
<1>4. \/ s = "none" /\ next = "proposed"
      \/ s = "proposed" /\ next = "approved"
      \/ s = "proposed" /\ next = "cancelled"
      \/ s = "approved" /\ next = "executed"
      \/ s = "approved" /\ next = "cancelled"
  BY DEF ActionMoves
<1>5. ActionTold(next, g)
  <2>1. Len(h) \in Nat
    BY <1>1
  <2>2. CASE s = "none" /\ next = "proposed"
    BY <1>3, <2>1, <2>2 DEF ActionTold
  <2>3. CASE s = "proposed" /\ next = "approved"
    <3>1. Len(h) = 1 /\ h[1] = "proposed"
      BY <2>3 DEF ActionTold
    <3>2. Len(g) = 2 /\ g[1] = "proposed" /\ g[Len(g)] = next
      BY <1>3, <3>1
    <3> QED
      BY <1>3, <2>3, <3>2 DEF ActionTold
  <2>4. CASE s = "proposed" /\ next = "cancelled"
    <3>1. Len(h) = 1 /\ h[1] = "proposed"
      BY <2>4 DEF ActionTold
    <3>2. Len(g) = 2 /\ g[1] = "proposed" /\ g[Len(g)] = next
      BY <1>3, <3>1
    <3> QED
      BY <1>3, <2>4, <3>2 DEF ActionTold
  <2>5. CASE s = "approved" /\ next = "executed"
    <3>1. Len(h) = 2 /\ h[1] = "proposed" /\ h[2] = "approved"
      BY <2>5 DEF ActionTold
    <3>2. Len(g) = 3 /\ g[1] = "proposed" /\ g[2] = "approved" /\ g[Len(g)] = next
      BY <1>3, <3>1
    <3> QED
      BY <1>3, <2>5, <3>2 DEF ActionTold
  <2>6. CASE s = "approved" /\ next = "cancelled"
    <3>1. Len(h) = 2 /\ h[1] = "proposed" /\ h[2] = "approved"
      BY <2>6 DEF ActionTold
    <3>2. Len(g) = 3 /\ g[1] = "proposed" /\ g[2] = "approved" /\ g[Len(g)] = next
      BY <1>3, <3>1
    <3> QED
      BY <1>3, <2>6, <3>2 DEF ActionTold
  <2> QED
    BY <1>4, <2>2, <2>3, <2>4, <2>5, <2>6
<1> QED
  BY <1>5 DEF g

LEMMA AppealEntry ==
  ASSUME NEW s, NEW next, NEW h, AppealTold(s, h),
         <<s, next>> \in AppealMoves \cup {<<"none", "submitted">>}
  PROVE  AppealTold(next, Append(h, next))
<1>1. next \in Entries /\ h \in Seq(Entries)
  BY DEF AppealMoves, AppealTold, Entries, AppealStatuses
<1>2. /\ Append(h, next) \in Seq(Entries) /\ Len(Append(h, next)) = Len(h) + 1
      /\ Append(h, next)[Len(h) + 1] = next
      /\ \A i \in 1..Len(h) : Append(h, next)[i] = h[i]
  BY <1>1
<1> DEFINE g == Append(h, next)
<1> HIDE DEF g
<1>3. /\ g \in Seq(Entries) /\ Len(g) = Len(h) + 1 /\ g[Len(h) + 1] = next
      /\ \A i \in 1..Len(h) : g[i] = h[i]
  BY <1>2 DEF g
<1>4. \/ s = "none" /\ next = "submitted"
      \/ s = "submitted" /\ next = "under_review"
      \/ s = "submitted" /\ next = "withdrawn"
      \/ s = "under_review" /\ next = "accepted"
      \/ s = "under_review" /\ next = "rejected"
  BY DEF AppealMoves
<1>5. AppealTold(next, g)
  <2>1. Len(h) \in Nat
    BY <1>1
  <2>2. CASE s = "none" /\ next = "submitted"
    BY <1>3, <2>1, <2>2 DEF AppealTold
  <2>3. CASE s = "submitted" /\ next = "under_review"
    <3>1. Len(h) = 1 /\ h[1] = "submitted"
      BY <2>3 DEF AppealTold
    <3>2. Len(g) = 2 /\ g[1] = "submitted" /\ g[Len(g)] = next
      BY <1>3, <3>1
    <3> QED
      BY <1>3, <2>3, <3>2 DEF AppealTold
  <2>4. CASE s = "submitted" /\ next = "withdrawn"
    <3>1. Len(h) = 1 /\ h[1] = "submitted"
      BY <2>4 DEF AppealTold
    <3>2. Len(g) = 2 /\ g[1] = "submitted" /\ g[Len(g)] = next
      BY <1>3, <3>1
    <3> QED
      BY <1>3, <2>4, <3>2 DEF AppealTold
  <2>5. CASE s = "under_review" /\ next = "accepted"
    <3>1. Len(h) = 2 /\ h[1] = "submitted" /\ h[2] = "under_review"
      BY <2>5 DEF AppealTold
    <3>2. Len(g) = 3 /\ g[1] = "submitted" /\ g[2] = "under_review" /\ g[Len(g)] = next
      BY <1>3, <3>1
    <3> QED
      BY <1>3, <2>5, <3>2 DEF AppealTold
  <2>6. CASE s = "under_review" /\ next = "rejected"
    <3>1. Len(h) = 2 /\ h[1] = "submitted" /\ h[2] = "under_review"
      BY <2>6 DEF AppealTold
    <3>2. Len(g) = 3 /\ g[1] = "submitted" /\ g[2] = "under_review" /\ g[Len(g)] = next
      BY <1>3, <3>1
    <3> QED
      BY <1>3, <2>6, <3>2 DEF AppealTold
  <2> QED
    BY <1>4, <2>2, <2>3, <2>4, <2>5, <2>6
<1> QED
  BY <1>5 DEF g

\* The entry of the restoration comes before that of the acceptance.
LEMMA RestoredEntry ==
  ASSUME NEW h, AppealTold("under_review", h)
  PROVE  /\ AppealTold("accepted", h \o <<"restored", "accepted">>)
         /\ AppealTold("accepted", h \o <<"accepted">>)
<1>1. h \in Seq(Entries) /\ Len(h) = 2 /\ h[1] = "submitted" /\ h[2] = "under_review"
  BY DEF AppealTold
<1>2. "restored" \in Entries /\ "accepted" \in Entries
  BY DEF Entries, AppealStatuses
<1>3. <<"restored", "accepted">> \in Seq(Entries) /\ <<"accepted">> \in Seq(Entries)
  BY <1>2
<1>4. /\ Len(<<"restored", "accepted">>) = 2 /\ Len(<<"accepted">>) = 1
      /\ <<"restored", "accepted">>[1] = "restored" /\ <<"restored", "accepted">>[2] = "accepted"
      /\ <<"accepted">>[1] = "accepted"
  OBVIOUS
<1>5. ASSUME NEW m \in Seq(Entries)
      PROVE  /\ h \o m \in Seq(Entries) /\ Len(h \o m) = 2 + Len(m)
             /\ (h \o m)[1] = "submitted" /\ (h \o m)[2] = "under_review"
             /\ \A i \in 1..Len(m) : (h \o m)[2 + i] = m[i]
  <2>1. Len(m) \in Nat
    OBVIOUS
  <2>2. /\ h \o m \in Seq(Entries) /\ Len(h \o m) = 2 + Len(m)
        /\ \A i \in 1..(2 + Len(m)) : (h \o m)[i] = IF i <= 2 THEN h[i] ELSE m[i - 2]
    <3>1. /\ h \o m \in Seq(Entries) /\ Len(h \o m) = Len(h) + Len(m)
          /\ \A i \in 1..(Len(h) + Len(m)) : (h \o m)[i] = IF i <= Len(h) THEN h[i] ELSE m[i - Len(h)]
      BY <1>1, ConcatProperties
    <3> QED
      BY <1>1, <3>1
  <2>3. \A i \in 1..Len(m) : 2 + i \in 1..(2 + Len(m)) /\ ~(2 + i <= 2) /\ (2 + i) - 2 = i
    BY <2>1
  <2>4. 1 \in 1..(2 + Len(m)) /\ 2 \in 1..(2 + Len(m))
    BY <2>1
  <2>5. \A i \in 1..Len(m) : (h \o m)[2 + i] = m[i]
    BY <2>2, <2>3
  <2> QED
    BY <1>1, <2>2, <2>4, <2>5
<1>6. ASSUME NEW g, g \in Seq(Entries), g[1] = "submitted", g[2] = "under_review", g[Len(g)] = "accepted",
             Len(g) = 3 \/ (Len(g) = 4 /\ g[3] = "restored")
      PROVE  AppealTold("accepted", g)
  BY <1>6 DEF AppealTold
<1>7. AppealTold("accepted", h \o <<"accepted">>)
  <2> DEFINE m == <<"accepted">>
  <2>1. m \in Seq(Entries) /\ Len(m) = 1 /\ m[1] = "accepted"
    BY <1>3, <1>4
  <2> HIDE DEF m
  <2>2. Len(h \o m) = 3 /\ (h \o m)[3] = "accepted"
    <3>1. Len(h \o m) = 2 + Len(m) /\ \A i \in 1..Len(m) : (h \o m)[2 + i] = m[i]
      BY <1>5, <2>1
    <3>2. 1 \in 1..Len(m)
      BY <2>1
    <3>3. (h \o m)[2 + 1] = m[1]
      BY <3>1, <3>2
    <3> QED
      BY <2>1, <3>1, <3>3
  <2>3. AppealTold("accepted", h \o m)
    BY <1>5, <1>6, <2>1, <2>2
  <2> QED
    BY <2>3 DEF m
<1>8. AppealTold("accepted", h \o <<"restored", "accepted">>)
  <2> DEFINE m == <<"restored", "accepted">>
  <2>1. m \in Seq(Entries) /\ Len(m) = 2 /\ m[1] = "restored" /\ m[2] = "accepted"
    BY <1>3, <1>4
  <2> HIDE DEF m
  <2>2. Len(h \o m) = 4 /\ (h \o m)[3] = "restored" /\ (h \o m)[4] = "accepted"
    BY <1>5, <2>1
  <2>3. AppealTold("accepted", h \o m)
    BY <1>5, <1>6, <2>1, <2>2
  <2> QED
    BY <2>3 DEF m
<1> QED
  BY <1>7, <1>8

-----------------------------------------------------------------------------
(* Catalogue: the steps *)

LEMMA CatalogueInit == Init => CatalogueInv
<1> SUFFICES ASSUME Init PROVE CatalogueInv
  OBVIOUS
<1>1. RowsOK
  BY DEF Init, ListingsInit, RowsOK, ListingRow, ListingStatuses, ModerationStates
<1>2. FramesOK
  BY IdleOK DEF Init, FramesOK
<1>3. StoriesOK
  BY DEF Init, ModerationInit, StoriesOK, ActionStatuses, AppealStatuses, AppealActive, ActionTold, AppealTold
<1>4. RecordedMeansEnforced
  BY DEF Init, ModerationInit, RecordedMeansEnforced
<1> QED
  BY <1>1, <1>2, <1>3, <1>4 DEF CatalogueInv

LEMMA Keys ==
  \A a, l, n : WarningKey(a) # ListingKey(l, n) /\ WarningKey(a) # PlaceKey(l, n)
BY DEF WarningKey, ListingKey, PlaceKey

LEMMA CreateDraftStep ==
  ASSUME CatalogueInv, NEW l \in ListingIds, CreateDraft(l), UNCHANGED moderationVars
  PROVE  CatalogueInv'
<1>1. listing[l].status = "none" /\ listing[l].ver = 0
  BY DEF CreateDraft, CatalogueInv, RowsOK
<1>2. listing' = [listing EXCEPT ![l].status = "draft", ![l].ver = 1]
  BY DEF CreateDraft
<1>3. RowsOK'
  BY <1>1, <1>2 DEF CatalogueInv, RowsOK, ListingRow, ListingStatuses
<1>4. Advance(listing, listing')
  BY <1>1, <1>2 DEF CatalogueInv, RowsOK, ListingRow, Advance
<1>5. \A a \in ActionIds : WarningKey(a) \in published' <=> WarningKey(a) \in published
  BY Keys DEF CreateDraft
<1> QED
  BY <1>3, <1>4, <1>5, ListingsStep DEF CreateDraft

LEMMA SetLocationStep ==
  ASSUME CatalogueInv, NEW l \in ListingIds, SetLocation(l), UNCHANGED moderationVars
  PROVE  CatalogueInv'
<1>1. RowsOK'
  BY DEF SetLocation, CatalogueInv, RowsOK
<1>2. \A a \in ActionIds : WarningKey(a) \in published' <=> WarningKey(a) \in published
  BY Keys DEF SetLocation
<1> QED
  BY <1>1, <1>2, ListingsStep, SameListings DEF SetLocation

LEMMA Ranks ==
  /\ StatusRank["none"] = 0 /\ StatusRank["draft"] = 1 /\ StatusRank["ready"] = 2
  /\ StatusRank["verification_pending"] = 2 /\ StatusRank["published"] = 3 /\ StatusRank["archived"] = 4
BY DEF StatusRank

LEMMA RankTypes == \A s \in ListingStatuses : StatusRank[s] \in 0..4
BY Ranks DEF ListingStatuses

\* A row computed from the row that was read.
LEMMA OwnerFollows ==
  ASSUME NEW row \in ListingRow, NEW op \in OwnerOps, NEW next \in OwnerNext(op, row)
  PROVE  Follows(row, next) /\ next.mod = row.mod /\ row.status # "none"
<1>1. ASSUME NEW s \in ListingStatuses, next = [row EXCEPT !.status = s, !.ver = @ + 1]
      PROVE  next \in ListingRow /\ next.status = s /\ next.mod = row.mod /\ row.ver < next.ver
  <2>1. row.ver \in Nat /\ row.mod \in ModerationStates
    BY DEF ListingRow
  <2>2. next = [status |-> s, mod |-> row.mod, ver |-> row.ver + 1]
    BY <1>1 DEF ListingRow
  <2> QED
    BY <2>1, <2>2 DEF ListingRow
<1>2. \/ row.status = "draft" /\ next = [row EXCEPT !.status = "draft", !.ver = @ + 1]
      \/ row.status = "draft" /\ next = [row EXCEPT !.status = "ready", !.ver = @ + 1]
      \/ /\ row.status \in {"ready", "verification_pending"}
         /\ next = [row EXCEPT !.status = "published", !.ver = @ + 1]
      \/ row.status \notin {"none", "archived"} /\ next = [row EXCEPT !.status = "archived", !.ver = @ + 1]
  <2>1. CASE op = "update"
    BY <2>1 DEF OwnerNext
  <2>2. CASE op = "ready"
    BY <2>2 DEF OwnerNext
  <2>3. CASE op = "publish"
    BY <2>3 DEF OwnerNext
  <2>4. CASE op = "archive"
    BY <2>4 DEF OwnerNext
  <2> QED
    BY <2>1, <2>2, <2>3, <2>4 DEF OwnerOps
<1>3. row.status \in ListingStatuses
  BY DEF ListingRow
<1>4. /\ next \in ListingRow /\ next.mod = row.mod /\ row.ver < next.ver
      /\ row.status # "none" /\ next.status # "none"
      /\ StatusRank[next.status] >= StatusRank[row.status]
  BY <1>1, <1>2, <1>3, Ranks DEF ListingStatuses
<1> QED
  BY <1>4 DEF Follows

LEMMA OwnerReadStep ==
  ASSUME CatalogueInv, NEW c \in Clients, NEW l \in ListingIds, NEW op \in OwnerOps,
         OwnerRead(c, l, op), UNCHANGED moderationVars
  PROVE  CatalogueInv'
<1>1. PICK next \in OwnerNext(op, listing[l]) : Mutate(c, l, next, Idle)
  BY DEF OwnerRead
<1> DEFINE f == [op |-> "listing", id |-> l, ver |-> listing[l].ver, next |-> next, after |-> Idle]
<1>2. call' = [call EXCEPT ![c] = f]
  BY <1>1 DEF Mutate, Proceed
<1>3. listing[l] \in ListingRow
  BY DEF CatalogueInv, RowsOK
<1>4. Follows(listing[l], next) /\ next.mod = listing[l].mod /\ listing[l].status # "none"
  BY <1>1, <1>3, OwnerFollows
<1>5. FrameOK(f, listing, history, enforced)
  BY <1>3, <1>4 DEF FrameOK, ListingRow
<1>6. UNCHANGED <<listing, history, enforced, published>>
  BY DEF OwnerRead, moderationVars
<1>7. RowsOK' /\ FrameOK(f, listing', history', enforced')
  BY <1>5, <1>6 DEF CatalogueInv, RowsOK
<1> HIDE DEF f
<1> QED
  BY <1>2, <1>6, <1>7, ListingsStep, SameListings

LEMMA EnforceReadStep ==
  ASSUME CatalogueInv, NEW c \in Clients, EnforceRead(c), UNCHANGED moderationVars
  PROVE  CatalogueInv'
<1> DEFINE l == call[c].id
           next == ModerationNext(listing[l], call[c].state)
           f == [op |-> "listing", id |-> l, ver |-> listing[l].ver, next |-> next, after |-> call[c].after]
<1>1. call[c].op = "enforce" /\ call' = [call EXCEPT ![c] = f]
  BY DEF EnforceRead, Mutate, Proceed
<1>2. /\ l \in ListingIds /\ listing[l].status # "none"
      /\ call[c].after = [op |-> "record", id |-> call[c].after.id]
      /\ Reason(call[c].after.id, l, call[c].state, history)
  BY <1>1 DEF CatalogueInv, FramesOK, FrameOK
<1>3. listing[l] \in ListingRow
  BY <1>2 DEF CatalogueInv, RowsOK
<1>4. call[c].state \in ModerationStates
  BY <1>2 DEF Reason, ModerationStates, Enforcing, Effect
<1>5. Follows(listing[l], next) /\ next.status = listing[l].status /\ next.mod = call[c].state
  <2>1. StatusRank[listing[l].status] \in 0..4
    BY <1>3, RankTypes DEF ListingRow
  <2>2. next = [listing[l] EXCEPT !.mod = call[c].state, !.ver = @ + 1]
    BY DEF ModerationNext
  <2> HIDE DEF next
  <2>3. /\ next.status = listing[l].status /\ next.mod = call[c].state
        /\ next \in ListingRow /\ listing[l].ver < next.ver
    <3>1. listing[l].ver \in Nat /\ listing[l].status \in ListingStatuses
      BY <1>3 DEF ListingRow
    <3>2. next = [status |-> listing[l].status, mod |-> call[c].state, ver |-> listing[l].ver + 1]
      BY <1>3, <2>2 DEF ListingRow
    <3> QED
      BY <1>4, <3>1, <3>2 DEF ListingRow
  <2> QED
    BY <1>2, <2>1, <2>3 DEF Follows
<1> HIDE DEF next
<1>6. FrameOK(f, listing, history, enforced)
  BY <1>2, <1>3, <1>5 DEF FrameOK, ListingRow
<1>7. UNCHANGED <<listing, history, enforced, published>>
  BY DEF EnforceRead, moderationVars
<1>8. RowsOK' /\ FrameOK(f, listing', history', enforced')
  BY <1>6, <1>7 DEF CatalogueInv, RowsOK
<1> HIDE DEF f
<1> QED
  BY <1>1, <1>7, <1>8, ListingsStep, SameListings

\* mutate: what the committed write does to the row.
LEMMA ListingWritten ==
  ASSUME CatalogueInv, NEW c \in Clients, ListingWrite(c)
  PROVE  \/ /\ UNCHANGED <<listing, published, enforced>>
            /\ call' = [call EXCEPT ![c] = Idle]
         \/ /\ call[c].id \in ListingIds
            /\ listing' = [listing EXCEPT ![call[c].id] = call[c].next]
            /\ Follows(listing[call[c].id], call[c].next)
            /\ call' = [call EXCEPT ![c] = call[c].after]
            /\ \/ /\ call[c].after = Idle /\ call[c].next.mod = listing[call[c].id].mod
                  /\ enforced' = enforced
               \/ /\ call[c].after = [op |-> "record", id |-> call[c].after.id]
                  /\ call[c].next.status = listing[call[c].id].status
                  /\ Reason(call[c].after.id, call[c].id, call[c].next.mod, history)
                  /\ enforced' = enforced \cup {call[c].after.id}
            /\ \/ published' = published
               \/ published' = published \cup {ListingKey(call[c].id, call[c].next.ver)}
<1>1. call[c].op = "listing"
  BY DEF ListingWrite
<1>2. FrameOK(call[c], listing, history, enforced)
  BY DEF CatalogueInv, FramesOK
<1>3. CASE ~Fresh(listing[call[c].id], call[c].ver)
  BY <1>3 DEF ListingWrite, Return
<1>4. CASE Fresh(listing[call[c].id], call[c].ver)
  <2>1. /\ call[c].id \in ListingIds
        /\ Follows(listing[call[c].id], call[c].next)
        /\ \/ call[c].after = Idle /\ call[c].next.mod = listing[call[c].id].mod
           \/ /\ call[c].after = [op |-> "record", id |-> call[c].after.id]
              /\ call[c].next.status = listing[call[c].id].status
              /\ Reason(call[c].after.id, call[c].id, call[c].next.mod, history)
    BY <1>1, <1>2, <1>4 DEF FrameOK, Fresh
  <2>2. Idle # [op |-> "record", id |-> call[c].after.id]
    BY DEF Idle
  <2>3. /\ listing' = [listing EXCEPT ![call[c].id] = call[c].next]
        /\ published' = IF LifecycleEvent(listing[call[c].id], call[c].next)
                          THEN published \cup {ListingKey(call[c].id, call[c].next.ver)}
                          ELSE published
        /\ enforced' = IF call[c].after = Idle THEN enforced ELSE enforced \cup {call[c].after.id}
        /\ call' = [call EXCEPT ![c] = call[c].after]
    BY <1>4 DEF ListingWrite, Proceed
  <2>4. \/ published' = published
        \/ published' = published \cup {ListingKey(call[c].id, call[c].next.ver)}
    BY <2>3
  <2> QED
    BY <2>1, <2>2, <2>3, <2>4
<1> QED
  BY <1>3, <1>4

LEMMA ListingWriteStep ==
  ASSUME CatalogueInv, NEW c \in Clients, ListingWrite(c), UNCHANGED moderationVars
  PROVE  CatalogueInv'
<1>1. CASE UNCHANGED <<listing, published, enforced>> /\ call' = [call EXCEPT ![c] = Idle]
  <2>1. RowsOK'
    BY <1>1 DEF CatalogueInv, RowsOK
  <2> QED
    BY <1>1, <2>1, IdleOK, ListingsStep, SameListings
<1>2. CASE ~(UNCHANGED <<listing, published, enforced>> /\ call' = [call EXCEPT ![c] = Idle])
  <2> DEFINE l == call[c].id
             f == call[c].after
  <2>1. /\ l \in ListingIds
        /\ listing' = [listing EXCEPT ![l] = call[c].next]
        /\ Follows(listing[l], call[c].next)
        /\ call' = [call EXCEPT ![c] = f]
    BY <1>2, ListingWritten
  <2>2. RowsOK'
    BY <2>1 DEF CatalogueInv, RowsOK, Follows
  <2>3. Advance(listing, listing')
    BY <2>1 DEF CatalogueInv, RowsOK, Follows, Advance
  <2>4. \A a \in ActionIds : WarningKey(a) \in published' <=> WarningKey(a) \in published
    <3>1. published' = published \/ published' = published \cup {ListingKey(l, call[c].next.ver)}
      BY <1>2, ListingWritten
    <3> QED
      BY <3>1, Keys
  <2>5. enforced \subseteq enforced' /\ FrameOK(f, listing', history', enforced')
    <3>1. CASE f = Idle /\ enforced' = enforced
      BY <3>1, IdleOK
    <3>2. CASE f = [op |-> "record", id |-> f.id] /\ enforced' = enforced \cup {f.id}
      <4>1. f.op = "record" /\ f.id \in enforced'
        BY <3>2
      <4> HIDE DEF f
      <4> QED
        BY <3>2, <4>1 DEF FrameOK, Stored
    <3> QED
      BY <1>2, <3>1, <3>2, ListingWritten
  <2> HIDE DEF f
  <2> QED
    BY <2>1, <2>2, <2>3, <2>4, <2>5, ListingsStep
<1> QED
  BY <1>1, <1>2

\* A decision moves on, with its entry in the case history.
LEMMA ActionMoved ==
  ASSUME CatalogueInv, NEW a \in ActionIds, NEW next,
         <<action[a], next>> \in ActionMoves \cup {<<"none", "proposed">>},
         action[a] = "none" => listing[TargetOf[a]].status # "none",
         action' = [action EXCEPT ![a] = next], Entry(a, next), UNCHANGED <<listing, appeal>>
  PROVE  StoriesOK' /\ Retold(history, history')
<1> USE DEF CatalogueInv
<1>1. next \in Entries /\ next \in ActionStatuses /\ next # "none" /\ action[a] # "executed"
  BY DEF ActionMoves, Entries, ActionStatuses
<1>2. Retold(history, history')
  BY <1>1, EntryTells
<1>3. /\ history' = [history EXCEPT ![a] = Append(history[a], next)]
      /\ a \in DOMAIN history /\ DOMAIN history' = DOMAIN history
  BY DEF Entry, StoriesOK
<1>4. ActionTold(next, history'[a])
  BY <1>3, ActionEntry DEF StoriesOK
<1>5. action' \in [ActionIds -> ActionStatuses] /\ DOMAIN history' = ActionIds \cup AppealIds
  BY <1>1, <1>3 DEF StoriesOK
<1>6. \A b \in ActionIds : ActionTold(action'[b], history'[b])
  BY <1>3, <1>4 DEF StoriesOK
<1>7. \A b \in ActionIds : action'[b] # "none" => listing'[TargetOf[b]].status # "none"
  BY DEF StoriesOK
<1>8. \A p \in AppealIds : AppealTold(appeal'[p], history'[p])
  BY <1>3, ModerationAssumption DEF StoriesOK
<1>9. \A p \in AppealIds : appeal'[p] # "none" => action'[ActionOf[p]] = "executed"
  BY <1>1, ModerationAssumption DEF StoriesOK
<1> QED
  BY <1>2, <1>5, <1>6, <1>7, <1>8, <1>9 DEF StoriesOK

\* The same for an appeal, whose history may get two entries.
LEMMA AppealMoved ==
  ASSUME CatalogueInv, NEW p \in AppealIds, NEW next \in AppealStatuses \ {"none"}, NEW h,
         AppealTold(next, h), Len(history[p]) <= Len(h),
         \A i \in 1..Len(history[p]) : h[i] = history[p][i],
         action[ActionOf[p]] = "executed",
         next \in AppealActive =>
           \/ appeal[p] \in AppealActive
           \/ \A q \in AppealIds : ActionOf[q] = ActionOf[p] => appeal[q] \notin AppealActive,
         appeal' = [appeal EXCEPT ![p] = next], history' = [history EXCEPT ![p] = h],
         UNCHANGED <<listing, action>>
  PROVE  StoriesOK' /\ Retold(history, history')
<1> USE DEF CatalogueInv
<1>1. h \in Seq(Entries)
  BY DEF AppealTold
<1>2. Retold(history, history')
  BY <1>1, MoreTells
<1>3. p \in DOMAIN history /\ DOMAIN history' = ActionIds \cup AppealIds
  BY DEF StoriesOK
<1>4. appeal' \in [AppealIds -> AppealStatuses]
  BY DEF StoriesOK
<1>5. \A b \in ActionIds : ActionTold(action'[b], history'[b])
  BY <1>3, ModerationAssumption DEF StoriesOK
<1>6. \A q \in AppealIds : AppealTold(appeal'[q], history'[q])
  BY <1>3 DEF StoriesOK
<1>7. \A q \in AppealIds : appeal'[q] # "none" => action'[ActionOf[q]] = "executed"
  BY DEF StoriesOK
<1>8. \A q, r \in AppealIds :
        ActionOf[q] = ActionOf[r] /\ {appeal'[q], appeal'[r]} \subseteq AppealActive => q = r
  BY DEF StoriesOK
<1>9. \A b \in ActionIds : action'[b] # "none" => listing'[TargetOf[b]].status # "none"
  BY DEF StoriesOK
<1> QED
  BY <1>2, <1>3, <1>4, <1>5, <1>6, <1>7, <1>8, <1>9 DEF StoriesOK

LEMMA AppendTells ==
  ASSUME NEW h \in Seq(Entries), NEW e \in Entries
  PROVE  Len(h) <= Len(Append(h, e)) /\ \A i \in 1..Len(h) : Append(h, e)[i] = h[i]
OBVIOUS

LEMMA CreateActionStep ==
  ASSUME CatalogueInv, NEW a \in ActionIds, CreateAction(a)
  PROVE  CatalogueInv'
<1>1. UNCHANGED <<listing, published, enforced, call, appeal>>
  BY DEF CreateAction, listingVars
<1>2. StoriesOK' /\ Retold(history, history')
  BY <1>1, ActionMoved DEF CreateAction
<1>3. RecordedMeansEnforced'
  BY <1>1 DEF CreateAction, CatalogueInv, RecordedMeansEnforced, StoriesOK, Enforcing
<1> QED
  BY <1>1, <1>2, <1>3, ModerationStep

LEMMA TransitionActionStep ==
  ASSUME CatalogueInv, NEW a \in ActionIds, NEW to \in {"approved", "cancelled"}, TransitionAction(a, to)
  PROVE  CatalogueInv'
<1>1. UNCHANGED <<listing, published, enforced, call, appeal>>
  BY DEF TransitionAction, listingVars
<1>2. action[a] \notin {"none", "executed"}
  BY DEF TransitionAction, ActionMoves
<1>3. StoriesOK' /\ Retold(history, history')
  BY <1>1, <1>2, ActionMoved DEF TransitionAction
<1>4. RecordedMeansEnforced'
  BY <1>1, <1>2 DEF TransitionAction, CatalogueInv, RecordedMeansEnforced, StoriesOK, Enforcing
<1> QED
  BY <1>1, <1>3, <1>4, ModerationStep

\* A request that only read: its frame is all that is new.
LEMMA ReadStep ==
  ASSUME CatalogueInv, NEW c \in Clients, NEW f, call' = [call EXCEPT ![c] = f],
         UNCHANGED <<listing, published, enforced, action, appeal, history>>,
         FrameOK(f, listing, history, enforced)
  PROVE  CatalogueInv'
<1>1. StoriesOK' /\ RecordedMeansEnforced'
  BY DEF CatalogueInv, StoriesOK, RecordedMeansEnforced, Enforcing
<1>2. FrameOK(f, listing', history', enforced')
  OBVIOUS
<1> QED
  BY <1>1, <1>2, ModerationStep, SameHistories

LEMMA ExecuteReadStep ==
  ASSUME CatalogueInv, NEW c \in Clients, NEW a \in ActionIds, ExecuteRead(c, a)
  PROVE  CatalogueInv'
<1> DEFINE record == [op |-> "record", id |-> a]
           enforce == [op |-> "enforce", id |-> TargetOf[a], state |-> Effect[KindOf[a]], after |-> record]
<1>1. UNCHANGED <<listing, published, enforced, action, appeal, history>>
  BY DEF ExecuteRead, listingVars
<1>2. /\ action[a] = "approved"
      /\ call' = [call EXCEPT ![c] = IF Enforcing(a) THEN enforce ELSE record]
  BY DEF ExecuteRead, Proceed, ActionMoves
<1>3. CASE Enforcing(a)
  <2>1. ToldIn(history[a], "approved")
    <3>1. ActionTold("approved", history[a])
      BY <1>2 DEF CatalogueInv, StoriesOK
    <3>2. history[a] \in Seq(Entries) /\ Len(history[a]) = 2 /\ history[a][2] = "approved"
      BY <3>1 DEF ActionTold
    <3> QED
      BY <3>2 DEF ToldIn
  <2>2. TargetOf[a] \in ListingIds /\ listing[TargetOf[a]].status # "none"
    BY <1>2, ModerationAssumption DEF CatalogueInv, StoriesOK
  <2>3. Reason(a, TargetOf[a], Effect[KindOf[a]], history)
    BY <1>3, <2>1 DEF Reason
  <2>4. FrameOK(enforce, listing, history, enforced)
    BY <2>2, <2>3 DEF FrameOK
  <2> HIDE DEF enforce
  <2> QED
    BY <1>1, <1>2, <1>3, <2>4, ReadStep
<1>4. CASE ~Enforcing(a)
  <2>1. FrameOK(record, listing, history, enforced)
    BY <1>4, ModerationAssumption DEF FrameOK, Stored
  <2> HIDE DEF record, enforce
  <2> QED
    BY <1>1, <1>2, <1>4, <2>1, ReadStep
<1> QED
  BY <1>3, <1>4

LEMMA AcceptReadStep ==
  ASSUME CatalogueInv, NEW c \in Clients, NEW p \in AppealIds, AcceptRead(c, p)
  PROVE  CatalogueInv'
<1> DEFINE record == [op |-> "record", id |-> p]
           enforce == [op |-> "enforce", id |-> TargetOf[ActionOf[p]], state |-> "none", after |-> record]
<1>1. UNCHANGED <<listing, published, enforced, action, appeal, history>>
  BY DEF AcceptRead, listingVars
<1>2. /\ appeal[p] = "under_review"
      /\ call' = [call EXCEPT ![c] = IF Enforcing(ActionOf[p]) THEN enforce ELSE record]
  BY DEF AcceptRead, Proceed, AppealMoves
<1>3. CASE Enforcing(ActionOf[p])
  <2>1. ToldIn(history[p], "under_review")
    <3>1. AppealTold("under_review", history[p])
      BY <1>2 DEF CatalogueInv, StoriesOK
    <3>2. history[p] \in Seq(Entries) /\ Len(history[p]) = 2 /\ history[p][2] = "under_review"
      BY <3>1 DEF AppealTold
    <3> QED
      BY <3>2 DEF ToldIn
  <2>2. TargetOf[ActionOf[p]] \in ListingIds /\ listing[TargetOf[ActionOf[p]]].status # "none"
    BY <1>2, ModerationAssumption DEF CatalogueInv, StoriesOK
  <2>3. Reason(p, TargetOf[ActionOf[p]], "none", history)
    BY <1>3, <2>1 DEF Reason
  <2>4. FrameOK(enforce, listing, history, enforced)
    BY <2>2, <2>3 DEF FrameOK
  <2> HIDE DEF enforce
  <2> QED
    BY <1>1, <1>2, <1>3, <2>4, ReadStep
<1>4. CASE ~Enforcing(ActionOf[p])
  <2>1. FrameOK(record, listing, history, enforced)
    BY <1>4, ModerationAssumption DEF FrameOK, Stored
  <2> HIDE DEF record, enforce
  <2> QED
    BY <1>1, <1>2, <1>4, <2>1, ReadStep
<1> QED
  BY <1>3, <1>4

LEMMA RecordActionStep ==
  ASSUME CatalogueInv, NEW c \in Clients, RecordAction(c)
  PROVE  CatalogueInv'
<1> DEFINE a == call[c].id
<1>1. /\ call[c].op = "record" /\ a \in ActionIds
      /\ call' = [call EXCEPT ![c] = Idle]
      /\ UNCHANGED <<appeal, listing, enforced>>
  BY DEF RecordAction, Return
<1>2. Enforcing(a) => a \in enforced
  BY <1>1 DEF CatalogueInv, FramesOK, FrameOK, Stored
<1>3. CASE <<action[a], "executed">> \in ActionMoves
  <2>1. /\ action' = [action EXCEPT ![a] = "executed"] /\ Entry(a, "executed")
        /\ published' = published \cup (IF KindOf[a] = "warning" THEN {WarningKey(a)} ELSE {})
    BY <1>3 DEF RecordAction
  <2>2. action[a] = "approved"
    BY <1>3 DEF ActionMoves
  <2>3. StoriesOK' /\ Retold(history, history')
    BY <1>1, <1>3, <2>1, <2>2, ActionMoved
  <2>4. \A b \in ActionIds : WarningKey(b) \in published' <=> KindOf[b] = "warning" /\ action'[b] = "executed"
    <3>1. \A b \in ActionIds : WarningKey(b) = WarningKey(a) => b = a
      BY DEF WarningKey
    <3>2. \A b \in ActionIds : WarningKey(b) \in published <=> KindOf[b] = "warning" /\ action[b] = "executed"
      BY DEF CatalogueInv, RecordedMeansEnforced
    <3> QED
      BY <1>1, <2>1, <2>2, <3>1, <3>2 DEF CatalogueInv, StoriesOK
  <2>5. RecordedMeansEnforced'
    BY <1>1, <1>2, <2>1, <2>4 DEF CatalogueInv, RecordedMeansEnforced, StoriesOK, Enforcing
  <2> QED
    BY <1>1, <2>3, <2>5, IdleOK, ModerationStep
<1>4. CASE <<action[a], "executed">> \notin ActionMoves
  <2>1. UNCHANGED <<action, history, published>>
    BY <1>4 DEF RecordAction
  <2> QED
    BY <1>1, <2>1, IdleOK, ReadStep
<1> QED
  BY <1>3, <1>4

LEMMA SubmitAppealStep ==
  ASSUME CatalogueInv, NEW p \in AppealIds, SubmitAppeal(p)
  PROVE  CatalogueInv'
<1>1. UNCHANGED <<listing, published, enforced, call, action>>
  BY DEF SubmitAppeal, listingVars
<1>2. AppealTold("none", history[p])
  BY DEF SubmitAppeal, CatalogueInv, StoriesOK
<1>3. AppealTold("submitted", Append(history[p], "submitted"))
  BY <1>2, AppealEntry
<1>4. history[p] \in Seq(Entries) /\ "submitted" \in Entries
  BY <1>2 DEF AppealTold, Entries, AppealStatuses
<1>5. StoriesOK' /\ Retold(history, history')
  BY <1>1, <1>3, <1>4, AppendTells, AppealMoved DEF SubmitAppeal, Entry, AppealStatuses
<1>6. RecordedMeansEnforced'
  BY <1>1 DEF SubmitAppeal, CatalogueInv, RecordedMeansEnforced, StoriesOK, Enforcing
<1> QED
  BY <1>1, <1>5, <1>6, ModerationStep

LEMMA TransitionAppealStep ==
  ASSUME CatalogueInv, NEW p \in AppealIds, NEW to \in {"under_review", "rejected", "withdrawn"},
         TransitionAppeal(p, to)
  PROVE  CatalogueInv'
<1>1. UNCHANGED <<listing, published, enforced, call, action>>
  BY DEF TransitionAppeal, listingVars
<1>2. appeal[p] \in AppealActive
  BY DEF TransitionAppeal, AppealMoves, AppealActive
<1>3. AppealTold(to, Append(history[p], to))
  BY AppealEntry DEF TransitionAppeal, CatalogueInv, StoriesOK
<1>4. history[p] \in Seq(Entries) /\ to \in Entries
  BY HistoryTypes DEF CatalogueInv, Entries, AppealStatuses
<1>5. action[ActionOf[p]] = "executed"
  BY <1>2 DEF CatalogueInv, StoriesOK, AppealActive
<1>6. StoriesOK' /\ Retold(history, history')
  BY <1>1, <1>2, <1>3, <1>4, <1>5, AppendTells, AppealMoved DEF TransitionAppeal, Entry, AppealStatuses
<1>7. RecordedMeansEnforced'
  BY <1>1 DEF TransitionAppeal, CatalogueInv, RecordedMeansEnforced, StoriesOK, Enforcing
<1> QED
  BY <1>1, <1>6, <1>7, ModerationStep

LEMMA RecordAppealStep ==
  ASSUME CatalogueInv, NEW c \in Clients, RecordAppeal(c)
  PROVE  CatalogueInv'
<1> DEFINE p == call[c].id
           more == IF Enforcing(ActionOf[p]) THEN <<"restored", "accepted">> ELSE <<"accepted">>
<1>1. /\ call[c].op = "record" /\ p \in AppealIds
      /\ call' = [call EXCEPT ![c] = Idle]
      /\ UNCHANGED <<action, listing, published, enforced>>
  BY DEF RecordAppeal, Return, listingVars
<1>2. Enforcing(ActionOf[p]) => p \in enforced
  BY <1>1 DEF CatalogueInv, FramesOK, FrameOK, Stored
<1>3. CASE <<appeal[p], "accepted">> \in AppealMoves
  <2>1. /\ appeal' = [appeal EXCEPT ![p] = "accepted"]
        /\ history' = [history EXCEPT ![p] = history[p] \o more]
    BY <1>3 DEF RecordAppeal
  <2>2. appeal[p] = "under_review"
    BY <1>3 DEF AppealMoves
  <2>3. AppealTold("under_review", history[p])
    BY <1>1, <2>2 DEF CatalogueInv, StoriesOK
  <2>4. AppealTold("accepted", history[p] \o more)
    BY <2>3, RestoredEntry
  <2>5. more \in Seq(Entries) /\ history[p] \in Seq(Entries)
    <3>1. "restored" \in Entries /\ "accepted" \in Entries
      BY DEF Entries, AppealStatuses
    <3> QED
      BY <2>3, <3>1 DEF AppealTold
  <2> HIDE DEF more
  <2>6. /\ Len(history[p]) <= Len(history[p] \o more)
        /\ \A i \in 1..Len(history[p]) : (history[p] \o more)[i] = history[p][i]
    BY <2>5
  <2>7. action[ActionOf[p]] = "executed"
    BY <1>1, <2>2 DEF CatalogueInv, StoriesOK
  <2>8. StoriesOK' /\ Retold(history, history')
    BY <1>1, <2>1, <2>4, <2>6, <2>7, AppealMoved DEF AppealActive, AppealStatuses
  <2>9. RecordedMeansEnforced'
    BY <1>1, <1>2, <2>1 DEF CatalogueInv, RecordedMeansEnforced, StoriesOK, Enforcing
  <2> QED
    BY <1>1, <2>8, <2>9, IdleOK, ModerationStep
<1>4. CASE <<appeal[p], "accepted">> \notin AppealMoves
  <2>1. UNCHANGED <<appeal, history>>
    BY <1>4 DEF RecordAppeal
  <2> QED
    BY <1>1, <2>1, IdleOK, ReadStep
<1> QED
  BY <1>3, <1>4

LEMMA CatalogueStep == CatalogueInv /\ [Next]_vars => CatalogueInv'
<1> SUFFICES ASSUME CatalogueInv, [Next]_vars PROVE CatalogueInv'
  OBVIOUS
<1>1. ASSUME UNCHANGED <<call, listing, published, enforced, action, appeal, history>>
      PROVE  CatalogueInv'
  BY <1>1 DEF CatalogueInv, RowsOK, FramesOK, StoriesOK, RecordedMeansEnforced, Enforcing
<1>2. CASE UNCHANGED vars
  BY <1>1, <1>2 DEF vars
<1>3. ASSUME NEW w \in Relays, Relay(w) PROVE CatalogueInv'
  BY <1>1, <1>3 DEF Relay, listingVars, moderationVars
<1>4. ASSUME NEW c \in Clients, ListingsNext(c), UNCHANGED moderationVars PROVE CatalogueInv'
  BY <1>4, CreateDraftStep, SetLocationStep, OwnerReadStep, EnforceReadStep, ListingWriteStep DEF ListingsNext
<1>5. ASSUME NEW c \in Clients, ModerationNextStep(c) PROVE CatalogueInv'
  BY <1>5, CreateActionStep, ExecuteReadStep, TransitionActionStep, RecordActionStep,
     SubmitAppealStep, AcceptReadStep, TransitionAppealStep, RecordAppealStep DEF ModerationNextStep
<1>6. ASSUME NEW c \in Clients, Abandon(c) PROVE CatalogueInv'
  BY <1>6, IdleOK, ReadStep DEF Abandon, Return, listingVars, moderationVars
<1> QED
  BY <1>2, <1>3, <1>4, <1>5, <1>6 DEF Next, Request

-----------------------------------------------------------------------------
(* Catalogue: what follows *)

\* A set whose members are all equal has at most one.
LEMMA AtMostOne ==
  ASSUME NEW S, \A x, y \in S : x = y
  PROVE  Cardinality(S) <= 1
<1>1. CASE S = {}
  BY <1>1, FS_EmptySet
<1>2. ASSUME NEW x \in S PROVE Cardinality(S) <= 1
  <2>1. S = {x}
    BY <1>2
  <2> QED
    BY <2>1, FS_Singleton
<1> QED
  BY <1>1, <1>2

\* A short sequence is the tuple of its elements.
LEMMA Tuples ==
  ASSUME NEW S, NEW h \in Seq(S)
  PROVE  /\ Len(h) = 0 => h = <<>>
         /\ Len(h) = 1 => h = <<h[1]>>
         /\ Len(h) = 2 => h = <<h[1], h[2]>>
         /\ Len(h) = 3 => h = <<h[1], h[2], h[3]>>
         /\ Len(h) = 4 => h = <<h[1], h[2], h[3], h[4]>>
OBVIOUS

\* Staff and owners decide on a listing at the same time; the case history tells
\* one unbroken story of each decision and each appeal all the same, and at most
\* one appeal against a decision is active.
THEOREM DecisionsTellTheirStory == Spec => []DecisionStory
<1>1. ASSUME CatalogueInv PROVE DecisionStory
  <2>1. ASSUME NEW a \in ActionIds
        PROVE  history[a] \in ActionStories /\ (history[a] # <<>> => action[a] = history[a][Len(history[a])])
    <3> DEFINE s == action[a]
               h == history[a]
    <3>1. ActionTold(s, h) /\ s \in ActionStatuses
      BY <1>1 DEF CatalogueInv, StoriesOK
    <3> HIDE DEF s, h
    <3>2. h \in ActionStories
      BY <3>1, Tuples DEF ActionTold, ActionStories, ActionStatuses
    <3>3. h # <<>> => s = h[Len(h)]
      BY <3>1, Tuples DEF ActionTold
    <3> QED
      BY <3>2, <3>3 DEF s, h
  <2>2. ASSUME NEW p \in AppealIds
        PROVE  history[p] \in AppealStories /\ (history[p] # <<>> => appeal[p] = history[p][Len(history[p])])
    <3> DEFINE s == appeal[p]
               h == history[p]
    <3>1. AppealTold(s, h) /\ s \in AppealStatuses
      BY <1>1 DEF CatalogueInv, StoriesOK
    <3> HIDE DEF s, h
    <3>2. h \in AppealStories
      BY <3>1, Tuples DEF AppealTold, AppealStories, AppealStatuses
    <3>3. h # <<>> => s = h[Len(h)]
      BY <3>1, Tuples DEF AppealTold
    <3> QED
      BY <3>2, <3>3 DEF s, h
  <2>3. ASSUME NEW a \in ActionIds
        PROVE  Cardinality({p \in AppealIds : ActionOf[p] = a /\ appeal[p] \in AppealActive}) <= 1
    BY <1>1, AtMostOne DEF CatalogueInv, StoriesOK
  <2> QED
    BY <2>1, <2>2, <2>3 DEF DecisionStory
<1> QED
  BY <1>1, CatalogueInit, CatalogueStep, PTL DEF Spec

\* A decision is recorded as executed, and an appeal as accepted, only after the
\* listing took its effect, although both are other packages' transactions.
THEOREM RecordsFollowEffects == Spec => []RecordedMeansEnforced
<1>1. CatalogueInv => RecordedMeansEnforced
  BY DEF CatalogueInv
<1> QED
  BY <1>1, CatalogueInit, CatalogueStep, PTL DEF Spec

\* What a step does to the listings: a request of the owner or of staff writes
\* one, or a draft is created.
LEMMA ListingChanges ==
  ASSUME CatalogueInv, [Next]_vars, NEW l \in ListingIds
  PROVE  \/ listing'[l] = listing[l]
         \/ /\ StatusRank[listing'[l].status] >= StatusRank[listing[l].status]
            /\ \/ listing'[l].mod = listing[l].mod
               \/ /\ listing'[l].status = listing[l].status
                  /\ \E x : Reason(x, l, listing'[l].mod, history)
<1>1. listing[l] \in ListingRow /\ listing \in [ListingIds -> ListingRow]
  BY DEF CatalogueInv, RowsOK
<1>2. ASSUME NEW k \in ListingIds, CreateDraft(k)
      PROVE  \/ listing'[l] = listing[l]
             \/ /\ StatusRank[listing'[l].status] >= StatusRank[listing[l].status]
                /\ listing'[l].mod = listing[l].mod
  <2>1. CASE k = l
    <3>1. listing[l].status = "none" /\ listing'[l].status = "draft" /\ listing'[l].mod = listing[l].mod
      BY <1>1, <1>2, <2>1 DEF CreateDraft, ListingRow
    <3> QED
      BY <3>1, Ranks
  <2>2. CASE k # l
    BY <1>1, <1>2, <2>2 DEF CreateDraft
  <2> QED
    BY <2>1, <2>2
<1>3. ASSUME NEW c \in Clients, ListingWrite(c)
      PROVE  \/ listing'[l] = listing[l]
             \/ /\ StatusRank[listing'[l].status] >= StatusRank[listing[l].status]
                /\ \/ listing'[l].mod = listing[l].mod
                   \/ /\ listing'[l].status = listing[l].status
                      /\ \E x : Reason(x, l, listing'[l].mod, history)
  <2>1. CASE UNCHANGED listing
    BY <2>1
  <2>2. CASE ~UNCHANGED listing
    <3>1. /\ call[c].id \in ListingIds
          /\ listing' = [listing EXCEPT ![call[c].id] = call[c].next]
          /\ Follows(listing[call[c].id], call[c].next)
          /\ \/ call[c].next.mod = listing[call[c].id].mod
             \/ /\ call[c].next.status = listing[call[c].id].status
                /\ \E x : Reason(x, call[c].id, call[c].next.mod, history)
      BY <1>3, <2>2, ListingWritten
    <3>2. CASE l = call[c].id
      BY <1>1, <3>1, <3>2 DEF Follows
    <3>3. CASE l # call[c].id
      BY <1>1, <3>1, <3>3
    <3> QED
      BY <3>2, <3>3
  <2> QED
    BY <2>1, <2>2
<1>4. CASE UNCHANGED listing
  BY <1>4
<1>5. ASSUME NEW c \in Clients, ListingsNext(c)
      PROVE  \/ UNCHANGED listing
             \/ \E k \in ListingIds : CreateDraft(k)
             \/ ListingWrite(c)
  BY <1>5 DEF ListingsNext, SetLocation, OwnerRead, EnforceRead
<1>6. ASSUME NEW c \in Clients, ModerationNextStep(c) PROVE UNCHANGED listing
  BY <1>6 DEF ModerationNextStep, CreateAction, ExecuteRead, TransitionAction, RecordAction,
     SubmitAppeal, AcceptRead, TransitionAppeal, RecordAppeal, listingVars
<1>7. \/ UNCHANGED listing
      \/ \E k \in ListingIds : CreateDraft(k)
      \/ \E c \in Clients : ListingWrite(c)
  BY <1>5, <1>6 DEF Next, Request, Abandon, Relay, vars, listingVars
<1> QED
  BY <1>2, <1>3, <1>4, <1>7

\* A listing is hidden only on an approved decision with that effect and shown
\* again only on an appeal that was taken under review.
THEOREM EffectsAreReasoned == Spec => EffectsHaveReasons
<1>1. ASSUME CatalogueInv, [Next]_vars PROVE ReasonedEffects
  <2> SUFFICES ASSUME NEW l \in ListingIds, listing'[l].mod # listing[l].mod
               PROVE  IF listing'[l].mod # "none"
                        THEN \E a \in ActionIds : /\ TargetOf[a] = l /\ Enforcing(a) /\ Told(a, "approved")
                                                  /\ Effect[KindOf[a]] = listing'[l].mod
                        ELSE \E p \in AppealIds : /\ TargetOf[ActionOf[p]] = l /\ Enforcing(ActionOf[p])
                                                  /\ Told(p, "under_review")
    BY DEF ReasonedEffects
  <2>1. PICK x : Reason(x, l, listing'[l].mod, history)
    BY <1>1, ListingChanges
  <2>2. \A a : Enforcing(a) => Effect[KindOf[a]] # "none"
    BY DEF Enforcing, Effect
  <2> QED
    BY <2>1, <2>2 DEF Reason, Told, ToldIn
<1>2. CatalogueInv /\ [Next]_vars => CatalogueInv' /\ [ReasonedEffects]_vars
  BY <1>1, CatalogueStep
<1> QED
  BY <1>2, CatalogueInit, PTL DEF Spec, EffectsHaveReasons

\* A write of the owner leaves the moderation state and a write of staff the
\* status, although both store a whole row they read earlier, and a status never
\* goes back.
THEOREM NoWriteIsLost == Spec => NoLostWrite
<1>1. ASSUME CatalogueInv, [Next]_vars PROVE NothingLost
  <2> SUFFICES ASSUME NEW l \in ListingIds
               PROVE  /\ StatusRank[listing'[l].status] >= StatusRank[listing[l].status]
                      /\ listing'[l].status = listing[l].status \/ listing'[l].mod = listing[l].mod
    BY DEF NothingLost
  <2>1. StatusRank[listing[l].status] \in 0..4
    BY <1>1, RankTypes DEF CatalogueInv, RowsOK, ListingRow
  <2> QED
    BY <1>1, <2>1, ListingChanges
<1>2. CatalogueInv /\ [Next]_vars => CatalogueInv' /\ [NothingLost]_vars
  BY <1>1, CatalogueStep
<1> QED
  BY <1>2, CatalogueInit, PTL DEF Spec, NoLostWrite

-----------------------------------------------------------------------------
(* Media: the inductive invariant *)

AssetStatuses == {"none", "pending", "uploaded", "processing", "ready", "rejected", "deleted"}
AssetRow == [status : AssetStatuses, gallery : Galleries \cup {NoGallery}, ver : Nat,
             why : {"none", "image", "missing"}]

Decided == {"ready", "rejected", "deleted"}

\* What was read of a row of the asset; S holds the statuses it may have had.
Known(f, rows, S) ==
  /\ f.id \in AssetIds /\ f.ver \in Nat
  /\ rows[f.id].status # "none" /\ f.ver <= rows[f.id].ver
  /\ f.ver = rows[f.id].ver => rows[f.id].status \in S

\* An original that is gone from a row as it was read was swept.
OnlySwept(f, rows, objects, gone) ==
  f.ver = rows[f.id].ver /\ objects[f.id] = "none" => f.id \in gone

\* What a request, a run of ProcessAsset and the sweeper know.
RequestKnows(f, rows, objects, gone) ==
  /\ f.op = "attach_new" => f.id \in AssetIds /\ f.gallery \in Galleries
  /\ f.op = "attach" => f.ids \subseteq AssetIds /\ f.gallery \in Galleries
  /\ f.op = "confirm" => Known(f, rows, {f.status})
  /\ f.op = "uploaded" => Known(f, rows, {"pending"}) /\ OnlySwept(f, rows, objects, gone)
  /\ f.op = "reject" => Known(f, rows, {"pending"})
  /\ f.op = "drop" => f.id \in AssetIds /\ rows[f.id].status \in Decided

RunKnows(r, rows, made, gone) ==
  /\ r.op = "mark" => Known(r, rows, {"uploaded"})
  /\ r.op \in {"get", "put", "ready", "reject"} => Known(r, rows, {"processing"})
  /\ r.op = "ready" => r.id \in made
  /\ r.op = "reject" => /\ r.why \in {"image", "missing"}
                        /\ r.why = "missing" /\ r.ver = rows[r.id].ver => r.id \in gone
  /\ r.op = "drop" => r.id \in AssetIds /\ rows[r.id].status \in Decided
  /\ r.op = "done" => r.id \in AssetIds

Listed(r, rows, open) ==
  Known(r, rows, {"pending", "rejected"}) /\ r.id \notin open /\ r.op = "drop"

\* The rows and the objects agree.
AssetsOK ==
  /\ asset \in [AssetIds -> AssetRow]
  /\ DOMAIN original = AssetIds /\ aged \subseteq AssetIds
  /\ \A a \in AssetIds :
       /\ asset[a].status = "none" => asset[a] = NoAsset
       /\ a \in target \cup aged => asset[a].status # "none"
       /\ a \in aged => a \notin target
       /\ asset[a].status = "deleted" => original[a] = "none" /\ a \notin target
       /\ asset[a].status = "ready" => a \in processed
       /\ asset[a].status \in {"uploaded", "processing"} =>
            ProcessKey(a) \in published /\ (original[a] = "none" => a \in swept)
       /\ asset[a].why = "missing" => a \in swept

RequestsOK ==
  /\ DOMAIN call = Clients
  /\ \A c \in Clients : RequestKnows(call[c], asset, original, swept)

RunsOK ==
  /\ DOMAIN process = Processors
  /\ \A w \in Processors : RunKnows(process[w], asset, processed, swept)

SweepOK ==
  /\ sweep = [left |-> sweep.left, row |-> sweep.row]
  /\ \A r \in sweep.left : Listed(r, asset, target)
  /\ sweep.row # NoRun => Listed(sweep.row, asset, target) /\ original[sweep.row.id] = "none"

MediaInv == AssetsOK /\ RequestsOK /\ RunsOK /\ SweepOK

\* What one step may do: a row that is written gets a later version and what was
\* decided stays; an original goes when the image is decided or swept, and comes
\* only while the upload URL is valid, which is made with the row.
RowsMove(rows, next) ==
  \A a \in AssetIds :
    \/ next[a] = rows[a]
    \/ rows[a].ver < next[a].ver /\ next[a].status # "none"
DecidedStays(rows, next) ==
  \A a \in AssetIds : rows[a].status \in Decided => next[a].status \in Decided
ObjectsMove(rows, objects, left, gone, open) ==
  \A a \in AssetIds :
    /\ left[a] = "none" => objects[a] = "none" \/ a \in gone \/ rows[a].status \in Decided
    /\ objects[a] = "none" /\ a \notin open => left[a] = "none"
TargetsMove(rows, open, more) == \A a \in AssetIds : a \in more => a \in open \/ rows[a].status = "none"

Moves ==
  /\ RowsMove(asset, asset') /\ DecidedStays(asset, asset')
  /\ ObjectsMove(asset, original, original', swept', target)
  /\ TargetsMove(asset, target, target')
  /\ swept \subseteq swept' /\ processed \subseteq processed'

LEMMA KnownStays ==
  ASSUME NEW f, NEW S, NEW rows \in [AssetIds -> AssetRow], NEW next \in [AssetIds -> AssetRow],
         RowsMove(rows, next), Known(f, rows, S)
  PROVE  Known(f, next, S) /\ (f.ver = next[f.id].ver => next[f.id] = rows[f.id])
<1>1. f.id \in AssetIds /\ f.ver \in Nat /\ rows[f.id].ver \in Nat /\ next[f.id].ver \in Nat
  BY DEF Known, AssetRow
<1>2. CASE next[f.id] = rows[f.id]
  BY <1>2 DEF Known
<1>3. CASE rows[f.id].ver < next[f.id].ver /\ next[f.id].status # "none"
  <2>1. f.ver < next[f.id].ver
    BY <1>1, <1>3 DEF Known
  <2> QED
    BY <1>1, <1>3, <2>1 DEF Known
<1> QED
  BY <1>1, <1>2, <1>3 DEF RowsMove

LEMMA RequestStays ==
  ASSUME NEW f, NEW rows \in [AssetIds -> AssetRow], NEW next \in [AssetIds -> AssetRow],
         NEW objects, NEW left, NEW gone, NEW more, NEW open,
         RequestKnows(f, rows, objects, gone),
         RowsMove(rows, next), DecidedStays(rows, next), ObjectsMove(rows, objects, left, more, open),
         gone \subseteq more
  PROVE  RequestKnows(f, next, left, more)
<1>1. f.op = "confirm" => Known(f, next, {f.status})
  BY KnownStays DEF RequestKnows
<1>2. f.op \in {"uploaded", "reject"} => Known(f, next, {"pending"})
  BY KnownStays DEF RequestKnows
<1>3. f.op = "uploaded" => OnlySwept(f, next, left, more)
  <2> SUFFICES ASSUME f.op = "uploaded", f.ver = next[f.id].ver, left[f.id] = "none"
               PROVE  f.id \in more
    BY DEF OnlySwept
  <2>1. Known(f, rows, {"pending"}) /\ OnlySwept(f, rows, objects, gone)
    BY DEF RequestKnows
  <2>2. next[f.id] = rows[f.id]
    BY <2>1, KnownStays
  <2>3. f.id \in AssetIds /\ rows[f.id].status = "pending" /\ f.ver = rows[f.id].ver
    BY <2>1, <2>2 DEF Known
  <2>4. objects[f.id] = "none" \/ f.id \in more
    BY <2>3 DEF ObjectsMove, Decided
  <2> QED
    BY <2>1, <2>3, <2>4 DEF OnlySwept
<1>4. f.op = "drop" => f.id \in AssetIds /\ next[f.id].status \in Decided
  BY DEF RequestKnows, DecidedStays
<1> QED
  BY <1>1, <1>2, <1>3, <1>4 DEF RequestKnows

LEMMA RunStays ==
  ASSUME NEW r, NEW rows \in [AssetIds -> AssetRow], NEW next \in [AssetIds -> AssetRow],
         NEW made, NEW made2, NEW gone, NEW more,
         RunKnows(r, rows, made, gone),
         RowsMove(rows, next), DecidedStays(rows, next), made \subseteq made2, gone \subseteq more
  PROVE  RunKnows(r, next, made2, more)
<1>1. r.op = "mark" => Known(r, next, {"uploaded"})
  BY KnownStays DEF RunKnows
<1>2. r.op \in {"get", "put", "ready", "reject"} => Known(r, next, {"processing"})
  BY KnownStays DEF RunKnows
<1>3. r.op = "reject" => /\ r.why \in {"image", "missing"}
                         /\ r.why = "missing" /\ r.ver = next[r.id].ver => r.id \in more
  BY KnownStays DEF RunKnows
<1>4. r.op = "drop" => r.id \in AssetIds /\ next[r.id].status \in Decided
  BY DEF RunKnows, DecidedStays
<1> QED
  BY <1>1, <1>2, <1>3, <1>4 DEF RunKnows

LEMMA ListedStays ==
  ASSUME NEW r, NEW rows \in [AssetIds -> AssetRow], NEW next \in [AssetIds -> AssetRow],
         NEW open, NEW more, Listed(r, rows, open),
         RowsMove(rows, next), TargetsMove(rows, open, more)
  PROVE  Listed(r, next, more)
BY KnownStays DEF Listed, TargetsMove, Known

\* What a step has to show.
LEMMA MediaKeeps ==
  ASSUME MediaInv, AssetsOK', Moves,
         \/ UNCHANGED call
         \/ \E c \in Clients : \E f :
              call' = [call EXCEPT ![c] = f] /\ RequestKnows(f, asset', original', swept'),
         \/ UNCHANGED process
         \/ \E w \in Processors : \E r :
              process' = [process EXCEPT ![w] = r] /\ RunKnows(r, asset', processed', swept'),
         UNCHANGED sweep \/ SweepOK'
  PROVE  MediaInv'
<1>1. asset \in [AssetIds -> AssetRow] /\ asset' \in [AssetIds -> AssetRow]
  BY DEF MediaInv, AssetsOK
<1>2. \A c \in Clients : RequestKnows(call[c], asset', original', swept')
  BY <1>1, RequestStays DEF MediaInv, RequestsOK, Moves
<1>3. RequestsOK'
  BY <1>2 DEF MediaInv, RequestsOK
<1>4. \A w \in Processors : RunKnows(process[w], asset', processed', swept')
  BY <1>1, RunStays DEF MediaInv, RunsOK, Moves
<1>5. RunsOK'
  BY <1>4 DEF MediaInv, RunsOK
<1>6. CASE UNCHANGED sweep
  <2>1. \A r : Listed(r, asset, target) => Listed(r, asset', target')
    BY <1>1, ListedStays DEF Moves
  <2>2. sweep.row # NoRun => original'[sweep.row.id] = "none"
    BY DEF MediaInv, SweepOK, Listed, Known, Moves, ObjectsMove
  <2>3. SweepOK'
    BY <1>6, <2>1, <2>2 DEF MediaInv, SweepOK
  <2> QED
    BY <1>3, <1>5, <2>3 DEF MediaInv
<1> QED
  BY <1>3, <1>5, <1>6 DEF MediaInv

-----------------------------------------------------------------------------
(* Media: the steps *)

LEMMA RowsStay ==
  UNCHANGED asset => RowsMove(asset, asset') /\ DecidedStays(asset, asset') /\ ImagesStay
BY DEF RowsMove, DecidedStays, ImagesStay

\* A step that leaves the rows and the objects alone.
LEMMA QuietMoves ==
  ASSUME UNCHANGED <<asset, original, target, swept>>, processed \subseteq processed'
  PROVE  Moves /\ ImagesStay
BY RowsStay DEF Moves, ObjectsMove, TargetsMove

\* A step that writes one row.
LEMMA RowMoves ==
  ASSUME AssetsOK, NEW a \in AssetIds, NEW row \in AssetRow,
         asset' = [asset EXCEPT ![a] = row],
         asset[a].ver < row.ver, row.status # "none",
         asset[a].status # "deleted",
         asset[a].status = "ready" => row.status = "ready",
         asset[a].status = "rejected" => row.status \in {"rejected", "deleted"},
         asset[a].gallery # NoGallery => row.gallery = asset[a].gallery
  PROVE  RowsMove(asset, asset') /\ DecidedStays(asset, asset') /\ ImagesStay
BY DEF AssetsOK, RowsMove, DecidedStays, Decided, ImagesStay

LEMMA WriteRow ==
  ASSUME NEW r \in AssetRow, NEW next \in AssetStatuses
  PROVE  /\ Write(r, next) \in AssetRow
         /\ Write(r, next).status = next /\ Write(r, next).gallery = r.gallery
         /\ Write(r, next).ver = r.ver + 1 /\ Write(r, next).why = r.why
<1>1. /\ r.ver \in Nat /\ r.ver + 1 \in Nat /\ DOMAIN r = {"status", "gallery", "ver", "why"}
      /\ r.gallery \in Galleries \cup {NoGallery} /\ r.why \in {"none", "image", "missing"}
      /\ r = [f \in DOMAIN r |-> r[f]]
  BY DEF AssetRow
<1> DEFINE w == [r EXCEPT !.status = next]
<1>2. /\ w = [f \in DOMAIN r |-> IF f = "status" THEN next ELSE r[f]]
  BY <1>1
<1>3. /\ DOMAIN w = DOMAIN r /\ w.status = next /\ w.gallery = r.gallery /\ w.ver = r.ver /\ w.why = r.why
      /\ w = [f \in DOMAIN w |-> w[f]]
  BY <1>1, <1>2
<1>4. w \in AssetRow
  BY <1>1, <1>3 DEF AssetRow
<1>5. Write(r, next) = [w EXCEPT !.ver = r.ver + 1]
  BY <1>1, <1>2 DEF Write
<1> HIDE DEF w
<1> QED
  BY <1>1, <1>3, <1>4, <1>5 DEF AssetRow

LEMMA RejectRow ==
  ASSUME NEW r \in AssetRow, NEW why \in {"image", "missing"}
  PROVE  LET row == [Write(r, "rejected") EXCEPT !.why = why] IN
           /\ row \in AssetRow
           /\ row.status = "rejected" /\ row.gallery = r.gallery /\ row.ver = r.ver + 1 /\ row.why = why
<1> DEFINE w == Write(r, "rejected")
<1>1. w \in AssetRow /\ w.status = "rejected" /\ w.gallery = r.gallery /\ w.ver = r.ver + 1
  BY WriteRow DEF AssetStatuses
<1> HIDE DEF w
<1>2. DOMAIN w = {"status", "gallery", "ver", "why"}
  BY <1>1 DEF AssetRow
<1>3. LET row == [w EXCEPT !.why = why] IN
        row \in AssetRow /\ row.status = w.status /\ row.gallery = w.gallery /\ row.ver = w.ver /\ row.why = why
  BY <1>1, <1>2 DEF AssetRow
<1> QED
  BY <1>1, <1>3 DEF w

LEMMA AttachRow ==
  ASSUME NEW r \in AssetRow, NEW l \in Galleries
  PROVE  /\ Attached(r, l) \in AssetRow
         /\ Attached(r, l).status = r.status /\ Attached(r, l).gallery = l
         /\ Attached(r, l).ver = r.ver + 1 /\ Attached(r, l).why = r.why
<1>1. r.ver \in Nat /\ r.ver + 1 \in Nat /\ DOMAIN r = {"status", "gallery", "ver", "why"}
      /\ r = [f \in DOMAIN r |-> r[f]]
  BY DEF AssetRow
<1> DEFINE w == [r EXCEPT !.gallery = l]
<1>2. /\ w = [f \in DOMAIN r |-> IF f = "gallery" THEN l ELSE r[f]]
  BY <1>1
<1>3. /\ DOMAIN w = DOMAIN r /\ w.gallery = l /\ w.status = r.status /\ w.ver = r.ver /\ w.why = r.why
      /\ w = [f \in DOMAIN w |-> w[f]]
  BY <1>1, <1>2
<1>4. w \in AssetRow
  BY <1>1, <1>3 DEF AssetRow
<1>5. Attached(r, l) = [w EXCEPT !.ver = r.ver + 1]
  BY <1>1, <1>2 DEF Attached
<1> HIDE DEF w
<1> QED
  BY <1>1, <1>3, <1>4, <1>5 DEF AssetRow

\* MarkUploaded, MarkProcessing, MarkReady, Reject and Delete on a row as it was read.
LEMMA Written ==
  ASSUME AssetsOK, NEW f, NEW S, Known(f, asset, S), Current(f.id, f.ver),
         S \subseteq {"pending", "uploaded", "processing", "rejected"},
         NEW row \in AssetRow, asset' = [asset EXCEPT ![f.id] = row],
         row.status # "none", row.gallery = asset[f.id].gallery, row.ver = asset[f.id].ver + 1,
         asset[f.id].status = "rejected" => row.status = "deleted"
  PROVE  /\ f.id \in AssetIds /\ f.ver \in Nat /\ asset[f.id].ver = f.ver /\ asset[f.id].status \in S
         /\ asset' \in [AssetIds -> AssetRow]
         /\ RowsMove(asset, asset') /\ DecidedStays(asset, asset') /\ ImagesStay
<1>1. /\ f.id \in AssetIds /\ f.ver \in Nat /\ asset[f.id].ver = f.ver /\ asset[f.id].status \in S
      /\ asset[f.id] \in AssetRow
  BY DEF Known, Current, Fresh, AssetsOK
<1>2. /\ asset[f.id].ver < row.ver
      /\ asset[f.id].status # "deleted" /\ asset[f.id].status # "ready"
      /\ asset[f.id].status = "rejected" => row.status \in {"rejected", "deleted"}
  BY <1>1
<1>3. RowsMove(asset, asset') /\ DecidedStays(asset, asset') /\ ImagesStay
  BY <1>1, <1>2, RowMoves
<1>4. asset' \in [AssetIds -> AssetRow]
  BY <1>1 DEF AssetsOK
<1> QED
  BY <1>1, <1>3, <1>4

LEMMA NothingKnown ==
  ASSUME NEW rows, NEW objects, NEW gone, NEW made
  PROVE  RequestKnows(Idle, rows, objects, gone) /\ RunKnows(NoRun, rows, made, gone)
BY DEF RequestKnows, RunKnows, Idle, NoRun

LEMMA CreateListingImageStep ==
  ASSUME MediaInv, NEW c \in Clients, NEW a \in AssetIds, NEW l \in Galleries \cup {NoGallery},
         CreateListingImage(c, a, l)
  PROVE  MediaInv' /\ ImagesStay
<1>1. /\ asset[a] = NoAsset /\ asset' = [asset EXCEPT ![a] = Pending]
      /\ UNCHANGED <<published, original, processed, aged, process, sweep, swept>>
      /\ target' = target \/ target' = target \cup {a}
  BY DEF CreateListingImage, CreatePending, workerVars, sweepVars
<1>2. /\ Pending.status = "pending" /\ Pending.gallery = NoGallery /\ Pending.ver = 1
      /\ Pending.why = "none" /\ Pending \in AssetRow
  BY DEF Pending, NoAsset, AssetRow, AssetStatuses
<1>3. asset[a].status = "none" /\ asset[a].ver = 0 /\ asset[a].gallery = NoGallery
  BY <1>1 DEF NoAsset
<1>4. Pending \in AssetRow /\ Pending.status = "pending" /\ Pending.ver = 1
  BY <1>2
<1>5. RowsMove(asset, asset') /\ DecidedStays(asset, asset') /\ ImagesStay
  <2>1. /\ asset[a].ver < Pending.ver /\ Pending.status # "none"
        /\ asset[a].status # "ready" /\ asset[a].status # "deleted" /\ asset[a].status # "rejected"
        /\ ~(asset[a].gallery # NoGallery)
    BY <1>3, <1>4
  <2> QED
    BY <1>1, <1>4, <2>1, RowMoves DEF MediaInv
<1>6. AssetsOK'
  <2>1. asset' \in [AssetIds -> AssetRow]
    BY <1>1, <1>4 DEF MediaInv, AssetsOK
  <2>2. a \notin aged
    BY <1>3 DEF MediaInv, AssetsOK
  <2> QED
    BY <1>1, <1>2, <2>1, <2>2 DEF MediaInv, AssetsOK
<1>7. Moves
  BY <1>1, <1>3, <1>5 DEF Moves, ObjectsMove, TargetsMove
<1>8. \/ call' = [call EXCEPT ![c] = Idle]
      \/ /\ l \in Galleries
         /\ call' = [call EXCEPT ![c] = [op |-> "attach_new", id |-> a, ver |-> 1, gallery |-> l]]
  BY DEF CreateListingImage, Return, Proceed
<1>9. CASE call' = [call EXCEPT ![c] = Idle]
  BY <1>1, <1>5, <1>6, <1>7, <1>9, NothingKnown, MediaKeeps
<1>10. CASE /\ l \in Galleries
            /\ call' = [call EXCEPT ![c] = [op |-> "attach_new", id |-> a, ver |-> 1, gallery |-> l]]
  <2> DEFINE f == [op |-> "attach_new", id |-> a, ver |-> 1, gallery |-> l]
  <2>1. RequestKnows(f, asset', original', swept')
    BY <1>10 DEF RequestKnows
  <2> HIDE DEF f
  <2> QED
    BY <1>1, <1>5, <1>6, <1>7, <1>10, <2>1, MediaKeeps DEF f
<1> QED
  BY <1>8, <1>9, <1>10

LEMMA AttachListingStep ==
  ASSUME MediaInv, NEW c \in Clients, AttachListing(c)
  PROVE  MediaInv' /\ ImagesStay
<1> DEFINE a == call[c].id
<1>1. /\ call[c].op = "attach_new" /\ call' = [call EXCEPT ![c] = Idle]
      /\ UNCHANGED <<published, original, processed, target, aged, process, sweep, swept>>
  BY DEF AttachListing, Return, workerVars, sweepVars
<1>2. CASE UNCHANGED asset
  <2>1. AssetsOK'
    BY <1>1, <1>2 DEF MediaInv, AssetsOK
  <2> QED
    BY <1>1, <1>2, <2>1, QuietMoves, NothingKnown, MediaKeeps
<1>3. CASE ~UNCHANGED asset
  <2>1. /\ Attachable(asset[a])
        /\ asset' = [asset EXCEPT ![a] = Attached(asset[a], call[c].gallery)]
    BY <1>3 DEF AttachListing
  <2>2. a \in AssetIds /\ call[c].gallery \in Galleries
    BY <1>1 DEF MediaInv, RequestsOK, RequestKnows
  <2> DEFINE row == Attached(asset[a], call[c].gallery)
  <2>3. asset[a] \in AssetRow /\ asset[a].ver \in Nat
    BY <2>2 DEF MediaInv, AssetsOK, AssetRow
  <2>4. asset' = [asset EXCEPT ![a] = row]
    BY <2>1
  <2>5. /\ row \in AssetRow
        /\ row.status = asset[a].status /\ row.ver = asset[a].ver + 1 /\ row.why = asset[a].why
        /\ row.gallery = call[c].gallery
    BY <2>2, <2>3, AttachRow
  <2> HIDE DEF row
  <2>6. RowsMove(asset, asset') /\ DecidedStays(asset, asset') /\ ImagesStay
    <3>1. /\ asset[a].ver < row.ver /\ row.status # "none"
          /\ asset[a].status = "ready" => row.status = "ready"
          /\ asset[a].status # "deleted" /\ asset[a].status # "rejected"
          /\ ~(asset[a].gallery # NoGallery)
      BY <2>1, <2>3, <2>5 DEF Attachable
    <3> QED
      BY <2>2, <2>4, <2>5, <3>1, RowMoves DEF MediaInv
  <2>7. Moves
    BY <1>1, <2>6 DEF Moves, ObjectsMove, TargetsMove
  <2>8. AssetsOK'
    <3>1. asset' \in [AssetIds -> AssetRow]
      BY <2>2, <2>4, <2>5 DEF MediaInv, AssetsOK
    <3>2. \A b \in AssetIds : asset'[b].status = asset[b].status /\ asset'[b].why = asset[b].why
      BY <2>4, <2>5 DEF MediaInv, AssetsOK
    <3>3. \A b \in AssetIds : asset'[b].status = "none" => asset'[b] = NoAsset
      BY <2>1, <2>4, <3>2 DEF MediaInv, AssetsOK, Attachable
    <3> QED
      BY <1>1, <3>1, <3>2, <3>3 DEF MediaInv, AssetsOK
  <2> QED
    BY <1>1, <2>6, <2>7, <2>8, NothingKnown, MediaKeeps
<1> QED
  BY <1>2, <1>3

LEMMA AttachToListingStep ==
  ASSUME MediaInv, NEW c \in Clients, AttachToListing(c)
  PROVE  MediaInv' /\ ImagesStay
<1> DEFINE A == call[c].ids
<1>1. /\ call[c].op = "attach" /\ call' = [call EXCEPT ![c] = Idle]
      /\ UNCHANGED <<published, original, processed, target, aged, process, sweep, swept>>
  BY DEF AttachToListing, Return, workerVars, sweepVars
<1>2. CASE UNCHANGED asset
  <2>1. AssetsOK'
    BY <1>1, <1>2 DEF MediaInv, AssetsOK
  <2> QED
    BY <1>1, <1>2, <2>1, QuietMoves, NothingKnown, MediaKeeps
<1>3. CASE ~UNCHANGED asset
  <2>1. /\ \A a \in A : Attachable(asset[a])
        /\ asset' = [a \in AssetIds |->
             IF a \in A THEN Attached(asset[a], call[c].gallery) ELSE asset[a]]
    BY <1>3 DEF AttachToListing
  <2>2. call[c].gallery \in Galleries
    BY <1>1 DEF MediaInv, RequestsOK, RequestKnows
  <2>3. ASSUME NEW a \in AssetIds
        PROVE  /\ asset'[a] \in AssetRow
               /\ asset'[a].status = asset[a].status /\ asset'[a].why = asset[a].why
               /\ asset'[a] = asset[a] \/ asset[a].ver < asset'[a].ver
               /\ asset'[a] = asset[a] \/ a \in A
    <3>1. asset[a] \in AssetRow /\ asset[a].ver \in Nat
      BY DEF MediaInv, AssetsOK, AssetRow
    <3>2. CASE a \in A
      <4>1. asset'[a] = Attached(asset[a], call[c].gallery)
        BY <2>1, <3>2
      <4> QED
        BY <2>2, <3>1, <3>2, <4>1, AttachRow
    <3>3. CASE a \notin A
      BY <2>1, <3>1, <3>3
    <3> QED
      BY <3>2, <3>3
  <2>4. RowsMove(asset, asset') /\ DecidedStays(asset, asset') /\ ImagesStay
    BY <2>1, <2>3 DEF RowsMove, DecidedStays, Decided, ImagesStay, Attachable
  <2>5. Moves
    BY <1>1, <2>4 DEF Moves, ObjectsMove, TargetsMove
  <2>6. AssetsOK'
    <3>1. asset' \in [AssetIds -> AssetRow]
      BY <2>1, <2>3
    <3>2. \A b \in AssetIds : asset'[b].status = "none" => asset'[b] = NoAsset
      BY <2>1, <2>3 DEF MediaInv, AssetsOK, Attachable
    <3> QED
      BY <1>1, <2>3, <3>1, <3>2 DEF MediaInv, AssetsOK
  <2> QED
    BY <1>1, <2>4, <2>5, <2>6, NothingKnown, MediaKeeps
<1> QED
  BY <1>2, <1>3

\* A step of a request that writes nothing.
LEMMA RequestReads ==
  ASSUME MediaInv, NEW c \in Clients, NEW f, call' = [call EXCEPT ![c] = f],
         RequestKnows(f, asset, original, swept), UNCHANGED <<published, mediaVars>>
  PROVE  MediaInv' /\ ImagesStay
<1>1. UNCHANGED <<asset, original, processed, target, aged, process, sweep, swept>>
  BY DEF mediaVars, storeVars, workerVars, sweepVars
<1>2. AssetsOK'
  BY <1>1 DEF MediaInv, AssetsOK
<1>3. RequestKnows(f, asset', original', swept')
  BY <1>1
<1> QED
  BY <1>1, <1>2, <1>3, QuietMoves, MediaKeeps

\* What is read of a row now is known of it.
LEMMA ReadNow ==
  ASSUME AssetsOK, NEW f, f.id \in AssetIds, asset[f.id].status # "none", f.ver = asset[f.id].ver
  PROVE  Known(f, asset, {asset[f.id].status})
BY DEF Known, AssetsOK, AssetRow

LEMMA PrepareMediaStep ==
  ASSUME MediaInv, NEW c \in Clients, NEW A \in SUBSET AssetIds, NEW l \in Galleries,
         PrepareMedia(c, A, l)
  PROVE  MediaInv' /\ ImagesStay
<1> DEFINE f == [op |-> "attach", ids |-> A, gallery |-> l]
<1>1. call' = [call EXCEPT ![c] = f] /\ UNCHANGED <<published, mediaVars>>
  BY DEF PrepareMedia, Proceed
<1>2. RequestKnows(f, asset, original, swept)
  BY DEF RequestKnows
<1> HIDE DEF f
<1> QED
  BY <1>1, <1>2, RequestReads

LEMMA ConfirmUploadStep ==
  ASSUME MediaInv, NEW c \in Clients, NEW a \in AssetIds, ConfirmUpload(c, a)
  PROVE  MediaInv' /\ ImagesStay
<1> DEFINE f == [op |-> "confirm", id |-> a, status |-> asset[a].status, ver |-> asset[a].ver]
<1>1. /\ call' = [call EXCEPT ![c] = f] /\ UNCHANGED <<published, mediaVars>>
      /\ asset[a] # NoAsset
  BY DEF ConfirmUpload, Proceed
<1>2. f.op = "confirm" /\ f.id = a /\ f.ver = asset[a].ver /\ f.status = asset[a].status
  OBVIOUS
<1> HIDE DEF f
<1>3. asset[a].status # "none"
  BY <1>1 DEF MediaInv, AssetsOK
<1>4. Known(f, asset, {f.status})
  BY <1>2, <1>3, ReadNow DEF MediaInv
<1>5. RequestKnows(f, asset, original, swept)
  BY <1>2, <1>4 DEF RequestKnows
<1> QED
  BY <1>1, <1>5, RequestReads

LEMMA ConfirmStatStep ==
  ASSUME MediaInv, NEW c \in Clients, ConfirmStat(c)
  PROVE  MediaInv' /\ ImagesStay
<1> DEFINE stat == original[call[c].id]
           f == [op |-> IF stat = "big" THEN "reject" ELSE "uploaded", id |-> call[c].id, ver |-> call[c].ver]
<1>1. call[c].op = "confirm" /\ UNCHANGED <<published, mediaVars>>
  BY DEF ConfirmStat
<1>2. \/ call' = [call EXCEPT ![c] = Idle]
      \/ call[c].status = "pending" /\ stat # "none" /\ call' = [call EXCEPT ![c] = f]
  BY DEF ConfirmStat, Return, Proceed
<1>3. CASE call' = [call EXCEPT ![c] = Idle]
  BY <1>1, <1>3, NothingKnown, RequestReads
<1>4. CASE call[c].status = "pending" /\ stat # "none" /\ call' = [call EXCEPT ![c] = f]
  <2>1. f.op \in {"reject", "uploaded"} /\ f.id = call[c].id /\ f.ver = call[c].ver
    OBVIOUS
  <2> HIDE DEF f
  <2>2. Known(call[c], asset, {"pending"})
    BY <1>1, <1>4 DEF MediaInv, RequestsOK, RequestKnows
  <2>3. Known(f, asset, {"pending"})
    BY <2>1, <2>2 DEF Known
  <2>4. OnlySwept(f, asset, original, swept)
    BY <1>4, <2>1 DEF OnlySwept
  <2>5. RequestKnows(f, asset, original, swept)
    BY <2>1, <2>3, <2>4 DEF RequestKnows
  <2> QED
    BY <1>1, <1>4, <2>5, RequestReads
<1> QED
  BY <1>2, <1>3, <1>4

\* The assets after a write of one row, and after one loses its original.
LEMMA RowWritten ==
  ASSUME MediaInv, NEW f, NEW S, Known(f, asset, S), Current(f.id, f.ver),
         S \subseteq {"pending", "uploaded", "processing", "rejected"},
         NEW row \in AssetRow, asset' = [asset EXCEPT ![f.id] = row],
         row.status # "none", row.gallery = asset[f.id].gallery, row.ver = asset[f.id].ver + 1,
         asset[f.id].status = "rejected" => row.status = "deleted",
         UNCHANGED <<original, processed, target, swept>>,
         aged' \subseteq aged, published \subseteq published',
         row.status \in {"uploaded", "processing"} =>
           ProcessKey(f.id) \in published' /\ (original[f.id] = "none" => f.id \in swept),
         row.status = "ready" => f.id \in processed,
         row.status = "deleted" => original[f.id] = "none" /\ f.id \notin target,
         row.why = "missing" => f.id \in swept
  PROVE  AssetsOK' /\ Moves /\ ImagesStay /\ asset'[f.id] = row
<1>1. /\ f.id \in AssetIds
      /\ asset' \in [AssetIds -> AssetRow]
      /\ RowsMove(asset, asset') /\ DecidedStays(asset, asset') /\ ImagesStay
  BY Written DEF MediaInv
<1>2. Moves
  BY <1>1 DEF Moves, ObjectsMove, TargetsMove
<1>3. (\A b \in AssetIds : b # f.id => asset'[b] = asset[b]) /\ asset'[f.id] = row
  BY <1>1 DEF MediaInv, AssetsOK
<1>4. asset[f.id].status # "none"
  BY DEF Known
<1>5. AssetsOK'
  BY <1>1, <1>3, <1>4 DEF MediaInv, AssetsOK
<1> QED
  BY <1>1, <1>2, <1>3, <1>5

LEMMA ObjectDropped ==
  ASSUME MediaInv, NEW a \in AssetIds, DropObject(a),
         asset[a].status \in Decided \/ a \in swept', swept \subseteq swept',
         UNCHANGED <<asset, published, processed, target, aged>>
  PROVE  AssetsOK' /\ Moves /\ ImagesStay
<1>1. AssetsOK'
  BY DEF MediaInv, AssetsOK, DropObject, Decided
<1>2. Moves
  BY RowsStay DEF MediaInv, AssetsOK, DropObject, Moves, ObjectsMove, TargetsMove
<1> QED
  BY <1>1, <1>2, RowsStay

LEMMA CommitUploadedStep ==
  ASSUME MediaInv, NEW c \in Clients, CommitUploaded(c)
  PROVE  MediaInv' /\ ImagesStay
<1> DEFINE f == call[c]
<1>1. /\ f.op = "uploaded" /\ call' = [call EXCEPT ![c] = Idle]
      /\ UNCHANGED <<original, processed, target, aged, process, sweep, swept>>
  BY DEF CommitUploaded, Return, workerVars, sweepVars
<1>2. CASE UNCHANGED <<asset, published>>
  <2>1. AssetsOK'
    BY <1>1, <1>2 DEF MediaInv, AssetsOK
  <2> QED
    BY <1>1, <1>2, <2>1, QuietMoves, NothingKnown, MediaKeeps
<1>3. CASE ~UNCHANGED <<asset, published>>
  <2> DEFINE row == Write(asset[f.id], "uploaded")
  <2>1. /\ Current(f.id, f.ver) /\ asset' = [asset EXCEPT ![f.id] = row]
        /\ published' = published \cup {ProcessKey(f.id)}
    BY <1>3 DEF CommitUploaded, SetStatus
  <2>2. Known(f, asset, {"pending"}) /\ OnlySwept(f, asset, original, swept)
    BY <1>1 DEF MediaInv, RequestsOK, RequestKnows
  <2>3. asset[f.id] \in AssetRow /\ asset[f.id].status = "pending" /\ asset[f.id].ver = f.ver
    BY <2>1, <2>2 DEF Known, Current, Fresh, MediaInv, AssetsOK
  <2>4. /\ row \in AssetRow
        /\ row.status = "uploaded" /\ row.gallery = asset[f.id].gallery
        /\ row.ver = asset[f.id].ver + 1 /\ row.why = asset[f.id].why
    BY <2>3, WriteRow DEF AssetStatuses
  <2>5. /\ published \subseteq published' /\ ProcessKey(f.id) \in published'
        /\ original[f.id] = "none" => f.id \in swept
        /\ row.why = "missing" => f.id \in swept
    BY <2>1, <2>2, <2>3, <2>4 DEF OnlySwept, Known, MediaInv, AssetsOK
  <2> HIDE DEF row, f
  <2>6. AssetsOK' /\ Moves /\ ImagesStay
    BY <1>1, <2>1, <2>2, <2>3, <2>4, <2>5, RowWritten
  <2> QED
    BY <1>1, <2>6, NothingKnown, MediaKeeps
<1> QED
  BY <1>2, <1>3

LEMMA RejectOversizedStep ==
  ASSUME MediaInv, NEW c \in Clients, RejectOversized(c)
  PROVE  MediaInv' /\ ImagesStay
<1> DEFINE f == call[c]
           drop == [op |-> "drop", id |-> f.id]
<1>1. /\ f.op = "reject"
      /\ UNCHANGED <<published, original, processed, target, process, sweep, swept>>
  BY DEF RejectOversized, workerVars, sweepVars
<1>2. \/ call' = [call EXCEPT ![c] = Idle] /\ UNCHANGED <<asset, aged>>
      \/ Current(f.id, f.ver) /\ Reject(f.id, "image") /\ call' = [call EXCEPT ![c] = drop]
  BY DEF RejectOversized, Return, Proceed
<1>3. CASE call' = [call EXCEPT ![c] = Idle] /\ UNCHANGED <<asset, aged>>
  <2>1. AssetsOK'
    BY <1>1, <1>3 DEF MediaInv, AssetsOK
  <2> QED
    BY <1>1, <1>3, <2>1, QuietMoves, NothingKnown, MediaKeeps
<1>4. CASE Current(f.id, f.ver) /\ Reject(f.id, "image") /\ call' = [call EXCEPT ![c] = drop]
  <2> DEFINE row == [Write(asset[f.id], "rejected") EXCEPT !.why = "image"]
  <2>1. asset' = [asset EXCEPT ![f.id] = row] /\ aged' = aged \ {f.id}
    BY <1>4 DEF Reject
  <2>2. Known(f, asset, {"pending"})
    BY <1>1 DEF MediaInv, RequestsOK, RequestKnows
  <2>3. /\ f.id \in AssetIds /\ asset[f.id] \in AssetRow
        /\ asset[f.id].status = "pending"
    BY <1>4, <2>2 DEF Known, Current, Fresh, MediaInv, AssetsOK
  <2>4. /\ row \in AssetRow
        /\ row.status = "rejected" /\ row.gallery = asset[f.id].gallery
        /\ row.ver = asset[f.id].ver + 1 /\ row.why = "image"
    BY <2>3, RejectRow
  <2> HIDE DEF row, f
  <2>5. AssetsOK' /\ Moves /\ ImagesStay /\ asset'[f.id] = row
    BY <1>1, <1>4, <2>1, <2>2, <2>3, <2>4, RowWritten
  <2>6. RequestKnows(drop, asset', original', swept')
    BY <2>3, <2>4, <2>5 DEF RequestKnows, Decided
  <2> HIDE DEF drop
  <2> QED
    BY <1>1, <1>4, <2>5, <2>6, MediaKeeps
<1> QED
  BY <1>2, <1>3, <1>4

LEMMA DropOversizedStep ==
  ASSUME MediaInv, NEW c \in Clients, DropOversized(c)
  PROVE  MediaInv' /\ ImagesStay
<1>1. /\ call[c].op = "drop" /\ call' = [call EXCEPT ![c] = Idle] /\ DropObject(call[c].id)
      /\ UNCHANGED <<published, asset, processed, target, aged, process, sweep, swept>>
  BY DEF DropOversized, Return, workerVars, sweepVars
<1>2. call[c].id \in AssetIds /\ asset[call[c].id].status \in Decided
  BY <1>1 DEF MediaInv, RequestsOK, RequestKnows
<1>3. AssetsOK' /\ Moves /\ ImagesStay
  BY <1>1, <1>2, ObjectDropped
<1> QED
  BY <1>1, <1>3, NothingKnown, MediaKeeps

LEMMA UploadStep ==
  ASSUME MediaInv, NEW a \in AssetIds, Upload(a) \/ TargetExpires(a) \/ DayPasses(a)
  PROVE  MediaInv' /\ ImagesStay
<1>1. UNCHANGED <<call, published, asset, processed, process, sweep, swept>>
  BY DEF Upload, TargetExpires, DayPasses, workerVars, sweepVars
<1>2. CASE Upload(a)
  <2>1. PICK bytes \in {"good", "bad", "big"} : original' = [original EXCEPT ![a] = bytes]
    BY <1>2 DEF Upload
  <2>2. a \in target /\ UNCHANGED <<target, aged>>
    BY <1>2 DEF Upload
  <2>3. DOMAIN original = AssetIds
    BY DEF MediaInv, AssetsOK
  <2>4. DOMAIN original' = AssetIds /\ \A b \in AssetIds : original'[b] = IF b = a THEN bytes ELSE original[b]
    BY <2>1, <2>3
  <2>5. AssetsOK'
    BY <1>1, <2>2, <2>4 DEF MediaInv, AssetsOK
  <2>6. Moves
    BY <1>1, <2>2, <2>4, RowsStay DEF Moves, ObjectsMove, TargetsMove
  <2> QED
    BY <1>1, <2>5, <2>6, RowsStay, MediaKeeps
<1>3. CASE TargetExpires(a)
  <2>1. target' = target \ {a} /\ UNCHANGED <<original, aged>>
    BY <1>3 DEF TargetExpires
  <2>2. AssetsOK'
    BY <1>1, <2>1 DEF MediaInv, AssetsOK
  <2>3. Moves
    BY <1>1, <2>1, RowsStay DEF Moves, ObjectsMove, TargetsMove
  <2> QED
    BY <1>1, <2>2, <2>3, RowsStay, MediaKeeps
<1>4. CASE DayPasses(a)
  <2>1. /\ asset[a].status \in {"pending", "rejected"} /\ a \notin target
        /\ aged' = aged \cup {a} /\ UNCHANGED <<original, target>>
    BY <1>4 DEF DayPasses
  <2>2. AssetsOK'
    BY <1>1, <2>1 DEF MediaInv, AssetsOK
  <2> QED
    BY <1>1, <2>1, <2>2, QuietMoves, MediaKeeps
<1> QED
  BY <1>2, <1>3, <1>4

\* A run that goes on with what it has read, and one that writes nothing.
LEMMA RunReads ==
  ASSUME MediaInv, NEW w \in Processors, NEW r, process' = [process EXCEPT ![w] = r],
         RunKnows(r, asset, processed', swept), processed \subseteq processed',
         UNCHANGED <<call, published, asset, original, target, aged, sweep, swept>>
  PROVE  MediaInv' /\ ImagesStay
<1>1. AssetsOK'
  BY DEF MediaInv, AssetsOK
<1> QED
  BY <1>1, QuietMoves, MediaKeeps

LEMMA ProcessReadStep ==
  ASSUME MediaInv, NEW w \in Processors, NEW a \in AssetIds, ProcessRead(w, a)
  PROVE  MediaInv' /\ ImagesStay
<1> DEFINE op == CASE asset[a].status = "uploaded" -> "mark" [] asset[a].status = "processing" -> "get"
                   [] OTHER -> "done"
           r == [op |-> op, id |-> a, ver |-> asset[a].ver]
<1>1. /\ process' = [process EXCEPT ![w] = r]
      /\ UNCHANGED <<call, published, asset, original, processed, target, aged, sweep, swept>>
  BY DEF ProcessRead, Run, storeVars, sweepVars
<1>2. r.op = op /\ r.id = a /\ r.ver = asset[a].ver
  OBVIOUS
<1>3. \/ asset[a].status = "uploaded" /\ op = "mark"
      \/ asset[a].status = "processing" /\ op = "get"
      \/ op = "done"
  OBVIOUS
<1> HIDE DEF r, op
<1>4. asset[a].status # "none" => Known(r, asset, {asset[a].status})
  BY <1>2, ReadNow DEF MediaInv
<1>5. RunKnows(r, asset, processed, swept)
  BY <1>2, <1>3, <1>4 DEF RunKnows
<1> QED
  BY <1>1, <1>5, RunReads

LEMMA MarkProcessingStep ==
  ASSUME MediaInv, NEW w \in Processors, MarkProcessing(w)
  PROVE  MediaInv' /\ ImagesStay
<1> DEFINE f == process[w]
           r == [op |-> "get", id |-> f.id, ver |-> f.ver + 1]
           row == Write(asset[f.id], "processing")
<1>1. /\ f.op = "mark"
      /\ UNCHANGED <<call, published, original, processed, target, aged, sweep, swept>>
  BY DEF MarkProcessing, sweepVars
<1>2. \/ process' = [process EXCEPT ![w] = NoRun] /\ UNCHANGED asset
      \/ /\ Current(f.id, f.ver) /\ asset' = [asset EXCEPT ![f.id] = row]
         /\ process' = [process EXCEPT ![w] = r]
  BY DEF MarkProcessing, SetStatus, Run, Retry
<1>3. CASE process' = [process EXCEPT ![w] = NoRun] /\ UNCHANGED asset
  BY <1>1, <1>3, NothingKnown, RunReads
<1>4. CASE /\ Current(f.id, f.ver) /\ asset' = [asset EXCEPT ![f.id] = row]
           /\ process' = [process EXCEPT ![w] = r]
  <2>1. Known(f, asset, {"uploaded"})
    BY <1>1 DEF MediaInv, RunsOK, RunKnows
  <2>2. /\ f.id \in AssetIds /\ asset[f.id] \in AssetRow /\ f.ver \in Nat
        /\ asset[f.id].status = "uploaded" /\ asset[f.id].ver = f.ver
    BY <1>4, <2>1 DEF Known, Current, Fresh, MediaInv, AssetsOK
  <2>3. /\ row \in AssetRow
        /\ row.status = "processing" /\ row.gallery = asset[f.id].gallery
        /\ row.ver = asset[f.id].ver + 1 /\ row.why = asset[f.id].why
    BY <2>2, WriteRow DEF AssetStatuses
  <2>4. /\ ProcessKey(f.id) \in published /\ (original[f.id] = "none" => f.id \in swept)
        /\ row.why = "missing" => f.id \in swept
    BY <2>2, <2>3 DEF MediaInv, AssetsOK
  <2>5. r.op = "get" /\ r.id = f.id /\ r.ver = f.ver + 1
    OBVIOUS
  <2> HIDE DEF row, f, r
  <2>6. AssetsOK' /\ Moves /\ ImagesStay /\ asset'[f.id] = row
    BY <1>1, <1>4, <2>1, <2>2, <2>3, <2>4, RowWritten
  <2>7. Known(r, asset', {"processing"})
    BY <2>2, <2>3, <2>5, <2>6 DEF Known
  <2>8. RunKnows(r, asset', processed', swept')
    BY <2>5, <2>7 DEF RunKnows
  <2> QED
    BY <1>1, <1>4, <2>6, <2>8, MediaKeeps
<1> QED
  BY <1>2, <1>3, <1>4

LEMMA InspectStep ==
  ASSUME MediaInv, NEW w \in Processors, Inspect(w)
  PROVE  MediaInv' /\ ImagesStay
<1> DEFINE f == process[w]
           put == [op |-> "put", id |-> f.id, ver |-> f.ver]
           Refused(verdict) == [op |-> "reject", id |-> f.id, ver |-> f.ver, why |-> verdict]
<1>1. /\ f.op = "get"
      /\ UNCHANGED <<call, published, asset, original, processed, target, aged, sweep, swept>>
  BY DEF Inspect, storeVars, sweepVars
<1>2. PICK verdict \in Verdicts(original[f.id]) :
        \/ process' = [process EXCEPT ![w] = put]
        \/ process' = [process EXCEPT ![w] = NoRun]
        \/ verdict # "clean" /\ verdict # "unavailable" /\ process' = [process EXCEPT ![w] = Refused(verdict)]
  BY DEF Inspect, Goes, Run, Retry
<1>3. Known(f, asset, {"processing"})
  BY <1>1 DEF MediaInv, RunsOK, RunKnows
<1>4. CASE process' = [process EXCEPT ![w] = put]
  <2>1. put.op = "put" /\ put.id = f.id /\ put.ver = f.ver
    OBVIOUS
  <2> HIDE DEF put, f
  <2>2. RunKnows(put, asset, processed, swept)
    BY <1>3, <2>1 DEF RunKnows, Known
  <2> QED
    BY <1>1, <1>4, <2>2, RunReads
<1>5. CASE process' = [process EXCEPT ![w] = NoRun]
  BY <1>1, <1>5, NothingKnown, RunReads
<1>6. CASE verdict # "clean" /\ verdict # "unavailable" /\ process' = [process EXCEPT ![w] = Refused(verdict)]
  <2> DEFINE r == Refused(verdict)
  <2>1. r.op = "reject" /\ r.id = f.id /\ r.ver = f.ver /\ r.why = verdict
    OBVIOUS
  <2>2. verdict \in {"image", "missing"} /\ (verdict = "missing" => original[f.id] = "none")
    BY <1>2, <1>6 DEF Verdicts, ScannerAnswers, IsImage
  <2>3. process' = [process EXCEPT ![w] = r]
    BY <1>6
  <2>4. original[f.id] = "none" /\ f.ver = asset[f.id].ver => f.id \in swept
    BY <1>3 DEF Known, MediaInv, AssetsOK
  <2> HIDE DEF r, f
  <2>5. RunKnows(r, asset, processed, swept)
    BY <1>3, <2>1, <2>2, <2>4 DEF RunKnows, Known
  <2> QED
    BY <1>1, <2>3, <2>5, RunReads
<1> QED
  BY <1>2, <1>4, <1>5, <1>6

LEMMA PutProcessedStep ==
  ASSUME MediaInv, NEW w \in Processors, PutProcessed(w)
  PROVE  MediaInv' /\ ImagesStay
<1> DEFINE f == process[w]
           r == [op |-> "ready", id |-> f.id, ver |-> f.ver]
<1>1. /\ f.op = "put" /\ process' = [process EXCEPT ![w] = r]
      /\ processed' = processed \cup {f.id}
      /\ UNCHANGED <<call, published, asset, original, target, aged, sweep, swept>>
  BY DEF PutProcessed, Goes, Run, sweepVars
<1>2. r.op = "ready" /\ r.id = f.id /\ r.ver = f.ver
  OBVIOUS
<1>3. Known(f, asset, {"processing"})
  BY <1>1 DEF MediaInv, RunsOK, RunKnows
<1> HIDE DEF r, f
<1>4. RunKnows(r, asset, processed', swept)
  BY <1>1, <1>2, <1>3 DEF RunKnows, Known
<1> QED
  BY <1>1, <1>4, RunReads

LEMMA MarkReadyStep ==
  ASSUME MediaInv, NEW w \in Processors, MarkReady(w)
  PROVE  MediaInv' /\ ImagesStay
<1> DEFINE f == process[w]
           r == [op |-> "drop", id |-> f.id, ver |-> f.ver]
           row == Write(asset[f.id], "ready")
<1>1. /\ f.op = "ready"
      /\ UNCHANGED <<call, published, original, processed, target, aged, sweep, swept>>
  BY DEF MarkReady, sweepVars
<1>2. \/ process' = [process EXCEPT ![w] = NoRun] /\ UNCHANGED asset
      \/ /\ Current(f.id, f.ver) /\ asset' = [asset EXCEPT ![f.id] = row]
         /\ process' = [process EXCEPT ![w] = r]
  BY DEF MarkReady, SetStatus, Goes, Run, Retry
<1>3. CASE process' = [process EXCEPT ![w] = NoRun] /\ UNCHANGED asset
  BY <1>1, <1>3, NothingKnown, RunReads
<1>4. CASE /\ Current(f.id, f.ver) /\ asset' = [asset EXCEPT ![f.id] = row]
           /\ process' = [process EXCEPT ![w] = r]
  <2>1. Known(f, asset, {"processing"}) /\ f.id \in processed
    BY <1>1 DEF MediaInv, RunsOK, RunKnows
  <2>2. /\ f.id \in AssetIds /\ asset[f.id] \in AssetRow
        /\ asset[f.id].status = "processing"
    BY <1>4, <2>1 DEF Known, Current, Fresh, MediaInv, AssetsOK
  <2>3. /\ row \in AssetRow
        /\ row.status = "ready" /\ row.gallery = asset[f.id].gallery
        /\ row.ver = asset[f.id].ver + 1 /\ row.why = asset[f.id].why
    BY <2>2, WriteRow DEF AssetStatuses
  <2>4. row.why = "missing" => f.id \in swept
    BY <2>2, <2>3 DEF MediaInv, AssetsOK
  <2>5. r.op = "drop" /\ r.id = f.id
    OBVIOUS
  <2> HIDE DEF row, f, r
  <2>6. AssetsOK' /\ Moves /\ ImagesStay /\ asset'[f.id] = row
    BY <1>1, <1>4, <2>1, <2>2, <2>3, <2>4, RowWritten
  <2>7. RunKnows(r, asset', processed', swept')
    BY <2>2, <2>3, <2>5, <2>6 DEF RunKnows, Decided
  <2> QED
    BY <1>1, <1>4, <2>6, <2>7, MediaKeeps
<1> QED
  BY <1>2, <1>3, <1>4

LEMMA RejectAndCompleteStep ==
  ASSUME MediaInv, NEW w \in Processors, RejectAndComplete(w)
  PROVE  MediaInv' /\ ImagesStay
<1> DEFINE f == process[w]
           r == [op |-> "drop", id |-> f.id]
           row == [Write(asset[f.id], "rejected") EXCEPT !.why = f.why]
<1>1. /\ f.op = "reject"
      /\ UNCHANGED <<call, published, original, processed, target, sweep, swept>>
  BY DEF RejectAndComplete, sweepVars
<1>2. \/ process' = [process EXCEPT ![w] = NoRun] /\ UNCHANGED <<asset, aged>>
      \/ /\ Current(f.id, f.ver) /\ asset' = [asset EXCEPT ![f.id] = row] /\ aged' = aged \ {f.id}
         /\ process' = [process EXCEPT ![w] = r]
  BY DEF RejectAndComplete, Reject, Run, Retry
<1>3. CASE process' = [process EXCEPT ![w] = NoRun] /\ UNCHANGED <<asset, aged>>
  BY <1>1, <1>3, NothingKnown, RunReads
<1>4. CASE /\ Current(f.id, f.ver) /\ asset' = [asset EXCEPT ![f.id] = row] /\ aged' = aged \ {f.id}
           /\ process' = [process EXCEPT ![w] = r]
  <2>1. /\ Known(f, asset, {"processing"}) /\ f.why \in {"image", "missing"}
        /\ f.why = "missing" /\ f.ver = asset[f.id].ver => f.id \in swept
    BY <1>1 DEF MediaInv, RunsOK, RunKnows
  <2>2. /\ f.id \in AssetIds /\ asset[f.id] \in AssetRow
        /\ asset[f.id].status = "processing" /\ asset[f.id].ver = f.ver
    BY <1>4, <2>1 DEF Known, Current, Fresh, MediaInv, AssetsOK
  <2>3. /\ row \in AssetRow
        /\ row.status = "rejected" /\ row.gallery = asset[f.id].gallery
        /\ row.ver = asset[f.id].ver + 1 /\ row.why = f.why
    BY <2>1, <2>2, RejectRow
  <2>4. r.op = "drop" /\ r.id = f.id
    OBVIOUS
  <2> HIDE DEF row, f, r
  <2>5. AssetsOK' /\ Moves /\ ImagesStay /\ asset'[f.id] = row
    BY <1>1, <1>4, <2>1, <2>2, <2>3, RowWritten
  <2>6. RunKnows(r, asset', processed', swept')
    BY <2>2, <2>3, <2>4, <2>5 DEF RunKnows, Decided
  <2> QED
    BY <1>1, <1>4, <2>5, <2>6, MediaKeeps
<1> QED
  BY <1>2, <1>3, <1>4

LEMMA DropOriginalStep ==
  ASSUME MediaInv, NEW w \in Processors, DropOriginal(w)
  PROVE  MediaInv' /\ ImagesStay
<1> DEFINE f == process[w]
           r == [op |-> "done", id |-> f.id]
<1>1. /\ f.op = "drop" /\ process' = [process EXCEPT ![w] = r]
      /\ UNCHANGED <<call, published, asset, processed, target, aged, sweep, swept>>
      /\ DropObject(f.id) \/ UNCHANGED original
  BY DEF DropOriginal, Run, sweepVars
<1>2. f.id \in AssetIds /\ asset[f.id].status \in Decided
  BY <1>1 DEF MediaInv, RunsOK, RunKnows
<1>3. \A made : RunKnows(r, asset, made, swept)
  BY <1>2 DEF RunKnows
<1> HIDE DEF r, f
<1>4. CASE DropObject(f.id)
  <2>1. AssetsOK' /\ Moves /\ ImagesStay
    BY <1>1, <1>2, <1>4, ObjectDropped
  <2> QED
    BY <1>1, <1>3, <2>1, MediaKeeps
<1>5. CASE UNCHANGED original
  BY <1>1, <1>3, <1>5, RunReads
<1> QED
  BY <1>1, <1>4, <1>5

LEMMA RunEndsStep ==
  ASSUME MediaInv, NEW w \in Processors, Complete(w) \/ RunLost(w)
  PROVE  MediaInv' /\ ImagesStay
<1>1. /\ process' = [process EXCEPT ![w] = NoRun]
      /\ UNCHANGED <<call, published, asset, original, processed, target, aged, sweep, swept>>
  BY DEF Complete, RunLost, Retry, Run, storeVars, sweepVars
<1> QED
  BY <1>1, NothingKnown, RunReads

LEMMA SweepListStep ==
  ASSUME MediaInv, SweepList
  PROVE  MediaInv' /\ ImagesStay
<1> DEFINE Found(a) == [op |-> "drop", id |-> a, ver |-> asset[a].ver]
<1>1. /\ sweep = Resting /\ sweep' = [sweep EXCEPT !.left = {Found(a) : a \in Reclaimable}]
      /\ UNCHANGED <<call, published, asset, original, processed, target, aged, process, swept>>
  BY DEF SweepList, storeVars, workerVars
<1>2. ASSUME NEW a \in Reclaimable
      PROVE  Listed(Found(a), asset, target)
  <2> DEFINE f == Found(a)
  <2>1. f.op = "drop" /\ f.id = a /\ f.ver = asset[a].ver
    OBVIOUS
  <2> HIDE DEF f
  <2>2. asset[a].status \in {"pending", "rejected"} /\ a \in aged
    BY DEF Reclaimable
  <2>3. a \in AssetIds /\ a \notin target
    BY <2>2 DEF MediaInv, AssetsOK
  <2>4. Known(f, asset, {asset[a].status})
    BY <2>1, <2>2, <2>3, ReadNow DEF MediaInv
  <2>5. Listed(f, asset, target)
    BY <2>1, <2>2, <2>3, <2>4 DEF Listed, Known
  <2> QED
    BY <2>5 DEF f
<1>3. sweep'.left = {Found(a) : a \in Reclaimable} /\ sweep'.row = NoRun
      /\ sweep' = [left |-> sweep'.left, row |-> sweep'.row]
  BY <1>1 DEF Resting
<1> HIDE DEF Found
<1>4. SweepOK'
  BY <1>1, <1>2, <1>3 DEF SweepOK
<1>5. AssetsOK'
  BY <1>1 DEF MediaInv, AssetsOK
<1> QED
  BY <1>1, <1>4, <1>5, QuietMoves, MediaKeeps

LEMMA SweepDropStep ==
  ASSUME MediaInv, SweepDrop
  PROVE  MediaInv' /\ ImagesStay
<1>1. PICK row \in sweep.left :
        /\ sweep' = [left |-> sweep.left \ {row}, row |-> row]
        /\ DropObject(row.id) /\ swept' = swept \cup {row.id}
  BY DEF SweepDrop
<1>2. UNCHANGED <<call, published, asset, processed, target, aged, process>>
  BY DEF SweepDrop, workerVars
<1>3. Listed(row, asset, target) /\ row.id \in AssetIds
  BY DEF MediaInv, SweepOK, Listed, Known
<1>4. AssetsOK' /\ Moves /\ ImagesStay
  BY <1>1, <1>2, <1>3, ObjectDropped
<1>5. SweepOK'
  <2>1. original'[row.id] = "none"
    BY <1>1, <1>3 DEF DropObject, MediaInv, AssetsOK
  <2> QED
    BY <1>1, <1>2, <1>3, <2>1 DEF MediaInv, SweepOK
<1> QED
  BY <1>2, <1>4, <1>5, MediaKeeps

LEMMA RestingOK == sweep' = Resting => SweepOK'
BY DEF SweepOK, Resting

LEMMA SweepDeleteStep ==
  ASSUME MediaInv, SweepDelete
  PROVE  MediaInv' /\ ImagesStay
<1> DEFINE f == sweep.row
           row == Write(asset[f.id], "deleted")
<1>1. /\ f # NoRun
      /\ UNCHANGED <<call, published, original, processed, target, aged, process, swept>>
  BY DEF SweepDelete, workerVars
<1>2. \/ sweep' = Resting /\ UNCHANGED asset
      \/ /\ Current(f.id, f.ver) /\ asset' = [asset EXCEPT ![f.id] = row]
         /\ sweep' = [sweep EXCEPT !.row = NoRun]
  BY DEF SweepDelete, SetStatus
<1>3. CASE sweep' = Resting /\ UNCHANGED asset
  <2>1. AssetsOK'
    BY <1>1, <1>3 DEF MediaInv, AssetsOK
  <2> QED
    BY <1>1, <1>3, <2>1, RestingOK, QuietMoves, MediaKeeps
<1>4. CASE /\ Current(f.id, f.ver) /\ asset' = [asset EXCEPT ![f.id] = row]
           /\ sweep' = [sweep EXCEPT !.row = NoRun]
  <2>1. Known(f, asset, {"pending", "rejected"}) /\ f.id \notin target /\ original[f.id] = "none"
    BY <1>1 DEF MediaInv, SweepOK, Listed
  <2>2. f.id \in AssetIds /\ asset[f.id] \in AssetRow
    BY <2>1 DEF Known, MediaInv, AssetsOK
  <2>3. /\ row \in AssetRow
        /\ row.status = "deleted" /\ row.gallery = asset[f.id].gallery
        /\ row.ver = asset[f.id].ver + 1 /\ row.why = asset[f.id].why
    BY <2>2, WriteRow DEF AssetStatuses
  <2>4. row.why = "missing" => f.id \in swept
    BY <2>2, <2>3 DEF MediaInv, AssetsOK
  <2>5. sweep' = [left |-> sweep.left, row |-> NoRun]
    BY <1>4 DEF MediaInv, SweepOK
  <2> HIDE DEF row, f
  <2>6. AssetsOK' /\ Moves /\ ImagesStay
    BY <1>1, <1>4, <2>1, <2>3, <2>4, RowWritten
  <2>7. SweepOK'
    <3>1. \A r \in sweep.left : Listed(r, asset', target')
      BY <2>6, ListedStays DEF MediaInv, SweepOK, AssetsOK, Moves
    <3> QED
      BY <2>5, <3>1 DEF SweepOK
  <2> QED
    BY <1>1, <2>6, <2>7, MediaKeeps
<1> QED
  BY <1>2, <1>3, <1>4

LEMMA SweepLostStep ==
  ASSUME MediaInv, SweepLost
  PROVE  MediaInv' /\ ImagesStay
<1>1. /\ sweep' = Resting
      /\ UNCHANGED <<call, published, asset, original, processed, target, aged, process, swept>>
  BY DEF SweepLost, storeVars, workerVars
<1>2. AssetsOK'
  BY <1>1 DEF MediaInv, AssetsOK
<1> QED
  BY <1>1, <1>2, RestingOK, QuietMoves, MediaKeeps

LEMMA AbandonImageStep ==
  ASSUME MediaInv, NEW c \in Clients, AbandonImage(c)
  PROVE  MediaInv' /\ ImagesStay
<1>1. call' = [call EXCEPT ![c] = Idle] /\ UNCHANGED <<published, mediaVars>>
  BY DEF AbandonImage, Return
<1> QED
  BY <1>1, NothingKnown, RequestReads

LEMMA ImagesStep ==
  ASSUME MediaInv, MediaNext \/ \E c \in Clients : AbandonImage(c)
  PROVE  MediaInv' /\ ImagesStay
<1>1. CASE \E c \in Clients : MediaRequests(c) \/ AbandonImage(c)
  <2>1. PICK c \in Clients : MediaRequests(c) \/ AbandonImage(c)
    BY <1>1
  <2> QED
    BY <2>1, CreateListingImageStep, AttachListingStep, AttachToListingStep, PrepareMediaStep,
       ConfirmUploadStep, ConfirmStatStep, CommitUploadedStep, RejectOversizedStep, DropOversizedStep,
       AbandonImageStep DEF MediaRequests
<1>2. CASE \E w \in Processors : Process(w) \/ RunLost(w)
  <2>1. PICK w \in Processors : Process(w) \/ RunLost(w)
    BY <1>2
  <2> QED
    BY <2>1, ProcessReadStep, MarkProcessingStep, InspectStep, PutProcessedStep, MarkReadyStep,
       RejectAndCompleteStep, DropOriginalStep, RunEndsStep DEF Process
<1>3. CASE SweepList \/ SweepDrop \/ SweepDelete \/ SweepLost
  BY <1>3, SweepListStep, SweepDropStep, SweepDeleteStep, SweepLostStep
<1> QED
  BY <1>1, <1>2, <1>3, UploadStep DEF MediaNext

-----------------------------------------------------------------------------
(* Verification messages *)

Settled == {"accepted", "permanent"}

\* What a worker has heard from the provider was answered.
DeliveryInv ==
  /\ DOMAIN run = Relays
  /\ \A w \in Relays :
       /\ run[w].op = "save" => run[w].answer \in answers
       /\ run[w].op = "handled" => answers \cap Settled # {}
  /\ V!CompletedMeansAnswered

LEMMA MessagesStep == DeliveryInv /\ V!Next => DeliveryInv'
<1> SUFFICES ASSUME DeliveryInv, V!Next
             PROVE  DeliveryInv'
  OBVIOUS
<1> USE DEF DeliveryInv, V!CompletedMeansAnswered, Settled
<1>1. CASE V!Expire
  BY <1>1 DEF V!Expire
<1>2. ASSUME NEW w \in Relays, V!Upsert(w)
      PROVE  DeliveryInv'
  <2>1. /\ status' = status \/ status' = "pending"
        /\ \E op \in {"handled", "resolve"} :
             /\ op = "handled" => status = "sent"
             /\ run' = [run EXCEPT ![w] = [op |-> op, answer |-> "none"]]
        /\ UNCHANGED <<event, answers>>
    BY <1>2 DEF V!Upsert, V!Goto
  <2> QED
    BY <2>1
<1>3. ASSUME NEW w \in Relays, V!Resolve(w) \/ V!Complete(w) \/ V!RunLost(w)
      PROVE  DeliveryInv'
  <2>1. /\ \E op \in {"send", "idle"} : run' = [run EXCEPT ![w] = [op |-> op, answer |-> "none"]]
        /\ event' = event \/ (run[w].op = "handled" /\ event' = "completed")
        /\ UNCHANGED <<status, answers>>
    BY <1>3 DEF V!Resolve, V!Complete, V!RunLost, V!Goto, V!Idle
  <2> QED
    BY <2>1
<1>4. ASSUME NEW w \in Relays, V!Send(w)
      PROVE  DeliveryInv'
  <2>1. PICK answer : /\ run' = [run EXCEPT ![w] = [op |-> "save", answer |-> answer]]
                      /\ answers' = answers \cup {answer}
    BY <1>4 DEF V!Send
  <2>2. UNCHANGED <<event, status>>
    BY <1>4 DEF V!Send
  <2> QED
    BY <2>1, <2>2
<1>5. ASSUME NEW w \in Relays, V!Save(w)
      PROVE  DeliveryInv'
  <2>1. run[w].answer \in answers /\ UNCHANGED <<event, answers>>
    BY <1>5 DEF V!Save
  <2>2. status' = IF run[w].answer = "accepted" THEN "sent" ELSE "failed"
    BY <1>5 DEF V!Save, V!StatusOf
  <2>3. \/ run[w].answer \in Settled /\ run' = [run EXCEPT ![w] = [op |-> "handled", answer |-> "none"]]
        \/ run' = [run EXCEPT ![w] = [op |-> "idle", answer |-> "none"]]
    BY <1>5 DEF V!Save, V!Settles, V!Goto, V!Idle
  <2> QED
    BY <2>1, <2>2, <2>3
<1> QED
  BY <1>1, <1>2, <1>3, <1>4, <1>5 DEF V!Next, V!Work

-----------------------------------------------------------------------------
(* The work of the relay's workers *)

\* Only the part a behaviour is one of moves, so that in the others the images
\* are as they started.
BackgroundInv ==
  /\ IF part = "media" THEN MediaInv ELSE MediaInit
  /\ DeliveryInv

LEMMA MediaStarts == Init /\ MediaInit => MediaInv
<1> SUFFICES ASSUME Init, MediaInit
             PROVE  MediaInv
  OBVIOUS
<1>1. /\ asset = [a \in AssetIds |-> NoAsset] /\ original = [a \in AssetIds |-> "none"]
      /\ target = {} /\ aged = {} /\ process = [w \in Processors |-> NoRun] /\ sweep = Resting
  BY DEF MediaInit
<1>2. AssetsOK
  BY <1>1 DEF AssetsOK, AssetRow, AssetStatuses, NoAsset
<1>3. call = [c \in Clients |-> Idle]
  BY DEF Init
<1>4. RequestsOK /\ RunsOK
  BY <1>1, <1>3, NothingKnown DEF RequestsOK, RunsOK
<1>5. SweepOK
  BY <1>1 DEF SweepOK, Resting
<1> QED
  BY <1>2, <1>4, <1>5 DEF MediaInv

LEMMA BackgroundStarts == BackgroundInit => BackgroundInv
<1> SUFFICES ASSUME BackgroundInit
             PROVE  BackgroundInv
  OBVIOUS
<1>1. Init /\ MediaInit /\ V!Init
  BY DEF BackgroundInit
<1>2. DeliveryInv
  BY <1>1 DEF V!Init, V!Idle, DeliveryInv, V!CompletedMeansAnswered
<1> QED
  BY <1>1, <1>2, MediaStarts DEF BackgroundInv

LEMMA BackgroundStep ==
  BackgroundInv /\ [BackgroundNext]_allVars => BackgroundInv' /\ [ImagesStay]_allVars
<1> SUFFICES ASSUME BackgroundInv, [BackgroundNext]_allVars
             PROVE  BackgroundInv' /\ [ImagesStay]_allVars
  OBVIOUS
<1>1. UNCHANGED deliveryVars => DeliveryInv'
  BY DEF BackgroundInv, DeliveryInv, V!CompletedMeansAnswered, deliveryVars
<1>2. UNCHANGED mediaVars => (MediaInit <=> MediaInit')
  BY DEF MediaInit, mediaVars, storeVars, workerVars, sweepVars
<1>3. UNCHANGED mediaVars /\ UNCHANGED <<call, published>> => (MediaInv <=> MediaInv') /\ ImagesStay
  BY RowsStay DEF MediaInv, AssetsOK, RequestsOK, RunsOK, SweepOK, mediaVars, storeVars, workerVars, sweepVars
<1>4. UNCHANGED mediaVars => ImagesStay
  BY RowsStay DEF mediaVars, storeVars
<1>5. CASE onlySearch
  BY <1>1, <1>2, <1>4, <1>5 DEF onlySearch, BackgroundInv
<1>6. CASE onlyImages /\ (MediaNext \/ \E c \in Clients : AbandonImage(c))
  BY <1>1, <1>6, ImagesStep DEF onlyImages, BackgroundInv
<1>7. CASE onlyMessages /\ V!Next
  BY <1>2, <1>3, <1>7, MessagesStep DEF onlyMessages, BackgroundInv
<1>8. CASE UNCHANGED allVars
  BY <1>1, <1>2, <1>3, <1>8 DEF allVars, BackgroundInv
<1> QED
  BY <1>5, <1>6, <1>7, <1>8 DEF BackgroundNext

\* A ready image has its normalized object, a deleted one no original, an
\* uploaded one the event that gets it processed, and an image is rejected for
\* want of its object only after the sweeper deleted it: MarkReady, commitUploaded,
\* rejectAndComplete and SweepOrphans write rows and objects in this order.
THEOREM ImagesTellTheirStory == BackgroundSpec => []MediaStory
<1>1. MediaInv => MediaStory
  BY DEF MediaInv, AssetsOK, MediaStory
<1>2. MediaInit => MediaStory
  BY DEF MediaInit, NoAsset, MediaStory
<1>3. BackgroundInv => MediaStory
  BY <1>1, <1>2 DEF BackgroundInv
<1> QED
  BY <1>3, BackgroundStarts, BackgroundStep, PTL DEF BackgroundSpec

\* An image that was shown stays, one that was refused or deleted does not come
\* back and none moves to another listing: PostgresStore.update compares the
\* version under every write.
THEOREM ImageOutcomesStay == BackgroundSpec => ImageOutcomeIsFinal
BY BackgroundStarts, BackgroundStep, PTL DEF BackgroundSpec, ImageOutcomeIsFinal

\* The event of a verification is completed only after the provider accepted
\* the message or refused it for good, and its row says sent only after it
\* accepted: IntentHandler returns nil on no other answer.
THEOREM CompletionIsAnswered == BackgroundSpec => []CompletedMeansAnswered
<1>1. BackgroundInv => CompletedMeansAnswered
  BY DEF BackgroundInv, DeliveryInv, CompletedMeansAnswered
<1> QED
  BY <1>1, BackgroundStarts, BackgroundStep, PTL DEF BackgroundSpec

=============================================================================
