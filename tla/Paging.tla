------------------------------- MODULE Paging -------------------------------
(***************************************************************************)
(* The lists that are read page by page: the report queue and the cases    *)
(* (internal/moderation), the reviews of a listing (internal/reviews), the *)
(* search results (internal/search) and the inbox (internal/notifications).*)
(* A page ends with a cursor that names the sort key and the id of its     *)
(* last row; the next request starts behind it.  Nothing holds the list    *)
(* still in between.                                                       *)
(***************************************************************************)
EXTENDS Requests, FiniteSets

CONSTANTS
  Rows,          \* ids, which have an order
  MaxKey,        \* bound: sort keys are 1..MaxKey, so that two rows share one
  Limit,         \* rows of a page
  MaxChanges     \* bound: changes of the list during a walk

ASSUME PagingAssumption ==
  /\ IsFiniteSet(Rows) /\ Rows \subseteq Int
  /\ Limit \in Nat \ {0} /\ MaxKey \in Nat

VARIABLES
  list,        \* which of the lists
  order,       \* the order, or in search the mode, that the walk asks for
  key,         \* created_at, published_at or rank of each row; 0: not in the list
  cursor,      \* the cursor of the last page
  shown,       \* how often the walk has shown each row
  steady,      \* rows in the list, unchanged, since the walk began
  moved,       \* rows whose key has changed after they were shown
  changes

pagingVars == <<list, order, key, cursor, shown, steady, moved, changes>>

Lists == {"queue", "cases", "reviews", "search", "inbox"}

\* ParseQueueOrder; in search, whether there is a text decides.
Orders(l) == CASE l = "queue" -> {"newest", "oldest"}
               [] l = "search" -> {"time", "rank"}
               [] OTHER -> {"newest"}

Start == [at |-> "start"]
End == [at |-> "end"]

PagingInit ==
  /\ list \in Lists
  /\ order \in Orders(list)
  /\ key \in [Rows -> 0..MaxKey]
  /\ cursor = Start
  /\ shown = [r \in Rows |-> 0]
  /\ steady = {r \in Rows : key[r] # 0}
  /\ moved = {}
  /\ changes = 0

\* Nobody pages.
PagingDone ==
  /\ list = "inbox" /\ order = "newest"
  /\ key = [r \in Rows |-> 0] /\ shown = [r \in Rows |-> 0]
  /\ cursor = End
  /\ steady = {} /\ moved = {} /\ changes = 0

-----------------------------------------------------------------------------
\* compareQueue, and (created_at, id) < ($2, $3) in the others
Less(k, r, j, q) == k < j \/ (k = j /\ r < q)

\* ORDER BY
Before(o, q, r) == IF o = "oldest" THEN Less(key[q], q, key[r], r) ELSE Less(key[r], r, key[q], q)

\* Mutant: the cursor's id is not used, so rows with the key of the last row are skipped.
BehindByKey(o, r) ==
  CASE cursor = Start -> TRUE
    [] cursor # Start /\ o = "oldest" -> cursor.key < key[r]
    [] OTHER -> key[r] < cursor.key

\* The condition on the cursor
Behind(o, r) ==
  CASE cursor = Start -> TRUE
    [] cursor # Start /\ o = "oldest" -> Less(cursor.key, cursor.id, key[r], r)
    [] OTHER -> Less(key[r], r, cursor.key, cursor.id)

\* LIMIT: at most n rows, the first in the order
FirstRows(o, n, S) == {r \in S : Cardinality({q \in S : Before(o, q, r)}) < n}

LastRow(o, S) == CHOOSE r \in S : \A q \in S \ {r} : Before(o, q, r)

\* The rows that a query finds: those behind the cursor, in the order, n at most
Select(o, n) == FirstRows(o, n, {r \in Rows : key[r] # 0 /\ Behind(o, r)})

\* What comes back from a cursor that went out: the sort key and the id of the
\* row, and the order, the search mode or the listing it was made for.
CursorOf(o, r) == [at |-> "row", order |-> o, key |-> key[r], id |-> r]

\* encodeQueueCursor, decodeQueueCursor: a cursor of the other order is refused.
QueueCursor(r, o) == CursorOf(o, r)
\* encodeCaseCursor, decodeCaseCursor
CaseCursor(r) == CursorOf("newest", r)
\* encodePublicCursor, decodePublicCursor: one of another listing is refused.
PublicCursor(r) == CursorOf("newest", r)
\* encodeCursor, decodeCursor: published_at or the rank
SearchCursor(r, o) == CursorOf(o, r)
\* encodeInboxCursor, decodeInboxCursor
InboxCursor(r) == CursorOf("newest", r)

\* normalizeQueueQuery, Query.normalize: the cursor is one of this order or mode.
CursorFits(o) == cursor # Start => cursor.order = o

-----------------------------------------------------------------------------
(* The pages of the five lists: their rows, and the cursor or the end *)

\* PostgresStore.ListQueue, and the others
QueueRows(o) == Select(o, Limit)
CaseRows == Select("newest", Limit)
ReviewRows == Select("newest", Limit + 1)
HitRows(o) == Select(o, Limit + 1)
InboxRows == Select("newest", Limit + 1)

\* Service.ListQueue: a full page has a cursor.
QueuePage(o) ==
  [rows |-> QueueRows(o),
   next |-> IF Cardinality(QueueRows(o)) = Limit THEN QueueCursor(LastRow(o, QueueRows(o)), o) ELSE End]

\* Service.ListCases: likewise.
CasePage ==
  [rows |-> CaseRows,
   next |-> IF Cardinality(CaseRows) = Limit THEN CaseCursor(LastRow("newest", CaseRows)) ELSE End]

\* Service.ListPublicForListing: one row more was asked for, and is cut off.
ReviewPage ==
  LET page == FirstRows("newest", Limit, ReviewRows)
  IN [rows |-> page,
      next |-> IF Cardinality(ReviewRows) > Limit THEN PublicCursor(LastRow("newest", page)) ELSE End]

\* Service.SearchListings: likewise.
SearchPage(o) ==
  LET page == FirstRows(o, Limit, HitRows(o))
  IN [rows |-> page,
      next |-> IF Cardinality(HitRows(o)) > Limit THEN SearchCursor(LastRow(o, page), o) ELSE End]

\* ConsumerService.ListInbox: likewise.
InboxPage ==
  LET page == FirstRows("newest", Limit, InboxRows)
  IN [rows |-> page,
      next |-> IF Cardinality(InboxRows) > Limit THEN InboxCursor(LastRow("newest", page)) ELSE End]

PageOf(o) ==
  CASE list = "queue" -> QueuePage(o)
    [] list = "cases" -> CasePage
    [] list = "reviews" -> ReviewPage
    [] list = "search" -> SearchPage(o)
    [] list = "inbox" -> InboxPage

\* A request for the next page, in the order that the client now asks for.
NextPage(o) ==
  /\ cursor # End
  /\ o \in Orders(list)
  /\ CursorFits(o)
  /\ order' = o
  /\ shown' = [r \in Rows |-> IF r \in PageOf(o).rows THEN shown[r] + 1 ELSE shown[r]]
  /\ cursor' = PageOf(o).next
  /\ UNCHANGED <<call, published, list, key, steady, moved, changes>>

\* A row comes into the list, leaves it, or, in search, is indexed with another
\* key.  Reviews and inbox items are never taken away.
Leaves == IF list \in {"reviews", "inbox"} THEN {} ELSE {r \in Rows : key[r] # 0}
Rekeyed(r, k) ==
  \/ key[r] = 0 /\ k # 0
  \/ r \in Leaves /\ k = 0
  \/ list = "search" /\ key[r] # 0 /\ k \notin {0, key[r]}

ListChanges(r, k) ==
  /\ cursor # End
  /\ changes < MaxChanges
  /\ Rekeyed(r, k)
  /\ key' = [key EXCEPT ![r] = k]
  /\ steady' = steady \ {r}
  /\ moved' = IF shown[r] > 0 THEN moved \cup {r} ELSE moved
  /\ changes' = changes + 1
  /\ UNCHANGED <<call, published, list, order, cursor, shown>>

PagingNext ==
  \/ \E o \in Orders(list) : NextPage(o)
  \/ \E r \in Rows, k \in 0..MaxKey : ListChanges(r, k)

-----------------------------------------------------------------------------
\* Walking through the pages of a list that changes meanwhile shows every row
\* that was in the list all along, and shows it once; a row is shown twice only
\* if its key changed after it was shown.
PagesAreComplete ==
  /\ cursor = End => \A r \in steady : shown[r] = 1
  /\ \A r \in Rows : shown[r] > 1 => r \in moved
=============================================================================
