-------------------------------- MODULE Saved --------------------------------
(***************************************************************************)
(* What a user keeps: favourite listings (internal/favorites) and saved    *)
(* searches (internal/savedsearch).  Favourites are added after a look at  *)
(* the listing, and listed by looking at one listing after the other.  A   *)
(* saved search is stored as it was sent: Validate has a value receiver,   *)
(* so that what Filters.Normalize changes is a copy.                       *)
(***************************************************************************)
EXTENDS Requests

CONSTANT Favourable    \* listings

VARIABLES
  shownToAll,   \* listings that the public can see
  favourites,   \* favorites.listing_favorites of the user
  disturbed,    \* listings that changed while a request went through the list
  saved         \* saved_search.saved_searches: the filters of one

savedVars == <<shownToAll, favourites, disturbed, saved>>

\* A filter is left out, only blanks, well formed or not; the prices are a pair.
Filters ==
  [q : {"absent", "blank", "good", "bad"},
   category : {"absent", "blank", "good", "bad"},
   prices : {"absent", "blank", "good", "bad", "reversed"},
   currency : {"absent", "blank", "good", "bad"},
   viewport : {"absent", "good", "bad", "partial"}]

NoSearch == [q |-> "none"]

SavedInit ==
  /\ shownToAll = Favourable
  /\ favourites = {}
  /\ disturbed = [c \in Clients |-> {}]
  /\ saved = NoSearch

-----------------------------------------------------------------------------
(* Favourites *)

\* A change of a listing is seen by every request that lists favourites.
Disturb(l) == disturbed' = [c \in Clients |-> IF call[c].op = "favourites" THEN disturbed[c] \cup {l} ELSE {}]

\* A listing is hidden, or shown again (module Listings).
ListingTurns(l) ==
  /\ shownToAll' = IF l \in shownToAll THEN shownToAll \ {l} ELSE shownToAll \cup {l}
  /\ Disturb(l)
  /\ UNCHANGED <<call, published, favourites, saved>>

\* listingIsPublic, requirePublicListing
ListingIsPublic(l) == l \in shownToAll

\* Service.Add ...
AddFavourite(c, l) ==
  /\ call[c] = Idle
  /\ ListingIsPublic(l)
  /\ Proceed(c, [op |-> "favour", id |-> l])
  /\ UNCHANGED <<published, savedVars>>

\* ... INSERT ... ON CONFLICT DO NOTHING
StoreFavourite(c) ==
  /\ call[c].op = "favour"
  /\ favourites' = favourites \cup {call[c].id}
  /\ Disturb(call[c].id)
  /\ Return(c)
  /\ UNCHANGED <<published, shownToAll, saved>>

\* Service.Remove
RemoveFavourite(c, l) ==
  /\ call[c] = Idle
  /\ l \in favourites
  /\ favourites' = favourites \ {l}
  /\ Disturb(l)
  /\ UNCHANGED <<call, published, shownToAll, saved>>

\* ListVisible: ListByUser ...
ListFavourites(c) ==
  /\ call[c] = Idle
  /\ Proceed(c, [op |-> "favourites", left |-> favourites, out |-> {}])
  /\ UNCHANGED <<published, savedVars>>

\* ... and a look at each listing.
VisitFavourite(c, l) ==
  /\ call[c].op = "favourites"
  /\ l \in call[c].left
  /\ Proceed(c, [call[c] EXCEPT !.left = @ \ {l}, !.out = IF ListingIsPublic(l) THEN @ \cup {l} ELSE @])
  /\ UNCHANGED <<published, savedVars>>

FavouritesListed(c) ==
  /\ call[c].op = "favourites" /\ call[c].left = {}
  /\ disturbed' = [disturbed EXCEPT ![c] = {}]
  /\ Return(c)
  /\ UNCHANGED <<published, shownToAll, favourites, saved>>

-----------------------------------------------------------------------------
(* Saved searches *)

\* parseCreate: a blank category is dropped.
ParseCreate(f) == IF f.category = "blank" THEN [f EXCEPT !.category = "absent"] ELSE f
ParseCreateRefuses(f) == f.category = "bad" \/ f.viewport = "partial"

\* Filters.Normalize and Viewport.validate, called by Validate: whether they fail
FiltersAccepted(f) ==
  /\ f.q # "bad"
  /\ f.prices \in {"absent", "good"}
  /\ f.currency # "bad"
  /\ f.viewport \in {"absent", "good"}

\* Service.Create: the filters are stored as they were sent.
SaveSearch(c, f) ==
  /\ call[c] = Idle
  /\ saved = NoSearch
  /\ ~ParseCreateRefuses(f) /\ FiltersAccepted(ParseCreate(f))
  /\ saved' = ParseCreate(f)
  /\ UNCHANGED <<call, published, shownToAll, favourites, disturbed>>

\* Service.Delete
DeleteSearch(c) ==
  /\ call[c] = Idle
  /\ saved # NoSearch
  /\ saved' = NoSearch
  /\ UNCHANGED <<call, published, shownToAll, favourites, disturbed>>

\* search.Query.normalize, and parseSearchQuery before it: a currency must be one.
SearchRuns(f) ==
  /\ f.q # "bad"
  /\ f.category # "bad"
  /\ f.prices \in {"absent", "good"}
  /\ f.currency \in {"absent", "good"}
  /\ f.viewport \in {"absent", "good"}

FavouritesNext ==
  \/ \E l \in Favourable : ListingTurns(l)
  \/ \E c \in Clients :
       \/ StoreFavourite(c) \/ ListFavourites(c) \/ FavouritesListed(c)
       \/ \E l \in Favourable : AddFavourite(c, l) \/ RemoveFavourite(c, l) \/ VisitFavourite(c, l)

SearchesNext ==
  \E c \in Clients : DeleteSearch(c) \/ \E f \in Filters : SaveSearch(c, f)

-----------------------------------------------------------------------------
\* A search that was saved is a search that runs, unless its currency is blank:
\* that one is stored, and refused each time it is run.
SavedSearchesRun ==
  saved # NoSearch => SearchRuns(saved) \/ saved.currency = "blank"

\* The list of favourites is made of many looks at listings.  It has every
\* favourite that nothing happened to meanwhile if that one can be seen, and no
\* other that nothing happened to.
FavouritesAreListed ==
  \A c \in Clients :
    call[c].op = "favourites" /\ call[c].left = {} /\ call'[c] = Idle =>
      \A l \in Favourable \ disturbed[c] : l \in call[c].out <=> (l \in favourites /\ l \in shownToAll)
=============================================================================
