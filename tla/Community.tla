------------------------------ MODULE Community ------------------------------
(***************************************************************************)
(* What users and staff do beside the trade, in cmd/server: conversations, *)
(* businesses, reports and cases, the verification of a listing with the   *)
(* authority, lists read page by page, favourites, saved searches, public  *)
(* profiles, notification settings and devices, categories and forms; the  *)
(* handlers in front of all services, and the limits on authentication.    *)
(* The parts share no rows, so a behaviour is one of a single part, chosen *)
(* at the start.                                                           *)
(***************************************************************************)
EXTENDS Messaging, Businesses, Cases, Eids, Paging, Saved, Profiles, Preferences, Api, Abuse, MasterData, TLC

VARIABLE part

communityVars == <<part, call, published, messagingVars, businessVars, caseVars, eidsVars, pagingVars,
                   savedVars, profileVars, preferenceVars, abuseVars, masterVars>>

Parts ==
  {"messaging", "businesses", "cases", "eids", "paging", "favourites", "searches", "profiles", "settings", "devices",
   "http", "abuse", "masterdata"}

CommunityInit ==
  /\ part \in Parts
  /\ call = [c \in Clients |-> Idle]
  /\ published = {}
  /\ MessagingInit /\ BusinessesInit /\ CasesInit /\ EidsInit
  /\ SavedInit /\ ProfilesInit /\ PreferencesInit /\ MasterDataInit
  /\ IF part = "abuse" THEN AbuseInit ELSE AbuseDone
  /\ IF part = "paging" THEN PagingInit ELSE PagingDone

\* Only the rows of part p may change.
Apart(p) ==
  /\ part' = part
  /\ p # "messaging" => UNCHANGED messagingVars
  /\ p # "businesses" => UNCHANGED businessVars
  /\ p # "cases" => UNCHANGED caseVars
  /\ p # "eids" => UNCHANGED eidsVars
  /\ p # "paging" => UNCHANGED pagingVars
  /\ p # "saved" => UNCHANGED savedVars
  /\ p # "profiles" => UNCHANGED profileVars
  /\ p # "preferences" => UNCHANGED preferenceVars
  /\ p # "abuse" => UNCHANGED abuseVars
  /\ p # "masterdata" => UNCHANGED masterVars

\* A request ends between two of its steps: its client went away, a statement
\* failed or the server stopped.  An open transaction is rolled back.
Abandon(c) ==
  /\ call[c] # Idle
  /\ Return(c)
  /\ disturbed' = [disturbed EXCEPT ![c] = {}]
  /\ overlaid' = [overlaid EXCEPT ![c] = {}]
  /\ UNCHANGED <<published, messagingVars, businessVars, caseVars, eidsVars, pagingVars, profileVars, abuseVars, masterVars>>
  /\ UNCHANGED <<part, shownToAll, favourites, saved, settings, consent, endpoints, readAt, now>>

CommunityNext ==
  \/ part = "messaging" /\ MessagingNext /\ Apart("messaging")
  \/ part = "businesses" /\ BusinessesNext /\ Apart("businesses")
  \/ part = "cases" /\ CasesNext /\ Apart("cases")
  \/ part = "eids" /\ EidsNext /\ Apart("eids")
  \/ part = "paging" /\ PagingNext /\ Apart("paging")
  \/ part = "favourites" /\ FavouritesNext /\ Apart("saved")
  \/ part = "searches" /\ SearchesNext /\ Apart("saved")
  \/ part = "profiles" /\ ProfilesNext /\ Apart("profiles")
  \/ part = "settings" /\ SettingsNext /\ Apart("preferences")
  \/ part = "devices" /\ DevicesNext /\ Apart("preferences")
  \/ part = "abuse" /\ AbuseNext /\ Apart("abuse")
  \/ part = "masterdata" /\ MasterDataNext /\ Apart("masterdata")
  \/ part = "http" /\ ApiNext /\ Apart("http")
  \/ \E c \in Clients : Abandon(c)

CommunitySpec == CommunityInit /\ [][CommunityNext]_communityVars

-----------------------------------------------------------------------------
(* Properties *)

\* What several requests write, each on its own earlier reads and each liable to
\* end half way, still fits together: one conversation with an event for every
\* message; a case history that adds up to the case; one open verification of a
\* listing; saved searches that run; one public id of a user and the moderation
\* state that staff were told; notifications that must go out, and none without
\* consent; published forms that stay as they are; no request beyond its limits,
\* and none that writes although its route should have turned it away.
RecordsAgree ==
  /\ ConversationStory
  /\ CaseStory
  /\ EidsStory
  /\ SavedSearchesRun
  /\ ProfileStory
  /\ PreferenceStory
  /\ ApiStory
  /\ AbuseStory
  /\ MasterDataStory

\* Whatever goes back, is overwritten or comes too late does so because of a
\* request that ran at the same time: read pointers, merged contents, closed
\* businesses and cases, verified listings, decisions of the authority that are
\* recorded and not applied, the list of favourites, patches.
StaleReadsOnlyOverlap ==
  [][/\ GoesBackOnlyByOverlap
     /\ BusinessSteps
     /\ CaseSteps
     /\ EidsSteps
     /\ FavouritesAreListed
     /\ PreferenceSteps
     /\ AbuseSteps
     /\ MasterDataSteps]_communityVars

-----------------------------------------------------------------------------
(* The instance that is checked *)

MCBucketMax == [ip |-> 2, account |-> 1, target |-> 1, complete |-> 1, sensitive |-> 1]

MCSettingKeys == {<<"email", "channel", "*">>, <<"push", "category", "offers">>}

\* The second report, case and attempt only exist to compete with the first: the
\* first ones have the whole history, and decisions come in different orders
\* while there is one attempt.  Triage of reports and evidence touch nothing else
\* and are tried without a case and without reports, a case is opened on older
\* reports, and one that is urgent is not assigned.  One other identifier is tried
\* beside the first.  The second version of a schema has no form, and one version
\* has labels.
SecondIsPlain ==
  /\ \A k \in CaseIds \ {1} : case[k] \in {NoCase, Opened("normal", Nobody)} /\ evidence[k] = 0
  /\ \A r \in ReportIds : report[r] \in {"none", "submitted"} \/ (r = 1 /\ case[1] = NoCase)
  /\ case[1] # NoCase => recent = {}
  /\ evidence[1] > 0 \/ case[1].priority # "normal" => attached = {}
  /\ case[1].priority # "normal" => case[1].staff = Nobody
  /\ \A a \in Attempts \ {1} : attempt[a].ver <= 2
  /\ \A d \in decisions : d.id = 1
  /\ \A a \in Attempts \ {1} : attempt[a] # NoAttempt => Cardinality(decisions) <= 1
  /\ \A i, j \in LoginIdents \ {"mail"} : i = j \/ NoCounter \in {counter[i], counter[j]}
  /\ \A i \in LoginIdents \ {"mail"} : counter[i].n <= 1
  /\ \A v \in Versions \ {1} : form[v] = {}
  /\ schema[1] # "none" => ~labelled
  /\ schema[2] # "none" \/ category.eids # "none" => form[1] \subseteq {"enum"}
  /\ schema[2] # "none" => category.eids = "none"

Symmetry == Permutations(Clients)
=============================================================================
