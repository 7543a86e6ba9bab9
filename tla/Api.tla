-------------------------------- MODULE Api --------------------------------
(***************************************************************************)
(* The HTTP handlers of cmd/server, one group per domain package.  Each    *)
(* package has its own copy of the checks in front of its service, so a    *)
(* route is the sequence of checks and service calls of its handler:       *)
(*                                                                         *)
(*   query       no user id of somebody else in the query                  *)
(*   origin      an allowed Origin           session     a live session    *)
(*   csrf        cookie and header agree     credential  a bearer token    *)
(*   permission  the role allows it          path        ids in the path   *)
(*   body        a JSON body, required       opt_body    it may be absent  *)
(*   content     fields checked after the decoding                         *)
(*   read        a service call that decides nothing                       *)
(*   write       a service call that changes rows                          *)
(*   recheck     the row that was written is not as the client expects     *)
(*                                                                         *)
(* What the service calls do is in the modules of the packages.  Requests  *)
(* are made one at a time: at this level they share nothing.               *)
(***************************************************************************)
EXTENDS Requests, Sequences, FiniteSets

Routes(kind, gate, handlers) == {[kind |-> kind, steps |-> gate \o h] : h \in handlers}

\* What may be wrong with a request, by the step that looks at it: the body names
\* an owner, or a state, that is not the client's to choose, or an unknown field.
BodyFlaws == {"malformed", "extra", "owner", "state"}
Flaws(step) ==
  CASE step = "body" -> BodyFlaws \cup {"absent"}
    [] step = "opt_body" -> BodyFlaws
    [] step \in {"read", "write", "recheck"} -> {}
    [] OTHER -> {step}

\* What the service reports, and the answer it is turned into.
More(errors, others) ==
  [e \in DOMAIN errors \cup DOMAIN others |-> IF e \in DOMAIN errors THEN errors[e] ELSE others[e]]
ReadErrors == [invalid |-> "bad_request", down |-> "unavailable"]
PlainErrors == More(ReadErrors, [missing |-> "not_found"])
OwnedErrors == More(PlainErrors, [forbidden |-> "not_found", conflict |-> "conflict"])

-----------------------------------------------------------------------------
(* The packages *)

MessagingGate == <<"origin", "session", "csrf">>
MessagingRoutes ==
  Routes("user", MessagingGate, {<<"body", "write">>, <<"path", "body", "write">>, <<"path", "write">>})
    \cup Routes("user", <<"session">>, {<<"read">>, <<"path", "read">>})
MessagingRefuses == BodyFlaws
MessagingErrors == PlainErrors

FavoritesGate == <<"origin", "session", "csrf">>
FavoritesRoutes ==
  Routes("user", FavoritesGate, {<<"path", "write">>})
    \cup Routes("user", <<"session">>, {<<"read">>, <<"path", "read">>})
FavoritesErrors == PlainErrors

SavedSearchGate == <<"origin", "session", "csrf">>
SavedSearchRoutes ==
  Routes("user", SavedSearchGate, {<<"body", "write">>, <<"path", "write">>})
    \cup Routes("user", <<"session">>, {<<"read">>, <<"path", "read">>})
SavedSearchRefuses == {"malformed", "owner"}
SavedSearchErrors == PlainErrors

\* A business is written first and its place on the map afterwards.
BusinessGate == <<"origin", "session", "csrf">>
BusinessRoutes ==
  Routes("user", BusinessGate,
         {<<"body", "write">>, <<"body", "write", "write">>, <<"path", "body", "read", "write">>,
          <<"path", "body", "read", "write", "write">>, <<"path", "opt_body", "write">>})
    \cup Routes("user", <<"query", "session">>, {<<"read">>})
    \cup Routes("user", <<"session">>, {<<"path", "read">>})
    \cup Routes("public", <<>>, {<<"path", "read">>})
OfferedServiceRoutes ==
  Routes("user", BusinessGate,
         {<<"path", "body", "write">>, <<"path", "path", "body", "read", "content", "write">>})
    \cup Routes("user", <<"session">>, {<<"path", "read">>, <<"path", "path", "read">>})
ServiceStatusRoutes ==
  Routes("user", BusinessGate, {<<"path", "path", "opt_body", "write">>})
    \cup Routes("public", <<>>, {<<"path", "read">>})
BusinessRefuses == {"malformed", "owner", "state"}
BusinessErrors == OwnedErrors

TransactionGate == <<"origin", "session", "csrf">>
TransactionRoutes ==
  Routes("user", TransactionGate, {<<"path", "opt_body", "write">>})
    \cup Routes("user", <<"query", "session">>, {<<"read">>, <<"path", "read">>})
TransactionRefuses == {"malformed", "owner", "state"}
TransactionErrors == OwnedErrors

DeliveryGate == <<"origin", "session", "csrf">>
DeliveryRoutes ==
  Routes("user", DeliveryGate, {<<"path", "opt_body", "write">>})
    \cup Routes("user", <<"query", "session">>, {<<"read">>, <<"path", "read">>})
DeliveryRefuses == {"malformed", "owner", "state"}
DeliveryErrors == More(OwnedErrors, [not_eligible |-> "conflict"])

OfferGate == <<"origin", "session", "csrf">>
OfferRoutes ==
  Routes("user", OfferGate,
         {<<"path", "body", "content", "write">>, <<"path", "path", "opt_body", "write">>,
          <<"path", "opt_body", "write">>})
    \cup Routes("user", <<"query", "session">>, {<<"read">>, <<"path", "read">>, <<"path", "content", "read">>})
OfferRefuses == {"malformed", "owner", "state"}
OfferErrors == More(OwnedErrors, [not_eligible |-> "not_found"])

DisputeGate == <<"origin", "session", "csrf">>
DisputeRoutes ==
  Routes("user", DisputeGate, {<<"path", "body", "write">>, <<"path", "opt_body", "write">>})
    \cup Routes("user", <<"query", "session">>, {<<"read">>, <<"path", "read">>})
DisputeRefuses == {"malformed", "owner", "state"}
DisputeErrors == More(OwnedErrors, [not_eligible |-> "conflict"])

NeedGate == <<"origin", "session", "csrf">>
NeedRoutes ==
  Routes("user", NeedGate,
         {<<"body", "content", "write">>, <<"path", "body", "read", "content", "write">>,
          <<"path", "opt_body", "write">>})
    \cup Routes("user", <<"query", "session">>, {<<"read">>, <<"path", "content", "read">>})
    \cup Routes("user", <<"session">>, {<<"path", "read">>})
NeedRefuses == {"malformed", "owner", "state"}
NeedErrors == OwnedErrors

PaymentGate == <<"origin", "session", "csrf">>
PaymentRoutes ==
  Routes("user", PaymentGate, {<<"path", "opt_body", "write">>})
    \cup Routes("user", <<"query", "session">>, {<<"read">>, <<"path", "read">>})
PaymentRefuses == {"malformed", "owner", "state"}
PaymentErrors == More(OwnedErrors, [not_priced |-> "conflict", not_payable |-> "conflict"])

NotificationGate == <<"origin", "session", "csrf">>
PreferenceRoutes ==
  Routes("user", NotificationGate, {<<"body", "write">>, <<"body", "content", "write">>})
    \cup Routes("user", <<"session">>, {<<"read">>})
InboxRoutes ==
  Routes("user", NotificationGate, {<<"path", "write">>, <<"write">>, <<"body", "write">>})
    \cup Routes("user", <<"session">>, {<<"content", "read">>, <<"read">>})
NotificationRefuses == BodyFlaws
NotificationErrors ==
  More(PlainErrors, [conflict |-> "conflict", required |-> "forbidden", actor |-> "unauthorized"])

VerifiedGate == <<"origin", "session", "csrf">>
AppointmentRoutes ==
  Routes("user", VerifiedGate, {<<"body", "write">>, <<"path", "write">>, <<"path", "body", "write">>})
    \cup Routes("user", <<"session">>, {<<"read">>, <<"path", "read">>})
FlowRoutes ==
  Routes("user", VerifiedGate, {<<"body", "write">>, <<"path", "body", "write">>})
    \cup Routes("user", <<"session">>, {<<"content", "read">>, <<"path", "read">>})
VerifiedRefuses == BodyFlaws
VerifiedErrors == More(PlainErrors, [conflict |-> "conflict"])

ReviewGate == <<"origin", "session", "csrf">>
ReviewRoutes ==
  Routes("user", ReviewGate, {<<"body", "write">>})
    \cup Routes("user", <<"session">>, {<<"read">>, <<"path", "read">>})
    \cup Routes("public", <<>>, {<<"path", "content", "read">>})
ReviewRefuses == BodyFlaws
ReviewErrors == More(PlainErrors, [conflict |-> "conflict", not_eligible |-> "bad_request"])

ReportGate == <<"origin", "session", "csrf">>
ReportRoutes ==
  Routes("user", ReportGate, {<<"body", "write">>, <<"path", "write">>})
    \cup Routes("user", <<"session">>, {<<"read">>, <<"path", "read">>})
ReportRefuses == BodyFlaws
ReportErrors == More(PlainErrors, [conflict |-> "conflict", self |-> "forbidden"])

ListingGate == <<"origin", "session", "csrf">>
DraftRoutes ==
  Routes("user", ListingGate, {<<"body", "content", "write">>, <<"path", "read", "body", "content", "write">>})
    \cup Routes("user", <<"session">>, {<<"path", "read">>})
ListingRoutes ==
  Routes("user", ListingGate,
         {<<"path", "body", "content", "write">>, <<"path", "read", "opt_body", "write">>,
          <<"path", "read", "opt_body", "read", "write">>})
ListingEidsRoutes ==
  Routes("user", ListingGate, {<<"path", "read", "opt_body", "write">>})
    \cup Routes("user", <<"session">>, {<<"path", "read", "read">>})
PublicListingRoutes == Routes("public", <<>>, {<<"path", "read", "read", "read">>})
\* A draft refuses a moderation state and ignores an owner; the rest of the
\* listing requests, and the start of a verification, have no such fields.
DraftRefuses == {"malformed", "state"}
ListingRefuses == {"malformed"}
EidsRefuses == {"malformed", "state"}
ListingErrors == OwnedErrors
EidsErrors == More(PlainErrors, [wrong_type |-> "conflict", not_required |-> "conflict"])

\* An image is recorded first and attached to its listing afterwards.
MediaGate == <<"origin", "session", "csrf">>
MediaRoutes ==
  Routes("user", MediaGate,
         {<<"opt_body", "write">>, <<"opt_body", "content", "read", "write", "write">>,
          <<"path", "opt_body", "write", "recheck">>})
    \cup Routes("user", <<"session">>, {<<"path", "read">>})
MediaRefuses == {"malformed"}
MediaErrors == OwnedErrors

ProfileGate == <<"query", "origin", "session", "csrf">>
ProfileRoutes ==
  Routes("user", ProfileGate, {<<"body", "write">>})
    \cup Routes("user", <<"query", "session">>, {<<"read">>})
    \cup Routes("public", <<>>, {<<"path", "read">>})
ProfileRefuses == {"malformed", "owner", "state"}
ProfileErrors == PlainErrors

TrustRoutes ==
  Routes("user", <<"query", "session">>, {<<"read">>})
    \cup Routes("public", <<"query">>, {<<"path", "read", "read", "read">>})
TrustErrors == PlainErrors

SummaryRoutes ==
  Routes("public", <<>>, {<<"path", "read">>}) \cup Routes("user", <<"query", "session">>, {<<"read">>})
SummaryErrors == ReadErrors

MasterDataRoutes == Routes("public", <<"content">>, {<<"read">>, <<"path", "read">>, <<"path", "path", "read">>})
MasterDataErrors == PlainErrors

SearchRoutes == Routes("public", <<>>, {<<"content", "read">>})
SearchErrors == ReadErrors

\* Staff: a bearer token that the identity provider verifies, then a permission.
DisputeStaffGate == <<"credential", "permission">>
DisputeStaffRoutes ==
  Routes("staff", DisputeStaffGate, {<<"path", "read">>, <<"path", "write">>, <<"path", "body", "write">>})
DisputeStaffRefuses == {"malformed"}

ModerationStaffGate == <<"credential", "permission">>
ReportStaffRoutes ==
  Routes("staff", ModerationStaffGate, {<<"content", "read">>, <<"path", "read">>, <<"path", "body", "write">>})
CaseStaffRoutes ==
  Routes("staff", ModerationStaffGate,
         {<<"body", "content", "write">>, <<"content", "read">>, <<"path", "read">>,
          <<"path", "body", "content", "write">>})
CaseEditRoutes ==
  Routes("staff", ModerationStaffGate,
         {<<"path", "body", "content", "write">>, <<"path", "body", "write">>, <<"path", "read">>})
\* The permission that an action needs depends on the status that is asked for.
ActionStaffRoutes ==
  Routes("staff", ModerationStaffGate,
         {<<"path", "body", "content", "write">>, <<"path", "read">>, <<"path", "path", "read">>})
    \cup Routes("staff", <<"credential">>, {<<"path", "path", "body", "permission", "write">>})
AppealStaffRoutes ==
  Routes("staff", ModerationStaffGate,
         {<<"path", "read">>, <<"path", "path", "read">>, <<"path", "path", "body", "write">>})

ListingStaffGate == <<"credential", "permission">>
ListingStaffRoutes == Routes("staff", ListingStaffGate, {<<"path", "read">>, <<"content", "read", "read">>})

TrustStaffGate == <<"credential", "permission">>
TrustStaffRoutes == Routes("staff", TrustStaffGate, {<<"query", "path", "read", "read", "read", "read">>})

SummaryStaffGate == <<"credential", "permission">>
SummaryStaffRoutes == Routes("staff", SummaryStaffGate, {<<"path", "read">>})

ProfileStaffGate == <<"credential", "permission">>
ProfileStaffRoutes == Routes("staff", ProfileStaffGate, {<<"path", "read">>})

\* The authority: its own bearer token, then a signed decision.
DecisionRoutes == Routes("authority", <<>>, {<<"credential", "body", "write">>})
DecisionRefuses == BodyFlaws
DecisionErrors ==
  More(ReadErrors, [rejected |-> "forbidden", unmapped |-> "forbidden", expired |-> "gone",
                 stale |-> "gone", conflict |-> "conflict"])

-----------------------------------------------------------------------------
(* The server *)

Package(routes, refuses, errors) == [routes |-> routes, refuses |-> refuses, errors |-> errors]

Packages ==
  [messaging |-> Package(MessagingRoutes, MessagingRefuses, MessagingErrors),
   favorites |-> Package(FavoritesRoutes, {}, FavoritesErrors),
   savedsearch |-> Package(SavedSearchRoutes, SavedSearchRefuses, SavedSearchErrors),
   businesses |-> Package(BusinessRoutes \cup OfferedServiceRoutes \cup ServiceStatusRoutes, BusinessRefuses, BusinessErrors),
   transactions |-> Package(TransactionRoutes, TransactionRefuses, TransactionErrors),
   deliveries |-> Package(DeliveryRoutes, DeliveryRefuses, DeliveryErrors),
   offers |-> Package(OfferRoutes, OfferRefuses, OfferErrors),
   disputes |-> Package(DisputeRoutes, DisputeRefuses, DisputeErrors),
   needs |-> Package(NeedRoutes, NeedRefuses, NeedErrors),
   payments |-> Package(PaymentRoutes, PaymentRefuses, PaymentErrors),
   notifications |-> Package(PreferenceRoutes \cup InboxRoutes, NotificationRefuses, NotificationErrors),
   verified |-> Package(AppointmentRoutes \cup FlowRoutes, VerifiedRefuses, VerifiedErrors),
   reviews |-> Package(ReviewRoutes, ReviewRefuses, ReviewErrors),
   reports |-> Package(ReportRoutes, ReportRefuses, ReportErrors),
   drafts |-> Package(DraftRoutes, DraftRefuses, ListingErrors),
   listings |-> Package(ListingRoutes \cup PublicListingRoutes, ListingRefuses, ListingErrors),
   eids |-> Package(ListingEidsRoutes, EidsRefuses, EidsErrors),
   decisions |-> Package(DecisionRoutes, DecisionRefuses, DecisionErrors),
   media |-> Package(MediaRoutes, MediaRefuses, MediaErrors),
   profiles |-> Package(ProfileRoutes \cup ProfileStaffRoutes, ProfileRefuses, ProfileErrors),
   trust |-> Package(TrustRoutes \cup TrustStaffRoutes, {}, TrustErrors),
   summaries |-> Package(SummaryRoutes \cup SummaryStaffRoutes, {}, SummaryErrors),
   masterdata |-> Package(MasterDataRoutes, {}, MasterDataErrors),
   search |-> Package(SearchRoutes, {}, SearchErrors),
   disputes_staff |-> Package(DisputeStaffRoutes, DisputeStaffRefuses, DisputeErrors),
   moderation_staff |-> Package(ReportStaffRoutes \cup CaseStaffRoutes \cup CaseEditRoutes \cup ActionStaffRoutes
                                  \cup AppealStaffRoutes, ReportRefuses, ReportErrors),
   listings_staff |-> Package(ListingStaffRoutes, {}, ListingErrors)]

HttpFrame(p, route, flaw) ==
  [op |-> "http", package |-> p, route |-> route, flaw |-> flaw, at |-> 1, written |-> 0, answer |-> "none"]

StepOf(f) == f.route.steps[f.at]

\* A client asks, with at most one thing wrong that some step looks at.
Ask(c) ==
  /\ \A d \in Clients : call[d] = Idle
  /\ \E p \in DOMAIN Packages : \E route \in Packages[p].routes :
       \E flaw \in {"none"} \cup UNION {Flaws(route.steps[i]) : i \in DOMAIN route.steps} :
          Proceed(c, HttpFrame(p, route, flaw))

Refuses(f) ==
  /\ f.flaw \in Flaws(StepOf(f))
  /\ f.flaw \in BodyFlaws => f.flaw \in Packages[f.package].refuses

\* The answers of a check that fails, and of a dependency that is down.
Refusals(step) ==
  CASE step \in {"origin", "csrf", "permission"} -> {"forbidden"}
    [] step = "session" -> {"unauthorized"}
    [] step = "credential" -> {"unauthorized", "forbidden"}
    [] OTHER -> {"bad_request"}

Unavailable(step) == IF step \in {"session", "credential"} THEN {"unavailable"} ELSE {}

ServiceAnswers(f) ==
  LET errors == Packages[f.package].errors
  IN  IF StepOf(f) \in {"read", "write"} THEN {errors[e] : e \in DOMAIN errors} ELSE {}

\* A recheck fails when the row went on meanwhile.
Conflicts(step) == IF step = "recheck" THEN {"conflict"} ELSE {}

Answer(c, answers) == \E a \in answers : Proceed(c, [call[c] EXCEPT !.answer = a])

Pass(c) ==
  LET f == call[c]
      written == IF StepOf(f) = "write" THEN f.written + 1 ELSE f.written
  IN  IF f.at = Len(f.route.steps)
      THEN Proceed(c, [f EXCEPT !.written = written, !.answer = "ok"])
      ELSE Proceed(c, [f EXCEPT !.written = written, !.at = @ + 1])

\* One check or one service call of the handler.
HandleStep(c) ==
  /\ call[c].op = "http" /\ call[c].answer = "none"
  /\ LET f == call[c]
         step == StepOf(f)
     IN  IF Refuses(f)
         THEN Answer(c, Refusals(step) \cup Unavailable(step))
         ELSE \/ Pass(c)
              \/ Answer(c, Unavailable(step) \cup ServiceAnswers(f) \cup Conflicts(step))

\* The answer is sent and the request is over.
Respond(c) ==
  /\ call[c].op = "http" /\ call[c].answer # "none"
  /\ Return(c)

ApiNext ==
  /\ published' = published
  /\ \E c \in Clients : Ask(c) \/ HandleStep(c) \/ Respond(c)

-----------------------------------------------------------------------------
(* Properties *)

Asked == {call[c] : c \in {d \in Clients : call[d].op = "http"}}
WritesOf(route) == Cardinality({i \in DOMAIN route.steps : route.steps[i] = "write"})

\* Whichever copy of the checks a request goes through: rows are written only for
\* a request in which every check of its route holds, and an owner or a state in
\* the body is written over only by the packages that have no such field; "ok"
\* is answered when all is written; an error after a write comes from businesses
\* and media alone, which write twice; a row of somebody else is answered like a
\* row that does not exist.
ApiStory ==
  \A f \in Asked :
    /\ f.written > 0 => f.flaw \in {"none", "extra", "owner", "state"}
    /\ f.written > 0 /\ f.flaw = "owner" => f.package \in {"drafts", "listings", "eids", "media", "disputes_staff"}
    /\ f.written > 0 /\ f.flaw = "state" => f.package \in {"savedsearch", "listings", "media", "disputes_staff"}
    /\ f.answer = "ok" => f.written = WritesOf(f.route) /\ f.flaw \in {"none", "extra", "owner", "state"}
    /\ f.answer \notin {"none", "ok"} /\ f.written > 0 => f.package \in {"businesses", "media"}
    /\ LET errors == Packages[f.package].errors
       IN  "forbidden" \in DOMAIN errors => errors["forbidden"] = errors["missing"]
=============================================================================
