----------------------------- MODULE Businesses -----------------------------
(***************************************************************************)
(* backend/internal/businesses: the profile of a business and a service it *)
(* offers, of one owner.  Rows are written under their version, but a      *)
(* PATCH merges its fields into a copy read before that version, and a     *)
(* service is changed on a status of its business that was read outside    *)
(* the write.  Of the contents two fields are kept, with two values each.  *)
(***************************************************************************)
EXTENDS Requests

CONSTANT MaxRowVer      \* bound: versions of a row

VARIABLES
  business,      \* businesses.profiles
  offered        \* businesses.services

businessVars == <<business, offered>>

Fields == {"title", "text"}

NoBusiness == [status |-> "none", content |-> [f \in Fields |-> 0], place |-> FALSE, ver |-> 0]
NoService == [status |-> "none", content |-> [f \in Fields |-> 0], ver |-> 0]

BusinessesInit == business = NoBusiness /\ offered = NoService

\* NewDraft, NewDraftOfferedService
DraftBusiness == [NoBusiness EXCEPT !.status = "draft", !.ver = 1]
DraftService == [NoService EXCEPT !.status = "draft", !.ver = 1]

\* ownerEditable; parentAllowsServiceMutation
Editable(row) == row.status \in {"draft", "active", "paused"}

\* Profile.Activate, Profile.Close
BusinessMove(op, from) ==
  CASE op = "activate" /\ from = "draft" -> "active"
    [] op = "close" /\ from \in {"draft", "active"} -> "closed"
    [] OTHER -> "none"

\* OfferedService.Activate, Pause, Close
ServiceMove(op, from) ==
  CASE op = "activate" /\ from \in {"draft", "paused"} -> "active"
    [] op = "pause" /\ from = "active" -> "paused"
    [] op = "close" /\ from \in {"draft", "active", "paused"} -> "closed"
    [] OTHER -> "none"

\* GetPublic, GetPublicOfferedService, ListPublicOfferedServices
PublicService == business.status = "active" /\ offered.status = "active"

\* FindServiceCandidates, CheckServiceCandidate
Candidate == PublicService /\ business.place

\* UpdateContent
Edited(row, content) == [row EXCEPT !.content = content, !.ver = @ + 1]

\* Mutant: UPDATE ... WHERE id alone.
RowFreshAlways(row, ver) == row.ver < MaxRowVer

\* PostgresStore.Update, UpdateOfferedService: the row is still the one read.
RowFresh(row, ver) == row.ver = ver /\ ver < MaxRowVer

-----------------------------------------------------------------------------
(* Profiles *)

\* create: GetByOwner ...
CreateBusiness(c, located) ==
  /\ call[c] = Idle
  /\ business = NoBusiness
  /\ Proceed(c, [op |-> "found", located |-> located])
  /\ UNCHANGED <<published, businessVars>>

\* ... the insert, which the unique index on the owner may refuse; the location
\* is a second write.
InsertBusiness(c) ==
  /\ call[c].op = "found"
  /\ IF business = NoBusiness
       THEN /\ business' = DraftBusiness
            /\ IF call[c].located THEN Proceed(c, [op |-> "locate"]) ELSE Return(c)
       ELSE Return(c) /\ UNCHANGED business
  /\ UNCHANGED <<published, offered>>

\* patch: the fields the request leaves out are those of a first read.
PatchBusiness(c, f, located) ==
  /\ call[c] = Idle
  /\ business # NoBusiness
  /\ Proceed(c, [op |-> "patch_business", field |-> f, content |-> [business.content EXCEPT ![f] = 1 - @],
                 located |-> located])
  /\ UNCHANGED <<published, businessVars>>

\* Update: mutateOwned reads the row again ...
UpdateRead(c) ==
  /\ call[c].op = "patch_business"
  /\ IF Editable(business)
       THEN Proceed(c, [op |-> "update", field |-> call[c].field, content |-> call[c].content,
                        seen |-> business.content, located |-> call[c].located, ver |-> business.ver])
       ELSE Return(c)
  /\ UNCHANGED <<published, businessVars>>

\* ... and writes the merged contents.
UpdateWrite(c) ==
  /\ call[c].op = "update"
  /\ IF RowFresh(business, call[c].ver)
       THEN /\ business' = Edited(business, call[c].content)
            /\ IF call[c].located THEN Proceed(c, [op |-> "locate"]) ELSE Return(c)
       ELSE Return(c) /\ UNCHANGED business
  /\ UNCHANGED <<published, offered>>

\* UpdateLocation, after a create or an update that has one
LocateRead(c) ==
  /\ call[c].op = "locate"
  /\ IF Editable(business)
       THEN Proceed(c, [op |-> "locating", ver |-> business.ver])
       ELSE Return(c)
  /\ UNCHANGED <<published, businessVars>>

\* SetLocation: the location is set or cleared.
LocateWrite(c) ==
  /\ call[c].op = "locating"
  /\ IF RowFresh(business, call[c].ver)
       THEN \E place \in BOOLEAN : business' = [business EXCEPT !.place = place, !.ver = @ + 1]
       ELSE UNCHANGED business
  /\ Return(c)
  /\ UNCHANGED <<published, offered>>

\* activate, close: mutateOwned
MoveBusinessRead(c, op) ==
  /\ call[c] = Idle
  /\ BusinessMove(op, business.status) # "none"
  /\ Proceed(c, [op |-> "move", next |-> BusinessMove(op, business.status), ver |-> business.ver])
  /\ UNCHANGED <<published, businessVars>>

MoveBusinessWrite(c) ==
  /\ call[c].op = "move"
  /\ IF RowFresh(business, call[c].ver)
       THEN business' = Write(business, call[c].next)
       ELSE UNCHANGED business
  /\ Return(c)
  /\ UNCHANGED <<published, offered>>

-----------------------------------------------------------------------------
(* Services *)

\* createService: the business is read ...
CreateService(c) ==
  /\ call[c] = Idle
  /\ Editable(business) /\ offered = NoService
  /\ Proceed(c, [op |-> "offer", parent |-> business.ver])
  /\ UNCHANGED <<published, businessVars>>

\* ... and the service inserted.
InsertService(c) ==
  /\ call[c].op = "offer"
  /\ offered' = IF offered = NoService THEN DraftService ELSE offered
  /\ Return(c)
  /\ UNCHANGED <<published, business>>

\* patchService
PatchService(c, f) ==
  /\ call[c] = Idle
  /\ offered # NoService
  /\ Proceed(c, [op |-> "patch_service", field |-> f, content |-> [offered.content EXCEPT ![f] = 1 - @]])
  /\ UNCHANGED <<published, businessVars>>

\* mutateOwnedOfferedService: parentAllowsServiceMutation
ParentAllows == Editable(business)

\* UpdateOfferedService: mutateOwnedOfferedService reads the business and the row ...
\* (One after the other: a business that is closed in between is one that is
\* closed between the read and the write.)
UpdateServiceRead(c) ==
  /\ call[c].op = "patch_service"
  /\ IF ParentAllows /\ Editable(offered)
       THEN Proceed(c, [op |-> "update_service", field |-> call[c].field, content |-> call[c].content,
                        seen |-> offered.content, ver |-> offered.ver, parent |-> business.ver])
       ELSE Return(c)
  /\ UNCHANGED <<published, businessVars>>

\* ... and writes the merged contents.
UpdateServiceWrite(c) ==
  /\ call[c].op = "update_service"
  /\ IF RowFresh(offered, call[c].ver)
       THEN offered' = Edited(offered, call[c].content)
       ELSE UNCHANGED offered
  /\ Return(c)
  /\ UNCHANGED <<published, business>>

\* activateService, pauseService, closeService: mutateService
MoveServiceRead(c, op) ==
  /\ call[c] = Idle
  /\ ParentAllows /\ ServiceMove(op, offered.status) # "none"
  /\ Proceed(c, [op |-> "move_service", next |-> ServiceMove(op, offered.status), ver |-> offered.ver,
                 parent |-> business.ver])
  /\ UNCHANGED <<published, businessVars>>

MoveServiceWrite(c) ==
  /\ call[c].op = "move_service"
  /\ IF RowFresh(offered, call[c].ver)
       THEN offered' = Write(offered, call[c].next)
       ELSE UNCHANGED offered
  /\ Return(c)
  /\ UNCHANGED <<published, business>>

BusinessesNext ==
  \E c \in Clients :
    \/ \E located \in BOOLEAN :
         CreateBusiness(c, located) \/ \E f \in Fields : PatchBusiness(c, f, located)
    \/ InsertBusiness(c) \/ UpdateRead(c) \/ UpdateWrite(c) \/ LocateRead(c) \/ LocateWrite(c)
    \/ \E op \in {"activate", "close"} : MoveBusinessRead(c, op)
    \/ MoveBusinessWrite(c) \/ CreateService(c) \/ InsertService(c)
    \/ \E f \in Fields : PatchService(c, f)
    \/ UpdateServiceRead(c) \/ UpdateServiceWrite(c)
    \/ \E op \in {"activate", "pause", "close"} : MoveServiceRead(c, op)
    \/ MoveServiceWrite(c)

-----------------------------------------------------------------------------
\* What is closed stays closed although every mutation decides on an earlier
\* read; the service of a closed business changes only in a request that read
\* the business before it was closed; and a PATCH changes a field it does not
\* name only if another request wrote the row between its two reads.
BusinessSteps ==
  /\ business.status = "closed" => business' = business
  /\ offered.status = "closed" => offered' = offered
  /\ (business.status = "closed" /\ offered' # offered) =>
       \E c \in Clients : call'[c] = Idle /\ call[c].op \in {"offer", "update_service", "move_service"} /\ call[c].parent < business.ver
  /\ \A f \in Fields :
       (business'.content[f] # business.content[f] \/ offered'.content[f] # offered.content[f]) =>
         \E c \in Clients : call[c].op \in {"update", "update_service"} /\ (call[c].field = f \/ call[c].seen[f] # call[c].content[f])
=============================================================================
