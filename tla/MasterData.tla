----------------------------- MODULE MasterData -----------------------------
(***************************************************************************)
(* backend/internal/masterdata: a category, the versions of its schema and *)
(* the form each version describes.  The package's operations each read,   *)
(* decide and write in statements of their own, without a transaction or a *)
(* row version; a published schema alone is protected by its UPDATE.  The  *)
(* server calls the readers; an administrator's front end is still to      *)
(* come, and its requests are taken to run concurrently like any others.   *)
(*                                                                         *)
(* A form is the set of the parts it has: an enum attribute, its option, a *)
(* text attribute, and labels.  "late", "touched" and "frozen" are         *)
(* history: the schema moved on while an edit was under way, such an edit  *)
(* was written, and the form at the time of publication.                   *)
(***************************************************************************)
EXTENDS Requests, FiniteSets

CONSTANT
  Versions       \* bound: versions of the schema, 1..n

VARIABLES
  category,      \* master_data.categories: status and EIDS requirement
  labelled,      \* category_labels: whether there is one
  schema,        \* category_schemas: the status of each version
  form,          \* attributes, attribute_options and their labels
  touched,
  frozen

masterVars == <<category, labelled, schema, form, touched, frozen>>

MasterDataInit ==
  /\ category = [status |-> "none", eids |-> "none"]
  /\ labelled = FALSE
  /\ schema = [v \in Versions |-> "none"]
  /\ form = [v \in Versions |-> {}]
  /\ touched = {}
  /\ frozen = [v \in Versions |-> {}]

-----------------------------------------------------------------------------
(* The rules *)

\* SubmitForReview, Approve and Publish: from which status, to which.
SchemaMove(op) ==
  CASE op = "submit" -> [from |-> {"draft"}, to |-> "review"]
    [] op = "approve" -> [from |-> {"review"}, to |-> "approved"]
    [] op = "publish" -> [from |-> {"approved"}, to |-> "published"]

\* The same for the category, which may be published again.
CategoryMove(op) ==
  CASE op = "submit" -> [from |-> {"draft"}, to |-> "review"]
    [] op = "approve" -> [from |-> {"review"}, to |-> "approved"]
    [] op = "publish" -> [from |-> {"approved", "published"}, to |-> "published"]

Requirements == {"none", "required"}

\* assertDraft
AssertDraft(v) == schema[v] = "draft"

\* What an edit adds, and what it must find: NewAttribute, NewAttributeOption,
\* NewAttributeLabel and NewOptionLabel.
Prerequisites == [enum |-> {}, text |-> {}, option |-> {"enum"}, label |-> {"enum"}, option_label |-> {"enum", "option"}]

\* validateSchemaForReview: an enum attribute has options.
ValidateSchemaForReview(f) == "enum" \in f => "option" \in f

-----------------------------------------------------------------------------
(* Categories *)

\* The code of a category is unique.
CreateCategory(c) ==
  /\ call[c] = Idle
  /\ category.status = "none"
  /\ category' = [status |-> "draft", eids |-> "none"]
  /\ UNCHANGED <<call, labelled, schema, form, touched, frozen>>

\* UpsertCategoryLabel, whatever the status.
UpsertCategoryLabel(c) ==
  /\ call[c] = Idle
  /\ category.status # "none"
  /\ labelled' = TRUE
  /\ UNCHANGED <<call, category, schema, form, touched, frozen>>

\* mutateCategory: what will be written is made of what is read ...
MutateCategory(c, next) ==
  /\ call[c] = Idle
  /\ category.status # "none"
  /\ Proceed(c, [op |-> "put_category", read |-> category, next |-> next])
  /\ UNCHANGED masterVars

MoveCategory(c, op) ==
  /\ category.status \in CategoryMove(op).from
  /\ MutateCategory(c, [category EXCEPT !.status = CategoryMove(op).to])

SetCategoryEIDSRequirement(c, req) == MutateCategory(c, [category EXCEPT !.eids = req])

\* ... and UpdateCategory writes all of it, whatever the row is now.
UpdateCategory(c) ==
  /\ call[c].op = "put_category"
  /\ category' = call[c].next
  /\ Return(c)
  /\ UNCHANGED <<labelled, schema, form, touched, frozen>>

-----------------------------------------------------------------------------
(* Versions of the schema *)

MaxSchemaVersion == CHOOSE n \in 0..Cardinality(Versions) :
  \A v \in Versions : schema[v] # "none" <=> v <= n

CreateSchemaVersion(c) ==
  /\ call[c] = Idle
  /\ category.status # "none"
  /\ MaxSchemaVersion + 1 \in Versions
  /\ Proceed(c, [op |-> "insert_schema", version |-> MaxSchemaVersion + 1])
  /\ UNCHANGED masterVars

\* UNIQUE (category_id, version)
CreateSchema(c) ==
  /\ call[c].op = "insert_schema"
  /\ schema' = IF schema[call[c].version] = "none" THEN [schema EXCEPT ![call[c].version] = "draft"] ELSE schema
  /\ Return(c)
  /\ UNCHANGED <<category, labelled, form, touched, frozen>>

\* AddAttribute, AddEnumOption, UpsertAttributeLabel, UpsertOptionLabel: the
\* schema must be a draft ...
EditCheck(c, v, part) ==
  /\ call[c] = Idle
  /\ AssertDraft(v)
  /\ Prerequisites[part] \subseteq form[v]
  /\ Proceed(c, [op |-> "edit", version |-> v, part |-> part, late |-> FALSE])
  /\ UNCHANGED masterVars

\* ... when it is read: the insert does not ask again.
EditWrite(c) ==
  LET v == call[c].version IN
  /\ call[c].op = "edit"
  /\ form' = [form EXCEPT ![v] = @ \cup {call[c].part}]
  /\ touched' = IF call[c].late THEN touched \cup {v} ELSE touched
  /\ Return(c)
  /\ UNCHANGED <<category, labelled, schema, frozen>>

\* mutateSchema and PublishSchema: the schema, then its form, and for a
\* publication the category are read.
MutateSchema(c, v, op) ==
  /\ call[c] = Idle
  /\ schema[v] \in SchemaMove(op).from
  /\ Proceed(c, [op |-> op, version |-> v])
  /\ UNCHANGED masterVars

ReviewSchema(c) ==
  LET f == call[c] IN
  /\ f.op \in {"submit", "approve", "publish"}
  /\ IF /\ f.op # "approve" => ValidateSchemaForReview(form[f.version])
        /\ f.op = "publish" => category.status \in CategoryMove("publish").from
       THEN Proceed(c, [op |-> "put_schema", version |-> f.version, to |-> SchemaMove(f.op).to,
                        read |-> category, next |-> [category EXCEPT !.status = "published"]])
       ELSE Return(c)
  /\ UNCHANGED masterVars

\* UPDATE ... WHERE id = $1 AND status <> 'published'
StillOpen(v) == schema[v] # "published"

\* UpdateSchema; a publication goes on to UpdateCategory.  Edits of this version
\* that are under way become late.
UpdateSchema(c) ==
  LET f == call[c]
      after == IF f.to = "published" THEN [op |-> "put_category", read |-> f.read, next |-> f.next] ELSE Idle
  IN
  /\ f.op = "put_schema"
  /\ IF StillOpen(f.version)
       THEN /\ schema' = [schema EXCEPT ![f.version] = f.to]
            /\ frozen' = IF f.to = "published" THEN [frozen EXCEPT ![f.version] = form[f.version]] ELSE frozen
            /\ call' = [d \in Clients |->
                 CASE d = c -> after
                   [] d # c /\ call[d].op = "edit" /\ call[d].version = f.version -> [call[d] EXCEPT !.late = TRUE]
                   [] OTHER -> call[d]]
       ELSE Return(c) /\ UNCHANGED <<schema, frozen>>
  /\ UNCHANGED <<category, labelled, form, touched>>

-----------------------------------------------------------------------------
(* Readers *)

\* GetPublishedSchema: the highest published version.
PublishedSchema(v) ==
  /\ schema[v] = "published"
  /\ \A w \in Versions : w > v => schema[w] # "published"

\* ResolvePublishedForm, and ResolvePublishedFormAt for the version of a listing
ResolvePublishedForm(c, v, given) ==
  /\ call[c] = Idle
  /\ IF given THEN schema[v] = "published" ELSE PublishedSchema(v)
  /\ Proceed(c, [op |-> "form_attributes", version |-> v])
  /\ UNCHANGED masterVars

\* formDefinition: the attributes, then the options and labels of each.
ListAttributes(c) ==
  /\ call[c].op = "form_attributes"
  /\ Proceed(c, [op |-> "form_options", version |-> call[c].version,
                 attributes |-> form[call[c].version] \cap {"enum", "text"}])
  /\ UNCHANGED masterVars

FormDefinition(c) ==
  /\ call[c].op = "form_options"
  /\ Proceed(c, [op |-> "form", version |-> call[c].version,
                 parts |-> call[c].attributes \cup {p \in form[call[c].version] : Prerequisites[p] # {} /\ "enum" \in call[c].attributes}])
  /\ UNCHANGED masterVars

MasterDataNext ==
  /\ published' = published
  /\ \E c \in Clients :
       \/ CreateCategory(c) \/ UpsertCategoryLabel(c) \/ UpdateCategory(c)
       \/ \E op \in {"submit", "approve"} : MoveCategory(c, op)
       \/ \E req \in Requirements : SetCategoryEIDSRequirement(c, req)
       \/ CreateSchemaVersion(c) \/ CreateSchema(c)
       \/ \E v \in Versions :
            \/ \E part \in DOMAIN Prerequisites : EditCheck(c, v, part)
            \/ \E op \in {"submit", "approve", "publish"} : MutateSchema(c, v, op)
            \/ \E given \in BOOLEAN : ResolvePublishedForm(c, v, given)
       \/ EditWrite(c) \/ ReviewSchema(c) \/ UpdateSchema(c)
       \/ ListAttributes(c) \/ FormDefinition(c)
       \/ call[c].op = "form" /\ Return(c) /\ UNCHANGED masterVars

-----------------------------------------------------------------------------
(* Properties *)

\* A published form is the one that was published, can be filled in, and is read
\* as such, unless an edit that had found a draft was written afterwards; and a
\* category is only published with a form.
MasterDataStory ==
  /\ \A v \in Versions :
       schema[v] = "published" /\ v \notin touched => form[v] = frozen[v] /\ ValidateSchemaForReview(form[v])
  /\ \A c \in Clients :
       call[c].op = "form" /\ call[c].version \notin touched => call[c].parts = frozen[call[c].version]
  /\ category.status = "published" => \E v \in Versions : schema[v] = "published"

\* No late write takes a schema out of publication.  A category leaves it, or
\* loses the requirement that was set, only to a change that had read it before.
MasterDataSteps ==
  /\ \A v \in Versions : schema[v] = "published" => schema'[v] = "published"
  /\ category' # category /\ category.status # "none" =>
       \E c \in Clients :
         /\ call[c].op = "put_category"
         /\ category.status = "published" /\ category'.status # "published" => call[c].read.status # "published"
         /\ category'.eids # category.eids => call[c].next.eids # call[c].read.eids \/ call[c].read # category
=============================================================================
