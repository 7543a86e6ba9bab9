------------------------------ MODULE Profiles ------------------------------
(***************************************************************************)
(* backend/internal/identity/publicprofile: the public profile of a user.  *)
(* Its row, with the public id under which others know the user, is made   *)
(* by the first request that needs it.  The user changes the display name, *)
(* which nothing versions; staff hide and restore the profile with a write *)
(* that holds only if updated_at is the one that was read.                 *)
(***************************************************************************)
EXTENDS Requests, FiniteSets

CONSTANTS
  DisplayNames,     \* NormalizeDisplayName gives one of these
  InsertAttempts,   \* publicIDInsertAttempts
  MaxPublicIds,     \* bound: public ids generated
  MaxProfileVer     \* bound: writes of the row

VARIABLES
  accountOpen,   \* EligibleForSession of the user
  profile,       \* identity.public_profiles of the user
  publicIds,     \* public ids generated so far
  handedOut,     \* public ids that some answer has named
  ruled          \* the last state that staff were told is in force

profileVars == <<accountOpen, profile, publicIds, handedOut, ruled>>

ModerationStates == {"none", "restricted", "removed"}
NoProfile == [id |-> 0, name |-> "unset", state |-> "none", ver |-> 0]

ProfilesInit ==
  /\ accountOpen = TRUE
  /\ profile = NoProfile
  /\ publicIds = 0
  /\ handedOut = {}
  /\ ruled = "none"

\* hidesPublic, publiclyVisible
HidesPublic(row) == row.state # "none"

\* The account is disabled or deleted.
AccountCloses ==
  /\ accountOpen
  /\ accountOpen' = FALSE
  /\ UNCHANGED <<call, published, profile, publicIds, handedOut, ruled>>

-----------------------------------------------------------------------------
\* What a request wants of the profile: getMe, patchMe, ResolveByUserID.
Wishes == {[op |-> "me"], [op |-> "resolve"]} \cup {[op |-> "rename", name |-> n] : n \in DisplayNames}

\* ensureEligible, and ensureRow as far as GetByUserID
EnsureEligible(c, wish) ==
  /\ call[c] = Idle
  /\ accountOpen
  /\ Proceed(c, [op |-> IF profile = NoProfile THEN "insert" ELSE wish.op, wish |-> wish, tries |-> 0])
  /\ UNCHANGED <<published, profileVars>>

\* Insert: ON CONFLICT (user_id) DO NOTHING
Stored(id) == IF profile = NoProfile THEN [NoProfile EXCEPT !.id = id, !.ver = 1] ELSE profile

\* ensureRow, an attempt: a fresh id.  The answer of the database may be lost
\* after the commit; then, or if there was none, another id is tried.
InsertProfile(c) ==
  /\ call[c].op = "insert"
  /\ publicIds < MaxPublicIds
  /\ publicIds' = publicIds + 1
  /\ \/ profile' = Stored(publicIds') /\ Proceed(c, [call[c] EXCEPT !.op = call[c].wish.op])
     \/ /\ profile' \in {profile, Stored(publicIds')}
        /\ IF call[c].tries + 1 < InsertAttempts THEN Proceed(c, [call[c] EXCEPT !.tries = @ + 1]) ELSE Return(c)
  /\ UNCHANGED <<published, accountOpen, handedOut, ruled>>

\* GetMe: the row is read, again after an insert, and answered; after a rename
\* the account is looked at again.
AnswerMe(c) ==
  /\ call[c].op = "me"
  /\ handedOut' = IF call[c].wish.op = "rename" /\ ~accountOpen THEN handedOut ELSE handedOut \cup {profile.id}
  /\ Return(c)
  /\ UNCHANGED <<published, accountOpen, profile, publicIds, ruled>>

\* publicViewIfVisible: the view is taken from one read ...
TakeView(c) ==
  /\ call[c].op = "resolve"
  /\ Proceed(c, [op |-> "view", seen |-> profile])
  /\ UNCHANGED <<published, profileVars>>

\* ... and shown if a second read does not find the profile hidden.
ShowView(c) ==
  /\ call[c].op = "view"
  /\ handedOut' = IF HidesPublic(profile) THEN handedOut ELSE handedOut \cup {call[c].seen.id}
  /\ Return(c)
  /\ UNCHANGED <<published, accountOpen, profile, publicIds, ruled>>

\* UpdateMe: UpdateDisplayName, then GetMe
UpdateDisplayName(c) ==
  /\ call[c].op = "rename"
  /\ profile.ver < MaxProfileVer
  /\ profile' = [profile EXCEPT !.name = call[c].wish.name, !.ver = @ + 1]
  /\ Proceed(c, [call[c] EXCEPT !.op = "me"])
  /\ UNCHANGED <<published, accountOpen, publicIds, handedOut, ruled>>

-----------------------------------------------------------------------------
\* ApplyModerationState and ClearModerationState: the row is read by its public
\* id, whether or not the account is open ...
ModerateProfile(c, s) ==
  /\ call[c] = Idle
  /\ profile # NoProfile
  /\ Proceed(c, [op |-> "moderate", from |-> profile, to |-> s])
  /\ UNCHANGED <<published, profileVars>>

\* ApplyModeration, ClearModeration: the row as it was read, in the new state
Moderated(row, s) == [row EXCEPT !.state = s, !.ver = @ + 1]

\* ... and UpdateModeration writes its state and updated_at, or answers a conflict.
UpdateModeration(c) ==
  /\ call[c].op = "moderate"
  /\ profile.ver < MaxProfileVer
  /\ IF Fresh(profile, call[c].from.ver)
       THEN profile' = Moderated(profile, call[c].to) /\ ruled' = call[c].to
       ELSE UNCHANGED <<profile, ruled>>
  /\ Return(c)
  /\ UNCHANGED <<published, accountOpen, publicIds, handedOut>>

ProfilesNext ==
  \/ AccountCloses
  \/ \E c \in Clients :
       \/ InsertProfile(c) \/ AnswerMe(c) \/ TakeView(c) \/ ShowView(c) \/ UpdateDisplayName(c) \/ UpdateModeration(c)
       \/ \E w \in Wishes : EnsureEligible(c, w)
       \/ \E s \in ModerationStates : ModerateProfile(c, s)

-----------------------------------------------------------------------------
\* The first requests of a user may all insert a profile at once, and an insert
\* may commit without its answer: still no two public ids are ever handed out,
\* and the one that was is the one of the row.  The state of the row is the one
\* that staff were last told is in force, also when the user is being renamed.
ProfileStory ==
  /\ handedOut \subseteq {profile.id} \ {0}
  /\ profile.state = ruled
=============================================================================
