----------------------------- MODULE Preferences -----------------------------
(***************************************************************************)
(* backend/internal/notifications: what a user says about notifications.   *)
(* Settings are stored one by one, for a channel, for a category on a      *)
(* channel or for an event on a channel; consents are appended; a device   *)
(* is registered as a push endpoint under the hash of its address, which   *)
(* only one active endpoint may have; inbox items are marked read.         *)
(* policy.Resolve decides from all this whether an event goes out on a     *)
(* channel.                                                                *)
(***************************************************************************)
EXTENDS Requests, FiniteSets, Sequences

CONSTANTS
  SettingKeys,      \* <<channel, scope, key>> that are stored
  Owners,           \* users who register the same device
  InboxItems,
  MaxEndpointRows,  \* bound: rows of push_endpoints
  MaxTime           \* bound: times at which items are read

VARIABLES
  settings,    \* notifications.preference_settings: "unset", TRUE or FALSE
  overlaid,    \* keys that others have written while a patch ran
  consent,     \* the latest of notifications.consent_decisions
  endpoints,   \* rows of notifications.push_endpoints for the device
  readAt,      \* notifications.inbox_items: read_at, 0 for unread
  now

settingVars == <<settings, overlaid, consent>>
preferenceVars == <<settingVars, endpoints, readAt, now>>

PreferencesInit ==
  /\ settings = [k \in SettingKeys |-> "unset"]
  /\ overlaid = [c \in Clients |-> {}]
  /\ consent = "none"
  /\ endpoints = <<>>
  /\ readAt = [i \in InboxItems |-> 0]
  /\ now = 1

-----------------------------------------------------------------------------
(* The catalogue and the decision *)

\* EventSpec: a security event, one of a transaction, a message, and marketing
Events == {"login", "offer", "message", "campaign"}
Category(e) == CASE e = "login" -> "security" [] e = "offer" -> "offers" [] e = "message" -> "messages" [] OTHER -> "marketing"
Channels == {"in_app", "email", "push", "sms"}
AllowedChannels(e) ==
  CASE e = "message" -> {"in_app", "push"} [] e = "campaign" -> Channels [] OTHER -> {"in_app", "email", "push"}
RequiredChannels(e) == IF e \in {"login", "offer"} THEN {"in_app"} ELSE {}
ConsentRequired(e) == e = "campaign"

\* catalogChannelDefault, catalogCategoryDefault
ChannelDefault(ch) == ch # "sms"
CategoryDefault(cat) == cat # "marketing"

\* lookup, channelOn, categoryOn, eventOverride
Setting(k, default) ==
  IF k \in SettingKeys THEN (IF settings[k] = "unset" THEN default ELSE settings[k] = "on") ELSE default
Wanted(e, ch) ==
  /\ Setting(<<ch, "channel", "*">>, ChannelDefault(ch))
  /\ Category(e) # "security" => Setting(<<ch, "category", Category(e)>>, CategoryDefault(Category(e)))
  /\ Setting(<<ch, "event", e>>, TRUE)

\* consentTypeFor: all but in_app have a type; latestConsent
Consented(ch) == ch = "in_app" \/ consent = "granted"

\* channelReady: the contacts are verified; push needs an active endpoint.
Ready(ch, u) == ch = "push" => \E n \in DOMAIN endpoints : endpoints[n].user = u /\ endpoints[n].active

\* Resolve, for an account that is not disabled
Eligible(e, ch, u) ==
  /\ ch \in AllowedChannels(e)
  /\ Ready(ch, u)
  /\ ConsentRequired(e) => Consented(ch)
  /\ ch \notin RequiredChannels(e) => Wanted(e, ch)

-----------------------------------------------------------------------------
(* Settings and consents *)

\* ValidatePreferenceOverride
OverrideAllowed(k, on) ==
  LET ch == k[1] IN
  CASE k[2] = "channel"  -> ~(ch = "in_app" /\ on = "off")
    [] k[2] = "category" -> ~(k[3] = "security" /\ on = "off")
    [] k[2] = "event"    -> /\ Category(k[3]) # "security"
                            /\ ch \in AllowedChannels(k[3])
                            /\ ~(ch \in RequiredChannels(k[3]) /\ on = "off")

\* PatchPreferences: the whole patch is checked first ...
PatchPreferences(c, patch) ==
  /\ call[c] = Idle
  /\ DOMAIN patch # {} /\ \A k \in DOMAIN patch : OverrideAllowed(k, patch[k])
  /\ Proceed(c, [op |-> "patch", patch |-> patch, left |-> DOMAIN patch])
  /\ UNCHANGED <<published, preferenceVars>>

\* ... and then UpsertPreferenceSetting for each setting, in the order of the
\* patch and in no transaction.
UpsertPreferenceSetting(c, k) ==
  /\ call[c].op = "patch" /\ k \in call[c].left
  /\ settings' = [settings EXCEPT ![k] = call[c].patch[k]]
  /\ overlaid' = [d \in Clients |-> IF d # c /\ call[d].op = "patch" THEN overlaid[d] \cup {k} ELSE overlaid[d]]
  /\ Proceed(c, [call[c] EXCEPT !.left = @ \ {k}])
  /\ UNCHANGED <<published, consent, endpoints, readAt, now>>

PatchDone(c) ==
  /\ call[c].op = "patch" /\ call[c].left = {}
  /\ overlaid' = [overlaid EXCEPT ![c] = {}]
  /\ Return(c)
  /\ UNCHANGED <<published, settings, consent, endpoints, readAt, now>>

\* An upsert fails: what was stored before it stays.
PatchFails(c) ==
  /\ call[c].op = "patch" /\ call[c].left # {}
  /\ overlaid' = [overlaid EXCEPT ![c] = {}]
  /\ Return(c)
  /\ UNCHANGED <<published, settings, consent, endpoints, readAt, now>>

\* RecordConsent: a decision is appended, and the latest counts.
RecordConsent(c, decision) ==
  /\ call[c] = Idle
  /\ consent' = decision
  /\ UNCHANGED <<call, published, settings, overlaid, endpoints, readAt, now>>

SettingsNext ==
  \E c \in Clients :
    \/ PatchDone(c) \/ PatchFails(c)
    \/ \E k \in SettingKeys : UpsertPreferenceSetting(c, k)
    \/ \E K \in SUBSET SettingKeys : \E patch \in [K -> {"on", "off"}] : PatchPreferences(c, patch)
    \/ \E d \in {"granted", "withdrawn"} : RecordConsent(c, d)

-----------------------------------------------------------------------------
(* Push endpoints and the inbox *)

ActiveRow(n) == n \in DOMAIN endpoints /\ endpoints[n].active

\* Register: GetPushEndpointByHash, then GetPushEndpointByHashAny.  A device
\* that is active for somebody else is refused.
RegisterEndpoint(c, u) ==
  /\ call[c] = Idle
  /\ \A n \in DOMAIN endpoints : ActiveRow(n) => endpoints[n].user = u
  /\ LET active == {n \in DOMAIN endpoints : ActiveRow(n)}
         own == {n \in DOMAIN endpoints : endpoints[n].user = u}
         found == IF active # {} THEN active ELSE own
     IN Proceed(c, IF found = {} THEN [op |-> "insert-endpoint", user |-> u]
                   ELSE [op |-> "refresh", user |-> u, id |-> CHOOSE n \in found : \A m \in found : m <= n])
  /\ UNCHANGED <<published, preferenceVars>>

\* notifications_push_endpoints_active_hash_uidx
MayActivate(n) == \A m \in DOMAIN endpoints : ActiveRow(m) => m = n

\* InsertPushEndpoint.  When the hash is active by then, the index refuses the row;
\* Scan of the RETURNING row answers every error with ErrUnavailable, so that the
\* request ends, and never gets to the winner's row.
InsertEndpoint(c) ==
  /\ call[c].op = "insert-endpoint"
  /\ LET n == Len(endpoints) + 1 IN
       IF MayActivate(n)
         THEN /\ n <= MaxEndpointRows
              /\ endpoints' = Append(endpoints, [user |-> call[c].user, active |-> TRUE])
         ELSE UNCHANGED endpoints
  /\ Return(c)
  /\ UNCHANGED <<published, settingVars, readAt, now>>

\* sealAndRefresh: revoked_at = NULL, whatever it is by then.  Unavailable, too,
\* when another row of the hash is active.
RefreshEndpoint(c) ==
  /\ call[c].op = "refresh"
  /\ endpoints' = IF MayActivate(call[c].id) THEN [endpoints EXCEPT ![call[c].id].active = TRUE] ELSE endpoints
  /\ Return(c)
  /\ UNCHANGED <<published, settingVars, readAt, now>>

\* Revoke
RevokeEndpoint(c, n) ==
  /\ call[c] = Idle
  /\ ActiveRow(n)
  /\ endpoints' = [endpoints EXCEPT ![n].active = FALSE]
  /\ UNCHANGED <<call, published, settingVars, readAt, now>>

Clock ==
  /\ now < MaxTime
  /\ now' = now + 1
  /\ UNCHANGED <<call, published, settingVars, endpoints, readAt>>

\* MarkRead, MarkAllRead: the time is taken ...
StartReading(c, I) ==
  /\ call[c] = Idle
  /\ I # {}
  /\ Proceed(c, [op |-> "read", items |-> I, at |-> now])
  /\ UNCHANGED <<published, preferenceVars>>

\* ... and stored where there is none.
StoreReadAt(c) ==
  /\ call[c].op = "read"
  /\ readAt' = [i \in InboxItems |-> IF i \in call[c].items /\ readAt[i] = 0 THEN call[c].at ELSE readAt[i]]
  /\ Return(c)
  /\ UNCHANGED <<published, settingVars, endpoints, now>>

DevicesNext ==
  \/ Clock
  \/ \E c \in Clients :
       \/ InsertEndpoint(c) \/ RefreshEndpoint(c) \/ StoreReadAt(c)
       \/ \E u \in Owners : RegisterEndpoint(c, u)
       \/ \E n \in 1..MaxEndpointRows : RevokeEndpoint(c, n)
       \/ \E I \in {{i} : i \in InboxItems} \cup {InboxItems} : StartReading(c, I)

-----------------------------------------------------------------------------
\* Whatever is patched, granted and registered: an event goes out on the
\* channels it must go out on, marketing goes out only with consent, and a
\* device is active for one endpoint, however many requests register it.
PreferenceStory ==
  /\ \A e \in Events, u \in Owners :
       /\ \A ch \in RequiredChannels(e) : Eligible(e, ch, u)
       /\ ConsentRequired(e) => \A ch \in Channels \ {"in_app"} : Eligible(e, ch, u) => consent = "granted"
  /\ Cardinality({n \in DOMAIN endpoints : ActiveRow(n)}) <= 1

\* A patch that is answered is in force, except for settings that another patch
\* has written meanwhile; an item that was read keeps the time of its first
\* reading.
PreferenceSteps ==
  /\ \A c \in Clients :
       call[c].op = "patch" /\ call[c].left = {} /\ call'[c] = Idle =>
         \A k \in DOMAIN call[c].patch \ overlaid[c] : settings[k] = call[c].patch[k]
  /\ \A i \in InboxItems : readAt[i] # 0 => readAt'[i] = readAt[i]
=============================================================================
