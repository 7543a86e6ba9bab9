\* Two requests at a time in each part.
SPECIFICATION CommunitySpec
CONSTANTS
  Clients = {c1, c2}
  MaxMessages = 3
  MaxRowVer = 3
  ReportIds = {1, 2}
  CaseIds = {1, 2}
  Priorities = {"normal", "high"}
  Staff = {s1}
  Nobody = Nobody
  MaxEvidence = 1
  Attempts = {1, 2}
  MaxVersion = 3
  MaxDay = 3
  MaxDecisions = 2
  Rows = {1, 2, 3, 4}
  MaxKey = 2
  Limit = 2
  MaxChanges = 2
  Favourable = {1, 2}
  DisplayNames = {"a"}
  InsertAttempts = 2
  MaxPublicIds = 3
  MaxProfileVer = 4
  SettingKeys <- MCSettingKeys
  Owners = {u1, u2}
  InboxItems = {i1, i2}
  MaxEndpointRows = 3
  MaxTime = 2
  AuthOps = {"password_login", "passkey_login_begin", "passkey_login_finish", "signup_finish", "signup_complete", "passkey_remove", "password_reauth"}
  Challenged = {"passkey_login_finish", "signup_finish"}
  LoginIdents = {"mail", "phone", "unknown"}
  KnownIdents = {"mail", "phone"}
  BucketMax <- MCBucketMax
  Window = 2
  MaxAsked = 2
  MaxNow = 2
  Versions = {1, 2}
INVARIANTS
  RecordsAgree
  PagesAreComplete
PROPERTIES
  StaleReadsOnlyOverlap
CONSTRAINT SecondIsPlain
SYMMETRY Symmetry
CHECK_DEADLOCK FALSE
