\* Two requests under way over one identifier, beginning with no account, an
\* account with a password, one with passkeys, or one that is logged in.
SPECIFICATION Spec
CONSTANTS
  Clients = {c1, c2}
  Users = {u1, u2}
  NoUser = nobody
  Idents = {i1}
  ChallengeIds = {1, 2}
  SessionIds = {1, 2}
  NoSession = 0
  PasskeyIds = {1, 2}
  CeremonyIds = {1, 2}
  Stories = {"new", "password", "passkeys", "logged_in"}
  MaxAttempts = 1
  DestinationMax = 1
  MaxPassword = 2
  MaxCount = 1
  Budget = 3
SYMMETRY Symmetry
CONSTRAINT WithinBudget
INVARIANTS
  AccountStory
  ResetEndsSessions
  CredentialStory
PROPERTIES
  CountsNeverFall
CHECK_DEADLOCK FALSE
