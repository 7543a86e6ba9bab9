-------------------------------- MODULE Abuse --------------------------------
(***************************************************************************)
(* identity.AbuseEngine in front of the authentication handlers: counters  *)
(* in Valkey, one per operation, dimension and subject, and the human      *)
(* challenge.  A counter is one atomic increment whose time to live is set *)
(* when the key appears, and it is compared afterwards; a login counts its *)
(* address and identifier before it looks for the account and the account  *)
(* after it.  Operations share no counter but that of a used challenge     *)
(* token, which the provider ties to one, so a behaviour is about one.     *)
(***************************************************************************)
EXTENDS Requests, Sequences, FiniteSets

CONSTANTS
  AuthOps,       \* the operations that are tried
  Challenged,    \* those that require the human challenge
  LoginIdents,   \* identifiers that are tried
  KnownIdents,   \* those of them that are verified, all by the same account
  BucketMax,     \* attempts per window of each configured bucket
  Window,        \* ticks of a window, and of a challenge's replay key
  MaxAsked,      \* bound: requests counted in a window of the address
  MaxNow         \* bound: ticks

ASSUME AbuseAssumption ==
  /\ IsFiniteSet(Clients)
  /\ KnownIdents \subseteq LoginIdents /\ KnownIdents # {}
  /\ LoginIdents \cap {"ip", "account", "proof", "session", "replay"} = {}
  /\ Window \in Nat \ {0}
  /\ {"ip", "account", "target", "complete", "sensitive"} \subseteq DOMAIN BucketMax
  /\ \A b \in DOMAIN BucketMax : BucketMax[b] \in Nat \ {0}

VARIABLES
  operation,    \* the operation of this behaviour
  counter,      \* the counters in Valkey
  instant

abuseVars == <<operation, counter, instant>>

\* One address, one account, one session, one proof and one challenge token.
Keys == {"ip", "account", "proof", "session", "replay"} \cup LoginIdents

\* n attempts in a window that ends at until; passed of them were let through.
\* The account's remembers which identifiers, in which window, they came with.
NoCounter == [n |-> 0, until |-> 0, passed |-> 0, seen |-> {}]

AbuseInit ==
  /\ operation \in AuthOps
  /\ counter = [k \in Keys |-> NoCounter]
  /\ instant = 0

\* For the parts of the server that are not about authentication.
AbuseDone ==
  /\ operation = "none"
  /\ counter = [k \in Keys |-> NoCounter]
  /\ instant = 0

\* BuildAuthAbusePolicy: the bucket of each dimension that an operation counts.
Sensitive ==
  {"passkey_register_begin", "passkey_register_finish", "passkey_remove", "step_up_begin", "step_up_finish",
   "session_revoke"}
For(op) ==
  CASE op = "password_login" -> [ip |-> "ip", target |-> "account", account |-> "account"]
    [] op = "passkey_login_finish" -> [ip |-> "ip", account |-> "account"]
    [] op \in {"signup_finish", "reset_verify"} -> [ip |-> "ip", target |-> "target"]
    [] op \in {"signup_complete", "reset_complete"} -> [ip |-> "ip", proof |-> "complete"]
    [] op \in Sensitive -> [ip |-> "ip", account |-> "sensitive", session |-> "sensitive"]
    [] op = "password_reauth" -> [ip |-> "ip", account |-> "account", session |-> "sensitive"]
    [] OTHER -> [ip |-> "ip"]

\* The calls of protect in the handler of an operation, each with its phases.
PhaseAll == {"ip", "target", "account", "proof", "session", "challenge"}
Phases(op) ==
  CASE op = "password_login" -> <<{"ip", "target", "challenge"}, {"account"}>>
    [] op = "passkey_login_finish" -> <<{"ip", "challenge"}, {"account"}>>
    [] op \in {"passkey_login_begin", "signup_start", "reset_start"} -> <<{"ip", "challenge"}>>
    [] op \in {"signup_finish", "reset_verify"} -> <<{"ip", "target", "challenge"}>>
    [] op \in {"signup_complete", "reset_complete"} -> <<{"ip", "proof", "challenge"}>>
    [] OTHER -> <<PhaseAll>>

\* Evaluate: the dimensions in their order, then the challenge.
Counted(op, phase, d) == IF d \in phase \cap DOMAIN For(op) THEN <<d>> ELSE <<>>
Challenge(op, phase) == IF "challenge" \in phase /\ op \in Challenged THEN <<"verify", "replay">> ELSE <<>>

Evaluate(op, phase) ==
  Counted(op, phase, "ip") \o Counted(op, phase, "target") \o Counted(op, phase, "account")
    \o Counted(op, phase, "proof") \o Counted(op, phase, "session") \o Challenge(op, phase)

ChecksOf(op) ==
  LET phases == Phases(op)
  IN  IF Len(phases) = 1 THEN Evaluate(op, phases[1])
      ELSE Evaluate(op, phases[1]) \o <<"resolve">> \o Evaluate(op, phases[2])

Subject(check, ident) == IF check = "target" THEN ident ELSE check

\* The answer names the limit.
LimitedBy ==
  [ip |-> "limited_ip", target |-> "limited_target", account |-> "limited_account",
   proof |-> "limited_proof", session |-> "limited_session"]

\* The replay key admits one request.
MaxOf(check) == IF check = "replay" THEN 1 ELSE BucketMax[For(operation)[check]]

-----------------------------------------------------------------------------
(* Valkey *)

Seen(k, f) == IF k = "account" THEN {<<f.ident, f.window>>} ELSE {}

\* INCR, and PEXPIRE when the key was created.
Incremented(k, f) ==
  IF counter[k] # NoCounter THEN [counter[k] EXCEPT !.n = @ + 1, !.seen = @ \cup Seen(k, f)]
  ELSE [n |-> 1, until |-> instant + Window, passed |-> 0, seen |-> Seen(k, f)]

\* Time passes, and Valkey drops the keys that expire.
Tick ==
  /\ instant < MaxNow
  /\ instant' = instant + 1
  /\ counter' = [k \in Keys |-> IF instant' < counter[k].until THEN counter[k] ELSE NoCounter]
  /\ UNCHANGED <<call, operation>>

-----------------------------------------------------------------------------
(* A request *)

\* Only where the account is counted too do several identifiers make a difference.
IdentsOf(op) == IF {"target", "account"} \subseteq DOMAIN For(op) THEN LoginIdents ELSE {CHOOSE i \in KnownIdents : TRUE}

AskAuth(c) ==
  /\ call[c] = Idle
  /\ counter["ip"].n < MaxAsked
  /\ \E ident \in IdentsOf(operation), token \in (IF operation \in Challenged THEN {"none", "given"} ELSE {"none"}) :
       Proceed(c, [op |-> "auth", ident |-> ident, token |-> token, checks |-> ChecksOf(operation),
                   window |-> 0])
  /\ UNCHANGED abuseVars

AnswerAuth(c, answer) == Proceed(c, [op |-> "answered", answer |-> answer, excused |-> TRUE])

\* The request goes on to its next check, or is let through.
GoOn(c, f) ==
  IF Len(f.checks) = 1 THEN AnswerAuth(c, "allowed") ELSE Proceed(c, [f EXCEPT !.checks = Tail(@)])

\* The account has counted an attempt that the identifier has not: one with another
\* identifier, or one that the identifier counted in another window.
Excused(f) ==
  \E a \in counter["account"].seen \cup {<<f.ident, f.window>>} :
    a # <<f.ident, counter[f.ident].until>>

\* checkDimension, consumeChallengeReplay: count, then compare.
CheckDimension(c) ==
  LET f == call[c]
      check == Head(f.checks)
      k == Subject(check, f.ident)
      next == Incremented(k, f)
  IN  /\ check \notin {"verify", "resolve"}
      /\ IF next.n > MaxOf(check)
         THEN /\ counter' = [counter EXCEPT ![k] = next]
              /\ Proceed(c, [op |-> "answered", excused |-> Excused(f),
                             answer |-> IF check = "replay" THEN "forbidden" ELSE LimitedBy[check]])
         ELSE /\ counter' = [counter EXCEPT ![k] = [next EXCEPT !.passed = @ + 1]]
              /\ GoOn(c, [f EXCEPT !.window = IF check = "target" THEN next.until ELSE @])
      /\ UNCHANGED <<operation, instant>>

\* Valkey does not answer; it may have counted.
CounterFails(c) ==
  LET k == Subject(Head(call[c].checks), call[c].ident)
  IN  /\ Head(call[c].checks) \notin {"verify", "resolve"}
      /\ counter' \in {counter, [counter EXCEPT ![k] = Incremented(k, call[c])]}
      /\ AnswerAuth(c, "unavailable")
      /\ UNCHANGED <<operation, instant>>

\* Adapter.Verify: accepted, refused (a bad token, another action or host), or no
\* answer that can be read.
Verdicts == {"ok", "forbidden", "unavailable"}

\* evaluateChallenge: no token, one that the provider refuses, or accepts.
EvaluateChallenge(c) ==
  /\ Head(call[c].checks) = "verify"
  /\ IF call[c].token = "none"
     THEN AnswerAuth(c, "challenge_required")
     ELSE \E v \in Verdicts : IF v = "ok" THEN GoOn(c, call[c]) ELSE AnswerAuth(c, v)
  /\ UNCHANGED abuseVars

\* ResolveVerified, or FinishAuthentication for a passkey.
ResolveAccount(c) ==
  /\ Head(call[c].checks) = "resolve"
  /\ \/ call[c].ident \in KnownIdents /\ GoOn(c, call[c])
     \/ AnswerAuth(c, IF call[c].ident \in KnownIdents THEN "unavailable" ELSE "unauthenticated")
  /\ UNCHANGED abuseVars

AbuseNext ==
  /\ published' = published
  /\ \/ Tick
     \/ \E c \in Clients :
          \/ AskAuth(c)
          \/ /\ call[c].op = "auth"
             /\ CheckDimension(c) \/ CounterFails(c) \/ EvaluateChallenge(c) \/ ResolveAccount(c)
          \/ call[c].op = "answered" /\ Return(c) /\ UNCHANGED abuseVars

-----------------------------------------------------------------------------
(* Properties *)

Limited == {"ip", "replay"} \cup (DOMAIN For(operation) \ {"target"})

\* However many requests run at once, a window lets at most its maximum through,
\* and a challenge token one; and a login that is refused because of its account
\* alone, where one for an unknown identifier would not be, follows attempts with
\* another identifier of that account or in another window of the identifier.
AbuseStory ==
  /\ \A k \in LoginIdents : "target" \in DOMAIN For(operation) => counter[k].passed <= MaxOf("target")
  /\ \A k \in Limited : counter[k].passed <= MaxOf(k)
  /\ \A c \in Clients :
       call[c].op = "answered" /\ operation = "password_login" /\ call[c].answer = "limited_account" =>
         call[c].excused

\* Attempts that are refused do not put off the end of the window.
AbuseSteps ==
  \A k \in Keys : instant' < counter[k].until => counter'[k].until = counter[k].until
=============================================================================
