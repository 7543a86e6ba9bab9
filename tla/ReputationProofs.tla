-------------------------- MODULE ReputationProofs --------------------------
(***************************************************************************)
(* Verified interactions, reviews and their projections, for any number of *)
(* appointments, flows, challenges, users, requests and workers.           *)
(*                                                                         *)
(* What is decided in verified and reviews never changes and its event     *)
(* stays, so what a request has read, and what the projectors counted long *)
(* ago, still holds.  An event is counted once because a projector that    *)
(* has not applied it holds it alone from markProcessed to its commit.     *)
(***************************************************************************)
EXTENDS Reputation, TLAPS, FiniteSetTheorems

-----------------------------------------------------------------------------
(* Verified and reviews: the inductive invariant *)

AppointmentStatuses == {"none", "requested", "accepted", "rejected", "cancelled", "completed"}
FlowStatuses == {"none", "open", "completed"}
ChallengeRow == [of : Scopes, expires : Nat, consumed : BOOLEAN]
ReviewRow == [at : 1..MaxTime, accuracy : Ratings, service : Ratings]
Events == {"interaction", "review"} \X Scopes

RowsOK ==
  /\ now \in 1..MaxTime
  /\ scope \in [Scopes -> AppointmentStatuses \cup FlowStatuses]
  /\ \A s \in Appointments : scope[s] \in AppointmentStatuses
  /\ \A s \in Flows : scope[s] \in FlowStatuses
  /\ interaction \in [Scopes -> 0..MaxTime]
  /\ challenge \in [ChallengeIds -> ChallengeRow \cup {NoChallenge}]
  /\ review \in [Scopes -> ReviewRow \cup {NoReview}]
  /\ published \subseteq Events
  /\ \A s \in Scopes : <<"review", s>> \in published => review[s] # NoReview

\* What a request knows; challenges are never taken away and keep their scope.
CallKnows(f, rows, met) ==
  /\ f.op = "appointment" => /\ f.id \in Appointments /\ f.from \in {"requested", "accepted"}
                             /\ f.next \in {"accepted", "rejected", "cancelled"}
  /\ f.op \in {"replace", "replacing"} => f.id \in Appointments /\ f.at \in 1..MaxTime
  /\ f.op = "replacing" => \A k \in f.seen : k \in ChallengeIds /\ rows[k] # NoChallenge
  /\ f.op = "finish" => /\ f.id \in Scopes /\ f.at \in 1..MaxTime /\ f.token \in ChallengeIds
                        /\ rows[f.token] # NoChallenge /\ rows[f.token].of = f.id
  /\ f.op = "review" => f.id \in Appointments /\ met[f.id] # 0 /\ f.row \in ReviewRow

CallsOK == DOMAIN call = Clients /\ \A c \in Clients : CallKnows(call[c], challenge, interaction)

\* A scope is completed with its interaction, its event and one consumed
\* challenge, or has none of them.
ConsumedOf(s, rows) == {k \in ChallengeIds : rows[k] # NoChallenge /\ rows[k].of = s /\ rows[k].consumed}
Story(s, statuses, met, keys, rows) ==
  IF statuses[s] = "completed"
    THEN met[s] # 0 /\ <<"interaction", s>> \in keys /\ \E k : ConsumedOf(s, rows) = {k}
    ELSE met[s] = 0 /\ <<"interaction", s>> \notin keys /\ ConsumedOf(s, rows) = {}

StoriesOK == \A s \in Scopes : Story(s, scope, interaction, published, challenge)

SourceInv == RowsOK /\ CallsOK /\ StoriesOK

ChallengesMove(rows, next) ==
  \A k \in ChallengeIds : rows[k] # NoChallenge => next[k] # NoChallenge /\ next[k].of = rows[k].of

LEMMA Pairs == \A a, b, x, y : <<a, x>> = <<b, y>> <=> a = b /\ x = y
OBVIOUS

LEMMA CallStays ==
  ASSUME NEW f, CallKnows(f, challenge, interaction), RowsOK,
         ChallengesMove(challenge, challenge'), OutcomesStay
  PROVE  CallKnows(f, challenge', interaction')
BY DEF CallKnows, ChallengesMove, OutcomesStay, Scopes

LEMMA IdleKnows == \A rows, met : CallKnows(Idle, rows, met)
BY DEF CallKnows, Idle

\* What a request's step has to show.
LEMMA CallsKeep ==
  ASSUME SourceInv, ChallengesMove(challenge, challenge'), OutcomesStay,
         \/ UNCHANGED call
         \/ \E c \in Clients : \E f :
              call' = [call EXCEPT ![c] = f] /\ CallKnows(f, challenge', interaction')
  PROVE  CallsOK'
<1>1. \A c \in Clients : CallKnows(call[c], challenge', interaction')
  BY CallStays DEF SourceInv, CallsOK
<1> QED
  BY <1>1 DEF SourceInv, CallsOK

\* A step of a request that writes no row.
LEMMA RequestReads ==
  ASSUME SourceInv, NEW c \in Clients, NEW f, call' = [call EXCEPT ![c] = f],
         CallKnows(f, challenge, interaction),
         UNCHANGED <<now, scope, challenge, interaction, review, published>>
  PROVE  SourceInv' /\ OutcomesStay
<1>1. RowsOK' /\ StoriesOK' /\ OutcomesStay /\ ChallengesMove(challenge, challenge')
  BY DEF SourceInv, RowsOK, StoriesOK, Story, ConsumedOf, OutcomesStay, ChallengesMove
<1>2. CallKnows(f, challenge', interaction')
  OBVIOUS
<1> QED
  BY <1>1, <1>2, CallsKeep DEF SourceInv

LEMMA SourceInit == Init => SourceInv
<1> SUFFICES ASSUME Init
             PROVE  SourceInv
  OBVIOUS
<1>1. /\ now = 1 /\ scope = [s \in Scopes |-> "none"] /\ challenge = [k \in ChallengeIds |-> NoChallenge]
      /\ interaction = [s \in Scopes |-> 0] /\ review = [s \in Scopes |-> NoReview]
      /\ call = [c \in Clients |-> Idle] /\ published = {}
  BY DEF Init, VerifiedInit, ReviewsInit
<1>2. RowsOK
  BY <1>1, VerifiedAssumption DEF RowsOK, AppointmentStatuses, FlowStatuses, Scopes, Events
<1>3. CallsOK
  BY <1>1, IdleKnows DEF CallsOK
<1>4. StoriesOK
  BY <1>1 DEF StoriesOK, Story, ConsumedOf
<1> QED
  BY <1>2, <1>3, <1>4 DEF SourceInv

-----------------------------------------------------------------------------
(* The steps of verified *)

LEMMA TickStep ==
  ASSUME SourceInv, Tick, UNCHANGED review
  PROVE  SourceInv' /\ OutcomesStay
<1>1. /\ now' = now + 1 /\ now < MaxTime
      /\ UNCHANGED <<scope, challenge, interaction, call, published, review>>
  BY DEF Tick
<1>2. RowsOK'
  BY <1>1, VerifiedAssumption DEF SourceInv, RowsOK
<1> QED
  BY <1>1, <1>2 DEF SourceInv, CallsOK, StoriesOK, Story, ConsumedOf, OutcomesStay

\* Status changes that complete nothing.
LEMMA ScopeMoves ==
  ASSUME SourceInv, NEW s \in Scopes, NEW next, scope' = [scope EXCEPT ![s] = next],
         scope[s] \notin {"rejected", "cancelled", "completed"}, next # "completed",
         s \in Appointments => next \in AppointmentStatuses, s \in Flows => next \in FlowStatuses,
         UNCHANGED <<now, interaction, review, published>>,
         challenge' \in [ChallengeIds -> ChallengeRow \cup {NoChallenge}],
         ChallengesMove(challenge, challenge'),
         \A r \in Scopes : ConsumedOf(r, challenge') = ConsumedOf(r, challenge),
         \/ UNCHANGED call
         \/ \E c \in Clients : \E f :
              call' = [call EXCEPT ![c] = f] /\ CallKnows(f, challenge', interaction')
  PROVE  SourceInv' /\ OutcomesStay
<1>1. RowsOK'
  BY DEF SourceInv, RowsOK, Scopes
<1>2. OutcomesStay
  BY DEF SourceInv, RowsOK, OutcomesStay
<1>3. StoriesOK'
  BY DEF SourceInv, RowsOK, StoriesOK, Story
<1> QED
  BY <1>1, <1>2, <1>3, CallsKeep DEF SourceInv

LEMMA AppointmentCreateStep ==
  ASSUME SourceInv, NEW s \in Appointments, AppointmentCreate(s), UNCHANGED review
  PROVE  SourceInv' /\ OutcomesStay
<1>1. /\ scope[s] = "none" /\ scope' = [scope EXCEPT ![s] = "requested"]
      /\ UNCHANGED <<now, challenge, interaction, call, published>>
  BY DEF AppointmentCreate
<1>2. ChallengesMove(challenge, challenge') /\ s \in Scopes /\ s \notin Flows
  BY <1>1, VerifiedAssumption DEF ChallengesMove, Scopes
<1>3. challenge' \in [ChallengeIds -> ChallengeRow \cup {NoChallenge}]
  BY <1>1 DEF SourceInv, RowsOK
<1>4. \A r \in Scopes : ConsumedOf(r, challenge') = ConsumedOf(r, challenge)
  BY <1>1
<1>5. "requested" \in AppointmentStatuses
  BY DEF AppointmentStatuses
<1> QED
  BY <1>1, <1>2, <1>3, <1>4, <1>5, ScopeMoves

LEMMA AppointmentReadStep ==
  ASSUME SourceInv, NEW c \in Clients, NEW s \in Appointments,
         NEW next \in {"accepted", "rejected", "cancelled"}, AppointmentRead(c, s, next), UNCHANGED review
  PROVE  SourceInv' /\ OutcomesStay
<1> DEFINE f == [op |-> "appointment", id |-> s, from |-> scope[s], next |-> next]
<1>1. /\ call' = [call EXCEPT ![c] = f] /\ scope[s] \in AppointmentFrom(next)
      /\ UNCHANGED <<now, scope, challenge, interaction, published>>
  BY DEF AppointmentRead, Proceed
<1>2. CallKnows(f, challenge, interaction)
  BY <1>1 DEF CallKnows, AppointmentFrom
<1> HIDE DEF f
<1> QED
  BY <1>1, <1>2, RequestReads

LEMMA AppointmentWriteStep ==
  ASSUME SourceInv, NEW c \in Clients, AppointmentWrite(c), UNCHANGED review
  PROVE  SourceInv' /\ OutcomesStay
<1> DEFINE s == call[c].id
           next == IF scope[s] = call[c].from THEN call[c].next ELSE scope[s]
<1>1. /\ call[c].op = "appointment" /\ scope' = [scope EXCEPT ![s] = next]
      /\ call' = [call EXCEPT ![c] = Idle]
      /\ UNCHANGED <<now, challenge, interaction, published>>
  BY DEF AppointmentWrite, Return
<1>2. /\ s \in Appointments /\ call[c].from \in {"requested", "accepted"}
      /\ call[c].next \in {"accepted", "rejected", "cancelled"}
  BY <1>1 DEF SourceInv, CallsOK, CallKnows
<1>3. /\ ChallengesMove(challenge, challenge') /\ s \in Scopes /\ s \notin Flows
      /\ challenge' \in [ChallengeIds -> ChallengeRow \cup {NoChallenge}]
      /\ \A r \in Scopes : ConsumedOf(r, challenge') = ConsumedOf(r, challenge)
  BY <1>1, <1>2, VerifiedAssumption DEF ChallengesMove, Scopes, SourceInv, RowsOK
<1>4. CASE scope[s] = call[c].from
  <2>1. next = call[c].next
    BY <1>4
  <2>2. next # "completed" /\ next \in AppointmentStatuses
    BY <1>2, <2>1 DEF AppointmentStatuses
  <2>3. scope[s] \notin {"rejected", "cancelled", "completed"}
    BY <1>2, <1>4
  <2> HIDE DEF next, s
  <2> QED
    BY <1>1, <1>3, <2>2, <2>3, ScopeMoves, IdleKnows
<1>5. CASE scope[s] # call[c].from
  <2>1. UNCHANGED scope
    BY <1>1, <1>5 DEF SourceInv, RowsOK
  <2> QED
    BY <1>1, <2>1, RequestReads, IdleKnows
<1> QED
  BY <1>4, <1>5

LEMMA StartCheckStep ==
  ASSUME SourceInv, NEW c \in Clients, NEW s \in Appointments, StartCheck(c, s), UNCHANGED review
  PROVE  SourceInv' /\ OutcomesStay
<1> DEFINE f == [op |-> "replace", id |-> s, at |-> now]
<1>1. call' = [call EXCEPT ![c] = f] /\ UNCHANGED <<now, scope, challenge, interaction, published>>
  BY DEF StartCheck, Proceed
<1>2. CallKnows(f, challenge, interaction)
  BY DEF CallKnows, SourceInv, RowsOK
<1> HIDE DEF f
<1> QED
  BY <1>1, <1>2, RequestReads

LEMMA ReplaceBeginStep ==
  ASSUME SourceInv, NEW c \in Clients, ReplaceBegin(c), UNCHANGED review
  PROVE  SourceInv' /\ OutcomesStay
<1> DEFINE f == [op |-> "replacing", id |-> call[c].id, at |-> call[c].at, seen |-> ChallengesOf(call[c].id)]
<1>1. /\ call[c].op = "replace" /\ call' = [call EXCEPT ![c] = f]
      /\ UNCHANGED <<now, scope, challenge, interaction, published>>
  BY DEF ReplaceBegin, Proceed
<1>2. call[c].id \in Appointments /\ call[c].at \in 1..MaxTime
  BY <1>1 DEF SourceInv, CallsOK, CallKnows
<1>3. CallKnows(f, challenge, interaction)
  BY <1>2 DEF CallKnows, ChallengesOf, Issued
<1> HIDE DEF f
<1> QED
  BY <1>1, <1>3, RequestReads

\* A new challenge is not consumed.
LEMMA NewChallengeRow ==
  ASSUME NEW s \in Scopes, NEW at \in Nat
  PROVE  /\ NewChallenge(s, at) \in ChallengeRow /\ ~NewChallenge(s, at).consumed
         /\ NewChallenge(s, at) # NoChallenge
BY VerifiedAssumption DEF NewChallenge, ChallengeRow, NoChallenge

LEMMA ReplaceCommitStep ==
  ASSUME SourceInv, NEW c \in Clients, ReplaceCommit(c), UNCHANGED review
  PROVE  SourceInv' /\ OutcomesStay
<1> DEFINE s == call[c].id
           at == call[c].at
           live == {k \in call[c].seen : ~challenge[k].consumed /\ challenge[k].expires > at}
           Ended(k) == [challenge[k] EXCEPT !.expires = at]
<1>1. PICK new \in ChallengeIds \ Issued :
        challenge' = [k \in ChallengeIds |->
          IF k = new THEN NewChallenge(s, at) ELSE IF k \in live THEN Ended(k) ELSE challenge[k]]
  BY DEF ReplaceCommit
<1>2. /\ call[c].op = "replacing" /\ call' = [call EXCEPT ![c] = Idle]
      /\ UNCHANGED <<now, scope, interaction, published>>
  BY DEF ReplaceCommit, Return
<1>3. /\ s \in Scopes /\ at \in Nat
      /\ \A k \in live : k \in ChallengeIds /\ challenge[k] # NoChallenge /\ ~challenge[k].consumed
  BY <1>2, VerifiedAssumption DEF SourceInv, CallsOK, CallKnows, Scopes
<1>4. \A k \in live : /\ Ended(k) \in ChallengeRow /\ Ended(k) # NoChallenge
                      /\ Ended(k).of = challenge[k].of /\ ~Ended(k).consumed
  <2> SUFFICES ASSUME NEW k \in live
               PROVE  /\ Ended(k) \in ChallengeRow /\ Ended(k) # NoChallenge
                      /\ Ended(k).of = challenge[k].of /\ ~Ended(k).consumed
    OBVIOUS
  <2>1. challenge[k] \in ChallengeRow /\ ~challenge[k].consumed
    BY <1>3 DEF SourceInv, RowsOK
  <2> QED
    BY <1>3, <2>1 DEF ChallengeRow, NoChallenge
<1>5. challenge[new] = NoChallenge
  BY DEF Issued
<1>6. \A k \in ChallengeIds :
        /\ challenge'[k] \in ChallengeRow \cup {NoChallenge}
        /\ challenge[k] # NoChallenge => challenge'[k] # NoChallenge /\ challenge'[k].of = challenge[k].of
        /\ challenge'[k] = challenge[k] \/ ~challenge'[k].consumed
        /\ challenge'[k] = challenge[k] \/ challenge[k] = NoChallenge \/ ~challenge[k].consumed
  <2> HIDE DEF Ended, live, s, at
  <2> QED
    BY <1>1, <1>3, <1>4, <1>5, NewChallengeRow DEF SourceInv, RowsOK
<1>7. RowsOK'
  BY <1>1, <1>2, <1>6 DEF SourceInv, RowsOK
<1>8. ChallengesMove(challenge, challenge') /\ OutcomesStay
  BY <1>2, <1>6 DEF ChallengesMove, OutcomesStay
<1>9. \A r \in Scopes : ConsumedOf(r, challenge') = ConsumedOf(r, challenge)
  BY <1>6 DEF ConsumedOf
<1>10. StoriesOK'
  BY <1>2, <1>9 DEF SourceInv, StoriesOK, Story
<1> QED
  BY <1>2, <1>7, <1>8, <1>10, IdleKnows, CallsKeep DEF SourceInv

LEMMA FlowStartStep ==
  ASSUME SourceInv, NEW s \in Flows, FlowStart(s), UNCHANGED review
  PROVE  SourceInv' /\ OutcomesStay
<1>1. /\ scope[s] = "none" /\ scope' = [scope EXCEPT ![s] = "open"]
      /\ UNCHANGED <<now, interaction, call, published>>
  BY DEF FlowStart
<1>2. PICK new \in ChallengeIds \ Issued : challenge' = [challenge EXCEPT ![new] = NewChallenge(s, now)]
  BY DEF FlowStart
<1>3. s \in Scopes /\ s \notin Appointments /\ now \in Nat /\ challenge[new] = NoChallenge
  BY VerifiedAssumption DEF Scopes, SourceInv, RowsOK, Issued
<1>4. challenge' \in [ChallengeIds -> ChallengeRow \cup {NoChallenge}]
  BY <1>2, <1>3, NewChallengeRow DEF SourceInv, RowsOK
<1>5. \A k \in ChallengeIds : challenge'[k] = IF k = new THEN NewChallenge(s, now) ELSE challenge[k]
  BY <1>2 DEF SourceInv, RowsOK
<1>6. ChallengesMove(challenge, challenge')
  BY <1>3, <1>5 DEF ChallengesMove
<1>7. \A r \in Scopes : ConsumedOf(r, challenge') = ConsumedOf(r, challenge)
  BY <1>3, <1>5, NewChallengeRow DEF ConsumedOf
<1>8. "open" \in FlowStatuses
  BY DEF FlowStatuses
<1> QED
  BY <1>1, <1>3, <1>4, <1>6, <1>7, <1>8, ScopeMoves

LEMMA FinishCheckStep ==
  ASSUME SourceInv, NEW c \in Clients, NEW k \in ChallengeIds, FinishCheck(c, k), UNCHANGED review
  PROVE  SourceInv' /\ OutcomesStay
<1> DEFINE f == [op |-> "finish", id |-> challenge[k].of, token |-> k, at |-> now]
<1>1. /\ challenge[k] # NoChallenge /\ call' = [call EXCEPT ![c] = f]
      /\ UNCHANGED <<now, scope, challenge, interaction, published>>
  BY DEF FinishCheck, Proceed
<1>2. challenge[k].of \in Scopes /\ now \in 1..MaxTime
  BY <1>1 DEF SourceInv, RowsOK, ChallengeRow
<1>3. CallKnows(f, challenge, interaction)
  BY <1>1, <1>2 DEF CallKnows
<1> HIDE DEF f
<1> QED
  BY <1>1, <1>3, RequestReads

LEMMA FinishWriteStep ==
  ASSUME SourceInv, NEW c \in Clients, FinishWrite(c), UNCHANGED review
  PROVE  SourceInv' /\ OutcomesStay
<1> DEFINE s == call[c].id
           k == call[c].token
           at == call[c].at
<1>1. call[c].op = "finish" /\ call' = [call EXCEPT ![c] = Idle] /\ UNCHANGED now
  BY DEF FinishWrite, Return
<1>2. CASE UNCHANGED <<scope, challenge, interaction, published>>
  BY <1>1, <1>2, RequestReads, IdleKnows
<1>3. CASE ~UNCHANGED <<scope, challenge, interaction, published>>
  <2>1. /\ Verifiable(s) /\ ~challenge[k].consumed
        /\ challenge' = [challenge EXCEPT ![k].consumed = TRUE]
        /\ scope' = [scope EXCEPT ![s] = "completed"]
        /\ interaction' = [interaction EXCEPT ![s] = at]
        /\ published' = published \cup {<<"interaction", s>>}
    BY <1>3 DEF FinishWrite, Finished, Usable
  <2>2. /\ s \in Scopes /\ at \in 1..MaxTime /\ k \in ChallengeIds
        /\ challenge[k] # NoChallenge /\ challenge[k].of = s
    BY <1>1 DEF SourceInv, CallsOK, CallKnows
  <2>3. scope[s] \in {"accepted", "open"}
    BY <2>1 DEF Verifiable
  <2>4. interaction[s] = 0 /\ ConsumedOf(s, challenge) = {}
    BY <2>2, <2>3 DEF SourceInv, StoriesOK, Story
  <2> DEFINE row == [challenge[k] EXCEPT !.consumed = TRUE]
  <2>5. row \in ChallengeRow /\ row # NoChallenge /\ row.of = s /\ row.consumed
    <3>1. challenge[k] \in ChallengeRow
      BY <2>2 DEF SourceInv, RowsOK
    <3> QED
      BY <2>2, <3>1 DEF ChallengeRow, NoChallenge
  <2>6. challenge' \in [ChallengeIds -> ChallengeRow \cup {NoChallenge}]
        /\ \A j \in ChallengeIds : challenge'[j] = IF j = k THEN row ELSE challenge[j]
    <3>1. challenge' = [challenge EXCEPT ![k] = row]
      BY <2>1
    <3> HIDE DEF row
    <3> QED
      BY <2>2, <2>5, <3>1 DEF SourceInv, RowsOK
  <2> HIDE DEF row, s, k, at
  <2>7. /\ ConsumedOf(s, challenge') = {k}
        /\ \A r \in Scopes : r # s => ConsumedOf(r, challenge') = ConsumedOf(r, challenge)
    BY <2>2, <2>4, <2>5, <2>6 DEF ConsumedOf
  <2>8. ChallengesMove(challenge, challenge')
    BY <2>2, <2>5, <2>6 DEF ChallengesMove
  <2>9. OutcomesStay
    BY <2>1, <2>2, <2>3, <2>4 DEF OutcomesStay, SourceInv, RowsOK
  <2>10. RowsOK'
    <3>1. /\ interaction' \in [Scopes -> 0..MaxTime] /\ now' \in 1..MaxTime
          /\ review' \in [Scopes -> ReviewRow \cup {NoReview}]
      BY <1>1, <2>1, <2>2 DEF SourceInv, RowsOK
    <3>2. /\ scope' \in [Scopes -> AppointmentStatuses \cup FlowStatuses]
          /\ \A r \in Appointments : scope'[r] \in AppointmentStatuses
          /\ \A r \in Flows : scope'[r] \in FlowStatuses
      BY <2>1, <2>2 DEF SourceInv, RowsOK, AppointmentStatuses, FlowStatuses, Scopes
    <3>3. /\ published' \subseteq Events
          /\ \A r \in Scopes : <<"review", r>> \in published' => review'[r] # NoReview
      BY <2>1, <2>2, Pairs DEF SourceInv, RowsOK, Events
    <3> QED
      BY <2>6, <3>1, <3>2, <3>3 DEF RowsOK
  <2>11. StoriesOK'
    <3> SUFFICES ASSUME NEW r \in Scopes
                 PROVE  Story(r, scope', interaction', published', challenge')
      BY DEF StoriesOK
    <3>1. CASE r = s
      <4>1. /\ scope'[s] = "completed" /\ interaction'[s] = at /\ at # 0
            /\ <<"interaction", s>> \in published'
        BY <2>1, <2>2 DEF SourceInv, RowsOK
      <4> QED
        BY <2>7, <3>1, <4>1 DEF Story
    <3>2. CASE r # s
      <4>1. /\ scope'[r] = scope[r] /\ interaction'[r] = interaction[r]
            /\ <<"interaction", r>> \in published' <=> <<"interaction", r>> \in published
        BY <2>1, <2>2, <3>2, Pairs DEF SourceInv, RowsOK
      <4> QED
        BY <2>7, <3>2, <4>1 DEF Story, SourceInv, StoriesOK
    <3> QED
      BY <3>1, <3>2
  <2> QED
    BY <1>1, <2>8, <2>9, <2>10, <2>11, IdleKnows, CallsKeep DEF SourceInv
<1> QED
  BY <1>2, <1>3

-----------------------------------------------------------------------------
(* The steps of reviews *)

LEMMA ReviewCheckStep ==
  ASSUME SourceInv, NEW c \in Clients, NEW s \in Scopes, ReviewCheck(c, s)
  PROVE  SourceInv' /\ OutcomesStay
<1>1. PICK a \in Ratings, v \in Ratings :
        call' = [call EXCEPT ![c] = [op |-> "review", id |-> s,
                                     row |-> [at |-> now, accuracy |-> a, service |-> v]]]
  BY DEF ReviewCheck, Proceed
<1>2. /\ s \in Appointments /\ interaction[s] # 0
      /\ UNCHANGED <<now, scope, challenge, interaction, review, published>>
  BY DEF ReviewCheck, Eligible
<1> DEFINE f == [op |-> "review", id |-> s, row |-> [at |-> now, accuracy |-> a, service |-> v]]
<1>3. CallKnows(f, challenge, interaction)
  BY <1>2 DEF CallKnows, ReviewRow, SourceInv, RowsOK
<1>4. call' = [call EXCEPT ![c] = f]
  BY <1>1
<1> HIDE DEF f
<1> QED
  BY <1>2, <1>3, <1>4, RequestReads

LEMMA ReviewWriteStep ==
  ASSUME SourceInv, NEW c \in Clients, ReviewWrite(c)
  PROVE  SourceInv' /\ OutcomesStay
<1> DEFINE s == call[c].id
<1>1. /\ call[c].op = "review" /\ call' = [call EXCEPT ![c] = Idle]
      /\ UNCHANGED <<now, scope, challenge, interaction>>
  BY DEF ReviewWrite, Return
<1>2. CASE UNCHANGED <<review, published>>
  BY <1>1, <1>2, RequestReads, IdleKnows
<1>3. CASE ~UNCHANGED <<review, published>>
  <2>1. /\ review[s] = NoReview /\ review' = [review EXCEPT ![s] = call[c].row]
        /\ published' = published \cup {<<"review", s>>}
    BY <1>3 DEF ReviewWrite
  <2>2. s \in Scopes /\ call[c].row \in ReviewRow
    BY <1>1 DEF SourceInv, CallsOK, CallKnows, Scopes
  <2>3. call[c].row # NoReview
    BY <2>2 DEF ReviewRow, NoReview
  <2>4. RowsOK'
    <3>1. /\ review' \in [Scopes -> ReviewRow \cup {NoReview}]
          /\ published' \subseteq Events
          /\ \A r \in Scopes : <<"review", r>> \in published' => review'[r] # NoReview
      BY <2>1, <2>2, <2>3, Pairs DEF SourceInv, RowsOK, Events
    <3> QED
      BY <1>1, <3>1 DEF SourceInv, RowsOK
  <2>5. OutcomesStay /\ ChallengesMove(challenge, challenge')
    BY <1>1, <2>1, <2>2 DEF OutcomesStay, ChallengesMove, SourceInv, RowsOK
  <2>6. \A r \in Scopes : <<"interaction", r>> \in published' <=> <<"interaction", r>> \in published
    BY <2>1, Pairs
  <2>7. StoriesOK'
    BY <1>1, <2>6 DEF SourceInv, StoriesOK, Story
  <2> QED
    BY <1>1, <2>4, <2>5, <2>7, IdleKnows, CallsKeep DEF SourceInv
<1> QED
  BY <1>2, <1>3

LEMMA VerifiedStep ==
  ASSUME SourceInv, NEW c \in Clients, VerifiedNext(c), UNCHANGED review
  PROVE  SourceInv' /\ OutcomesStay
BY AppointmentCreateStep, AppointmentReadStep, AppointmentWriteStep, StartCheckStep, ReplaceBeginStep,
   ReplaceCommitStep, FlowStartStep, FinishCheckStep, FinishWriteStep DEF VerifiedNext

LEMMA SourceStays ==
  ASSUME SourceInv, UNCHANGED sourceVars
  PROVE  SourceInv' /\ OutcomesStay
BY DEF SourceInv, RowsOK, CallsOK, StoriesOK, Story, ConsumedOf, OutcomesStay, sourceVars

LEMMA ProjectionsWriteNoSource ==
  ASSUME NEW w \in Workers, ProjectionsNext(w)
  PROVE  UNCHANGED sourceVars
BY DEF ProjectionsNext, Deliver, Aggregate, TrustMark, TrustLock, TrustCommit, Settle, HandlerLost,
       DeadlockAbort, Failed

LEMMA SourceStep ==
  ASSUME SourceInv, [Next]_vars
  PROVE  SourceInv' /\ OutcomesStay
<1>1. CASE Tick /\ UNCHANGED <<review, projectionVars>>
  BY <1>1, TickStep
<1>2. CASE \E c \in Clients : VerifiedNext(c) /\ UNCHANGED <<review, projectionVars>>
  BY <1>2, VerifiedStep
<1>3. CASE \E c \in Clients : ReviewsNext(c) /\ UNCHANGED projectionVars
  BY <1>3, ReviewCheckStep, ReviewWriteStep DEF ReviewsNext
<1>4. CASE \E w \in Workers : ProjectionsNext(w)
  BY <1>4, ProjectionsWriteNoSource, SourceStays
<1>5. CASE UNCHANGED vars
  BY <1>5, SourceStays DEF vars
<1> QED
  BY <1>1, <1>2, <1>3, <1>4, <1>5 DEF Next

\* A scope is completed exactly when its interaction is recorded, its event
\* exists and one of its challenges is consumed: CompleteVerification locks and
\* checks the scope and the challenge again before it writes all four.
THEOREM InteractionsTellTheirStory == Spec => []InteractionStory
<1>1. SourceInv => InteractionStory
  <2> SUFFICES ASSUME SourceInv, NEW s \in Scopes
               PROVE  LET completed == scope[s] = "completed" IN
                        /\ completed <=> interaction[s] # 0
                        /\ completed <=> <<"interaction", s>> \in published
                        /\ Cardinality(Consumed(s)) = IF completed THEN 1 ELSE 0
    BY DEF InteractionStory
  <2>1. Consumed(s) = ConsumedOf(s, challenge)
    BY DEF Consumed, ConsumedOf, ChallengesOf, Issued
  <2>2. Story(s, scope, interaction, published, challenge)
    BY DEF SourceInv, StoriesOK
  <2> QED
    BY <2>1, <2>2, FS_EmptySet, FS_Singleton DEF Story
<1> QED
  BY <1>1, SourceInit, SourceStep, PTL DEF Spec

\* What was verified, rejected or cancelled stays so, and an interaction and a
\* review never change: the writes of verified and reviews hold only in the
\* status that was read, under its lock, or for a row that does not exist yet.
THEOREM OutcomesStayFinal == Spec => OutcomesAreFinal
<1>1. SourceInv /\ [Next]_vars => SourceInv' /\ [OutcomesStay]_vars
  BY SourceStep
<1> QED
  BY <1>1, SourceInit, PTL DEF Spec, OutcomesAreFinal

-----------------------------------------------------------------------------
(* What the projections count *)

LEMMA EventShape ==
  \A ev \in Events : ev[1] \in {"interaction", "review"} /\ ev[2] \in Scopes /\ ev = <<ev[1], ev[2]>>
BY DEF Events

\* One more event.
LEMMA EventAdded ==
  ASSUME NEW T \in SUBSET Events, NEW ev \in Events, ev \notin T
  PROVE  /\ IsReview(ev) => /\ ev[2] \notin ReviewsOf(T)
                            /\ ReviewsOf(T \cup {ev}) = ReviewsOf(T) \cup {ev[2]}
                            /\ InspectionsOf(T \cup {ev}) = InspectionsOf(T)
         /\ ~IsReview(ev) => /\ ev[2] \notin InspectionsOf(T)
                             /\ ReviewsOf(T \cup {ev}) = ReviewsOf(T)
                             /\ InspectionsOf(T \cup {ev}) =
                                  InspectionsOf(T) \cup ({ev[2]} \cap Appointments)
<1>1. ReviewsOf(T \cup {ev}) = IF IsReview(ev) THEN ReviewsOf(T) \cup {ev[2]} ELSE ReviewsOf(T)
  BY DEF ReviewsOf
<1>2. InspectionsOf(T \cup {ev}) =
        IF IsReview(ev) THEN InspectionsOf(T) ELSE InspectionsOf(T) \cup ({ev[2]} \cap Appointments)
  BY DEF InspectionsOf
<1>3. IsReview(ev) => ev[2] \notin ReviewsOf(T)
  <2> SUFFICES ASSUME IsReview(ev), NEW e \in T, IsReview(e), e[2] = ev[2]
               PROVE  FALSE
    BY DEF ReviewsOf
  <2>1. e = ev
    BY EventShape DEF IsReview
  <2> QED
    BY <2>1
<1>4. ~IsReview(ev) => ev[2] \notin InspectionsOf(T)
  <2> SUFFICES ASSUME ~IsReview(ev), NEW e \in T, ~IsReview(e), e[2] = ev[2]
               PROVE  FALSE
    BY DEF InspectionsOf
  <2>1. e = ev
    BY EventShape DEF IsReview
  <2> QED
    BY <2>1
<1> QED
  BY <1>1, <1>2, <1>3, <1>4

LEMMA OneMore ==
  ASSUME NEW S, IsFiniteSet(S), NEW x, x \notin S
  PROVE  IsFiniteSet(S \cup {x}) /\ Cardinality(S \cup {x}) = Cardinality(S) + 1 /\ Cardinality(S) \in Nat
BY FS_AddElement, FS_CardinalityType

LEMMA GivenNat ==
  ASSUME NEW f, IsFiniteSet(DOMAIN f), NEW r
  PROVE  Given(f, r) \in Nat
<1>1. IsFiniteSet({s \in DOMAIN f : f[s] = r})
  BY FS_Subset
<1> QED
  BY <1>1, FS_CardinalityType DEF Given

\* bumpListing, bumpProvider and bumpProviderService: one more rating.
Extends(g, f, x) == x \notin DOMAIN f /\ DOMAIN g = DOMAIN f \cup {x} /\ \A s \in DOMAIN f : g[s] = f[s]

LEMMA RatingAdded ==
  ASSUME NEW f, NEW g, NEW x, Extends(g, f, x), IsFiniteSet(DOMAIN f), g[x] \in 1..5
  PROVE  Summary(g) = Bump(Summary(f), g[x])
<1> DEFINE v == g[x]
<1>1. ASSUME NEW r \in 1..5
      PROVE  Given(g, r) = IF r = v THEN Given(f, r) + 1 ELSE Given(f, r)
  <2> DEFINE A == {s \in DOMAIN f : f[s] = r}
             B == {s \in DOMAIN g : g[s] = r}
  <2>1. IsFiniteSet(A) /\ x \notin A
    BY FS_Subset DEF Extends
  <2>2. B = IF r = v THEN A \cup {x} ELSE A
    BY DEF Extends
  <2> HIDE DEF A, B
  <2>3. Cardinality(B) = IF r = v THEN Cardinality(A) + 1 ELSE Cardinality(A)
    BY <2>1, <2>2, OneMore
  <2> QED
    BY <2>3 DEF A, B, Given
<1>2. Cardinality(DOMAIN g) = Cardinality(DOMAIN f) + 1
  BY OneMore DEF Extends
<1>3. /\ Given(f, 1) \in Nat /\ Given(f, 2) \in Nat /\ Given(f, 3) \in Nat /\ Given(f, 4) \in Nat
      /\ Given(f, 5) \in Nat
  BY GivenNat
<1>4. v = 1 \/ v = 2 \/ v = 3 \/ v = 4 \/ v = 5
  OBVIOUS
<1>5. Summary(g).sum = Summary(f).sum + v
  BY <1>1, <1>3, <1>4 DEF Summary
<1>6. Summary(g).count = Summary(f).count + 1
  BY <1>2 DEF Summary
<1>7. Summary(g) = [count |-> Summary(g).count, sum |-> Summary(g).sum]
  BY DEF Summary
<1> QED
  BY <1>5, <1>6, <1>7 DEF Bump

\* A latest one among the interactions of S.
HasLatest(S) == S # {} => \E s \in S : \A v \in S : interaction[v] <= interaction[s]

LEMMA LatestAdded ==
  ASSUME interaction \in [Scopes -> Nat], NEW S \in SUBSET Scopes, HasLatest(S),
         NEW x \in Scopes, interaction[x] # 0
  PROVE  /\ HasLatest(S \cup {x})
         /\ Latest(S \cup {x}) = IF interaction[x] > Latest(S) THEN interaction[x] ELSE Latest(S)
<1> DEFINE Top(T, m) == m \in T /\ \A v \in T : interaction[v] <= interaction[m]
<1>1. ASSUME NEW T \in SUBSET Scopes, NEW m, Top(T, m)
      PROVE  Latest(T) = interaction[m]
  <2> DEFINE V == {interaction[s] : s \in T}
             Greatest(y) == y \in V /\ \A z \in V : y >= z
  <2>1. Greatest(interaction[m]) /\ V \subseteq Nat
    BY <1>1
  <2>2. Greatest(Max(V))
    BY <2>1 DEF Max
  <2>3. /\ Max(V) \in Nat /\ interaction[m] \in Nat
        /\ Max(V) >= interaction[m] /\ interaction[m] >= Max(V)
    BY <2>1, <2>2
  <2> HIDE DEF V, Greatest
  <2>4. Max(V) = interaction[m]
    BY <2>3
  <2> QED
    BY <1>1, <2>4 DEF Latest, V
<1>2. CASE S = {}
  <2>1. Top(S \cup {x}, x) /\ Latest(S) = 0
    BY <1>2 DEF Latest
  <2>2. Latest(S \cup {x}) = interaction[x]
    BY <1>1, <2>1
  <2> QED
    BY <2>1, <2>2 DEF HasLatest
<1>3. CASE S # {}
  <2>1. PICK m \in S : Top(S, m)
    BY <1>3 DEF HasLatest
  <2>2. Latest(S) = interaction[m]
    BY <1>1, <2>1
  <2>3. CASE interaction[x] > interaction[m]
    <3>1. Top(S \cup {x}, x)
      BY <2>1, <2>3
    <3>2. Latest(S \cup {x}) = interaction[x]
      BY <1>1, <3>1
    <3> QED
      BY <2>2, <2>3, <3>1, <3>2 DEF HasLatest
  <2>4. CASE ~(interaction[x] > interaction[m])
    <3>1. Top(S \cup {x}, m)
      BY <2>1, <2>4
    <3>2. Latest(S \cup {x}) = interaction[m]
      BY <1>1, <3>1
    <3> QED
      BY <2>2, <2>4, <3>1, <3>2 DEF HasLatest
  <2> QED
    BY <2>3, <2>4
<1> QED
  BY <1>2, <1>3

-----------------------------------------------------------------------------
(* The projectors: the inductive invariant *)

TrustSteps == {"first", "second", "commit"}

\* What a handler run knows of its event.
JobKnows(j, keys, aggregates, trust) ==
  /\ j.step # "idle" => j.event \in keys
  /\ j.step = "aggregate" => IsReview(j.event)
  /\ j.step \in TrustSteps \cup {"mark", "settle"} => (IsReview(j.event) => j.event \in aggregates)
  /\ j.step \in TrustSteps => j.event \notin trust
  /\ j.step = "settle" => j.event \in trust

\* An event that trust has not applied is in one transaction of it at a time.
JobsOK ==
  /\ DOMAIN job = Workers
  /\ \A w \in Workers : JobKnows(job[w], published, applied.aggregates, applied.trust)
  /\ \A v, w \in Workers : v # w /\ InTrust(v) /\ InTrust(w) => job[v].event # job[w].event

AppliedOK ==
  /\ applied = [aggregates |-> applied.aggregates, trust |-> applied.trust]
  /\ applied.trust \subseteq published /\ applied.aggregates \subseteq published
  /\ handled \subseteq published /\ HandledIsCounted
  /\ IsFiniteSet(ReviewsOf(applied.trust)) /\ IsFiniteSet(InspectionsOf(applied.trust))
  /\ IsFiniteSet(ReviewsOf(applied.aggregates))

RebuildOK ==
  /\ DOMAIN profile = Users /\ DOMAIN accuracy = Listings /\ DOMAIN service = Users
  /\ accuracy = [l \in Listings |-> accuracy[l]] /\ service = [u \in Users |-> service[u]]
  /\ \A u \in Users : HasLatest(Met(u, applied.trust))
  /\ ProjectionsAreRebuildable

ReputationInv == SourceInv /\ JobsOK /\ AppliedOK /\ RebuildOK

\* What is applied was published, so its rows exist and stay.
LEMMA AppliedRows ==
  ASSUME SourceInv, NEW T \in SUBSET published
  PROVE  /\ T \subseteq Events
         /\ ReviewsOf(T) \subseteq Scopes /\ \A s \in ReviewsOf(T) : review[s] \in ReviewRow
         /\ InspectionsOf(T) \subseteq Scopes /\ \A s \in InspectionsOf(T) : interaction[s] # 0
<1>1. T \subseteq Events
  BY DEF SourceInv, RowsOK
<1>2. ASSUME NEW ev \in T
      PROVE  /\ ev[2] \in Scopes
             /\ IsReview(ev) => review[ev[2]] \in ReviewRow
             /\ ~IsReview(ev) => interaction[ev[2]] # 0
  <2>1. ev \in Events /\ ev \in published
    BY <1>1
  <2>2. ev[2] \in Scopes /\ ev = <<IF IsReview(ev) THEN "review" ELSE "interaction", ev[2]>>
    BY <2>1, EventShape DEF IsReview
  <2>3. IsReview(ev) => review[ev[2]] # NoReview
    BY <2>1, <2>2 DEF SourceInv, RowsOK
  <2>4. ~IsReview(ev) => interaction[ev[2]] # 0
    BY <2>1, <2>2 DEF SourceInv, StoriesOK, Story
  <2> QED
    BY <2>2, <2>3, <2>4 DEF SourceInv, RowsOK
<1> QED
  BY <1>1, <1>2 DEF ReviewsOf, InspectionsOf

\* What the projections would be rebuilt to stays, whatever requests do.
LEMMA RebuildStays ==
  ASSUME SourceInv, AppliedOK, RebuildOK, OutcomesStay,
         UNCHANGED <<applied, accuracy, service, profile, history>>
  PROVE  RebuildOK'
<1> DEFINE T == applied.trust
           A == applied.aggregates
<1>1. /\ ReviewsOf(T) \subseteq Scopes /\ ReviewsOf(A) \subseteq Scopes /\ InspectionsOf(T) \subseteq Scopes
      /\ \A s \in ReviewsOf(T) \cup ReviewsOf(A) : review[s] \in ReviewRow
      /\ \A s \in InspectionsOf(T) : interaction[s] # 0
  BY AppliedRows DEF AppliedOK
<1>2. /\ \A s \in ReviewsOf(T) \cup ReviewsOf(A) : review'[s] = review[s]
      /\ \A s \in InspectionsOf(T) : interaction'[s] = interaction[s]
  BY <1>1 DEF OutcomesStay, ReviewRow, NoReview
<1>3. /\ ReviewsOf(T)' = ReviewsOf(T) /\ ReviewsOf(A)' = ReviewsOf(A)
      /\ InspectionsOf(T)' = InspectionsOf(T) /\ T' = T /\ A' = A
  BY DEF ReviewsOf, InspectionsOf
<1>4. ASSUME NEW u
      PROVE  /\ Met(u, T)' = Met(u, T) /\ Wrote(u, T)' = Wrote(u, T)
             /\ Served(u, T)' = Served(u, T) /\ Served(u, A)' = Served(u, A)
  BY <1>2, <1>3 DEF Met, Wrote, Served
<1>5. ASSUME NEW l
      PROVE  Described(l, A)' = Described(l, A)
  BY <1>2, <1>3 DEF Described
<1>6. ASSUME NEW u
      PROVE  Latest(Met(u, T))' = Latest(Met(u, T)) /\ (HasLatest(Met(u, T))' <=> HasLatest(Met(u, T)))
  BY <1>2, <1>4 DEF Latest, HasLatest, Met
<1>7. ASSUME NEW u
      PROVE  RebuiltProfile(u, T)' = RebuiltProfile(u, T)
  BY <1>4, <1>6 DEF RebuiltProfile
<1>8. /\ \A u \in Users : profile'[u] = RebuiltProfile(u, T)' /\ service'[u] = Summary(Served(u, A))'
      /\ \A l \in Listings : accuracy'[l] = Summary(Described(l, A))'
  BY <1>4, <1>5, <1>7 DEF RebuildOK, ProjectionsAreRebuildable
<1>9. history' = UNION {HistoryRows(ev) : ev \in T}'
  BY DEF RebuildOK, ProjectionsAreRebuildable
<1>10. ProjectionsAreRebuildable'
  BY <1>8, <1>9 DEF ProjectionsAreRebuildable
<1> QED
  BY <1>6, <1>10 DEF RebuildOK

\* A run that goes to its next step or ends.
LEMMA JobMoves ==
  ASSUME JobsOK, NEW w \in Workers, NEW r, job' = [job EXCEPT ![w] = r],
         published \subseteq published', applied.aggregates \subseteq applied'.aggregates,
         applied.trust \subseteq applied'.trust,
         JobKnows(r, published', applied'.aggregates, applied'.trust),
         \A v \in Workers \ {w} : InTrust(v) => job[v].event \notin applied'.trust,
         \A v \in Workers \ {w} : InTrust(v) /\ r.step \in TrustSteps => job[v].event # r.event
  PROVE  JobsOK'
<1>1. \A v \in Workers : job'[v] = IF v = w THEN r ELSE job[v]
  BY DEF JobsOK
<1>2. \A v \in Workers : JobKnows(job'[v], published', applied'.aggregates, applied'.trust)
  BY <1>1 DEF JobsOK, JobKnows, InTrust, TrustSteps
<1>3. \A v \in Workers : InTrust(v)' <=> job'[v].step \in TrustSteps
  BY DEF InTrust, TrustSteps
<1>4. \A v \in Workers \ {w} : InTrust(v)' <=> InTrust(v)
  BY <1>1 DEF InTrust
<1>5. ASSUME NEW u \in Workers, NEW v \in Workers, u # v, InTrust(u)', InTrust(v)'
      PROVE  job'[u].event # job'[v].event
  BY <1>1, <1>3, <1>4, <1>5 DEF JobsOK
<1> QED
  BY <1>1, <1>2, <1>5 DEF JobsOK

LEMMA NoJobKnows == \A keys, A, T : JobKnows(NoJob, keys, A, T) /\ NoJob.step \notin TrustSteps
BY DEF JobKnows, NoJob, TrustSteps

\* Steps of a run that apply nothing.
LEMMA RunMoves ==
  ASSUME ReputationInv, NEW w \in Workers, NEW r, job' = [job EXCEPT ![w] = r],
         JobKnows(r, published, applied.aggregates, applied.trust),
         \A v \in Workers \ {w} : InTrust(v) /\ r.step \in TrustSteps => job[v].event # r.event,
         UNCHANGED <<sourceVars, applied, accuracy, service, profile, history>>,
         handled' \subseteq published, \A ev \in handled' : Counted(ev)
  PROVE  ReputationInv'
<1>1. SourceInv' /\ UNCHANGED <<interaction, review, published>>
  BY SourceStays DEF ReputationInv, sourceVars
<1>2. JobsOK'
  <2>1. \A v \in Workers : InTrust(v) => job[v].event \notin applied.trust
    BY DEF ReputationInv, JobsOK, JobKnows, InTrust, TrustSteps
  <2> QED
    BY <1>1, <2>1, JobMoves DEF ReputationInv
<1>3. AppliedOK'
  BY <1>1 DEF ReputationInv, AppliedOK, HandledIsCounted, Counted, ReviewsOf, InspectionsOf
<1>4. RebuildOK'
  BY <1>1, RebuildStays DEF ReputationInv, OutcomesStay, sourceVars
<1> QED
  BY <1>1, <1>2, <1>3, <1>4 DEF ReputationInv

LEMMA DeliverStep ==
  ASSUME ReputationInv, NEW w \in Workers, NEW ev \in published, Deliver(w, ev)
  PROVE  ReputationInv'
<1> DEFINE r == [event |-> ev, step |-> IF IsReview(ev) THEN "aggregate" ELSE "mark"]
<1>1. /\ job' = [job EXCEPT ![w] = r]
      /\ UNCHANGED <<sourceVars, handled, applied, accuracy, service, profile, history>>
  BY DEF Deliver
<1>2. JobKnows(r, published, applied.aggregates, applied.trust) /\ r.step \notin TrustSteps
  BY DEF JobKnows, TrustSteps
<1> HIDE DEF r
<1> QED
  BY <1>1, <1>2, RunMoves DEF ReputationInv, AppliedOK, HandledIsCounted

LEMMA TrustMarkStep ==
  ASSUME ReputationInv, NEW w \in Workers, TrustMark(w)
  PROVE  ReputationInv'
<1> DEFINE ev == job[w].event
           step == IF ev \in applied.trust THEN "settle" ELSE IF Counts(ev) THEN "first" ELSE "commit"
           r == [event |-> ev, step |-> step]
<1>1. /\ job[w].step = "mark" /\ job' = [job EXCEPT ![w] = r]
      /\ \A v \in Workers : InTrust(v) => job[v].event # ev
      /\ UNCHANGED <<sourceVars, handled, applied, accuracy, service, profile, history>>
  BY DEF TrustMark, To
<1>2. JobKnows(r, published, applied.aggregates, applied.trust) /\ r.event = ev
  BY <1>1 DEF ReputationInv, JobsOK, JobKnows, TrustSteps
<1> HIDE DEF r, ev
<1> QED
  BY <1>1, <1>2, RunMoves DEF ReputationInv, AppliedOK, HandledIsCounted

LEMMA TrustLockStep ==
  ASSUME ReputationInv, NEW w \in Workers, TrustLock(w)
  PROVE  ReputationInv'
<1> DEFINE ev == job[w].event
           step == IF job[w].step = "first" THEN "second" ELSE "commit"
           r == [event |-> ev, step |-> step]
<1>1. /\ job[w].step \in {"first", "second"} /\ job' = [job EXCEPT ![w] = r]
      /\ UNCHANGED <<sourceVars, handled, applied, accuracy, service, profile, history>>
  BY DEF TrustLock, To
<1>2. JobKnows(r, published, applied.aggregates, applied.trust) /\ r.event = ev
  BY <1>1 DEF ReputationInv, JobsOK, JobKnows, TrustSteps
<1>3. \A v \in Workers \ {w} : InTrust(v) => job[v].event # ev
  BY <1>1 DEF ReputationInv, JobsOK, InTrust
<1> HIDE DEF r, ev
<1> QED
  BY <1>1, <1>2, <1>3, RunMoves DEF ReputationInv, AppliedOK, HandledIsCounted

LEMMA RunEndsStep ==
  ASSUME ReputationInv, NEW w \in Workers, Settle(w) \/ HandlerLost(w) \/ DeadlockAbort(w)
  PROVE  ReputationInv'
<1>1. /\ job' = [job EXCEPT ![w] = NoJob]
      /\ UNCHANGED <<sourceVars, applied, accuracy, service, profile, history>>
      /\ handled' = handled \/ (job[w].step = "settle" /\ handled' = handled \cup {job[w].event})
  BY DEF Settle, HandlerLost, DeadlockAbort, Failed
<1>2. job[w].step = "settle" => job[w].event \in published /\ Counted(job[w].event)
  BY DEF ReputationInv, JobsOK, JobKnows, Counted
<1>3. handled' \subseteq published /\ \A ev \in handled' : Counted(ev)
  BY <1>1, <1>2 DEF ReputationInv, AppliedOK, HandledIsCounted
<1> QED
  BY <1>1, <1>3, NoJobKnows, RunMoves

-----------------------------------------------------------------------------
(* An event is counted: what a rebuild would give with it *)

LEMMA ReviewCounted ==
  ASSUME NEW T \in SUBSET Events, NEW ev \in Events, ev \notin T, IsReview(ev), IsFiniteSet(ReviewsOf(T)),
         review[ev[2]] \in ReviewRow, \A s \in ReviewsOf(T) : review[s] \in ReviewRow, NEW u
  PROVE  /\ Met(u, T \cup {ev}) = Met(u, T)
         /\ Cardinality(Wrote(u, T)) \in Nat
         /\ Cardinality(Wrote(u, T \cup {ev})) =
              IF Requester[ev[2]] = u THEN Cardinality(Wrote(u, T)) + 1 ELSE Cardinality(Wrote(u, T))
         /\ Summary(Served(u, T \cup {ev})) =
              IF Provider[ev[2]] = u THEN Bump(Summary(Served(u, T)), review[ev[2]].service)
                                     ELSE Summary(Served(u, T))
         /\ Summary(Described(u, T \cup {ev})) =
              IF ListingOf[ev[2]] = u THEN Bump(Summary(Described(u, T)), review[ev[2]].accuracy)
                                      ELSE Summary(Described(u, T))
<1> DEFINE x == ev[2]
           R == ReviewsOf(T)
<1>1. /\ x \notin R /\ ReviewsOf(T \cup {ev}) = R \cup {x}
      /\ InspectionsOf(T \cup {ev}) = InspectionsOf(T)
  BY EventAdded
<1>2. review[x].accuracy \in 1..5 /\ review[x].service \in 1..5
  BY VerifiedAssumption DEF ReviewRow
<1>3. Met(u, T \cup {ev}) = Met(u, T)
  BY <1>1 DEF Met
<1>4. /\ Cardinality(Wrote(u, T)) \in Nat
      /\ Cardinality(Wrote(u, T \cup {ev})) =
           IF Requester[x] = u THEN Cardinality(Wrote(u, T)) + 1 ELSE Cardinality(Wrote(u, T))
  <2>1. Wrote(u, T \cup {ev}) = IF Requester[x] = u THEN Wrote(u, T) \cup {x} ELSE Wrote(u, T)
    BY <1>1 DEF Wrote
  <2>2. IsFiniteSet(Wrote(u, T)) /\ x \notin Wrote(u, T)
    BY <1>1, FS_Subset DEF Wrote
  <2> QED
    BY <2>1, <2>2, OneMore
<1>5. Summary(Served(u, T \cup {ev})) =
        IF Provider[x] = u THEN Bump(Summary(Served(u, T)), review[x].service) ELSE Summary(Served(u, T))
  <2> DEFINE f == Served(u, T)
             g == Served(u, T \cup {ev})
  <2>1. CASE Provider[x] = u
    <3>1. /\ DOMAIN f = {s \in R : Provider[s] = u} /\ x \notin DOMAIN f
          /\ DOMAIN g = DOMAIN f \cup {x} /\ g[x] = review[x].service /\ \A s \in DOMAIN f : g[s] = f[s]
      BY <1>1, <2>1 DEF Served
    <3>2. IsFiniteSet(DOMAIN f)
      BY <3>1, FS_Subset
    <3>3. Extends(g, f, x) /\ g[x] = review[x].service /\ g[x] \in 1..5
      BY <1>2, <3>1 DEF Extends
    <3>4. Summary(g) = Bump(Summary(f), review[x].service)
      BY <3>2, <3>3, RatingAdded
    <3> QED
      BY <2>1, <3>4
  <2>2. CASE Provider[x] # u
    <3>1. f = g
      BY <1>1, <2>2 DEF Served
    <3> QED
      BY <2>2, <3>1
  <2> QED
    BY <2>1, <2>2
<1>6. Summary(Described(u, T \cup {ev})) =
        IF ListingOf[x] = u THEN Bump(Summary(Described(u, T)), review[x].accuracy)
                            ELSE Summary(Described(u, T))
  <2> DEFINE f == Described(u, T)
             g == Described(u, T \cup {ev})
  <2>1. CASE ListingOf[x] = u
    <3>1. /\ DOMAIN f = {s \in R : ListingOf[s] = u} /\ x \notin DOMAIN f
          /\ DOMAIN g = DOMAIN f \cup {x} /\ g[x] = review[x].accuracy /\ \A s \in DOMAIN f : g[s] = f[s]
      BY <1>1, <2>1 DEF Described
    <3>2. IsFiniteSet(DOMAIN f)
      BY <3>1, FS_Subset
    <3>3. Extends(g, f, x) /\ g[x] = review[x].accuracy /\ g[x] \in 1..5
      BY <1>2, <3>1 DEF Extends
    <3>4. Summary(g) = Bump(Summary(f), review[x].accuracy)
      BY <3>2, <3>3, RatingAdded
    <3> QED
      BY <2>1, <3>4
  <2>2. CASE ListingOf[x] # u
    <3>1. f = g
      BY <1>1, <2>2 DEF Described
    <3> QED
      BY <2>2, <3>1
  <2> QED
    BY <2>1, <2>2
<1> QED
  BY <1>3, <1>4, <1>5, <1>6

LEMMA InteractionCounted ==
  ASSUME NEW T \in SUBSET Events, NEW ev \in Events, ev \notin T, ~IsReview(ev),
         IsFiniteSet(InspectionsOf(T)), NEW u
  PROVE  /\ Wrote(u, T \cup {ev}) = Wrote(u, T) /\ Served(u, T \cup {ev}) = Served(u, T)
         /\ Cardinality(Met(u, T)) \in Nat
         /\ IF ev[2] \in Appointments /\ u \in {Requester[ev[2]], Provider[ev[2]]}
              THEN /\ Met(u, T \cup {ev}) = Met(u, T) \cup {ev[2]}
                   /\ Cardinality(Met(u, T \cup {ev})) = Cardinality(Met(u, T)) + 1
              ELSE Met(u, T \cup {ev}) = Met(u, T)
<1>1. /\ ev[2] \notin InspectionsOf(T) /\ ReviewsOf(T \cup {ev}) = ReviewsOf(T)
      /\ InspectionsOf(T \cup {ev}) = InspectionsOf(T) \cup ({ev[2]} \cap Appointments)
  BY EventAdded
<1>2. Wrote(u, T \cup {ev}) = Wrote(u, T) /\ Served(u, T \cup {ev}) = Served(u, T)
  BY <1>1 DEF Wrote, Served
<1>3. IF ev[2] \in Appointments /\ u \in {Requester[ev[2]], Provider[ev[2]]}
        THEN Met(u, T \cup {ev}) = Met(u, T) \cup {ev[2]}
        ELSE Met(u, T \cup {ev}) = Met(u, T)
  BY <1>1 DEF Met
<1>4. IsFiniteSet(Met(u, T)) /\ ev[2] \notin Met(u, T)
  BY <1>1, FS_Subset DEF Met
<1>5. /\ Cardinality(Met(u, T)) \in Nat
      /\ Cardinality(Met(u, T) \cup {ev[2]}) = Cardinality(Met(u, T)) + 1
  BY <1>4, OneMore
<1> QED
  BY <1>2, <1>3, <1>5

\* The events stay finitely many.
LEMMA AppliedFinite ==
  ASSUME NEW T \in SUBSET Events, NEW ev \in Events
  PROVE  /\ IsFiniteSet(ReviewsOf(T)) => IsFiniteSet(ReviewsOf(T \cup {ev}))
         /\ IsFiniteSet(InspectionsOf(T)) => IsFiniteSet(InspectionsOf(T \cup {ev}))
<1>1. CASE ev \in T
  <2>1. T \cup {ev} = T
    BY <1>1
  <2> QED
    BY <2>1
<1>2. CASE ev \notin T
  <2>1. /\ ReviewsOf(T \cup {ev}) \subseteq ReviewsOf(T) \cup {ev[2]}
        /\ InspectionsOf(T \cup {ev}) \subseteq InspectionsOf(T) \cup {ev[2]}
    BY <1>2, EventAdded
  <2>2. /\ IsFiniteSet(ReviewsOf(T)) => IsFiniteSet(ReviewsOf(T) \cup {ev[2]})
        /\ IsFiniteSet(InspectionsOf(T)) => IsFiniteSet(InspectionsOf(T) \cup {ev[2]})
    BY FS_AddElement
  <2> QED
    BY <2>1, <2>2, FS_Subset
<1> QED
  BY <1>1, <1>2

\* What a projector has applied and is counted from, when it applies ev.
LEMMA AppliedGrows ==
  ASSUME SourceInv, AppliedOK, NEW ev \in published, UNCHANGED <<published, handled>>,
         applied' = [aggregates |-> applied'.aggregates, trust |-> applied'.trust],
         applied'.aggregates \in {applied.aggregates, applied.aggregates \cup {ev}},
         applied'.trust \in {applied.trust, applied.trust \cup {ev}}
  PROVE  AppliedOK'
<1>1. applied.trust \subseteq Events /\ applied.aggregates \subseteq Events /\ ev \in Events
  BY DEF SourceInv, RowsOK, AppliedOK
<1>2. /\ IsFiniteSet(ReviewsOf(applied'.trust)) /\ IsFiniteSet(InspectionsOf(applied'.trust))
      /\ IsFiniteSet(ReviewsOf(applied'.aggregates))
  BY <1>1, AppliedFinite DEF AppliedOK
<1>3. HandledIsCounted'
  BY DEF AppliedOK, HandledIsCounted, Counted
<1> QED
  BY <1>2, <1>3 DEF AppliedOK

LEMMA TrustRebuilt ==
  ASSUME UNCHANGED <<interaction, review>>, NEW T, applied'.trust = T, NEW u
  PROVE  /\ RebuiltProfile(u, applied.trust)' = RebuiltProfile(u, T)
         /\ HasLatest(Met(u, applied.trust))' <=> HasLatest(Met(u, T))
BY DEF RebuiltProfile, Met, Wrote, Served, Latest, HasLatest, Summary, Given, ReviewsOf, InspectionsOf

LEMMA AggregatesRebuilt ==
  ASSUME UNCHANGED review, NEW T, applied'.aggregates = T, NEW u
  PROVE  /\ Summary(Served(u, applied.aggregates))' = Summary(Served(u, T))
         /\ Summary(Described(u, applied.aggregates))' = Summary(Described(u, T))
BY DEF Served, Described, Summary, Given, ReviewsOf

LEMMA AggregateStep ==
  ASSUME ReputationInv, NEW w \in Workers, Aggregate(w)
  PROVE  ReputationInv'
<1> DEFINE ev == job[w].event
           s == ev[2]
           A == applied.aggregates
           r == [event |-> ev, step |-> "mark"]
<1>1. /\ job[w].step = "aggregate" /\ job' = [job EXCEPT ![w] = r]
      /\ UNCHANGED <<sourceVars, handled, profile, history>>
  BY DEF Aggregate, To
<1>2. ev \in published /\ IsReview(ev) /\ ev \in Events
  BY <1>1 DEF ReputationInv, JobsOK, JobKnows, SourceInv, RowsOK
<1>3. r.event = ev /\ r.step = "mark" /\ r.step \notin TrustSteps
  BY DEF TrustSteps
<1>4. CASE ev \in A
  <2>1. UNCHANGED <<applied, accuracy, service>>
    BY <1>4 DEF Aggregate
  <2>2. JobKnows(r, published, applied.aggregates, applied.trust)
    BY <1>2, <1>3, <1>4 DEF JobKnows
  <2> HIDE DEF r
  <2> QED
    BY <1>1, <1>3, <2>1, <2>2, RunMoves DEF ReputationInv, AppliedOK, HandledIsCounted
<1>5. CASE ev \notin A
  <2>1. /\ applied' = [applied EXCEPT !.aggregates = @ \cup {ev}]
        /\ accuracy' = [accuracy EXCEPT ![ListingOf[s]] = Bump(@, review[s].accuracy)]
        /\ service' = [service EXCEPT ![Provider[s]] = Bump(@, review[s].service)]
    BY <1>5 DEF Aggregate
  <2>2. /\ applied' = [aggregates |-> A \cup {ev}, trust |-> applied.trust]
        /\ applied'.aggregates = A \cup {ev} /\ applied'.trust = applied.trust
    BY <2>1 DEF ReputationInv, AppliedOK
  <2>3. SourceInv' /\ UNCHANGED <<interaction, review, published>>
    BY <1>1, SourceStays DEF ReputationInv, sourceVars
  <2>4. JobKnows(r, published', applied'.aggregates, applied'.trust)
    BY <1>2, <1>3, <2>2, <2>3 DEF JobKnows
  <2>5. \A v \in Workers : InTrust(v) => job[v].event \notin applied.trust
    BY DEF ReputationInv, JobsOK, JobKnows, InTrust, TrustSteps
  <2>6. JobsOK'
    <3> HIDE DEF r
    <3> QED
      BY <1>1, <1>3, <2>2, <2>3, <2>4, <2>5, JobMoves DEF ReputationInv
  <2>7. AppliedOK'
    BY <1>1, <1>2, <2>2, <2>3, AppliedGrows DEF ReputationInv
  <2>8. /\ A \in SUBSET Events /\ IsFiniteSet(ReviewsOf(A)) /\ s \in Scopes
        /\ review[s] \in ReviewRow /\ \A v \in ReviewsOf(A) : review[v] \in ReviewRow
    <3>1. /\ A \in SUBSET published /\ {ev} \in SUBSET published /\ s \in ReviewsOf({ev})
          /\ IsFiniteSet(ReviewsOf(A))
      BY <1>2 DEF ReputationInv, AppliedOK, ReviewsOf
    <3> QED
      BY <3>1, AppliedRows DEF ReputationInv
  <2>9. ASSUME NEW u
        PROVE  /\ Summary(Served(u, A \cup {ev})) =
                    IF Provider[s] = u THEN Bump(Summary(Served(u, A)), review[s].service)
                                       ELSE Summary(Served(u, A))
               /\ Summary(Described(u, A \cup {ev})) =
                    IF ListingOf[s] = u THEN Bump(Summary(Described(u, A)), review[s].accuracy)
                                        ELSE Summary(Described(u, A))
    BY <1>2, <1>5, <2>8, ReviewCounted
  <2>10. /\ \A u \in Users : service'[u] = Summary(Served(u, A \cup {ev}))
         /\ \A l \in Listings : accuracy'[l] = Summary(Described(l, A \cup {ev}))
    <3>1. /\ \A u \in Users : service[u] = Summary(Served(u, A))
          /\ \A l \in Listings : accuracy[l] = Summary(Described(l, A))
          /\ DOMAIN service = Users /\ DOMAIN accuracy = Listings
      BY DEF ReputationInv, RebuildOK, ProjectionsAreRebuildable
    <3>2. /\ \A u \in Users : service'[u] =
               IF Provider[s] = u THEN Bump(service[u], review[s].service) ELSE service[u]
          /\ \A l \in Listings : accuracy'[l] =
               IF ListingOf[s] = l THEN Bump(accuracy[l], review[s].accuracy) ELSE accuracy[l]
      BY <2>1, <3>1
    <3> QED
      BY <2>9, <3>1, <3>2
  <2>11. /\ \A u \in Users : service'[u] = Summary(Served(u, A))'
         /\ \A l \in Listings : accuracy'[l] = Summary(Described(l, A))'
    BY <2>2, <2>3, <2>10, AggregatesRebuilt
  <2>12. ASSUME NEW u \in Users
         PROVE  profile'[u] = RebuiltProfile(u, applied.trust)' /\ HasLatest(Met(u, applied.trust))'
    BY <1>1, <2>2, <2>3, TrustRebuilt DEF ReputationInv, RebuildOK, ProjectionsAreRebuildable
  <2>13. history' = UNION {HistoryRows(e) : e \in applied'.trust}
    BY <1>1, <2>2 DEF ReputationInv, RebuildOK, ProjectionsAreRebuildable
  <2>14. /\ DOMAIN profile' = Users /\ DOMAIN accuracy' = Listings /\ DOMAIN service' = Users
         /\ accuracy' = [l \in Listings |-> accuracy'[l]] /\ service' = [u \in Users |-> service'[u]]
    <3>1. DOMAIN profile = Users /\ DOMAIN accuracy = Listings /\ DOMAIN service = Users
      BY DEF ReputationInv, RebuildOK
    <3>2. accuracy = [l \in Listings |-> accuracy[l]] /\ service = [u \in Users |-> service[u]]
      BY DEF ReputationInv, RebuildOK
    <3>3. accuracy' = [l \in Listings |-> accuracy'[l]]
      BY <2>1, <3>1, <3>2
    <3>4. service' = [u \in Users |-> service'[u]]
      BY <2>1, <3>1, <3>2
    <3> QED
      BY <1>1, <3>1, <3>3, <3>4
  <2>15. RebuildOK'
    BY <2>11, <2>12, <2>13, <2>14 DEF RebuildOK, ProjectionsAreRebuildable
  <2> QED
    BY <2>3, <2>6, <2>7, <2>15 DEF ReputationInv
<1> QED
  BY <1>4, <1>5

LEMMA Bumped ==
  ASSUME NEW n, NEW last, NEW level, NEW written, NEW rated, NEW at
  PROVE  BumpProfile([interactions |-> n, last |-> last, level |-> level, written |-> written, rated |-> rated],
                     at)
           = [interactions |-> n + 1, last |-> IF at > last THEN at ELSE last, level |-> Level(n + 1),
              written |-> written, rated |-> rated]
<1> DEFINE P(i, l, v) == [interactions |-> i, last |-> l, level |-> v, written |-> written, rated |-> rated]
           later == IF at > last THEN at ELSE last
<1>1. BumpProfile(P(n, last, level), at) =
        [P(n, last, level) EXCEPT !.interactions = n + 1, !.last = later, !.level = Level(n + 1)]
  BY DEF BumpProfile
<1>2. ASSUME NEW m, NEW l, NEW v
      PROVE  [P(n, last, level) EXCEPT !.interactions = m, !.last = l, !.level = v] = P(m, l, v)
  <2>1. \A p : [p EXCEPT !.interactions = m, !.last = l, !.level = v] =
                [[[p EXCEPT !.interactions = m] EXCEPT !.last = l] EXCEPT !.level = v]
    OBVIOUS
  <2>2. [P(n, last, level) EXCEPT !.interactions = m] = P(m, last, level)
    OBVIOUS
  <2>3. [P(m, last, level) EXCEPT !.last = l] = P(m, l, level)
    OBVIOUS
  <2>4. [P(m, l, level) EXCEPT !.level = v] = P(m, l, v)
    OBVIOUS
  <2> HIDE DEF P
  <2> QED
    BY <2>1, <2>2, <2>3, <2>4
<1>3. [P(n, last, level) EXCEPT !.interactions = n + 1, !.last = later, !.level = Level(n + 1)]
        = P(n + 1, later, Level(n + 1))
  <2> HIDE DEF P, later
  <2> QED
    BY <1>2, Zenon
<1>4. BumpProfile(P(n, last, level), at) = P(n + 1, later, Level(n + 1))
  <2> HIDE DEF P, later
  <2> QED
    BY <1>1, <1>3
<1> QED
  BY <1>4

\* bumpReviewer, bumpProviderService and bumpProfile, for one user.
LEMMA ProfileRebuilt ==
  ASSUME ReputationInv, NEW ev \in published, ev \notin applied.trust, NEW u \in Users
  PROVE  /\ Applied(u, ev) = RebuiltProfile(u, applied.trust \cup {ev})
         /\ HasLatest(Met(u, applied.trust \cup {ev}))
<1> DEFINE s == ev[2]
           T == applied.trust
           S == Met(u, T)
           Seen == Met(u, T \cup {ev})
<1>1. /\ T \in SUBSET Events /\ ev \in Events /\ ev \notin T /\ s \in Scopes
      /\ IsFiniteSet(ReviewsOf(T)) /\ IsFiniteSet(InspectionsOf(T))
      /\ \A v \in ReviewsOf(T) : review[v] \in ReviewRow
      /\ InspectionsOf(T) \subseteq Scopes /\ T \in SUBSET published
  BY AppliedRows, EventShape DEF ReputationInv, AppliedOK, SourceInv, RowsOK
<1>2. /\ profile[u] = RebuiltProfile(u, T) /\ HasLatest(S)
      /\ history = UNION {HistoryRows(e) : e \in T}
  BY DEF ReputationInv, RebuildOK, ProjectionsAreRebuildable
<1>3. Requester[s] # Provider[s]
  BY <1>1, ProjectionsAssumption
<1>4. CASE IsReview(ev)
  <2>1. review[s] \in ReviewRow
    <3>1. {ev} \in SUBSET published /\ s \in ReviewsOf({ev})
      BY <1>4 DEF ReviewsOf
    <3> QED
      BY <3>1, AppliedRows DEF ReputationInv
  <2>2. /\ Seen = S
        /\ Cardinality(Wrote(u, T \cup {ev})) =
             IF Requester[s] = u THEN Cardinality(Wrote(u, T)) + 1 ELSE Cardinality(Wrote(u, T))
        /\ Summary(Served(u, T \cup {ev})) =
             IF Provider[s] = u THEN Bump(Summary(Served(u, T)), review[s].service)
                                ELSE Summary(Served(u, T))
    <3>1. T \in SUBSET Events /\ ev \in Events /\ ev \notin T /\ IsFiniteSet(ReviewsOf(T))
      BY <1>1
    <3> QED
      BY <1>1, <1>4, <2>1, <3>1, ReviewCounted
  <2>3. CASE u = Requester[s]
    <3>1. Applied(u, ev) = [profile[u] EXCEPT !.written = @ + 1]
      BY <1>3, <1>4, <2>3 DEF Applied, HistoryRows
    <3> QED
      BY <1>2, <1>3, <2>2, <2>3, <3>1 DEF RebuiltProfile
  <2>4. CASE u = Provider[s]
    <3>1. Applied(u, ev) = [profile[u] EXCEPT !.rated = Bump(@, review[s].service)]
      BY <1>3, <1>4, <2>4 DEF Applied, HistoryRows
    <3> QED
      BY <1>2, <1>3, <2>2, <2>4, <3>1 DEF RebuiltProfile
  <2>5. CASE u \notin {Requester[s], Provider[s]}
    <3>1. Applied(u, ev) = profile[u]
      BY <1>4, <2>5 DEF Applied, HistoryRows
    <3> QED
      BY <1>2, <2>2, <2>5, <3>1 DEF RebuiltProfile
  <2> QED
    BY <2>3, <2>4, <2>5
<1>5. CASE ~IsReview(ev)
  <2>1. /\ Wrote(u, T \cup {ev}) = Wrote(u, T) /\ Served(u, T \cup {ev}) = Served(u, T)
        /\ Cardinality(S) \in Nat
        /\ IF s \in Appointments /\ u \in {Requester[s], Provider[s]}
             THEN Seen = S \cup {s} /\ Cardinality(Seen) = Cardinality(S) + 1
             ELSE Seen = S
    BY <1>1, <1>5, InteractionCounted
  <2>2. CASE s \in Appointments /\ u \in {Requester[s], Provider[s]}
    <3>1. <<s, u>> \in HistoryRows(ev) /\ Counts(ev)
      BY <1>5, <2>2 DEF HistoryRows, Counts
    <3>2. <<s, u>> \notin history
      <4> SUFFICES ASSUME NEW e \in T, <<s, u>> \in HistoryRows(e)
                   PROVE  FALSE
        BY <1>2
      <4>1. ~IsReview(e) /\ e[2] = s
        BY DEF HistoryRows
      <4>2. e = ev
        BY <1>1, <1>5, <4>1, EventShape DEF IsReview
      <4> QED
        BY <1>1, <4>2
    <3>3. Applied(u, ev) = BumpProfile(profile[u], interaction[s])
      BY <1>5, <3>1, <3>2 DEF Applied
    <3>4. interaction[s] # 0 /\ interaction \in [Scopes -> Nat] /\ S \in SUBSET Scopes
      <4>1. {ev} \in SUBSET published /\ s \in InspectionsOf({ev})
        BY <1>5, <2>2 DEF InspectionsOf
      <4> QED
        BY <1>1, <4>1, AppliedRows, VerifiedAssumption DEF ReputationInv, SourceInv, RowsOK, Met
    <3>5. /\ HasLatest(Seen)
          /\ Latest(Seen) = IF interaction[s] > Latest(S) THEN interaction[s] ELSE Latest(S)
      <4>1. Seen = S \cup {s}
        BY <2>1, <2>2
      <4> HIDE DEF S, Seen
      <4>2. /\ HasLatest(S \cup {s})
            /\ Latest(S \cup {s}) = IF interaction[s] > Latest(S) THEN interaction[s] ELSE Latest(S)
        BY <1>1, <1>2, <3>4, LatestAdded
      <4> QED
        BY <4>1, <4>2
    <3>6. profile[u] = [interactions |-> Cardinality(S), last |-> Latest(S), level |-> Level(Cardinality(S)),
                        written |-> Cardinality(Wrote(u, T)), rated |-> Summary(Served(u, T))]
      BY <1>2 DEF RebuiltProfile
    <3>7. Applied(u, ev) =
            [interactions |-> Cardinality(Seen), last |-> Latest(Seen), level |-> Level(Cardinality(Seen)),
             written |-> Cardinality(Wrote(u, T)), rated |-> Summary(Served(u, T))]
      BY <2>1, <2>2, <3>3, <3>5, <3>6, Bumped
    <3> QED
      BY <2>1, <3>5, <3>7 DEF RebuiltProfile
  <2>3. CASE ~(s \in Appointments /\ u \in {Requester[s], Provider[s]})
    <3>1. ~(Counts(ev) /\ <<s, u>> \in HistoryRows(ev))
      BY <1>5, <2>3 DEF Counts, HistoryRows
    <3>2. Applied(u, ev) = profile[u]
      BY <1>5, <3>1 DEF Applied
    <3> QED
      BY <1>2, <2>1, <2>3, <3>2 DEF RebuiltProfile
  <2> QED
    BY <2>2, <2>3
<1> QED
  BY <1>4, <1>5

LEMMA TrustCommitStep ==
  ASSUME ReputationInv, NEW w \in Workers, TrustCommit(w)
  PROVE  ReputationInv'
<1> DEFINE ev == job[w].event
           T == applied.trust
           r == [event |-> ev, step |-> "settle"]
<1>1. /\ job[w].step = "commit" /\ job' = [job EXCEPT ![w] = r]
      /\ profile' = [u \in Users |-> Applied(u, ev)] /\ history' = history \cup HistoryRows(ev)
      /\ applied' = [applied EXCEPT !.trust = @ \cup {ev}]
      /\ UNCHANGED <<sourceVars, handled, accuracy, service>>
  BY DEF TrustCommit, To
<1>2. /\ ev \in published /\ ev \notin T /\ InTrust(w)
      /\ IsReview(ev) => ev \in applied.aggregates
  BY <1>1 DEF ReputationInv, JobsOK, JobKnows, InTrust, TrustSteps
<1>3. /\ applied' = [aggregates |-> applied.aggregates, trust |-> T \cup {ev}]
      /\ applied'.aggregates = applied.aggregates /\ applied'.trust = T \cup {ev}
  BY <1>1 DEF ReputationInv, AppliedOK
<1>4. SourceInv' /\ UNCHANGED <<interaction, review, published>>
  BY <1>1, SourceStays DEF ReputationInv, sourceVars
<1>5. JobsOK'
  <2>1. r.event = ev /\ r.step = "settle" /\ r.step \notin TrustSteps
    BY DEF TrustSteps
  <2>2. JobKnows(r, published', applied'.aggregates, applied'.trust)
    BY <1>2, <1>3, <1>4, <2>1 DEF JobKnows, TrustSteps
  <2>3. \A v \in Workers : InTrust(v) => job[v].event \notin T
    BY DEF ReputationInv, JobsOK, JobKnows, InTrust, TrustSteps
  <2>4. \A v \in Workers \ {w} : InTrust(v) => job[v].event # ev
    BY <1>2 DEF ReputationInv, JobsOK
  <2>5. \A v \in Workers \ {w} : InTrust(v) => job[v].event \notin applied'.trust
    BY <1>3, <2>3, <2>4
  <2> HIDE DEF r, ev
  <2> QED
    BY <1>1, <1>3, <1>4, <2>1, <2>2, <2>5, JobMoves DEF ReputationInv
<1>6. AppliedOK'
  BY <1>1, <1>2, <1>3, <1>4, AppliedGrows DEF ReputationInv
<1>7. ASSUME NEW u \in Users
      PROVE  profile'[u] = RebuiltProfile(u, applied.trust)' /\ HasLatest(Met(u, applied.trust))'
  <2>1. Applied(u, ev) = RebuiltProfile(u, T \cup {ev}) /\ HasLatest(Met(u, T \cup {ev}))
    BY <1>2, ProfileRebuilt
  <2>2. profile'[u] = Applied(u, ev)
    BY <1>1
  <2> QED
    BY <1>3, <1>4, <2>1, <2>2, TrustRebuilt
<1>8. /\ \A u \in Users : service'[u] = Summary(Served(u, applied.aggregates))'
      /\ \A l \in Listings : accuracy'[l] = Summary(Described(l, applied.aggregates))'
  BY <1>1, <1>3, <1>4, AggregatesRebuilt DEF ReputationInv, RebuildOK, ProjectionsAreRebuildable
<1>9. history' = UNION {HistoryRows(e) : e \in applied'.trust}
  BY <1>1, <1>3 DEF ReputationInv, RebuildOK, ProjectionsAreRebuildable
<1>10. /\ DOMAIN profile' = Users /\ DOMAIN accuracy' = Listings /\ DOMAIN service' = Users
       /\ accuracy' = [l \in Listings |-> accuracy'[l]] /\ service' = [u \in Users |-> service'[u]]
  BY <1>1 DEF ReputationInv, RebuildOK
<1>11. RebuildOK'
  BY <1>7, <1>8, <1>9, <1>10 DEF RebuildOK, ProjectionsAreRebuildable
<1> QED
  BY <1>4, <1>5, <1>6, <1>11 DEF ReputationInv

-----------------------------------------------------------------------------
(* Every step *)

\* Steps of requests publish and take back nothing.
LEMMA PublishedGrows ==
  ASSUME NEW c \in Clients, Tick \/ VerifiedNext(c) \/ ReviewsNext(c)
  PROVE  published \subseteq published'
<1>1. CASE FinishWrite(c)
  BY <1>1 DEF FinishWrite, Finished
<1>2. CASE ReviewWrite(c)
  BY <1>2 DEF ReviewWrite
<1>3. CASE (Tick \/ VerifiedNext(c) \/ ReviewsNext(c)) /\ ~FinishWrite(c) /\ ~ReviewWrite(c)
  <2>1. UNCHANGED published
    BY <1>3
    DEF Tick, VerifiedNext, ReviewsNext, AppointmentCreate, AppointmentRead, AppointmentWrite, StartCheck,
        ReplaceBegin, ReplaceCommit, FlowStart, FinishCheck, ReviewCheck
  <2> QED
    BY <2>1
<1> QED
  BY <1>1, <1>2, <1>3

LEMMA SourceMoves ==
  ASSUME ReputationInv, SourceInv', OutcomesStay, published \subseteq published', UNCHANGED projectionVars
  PROVE  ReputationInv'
<1>1. UNCHANGED <<job, handled, applied, accuracy, service, profile, history>>
  BY DEF projectionVars
<1>2. JobsOK'
  BY <1>1 DEF ReputationInv, JobsOK, JobKnows, InTrust
<1>3. AppliedOK'
  BY <1>1 DEF ReputationInv, AppliedOK, HandledIsCounted, Counted
<1>4. RebuildOK'
  BY <1>1, RebuildStays DEF ReputationInv
<1> QED
  BY <1>2, <1>3, <1>4 DEF ReputationInv

LEMMA ReputationInit == Init => ReputationInv
<1> SUFFICES ASSUME Init
             PROVE  ReputationInv
  OBVIOUS
<1>1. /\ job = [w \in Workers |-> NoJob] /\ handled = {}
      /\ applied = [aggregates |-> {}, trust |-> {}]
      /\ accuracy = [l \in Listings |-> ZeroSummary] /\ service = [u \in Users |-> ZeroSummary]
      /\ profile = [u \in Users |-> ZeroProfile] /\ history = {}
  BY DEF Init, ProjectionsInit
<1>2. JobsOK
  BY <1>1, NoJobKnows DEF JobsOK, InTrust, NoJob
<1>3. /\ ReviewsOf({}) = {} /\ InspectionsOf({}) = {} /\ IsFiniteSet({}) /\ Cardinality({}) = 0
  BY FS_EmptySet DEF ReviewsOf, InspectionsOf
<1>4. AppliedOK
  BY <1>1, <1>3 DEF AppliedOK, HandledIsCounted
<1>5. ASSUME NEW f, DOMAIN f = {}
      PROVE  Summary(f) = ZeroSummary
  <2>1. \A r : {s \in DOMAIN f : f[s] = r} = {}
    BY <1>5
  <2>2. \A r : Given(f, r) = 0
    BY <1>3, <2>1 DEF Given
  <2> QED
    BY <1>3, <1>5, <2>2 DEF Summary, ZeroSummary
<1>6. ASSUME NEW u
      PROVE  /\ Met(u, {}) = {} /\ Wrote(u, {}) = {}
             /\ Summary(Served(u, {})) = ZeroSummary /\ Summary(Described(u, {})) = ZeroSummary
  <2>1. DOMAIN Served(u, {}) = {} /\ DOMAIN Described(u, {}) = {}
    BY <1>3 DEF Served, Described
  <2> QED
    BY <1>3, <1>5, <2>1 DEF Met, Wrote
<1>7. Level(0) = "new"
  BY ProjectionsAssumption DEF Level
<1>8. ASSUME NEW u
      PROVE  RebuiltProfile(u, {}) = ZeroProfile /\ HasLatest(Met(u, {}))
  BY <1>3, <1>6, <1>7 DEF RebuiltProfile, ZeroProfile, Latest, HasLatest
<1>9. applied.trust = {} /\ applied.aggregates = {} /\ history = UNION {HistoryRows(ev) : ev \in {}}
  BY <1>1
<1>10. ProjectionsAreRebuildable
  BY <1>1, <1>6, <1>8, <1>9 DEF ProjectionsAreRebuildable
<1>11. RebuildOK
  BY <1>1, <1>8, <1>9, <1>10 DEF RebuildOK
<1> QED
  BY <1>2, <1>4, <1>11, SourceInit DEF ReputationInv

LEMMA ReputationStep == ReputationInv /\ [Next]_vars => ReputationInv'
<1> SUFFICES ASSUME ReputationInv, [Next]_vars
             PROVE  ReputationInv'
  OBVIOUS
<1>1. SourceInv' /\ OutcomesStay
  BY SourceStep DEF ReputationInv
<1>2. CASE /\ UNCHANGED projectionVars
           /\ Tick \/ \E c \in Clients : VerifiedNext(c) \/ ReviewsNext(c)
  <2>1. published \subseteq published'
    BY <1>2, PublishedGrows DEF Tick
  <2> QED
    BY <1>1, <1>2, <2>1, SourceMoves
<1>3. ASSUME NEW w \in Workers, ProjectionsNext(w)
      PROVE  ReputationInv'
  BY <1>3, DeliverStep, AggregateStep, TrustMarkStep, TrustLockStep, TrustCommitStep, RunEndsStep
  DEF ProjectionsNext
<1>4. CASE UNCHANGED vars
  <2>1. UNCHANGED projectionVars /\ published \subseteq published'
    BY <1>4 DEF vars, sourceVars
  <2> QED
    BY <1>1, <2>1, SourceMoves
<1> QED
  BY <1>2, <1>3, <1>4 DEF Next

\* A completed outbox row has been counted by each of its projectors: a run
\* settles only after the steps that applied its event, and nothing that was
\* applied is taken back.
THEOREM HandledStaysCounted == Spec => []HandledIsCounted
<1>1. ReputationInv => HandledIsCounted
  BY DEF ReputationInv, AppliedOK
<1> QED
  BY <1>1, ReputationInit, ReputationStep, PTL DEF Spec

\* Profiles, levels, rating summaries and the history are what a rebuild from
\* the reviews and interactions gives: an event is applied by one transaction
\* at a time and only while it is not in processed_events, and the rows it was
\* counted from do not change.
THEOREM ProjectionsStayRebuildable == Spec => []ProjectionsAreRebuildable
<1>1. ReputationInv => ProjectionsAreRebuildable
  BY DEF ReputationInv, RebuildOK
<1> QED
  BY <1>1, ReputationInit, ReputationStep, PTL DEF Spec

\* The tables and counters keep their types, for any bounds: what a reader of
\* verified, reviews and the projections may take for granted of the rows.
THEOREM ReputationTypeCorrect == Spec => []TypeOK
<1> DEFINE LostOK == lost \in 0..MaxLost
<1>1. Init => LostOK
  BY ProjectionsAssumption DEF Init, ProjectionsInit
<1>2. LostOK /\ [Next]_vars => LostOK'
  <2>1. ASSUME NEW w \in Workers, ProjectionsNext(w)
        PROVE  UNCHANGED lost \/ (lost < MaxLost /\ lost' = lost + 1)
    BY <2>1 DEF ProjectionsNext, Deliver, Aggregate, TrustMark, TrustLock, TrustCommit, Settle, HandlerLost,
                DeadlockAbort, Failed
  <2>2. [Next]_vars => UNCHANGED lost \/ (lost < MaxLost /\ lost' = lost + 1)
    BY <2>1 DEF Next, vars, projectionVars
  <2> QED
    BY <2>2, ProjectionsAssumption
<1>3. ReputationInv /\ LostOK => TypeOK
  <2> SUFFICES ASSUME ReputationInv, LostOK
               PROVE  TypeOK
    OBVIOUS
  <2>1. RowsOK /\ handled \subseteq published /\ applied.trust \subseteq Events
    BY DEF ReputationInv, SourceInv, RowsOK, AppliedOK
  <2>2. history \subseteq Scopes \X Users
    <3> SUFFICES ASSUME NEW ev \in applied.trust
                 PROVE  HistoryRows(ev) \subseteq Scopes \X Users
      BY DEF ReputationInv, RebuildOK, ProjectionsAreRebuildable
    <3>1. ev[2] \in Scopes
      BY <2>1, EventShape
    <3> QED
      BY <3>1, ProjectionsAssumption DEF HistoryRows
  <2>3. /\ \A s \in Appointments : scope[s] \in AppointmentStatuses
        /\ \A s \in Flows : scope[s] \in FlowStatuses
    BY <2>1 DEF RowsOK
  <2>4. \A k \in Issued : challenge[k].of \in Scopes /\ challenge[k].consumed \in BOOLEAN
    BY <2>1 DEF RowsOK, Issued, ChallengeRow
  <2>5. \A s \in Scopes : review[s] # NoReview => review[s].accuracy \in Ratings
    BY <2>1 DEF RowsOK, ReviewRow
  <2> QED
    BY <2>1, <2>2, <2>3, <2>4, <2>5 DEF TypeOK, RowsOK, AppointmentStatuses, FlowStatuses, Events
<1> QED
  BY <1>1, <1>2, <1>3, ReputationInit, ReputationStep, PTL DEF Spec

=============================================================================
