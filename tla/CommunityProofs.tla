-------------------------- MODULE CommunityProofs --------------------------
(***************************************************************************)
(* What users and staff do beside the trade, and what a dispatcher tells   *)
(* them, for any number of requests, messages, cases, attempts, rows,      *)
(* endpoints, planners, lost holds and faults.                             *)
(*                                                                         *)
(* The argument about the parts of module Community: a request carries     *)
(* what it has read, and that was true when it read it.  A row that is     *)
(* still at the version that was read is still as it was read, so that     *)
(* what the request writes follows from it; where a statement has no such  *)
(* condition, what goes wrong is of the request that overlapped.  A        *)
(* behaviour is of one part: the rows of the others rest as they were.     *)
(*                                                                         *)
(* The argument about module Dispatch: what a dispatcher carries for a row *)
(* is true of the row whoever else has claimed it.  An opt-out or a        *)
(* disabled account stays so, and an acceptance of a provider is never     *)
(* forgotten, so that it does not matter how old the claim is under which  *)
(* the outcome is written.                                                 *)
(***************************************************************************)
EXTENDS Community, Dispatch, TLAPS, FiniteSetTheorems, SequenceTheorems, WellFoundedInduction

LEMMA AtMostOne ==
  ASSUME NEW S, \A x, y \in S : x = y
  PROVE  Cardinality(S) <= 1
<1>1. CASE S = {}
  BY <1>1, FS_EmptySet
<1>2. CASE S # {}
  <2>1. PICK x : x \in S
    BY <1>2
  <2>2. S = {x}
    BY <2>1
  <2>3. Cardinality(S) = 1
    BY <2>2, FS_Singleton
  <2> QED
    BY <2>3
<1> QED
  BY <1>1, <1>2

-----------------------------------------------------------------------------
(* Messaging *)

\* What a request about the conversation has taken: its time is later than the
\* pointers and the updated_at it has seen, or that of a message.
MessagingFrame(f) ==
  /\ f.op \in {"idle", "chat", "send", "mark"}
  /\ f.op \in {"send", "mark"} =>
       f.from \in Parties /\ f.at \in Nat /\ f.base \in [Parties -> Nat] /\ f.since \in Nat
  /\ f.op = "send" => f.at \in 1..clock /\ f.since < f.at /\ \A u \in Parties : f.base[u] < f.at
  /\ f.op = "mark" => f.base[f.from] <= f.at /\ (f.at = 0 \/ \E m \in messages : m.at = f.at)

\* Messages have times that have passed, and one of them is the last.
MessagingInv ==
  /\ DOMAIN call = Clients
  /\ chats \subseteq {1}
  /\ clock \in Nat /\ updated \in Nat /\ updated <= clock
  /\ messages \subseteq [at : 1..clock, from : Parties]
  /\ \A m \in messages : ReceivedKey(m.at) \in published
  /\ messages # {} => \E m \in messages : \A n \in messages : n.at <= m.at
  /\ pointer \in [Parties -> Nat]
  /\ \A u \in Parties : pointer[u] = 0 \/ \E m \in messages : m.at = pointer[u]
  /\ \A c \in Clients : MessagingFrame(call[c])

LEMMA CounterpartIsOther == \A u \in Parties : Counterpart(u) \in Parties
  BY DEF Counterpart, Parties

LEMMA LatestIsLast ==
  ASSUME MessagingInv
  PROVE  /\ LatestMessage \in Nat
         /\ \A u \in Parties : pointer[u] <= LatestMessage
         /\ LatestMessage = 0 \/ \E m \in messages : m.at = LatestMessage
<1>1. CASE messages = {}
  BY <1>1 DEF MessagingInv, LatestMessage
<1>2. CASE messages # {}
  <2> DEFINE last == CHOOSE m \in messages : \A n \in messages : n.at <= m.at
  <2>1. last \in messages /\ \A n \in messages : n.at <= last.at
    BY <1>2 DEF MessagingInv
  <2>2. LatestMessage = last.at
    BY <1>2 DEF LatestMessage
  <2>3. last.at \in Nat
    BY <2>1 DEF MessagingInv
  <2> HIDE DEF last
  <2> QED
    BY <2>1, <2>2, <2>3 DEF MessagingInv
<1> QED
  BY <1>1, <1>2

LEMMA MessagingStarts ==
  ASSUME MessagingInit, call = [c \in Clients |-> Idle]
  PROVE  MessagingInv
BY DEF MessagingInit, MessagingInv, MessagingFrame, Idle, Parties

\* Nothing goes back while nothing is written.
LEMMA NothingGoesBack ==
  ASSUME MessagingInv, UNCHANGED <<updated, messages, pointer>>
  PROVE  GoesBackOnlyByOverlap
<1>1. \A c \in Clients : call[c].op \in {"send", "mark"} => pointer[call[c].from] \in Nat
  BY DEF MessagingInv, MessagingFrame
<1>2. updated \in Nat
  BY DEF MessagingInv
<1> QED
  BY <1>1, <1>2 DEF GoesBackOnlyByOverlap

\* Requests that end leave the rest as it was.
LEMMA MessagingEnds ==
  ASSUME MessagingInv, UNCHANGED <<published, messagingVars>>, DOMAIN call' = Clients,
         \A c \in Clients : call'[c] \in {call[c], Idle}
  PROVE  MessagingInv' /\ GoesBackOnlyByOverlap
<1>1. UNCHANGED <<published, visible, chats, updated, messages, pointer, clock>>
  BY DEF messagingVars
<1>2. \A c \in Clients : MessagingFrame(call[c])'
  BY <1>1 DEF MessagingInv, MessagingFrame, Idle
<1>3. MessagingInv'
  BY <1>1, <1>2 DEF MessagingInv, ReceivedKey
<1>4. GoesBackOnlyByOverlap
  BY <1>1, NothingGoesBack
<1> QED
  BY <1>3, <1>4

LEMMA SendMessageStep ==
  ASSUME MessagingInv, NEW c \in Clients, NEW u \in Parties, SendMessage(c, u)
  PROVE  MessagingInv' /\ GoesBackOnlyByOverlap
<1>1. /\ clock' = clock + 1
      /\ call' = [call EXCEPT ![c] = [op |-> "send", from |-> u, at |-> clock + 1, base |-> pointer, since |-> updated]]
      /\ UNCHANGED <<published, visible, chats, updated, messages, pointer>>
  BY DEF SendMessage, Proceed
<1>2. \A v \in Parties : pointer[v] < clock + 1
  BY DEF MessagingInv
<1>3. \A d \in Clients : MessagingFrame(call[d])'
  BY <1>1, <1>2 DEF MessagingInv, MessagingFrame
<1>4. MessagingInv'
  BY <1>1, <1>3 DEF MessagingInv, ReceivedKey
<1>5. GoesBackOnlyByOverlap
  BY <1>1, NothingGoesBack
<1> QED
  BY <1>4, <1>5

LEMMA InsertMessageStep ==
  ASSUME MessagingInv, NEW c \in Clients, InsertMessage(c)
  PROVE  MessagingInv' /\ GoesBackOnlyByOverlap
<1> DEFINE f == call[c]
           sent == [at |-> f.at, from |-> f.from]
<1>1. /\ f.op = "send" /\ messages' = messages \cup {sent}
      /\ published' = published \cup {ReceivedKey(f.at)}
      /\ updated' = f.at /\ pointer' = [pointer EXCEPT ![f.from] = f.at]
      /\ call' = [call EXCEPT ![c] = Idle]
      /\ UNCHANGED <<visible, chats, clock>>
  BY DEF InsertMessage, Return
<1>2. /\ f.from \in Parties /\ f.at \in 1..clock /\ f.base \in [Parties -> Nat] /\ f.since \in Nat /\ clock \in Nat
      /\ f.since < f.at /\ \A u \in Parties : f.base[u] < f.at
  BY <1>1 DEF MessagingInv, MessagingFrame
<1>3. sent \in [at : 1..clock, from : Parties] /\ sent.at = f.at /\ sent.from = f.from /\ sent \in messages'
  BY <1>1, <1>2
<1> HIDE DEF f, sent
<1>4. \A d \in Clients : MessagingFrame(call[d])'
  <2> TAKE d \in Clients
  <2>1. CASE d = c
    BY <1>1, <2>1 DEF MessagingInv, MessagingFrame, Idle
  <2>2. CASE d # c
    <3>1. call'[d] = call[d]
      BY <1>1, <2>2
    <3> QED
      BY <1>1, <3>1 DEF MessagingInv, MessagingFrame
  <2> QED
    BY <2>1, <2>2
<1>5. messages' \subseteq [at : 1..clock', from : Parties] /\ updated' \in Nat /\ updated' <= clock' /\ pointer' \in [Parties -> Nat]
  BY <1>1, <1>2, <1>3 DEF MessagingInv
<1>6. \A m \in messages' : ReceivedKey(m.at) \in published'
  BY <1>1, <1>3 DEF MessagingInv
<1>7. \E m \in messages' : \A n \in messages' : n.at <= m.at
  <2>1. CASE messages = {}
    BY <1>1, <1>2, <1>3, <2>1
  <2>2. CASE messages # {}
    <3>1. PICK m \in messages : \A n \in messages : n.at <= m.at
      BY <2>2 DEF MessagingInv
    <3>2. m.at \in Nat /\ \A n \in messages : n.at \in Nat
      BY <3>1 DEF MessagingInv
    <3>3. CASE m.at <= f.at
      BY <1>1, <1>2, <1>3, <3>1, <3>2, <3>3
    <3>4. CASE f.at <= m.at
      BY <1>1, <1>2, <1>3, <3>1, <3>2, <3>4
    <3> QED
      BY <1>2, <3>2, <3>3, <3>4
  <2> QED
    BY <2>1, <2>2
<1>8. \A u \in Parties : pointer'[u] = 0 \/ \E m \in messages' : m.at = pointer'[u]
  BY <1>1, <1>2, <1>3 DEF MessagingInv
<1>9. MessagingInv'
  BY <1>1, <1>4, <1>5, <1>6, <1>7, <1>8 DEF MessagingInv
<1>10. GoesBackOnlyByOverlap
  <2> SUFFICES ASSUME NEW d \in Clients, call[d].op \in {"send", "mark"}, call'[d] = Idle
               PROVE  /\ pointer'[call[d].from] < pointer[call[d].from] => call[d].base # pointer
                      /\ updated' < updated => call[d].since # updated
                      /\ \A m \in messages' \ messages :
                           m.at <= pointer[Counterpart(m.from)] => call[d].base # pointer
    BY DEF GoesBackOnlyByOverlap
  <2>1. d = c
    BY <1>1 DEF Idle, MessagingInv
  <2>2. call[d] = f
    BY <2>1 DEF f
  <2>3. pointer'[f.from] = f.at
    BY <1>1, <1>2 DEF MessagingInv
  <2>4. \A m \in messages' \ messages : m.at = f.at /\ Counterpart(m.from) \in Parties
    BY <1>1, <1>2, <1>3, CounterpartIsOther
  <2>5. \A u \in Parties : f.base[u] \in Nat /\ f.at \in Nat
    BY <1>2
  <2> QED
    BY <1>1, <1>2, <2>2, <2>3, <2>4, <2>5 DEF MessagingInv
<1> QED
  BY <1>9, <1>10

LEMMA MarkReadStep ==
  ASSUME MessagingInv, NEW c \in Clients, NEW u \in Parties, MarkRead(c, u)
  PROVE  MessagingInv' /\ GoesBackOnlyByOverlap
<1>1. /\ call' = [call EXCEPT ![c] = [op |-> "mark", from |-> u, at |-> LatestMessage, base |-> pointer, since |-> updated]]
      /\ UNCHANGED <<published, visible, chats, updated, messages, pointer, clock>>
  BY DEF MarkRead, Proceed, messagingVars
<1>2. /\ LatestMessage \in Nat
      /\ pointer[u] <= LatestMessage
      /\ LatestMessage = 0 \/ \E m \in messages : m.at = LatestMessage
  BY LatestIsLast
<1> HIDE DEF LatestMessage
<1>3. \A d \in Clients : MessagingFrame(call[d])'
  BY <1>1, <1>2 DEF MessagingInv, MessagingFrame
<1>4. MessagingInv'
  BY <1>1, <1>3 DEF MessagingInv, ReceivedKey
<1>5. GoesBackOnlyByOverlap
  BY <1>1, NothingGoesBack
<1> QED
  BY <1>4, <1>5

LEMMA WritePointerStep ==
  ASSUME MessagingInv, NEW c \in Clients, WritePointer(c)
  PROVE  MessagingInv' /\ GoesBackOnlyByOverlap
<1>1. /\ call[c].op = "mark" /\ pointer' = [pointer EXCEPT ![call[c].from] = call[c].at]
      /\ call' = [call EXCEPT ![c] = Idle]
      /\ UNCHANGED <<published, visible, chats, updated, messages, clock>>
  BY DEF WritePointer, Return
<1>2. \A d \in Clients : MessagingFrame(call[d])'
  BY <1>1 DEF MessagingInv, MessagingFrame, Idle
<1>3. MessagingInv'
  BY <1>1, <1>2 DEF MessagingInv, MessagingFrame, ReceivedKey
<1>4. GoesBackOnlyByOverlap
  BY <1>1 DEF MessagingInv, MessagingFrame, GoesBackOnlyByOverlap, Idle
<1> QED
  BY <1>3, <1>4

LEMMA MessagingStep ==
  ASSUME MessagingInv, MessagingNext
  PROVE  MessagingInv' /\ GoesBackOnlyByOverlap
<1>1. CASE VisibilityChanges
  <2>1. UNCHANGED <<call, published, chats, updated, messages, pointer, clock>>
    BY <1>1 DEF VisibilityChanges
  <2>2. \A c \in Clients : MessagingFrame(call[c])'
    BY <2>1 DEF MessagingInv, MessagingFrame
  <2> QED
    BY <2>1, <2>2, NothingGoesBack DEF MessagingInv, ReceivedKey
<1>2. ASSUME NEW c \in Clients, CreateConversation(c)
      PROVE  MessagingInv' /\ GoesBackOnlyByOverlap
  <2>1. UNCHANGED <<published, chats, updated, messages, pointer, clock>> /\ call' = [call EXCEPT ![c] = [op |-> "chat"]]
    BY <1>2 DEF CreateConversation, Proceed, messagingVars
  <2>2. \A d \in Clients : MessagingFrame(call[d])'
    BY <2>1 DEF MessagingInv, MessagingFrame
  <2> QED
    BY <2>1, <2>2, NothingGoesBack DEF MessagingInv, ReceivedKey
<1>3. ASSUME NEW c \in Clients, InsertConversation(c)
      PROVE  MessagingInv' /\ GoesBackOnlyByOverlap
  <2>1. /\ UNCHANGED <<published, updated, messages, pointer, clock>> /\ call' = [call EXCEPT ![c] = Idle]
        /\ chats' \subseteq {1}
    BY <1>3 DEF InsertConversation, Return, MessagingInv
  <2>2. \A d \in Clients : MessagingFrame(call[d])'
    BY <2>1 DEF MessagingInv, MessagingFrame, Idle
  <2> QED
    BY <2>1, <2>2, NothingGoesBack DEF MessagingInv, ReceivedKey
<1> QED
  BY <1>1, <1>2, <1>3, SendMessageStep, InsertMessageStep, MarkReadStep, WritePointerStep DEF MessagingNext

LEMMA MessagingTold == MessagingInv => ConversationStory
<1> SUFFICES ASSUME MessagingInv
             PROVE  ConversationStory
  OBVIOUS
<1>1. chats = {} \/ chats = {1}
  BY DEF MessagingInv
<1>2. Cardinality(chats) <= 1
  BY <1>1, FS_EmptySet, FS_Singleton
<1> QED
  BY <1>2 DEF MessagingInv, ConversationStory

-----------------------------------------------------------------------------
(* Businesses *)

RowStatuses == {"none", "draft", "active", "paused", "closed"}
Contents == [Fields -> Int]
BusinessRow == [status : RowStatuses, content : Contents, place : BOOLEAN, ver : Nat]
ServiceRow == [status : RowStatuses, content : Contents, ver : Nat]

\* ver is that of an earlier row, or of this one, which is not closed.
ReadOpen(ver, row) ==
  /\ ver \in Nat /\ ver <= row.ver
  /\ ver = row.ver => row.status # "closed"

\* What a request about a business or its service has read.
BusinessFrame(f) ==
  /\ f.op \in {"idle", "found", "locate", "patch_business", "update", "locating", "move", "offer",
               "patch_service", "update_service", "move_service"}
  /\ f.op \in {"patch_business", "update", "patch_service", "update_service"} => f.content \in Contents
  /\ f.op \in {"update", "locating", "move"} => ReadOpen(f.ver, business)
  /\ f.op = "update" /\ f.ver = business.ver => f.seen = business.content
  /\ f.op \in {"move", "move_service"} => f.next \in RowStatuses
  /\ f.op \in {"offer", "update_service", "move_service"} => ReadOpen(f.parent, business)
  /\ f.op \in {"update_service", "move_service"} => ReadOpen(f.ver, offered)
  /\ f.op = "update_service" /\ f.ver = offered.ver => f.seen = offered.content

BusinessInv ==
  /\ DOMAIN call = Clients
  /\ business \in BusinessRow /\ offered \in ServiceRow
  /\ \A c \in Clients : BusinessFrame(call[c])

\* A row is as it was, or was not closed and has a later version.
Later(row, next) == next = row \/ (row.status # "closed" /\ row.ver < next.ver)

LEMMA DraftsAreRows ==
  /\ NoBusiness \in BusinessRow /\ NoService \in ServiceRow
  /\ DraftBusiness \in BusinessRow /\ DraftService \in ServiceRow
  /\ NoBusiness.ver = 0 /\ NoBusiness.status = "none" /\ DraftBusiness.ver = 1
  /\ NoService.ver = 0 /\ NoService.status = "none" /\ DraftService.ver = 1
  /\ DraftBusiness.content = NoBusiness.content
  /\ DraftService.content = NoService.content
<1>1. NoBusiness \in BusinessRow /\ NoBusiness.ver = 0 /\ NoBusiness.status = "none"
  BY DEF NoBusiness, BusinessRow, RowStatuses, Contents
<1>2. NoService \in ServiceRow /\ NoService.ver = 0 /\ NoService.status = "none"
  BY DEF NoService, ServiceRow, RowStatuses, Contents
<1>3. \A r \in BusinessRow : LET d == [r EXCEPT !.status = "draft", !.ver = 1]
                             IN  d \in BusinessRow /\ d.ver = 1 /\ d.content = r.content
  BY DEF BusinessRow, RowStatuses
<1>4. \A r \in ServiceRow : LET d == [r EXCEPT !.status = "draft", !.ver = 1]
                            IN  d \in ServiceRow /\ d.ver = 1 /\ d.content = r.content
  BY DEF ServiceRow, RowStatuses
<1> QED
  BY <1>1, <1>2, <1>3, <1>4 DEF DraftBusiness, DraftService

\* A write of a row gives it the next version.
LEMMA BusinessEdits ==
  ASSUME NEW r \in BusinessRow
  PROVE  /\ \A x \in Contents :
              Edited(r, x) \in BusinessRow /\ Edited(r, x).ver = r.ver + 1 /\ Edited(r, x).content = x
         /\ \A s \in RowStatuses :
              Write(r, s) \in BusinessRow /\ Write(r, s).ver = r.ver + 1 /\ Write(r, s).content = r.content
<1>1. \A q \in BusinessRow, n \in Nat :
        /\ [q EXCEPT !.ver = n] \in BusinessRow /\ [q EXCEPT !.ver = n].ver = n
        /\ [q EXCEPT !.ver = n].content = q.content
  BY DEF BusinessRow
<1>2. r.ver \in Nat /\ r.ver + 1 \in Nat
  BY DEF BusinessRow
<1>3. ASSUME NEW x \in Contents
      PROVE  Edited(r, x) \in BusinessRow /\ Edited(r, x).ver = r.ver + 1 /\ Edited(r, x).content = x
  <2> DEFINE q == [r EXCEPT !.content = x]
  <2>1. Edited(r, x) = [q EXCEPT !.ver = r.ver + 1]
    BY DEF Edited, BusinessRow
  <2>2. q \in BusinessRow /\ q.content = x
    BY DEF BusinessRow
  <2> HIDE DEF q
  <2> QED
    BY <1>1, <1>2, <2>1, <2>2
<1>4. ASSUME NEW s \in RowStatuses
      PROVE  Write(r, s) \in BusinessRow /\ Write(r, s).ver = r.ver + 1 /\ Write(r, s).content = r.content
  <2> DEFINE q == [r EXCEPT !.status = s]
  <2>1. Write(r, s) = [q EXCEPT !.ver = r.ver + 1]
    BY DEF Write, BusinessRow
  <2>2. q \in BusinessRow /\ q.content = r.content
    BY DEF BusinessRow
  <2> HIDE DEF q
  <2> QED
    BY <1>1, <1>2, <2>1, <2>2
<1> QED
  BY <1>3, <1>4

LEMMA BusinessLocated ==
  ASSUME NEW r \in BusinessRow, NEW p \in BOOLEAN
  PROVE  LET located == [r EXCEPT !.place = p, !.ver = @ + 1]
         IN  located \in BusinessRow /\ located.ver = r.ver + 1 /\ located.content = r.content
<1> DEFINE q == [r EXCEPT !.place = p]
<1>1. [r EXCEPT !.place = p, !.ver = @ + 1] = [q EXCEPT !.ver = r.ver + 1]
  BY DEF BusinessRow
<1>2. q \in BusinessRow /\ q.content = r.content /\ r.ver + 1 \in Nat
  BY DEF BusinessRow
<1> HIDE DEF q
<1> QED
  BY <1>1, <1>2 DEF BusinessRow

LEMMA ServiceEdits ==
  ASSUME NEW r \in ServiceRow
  PROVE  /\ \A x \in Contents :
              Edited(r, x) \in ServiceRow /\ Edited(r, x).ver = r.ver + 1 /\ Edited(r, x).content = x
         /\ \A s \in RowStatuses :
              Write(r, s) \in ServiceRow /\ Write(r, s).ver = r.ver + 1 /\ Write(r, s).content = r.content
<1>1. \A q \in ServiceRow, n \in Nat :
        /\ [q EXCEPT !.ver = n] \in ServiceRow /\ [q EXCEPT !.ver = n].ver = n
        /\ [q EXCEPT !.ver = n].content = q.content
  BY DEF ServiceRow
<1>2. r.ver \in Nat /\ r.ver + 1 \in Nat
  BY DEF ServiceRow
<1>3. ASSUME NEW x \in Contents
      PROVE  Edited(r, x) \in ServiceRow /\ Edited(r, x).ver = r.ver + 1 /\ Edited(r, x).content = x
  <2> DEFINE q == [r EXCEPT !.content = x]
  <2>1. Edited(r, x) = [q EXCEPT !.ver = r.ver + 1]
    BY DEF Edited, ServiceRow
  <2>2. q \in ServiceRow /\ q.content = x
    BY DEF ServiceRow
  <2> HIDE DEF q
  <2> QED
    BY <1>1, <1>2, <2>1, <2>2
<1>4. ASSUME NEW s \in RowStatuses
      PROVE  Write(r, s) \in ServiceRow /\ Write(r, s).ver = r.ver + 1 /\ Write(r, s).content = r.content
  <2> DEFINE q == [r EXCEPT !.status = s]
  <2>1. Write(r, s) = [q EXCEPT !.ver = r.ver + 1]
    BY DEF Write, ServiceRow
  <2>2. q \in ServiceRow /\ q.content = r.content
    BY DEF ServiceRow
  <2> HIDE DEF q
  <2> QED
    BY <1>1, <1>2, <2>1, <2>2
<1> QED
  BY <1>3, <1>4

LEMMA MovesAreStatuses ==
  /\ \A op \in {"activate", "close"}, s \in RowStatuses :
       BusinessMove(op, s) \in RowStatuses /\ (BusinessMove(op, s) # "none" => s # "closed")
  /\ \A op \in {"activate", "pause", "close"}, s \in RowStatuses :
       ServiceMove(op, s) \in RowStatuses /\ (ServiceMove(op, s) # "none" => s # "closed")
BY DEF BusinessMove, ServiceMove, RowStatuses

\* What a request has read of a row still holds after the row is written.
LEMMA ReadOpenStays ==
  ASSUME NEW ver, NEW row, NEW next, ReadOpen(ver, row), Later(row, next), row.ver \in Nat, next.ver \in Nat
  PROVE  /\ ReadOpen(ver, next)
         /\ ver = next.ver => next = row
BY DEF ReadOpen, Later

\* So does what its frame holds.
LEMMA BusinessFrameStays ==
  ASSUME NEW f, BusinessFrame(f), business \in BusinessRow, offered \in ServiceRow,
         business' \in BusinessRow, offered' \in ServiceRow,
         Later(business, business'), Later(offered, offered')
  PROVE  BusinessFrame(f)'
<1>1. business.ver \in Nat /\ business'.ver \in Nat /\ offered.ver \in Nat /\ offered'.ver \in Nat
  BY DEF BusinessRow, ServiceRow
<1>2. f.op \in {"update", "locating", "move"} =>
        ReadOpen(f.ver, business') /\ (f.ver = business'.ver => business' = business)
  BY <1>1, ReadOpenStays DEF BusinessFrame
<1>3. f.op \in {"offer", "update_service", "move_service"} => ReadOpen(f.parent, business')
  BY <1>1, ReadOpenStays DEF BusinessFrame
<1>4. f.op \in {"update_service", "move_service"} =>
        ReadOpen(f.ver, offered') /\ (f.ver = offered'.ver => offered' = offered)
  BY <1>1, ReadOpenStays DEF BusinessFrame
<1> QED
  BY <1>2, <1>3, <1>4 DEF BusinessFrame

\* A step that leaves or advances both rows and gives c a frame that fits keeps
\* the invariant.
LEMMA BusinessAdvances ==
  ASSUME BusinessInv, NEW c \in Clients, NEW frame,
         call' = [call EXCEPT ![c] = frame],
         business' \in BusinessRow, offered' \in ServiceRow,
         Later(business, business'), Later(offered, offered'),
         BusinessFrame(frame)'
  PROVE  BusinessInv'
<1>1. \A d \in Clients : BusinessFrame(call[d])'
  BY BusinessFrameStays DEF BusinessInv
<1> QED
  BY <1>1 DEF BusinessInv

\* A request only reads, or ends.
LEMMA BusinessReads ==
  ASSUME BusinessInv, NEW c \in Clients, NEW frame,
         call' = [call EXCEPT ![c] = frame], UNCHANGED <<business, offered>>,
         BusinessFrame(frame)
  PROVE  BusinessInv' /\ BusinessSteps
<1>1. \A d \in Clients : BusinessFrame(call'[d])
  BY DEF BusinessInv
<1>2. \A d \in Clients : BusinessFrame(call[d])'
  BY <1>1 DEF BusinessFrame
<1> QED
  BY <1>2 DEF BusinessInv, BusinessSteps

LEMMA IdleBusinessFrame == BusinessFrame(Idle) /\ BusinessFrame(Idle)'
  BY DEF BusinessFrame, Idle

LEMMA LocateBusinessFrame == BusinessFrame([op |-> "locate"]) /\ BusinessFrame([op |-> "locate"])'
  BY DEF BusinessFrame

LEMMA BusinessStarts ==
  ASSUME BusinessesInit, call = [c \in Clients |-> Idle]
  PROVE  BusinessInv
BY DraftsAreRows, IdleBusinessFrame DEF BusinessesInit, BusinessInv

LEMMA BusinessEnds ==
  ASSUME BusinessInv, UNCHANGED businessVars, DOMAIN call' = Clients,
         \A c \in Clients : call'[c] \in {call[c], Idle}
  PROVE  BusinessInv' /\ BusinessSteps
<1>1. UNCHANGED <<business, offered>>
  BY DEF businessVars
<1>2. \A c \in Clients : BusinessFrame(call'[c])
  BY IdleBusinessFrame DEF BusinessInv
<1>3. \A c \in Clients : BusinessFrame(call[c])'
  BY <1>1, <1>2 DEF BusinessFrame
<1> QED
  BY <1>1, <1>3 DEF BusinessInv, BusinessSteps

-----------------------------------------------------------------------------
\* The row of the business is written under the version that was read.
LEMMA BusinessWritten ==
  ASSUME BusinessInv, NEW c \in Clients,
         call[c].op \in {"update", "locating", "move"}, RowFresh(business, call[c].ver),
         business' \in BusinessRow, business'.ver = business.ver + 1,
         business'.content = business.content \/ (call[c].op = "update" /\ business'.content = call[c].content),
         UNCHANGED offered
  PROVE  /\ Later(business, business') /\ Later(offered, offered') /\ offered' \in ServiceRow
         /\ BusinessSteps
<1>1. business \in BusinessRow /\ offered \in ServiceRow /\ BusinessFrame(call[c])
  BY DEF BusinessInv
<1>2. call[c].ver = business.ver /\ business.status # "closed"
  BY <1>1 DEF BusinessFrame, ReadOpen, RowFresh
<1>3. Later(business, business') /\ Later(offered, offered')
  BY <1>1, <1>2 DEF Later, BusinessRow
<1>4. \A x \in Fields : business'.content[x] # business.content[x] =>
        call[c].op = "update" /\ call[c].seen[x] # call[c].content[x]
  BY <1>1, <1>2 DEF BusinessFrame
<1>5. BusinessSteps
  BY <1>2, <1>4 DEF BusinessSteps
<1> QED
  BY <1>1, <1>3, <1>5

LEMMA ServiceWritten ==
  ASSUME BusinessInv, NEW c \in Clients,
         call[c].op \in {"update_service", "move_service"}, RowFresh(offered, call[c].ver),
         offered' \in ServiceRow, offered'.ver = offered.ver + 1,
         offered'.content = offered.content \/ (call[c].op = "update_service" /\ offered'.content = call[c].content),
         UNCHANGED business,
         call' = [call EXCEPT ![c] = Idle]
  PROVE  BusinessInv' /\ BusinessSteps
<1>1. business \in BusinessRow /\ offered \in ServiceRow /\ BusinessFrame(call[c])
  BY DEF BusinessInv
<1>2. call[c].ver = offered.ver /\ offered.status # "closed"
  BY <1>1 DEF BusinessFrame, ReadOpen, RowFresh
<1>3. Later(business, business') /\ Later(offered, offered')
  BY <1>1, <1>2 DEF Later, ServiceRow
<1>4. BusinessInv'
  BY <1>1, <1>3, BusinessAdvances, IdleBusinessFrame
<1>5. \A x \in Fields : offered'.content[x] # offered.content[x] =>
        call[c].op = "update_service" /\ call[c].seen[x] # call[c].content[x]
  BY <1>1, <1>2 DEF BusinessFrame
<1>6. business.status = "closed" => call[c].parent < business.ver
  BY <1>1 DEF BusinessFrame, ReadOpen, BusinessRow
<1>7. call'[c] = Idle
  BY DEF BusinessInv
<1>8. BusinessSteps
  BY <1>2, <1>5, <1>6, <1>7 DEF BusinessSteps
<1> QED
  BY <1>4, <1>8

LEMMA InsertBusinessStep ==
  ASSUME BusinessInv, NEW c \in Clients, InsertBusiness(c)
  PROVE  BusinessInv' /\ BusinessSteps
<1>1. business \in BusinessRow /\ offered \in ServiceRow /\ UNCHANGED offered
  BY DEF BusinessInv, InsertBusiness
<1>2. CASE business = NoBusiness
  <2>1. business' = DraftBusiness
    BY <1>2 DEF InsertBusiness
  <2>2. PICK frame \in {Idle, [op |-> "locate"]} : call' = [call EXCEPT ![c] = frame]
    BY <1>2 DEF InsertBusiness, Proceed, Return
  <2>3. BusinessFrame(frame)'
    BY <2>2, IdleBusinessFrame, LocateBusinessFrame
  <2>4. business' \in BusinessRow /\ offered' \in ServiceRow /\ Later(business, business') /\ Later(offered, offered')
    BY <1>1, <1>2, <2>1, DraftsAreRows DEF Later
  <2>5. BusinessInv'
    BY <2>2, <2>3, <2>4, BusinessAdvances
  <2>6. BusinessSteps
    BY <1>1, <1>2, <2>1, DraftsAreRows DEF BusinessSteps
  <2> QED
    BY <2>5, <2>6
<1>3. CASE business # NoBusiness
  <2>1. call' = [call EXCEPT ![c] = Idle] /\ UNCHANGED <<business, offered>>
    BY <1>1, <1>3 DEF InsertBusiness, Return
  <2> QED
    BY <2>1, BusinessReads, IdleBusinessFrame
<1> QED
  BY <1>2, <1>3

LEMMA InsertServiceStep ==
  ASSUME BusinessInv, NEW c \in Clients, InsertService(c)
  PROVE  BusinessInv' /\ BusinessSteps
<1>1. business \in BusinessRow /\ offered \in ServiceRow /\ BusinessFrame(call[c])
  BY DEF BusinessInv
<1>2. call' = [call EXCEPT ![c] = Idle] /\ UNCHANGED business /\ call[c].op = "offer"
  BY DEF InsertService, Return
<1>3. CASE offered = NoService
  <2>1. offered' = DraftService
    BY <1>3 DEF InsertService
  <2>2. Later(business, business') /\ Later(offered, offered') /\ business' \in BusinessRow /\ offered' \in ServiceRow
    BY <1>1, <1>2, <1>3, <2>1, DraftsAreRows DEF Later
  <2>3. BusinessInv'
    BY <1>2, <2>2, BusinessAdvances, IdleBusinessFrame
  <2>4. business.status = "closed" => call[c].parent < business.ver
    BY <1>1, <1>2 DEF BusinessFrame, ReadOpen, BusinessRow
  <2>5. call'[c] = Idle
    BY <1>2 DEF BusinessInv
  <2>6. BusinessSteps
    BY <1>2, <1>3, <2>1, <2>4, <2>5, DraftsAreRows DEF BusinessSteps
  <2> QED
    BY <2>3, <2>6
<1>4. CASE offered # NoService
  BY <1>2, <1>4, BusinessReads, IdleBusinessFrame DEF InsertService
<1> QED
  BY <1>3, <1>4

\* The requests that read before they write.
LEMMA BusinessReadSteps ==
  ASSUME BusinessInv, NEW c \in Clients,
         \/ \E located \in BOOLEAN : CreateBusiness(c, located) \/ \E x \in Fields : PatchBusiness(c, x, located)
         \/ UpdateRead(c) \/ LocateRead(c)
         \/ \E op \in {"activate", "close"} : MoveBusinessRead(c, op)
         \/ CreateService(c) \/ UpdateServiceRead(c)
         \/ \E x \in Fields : PatchService(c, x)
         \/ \E op \in {"activate", "pause", "close"} : MoveServiceRead(c, op)
  PROVE  BusinessInv' /\ BusinessSteps
<1> DEFINE f == call[c]
<1>1. business \in BusinessRow /\ offered \in ServiceRow /\ BusinessFrame(f)
  BY DEF BusinessInv
<1>2. /\ business.ver \in Nat /\ offered.ver \in Nat
      /\ business.content \in Contents /\ offered.content \in Contents
      /\ business.status \in RowStatuses /\ offered.status \in RowStatuses
  BY <1>1 DEF BusinessRow, ServiceRow
<1>3. \A x \in Fields : [business.content EXCEPT ![x] = 1 - @] \in Contents /\ [offered.content EXCEPT ![x] = 1 - @] \in Contents
  BY <1>2 DEF Contents
<1>4. UNCHANGED <<business, offered>>
  BY DEF CreateBusiness, PatchBusiness, UpdateRead, LocateRead, MoveBusinessRead, CreateService, UpdateServiceRead,
         PatchService, MoveServiceRead, businessVars
<1> DEFINE Good == \E frame : call' = [call EXCEPT ![c] = frame] /\ BusinessFrame(frame)
<1>5. ASSUME NEW located \in BOOLEAN, CreateBusiness(c, located)
      PROVE  Good
  <2>1. BusinessFrame([op |-> "found", located |-> located])
    BY DEF BusinessFrame
  <2> QED
    BY <1>5, <2>1 DEF CreateBusiness, Proceed
<1>6. ASSUME NEW located \in BOOLEAN, NEW x \in Fields, PatchBusiness(c, x, located)
      PROVE  Good
  <2>1. BusinessFrame([op |-> "patch_business", field |-> x, content |-> [business.content EXCEPT ![x] = 1 - @],
                       located |-> located])
    BY <1>3 DEF BusinessFrame
  <2> QED
    BY <1>6, <2>1 DEF PatchBusiness, Proceed
<1>7. ASSUME UpdateRead(c)
      PROVE  Good
  <2>1. CASE Editable(business)
    <3>1. BusinessFrame([op |-> "update", field |-> f.field, content |-> f.content,
                         seen |-> business.content, located |-> f.located, ver |-> business.ver])
      BY <1>1, <1>2, <1>7, <2>1 DEF BusinessFrame, ReadOpen, Editable, UpdateRead
    <3> QED
      BY <1>7, <2>1, <3>1 DEF UpdateRead, Proceed
  <2>2. CASE ~Editable(business)
    BY <1>7, <2>2, IdleBusinessFrame DEF UpdateRead, Return
  <2> QED
    BY <2>1, <2>2
<1>8. ASSUME LocateRead(c)
      PROVE  Good
  <2>1. CASE Editable(business)
    <3>1. BusinessFrame([op |-> "locating", ver |-> business.ver])
      BY <1>2, <2>1 DEF BusinessFrame, ReadOpen, Editable
    <3> QED
      BY <1>8, <2>1, <3>1 DEF LocateRead, Proceed
  <2>2. CASE ~Editable(business)
    BY <1>8, <2>2, IdleBusinessFrame DEF LocateRead, Return
  <2> QED
    BY <2>1, <2>2
<1>9. ASSUME NEW op \in {"activate", "close"}, MoveBusinessRead(c, op)
      PROVE  Good
  <2>1. BusinessFrame([op |-> "move", next |-> BusinessMove(op, business.status), ver |-> business.ver])
    BY <1>2, <1>9, MovesAreStatuses DEF BusinessFrame, ReadOpen, MoveBusinessRead
  <2> QED
    BY <1>9, <2>1 DEF MoveBusinessRead, Proceed
<1>10. ASSUME CreateService(c)
       PROVE  Good
  <2>1. BusinessFrame([op |-> "offer", parent |-> business.ver])
    BY <1>2, <1>10 DEF BusinessFrame, ReadOpen, CreateService, Editable
  <2> QED
    BY <1>10, <2>1 DEF CreateService, Proceed
<1>11. ASSUME UpdateServiceRead(c)
       PROVE  Good
  <2>1. CASE ParentAllows /\ Editable(offered)
    <3>1. BusinessFrame([op |-> "update_service", field |-> f.field, content |-> f.content,
                         seen |-> offered.content, ver |-> offered.ver, parent |-> business.ver])
      BY <1>1, <1>2, <1>11, <2>1 DEF BusinessFrame, ReadOpen, Editable, ParentAllows, UpdateServiceRead
    <3> QED
      BY <1>11, <2>1, <3>1 DEF UpdateServiceRead, Proceed
  <2>2. CASE ~(ParentAllows /\ Editable(offered))
    BY <1>11, <2>2, IdleBusinessFrame DEF UpdateServiceRead, Return
  <2> QED
    BY <2>1, <2>2
<1>12. ASSUME NEW x \in Fields, PatchService(c, x)
       PROVE  Good
  <2>1. BusinessFrame([op |-> "patch_service", field |-> x, content |-> [offered.content EXCEPT ![x] = 1 - @]])
    BY <1>3 DEF BusinessFrame
  <2> QED
    BY <1>12, <2>1 DEF PatchService, Proceed
<1>13. ASSUME NEW op \in {"activate", "pause", "close"}, MoveServiceRead(c, op)
       PROVE  Good
  <2>1. BusinessFrame([op |-> "move_service", next |-> ServiceMove(op, offered.status), ver |-> offered.ver,
                       parent |-> business.ver])
    BY <1>2, <1>13, MovesAreStatuses DEF BusinessFrame, ReadOpen, MoveServiceRead, ParentAllows, Editable
  <2> QED
    BY <1>13, <2>1 DEF MoveServiceRead, Proceed
<1>14. Good
  BY <1>5, <1>6, <1>7, <1>8, <1>9, <1>10, <1>11, <1>12, <1>13
<1> QED
  BY <1>4, <1>14, BusinessReads

LEMMA BusinessStep ==
  ASSUME BusinessInv, BusinessesNext
  PROVE  BusinessInv' /\ BusinessSteps
<1>1. business \in BusinessRow /\ offered \in ServiceRow /\ \A c \in Clients : BusinessFrame(call[c])
  BY DEF BusinessInv
<1>2. ASSUME NEW c \in Clients, UpdateWrite(c)
      PROVE  BusinessInv' /\ BusinessSteps
  <2>1. call[c].op = "update" /\ UNCHANGED offered /\ call[c].content \in Contents
    BY <1>1, <1>2 DEF UpdateWrite, BusinessFrame
  <2>2. CASE RowFresh(business, call[c].ver)
    <3>1. business' \in BusinessRow /\ business'.ver = business.ver + 1 /\ business'.content = call[c].content
      BY <1>1, <1>2, <2>1, <2>2, BusinessEdits DEF UpdateWrite
    <3>2. PICK frame \in {Idle, [op |-> "locate"]} : call' = [call EXCEPT ![c] = frame]
      BY <1>2, <2>2 DEF UpdateWrite, Proceed, Return
    <3>3. BusinessFrame(frame)'
      BY <3>2, IdleBusinessFrame, LocateBusinessFrame
    <3>4. call[c].op \in {"update", "locating", "move"}
      BY <2>1
    <3>5. business'.content = business.content \/ (call[c].op = "update" /\ business'.content = call[c].content)
      BY <2>1, <3>1
    <3> QED
      BY <2>1, <2>2, <3>1, <3>2, <3>3, <3>4, <3>5, BusinessWritten, BusinessAdvances
  <2>3. CASE ~RowFresh(business, call[c].ver)
    BY <1>2, <2>1, <2>3, BusinessReads, IdleBusinessFrame DEF UpdateWrite, Return
  <2> QED
    BY <2>2, <2>3
<1>3. ASSUME NEW c \in Clients, LocateWrite(c)
      PROVE  BusinessInv' /\ BusinessSteps
  <2>1. call[c].op = "locating" /\ UNCHANGED offered /\ call' = [call EXCEPT ![c] = Idle]
    BY <1>3 DEF LocateWrite, Return
  <2>2. CASE RowFresh(business, call[c].ver)
    <3>1. PICK place \in BOOLEAN : business' = [business EXCEPT !.place = place, !.ver = @ + 1]
      BY <1>3, <2>2 DEF LocateWrite
    <3>2. business' \in BusinessRow /\ business'.ver = business.ver + 1 /\ business'.content = business.content
      BY <1>1, <3>1, BusinessLocated
    <3> QED
      BY <2>1, <2>2, <3>2, BusinessWritten, BusinessAdvances, IdleBusinessFrame
  <2>3. CASE ~RowFresh(business, call[c].ver)
    BY <1>3, <2>1, <2>3, BusinessReads, IdleBusinessFrame DEF LocateWrite
  <2> QED
    BY <2>2, <2>3
<1>4. ASSUME NEW c \in Clients, MoveBusinessWrite(c)
      PROVE  BusinessInv' /\ BusinessSteps
  <2>1. /\ call[c].op = "move" /\ UNCHANGED offered /\ call' = [call EXCEPT ![c] = Idle]
        /\ call[c].next \in RowStatuses
    BY <1>1, <1>4 DEF MoveBusinessWrite, Return, BusinessFrame
  <2>2. CASE RowFresh(business, call[c].ver)
    <3>1. business' \in BusinessRow /\ business'.ver = business.ver + 1 /\ business'.content = business.content
      BY <1>1, <1>4, <2>1, <2>2, BusinessEdits DEF MoveBusinessWrite
    <3> QED
      BY <2>1, <2>2, <3>1, BusinessWritten, BusinessAdvances, IdleBusinessFrame
  <2>3. CASE ~RowFresh(business, call[c].ver)
    BY <1>4, <2>1, <2>3, BusinessReads, IdleBusinessFrame DEF MoveBusinessWrite
  <2> QED
    BY <2>2, <2>3
<1>5. ASSUME NEW c \in Clients, UpdateServiceWrite(c)
      PROVE  BusinessInv' /\ BusinessSteps
  <2>1. /\ call[c].op = "update_service" /\ UNCHANGED business /\ call' = [call EXCEPT ![c] = Idle]
        /\ call[c].content \in Contents
    BY <1>1, <1>5 DEF UpdateServiceWrite, Return, BusinessFrame
  <2>2. CASE RowFresh(offered, call[c].ver)
    <3>1. offered' \in ServiceRow /\ offered'.ver = offered.ver + 1 /\ offered'.content = call[c].content
      BY <1>1, <1>5, <2>1, <2>2, ServiceEdits DEF UpdateServiceWrite
    <3> QED
      BY <2>1, <2>2, <3>1, ServiceWritten
  <2>3. CASE ~RowFresh(offered, call[c].ver)
    BY <1>5, <2>1, <2>3, BusinessReads, IdleBusinessFrame DEF UpdateServiceWrite
  <2> QED
    BY <2>2, <2>3
<1>6. ASSUME NEW c \in Clients, MoveServiceWrite(c)
      PROVE  BusinessInv' /\ BusinessSteps
  <2>1. /\ call[c].op = "move_service" /\ UNCHANGED business /\ call' = [call EXCEPT ![c] = Idle]
        /\ call[c].next \in RowStatuses
    BY <1>1, <1>6 DEF MoveServiceWrite, Return, BusinessFrame
  <2>2. CASE RowFresh(offered, call[c].ver)
    <3>1. offered' \in ServiceRow /\ offered'.ver = offered.ver + 1 /\ offered'.content = offered.content
      BY <1>1, <1>6, <2>1, <2>2, ServiceEdits DEF MoveServiceWrite
    <3> QED
      BY <2>1, <2>2, <3>1, ServiceWritten
  <2>3. CASE ~RowFresh(offered, call[c].ver)
    BY <1>6, <2>1, <2>3, BusinessReads, IdleBusinessFrame DEF MoveServiceWrite
  <2> QED
    BY <2>2, <2>3
<1> QED
  BY <1>2, <1>3, <1>4, <1>5, <1>6, InsertBusinessStep, InsertServiceStep, BusinessReadSteps DEF BusinessesNext

-----------------------------------------------------------------------------
(* Cases *)

CaseStatuses == {"none", "open", "investigating", "resolved", "closed"}
CaseRow == [status : CaseStatuses, priority : Priorities \cup {"normal"}, staff : Staff \cup {Nobody}]

\* The reports of a case, and the history it should have.
ReportsOf(k, rows) == {r \in ReportIds : <<k, r>> \in rows}
Recorded(row, reports, pieces) == [row |-> row, reports |-> reports, evidence |-> pieces]

\* What a request of staff has read: a case that exists goes on existing.
CaseFrame(f) ==
  /\ f.op \in {"idle", "report", "triage", "open", "attach", "edit"}
  /\ f.op = "triage" => f.id \in ReportIds /\ <<f.was, f.next>> \in ReportMoves
  /\ f.op = "open" => f.reports \subseteq ReportIds /\ f.row \in CaseRow /\ f.row.status = "open"
  /\ f.op \in {"attach", "edit"} => f.id \in CaseIds /\ case[f.id].status # "none"
  /\ f.op = "attach" => f.reports \subseteq ReportIds
  /\ f.op = "edit" => f.from \in CaseRow /\ f.to \in CaseEdits(f.from)

CasesInv ==
  /\ DOMAIN call = Clients
  /\ DOMAIN report = ReportIds
  /\ case \in [CaseIds -> CaseRow]
  /\ attached \subseteq CaseIds \X ReportIds
  /\ evidence \in [CaseIds -> Nat]
  /\ DOMAIN told = CaseIds
  /\ \A k \in CaseIds : told[k] = Recorded(case[k], ReportsOf(k, attached), evidence[k])
  /\ \A k \in CaseIds : case[k].status = "none" => case[k] = NoCase /\ evidence[k] = 0 /\ ReportsOf(k, attached) = {}
  /\ \A r \in ReportIds, j, k \in CaseIds : <<j, r>> \in attached /\ <<k, r>> \in attached => j = k
  /\ \A c \in Clients : CaseFrame(call[c])

LEMMA NoCaseIsRow == NoCase = [status |-> "none", priority |-> "normal", staff |-> Nobody] /\ NoCase \in CaseRow
  BY DEF NoCase, Opened, CaseRow, CaseStatuses

\* What a request may write is a row that exists; of a closed case it is the same one.
LEMMA EditsOfRows ==
  ASSUME NEW row \in CaseRow, row.status # "none", NEW next \in CaseEdits(row)
  PROVE  /\ next \in CaseRow /\ next.status # "none"
         /\ row.status = "closed" => next = row
         /\ next.status = row.status \/ <<row.status, next.status>> \in CaseMoves
<1>1. CASE next \in CaseTransitions(row)
  <2>1. PICK m \in CaseMoves : m[1] = row.status /\ next = [row EXCEPT !.status = m[2]]
    BY <1>1 DEF CaseTransitions
  <2>2. next \in CaseRow /\ next.status = m[2] /\ m[2] \in CaseStatuses \ {"none"} /\ m = <<m[1], m[2]>> /\ m[1] # "closed"
    BY <2>1 DEF CaseRow, CaseMoves, CaseStatuses
  <2> QED
    BY <2>1, <2>2
<1>2. CASE next \in CasePriorities(row)
  <2>1. PICK p \in Priorities : next = [row EXCEPT !.priority = p] /\ row.status # "closed"
    BY <1>2 DEF CasePriorities
  <2> QED
    BY <2>1 DEF CaseRow
<1>3. CASE next \in CaseAssignments(row)
  <2>1. PICK s \in Staff \cup {Nobody} : next = [row EXCEPT !.staff = s] /\ row.status # "closed"
    BY <1>3 DEF CaseAssignments
  <2> QED
    BY <2>1 DEF CaseRow
<1>4. CASE next \in CaseNotes(row)
  BY <1>4 DEF CaseNotes
<1> QED
  BY <1>1, <1>2, <1>3, <1>4 DEF CaseEdits

\* The entry for a change gives the new row when the old one was recorded.
LEMMA EnteredIsNew ==
  ASSUME NEW from \in CaseRow, NEW to \in CaseRow
  PROVE  Entered(from, from, to) = to
<1>1. DOMAIN from = {"status", "priority", "staff"} /\ DOMAIN to = {"status", "priority", "staff"}
  BY DEF CaseRow
<1>2. \A x \in DOMAIN from : Entered(from, from, to)[x] = to[x]
  BY DEF Entered
<1>3. Entered(from, from, to) = [x \in DOMAIN from |-> to[x]]
  BY DEF Entered
<1>4. to = [x \in DOMAIN to |-> to[x]]
  BY DEF CaseRow
<1> QED
  BY <1>1, <1>3, <1>4

LEMMA IdleCaseFrame == CaseFrame(Idle) /\ CaseFrame(Idle)'
  BY DEF CaseFrame, Idle

LEMMA CasesStart ==
  ASSUME CasesInit, call = [c \in Clients |-> Idle]
  PROVE  CasesInv
<1>1. \A k \in CaseIds : told[k] = Recorded(NoCase, {}, 0)
  BY DEF CasesInit, NoHistory, Recorded
<1>2. \A k \in CaseIds : ReportsOf(k, {}) = {}
  BY DEF ReportsOf
<1> QED
  BY <1>1, <1>2, IdleCaseFrame, NoCaseIsRow DEF CasesInit, CasesInv

LEMMA CasesEnd ==
  ASSUME CasesInv, UNCHANGED caseVars, DOMAIN call' = Clients,
         \A c \in Clients : call'[c] \in {call[c], Idle}
  PROVE  CasesInv' /\ CaseSteps
<1>1. UNCHANGED <<report, recent, case, attached, evidence, told>>
  BY DEF caseVars
<1>2. \A c \in Clients : CaseFrame(call'[c])
  BY IdleCaseFrame DEF CasesInv
<1>3. \A c \in Clients : CaseFrame(call[c])'
  BY <1>1, <1>2 DEF CaseFrame
<1> QED
  BY <1>1, <1>3 DEF CasesInv, CaseSteps

-----------------------------------------------------------------------------
\* Cases that exist go on existing, so what the others have read still holds.
LEMMA CaseFramesStay ==
  ASSUME CasesInv, NEW c \in Clients, NEW frame, call' = [call EXCEPT ![c] = frame],
         \A k \in CaseIds : case[k].status # "none" => case'[k].status # "none",
         CaseFrame(frame)'
  PROVE  DOMAIN call' = Clients /\ \A d \in Clients : CaseFrame(call[d])'
BY DEF CasesInv, CaseFrame

\* A request reads, or ends without a change of a case.
LEMMA CaseReads ==
  ASSUME CasesInv, NEW c \in Clients, NEW frame, call' = [call EXCEPT ![c] = frame],
         UNCHANGED <<case, attached, evidence, told>>, DOMAIN report' = ReportIds,
         CaseFrame(frame)
  PROVE  CasesInv'
<1>1. CaseFrame(frame)'
  BY DEF CaseFrame
<1>2. DOMAIN call' = Clients /\ \A d \in Clients : CaseFrame(call[d])'
  BY <1>1, CaseFramesStay
<1> QED
  BY <1>2 DEF CasesInv

LEMMA ReportStep ==
  ASSUME CasesInv, NEW c \in Clients,
         \/ CreateReport(c) \/ UpdateStatus(c) \/ AttachFails(c)
         \/ \E r \in ReportIds : InsertReport(c, r) \/ \E m \in ReportMoves : TransitionReport(c, r, m[2])
  PROVE  CasesInv' /\ CaseSteps
<1>1. CASE CreateReport(c)
  <2>1. CaseFrame([op |-> "report"])
    BY DEF CaseFrame
  <2> QED
    BY <1>1, <2>1, CaseReads DEF CreateReport, Proceed, caseVars, CasesInv, CaseSteps
<1>2. CASE UpdateStatus(c)
  <2>1. /\ call[c].id \in ReportIds /\ <<call[c].was, call[c].next>> \in ReportMoves
        /\ DOMAIN report = ReportIds
    BY <1>2 DEF UpdateStatus, CasesInv, CaseFrame
  <2>2. DOMAIN report' = ReportIds /\ UNCHANGED <<case, attached, evidence, told>> /\ call' = [call EXCEPT ![c] = Idle]
    BY <1>2, <2>1 DEF UpdateStatus, Return
  <2>3. CaseSteps
    BY <1>2, <2>1, <2>2 DEF UpdateStatus, CaseSteps
  <2> QED
    BY <2>2, <2>3, CaseReads, IdleCaseFrame
<1>3. CASE AttachFails(c)
  BY <1>3, CaseReads, IdleCaseFrame DEF AttachFails, Return, caseVars, CasesInv, CaseSteps
<1>4. ASSUME NEW r \in ReportIds, InsertReport(c, r)
      PROVE  CasesInv' /\ CaseSteps
  <2>1. DOMAIN report' = ReportIds /\ UNCHANGED <<case, attached, evidence, told>> /\ call' = [call EXCEPT ![c] = Idle]
    BY <1>4 DEF InsertReport, Return, CasesInv
  <2>2. CaseSteps
    BY <1>4, <2>1 DEF InsertReport, CaseSteps, CasesInv
  <2> QED
    BY <2>1, <2>2, CaseReads, IdleCaseFrame
<1>5. ASSUME NEW r \in ReportIds, NEW m \in ReportMoves, TransitionReport(c, r, m[2])
      PROVE  CasesInv' /\ CaseSteps
  <2>1. CaseFrame([op |-> "triage", id |-> r, was |-> report[r], next |-> m[2]])
    BY <1>5 DEF CaseFrame, TransitionReport
  <2> QED
    BY <1>5, <2>1, CaseReads DEF TransitionReport, Proceed, caseVars, CasesInv, CaseSteps
<1> QED
  BY <1>1, <1>2, <1>3, <1>4, <1>5

LEMMA CaseReadStep ==
  ASSUME CasesInv, NEW c \in Clients,
         \/ \E R \in SUBSET ReportIds :
              \/ \E p \in Priorities, s \in Staff \cup {Nobody} : CreateCase(c, R, p, s)
              \/ \E k \in CaseIds : AttachReports(c, k, R)
         \/ \E k \in CaseIds : \E next \in CaseEdits(case[k]) : EditCase(c, k, next)
  PROVE  CasesInv' /\ CaseSteps
<1>1. ASSUME NEW R \in SUBSET ReportIds, NEW p \in Priorities, NEW s \in Staff \cup {Nobody}, CreateCase(c, R, p, s)
      PROVE  CasesInv' /\ CaseSteps
  <2>1. Opened(p, s) \in CaseRow /\ Opened(p, s).status = "open"
    BY DEF Opened, CaseRow, CaseStatuses
  <2>2. CaseFrame([op |-> "open", reports |-> R, row |-> Opened(p, s)])
    BY <2>1 DEF CaseFrame
  <2> QED
    BY <1>1, <2>2, CaseReads DEF CreateCase, Proceed, caseVars, CasesInv, CaseSteps
<1>2. ASSUME NEW R \in SUBSET ReportIds, NEW k \in CaseIds, AttachReports(c, k, R)
      PROVE  CasesInv' /\ CaseSteps
  <2>1. CaseFrame([op |-> "attach", id |-> k, reports |-> R])
    BY <1>2 DEF CaseFrame, AttachReports, Active
  <2> QED
    BY <1>2, <2>1, CaseReads DEF AttachReports, Proceed, caseVars, CasesInv, CaseSteps
<1>3. ASSUME NEW k \in CaseIds, NEW next \in CaseEdits(case[k]), EditCase(c, k, next)
      PROVE  CasesInv' /\ CaseSteps
  <2>1. case[k] \in CaseRow /\ case[k].status # "none"
    BY <1>3 DEF EditCase, CasesInv
  <2>2. CaseFrame([op |-> "edit", id |-> k, from |-> case[k], to |-> next])
    BY <2>1 DEF CaseFrame
  <2> QED
    BY <1>3, <2>2, CaseReads DEF EditCase, Proceed, caseVars, CasesInv, CaseSteps
<1> QED
  BY <1>1, <1>2, <1>3

\* Reports that are in no case are attached to one case.
LEMMA AttachedOnce ==
  ASSUME CasesInv, NEW k \in CaseIds, NEW R \in SUBSET ReportIds, InsertCaseReports(k, R)
  PROVE  /\ attached' \subseteq CaseIds \X ReportIds
         /\ \A r \in ReportIds, i, j \in CaseIds : <<i, r>> \in attached' /\ <<j, r>> \in attached' => i = j
         /\ ReportsOf(k, attached') = ReportsOf(k, attached) \cup R
         /\ \A j \in CaseIds \ {k} : ReportsOf(j, attached') = ReportsOf(j, attached)
<1>1. attached \subseteq CaseIds \X ReportIds
  BY DEF CasesInv
<1>2. \A j \in CaseIds, r \in ReportIds : <<j, r>> \in attached' <=> <<j, r>> \in attached \/ (j = k /\ r \in R)
  BY DEF InsertCaseReports
<1>3. \A j \in CaseIds, r \in R : <<j, r>> \notin attached
  BY DEF InsertCaseReports
<1>4. attached' \subseteq CaseIds \X ReportIds
  BY <1>1 DEF InsertCaseReports
<1>5. \A r \in ReportIds, i, j \in CaseIds : <<i, r>> \in attached' /\ <<j, r>> \in attached' => i = j
  BY <1>2, <1>3 DEF CasesInv
<1>6. ReportsOf(k, attached') = ReportsOf(k, attached) \cup R
  BY <1>2 DEF ReportsOf
<1>7. \A j \in CaseIds \ {k} : ReportsOf(j, attached') = ReportsOf(j, attached)
  BY <1>2 DEF ReportsOf
<1> QED
  BY <1>4, <1>5, <1>6, <1>7

LEMMA InsertCaseStep ==
  ASSUME CasesInv, NEW c \in Clients, NEW k \in CaseIds, InsertCase(c, k)
  PROVE  CasesInv' /\ CaseSteps
<1> DEFINE f == call[c]
<1>1. /\ f.op = "open" /\ case[k] = NoCase /\ InsertCaseReports(k, f.reports)
      /\ case' = [case EXCEPT ![k] = f.row]
      /\ told' = [told EXCEPT ![k].row = f.row, ![k].reports = f.reports]
      /\ call' = [call EXCEPT ![c] = Idle]
      /\ UNCHANGED <<report, evidence>>
  BY DEF InsertCase, Return
<1>2. f.reports \in SUBSET ReportIds /\ f.row \in CaseRow /\ f.row.status = "open"
  BY <1>1 DEF CasesInv, CaseFrame
<1>3. evidence[k] = 0 /\ ReportsOf(k, attached) = {} /\ told[k] = Recorded(NoCase, {}, 0)
  <2>1. case[k].status = "none"
    BY <1>1, NoCaseIsRow
  <2>2. evidence[k] = 0 /\ ReportsOf(k, attached) = {}
    BY <2>1 DEF CasesInv
  <2>3. told[k] = Recorded(case[k], ReportsOf(k, attached), evidence[k])
    BY DEF CasesInv
  <2> QED
    BY <1>1, <2>2, <2>3
<1>4. /\ attached' \subseteq CaseIds \X ReportIds
      /\ \A r \in ReportIds, i, j \in CaseIds : <<i, r>> \in attached' /\ <<j, r>> \in attached' => i = j
      /\ ReportsOf(k, attached') = f.reports
      /\ \A j \in CaseIds \ {k} : ReportsOf(j, attached') = ReportsOf(j, attached)
  BY <1>1, <1>2, <1>3, AttachedOnce
<1> HIDE DEF f
<1>5. told'[k] = Recorded(f.row, f.reports, 0)
  <2> DEFINE q == [told[k] EXCEPT !.row = f.row]
  <2>1. told'[k] = [q EXCEPT !.reports = f.reports]
    BY <1>1 DEF CasesInv
  <2>2. q = Recorded(f.row, {}, 0)
    BY <1>3 DEF Recorded
  <2> HIDE DEF q
  <2> QED
    BY <2>1, <2>2 DEF Recorded
<1>6. DOMAIN told' = CaseIds /\ \A j \in CaseIds \ {k} : told'[j] = told[j]
  BY <1>1 DEF CasesInv
<1>7. \A j \in CaseIds : told'[j] = Recorded(case'[j], ReportsOf(j, attached'), evidence'[j])
  BY <1>1, <1>3, <1>4, <1>5, <1>6 DEF CasesInv
<1>8. \A j \in CaseIds : case'[j].status = "none" =>
          case'[j] = NoCase /\ evidence'[j] = 0 /\ ReportsOf(j, attached') = {}
  BY <1>1, <1>2, <1>4 DEF CasesInv
<1>9. case' \in [CaseIds -> CaseRow] /\ \A j \in CaseIds : case[j].status # "none" => case'[j].status # "none"
  BY <1>1, <1>2 DEF CasesInv
<1>10. DOMAIN call' = Clients /\ \A d \in Clients : CaseFrame(call[d])'
  BY <1>1, <1>9, CaseFramesStay, IdleCaseFrame
<1>11. CasesInv'
  BY <1>1, <1>4, <1>6, <1>7, <1>8, <1>9, <1>10 DEF CasesInv
<1>12. CaseSteps
  BY <1>1, <1>2, NoCaseIsRow DEF CasesInv, CaseSteps
<1> QED
  BY <1>11, <1>12

LEMMA AttachStep ==
  ASSUME CasesInv, NEW c \in Clients, AttachCaseReports(c)
  PROVE  CasesInv' /\ CaseSteps
<1> DEFINE k == call[c].id
           R == call[c].reports
<1>1. /\ InsertCaseReports(k, R)
      /\ told' = [told EXCEPT ![k].reports = @ \cup R]
      /\ call' = [call EXCEPT ![c] = Idle]
      /\ UNCHANGED <<report, case, evidence>>
  BY DEF AttachCaseReports, Return
<1>2. k \in CaseIds /\ R \in SUBSET ReportIds /\ case[k].status # "none"
  BY DEF AttachCaseReports, CasesInv, CaseFrame
<1> HIDE DEF k, R
<1>3. /\ attached' \subseteq CaseIds \X ReportIds
      /\ \A r \in ReportIds, i, j \in CaseIds : <<i, r>> \in attached' /\ <<j, r>> \in attached' => i = j
      /\ ReportsOf(k, attached') = ReportsOf(k, attached) \cup R
      /\ \A j \in CaseIds \ {k} : ReportsOf(j, attached') = ReportsOf(j, attached)
  BY <1>1, <1>2, AttachedOnce
<1>4. told'[k] = Recorded(case[k], ReportsOf(k, attached) \cup R, evidence[k])
  <2>1. told'[k] = [told[k] EXCEPT !.reports = @ \cup R] /\ told[k] = Recorded(case[k], ReportsOf(k, attached), evidence[k])
    BY <1>1, <1>2 DEF CasesInv
  <2> QED
    BY <2>1 DEF Recorded
<1>5. DOMAIN told' = CaseIds /\ \A j \in CaseIds \ {k} : told'[j] = told[j]
  BY <1>1 DEF CasesInv
<1>6. \A j \in CaseIds : told'[j] = Recorded(case'[j], ReportsOf(j, attached'), evidence'[j])
  BY <1>1, <1>3, <1>4, <1>5 DEF CasesInv
<1>7. \A j \in CaseIds : case'[j].status = "none" =>
          case'[j] = NoCase /\ evidence'[j] = 0 /\ ReportsOf(j, attached') = {}
  BY <1>1, <1>2, <1>3 DEF CasesInv
<1>8. DOMAIN call' = Clients /\ \A d \in Clients : CaseFrame(call[d])'
  BY <1>1, CaseFramesStay, IdleCaseFrame
<1>9. CasesInv'
  BY <1>1, <1>3, <1>5, <1>6, <1>7, <1>8 DEF CasesInv
<1>10. CaseSteps
  BY <1>1 DEF CaseSteps
<1> QED
  BY <1>9, <1>10

LEMMA UpdateCaseStep ==
  ASSUME CasesInv, NEW c \in Clients, UpdateCase(c)
  PROVE  CasesInv' /\ CaseSteps
<1> DEFINE k == call[c].id
           from == call[c].from
           to == call[c].to
<1>1. /\ k \in CaseIds /\ case[k] \in CaseRow /\ case[k].status # "none"
      /\ from \in CaseRow /\ to \in CaseEdits(from)
      /\ call' = [call EXCEPT ![c] = Idle]
      /\ UNCHANGED <<report, attached, evidence>>
  BY DEF UpdateCase, CasesInv, CaseFrame, Return
<1>2. CASE CaseUnchanged(k, from)
  <2>1. case' = [case EXCEPT ![k] = to] /\ told' = [told EXCEPT ![k].row = Entered(@, from, to)] /\ case[k] = from
    BY <1>2 DEF UpdateCase, CaseUnchanged
  <2> HIDE DEF k, from, to
  <2>2. /\ to \in CaseRow /\ to.status # "none" /\ (from.status = "closed" => to = from)
        /\ to.status = from.status \/ <<from.status, to.status>> \in CaseMoves
    BY <1>1, <2>1, EditsOfRows
  <2>3. told'[k] = Recorded(to, ReportsOf(k, attached), evidence[k])
    <3>1. told[k] = Recorded(from, ReportsOf(k, attached), evidence[k])
      BY <1>1, <2>1 DEF CasesInv
    <3>2. told[k].row = from /\ told'[k] = [told[k] EXCEPT !.row = Entered(told[k].row, from, to)]
      BY <1>1, <2>1, <3>1 DEF CasesInv, Recorded
    <3>3. Entered(from, from, to) = to
      BY <1>1, <2>2, EnteredIsNew
    <3> QED
      BY <3>1, <3>2, <3>3 DEF Recorded
  <2>4. DOMAIN told' = CaseIds /\ \A j \in CaseIds \ {k} : told'[j] = told[j]
    BY <2>1 DEF CasesInv
  <2>5. case' \in [CaseIds -> CaseRow] /\ \A j \in CaseIds : case[j].status # "none" => case'[j].status # "none"
    BY <2>1, <2>2 DEF CasesInv
  <2>6. \A j \in CaseIds : told'[j] = Recorded(case'[j], ReportsOf(j, attached'), evidence'[j])
    BY <1>1, <2>1, <2>3, <2>4 DEF CasesInv
  <2>7. \A j \in CaseIds : case'[j].status = "none" =>
            case'[j] = NoCase /\ evidence'[j] = 0 /\ ReportsOf(j, attached') = {}
    BY <1>1, <2>1, <2>2 DEF CasesInv
  <2>8. DOMAIN call' = Clients /\ \A d \in Clients : CaseFrame(call[d])'
    BY <1>1, <2>5, CaseFramesStay, IdleCaseFrame
  <2>9. CasesInv'
    BY <1>1, <2>4, <2>5, <2>6, <2>7, <2>8 DEF CasesInv
  <2>10. CaseSteps
    BY <1>1, <2>1, <2>2 DEF CasesInv, CaseSteps
  <2> QED
    BY <2>9, <2>10
<1>3. CASE ~CaseUnchanged(k, from)
  <2>1. UNCHANGED <<case, told>>
    BY <1>3 DEF UpdateCase
  <2> QED
    BY <1>1, <2>1, CaseReads, IdleCaseFrame DEF CasesInv, CaseSteps
<1> QED
  BY <1>2, <1>3

LEMMA EvidenceStep ==
  ASSUME CasesInv, NEW c \in Clients, NEW k \in CaseIds, AddEvidence(c, k)
  PROVE  CasesInv' /\ CaseSteps
<1>1. /\ case[k].status # "none" /\ evidence' = [evidence EXCEPT ![k] = @ + 1]
      /\ told' = [told EXCEPT ![k].evidence = @ + 1]
      /\ UNCHANGED <<call, report, case, attached>>
  BY DEF AddEvidence, CasesInv
<1>2. evidence' \in [CaseIds -> Nat] /\ evidence'[k] = evidence[k] + 1 /\ \A j \in CaseIds \ {k} : evidence'[j] = evidence[j]
  BY <1>1 DEF CasesInv
<1>3. told'[k] = Recorded(case[k], ReportsOf(k, attached), evidence[k] + 1)
  <2>1. told'[k] = [told[k] EXCEPT !.evidence = @ + 1] /\ told[k] = Recorded(case[k], ReportsOf(k, attached), evidence[k])
    BY <1>1 DEF CasesInv
  <2> QED
    BY <2>1 DEF Recorded
<1>4. DOMAIN told' = CaseIds /\ \A j \in CaseIds \ {k} : told'[j] = told[j]
  BY <1>1 DEF CasesInv
<1>5. \A j \in CaseIds : told'[j] = Recorded(case'[j], ReportsOf(j, attached'), evidence'[j])
  BY <1>1, <1>2, <1>3, <1>4 DEF CasesInv
<1>6. \A j \in CaseIds : case'[j].status = "none" =>
          case'[j] = NoCase /\ evidence'[j] = 0 /\ ReportsOf(j, attached') = {}
  BY <1>1, <1>2 DEF CasesInv
<1>7. \A d \in Clients : CaseFrame(call[d])'
  BY <1>1 DEF CasesInv, CaseFrame
<1> QED
  BY <1>1, <1>2, <1>4, <1>5, <1>6, <1>7 DEF CasesInv, CaseSteps

LEMMA CasesStep ==
  ASSUME CasesInv, CasesNext
  PROVE  CasesInv' /\ CaseSteps
<1>1. ASSUME NEW r \in ReportIds, WindowPasses(r)
      PROVE  CasesInv' /\ CaseSteps
  <2>1. UNCHANGED <<call, report, case, attached, evidence, told>>
    BY <1>1 DEF WindowPasses
  <2>2. \A c \in Clients : CaseFrame(call[c])'
    BY <2>1 DEF CasesInv, CaseFrame
  <2> QED
    BY <2>1, <2>2 DEF CasesInv, CaseSteps
<1> QED
  BY <1>1, ReportStep, CaseReadStep, InsertCaseStep, AttachStep, UpdateCaseStep, EvidenceStep DEF CasesNext

LEMMA CasesTold == CasesInv => CaseStory
<1> SUFFICES ASSUME CasesInv
             PROVE  CaseStory
  OBVIOUS
<1>1. \A k \in CaseIds :
        told[k] = [row |-> case[k], reports |-> {r \in ReportIds : <<k, r>> \in attached}, evidence |-> evidence[k]]
  BY DEF CasesInv, Recorded, ReportsOf
<1>2. ASSUME NEW r \in ReportIds
      PROVE  Cardinality({k \in CaseIds : <<k, r>> \in attached}) <= 1
  <2> DEFINE S == {k \in CaseIds : <<k, r>> \in attached}
  <2>1. \A j, k \in S : j = k
    BY DEF CasesInv
  <2> HIDE DEF S
  <2>2. CASE S = {}
    <3>1. Cardinality(S) = 0
      BY <2>2, FS_EmptySet
    <3> QED
      BY <3>1 DEF S
  <2>3. CASE S # {}
    <3>1. PICK k : k \in S
      BY <2>3
    <3>2. S = {k}
      BY <2>1, <3>1
    <3>3. Cardinality(S) = 1
      BY <3>2, FS_Singleton
    <3> QED
      BY <3>3 DEF S
  <2> QED
    BY <2>2, <2>3
<1> QED
  BY <1>1, <1>2 DEF CaseStory

-----------------------------------------------------------------------------
(* Verification with the authority *)

AttemptStatuses == {"none", "pending", "in_progress", "unavailable", "verified", "failed", "expired"}
AttemptRow == [status : AttemptStatuses, until : Nat, ver : Nat]
Decision == [id : Attempts, issued : Nat, approved : BOOLEAN, until : Nat]

\* A row that was read is the attempt still, or an older version of it.
RowRead(a, row) ==
  /\ row \in AttemptRow
  /\ row.ver <= attempt[a].ver
  /\ row.ver = attempt[a].ver => row = attempt[a]

\* Only an attempt that is open is retried, and only one that is not with the
\* authority is given to the gateway.
EidsFrame(f) ==
  /\ f.op \in {"idle", "retry", "latest", "expire", "create", "lost", "gateway", "ingest"}
  /\ f.op \in {"retry", "expire", "gateway"} => f.id \in Attempts /\ RowRead(f.id, f.row)
  /\ f.op \in {"retry", "gateway"} => f.row.until = 0
  /\ f.op = "gateway" => f.row.status \in {"pending", "unavailable"}
  /\ f.op = "ingest" => f.decision \in decisions /\ RowRead(f.decision.id, f.row)

OneOpen == \A a, b \in Attempts : Open(a) /\ Open(b) => a = b

OpenHasNoEnd == \A a \in Attempts : Open(a) => attempt[a].until = 0

EidsInv ==
  /\ DOMAIN call = Clients
  /\ attempt \in [Attempts -> AttemptRow]
  /\ latest \in Attempts \cup {0}
  /\ subjects \subseteq Attempts
  /\ decisions \subseteq Decision /\ replays \subseteq decisions
  /\ today \in Nat
  /\ OneOpen /\ OpenHasNoEnd
  /\ \A c \in Clients : EidsFrame(call[c])

LEMMA IdleEidsFrame == EidsFrame(Idle) /\ EidsFrame(Idle)'
  BY DEF EidsFrame, Idle

LEMMA EidsStart ==
  ASSUME EidsInit, call = [c \in Clients |-> Idle]
  PROVE  EidsInv
<1>1. NoAttempt \in AttemptRow /\ NoAttempt.until = 0 /\ \A a \in Attempts : ~Open(a)
  BY DEF EidsInit, NoAttempt, AttemptRow, AttemptStatuses, Open
<1> QED
  BY <1>1, IdleEidsFrame DEF EidsInit, EidsInv, OneOpen, OpenHasNoEnd

\* No attempt is written and no decision recorded.
LEMMA NothingWritten ==
  ASSUME UNCHANGED <<attempt, latest, replays, today>>
  PROVE  EidsSteps
<1>1. Verified' = Verified
  BY DEF Verified, Effective, IsExpired
<1> QED
  BY <1>1 DEF EidsSteps, VerifiedUntil, DecisionsAreFollowed

LEMMA EidsEnd ==
  ASSUME EidsInv, UNCHANGED eidsVars, DOMAIN call' = Clients,
         \A c \in Clients : call'[c] \in {call[c], Idle}
  PROVE  EidsInv' /\ EidsSteps
<1>1. UNCHANGED <<attempt, latest, subjects, decisions, replays, today>>
  BY DEF eidsVars
<1>2. \A c \in Clients : EidsFrame(call'[c])
  BY IdleEidsFrame DEF EidsInv
<1>3. \A c \in Clients : EidsFrame(call[c])'
  BY <1>1, <1>2 DEF EidsFrame, RowRead
<1>4. OneOpen' /\ OpenHasNoEnd'
  BY <1>1 DEF EidsInv, OneOpen, OpenHasNoEnd, Open
<1>5. EidsSteps
  BY <1>1, NothingWritten DEF EidsInv
<1> QED
  BY <1>1, <1>3, <1>4, <1>5 DEF EidsInv

-----------------------------------------------------------------------------
\* What was read stays an older version of what a request writes.
LEMMA EidsFramesStay ==
  ASSUME EidsInv, NEW c \in Clients, NEW frame, call' = [call EXCEPT ![c] = frame],
         attempt' \in [Attempts -> AttemptRow],
         \A a \in Attempts : attempt'[a] = attempt[a] \/ attempt'[a].ver > attempt[a].ver,
         decisions \subseteq decisions',
         EidsFrame(frame)'
  PROVE  DOMAIN call' = Clients /\ \A d \in Clients : EidsFrame(call[d])'
<1>1. \A a \in Attempts : \A row : RowRead(a, row) => RowRead(a, row)'
  BY DEF RowRead, EidsInv, AttemptRow
<1>2. \A d \in Clients \ {c} : call'[d] = call[d] /\ EidsFrame(call[d])
  BY DEF EidsInv
<1>3. \A d \in Clients \ {c} : EidsFrame(call[d])'
  BY <1>1, <1>2 DEF EidsFrame, EidsInv, Decision
<1> QED
  BY <1>3 DEF EidsInv

\* The same when nothing is written.
LEMMA EidsReads ==
  ASSUME EidsInv, NEW c \in Clients, NEW frame, call' = [call EXCEPT ![c] = frame],
         UNCHANGED <<attempt, latest, decisions, replays, today>>, subjects' \subseteq Attempts,
         EidsFrame(frame)
  PROVE  EidsInv' /\ EidsSteps
<1>1. EidsFrame(frame)'
  BY DEF EidsFrame, RowRead
<1>2. DOMAIN call' = Clients /\ \A d \in Clients : EidsFrame(call[d])'
  BY <1>1, EidsFramesStay DEF EidsInv
<1>3. OneOpen' /\ OpenHasNoEnd'
  BY DEF EidsInv, OneOpen, OpenHasNoEnd, Open
<1> QED
  BY <1>2, <1>3, NothingWritten DEF EidsInv

\* A row is read as it is.
LEMMA ReadIsCurrent ==
  ASSUME EidsInv, NEW a \in Attempts
  PROVE  RowRead(a, attempt[a])
BY DEF EidsInv, RowRead, AttemptRow

\* An open attempt is read to go on with, or none is there.
LEMMA OpenIsRead ==
  ASSUME EidsInv, NEW c \in Clients, NEW otherwise, EidsFrame(otherwise), GetOpen(c, otherwise)
  PROVE  \E f : EidsFrame(f) /\ call' = [call EXCEPT ![c] = f]
<1>1. CASE \E a \in Attempts : Open(a)
  <2> DEFINE a == CHOOSE b \in Attempts : Open(b)
             f == [op |-> "retry", id |-> a, row |-> attempt[a]]
  <2>1. a \in Attempts /\ Open(a)
    BY <1>1
  <2>2. call' = [call EXCEPT ![c] = f]
    BY <1>1 DEF GetOpen, Proceed
  <2> HIDE DEF a
  <2>3. RowRead(a, attempt[a]) /\ attempt[a].until = 0
    BY <2>1, ReadIsCurrent DEF EidsInv, OpenHasNoEnd
  <2>4. EidsFrame(f)
    BY <2>1, <2>3 DEF EidsFrame
  <2> QED
    BY <2>2, <2>4
<1>2. CASE ~\E a \in Attempts : Open(a)
  BY <1>2 DEF GetOpen, Proceed
<1> QED
  BY <1>1, <1>2

LEMMA EidsReadStep ==
  ASSUME EidsInv, NEW c \in Clients,
         \/ StartForOwner(c) \/ CurrentForOwner(c) \/ LatestEffective(c) \/ ReadWinner(c) \/ RetryOrReturn(c)
         \/ \E d \in decisions : IngestSignedDecision(c, d)
  PROVE  EidsInv' /\ EidsSteps
<1>0. EidsFrame([op |-> "latest", then |-> "create"]) /\ EidsFrame([op |-> "latest", then |-> "answer"])
      /\ EidsFrame([op |-> "create"]) /\ subjects \subseteq Attempts
  BY DEF EidsFrame, EidsInv
<1>1. CASE StartForOwner(c)
  <2>1. GetOpen(c, [op |-> "latest", then |-> "create"]) /\ UNCHANGED eidsVars
    BY <1>1 DEF StartForOwner
  <2> QED
    BY <1>0, <2>1, OpenIsRead, EidsReads DEF eidsVars
<1>2. CASE CurrentForOwner(c)
  BY <1>0, <1>2, EidsReads DEF CurrentForOwner, Proceed, eidsVars
<1>3. CASE LatestEffective(c)
  <2>1. UNCHANGED <<attempt, latest, decisions, replays, today>> /\ subjects' = subjects
    BY <1>3 DEF LatestEffective, eidsVars
  <2>2. CASE latest # 0 /\ Effective(attempt[latest]) # attempt[latest]
    <3> DEFINE f == [op |-> "expire", id |-> latest, row |-> attempt[latest], then |-> call[c].then]
    <3>1. latest \in Attempts /\ RowRead(latest, attempt[latest])
      BY <2>2, ReadIsCurrent DEF EidsInv
    <3>2. EidsFrame(f)
      BY <3>1 DEF EidsFrame
    <3>3. call' = [call EXCEPT ![c] = f]
      BY <1>3, <2>2 DEF LatestEffective, Proceed
    <3> QED
      BY <1>0, <2>1, <3>2, <3>3, EidsReads
  <2>3. CASE ~(latest # 0 /\ Effective(attempt[latest]) # attempt[latest])
    <3>1. call' = [call EXCEPT ![c] = Idle] \/ call' = [call EXCEPT ![c] = [op |-> "create"]]
      BY <1>3, <2>3 DEF LatestEffective, Proceed, Return
    <3> QED
      BY <1>0, <2>1, <3>1, EidsReads, IdleEidsFrame
  <2> QED
    BY <2>2, <2>3
<1>4. CASE ReadWinner(c)
  <2>1. GetOpen(c, Idle) /\ UNCHANGED eidsVars
    BY <1>4 DEF ReadWinner
  <2> QED
    BY <1>0, <2>1, OpenIsRead, EidsReads, IdleEidsFrame DEF eidsVars
<1>5. CASE RetryOrReturn(c)
  <2> DEFINE f == [call[c] EXCEPT !.op = "gateway"]
  <2>1. /\ UNCHANGED <<attempt, latest, decisions, replays, today>>
        /\ call[c].op = "retry" /\ call[c].id \in Attempts /\ subjects' = subjects \cup {call[c].id}
    BY <1>5 DEF RetryOrReturn, EidsInv, EidsFrame
  <2>2. CASE call[c].row.status \in {"pending", "unavailable"}
    <3>1. call' = [call EXCEPT ![c] = f]
      BY <1>5, <2>2 DEF RetryOrReturn, Proceed
    <3>2. EidsFrame(f)
      BY <2>1, <2>2 DEF EidsFrame, EidsInv
    <3> QED
      BY <1>0, <2>1, <3>1, <3>2, EidsReads
  <2>3. CASE call[c].row.status \notin {"pending", "unavailable"}
    <3>1. call' = [call EXCEPT ![c] = Idle]
      BY <1>5, <2>3 DEF RetryOrReturn, Return
    <3> QED
      BY <1>0, <2>1, <3>1, EidsReads, IdleEidsFrame
  <2> QED
    BY <2>2, <2>3
<1>6. ASSUME NEW d \in decisions, IngestSignedDecision(c, d)
      PROVE  EidsInv' /\ EidsSteps
  <2> DEFINE f == [op |-> "ingest", decision |-> d, row |-> attempt[d.id]]
  <2>1. d.id \in Attempts
    BY DEF EidsInv, Decision
  <2>2. EidsFrame(f)
    BY <2>1, ReadIsCurrent DEF EidsFrame
  <2>3. call' = [call EXCEPT ![c] = f]
    BY <1>6 DEF IngestSignedDecision, Proceed
  <2> QED
    BY <1>0, <1>6, <2>2, <2>3, EidsReads DEF IngestSignedDecision, eidsVars
<1> QED
  BY <1>1, <1>2, <1>3, <1>4, <1>5, <1>6

-----------------------------------------------------------------------------
\* A write of a current row advances the attempt.
LEMMA AttemptWritten ==
  ASSUME EidsInv, NEW a \in Attempts, NEW row \in AttemptRow, row.ver = attempt[a].ver, UpdateAttempt(a, row)
  PROVE  /\ attempt' \in [Attempts -> AttemptRow]
         /\ attempt'[a].status = row.status /\ attempt'[a].until = row.until
         /\ attempt'[a].ver > attempt[a].ver
         /\ \A b \in Attempts \ {a} : attempt'[b] = attempt[b]
         /\ \A b \in Attempts : attempt'[b] = attempt[b] \/ attempt'[b].ver > attempt[b].ver
         /\ latest' = a
<1>1. Written(row) = [status |-> row.status, until |-> row.until, ver |-> row.ver + 1]
  BY DEF Written, AttemptRow
<1>2. Written(row) \in AttemptRow
  BY <1>1 DEF AttemptRow
<1>3. attempt' = [attempt EXCEPT ![a] = Written(row)] /\ latest' = a
  BY DEF UpdateAttempt
<1>4. attempt'[a] = [status |-> row.status, until |-> row.until, ver |-> row.ver + 1]
  BY <1>1, <1>3 DEF EidsInv
<1>5. row.ver + 1 > attempt[a].ver
  BY DEF AttemptRow
<1> QED
  BY <1>2, <1>3, <1>4, <1>5 DEF EidsInv

\* No decision comes in: what such a write must keep, and what follows.
LEMMA AttemptAdvances ==
  ASSUME EidsInv, NEW c \in Clients, NEW frame, call' = [call EXCEPT ![c] = frame], EidsFrame(frame)',
         NEW a \in Attempts, NEW row \in AttemptRow, row.ver = attempt[a].ver, UpdateAttempt(a, row),
         UNCHANGED <<subjects, decisions, replays, today>>,
         row.status \in {"pending", "in_progress", "unavailable"} => (Open(a) \/ MayCreate) /\ row.until = 0,
         \A d \in replays : d.id = a /\ Follows(attempt[a], d) => Follows(row, d)
  PROVE  EidsInv' /\ DecisionsAreFollowed
<1>1. /\ attempt' \in [Attempts -> AttemptRow]
      /\ attempt'[a].status = row.status /\ attempt'[a].until = row.until
      /\ \A b \in Attempts \ {a} : attempt'[b] = attempt[b]
      /\ \A b \in Attempts : attempt'[b] = attempt[b] \/ attempt'[b].ver > attempt[b].ver
      /\ latest' = a
  BY AttemptWritten
<1>2. DOMAIN call' = Clients /\ \A d \in Clients : EidsFrame(call[d])'
  BY <1>1, EidsFramesStay DEF EidsInv
<1>3. OneOpen' /\ OpenHasNoEnd'
  BY <1>1 DEF EidsInv, OneOpen, OpenHasNoEnd, Open, MayCreate
<1>4. EidsInv'
  BY <1>1, <1>2, <1>3 DEF EidsInv
<1>5. ASSUME NEW d \in replays, Follows(attempt[d.id], d)
      PROVE  Follows(attempt'[d.id], d)
  <2>1. d.id \in Attempts
    BY DEF EidsInv, Decision
  <2>2. CASE d.id = a
    BY <1>1, <1>5, <2>2 DEF Follows
  <2> QED
    BY <1>1, <1>5, <2>1, <2>2
<1> QED
  BY <1>4, <1>5 DEF DecisionsAreFollowed

LEMMA ExpireStep ==
  ASSUME EidsInv, NEW c \in Clients, PersistEffective(c)
  PROVE  EidsInv' /\ EidsSteps
<1> DEFINE a == call[c].id
           row == call[c].row
<1>1. /\ call[c].op = "expire" /\ a \in Attempts /\ RowRead(a, row)
      /\ UNCHANGED <<subjects, decisions, replays, today>> /\ subjects \subseteq Attempts
  BY DEF PersistEffective, EidsInv, EidsFrame
<1>2. CASE Current(a, row)
  <2>1. row \in AttemptRow /\ row = attempt[a]
    BY <1>1, <1>2 DEF Current, RowRead
  <2>2. UpdateAttempt(a, Effective(row))
    BY <1>2 DEF PersistEffective
  <2>3. /\ Effective(row) \in AttemptRow /\ Effective(row).ver = attempt[a].ver
        /\ Effective(row).until = row.until
        /\ Effective(row).status = row.status \/ (Effective(row).status = "expired" /\ row.status # "failed")
    <3> HIDE DEF row, a
    <3> QED
      BY <2>1 DEF Effective, AttemptRow, AttemptStatuses
  <2>4. PICK frame \in {[op |-> "create"], Idle} : call' = [call EXCEPT ![c] = frame]
    BY <1>2 DEF PersistEffective, Proceed, Return
  <2>5. EidsFrame(frame)' /\ frame.op # "expire"
    BY <2>4 DEF EidsFrame, Idle
  <2>6. call'[c] # call[c]
    BY <1>1, <2>4, <2>5 DEF EidsInv
  <2> HIDE DEF row, a
  <2>7. row.status \in {"pending", "in_progress", "unavailable"} => row.until = 0
    BY <1>1, <2>1 DEF EidsInv, OpenHasNoEnd, Open
  <2>8. Effective(row).status \in {"pending", "in_progress", "unavailable"}
          => (Open(a) \/ MayCreate) /\ Effective(row).until = 0
    BY <2>1, <2>2, <2>3, <2>7 DEF Open
  <2>9. \A d \in replays : d.id = a /\ Follows(attempt[a], d) => Follows(Effective(row), d)
    BY <2>1, <2>3 DEF Follows
  <2>10. EidsInv' /\ DecisionsAreFollowed
    BY <1>1, <2>2, <2>3, <2>4, <2>5, <2>8, <2>9, AttemptAdvances
  <2> QED
    BY <1>1, <2>6, <2>10 DEF EidsSteps, VerifiedUntil
<1>3. CASE ~Current(a, row)
  <2>1. call' = [call EXCEPT ![c] = Idle] /\ UNCHANGED <<attempt, latest>>
    BY <1>3 DEF PersistEffective, Return
  <2> QED
    BY <1>1, <2>1, EidsReads, IdleEidsFrame
<1> QED
  BY <1>2, <1>3

LEMMA CreateAttemptStep ==
  ASSUME EidsInv, NEW c \in Clients, NEW a \in Attempts, CreateAttempt(c, a)
  PROVE  EidsInv' /\ EidsSteps
<1>1. /\ call[c].op = "create" /\ attempt[a] = NoAttempt
      /\ UNCHANGED <<subjects, decisions, replays, today>> /\ subjects \subseteq Attempts
  BY DEF CreateAttempt, EidsInv
<1>2. CASE MayCreate
  <2> DEFINE f == [op |-> "retry", id |-> a, row |-> Written(NewPending)]
  <2>1. /\ NewPending = [status |-> "pending", until |-> 0, ver |-> 0] /\ NewPending \in AttemptRow
        /\ NewPending.ver = attempt[a].ver /\ NewPending.until = 0
    BY <1>1 DEF NewPending, NoAttempt, AttemptRow, AttemptStatuses
  <2>2. UpdateAttempt(a, NewPending) /\ call' = [call EXCEPT ![c] = f]
    BY <1>2 DEF CreateAttempt, Proceed
  <2>3. attempt'[a] = Written(NewPending) /\ attempt'[a] \in AttemptRow /\ attempt'[a].until = 0
    BY <2>1, <2>2, AttemptWritten DEF EidsInv, UpdateAttempt
  <2>4. EidsFrame(f)'
    BY <2>3 DEF EidsFrame, RowRead, AttemptRow
  <2>5. call'[c] # call[c]
    BY <1>1, <2>2 DEF EidsInv
  <2>6. \A d : ~Follows(attempt[a], d)
    BY <1>1 DEF Follows, NoAttempt
  <2> HIDE DEF f
  <2>7. EidsInv' /\ DecisionsAreFollowed
    BY <1>1, <1>2, <2>1, <2>2, <2>4, <2>6, AttemptAdvances
  <2> QED
    BY <1>1, <2>5, <2>7 DEF EidsSteps, VerifiedUntil
<1>3. CASE ~MayCreate
  <2>1. call' = [call EXCEPT ![c] = [op |-> "lost"]] /\ UNCHANGED <<attempt, latest>>
    BY <1>3 DEF CreateAttempt, Proceed
  <2>2. EidsFrame([op |-> "lost"])
    BY DEF EidsFrame
  <2> QED
    BY <1>1, <2>1, <2>2, EidsReads
<1> QED
  BY <1>2, <1>3

\* The gateway only changes an attempt that is open, so none that a decision came in for.
LEMMA GatewayStep ==
  ASSUME EidsInv, NEW c \in Clients, NEW outcome \in Outcomes, NEW until \in {0, today + 1},
         InvokeGateway(c, outcome, until)
  PROVE  EidsInv' /\ EidsSteps
<1> DEFINE a == call[c].id
           row == call[c].row
           next == ApplyOutcome(row, outcome, until)
<1>1. /\ a \in Attempts /\ RowRead(a, row) /\ row.status \in {"pending", "unavailable"} /\ row.until = 0
      /\ call' = [call EXCEPT ![c] = Idle]
      /\ UNCHANGED <<subjects, decisions, replays, today>> /\ subjects \subseteq Attempts
      /\ until \in Nat
  BY DEF InvokeGateway, EidsInv, EidsFrame, Return
<1>2. CASE Current(a, row)
  <2>1. row \in AttemptRow /\ row = attempt[a] /\ UpdateAttempt(a, next)
    BY <1>1, <1>2 DEF Current, RowRead, InvokeGateway
  <2> HIDE DEF a, row
  <2>2. next \in AttemptRow /\ next.ver = attempt[a].ver /\ next.status = outcome
        /\ (outcome # "verified" => next.until = 0)
    BY <1>1, <2>1 DEF ApplyOutcome, AttemptRow, AttemptStatuses, Outcomes
  <2> HIDE DEF next
  <2>3. Open(a) /\ \A d : ~Follows(attempt[a], d)
    BY <1>1, <2>1 DEF Open, Follows
  <2>4. EidsInv' /\ DecisionsAreFollowed
    BY <1>1, <2>1, <2>2, <2>3, AttemptAdvances, IdleEidsFrame
  <2>5. VerifiedUntil
    <3>1. CASE a = latest
      <4>1. ~Verified
        BY <2>1, <1>1, <3>1 DEF Verified, Effective, AttemptRow
      <4> QED
        BY <4>1 DEF VerifiedUntil
    <3>2. CASE a # latest
      BY <1>1, <2>3, <3>2 DEF VerifiedUntil
    <3> QED
      BY <3>1, <3>2
  <2> QED
    BY <2>4, <2>5 DEF EidsSteps
<1>3. CASE ~Current(a, row)
  <2>1. UNCHANGED <<attempt, latest>>
    BY <1>3 DEF InvokeGateway
  <2> QED
    BY <1>1, <2>1, EidsReads, IdleEidsFrame
<1> QED
  BY <1>2, <1>3

-----------------------------------------------------------------------------
\* One more replay, and no attempt is written.
LEMMA OnlyRecorded ==
  ASSUME EidsInv, NEW c \in Clients, call' = [call EXCEPT ![c] = Idle],
         NEW d \in decisions, replays' = replays \cup {d},
         UNCHANGED <<attempt, latest, subjects, decisions, today>>,
         \/ ~LastIssued(d, replays')
         \/ \E e \in Clients : call[e].op = "ingest" /\ call[e].decision = d /\ call[e].row # attempt[d.id]
  PROVE  EidsInv' /\ EidsSteps
<1>1. DOMAIN call' = Clients /\ \A e \in Clients : EidsFrame(call[e])'
  BY EidsFramesStay, IdleEidsFrame DEF EidsInv
<1>2. OneOpen' /\ OpenHasNoEnd'
  BY DEF EidsInv, OneOpen, OpenHasNoEnd, Open
<1>3. Verified' = Verified
  BY DEF Verified, Effective, IsExpired
<1> QED
  BY <1>1, <1>2, <1>3 DEF EidsInv, EidsSteps, VerifiedUntil, DecisionsAreFollowed

LEMMA IngestStep ==
  ASSUME EidsInv, NEW c \in Clients, ApplyReplayAndUpdate(c)
  PROVE  EidsInv' /\ EidsSteps
<1> DEFINE d == call[c].decision
           row == call[c].row
           next == ApplySignedDecision(row, d)
<1>1. /\ call[c].op = "ingest" /\ d \in decisions /\ d \in Decision /\ RowRead(d.id, row)
      /\ call' = [call EXCEPT ![c] = Idle]
      /\ UNCHANGED <<subjects, decisions, today>> /\ subjects \subseteq Attempts
  BY DEF ApplyReplayAndUpdate, EidsInv, EidsFrame, Return
<1>2. CASE Overtaken(d) /\ replays' = replays \cup {d} /\ UNCHANGED <<attempt, latest>>
  <2> HIDE DEF d, row, next
  <2>1. PICK r \in replays : r.id = d.id /\ r.issued > d.issued
    BY <1>2 DEF Overtaken
  <2>2. r \in Decision
    BY DEF EidsInv
  <2>3. ~LastIssued(d, replays')
    BY <1>1, <1>2, <2>1, <2>2 DEF LastIssued, Decision
  <2> QED
    BY <1>1, <1>2, <2>3, OnlyRecorded
<1>3. CASE replays' = replays \cup {d} /\ ~Current(d.id, row) /\ UNCHANGED <<attempt, latest>>
  <2>1. row # attempt[d.id]
    BY <1>3 DEF Current
  <2>2. \E e \in Clients : call[e].op = "ingest" /\ call[e].decision = d /\ call[e].row # attempt[d.id]
    BY <1>1, <2>1
  <2> HIDE DEF d, row, next
  <2> QED
    BY <1>1, <1>3, <2>2, OnlyRecorded
<1>4. CASE ~Overtaken(d) /\ ~Tied(d) /\ replays' = replays \cup {d} /\ Current(d.id, row) /\ UpdateAttempt(d.id, next)
  <2>1. row \in AttemptRow /\ row = attempt[d.id] /\ d.id \in Attempts
    BY <1>1, <1>4 DEF Current, RowRead, Decision
  <2> HIDE DEF d, row
  <2>2. next \in AttemptRow /\ next.ver = attempt[d.id].ver /\ Follows(next, d)
        /\ (d.approved => next.status = "verified") /\ (~d.approved => next.status = "failed")
    BY <1>1, <2>1 DEF ApplySignedDecision, AttemptRow, AttemptStatuses, Decision, Follows
  <2> HIDE DEF next
  <2>3. /\ attempt' \in [Attempts -> AttemptRow]
        /\ attempt'[d.id].status = next.status /\ attempt'[d.id].until = next.until
        /\ \A b \in Attempts \ {d.id} : attempt'[b] = attempt[b]
        /\ \A b \in Attempts : attempt'[b] = attempt[b] \/ attempt'[b].ver > attempt[b].ver
        /\ latest' = d.id
    BY <1>4, <2>1, <2>2, AttemptWritten
  <2>4. DOMAIN call' = Clients /\ \A e \in Clients : EidsFrame(call[e])'
    BY <1>1, <2>3, EidsFramesStay, IdleEidsFrame
  <2>5. next.status \in {"verified", "failed"}
    BY <1>1, <2>2 DEF Decision
  <2>6. OneOpen' /\ OpenHasNoEnd'
    BY <2>3, <2>5 DEF EidsInv, OneOpen, OpenHasNoEnd, Open
  <2>7. d \notin replays /\ \A r \in replays : r.id = d.id => r.issued < d.issued
    <3>1. replays \subseteq Decision
      BY DEF EidsInv
    <3>2. \A r \in replays : r.id = d.id => ~(r.issued > d.issued) /\ r.issued # d.issued
      BY <1>4 DEF Overtaken, Tied
    <3> QED
      BY <1>1, <3>1, <3>2 DEF Decision
  <2>8. EidsInv'
    BY <1>1, <1>4, <2>1, <2>3, <2>4, <2>6 DEF EidsInv
  <2>9. DecisionsAreFollowed
    <3>1. Follows(attempt'[d.id], d)
      BY <2>2, <2>3 DEF Follows
    <3>2. ASSUME NEW e \in replays, LastIssued(e, replays'), Follows(attempt[e.id], e)
          PROVE  Follows(attempt'[e.id], e)
      <4>1. e \in Decision /\ e # d
        BY <2>7 DEF EidsInv
      <4>2. e.id # d.id
        BY <1>1, <1>4, <2>7, <3>2, <4>1 DEF LastIssued, Decision
      <4> QED
        BY <2>3, <3>2, <4>1, <4>2 DEF Decision
    <3> QED
      BY <1>4, <3>1, <3>2 DEF DecisionsAreFollowed
  <2>10. VerifiedUntil
    <3>1. CASE ~d.approved
      BY <1>4, <2>2, <2>3, <2>7, <3>1 DEF VerifiedUntil
    <3>2. CASE d.approved
      <4>1. attempt'[latest'].status = "verified" /\ latest' # 0
        BY <2>1, <2>2, <2>3, <3>2, EidsAssumption
      <4>2. ~Verified' => IsExpired(attempt[latest])'
        BY <4>1 DEF Verified, Effective
      <4> QED
        BY <4>2 DEF VerifiedUntil
    <3> QED
      BY <3>1, <3>2
  <2> QED
    BY <2>8, <2>9, <2>10 DEF EidsSteps
<1>5. CASE UNCHANGED <<replays, attempt, latest>>
  BY <1>1, <1>5, EidsReads, IdleEidsFrame
<1> QED
  BY <1>2, <1>3, <1>4, <1>5 DEF ApplyReplayAndUpdate

LEMMA EidsStep ==
  ASSUME EidsInv, EidsNext
  PROVE  EidsInv' /\ EidsSteps
<1>1. CASE DayBreaks
  <2>1. UNCHANGED <<call, attempt, latest, subjects, decisions, replays>> /\ today' = today + 1
    BY <1>1 DEF DayBreaks
  <2>2. \A c \in Clients : EidsFrame(call[c])'
    BY <2>1 DEF EidsInv, EidsFrame, RowRead
  <2>3. OneOpen' /\ OpenHasNoEnd' /\ DecisionsAreFollowed
    BY <2>1 DEF EidsInv, OneOpen, OpenHasNoEnd, Open, DecisionsAreFollowed
  <2>4. EidsInv'
    BY <2>1, <2>2, <2>3 DEF EidsInv
  <2>5. EidsSteps
    <3>1. ASSUME Verified, ~Verified'
          PROVE  IsExpired(attempt[latest])'
      <4>1. attempt[latest].status = "verified" /\ latest # 0 /\ attempt[latest] \in AttemptRow
        BY <3>1 DEF Verified, Effective, EidsInv, AttemptRow
      <4> QED
        BY <2>1, <3>1, <4>1 DEF Verified, Effective
    <3> QED
      BY <2>3, <3>1 DEF EidsSteps, VerifiedUntil
  <2> QED
    BY <2>4, <2>5
<1>2. ASSUME NEW a \in Attempts, NEW approved \in BOOLEAN, Issue(a, approved)
      PROVE  EidsInv' /\ EidsSteps
  <2>1. /\ UNCHANGED <<call, attempt, latest, subjects, replays, today>>
        /\ decisions' = decisions \cup {[id |-> a, issued |-> today, approved |-> approved, until |-> today + 2]}
    BY <1>2 DEF Issue
  <2>2. decisions' \subseteq Decision /\ decisions \subseteq decisions'
    BY <2>1 DEF EidsInv, Decision
  <2>3. \A c \in Clients : EidsFrame(call[c])'
    BY <2>1, <2>2 DEF EidsInv, EidsFrame, RowRead
  <2>4. OneOpen' /\ OpenHasNoEnd'
    BY <2>1 DEF EidsInv, OneOpen, OpenHasNoEnd, Open
  <2> QED
    BY <2>1, <2>2, <2>3, <2>4, NothingWritten DEF EidsInv
<1> QED
  BY <1>1, <1>2, EidsReadStep, ExpireStep, CreateAttemptStep, GatewayStep, IngestStep DEF EidsNext

LEMMA EidsTold == EidsInv => EidsStory
BY DEF EidsInv, EidsStory, OneOpen, OpenHasNoEnd

-----------------------------------------------------------------------------
(* Lists that are read page by page *)

LEMMA LeastNatural ==
  ASSUME NEW T, T \subseteq Nat, T # {}
  PROVE  \E n \in T : \A m \in T : n <= m
<1> DEFINE R == OpToRel(<, Nat)
<1>1. IsWellFoundedOn(R, Nat)
  BY NatLessThanWellFounded
<1>2. \A m, n \in Nat : <<m, n>> \in R <=> m < n
  BY DEF OpToRel
<1> HIDE DEF R
<1>3. PICK n \in T : \A m \in T : <<m, n>> \notin R
  BY <1>1, WFMin
<1>4. ASSUME NEW m \in T
      PROVE  n <= m
  <2>1. m \in Nat /\ n \in Nat /\ ~(m < n)
    BY <1>2, <1>3
  <2> QED
    BY <2>1
<1> QED
  BY <1>4

\* A finite set that is ordered has a first element: the one with the fewest before it.
LEMMA FirstOfFinite ==
  ASSUME NEW T, IsFiniteSet(T), T # {}, NEW R,
         \A x \in T : <<x, x>> \notin R,
         \A x, y, z \in T : <<x, y>> \in R /\ <<y, z>> \in R => <<x, z>> \in R
  PROVE  \E m \in T : \A q \in T : <<q, m>> \notin R
<1> DEFINE Preds(x) == {q \in T : <<q, x>> \in R}
           Ranks == {Cardinality(Preds(x)) : x \in T}
<1>1. \A x \in T : IsFiniteSet(Preds(x)) /\ Cardinality(Preds(x)) \in Nat
  BY FS_Subset, FS_CardinalityType
<1>2. Ranks \subseteq Nat /\ Ranks # {}
  <2>1. \A x \in T : Cardinality(Preds(x)) \in Nat
    BY <1>1
  <2> HIDE DEF Preds
  <2> QED
    BY <2>1
<1>3. PICK n \in Ranks : \A k \in Ranks : n <= k
  BY <1>2, LeastNatural
<1>4. PICK m \in T : n = Cardinality(Preds(m))
  BY <1>3
<1>5. ASSUME NEW q \in T, <<q, m>> \in R
      PROVE  FALSE
  <2>1. Preds(q) \subseteq Preds(m) /\ q \in Preds(m) /\ q \notin Preds(q)
    BY <1>5
  <2>2. Cardinality(Preds(q)) <= Cardinality(Preds(m)) /\ Cardinality(Preds(q)) # Cardinality(Preds(m))
    BY <1>1, <2>1, FS_Subset
  <2>3. Cardinality(Preds(m)) <= Cardinality(Preds(q))
    <3> HIDE DEF Preds
    <3> QED
      BY <1>3, <1>4
  <2>4. Cardinality(Preds(m)) \in Nat /\ Cardinality(Preds(q)) \in Nat
    BY <1>1
  <2> QED
    BY <2>2, <2>3, <2>4
<1> QED
  BY <1>5

Keyed == key \in [Rows -> Nat]

LEMMA BeforeIsOrder ==
  ASSUME Keyed, NEW o
  PROVE  /\ \A r \in Rows : ~Before(o, r, r)
         /\ \A p, q, r \in Rows : Before(o, p, q) /\ Before(o, q, r) => Before(o, p, r)
         /\ \A q, r \in Rows : q # r => Before(o, q, r) \/ Before(o, r, q)
<1>1. \A r \in Rows : r \in Int /\ key[r] \in Nat
  BY PagingAssumption DEF Keyed
<1> QED
  BY <1>1 DEF Before, Less

LEMMA FirstRow ==
  ASSUME Keyed, NEW o, NEW T \in SUBSET Rows, T # {}
  PROVE  \E m \in T : \A q \in T : ~Before(o, q, m)
<1> DEFINE R == {p \in T \X T : Before(o, p[1], p[2])}
<1>1. \A x, y \in T : <<x, y>> \in R <=> Before(o, x, y)
  OBVIOUS
<1> HIDE DEF R
<1>2. IsFiniteSet(T)
  BY PagingAssumption, FS_Subset
<1>3. /\ \A x \in T : <<x, x>> \notin R
      /\ \A x, y, z \in T : <<x, y>> \in R /\ <<y, z>> \in R => <<x, z>> \in R
  BY <1>1, BeforeIsOrder
<1>4. \E m \in T : \A q \in T : <<q, m>> \notin R
  BY <1>2, <1>3, FirstOfFinite
<1> QED
  BY <1>1, <1>4

LEMMA FinalRow ==
  ASSUME Keyed, NEW o, NEW T \in SUBSET Rows, T # {}
  PROVE  LastRow(o, T) \in T /\ \A q \in T \ {LastRow(o, T)} : Before(o, q, LastRow(o, T))
<1> DEFINE R == {p \in T \X T : Before(o, p[2], p[1])}
<1>1. \A x, y \in T : <<x, y>> \in R <=> Before(o, y, x)
  OBVIOUS
<1> HIDE DEF R
<1>2. IsFiniteSet(T)
  BY PagingAssumption, FS_Subset
<1>3. /\ \A x \in T : <<x, x>> \notin R
      /\ \A x, y, z \in T : <<x, y>> \in R /\ <<y, z>> \in R => <<x, z>> \in R
  BY <1>1, BeforeIsOrder
<1>4. \E m \in T : \A q \in T : <<q, m>> \notin R
  BY <1>2, <1>3, FirstOfFinite
<1>5. \E m \in T : \A q \in T \ {m} : Before(o, q, m)
  BY <1>1, <1>4, BeforeIsOrder
<1> QED
  BY <1>5 DEF LastRow

-----------------------------------------------------------------------------
\* LIMIT takes the first rows: all before one of them, all if there are fewer, never more.
LEMMA FirstRowsFacts ==
  ASSUME Keyed, NEW o, NEW S \in SUBSET Rows, NEW n \in Nat
  PROVE  /\ FirstRows(o, n, S) \subseteq S
         /\ \A r \in FirstRows(o, n, S), q \in S : Before(o, q, r) => q \in FirstRows(o, n, S)
         /\ Cardinality(FirstRows(o, n, S)) \in Nat /\ Cardinality(FirstRows(o, n, S)) <= n
         /\ Cardinality(FirstRows(o, n, S)) < n => FirstRows(o, n, S) = S
<1> DEFINE Preds(r) == {q \in S : Before(o, q, r)}
           F == FirstRows(o, n, S)
<1>1. F = {r \in S : Cardinality(Preds(r)) < n}
  BY DEF FirstRows
<1>2. IsFiniteSet(S) /\ IsFiniteSet(F) /\ F \subseteq S
  BY <1>1, PagingAssumption, FS_Subset
<1>3. \A r : IsFiniteSet(Preds(r)) /\ Cardinality(Preds(r)) \in Nat
  BY <1>2, FS_Subset, FS_CardinalityType
<1>4. Cardinality(F) \in Nat
  BY <1>2, FS_CardinalityType
<1>5. ASSUME NEW r \in F, NEW q \in S, Before(o, q, r)
      PROVE  q \in F
  <2>1. Preds(q) \subseteq Preds(r)
    BY <1>2, <1>5, BeforeIsOrder
  <2>2. Cardinality(Preds(q)) <= Cardinality(Preds(r))
    BY <1>3, <2>1, FS_Subset
  <2>3. Cardinality(Preds(r)) < n /\ Cardinality(Preds(r)) \in Nat /\ Cardinality(Preds(q)) \in Nat
    BY <1>1, <1>3
  <2> QED
    BY <1>1, <2>2, <2>3
<1>6. Cardinality(F) <= n
  <2>1. CASE F = {}
    BY <2>1, FS_EmptySet
  <2>2. CASE F # {}
    <3> DEFINE m == LastRow(o, F)
    <3>1. m \in F /\ \A q \in F \ {m} : Before(o, q, m)
      BY <1>2, <2>2, FinalRow
    <3> HIDE DEF m
    <3>2. F \ {m} \subseteq Preds(m)
      BY <1>2, <3>1
    <3>3. Cardinality(F \ {m}) = Cardinality(F) - 1 /\ Cardinality(F \ {m}) <= Cardinality(Preds(m))
      BY <1>2, <1>3, <3>1, <3>2, FS_RemoveElement, FS_Subset
    <3>4. Cardinality(Preds(m)) < n /\ Cardinality(Preds(m)) \in Nat
      BY <1>1, <1>3, <3>1
    <3> QED
      BY <1>4, <3>3, <3>4
  <2> QED
    BY <2>1, <2>2
<1>7. ASSUME Cardinality(F) < n
      PROVE  F = S
  <2>1. ASSUME S \ F # {}
        PROVE  FALSE
    <3>1. PICK m \in S \ F : \A q \in S \ F : ~Before(o, q, m)
      BY <2>1, FirstRow
    <3>2. Preds(m) \subseteq F
      BY <3>1
    <3>3. Cardinality(Preds(m)) <= Cardinality(F)
      BY <1>2, <3>2, FS_Subset
    <3>4. Cardinality(Preds(m)) < n
      BY <1>3, <1>4, <1>7, <3>3
    <3> QED
      BY <1>1, <3>1, <3>4
  <2> QED
    BY <1>2, <2>1
<1> HIDE DEF F
<1>8. QED
  BY <1>2, <1>4, <1>5, <1>6, <1>7 DEF F

\* Asking for one row more and cutting it off gives the same rows.
LEMMA OneMore ==
  ASSUME Keyed, NEW o, NEW S \in SUBSET Rows, NEW n \in Nat
  PROVE  /\ FirstRows(o, n, FirstRows(o, n + 1, S)) = FirstRows(o, n, S)
         /\ Cardinality(FirstRows(o, n + 1, S)) <= n => FirstRows(o, n, S) = S
<1> DEFINE H == FirstRows(o, n + 1, S)
<1>1. /\ H \subseteq S /\ H \in SUBSET Rows
      /\ \A r \in H, q \in S : Before(o, q, r) => q \in H
      /\ Cardinality(H) \in Nat /\ (Cardinality(H) < n + 1 => H = S)
  BY FirstRowsFacts
<1>2. IsFiniteSet(S)
  BY PagingAssumption, FS_Subset
<1>3. \A r : Cardinality({q \in S : Before(o, q, r)}) \in Nat
  BY <1>2, FS_Subset, FS_CardinalityType
<1>4. H = {r \in S : Cardinality({q \in S : Before(o, q, r)}) < n + 1}
  BY DEF FirstRows
<1>5. FirstRows(o, n, S) = {r \in S : Cardinality({q \in S : Before(o, q, r)}) < n}
  BY DEF FirstRows
<1>6. FirstRows(o, n, H) = {r \in H : Cardinality({q \in H : Before(o, q, r)}) < n}
  BY DEF FirstRows
<1> HIDE DEF H
<1>7. \A r \in H : {q \in H : Before(o, q, r)} = {q \in S : Before(o, q, r)}
  BY <1>1
<1>8. ASSUME NEW r \in S, Cardinality({q \in S : Before(o, q, r)}) < n
      PROVE  r \in H
  <2>1. Cardinality({q \in S : Before(o, q, r)}) < n + 1
    BY <1>3, <1>8
  <2> QED
    BY <1>4, <2>1
<1>9. FirstRows(o, n, H) = FirstRows(o, n, S)
  <2>1. \A r : r \in FirstRows(o, n, H) => r \in FirstRows(o, n, S)
    BY <1>1, <1>5, <1>6, <1>7
  <2>2. \A r : r \in FirstRows(o, n, S) => r \in FirstRows(o, n, H)
    BY <1>5, <1>6, <1>7, <1>8
  <2> QED
    BY <2>1, <2>2
<1>10. ASSUME Cardinality(H) <= n
       PROVE  FirstRows(o, n, S) = S
  <2>1. H = S
    BY <1>1, <1>10
  <2>2. ASSUME NEW r \in S
        PROVE  Cardinality({q \in S : Before(o, q, r)}) < n
    <3> DEFINE Q == {q \in S : Before(o, q, r)}
    <3>1. Q \in SUBSET S /\ r \notin Q
      BY BeforeIsOrder
    <3>2. Cardinality(Q) <= Cardinality(S) /\ Cardinality(Q) # Cardinality(S)
      BY <1>2, <3>1, FS_Subset
    <3>3. Cardinality(Q) \in Nat /\ Cardinality(S) \in Nat /\ Cardinality(S) <= n
      BY <1>1, <1>3, <1>10, <2>1
    <3> HIDE DEF Q
    <3>4. Cardinality(Q) < n
      BY <3>2, <3>3
    <3> QED
      BY <3>4 DEF Q
  <2> QED
    BY <1>5, <2>2
<1> QED
  BY <1>9, <1>10 DEF H

-----------------------------------------------------------------------------
\* The rows that are still to come.
Coming(o) == {r \in Rows : key[r] # 0 /\ Behind(o, r)}

\* A page has the first of them, up to the row that its cursor names, or all.
IsPage(o, page) ==
  /\ page.rows \subseteq Coming(o)
  /\ \/ page.next = End /\ page.rows = Coming(o)
     \/ \E l \in page.rows :
          /\ page.next = CursorOf(o, l)
          /\ \A r \in page.rows \ {l} : Before(o, r, l)
          /\ \A r \in Coming(o) \ page.rows : Before(o, l, r)

LEMMA CutOff ==
  ASSUME Keyed, NEW o, NEW page, page.rows = FirstRows(o, Limit, Coming(o)),
         \/ page.next = End /\ page.rows = Coming(o)
         \/ page.next = CursorOf(o, LastRow(o, page.rows)) /\ page.rows # {}
  PROVE  IsPage(o, page)
<1>1. Coming(o) \in SUBSET Rows /\ Limit \in Nat
  BY PagingAssumption DEF Coming
<1>2. /\ page.rows \subseteq Coming(o)
      /\ \A r \in page.rows, q \in Coming(o) : Before(o, q, r) => q \in page.rows
  BY <1>1, FirstRowsFacts
<1>3. CASE page.next = CursorOf(o, LastRow(o, page.rows)) /\ page.rows # {}
  <2> DEFINE l == LastRow(o, page.rows)
  <2>1. l \in page.rows /\ \A q \in page.rows \ {l} : Before(o, q, l)
    BY <1>1, <1>2, <1>3, FinalRow
  <2>2. page.next = CursorOf(o, l)
    BY <1>3
  <2> HIDE DEF l
  <2>3. \A r \in Coming(o) \ page.rows : Before(o, l, r)
    BY <1>1, <1>2, <2>1, BeforeIsOrder
  <2> QED
    BY <1>2, <2>1, <2>2, <2>3 DEF IsPage
<1> QED
  BY <1>2, <1>3 DEF IsPage

\* A full page has a cursor (ListQueue, ListCases).
LEMMA FullPage ==
  ASSUME Keyed, NEW o, NEW page, page.rows = FirstRows(o, Limit, Coming(o)),
         page.next = IF Cardinality(page.rows) = Limit THEN CursorOf(o, LastRow(o, page.rows)) ELSE End
  PROVE  IsPage(o, page)
<1>1. Coming(o) \in SUBSET Rows /\ Limit \in Nat \ {0}
  BY PagingAssumption DEF Coming
<1>2. /\ Cardinality(page.rows) \in Nat /\ Cardinality(page.rows) <= Limit
      /\ Cardinality(page.rows) < Limit => page.rows = Coming(o)
  BY <1>1, FirstRowsFacts
<1>3. Cardinality(page.rows) = Limit => page.rows # {}
  BY <1>1, FS_EmptySet
<1> QED
  BY <1>1, <1>2, <1>3, CutOff

\* A page has a cursor if there is one row more (reviews, search, inbox).
LEMMA PageOfMore ==
  ASSUME Keyed, NEW o, NEW page, NEW found, found = FirstRows(o, Limit + 1, Coming(o)),
         page.rows = FirstRows(o, Limit, found),
         page.next = IF Cardinality(found) > Limit THEN CursorOf(o, LastRow(o, page.rows)) ELSE End
  PROVE  IsPage(o, page)
<1>1. Coming(o) \in SUBSET Rows /\ Limit \in Nat \ {0} /\ Limit + 1 \in Nat
  BY PagingAssumption DEF Coming
<1>2. /\ page.rows = FirstRows(o, Limit, Coming(o))
      /\ Cardinality(found) <= Limit => page.rows = Coming(o)
  BY <1>1, OneMore
<1>3. found \subseteq Coming(o) /\ Cardinality(found) \in Nat
  BY <1>1, FirstRowsFacts
<1>4. Cardinality(found) > Limit => page.rows # {}
  <2>1. ASSUME page.rows = {}
        PROVE  found = {}
    <3>1. Cardinality(page.rows) = 0
      BY <2>1, FS_EmptySet
    <3>2. page.rows = Coming(o)
      BY <1>1, <1>2, <3>1, FirstRowsFacts
    <3> QED
      BY <1>3, <2>1, <3>2
  <2>2. found = {} => Cardinality(found) = 0
    BY FS_EmptySet
  <2> QED
    BY <1>1, <2>1, <2>2
<1> QED
  BY <1>1, <1>2, <1>3, <1>4, CutOff

LEMMA PagesArePages ==
  ASSUME Keyed, list \in Lists, NEW o \in Orders(list)
  PROVE  IsPage(o, PageOf(o))
<1> DEFINE page == PageOf(o)
<1>1. CASE list = "queue"
  <2>1. page = QueuePage(o)
    BY <1>1 DEF PageOf
  <2>2. /\ page.rows = FirstRows(o, Limit, Coming(o))
        /\ page.next = IF Cardinality(page.rows) = Limit THEN CursorOf(o, LastRow(o, page.rows)) ELSE End
    BY <2>1 DEF QueuePage, QueueRows, Select, Coming, QueueCursor
  <2> QED
    BY <2>2, FullPage
<1>2. CASE list = "cases"
  <2>1. page = CasePage /\ o = "newest"
    BY <1>2 DEF PageOf, Orders
  <2>2. /\ page.rows = FirstRows(o, Limit, Coming(o))
        /\ page.next = IF Cardinality(page.rows) = Limit THEN CursorOf(o, LastRow(o, page.rows)) ELSE End
    BY <2>1 DEF CasePage, CaseRows, Select, Coming, CaseCursor
  <2> QED
    BY <2>2, FullPage
<1>3. CASE list = "reviews"
  <2> DEFINE found == FirstRows(o, Limit + 1, Coming(o))
  <2>1. page = ReviewPage /\ o = "newest"
    BY <1>3 DEF PageOf, Orders
  <2>2. /\ page.rows = FirstRows(o, Limit, found)
        /\ page.next = IF Cardinality(found) > Limit THEN CursorOf(o, LastRow(o, page.rows)) ELSE End
    BY <2>1 DEF ReviewPage, ReviewRows, Select, Coming, PublicCursor
  <2> HIDE DEF page
  <2> QED
    BY <2>2, PageOfMore DEF page
<1>4. CASE list = "search"
  <2> DEFINE found == FirstRows(o, Limit + 1, Coming(o))
  <2>1. page = SearchPage(o)
    BY <1>4 DEF PageOf
  <2>2. /\ page.rows = FirstRows(o, Limit, found)
        /\ page.next = IF Cardinality(found) > Limit THEN CursorOf(o, LastRow(o, page.rows)) ELSE End
    BY <2>1 DEF SearchPage, HitRows, Select, Coming, SearchCursor
  <2> HIDE DEF page
  <2> QED
    BY <2>2, PageOfMore DEF page
<1>5. CASE list = "inbox"
  <2> DEFINE found == FirstRows(o, Limit + 1, Coming(o))
  <2>1. page = InboxPage /\ o = "newest"
    BY <1>5 DEF PageOf, Orders
  <2>2. /\ page.rows = FirstRows(o, Limit, found)
        /\ page.next = IF Cardinality(found) > Limit THEN CursorOf(o, LastRow(o, page.rows)) ELSE End
    BY <2>1 DEF InboxPage, InboxRows, Select, Coming, InboxCursor
  <2> HIDE DEF page
  <2> QED
    BY <2>2, PageOfMore DEF page
<1> QED
  BY <1>1, <1>2, <1>3, <1>4, <1>5 DEF Lists

-----------------------------------------------------------------------------
\* The walk has gone past the row.
Passed(r) == cursor # Start /\ cursor # End /\ ~Behind(cursor.order, r)

RowCursor == [at : {"row"}, order : Orders(list), key : Nat, id : Rows]

PagingInv ==
  /\ list \in Lists
  /\ Keyed
  /\ cursor \in {Start, End} \cup RowCursor
  /\ shown \in [Rows -> Nat]
  /\ steady \subseteq Rows /\ steady \cap moved = {}
  /\ cursor = Start => \A r \in Rows : shown[r] = 0
  /\ \A r \in Rows \ moved : shown[r] > 0 => shown[r] = 1 /\ (cursor = End \/ Passed(r))
  /\ \A r \in steady : key[r] # 0 /\ (cursor = End \/ Passed(r) => shown[r] = 1)

LEMMA PagingStart ==
  ASSUME PagingInit \/ PagingDone
  PROVE  PagingInv
<1>1. CASE PagingInit
  <2>1. key \in [Rows -> Nat]
    BY <1>1, PagingAssumption DEF PagingInit
  <2> QED
    BY <1>1, <2>1 DEF PagingInit, PagingInv, Keyed, Start, End, Passed
<1>2. CASE PagingDone
  BY <1>2 DEF PagingDone, PagingInv, Keyed, Start, End, Lists
<1> QED
  BY <1>1, <1>2

LEMMA PagingEnd ==
  ASSUME PagingInv, UNCHANGED pagingVars
  PROVE  PagingInv'
BY DEF PagingInv, pagingVars, Keyed, RowCursor, Passed, Behind, Less

\* What comes behind the next cursor, when a page ends with row l.
LEMMA BehindNext ==
  ASSUME Keyed, UNCHANGED key, NEW o, NEW l \in Rows, cursor' = CursorOf(o, l), NEW r \in Rows
  PROVE  cursor' # Start /\ cursor' # End /\ cursor'.order = o /\ (Passed(r)' <=> ~Before(o, l, r))
BY DEF CursorOf, Start, End, Passed, Behind, Before, Less

\* A row that the walk is past stays behind it.
LEMMA BehindIsUpward ==
  ASSUME Keyed, cursor \in RowCursor, NEW o, NEW l \in Rows, NEW r \in Rows, Behind(o, l), Before(o, l, r)
  PROVE  Behind(o, r)
<1>1. cursor.key \in Nat /\ cursor.id \in Int /\ l \in Int /\ r \in Int /\ key[l] \in Nat /\ key[r] \in Nat
  BY PagingAssumption DEF Keyed, RowCursor
<1>2. cursor # Start
  BY DEF RowCursor, Start
<1> QED
  BY <1>1, <1>2 DEF Behind, Before, Less

LEMMA NextPageStep ==
  ASSUME PagingInv, NEW o \in Orders(list), NextPage(o)
  PROVE  PagingInv'
<1> DEFINE page == PageOf(o)
<1>1. /\ cursor # End /\ (cursor # Start => cursor.order = o)
      /\ shown' = [r \in Rows |-> IF r \in page.rows THEN shown[r] + 1 ELSE shown[r]]
      /\ cursor' = page.next
      /\ UNCHANGED <<list, key, steady, moved>>
      /\ list \in Lists /\ Keyed /\ shown \in [Rows -> Nat]
  BY DEF NextPage, CursorFits, PagingInv
<1>2. IsPage(o, page)
  BY <1>1, PagesArePages
<1> HIDE DEF page
<1>3. \A r \in Rows : Passed(r) <=> cursor # Start /\ ~Behind(o, r)
  BY <1>1 DEF Passed
<1>4. \A r \in Coming(o) \ moved : shown[r] = 0
  BY <1>1, <1>3 DEF Coming, PagingInv
<1>5. page.rows \subseteq Coming(o) /\ Coming(o) \subseteq Rows
  BY <1>2 DEF IsPage, Coming
<1>6. shown' \in [Rows -> Nat] /\ (\A r \in page.rows : shown'[r] = shown[r] + 1)
      /\ (\A r \in Rows \ page.rows : shown'[r] = shown[r])
  BY <1>1, <1>5
<1>7. CASE page.next = End /\ page.rows = Coming(o)
  <2>1. \A r \in Rows \ moved : shown'[r] > 0 => shown'[r] = 1
    BY <1>1, <1>4, <1>6, <1>7 DEF PagingInv
  <2>2. \A r \in steady : key[r] # 0 /\ shown'[r] = 1
    <3> SUFFICES ASSUME NEW r \in steady
                 PROVE  key[r] # 0 /\ shown'[r] = 1
      OBVIOUS
    <3>1. r \in Rows \ moved /\ key[r] # 0
      BY DEF PagingInv
    <3>2. CASE r \in Coming(o)
      BY <1>4, <1>6, <1>7, <3>1, <3>2
    <3>3. CASE r \notin Coming(o)
      <4>1. Passed(r)
        BY <1>3, <3>1, <3>3 DEF Coming, Behind
      <4> QED
        BY <1>5, <1>6, <3>1, <3>3, <4>1 DEF PagingInv
    <3> QED
      BY <3>1, <3>2, <3>3
  <2>3. cursor' = End /\ cursor' # Start
    BY <1>1, <1>7 DEF Start, End
  <2> QED
    BY <1>1, <1>6, <2>1, <2>2, <2>3 DEF PagingInv, Keyed
<1>8. ASSUME NEW l \in page.rows, page.next = CursorOf(o, l),
             \A r \in page.rows \ {l} : Before(o, r, l),
             \A r \in Coming(o) \ page.rows : Before(o, l, r)
      PROVE  PagingInv'
  <2>1. l \in Rows /\ l \in Coming(o)
    BY <1>5
  <2>2. /\ cursor' # Start /\ cursor' # End
        /\ \A r \in Rows : Passed(r)' <=> ~Before(o, l, r)
    BY <1>1, <1>8, <2>1, BehindNext
  <2>3. cursor' \in RowCursor'
    BY <1>1, <1>8, <2>1 DEF CursorOf, RowCursor, Keyed
  <2>4. \A r \in page.rows : Passed(r)'
    BY <1>1, <1>5, <1>8, <2>1, <2>2, BeforeIsOrder
  <2>5. \A r \in Rows : Passed(r) => Passed(r)'
    <3> SUFFICES ASSUME NEW r \in Rows, Passed(r), Before(o, l, r)
                 PROVE  FALSE
      BY <2>2
    <3>1. cursor \in RowCursor /\ Behind(o, l) /\ ~Behind(o, r)
      BY <1>1, <1>3, <2>1 DEF PagingInv, Coming
    <3> QED
      BY <1>1, <2>1, <3>1, BehindIsUpward
  <2>6. \A r \in Rows \ moved : shown'[r] > 0 => shown'[r] = 1 /\ Passed(r)'
    <3> SUFFICES ASSUME NEW r \in Rows \ moved, shown'[r] > 0
                 PROVE  shown'[r] = 1 /\ Passed(r)'
      OBVIOUS
    <3>1. CASE r \in page.rows
      BY <1>4, <1>5, <1>6, <2>4, <3>1
    <3>2. CASE r \notin page.rows
      <4>1. shown[r] > 0 /\ shown'[r] = shown[r]
        BY <1>6, <3>2
      <4>2. shown[r] = 1 /\ Passed(r)
        BY <1>1, <4>1 DEF PagingInv
      <4> QED
        BY <2>5, <4>1, <4>2
    <3> QED
      BY <3>1, <3>2
  <2>7. \A r \in steady : key[r] # 0 /\ (Passed(r)' => shown'[r] = 1)
    <3> SUFFICES ASSUME NEW r \in steady
                 PROVE  key[r] # 0 /\ (Passed(r)' => shown'[r] = 1)
      OBVIOUS
    <3>1. r \in Rows \ moved /\ key[r] # 0
      BY DEF PagingInv
    <3>2. CASE r \in page.rows
      BY <1>4, <1>5, <1>6, <3>1, <3>2
    <3>3. CASE r \in Coming(o) \ page.rows
      BY <1>8, <2>2, <3>1, <3>3
    <3>4. CASE r \notin Coming(o)
      <4>1. Passed(r)
        BY <1>3, <3>1, <3>4 DEF Coming, Behind
      <4> QED
        BY <1>5, <1>6, <3>1, <3>4, <4>1 DEF PagingInv
    <3> QED
      BY <3>1, <3>2, <3>3, <3>4
  <2> QED
    BY <1>1, <1>6, <2>2, <2>3, <2>6, <2>7 DEF PagingInv, Keyed
<1> QED
  BY <1>2, <1>7, <1>8 DEF IsPage

LEMMA ListChangesStep ==
  ASSUME PagingInv, NEW r \in Rows, NEW k \in 0..MaxKey, ListChanges(r, k)
  PROVE  PagingInv'
<1>1. /\ cursor # End /\ key' = [key EXCEPT ![r] = k] /\ steady' = steady \ {r}
      /\ moved' = IF shown[r] > 0 THEN moved \cup {r} ELSE moved
      /\ UNCHANGED <<list, cursor, shown>>
      /\ Keyed /\ shown \in [Rows -> Nat]
  BY DEF ListChanges, PagingInv
<1>2. key' \in [Rows -> Nat] /\ \A q \in Rows \ {r} : key'[q] = key[q]
  BY <1>1, PagingAssumption DEF Keyed
<1>3. \A q \in Rows \ {r} : Passed(q)' = Passed(q)
  BY <1>1, <1>2 DEF Passed, Behind
<1>4. steady' \subseteq Rows /\ steady' \cap moved' = {}
  BY <1>1 DEF PagingInv
<1>5. \A q \in Rows \ moved' : shown[q] > 0 => shown[q] = 1 /\ Passed(q)'
  BY <1>1, <1>3 DEF PagingInv
<1>6. \A q \in steady' : key'[q] # 0 /\ (Passed(q)' => shown[q] = 1)
  BY <1>1, <1>2, <1>3, <1>4 DEF PagingInv
<1> QED
  BY <1>1, <1>2, <1>4, <1>5, <1>6 DEF PagingInv, Keyed, RowCursor

LEMMA PagingStep ==
  ASSUME PagingInv, PagingNext
  PROVE  PagingInv'
BY NextPageStep, ListChangesStep DEF PagingNext

LEMMA PagingTold == PagingInv => PagesAreComplete
  BY DEF PagingInv, PagesAreComplete

-----------------------------------------------------------------------------
(* Favourites and saved searches *)

\* A listing that nothing happened to is still to be visited, or was visited as it is.
Listed(c, f) ==
  \A l \in Favourable \ disturbed[c] :
    /\ l \in f.left => l \in favourites
    /\ l \in f.out <=> (l \in favourites /\ l \notin f.left /\ l \in shownToAll)

FavouriteFrame(c, f) ==
  /\ f.op \in {"idle", "favour", "favourites"}
  /\ f.op = "favour" => f.id \in Favourable
  /\ f.op = "favourites" => Listed(c, f)

SavedInv ==
  /\ DOMAIN call = Clients /\ DOMAIN disturbed = Clients
  /\ saved = NoSearch \/ (saved \in Filters /\ SavedSearchesRun)
  /\ \A c \in Clients : FavouriteFrame(c, call[c])

LEMMA IdleFavouriteFrame == \A c : FavouriteFrame(c, Idle) /\ FavouriteFrame(c, Idle)'
  BY DEF FavouriteFrame, Idle

LEMMA SavedStart ==
  ASSUME SavedInit, call = [c \in Clients |-> Idle]
  PROVE  SavedInv
BY IdleFavouriteFrame DEF SavedInit, SavedInv

LEMMA SavedEnd ==
  ASSUME SavedInv, UNCHANGED <<shownToAll, favourites, saved>>, DOMAIN call' = Clients, DOMAIN disturbed' = Clients,
         \A c \in Clients : call'[c] = Idle \/ (call'[c] = call[c] /\ disturbed'[c] = disturbed[c])
  PROVE  SavedInv' /\ FavouritesAreListed
<1>1. \A c \in Clients : FavouriteFrame(c, call[c])'
  BY IdleFavouriteFrame DEF SavedInv, FavouriteFrame, Listed
<1>2. saved' = NoSearch \/ (saved' \in Filters /\ SavedSearchesRun')
  BY DEF SavedInv, SavedSearchesRun, SearchRuns
<1>3. FavouritesAreListed
  BY DEF SavedInv, FavouriteFrame, Listed, FavouritesAreListed
<1> QED
  BY <1>1, <1>2, <1>3 DEF SavedInv

-----------------------------------------------------------------------------
\* A listing changes: the requests that list favourites take note.
LEMMA FavouritesDisturbed ==
  ASSUME SavedInv, NEW l \in Favourable, Disturb(l), saved' = saved, DOMAIN call' = Clients,
         \A c \in Clients : call'[c] = call[c] \/ (call'[c] = Idle /\ call[c].op = "favour"),
         \A k \in Favourable \ {l} : (k \in favourites' <=> k \in favourites) /\ (k \in shownToAll' <=> k \in shownToAll)
  PROVE  SavedInv' /\ FavouritesAreListed
<1>1. DOMAIN disturbed' = Clients
      /\ \A c \in Clients : call[c].op = "favourites" => disturbed'[c] = disturbed[c] \cup {l}
  BY DEF Disturb, SavedInv
<1>2. ASSUME NEW c \in Clients
      PROVE  FavouriteFrame(c, call[c])'
  <2>1. CASE call'[c] = Idle
    BY <2>1, IdleFavouriteFrame
  <2>2. CASE call'[c] = call[c] /\ call[c].op # "favourites"
    BY <2>2 DEF SavedInv, FavouriteFrame
  <2>3. CASE call'[c] = call[c] /\ call[c].op = "favourites"
    <3>1. Listed(c, call[c]) /\ disturbed'[c] = disturbed[c] \cup {l}
      BY <1>1, <2>3 DEF SavedInv, FavouriteFrame
    <3>2. Listed(c, call[c])'
      BY <2>3, <3>1 DEF Listed
    <3> QED
      BY <2>3, <3>2 DEF FavouriteFrame
  <2> QED
    BY <2>1, <2>2, <2>3
<1>3. saved' = NoSearch \/ (saved' \in Filters /\ SavedSearchesRun')
  BY DEF SavedInv, SavedSearchesRun, SearchRuns
<1>4. FavouritesAreListed
  BY DEF FavouritesAreListed, Idle
<1> QED
  BY <1>1, <1>2, <1>3, <1>4 DEF SavedInv

\* A request takes a step of its own.
LEMMA FavouritesRead ==
  ASSUME SavedInv, NEW c \in Clients, NEW frame, call' = [call EXCEPT ![c] = frame], frame # Idle,
         UNCHANGED savedVars, FavouriteFrame(c, frame)
  PROVE  SavedInv' /\ FavouritesAreListed
<1>1. UNCHANGED <<shownToAll, favourites, disturbed, saved>>
  BY DEF savedVars
<1>2. \A d \in Clients : FavouriteFrame(d, call'[d]) /\ call'[d] \in {call[d], frame}
  BY DEF SavedInv
<1>3. \A d \in Clients : FavouriteFrame(d, call[d])'
  BY <1>1, <1>2 DEF FavouriteFrame, Listed
<1>4. saved' = NoSearch \/ (saved' \in Filters /\ SavedSearchesRun')
  BY <1>1 DEF SavedInv, SavedSearchesRun, SearchRuns
<1>5. FavouritesAreListed
  BY <1>2 DEF FavouritesAreListed, Idle
<1> QED
  BY <1>1, <1>3, <1>4, <1>5 DEF SavedInv

LEMMA FavouritesStep ==
  ASSUME SavedInv, FavouritesNext
  PROVE  SavedInv' /\ FavouritesAreListed
<1>1. ASSUME NEW l \in Favourable, ListingTurns(l)
      PROVE  SavedInv' /\ FavouritesAreListed
  <2>1. Disturb(l) /\ UNCHANGED <<call, favourites, saved>> /\ DOMAIN call = Clients
        /\ \A k \in Favourable \ {l} : k \in shownToAll' <=> k \in shownToAll
    BY <1>1 DEF ListingTurns, SavedInv
  <2> QED
    BY <2>1, FavouritesDisturbed
<1>2. ASSUME NEW c \in Clients, NEW l \in Favourable, AddFavourite(c, l)
      PROVE  SavedInv' /\ FavouritesAreListed
  <2>1. FavouriteFrame(c, [op |-> "favour", id |-> l]) /\ [op |-> "favour", id |-> l] # Idle
    BY DEF FavouriteFrame, Idle
  <2> QED
    BY <1>2, <2>1, FavouritesRead DEF AddFavourite, Proceed
<1>3. ASSUME NEW c \in Clients, StoreFavourite(c)
      PROVE  SavedInv' /\ FavouritesAreListed
  <2>1. call[c].id \in Favourable /\ call[c].op = "favour" /\ call' = [call EXCEPT ![c] = Idle] /\ DOMAIN call = Clients
    BY <1>3 DEF StoreFavourite, Return, SavedInv, FavouriteFrame
  <2>2. PICK l \in Favourable : l = call[c].id
    BY <2>1
  <2>3. Disturb(l) /\ favourites' = favourites \cup {l} /\ UNCHANGED <<shownToAll, saved>>
    BY <1>3, <2>2 DEF StoreFavourite
  <2> QED
    BY <2>1, <2>3, FavouritesDisturbed
<1>4. ASSUME NEW c \in Clients, NEW l \in Favourable, RemoveFavourite(c, l)
      PROVE  SavedInv' /\ FavouritesAreListed
  BY <1>4, FavouritesDisturbed DEF RemoveFavourite, SavedInv
<1>5. ASSUME NEW c \in Clients, ListFavourites(c)
      PROVE  SavedInv' /\ FavouritesAreListed
  <2> DEFINE f == [op |-> "favourites", left |-> favourites, out |-> {}]
  <2>1. FavouriteFrame(c, f) /\ f # Idle
    BY DEF FavouriteFrame, Listed, Idle
  <2>2. call' = [call EXCEPT ![c] = f] /\ UNCHANGED savedVars
    BY <1>5 DEF ListFavourites, Proceed
  <2> HIDE DEF f
  <2> QED
    BY <2>1, <2>2, FavouritesRead
<1>6. ASSUME NEW c \in Clients, NEW l \in Favourable, VisitFavourite(c, l)
      PROVE  SavedInv' /\ FavouritesAreListed
  <2> DEFINE g == call[c]
             q == [g EXCEPT !.left = @ \ {l}]
             f == [q EXCEPT !.out = IF ListingIsPublic(l) THEN @ \cup {l} ELSE @]
  <2>1. g.op = "favourites" /\ l \in g.left /\ Listed(c, g) /\ UNCHANGED savedVars
    BY <1>6 DEF VisitFavourite, SavedInv, FavouriteFrame
  <2>2. call' = [call EXCEPT ![c] = f]
    BY <1>6 DEF VisitFavourite, Proceed
  <2>3. f.op = "favourites" /\ f.left = g.left \ {l} /\ f.out = IF l \in shownToAll THEN g.out \cup {l} ELSE g.out
    BY <2>1 DEF ListingIsPublic
  <2> HIDE DEF g, q, f
  <2>4. FavouriteFrame(c, f) /\ f # Idle
    BY <2>1, <2>3 DEF FavouriteFrame, Listed, Idle
  <2> QED
    BY <2>1, <2>2, <2>4, FavouritesRead
<1>7. ASSUME NEW c \in Clients, FavouritesListed(c)
      PROVE  SavedInv' /\ FavouritesAreListed
  <2>1. /\ call' = [call EXCEPT ![c] = Idle] /\ disturbed' = [disturbed EXCEPT ![c] = {}]
        /\ UNCHANGED <<shownToAll, favourites, saved>> /\ DOMAIN call = Clients /\ DOMAIN disturbed = Clients
    BY <1>7 DEF FavouritesListed, Return, SavedInv
  <2> QED
    BY <2>1, SavedEnd
<1> QED
  BY <1>1, <1>2, <1>3, <1>4, <1>5, <1>6, <1>7 DEF FavouritesNext

\* What may be saved is what runs, but for a blank currency.
LEMMA AcceptedRuns ==
  ASSUME NEW f \in Filters, ~ParseCreateRefuses(f), FiltersAccepted(ParseCreate(f))
  PROVE  ParseCreate(f) \in Filters /\ (SearchRuns(ParseCreate(f)) \/ ParseCreate(f).currency = "blank")
<1>1. CASE f.category = "blank"
  <2> DEFINE g == [f EXCEPT !.category = "absent"]
  <2>1. ParseCreate(f) = g
    BY <1>1 DEF ParseCreate
  <2>2. g \in Filters /\ g.category = "absent"
    BY DEF Filters
  <2> HIDE DEF g
  <2> QED
    BY <2>1, <2>2 DEF FiltersAccepted, SearchRuns, Filters
<1>2. CASE f.category # "blank"
  <2>1. ParseCreate(f) = f
    BY <1>2 DEF ParseCreate
  <2> QED
    BY <1>2, <2>1 DEF FiltersAccepted, ParseCreateRefuses, SearchRuns, Filters
<1> QED
  BY <1>1, <1>2

LEMMA SearchesStep ==
  ASSUME SavedInv, SearchesNext
  PROVE  SavedInv' /\ FavouritesAreListed
<1>1. UNCHANGED <<call, shownToAll, favourites, disturbed>>
  BY DEF SearchesNext, DeleteSearch, SaveSearch
<1>2. \A c \in Clients : FavouriteFrame(c, call[c])'
  BY <1>1 DEF SavedInv, FavouriteFrame, Listed
<1>3. saved' = NoSearch \/ (saved' \in Filters /\ SavedSearchesRun')
  <2>1. CASE saved' = NoSearch
    BY <2>1
  <2>2. ASSUME NEW c \in Clients, NEW f \in Filters, SaveSearch(c, f)
        PROVE  saved' \in Filters /\ SavedSearchesRun'
    BY <2>2, AcceptedRuns DEF SaveSearch, SavedSearchesRun, SearchRuns
  <2> QED
    BY <2>1, <2>2 DEF SearchesNext, DeleteSearch
<1>4. FavouritesAreListed
  BY <1>1 DEF FavouritesAreListed, Idle
<1> QED
  BY <1>1, <1>2, <1>3, <1>4 DEF SavedInv

LEMMA SavedTold == SavedInv => SavedSearchesRun
  BY DEF SavedInv, SavedSearchesRun

-----------------------------------------------------------------------------
(* Public profiles *)

ProfileRow == [id : Nat, name : DisplayNames \cup {"unset"}, state : ModerationStates, ver : Nat]

\* A request that goes on after ensureRow found or made the row.
EnsuredOps == {"me", "resolve", "rename"}
EnsuredFrame == [op : EnsuredOps \cup {"insert"}, wish : Wishes, tries : Int]

ProfileFrame(f) ==
  /\ f.op \in EnsuredOps \cup {"idle", "insert", "view", "moderate"}
  /\ f.op \in EnsuredOps \cup {"insert"} => f \in EnsuredFrame
  /\ f.op \in EnsuredOps \cup {"view", "moderate"} => profile.id # 0
  /\ f.op = "rename" => f.wish.op = "rename"
  /\ f.op = "view" => f.seen.id = profile.id
  /\ f.op = "moderate" =>
       /\ f.from \in ProfileRow /\ f.to \in ModerationStates
       /\ f.from.ver <= profile.ver
       /\ f.from.ver = profile.ver => f.from = profile

ProfilesInv ==
  /\ DOMAIN call = Clients
  /\ profile \in ProfileRow
  /\ publicIds \in Nat
  /\ profile = NoProfile \/ profile.id # 0
  /\ ProfileStory
  /\ \A c \in Clients : ProfileFrame(call[c])

LEMMA IdleProfileFrame == ProfileFrame(Idle) /\ ProfileFrame(Idle)'
  BY DEF ProfileFrame, Idle, EnsuredOps

LEMMA ProfilesStart ==
  ASSUME ProfilesInit, call = [c \in Clients |-> Idle]
  PROVE  ProfilesInv
<1>1. NoProfile \in ProfileRow /\ NoProfile.state = "none"
  BY DEF NoProfile, ProfileRow, ModerationStates
<1> QED
  BY <1>1, IdleProfileFrame DEF ProfilesInit, ProfilesInv, ProfileStory

LEMMA ProfilesEnd ==
  ASSUME ProfilesInv, UNCHANGED profileVars, DOMAIN call' = Clients,
         \A c \in Clients : call'[c] \in {call[c], Idle}
  PROVE  ProfilesInv'
<1>1. UNCHANGED <<accountOpen, profile, publicIds, handedOut, ruled>>
  BY DEF profileVars
<1>2. \A c \in Clients : ProfileFrame(call'[c])
  BY IdleProfileFrame DEF ProfilesInv
<1>3. \A c \in Clients : ProfileFrame(call[c])'
  BY <1>1, <1>2 DEF ProfileFrame
<1> QED
  BY <1>1, <1>3 DEF ProfilesInv, ProfileStory

-----------------------------------------------------------------------------
\* The row is as it was, or a later version under the id it has.
LaterProfile(old, new) ==
  new = old \/ (new.ver > old.ver /\ (old.id # 0 => new.id = old.id))

LEMMA ProfileAdvances ==
  ASSUME ProfilesInv, NEW c \in Clients, NEW frame, call' = [call EXCEPT ![c] = frame], ProfileFrame(frame)',
         profile' \in ProfileRow, profile' = NoProfile \/ profile'.id # 0,
         LaterProfile(profile, profile'), publicIds' \in Nat, ProfileStory'
  PROVE  ProfilesInv'
<1>1. \A d \in Clients \ {c} : call'[d] = call[d] /\ ProfileFrame(call[d])
  BY DEF ProfilesInv
<1>2. \A d \in Clients \ {c} : ProfileFrame(call[d])'
  BY <1>1 DEF ProfileFrame, LaterProfile, ProfilesInv, ProfileRow
<1> QED
  BY <1>2 DEF ProfilesInv

LEMMA ProfileReads ==
  ASSUME ProfilesInv, NEW c \in Clients, NEW frame, call' = [call EXCEPT ![c] = frame], ProfileFrame(frame),
         profile' = profile, publicIds' \in Nat, ProfileStory'
  PROVE  ProfilesInv'
<1>1. ProfileFrame(frame)'
  BY DEF ProfileFrame
<1>2. LaterProfile(profile, profile')
  BY DEF LaterProfile
<1> QED
  BY <1>1, <1>2, ProfileAdvances DEF ProfilesInv

LEMMA WishesAsk == \A w \in Wishes : w.op \in EnsuredOps
  BY DEF Wishes, EnsuredOps

LEMMA ProfileReadStep ==
  ASSUME ProfilesInv, NEW c \in Clients,
         \/ AnswerMe(c) \/ TakeView(c) \/ ShowView(c)
         \/ \E w \in Wishes : EnsureEligible(c, w)
         \/ \E s \in ModerationStates : ModerateProfile(c, s)
  PROVE  ProfilesInv'
<1>1. CASE AnswerMe(c)
  <2>1. profile.id # 0 /\ call' = [call EXCEPT ![c] = Idle] /\ UNCHANGED <<profile, publicIds, ruled>>
    BY <1>1 DEF AnswerMe, Return, ProfilesInv, ProfileFrame, EnsuredOps
  <2>2. ProfileStory'
    BY <1>1, <2>1 DEF AnswerMe, ProfilesInv, ProfileStory
  <2> QED
    BY <2>1, <2>2, ProfileReads, IdleProfileFrame DEF ProfilesInv
<1>2. CASE TakeView(c)
  <2>1. UNCHANGED <<profile, publicIds, handedOut, ruled>> /\ profile.id # 0
        /\ call' = [call EXCEPT ![c] = [op |-> "view", seen |-> profile]]
    BY <1>2 DEF TakeView, Proceed, profileVars, ProfilesInv, ProfileFrame, EnsuredOps
  <2>2. ProfileFrame([op |-> "view", seen |-> profile])
    BY <2>1 DEF ProfileFrame, EnsuredOps
  <2> QED
    BY <2>1, <2>2, ProfileReads DEF ProfilesInv, ProfileStory
<1>3. CASE ShowView(c)
  <2>1. /\ profile.id # 0 /\ call[c].seen.id = profile.id
        /\ call' = [call EXCEPT ![c] = Idle] /\ UNCHANGED <<profile, publicIds, ruled>>
    BY <1>3 DEF ShowView, Return, ProfilesInv, ProfileFrame
  <2>2. ProfileStory'
    BY <1>3, <2>1 DEF ShowView, ProfilesInv, ProfileStory
  <2> QED
    BY <2>1, <2>2, ProfileReads, IdleProfileFrame DEF ProfilesInv
<1>4. ASSUME NEW w \in Wishes, EnsureEligible(c, w)
      PROVE  ProfilesInv'
  <2> DEFINE f == [op |-> IF profile = NoProfile THEN "insert" ELSE w.op, wish |-> w, tries |-> 0]
  <2>1. UNCHANGED <<profile, publicIds, handedOut, ruled>> /\ call' = [call EXCEPT ![c] = f]
    BY <1>4 DEF EnsureEligible, Proceed, profileVars
  <2>2. f \in EnsuredFrame /\ f.op # "view" /\ f.op # "moderate"
    BY WishesAsk DEF EnsuredFrame, EnsuredOps
  <2>3. f.op # "insert" => profile.id # 0 /\ f.op = f.wish.op
    BY DEF ProfilesInv
  <2> HIDE DEF f
  <2>4. ProfileFrame(f)
    BY <2>2, <2>3 DEF ProfileFrame, EnsuredFrame, EnsuredOps
  <2> QED
    BY <2>1, <2>4, ProfileReads DEF ProfilesInv, ProfileStory
<1>5. ASSUME NEW s \in ModerationStates, ModerateProfile(c, s)
      PROVE  ProfilesInv'
  <2> DEFINE f == [op |-> "moderate", from |-> profile, to |-> s]
  <2>1. UNCHANGED <<profile, publicIds, handedOut, ruled>> /\ call' = [call EXCEPT ![c] = f]
    BY <1>5 DEF ModerateProfile, Proceed, profileVars
  <2>2. ProfileFrame(f)
    BY <1>5 DEF ModerateProfile, ProfileFrame, EnsuredOps, ProfilesInv, ProfileRow
  <2> HIDE DEF f
  <2> QED
    BY <2>1, <2>2, ProfileReads DEF ProfilesInv, ProfileStory
<1> QED
  BY <1>1, <1>2, <1>3, <1>4, <1>5

\* An insert finds no row, or leaves the one there is.
LEMMA StoredRow ==
  ASSUME ProfilesInv, NEW id \in Nat \ {0}
  PROVE  /\ Stored(id) \in ProfileRow /\ Stored(id).id # 0
         /\ LaterProfile(profile, Stored(id))
         /\ Stored(id).state = profile.state
         /\ handedOut \subseteq {Stored(id).id} \ {0}
<1>1. CASE profile = NoProfile
  <2> DEFINE q == [NoProfile EXCEPT !.id = id]
  <2>1. q = [id |-> id, name |-> "unset", state |-> "none", ver |-> 0]
    BY DEF NoProfile
  <2>2. Stored(id) = [id |-> id, name |-> "unset", state |-> "none", ver |-> 1]
    <3>1. Stored(id) = [q EXCEPT !.ver = 1]
      BY <1>1 DEF Stored, NoProfile
    <3> HIDE DEF q
    <3> QED
      BY <2>1, <3>1
  <2> HIDE DEF q
  <2>3. profile.id = 0 /\ profile.ver = 0 /\ profile.state = "none"
    BY <1>1 DEF NoProfile
  <2> QED
    BY <2>2, <2>3 DEF LaterProfile, ProfileRow, ModerationStates, ProfilesInv, ProfileStory
<1>2. CASE profile # NoProfile
  BY <1>2 DEF Stored, LaterProfile, ProfilesInv, ProfileStory
<1> QED
  BY <1>1, <1>2

LEMMA InsertProfileStep ==
  ASSUME ProfilesInv, NEW c \in Clients, InsertProfile(c)
  PROVE  ProfilesInv'
<1> DEFINE f == call[c]
           g == [f EXCEPT !.op = f.wish.op]
           h == [f EXCEPT !.tries = @ + 1]
<1>1. /\ f \in EnsuredFrame /\ f.op = "insert"
      /\ publicIds' = publicIds + 1 /\ publicIds' \in Nat \ {0}
      /\ UNCHANGED <<handedOut, ruled>>
  BY DEF InsertProfile, ProfilesInv, ProfileFrame
<1>2. PICK id \in Nat \ {0} : id = publicIds'
  BY <1>1
<1>3. /\ Stored(id) \in ProfileRow /\ Stored(id).id # 0 /\ LaterProfile(profile, Stored(id))
      /\ Stored(id).state = profile.state /\ handedOut \subseteq {Stored(id).id} \ {0}
  BY StoredRow
<1>4. /\ g \in EnsuredFrame /\ g.op = g.wish.op /\ g.op \in EnsuredOps
      /\ h \in EnsuredFrame /\ h.op = "insert"
  BY <1>1, WishesAsk DEF EnsuredFrame
<1>5. \/ profile' = Stored(id) /\ call' = [call EXCEPT ![c] = g]
      \/ profile' \in {profile, Stored(id)} /\ (call' = [call EXCEPT ![c] = h] \/ call' = [call EXCEPT ![c] = Idle])
  BY <1>2 DEF InsertProfile, Proceed, Return
<1> HIDE DEF f, g, h
<1>6. CASE profile' = Stored(id)
  <2>1. PICK frame \in {g, h, Idle} : call' = [call EXCEPT ![c] = frame]
    BY <1>5
  <2>2. ProfileFrame(frame)'
    <3>1. CASE frame = g
      BY <1>3, <1>4, <1>6, <3>1 DEF ProfileFrame, EnsuredOps
    <3>2. CASE frame = h
      BY <1>4, <3>2 DEF ProfileFrame, EnsuredOps
    <3> QED
      BY <2>1, <3>1, <3>2, IdleProfileFrame
  <2>3. ProfileStory'
    BY <1>1, <1>3, <1>6 DEF ProfileStory, ProfilesInv
  <2> QED
    BY <1>1, <1>3, <1>6, <2>1, <2>2, <2>3, ProfileAdvances
<1>7. CASE profile' = profile /\ (call' = [call EXCEPT ![c] = h] \/ call' = [call EXCEPT ![c] = Idle])
  <2>1. ProfileFrame(h)
    BY <1>4 DEF ProfileFrame, EnsuredOps
  <2>2. ProfileStory'
    BY <1>1, <1>7 DEF ProfileStory, ProfilesInv
  <2> QED
    BY <1>1, <1>7, <2>1, <2>2, ProfileReads, IdleProfileFrame
<1> QED
  BY <1>5, <1>6, <1>7

LEMMA RenameProfileStep ==
  ASSUME ProfilesInv, NEW c \in Clients, UpdateDisplayName(c)
  PROVE  ProfilesInv'
<1> DEFINE f == call[c]
           g == [f EXCEPT !.op = "me"]
           q == [profile EXCEPT !.name = f.wish.name]
           p == [q EXCEPT !.ver = @ + 1]
<1>1. /\ f \in EnsuredFrame /\ f.wish.op = "rename" /\ profile.id # 0 /\ profile \in ProfileRow
      /\ UNCHANGED <<publicIds, handedOut, ruled>> /\ call' = [call EXCEPT ![c] = g]
  BY DEF UpdateDisplayName, ProfilesInv, ProfileFrame, EnsuredOps, Proceed
<1>2. profile' = p
  BY DEF UpdateDisplayName
<1>3. g \in EnsuredFrame /\ g.op = "me"
  BY <1>1 DEF EnsuredFrame, EnsuredOps
<1>4. f.wish.name \in DisplayNames
  BY <1>1 DEF EnsuredFrame, Wishes
<1> HIDE DEF f, g
<1>5. q \in ProfileRow /\ q.id = profile.id /\ q.state = profile.state /\ q.ver = profile.ver
  BY <1>1, <1>4 DEF ProfileRow
<1> HIDE DEF q
<1>6. p \in ProfileRow /\ p.id = profile.id /\ p.state = profile.state /\ p.ver = profile.ver + 1
  BY <1>5 DEF ProfileRow
<1> HIDE DEF p
<1>7. LaterProfile(profile, profile') /\ profile' \in ProfileRow /\ profile'.id # 0
  BY <1>1, <1>2, <1>6 DEF LaterProfile, ProfileRow
<1>8. ProfileStory'
  BY <1>1, <1>2, <1>6 DEF ProfileStory, ProfilesInv
<1>9. PICK frame : frame = g
  OBVIOUS
<1>10. ProfileFrame(frame)'
  BY <1>3, <1>7, <1>9 DEF ProfileFrame, EnsuredOps
<1> QED
  BY <1>1, <1>7, <1>8, <1>9, <1>10, ProfileAdvances DEF ProfilesInv

LEMMA ModerationStep ==
  ASSUME ProfilesInv, NEW c \in Clients, UpdateModeration(c)
  PROVE  ProfilesInv'
<1> DEFINE f == call[c]
           q == [profile EXCEPT !.state = f.to]
           p == [q EXCEPT !.ver = @ + 1]
<1>1. /\ f.from \in ProfileRow /\ f.to \in ModerationStates /\ profile \in ProfileRow /\ profile.id # 0
      /\ UNCHANGED <<publicIds, handedOut>> /\ call' = [call EXCEPT ![c] = Idle]
  BY DEF UpdateModeration, ProfilesInv, ProfileFrame, Return, EnsuredOps
<1>2. CASE Fresh(profile, f.from.ver)
  <2>1. profile' = p /\ ruled' = f.to
    BY <1>2 DEF UpdateModeration, Moderated
  <2> HIDE DEF f
  <2>2. q \in ProfileRow /\ q.id = profile.id /\ q.state = f.to /\ q.ver = profile.ver
    BY <1>1 DEF ProfileRow
  <2> HIDE DEF q
  <2>3. p \in ProfileRow /\ p.id = profile.id /\ p.state = f.to /\ p.ver = profile.ver + 1
    BY <2>2 DEF ProfileRow
  <2> HIDE DEF p
  <2>4. LaterProfile(profile, profile') /\ profile' \in ProfileRow
    BY <1>1, <2>1, <2>3 DEF LaterProfile, ProfileRow
  <2>5. ProfileStory'
    BY <1>1, <2>1, <2>3 DEF ProfileStory, ProfilesInv
  <2>6. profile'.id # 0
    BY <1>1, <2>1, <2>3
  <2> QED
    BY <1>1, <2>4, <2>5, <2>6, ProfileAdvances, IdleProfileFrame DEF ProfilesInv
<1>3. CASE ~Fresh(profile, f.from.ver)
  <2>1. UNCHANGED <<profile, ruled>>
    BY <1>3 DEF UpdateModeration
  <2> QED
    BY <1>1, <2>1, ProfileReads, IdleProfileFrame DEF ProfilesInv, ProfileStory
<1> QED
  BY <1>2, <1>3

LEMMA ProfilesStep ==
  ASSUME ProfilesInv, ProfilesNext
  PROVE  ProfilesInv'
<1>1. CASE AccountCloses
  <2>1. UNCHANGED <<call, profile, publicIds, handedOut, ruled>>
    BY <1>1 DEF AccountCloses
  <2>2. \A c \in Clients : ProfileFrame(call[c])'
    BY <2>1 DEF ProfilesInv, ProfileFrame
  <2> QED
    BY <2>1, <2>2 DEF ProfilesInv, ProfileStory
<1> QED
  BY <1>1, ProfileReadStep, InsertProfileStep, RenameProfileStep, ModerationStep DEF ProfilesNext

-----------------------------------------------------------------------------
(* Notification settings, devices and the inbox *)

EndpointRow == [user : Owners, active : BOOLEAN]

\* What a patch has stored is in force, unless another patch wrote it since.
Patched(c, f) ==
  /\ DOMAIN f.patch \subseteq SettingKeys
  /\ \A k \in (DOMAIN f.patch \ f.left) \ overlaid[c] : settings[k] = f.patch[k]

PreferenceFrame(c, f) ==
  /\ f.op \in {"idle", "patch", "insert-endpoint", "refresh", "read"}
  /\ f.op = "patch" => Patched(c, f)
  /\ f.op = "insert-endpoint" => f.user \in Owners

OneActive == \A m, n \in DOMAIN endpoints : endpoints[m].active /\ endpoints[n].active => m = n

PreferencesInv ==
  /\ DOMAIN call = Clients /\ DOMAIN overlaid = Clients /\ DOMAIN settings = SettingKeys
  /\ endpoints \in Seq(EndpointRow)
  /\ OneActive
  /\ \A c \in Clients : PreferenceFrame(c, call[c])

LEMMA IdlePreferenceFrame == \A c : PreferenceFrame(c, Idle) /\ PreferenceFrame(c, Idle)'
  BY DEF PreferenceFrame, Idle

LEMMA PreferencesStart ==
  ASSUME PreferencesInit, call = [c \in Clients |-> Idle]
  PROVE  PreferencesInv
<1>1. endpoints = <<>> /\ DOMAIN endpoints = {} /\ endpoints \in Seq(EndpointRow)
  BY DEF PreferencesInit
<1> QED
  BY <1>1, IdlePreferenceFrame DEF PreferencesInit, PreferencesInv, OneActive

LEMMA PreferencesEnd ==
  ASSUME PreferencesInv, UNCHANGED <<settings, consent, endpoints, readAt, now>>,
         DOMAIN call' = Clients, DOMAIN overlaid' = Clients,
         \A c \in Clients : call'[c] = Idle \/ (call'[c] = call[c] /\ overlaid'[c] = overlaid[c])
  PROVE  PreferencesInv' /\ PreferenceSteps
<1>1. \A c \in Clients : PreferenceFrame(c, call[c])'
  BY IdlePreferenceFrame DEF PreferencesInv, PreferenceFrame, Patched
<1>2. OneActive'
  BY DEF PreferencesInv, OneActive
<1>3. PreferenceSteps
  BY DEF PreferencesInv, PreferenceFrame, Patched, PreferenceSteps
<1> QED
  BY <1>1, <1>2, <1>3 DEF PreferencesInv

-----------------------------------------------------------------------------
\* A step that leaves settings and endpoints alone.
LEMMA PreferenceReads ==
  ASSUME PreferencesInv, NEW c \in Clients, NEW frame, call' = [call EXCEPT ![c] = frame], frame # Idle,
         UNCHANGED preferenceVars, PreferenceFrame(c, frame)
  PROVE  PreferencesInv' /\ PreferenceSteps
<1>1. UNCHANGED <<settings, overlaid, consent, endpoints, readAt, now>>
  BY DEF preferenceVars, settingVars
<1>2. \A d \in Clients : PreferenceFrame(d, call'[d]) /\ call'[d] \in {call[d], frame}
  BY DEF PreferencesInv
<1>3. \A d \in Clients : PreferenceFrame(d, call[d])'
  BY <1>1, <1>2 DEF PreferenceFrame, Patched
<1>4. PreferenceSteps
  BY <1>1, <1>2 DEF PreferenceSteps, Idle
<1> QED
  BY <1>1, <1>3, <1>4 DEF PreferencesInv, OneActive

\* A setting is stored: other patches take note.
LEMMA UpsertStep ==
  ASSUME PreferencesInv, NEW c \in Clients, NEW k \in SettingKeys, UpsertPreferenceSetting(c, k)
  PROVE  PreferencesInv' /\ PreferenceSteps
<1> DEFINE f == call[c]
           g == [f EXCEPT !.left = @ \ {k}]
<1>1. /\ f.op = "patch" /\ k \in f.left /\ Patched(c, f)
      /\ settings' = [settings EXCEPT ![k] = f.patch[k]]
      /\ overlaid' = [d \in Clients |-> IF d # c /\ call[d].op = "patch" THEN overlaid[d] \cup {k} ELSE overlaid[d]]
      /\ call' = [call EXCEPT ![c] = g]
      /\ UNCHANGED <<consent, endpoints, readAt, now>>
  BY DEF UpsertPreferenceSetting, Proceed, PreferencesInv, PreferenceFrame
<1>2. g.op = "patch" /\ g.left = f.left \ {k} /\ g.patch = f.patch
  BY <1>1
<1>3. DOMAIN settings = SettingKeys /\ settings'[k] = f.patch[k] /\ \A j \in SettingKeys \ {k} : settings'[j] = settings[j]
  BY <1>1 DEF PreferencesInv
<1>4. call'[c] = g /\ \A d \in Clients \ {c} : call'[d] = call[d]
  BY <1>1 DEF PreferencesInv
<1> HIDE DEF f, g
<1>5. PreferenceFrame(c, call[c])'
  <2>1. DOMAIN g.patch \subseteq SettingKeys
    BY <1>1, <1>2 DEF Patched
  <2>2. overlaid'[c] = overlaid[c]
    BY <1>1
  <2>3. \A j \in (DOMAIN g.patch \ g.left) \ overlaid'[c] : settings'[j] = g.patch[j]
    BY <1>1, <1>2, <1>3, <2>1, <2>2 DEF Patched
  <2> QED
    BY <1>2, <1>4, <2>1, <2>3 DEF PreferenceFrame, Patched
<1>6. ASSUME NEW d \in Clients \ {c}
      PROVE  PreferenceFrame(d, call[d])'
  <2>1. PreferenceFrame(d, call[d]) /\ call'[d] = call[d]
    BY <1>4 DEF PreferencesInv
  <2>2. CASE call[d].op = "patch"
    <3>1. overlaid'[d] = overlaid[d] \cup {k}
      BY <1>1, <2>2
    <3> QED
      BY <1>3, <2>1, <2>2, <3>1 DEF PreferenceFrame, Patched
  <2>3. CASE call[d].op # "patch"
    BY <2>1, <2>3 DEF PreferenceFrame
  <2> QED
    BY <2>2, <2>3
<1>7. PreferenceSteps
  BY <1>1, <1>2, <1>4 DEF PreferenceSteps, Idle
<1> QED
  BY <1>1, <1>3, <1>4, <1>5, <1>6, <1>7 DEF PreferencesInv, OneActive

LEMMA SettingsStep ==
  ASSUME PreferencesInv, SettingsNext
  PROVE  PreferencesInv' /\ PreferenceSteps
<1>1. ASSUME NEW c \in Clients, PatchDone(c) \/ PatchFails(c)
      PROVE  PreferencesInv' /\ PreferenceSteps
  <2>1. /\ call' = [call EXCEPT ![c] = Idle] /\ overlaid' = [overlaid EXCEPT ![c] = {}]
        /\ UNCHANGED <<settings, consent, endpoints, readAt, now>>
        /\ DOMAIN call = Clients /\ DOMAIN overlaid = Clients
    BY <1>1 DEF PatchDone, PatchFails, Return, PreferencesInv
  <2> QED
    BY <2>1, PreferencesEnd
<1>2. ASSUME NEW c \in Clients, NEW K \in SUBSET SettingKeys, NEW patch \in [K -> {"on", "off"}], PatchPreferences(c, patch)
      PROVE  PreferencesInv' /\ PreferenceSteps
  <2> DEFINE f == [op |-> "patch", patch |-> patch, left |-> DOMAIN patch]
  <2>1. PreferenceFrame(c, f) /\ f # Idle
    BY DEF PreferenceFrame, Patched, Idle
  <2>2. call' = [call EXCEPT ![c] = f] /\ UNCHANGED preferenceVars
    BY <1>2 DEF PatchPreferences, Proceed
  <2> HIDE DEF f
  <2> QED
    BY <2>1, <2>2, PreferenceReads
<1>3. ASSUME NEW c \in Clients, NEW d, RecordConsent(c, d)
      PROVE  PreferencesInv' /\ PreferenceSteps
  <2>1. UNCHANGED <<call, settings, overlaid, endpoints, readAt, now>>
    BY <1>3 DEF RecordConsent
  <2>2. \A e \in Clients : PreferenceFrame(e, call[e])'
    BY <2>1 DEF PreferencesInv, PreferenceFrame, Patched
  <2>3. PreferenceSteps
    BY <1>3, <2>1 DEF RecordConsent, PreferencesInv, PreferenceFrame, Patched, PreferenceSteps
  <2> QED
    BY <2>1, <2>2, <2>3 DEF PreferencesInv, OneActive
<1> QED
  BY <1>1, <1>2, <1>3, UpsertStep DEF SettingsNext

-----------------------------------------------------------------------------
\* The endpoints change, or only the inbox.
LEMMA EndpointsChange ==
  ASSUME PreferencesInv, NEW c \in Clients, NEW frame, PreferenceFrame(c, frame), frame.op # "patch", call[c].op # "patch",
         call' = [call EXCEPT ![c] = frame] \/ call' = call,
         UNCHANGED settingVars, endpoints' \in Seq(EndpointRow), OneActive',
         \A i \in InboxItems : readAt[i] # 0 => readAt'[i] = readAt[i]
  PROVE  PreferencesInv' /\ PreferenceSteps
<1>1. UNCHANGED <<settings, overlaid, consent>>
  BY DEF settingVars
<1>2. DOMAIN call' = Clients /\ call'[c] \in {call[c], frame} /\ \A d \in Clients \ {c} : call'[d] = call[d]
  BY DEF PreferencesInv
<1>3. \A d \in Clients : PreferenceFrame(d, call[d])'
  BY <1>1, <1>2 DEF PreferencesInv, PreferenceFrame, Patched
<1>4. PreferenceSteps
  BY <1>2 DEF PreferencesInv, PreferenceFrame, PreferenceSteps, Idle
<1> QED
  BY <1>1, <1>2, <1>3, <1>4 DEF PreferencesInv

LEMMA InsertEndpointStep ==
  ASSUME PreferencesInv, NEW c \in Clients, InsertEndpoint(c)
  PROVE  PreferencesInv' /\ PreferenceSteps
<1> DEFINE u == call[c].user
           n == Len(endpoints) + 1
           row == [user |-> u, active |-> TRUE]
<1>1. /\ call[c].op = "insert-endpoint" /\ u \in Owners /\ UNCHANGED settingVars /\ readAt' = readAt
      /\ endpoints \in Seq(EndpointRow) /\ OneActive
  BY DEF InsertEndpoint, PreferencesInv, PreferenceFrame
<1>2. CASE MayActivate(n)
  <2>1. endpoints' = Append(endpoints, row) /\ call' = [call EXCEPT ![c] = Idle]
    BY <1>2 DEF InsertEndpoint, Return
  <2>2. row \in EndpointRow /\ n \notin DOMAIN endpoints
    BY <1>1 DEF EndpointRow
  <2>3. \A m \in DOMAIN endpoints : ~endpoints[m].active
    BY <1>2, <2>2 DEF MayActivate, ActiveRow
  <2> HIDE DEF row
  <2>4. /\ endpoints' \in Seq(EndpointRow) /\ DOMAIN endpoints' = DOMAIN endpoints \cup {n}
        /\ \A m \in DOMAIN endpoints : endpoints'[m] = endpoints[m]
    BY <1>1, <2>1, <2>2, AppendProperties
  <2>5. OneActive'
    BY <2>3, <2>4 DEF OneActive
  <2> QED
    BY <1>1, <2>1, <2>4, <2>5, EndpointsChange, IdlePreferenceFrame DEF Idle
<1>3. CASE ~MayActivate(n)
  <2>1. endpoints' = endpoints /\ call' = [call EXCEPT ![c] = Idle] /\ Idle.op # "patch"
    BY <1>3 DEF InsertEndpoint, Return, Idle
  <2>2. OneActive'
    BY <1>1, <2>1 DEF OneActive
  <2> QED
    BY <1>1, <2>1, <2>2, EndpointsChange, IdlePreferenceFrame
<1> QED
  BY <1>2, <1>3

\* A row that may be made active is the only one then.
LEMMA RefreshStep ==
  ASSUME PreferencesInv, NEW c \in Clients, RefreshEndpoint(c)
  PROVE  PreferencesInv' /\ PreferenceSteps
<1> DEFINE n == call[c].id
<1>1. /\ call[c].op = "refresh" /\ UNCHANGED settingVars /\ readAt' = readAt /\ call' = [call EXCEPT ![c] = Idle]
      /\ endpoints \in Seq(EndpointRow) /\ OneActive
      /\ endpoints' = IF MayActivate(n) THEN [endpoints EXCEPT ![n].active = TRUE] ELSE endpoints
  BY DEF RefreshEndpoint, PreferencesInv, Return
<1> HIDE DEF n
<1>2. CASE MayActivate(n) /\ n \in DOMAIN endpoints
  <2>1. [endpoints[n] EXCEPT !.active = TRUE] \in EndpointRow
    <3>1. endpoints[n] \in EndpointRow
      BY <1>1, <1>2
    <3> QED
      BY <3>1 DEF EndpointRow
  <2>2. endpoints' = [endpoints EXCEPT ![n] = [endpoints[n] EXCEPT !.active = TRUE]]
    BY <1>1, <1>2
  <2>3. endpoints' \in Seq(EndpointRow) /\ DOMAIN endpoints' = DOMAIN endpoints
        /\ \A m \in DOMAIN endpoints \ {n} : endpoints'[m] = endpoints[m]
    BY <1>1, <1>2, <2>1, <2>2, ExceptSeq
  <2>4. \A m \in DOMAIN endpoints : endpoints[m].active => m = n
    BY <1>2 DEF MayActivate, ActiveRow
  <2>5. OneActive'
    BY <2>3, <2>4 DEF OneActive
  <2> QED
    BY <1>1, <2>3, <2>5, EndpointsChange, IdlePreferenceFrame DEF Idle
<1>3. CASE ~(MayActivate(n) /\ n \in DOMAIN endpoints)
  <2>1. endpoints' = endpoints
    <3>1. n \notin DOMAIN endpoints => [endpoints EXCEPT ![n].active = TRUE] = endpoints
      BY <1>1
    <3> QED
      BY <1>1, <1>3, <3>1
  <2>2. OneActive'
    BY <1>1, <2>1 DEF OneActive
  <2> QED
    BY <1>1, <2>1, <2>2, EndpointsChange, IdlePreferenceFrame DEF Idle
<1> QED
  BY <1>2, <1>3

LEMMA RevokeStep ==
  ASSUME PreferencesInv, NEW c \in Clients, NEW n, RevokeEndpoint(c, n)
  PROVE  PreferencesInv' /\ PreferenceSteps
<1>1. /\ UNCHANGED <<call, readAt>> /\ UNCHANGED settingVars /\ n \in DOMAIN endpoints
      /\ endpoints \in Seq(EndpointRow) /\ OneActive /\ call[c] = Idle
      /\ endpoints' = [endpoints EXCEPT ![n].active = FALSE]
  BY DEF RevokeEndpoint, PreferencesInv, ActiveRow
<1>2. [endpoints[n] EXCEPT !.active = FALSE] \in EndpointRow
  <2>1. endpoints[n] \in EndpointRow
    BY <1>1
  <2> QED
    BY <2>1 DEF EndpointRow
<1>3. endpoints' = [endpoints EXCEPT ![n] = [endpoints[n] EXCEPT !.active = FALSE]]
  BY <1>1
<1>4. /\ endpoints' \in Seq(EndpointRow) /\ DOMAIN endpoints' = DOMAIN endpoints
      /\ \A m \in DOMAIN endpoints \ {n} : endpoints'[m] = endpoints[m]
      /\ endpoints'[n].active = FALSE
  BY <1>1, <1>2, <1>3, ExceptSeq, ElementOfSeq DEF EndpointRow
<1>5. OneActive'
  BY <1>1, <1>4 DEF OneActive
<1>6. /\ PreferenceFrame(c, Idle) /\ Idle.op # "patch" /\ call[c].op # "patch"
      /\ call' = [call EXCEPT ![c] = Idle] \/ call' = call
      /\ \A i \in InboxItems : readAt[i] # 0 => readAt'[i] = readAt[i]
  BY <1>1, IdlePreferenceFrame DEF Idle
<1> QED
  BY <1>1, <1>4, <1>5, <1>6, EndpointsChange

LEMMA DevicesStep ==
  ASSUME PreferencesInv, DevicesNext
  PROVE  PreferencesInv' /\ PreferenceSteps
<1>1. CASE Clock
  <2>1. UNCHANGED <<call, endpoints, readAt, settings, overlaid, consent>>
    BY <1>1 DEF Clock, settingVars
  <2>2. \A c \in Clients : PreferenceFrame(c, call[c])'
    BY <2>1 DEF PreferencesInv, PreferenceFrame, Patched
  <2>3. PreferenceSteps
    BY <2>1 DEF PreferencesInv, PreferenceFrame, Patched, PreferenceSteps
  <2> QED
    BY <2>1, <2>2, <2>3 DEF PreferencesInv, OneActive
<1>2. ASSUME NEW c \in Clients, NEW u \in Owners, RegisterEndpoint(c, u)
      PROVE  PreferencesInv' /\ PreferenceSteps
  <2>1. /\ UNCHANGED preferenceVars
        /\ \E n : call' = [call EXCEPT ![c] = [op |-> "refresh", user |-> u, id |-> n]]
             \/ call' = [call EXCEPT ![c] = [op |-> "insert-endpoint", user |-> u]]
    BY <1>2 DEF RegisterEndpoint, Proceed
  <2>2. PICK n : call' = [call EXCEPT ![c] = [op |-> "refresh", user |-> u, id |-> n]]
             \/ call' = [call EXCEPT ![c] = [op |-> "insert-endpoint", user |-> u]]
    BY <2>1
  <2> DEFINE f == [op |-> "refresh", user |-> u, id |-> n]
             g == [op |-> "insert-endpoint", user |-> u]
  <2>3. PreferenceFrame(c, f) /\ PreferenceFrame(c, g) /\ f # Idle /\ g # Idle
    BY DEF PreferenceFrame, Idle
  <2> HIDE DEF f, g
  <2>4. call' = [call EXCEPT ![c] = f] \/ call' = [call EXCEPT ![c] = g]
    BY <2>2 DEF f, g
  <2> QED
    BY <2>1, <2>3, <2>4, PreferenceReads
<1>3. ASSUME NEW c \in Clients, NEW I, StartReading(c, I)
      PROVE  PreferencesInv' /\ PreferenceSteps
  <2> DEFINE f == [op |-> "read", items |-> I, at |-> now]
  <2>1. PreferenceFrame(c, f) /\ f # Idle
    BY DEF PreferenceFrame, Idle
  <2>2. call' = [call EXCEPT ![c] = f] /\ UNCHANGED preferenceVars
    BY <1>3 DEF StartReading, Proceed
  <2> HIDE DEF f
  <2> QED
    BY <2>1, <2>2, PreferenceReads
<1>4. ASSUME NEW c \in Clients, StoreReadAt(c)
      PROVE  PreferencesInv' /\ PreferenceSteps
  <2>1. /\ call[c].op = "read" /\ UNCHANGED settingVars /\ endpoints' = endpoints /\ call' = [call EXCEPT ![c] = Idle]
        /\ \A i \in InboxItems : readAt[i] # 0 => readAt'[i] = readAt[i]
    BY <1>4 DEF StoreReadAt, Return
  <2>2. endpoints' \in Seq(EndpointRow) /\ OneActive'
    BY <2>1 DEF PreferencesInv, OneActive
  <2> QED
    BY <2>1, <2>2, EndpointsChange, IdlePreferenceFrame DEF Idle
<1> QED
  BY <1>1, <1>2, <1>3, <1>4, InsertEndpointStep, RefreshStep, RevokeStep DEF DevicesNext

\* The rules of the catalogue hold whatever is set; a device is what is counted.
LEMMA RulesTold ==
  ASSUME OneActive
  PROVE  PreferenceStory
<1>1. ASSUME NEW e \in Events, NEW u \in Owners, NEW ch \in RequiredChannels(e)
      PROVE  Eligible(e, ch, u)
  <2>1. ch = "in_app" /\ (e = "login" \/ e = "offer")
    BY <1>1 DEF RequiredChannels
  <2>2. ch \in AllowedChannels(e)
    BY <2>1 DEF AllowedChannels
  <2> QED
    BY <1>1, <2>1, <2>2 DEF Eligible, Ready, ConsentRequired
<1>2. ASSUME NEW e \in Events, NEW u \in Owners, ConsentRequired(e), NEW ch \in Channels \ {"in_app"}, Eligible(e, ch, u)
      PROVE  consent = "granted"
  BY <1>2 DEF Eligible, Consented
<1>3. Cardinality({n \in DOMAIN endpoints : ActiveRow(n)}) <= 1
  <2> DEFINE S == {n \in DOMAIN endpoints : ActiveRow(n)}
  <2>1. \A m, n \in S : m = n
    BY DEF OneActive, ActiveRow
  <2> HIDE DEF S
  <2>2. Cardinality(S) <= 1
    BY <2>1, AtMostOne
  <2> QED
    BY <2>2 DEF S
<1> QED
  BY <1>1, <1>2, <1>3 DEF PreferenceStory

LEMMA PreferencesTold == PreferencesInv => PreferenceStory
  BY RulesTold DEF PreferencesInv

-----------------------------------------------------------------------------
(* Categories, schemas and forms *)

SchemaStatuses == {"none", "draft", "review", "approved", "published"}
CategoryRow == [status : SchemaStatuses, eids : Requirements]
FormParts == DOMAIN Prerequisites
EditFrame == [op : {"edit"}, version : Versions, part : FormParts, late : BOOLEAN]

SomePublished == \E v \in Versions : schema[v] = "published"
PastDraft(v) == schema[v] \in {"review", "approved", "published"}

\* What will be written to the category keeps a publication that was read.
CategoryChange(f) ==
  /\ f.read \in CategoryRow /\ f.next \in CategoryRow
  /\ f.read.status = "published" => f.next.status = "published"

\* An edit goes on with a draft, or is late; what will be published was valid
\* when the schema was no draft any more; a form is read of a published version.
MasterFrame(f) ==
  /\ f.op \in {"idle", "put_category", "insert_schema", "edit", "submit", "approve", "publish", "put_schema",
               "form_attributes", "form_options", "form"}
  /\ f.op = "put_category" => CategoryChange(f) /\ (f.next.status = "published" => SomePublished)
  /\ f.op \in {"insert_schema", "submit", "approve", "publish", "put_schema", "form_attributes", "form_options", "form"}
       => f.version \in Versions
  /\ f.op = "edit" =>
       /\ f \in EditFrame
       /\ schema[f.version] # "none" /\ (schema[f.version] = "draft" \/ f.late)
       /\ Prerequisites[f.part] \subseteq form[f.version]
  /\ f.op = "publish" => PastDraft(f.version)
  /\ f.op = "put_schema" =>
       /\ f.to \in {"review", "approved", "published"} /\ CategoryChange(f)
       /\ f.to = "published" =>
            /\ PastDraft(f.version) /\ f.next.status = "published"
            /\ ValidateSchemaForReview(form[f.version]) \/ f.version \in touched
  /\ f.op \in {"form_attributes", "form_options", "form"} => schema[f.version] = "published"
  /\ f.op = "form_options" => f.version \in touched \/ f.attributes = frozen[f.version] \cap {"enum", "text"}
  /\ f.op = "form" => f.version \in touched \/ f.parts = frozen[f.version]

FormsClosed == \A v \in Versions : \A p \in form[v] : Prerequisites[p] \subseteq form[v]

FormsFrozen ==
  \A v \in Versions :
    schema[v] = "published" /\ v \notin touched => form[v] = frozen[v] /\ ValidateSchemaForReview(form[v])

MasterDataInv ==
  /\ DOMAIN call = Clients
  /\ category \in CategoryRow
  /\ category.status = "published" => SomePublished
  /\ schema \in [Versions -> SchemaStatuses]
  /\ form \in [Versions -> SUBSET FormParts]
  /\ DOMAIN frozen = Versions
  /\ FormsClosed /\ FormsFrozen
  /\ \A c \in Clients : MasterFrame(call[c])

LEMMA IdleMasterFrame == MasterFrame(Idle) /\ MasterFrame(Idle)'
  BY DEF MasterFrame, Idle

LEMMA MasterDataStart ==
  ASSUME MasterDataInit, call = [c \in Clients |-> Idle]
  PROVE  MasterDataInv
BY IdleMasterFrame
DEF MasterDataInit, MasterDataInv, CategoryRow, SchemaStatuses, Requirements, FormsClosed, FormsFrozen

LEMMA MasterDataEnd ==
  ASSUME MasterDataInv, UNCHANGED masterVars, DOMAIN call' = Clients,
         \A c \in Clients : call'[c] \in {call[c], Idle}
  PROVE  MasterDataInv' /\ MasterDataSteps
<1>1. UNCHANGED <<category, labelled, schema, form, touched, frozen>>
  BY DEF masterVars
<1>2. \A c \in Clients : MasterFrame(call'[c])
  BY IdleMasterFrame DEF MasterDataInv
<1>3. \A c \in Clients : MasterFrame(call[c])'
  BY <1>1, <1>2 DEF MasterFrame, SomePublished, PastDraft, CategoryChange
<1>4. FormsClosed' /\ FormsFrozen' /\ SomePublished' = SomePublished
  BY <1>1 DEF MasterDataInv, FormsClosed, FormsFrozen, SomePublished
<1> QED
  BY <1>1, <1>3, <1>4 DEF MasterDataInv, MasterDataSteps

-----------------------------------------------------------------------------
\* A request reads, or ends.
LEMMA MasterReads ==
  ASSUME MasterDataInv, NEW c \in Clients, NEW frame, call' = [call EXCEPT ![c] = frame],
         UNCHANGED masterVars, MasterFrame(frame)
  PROVE  MasterDataInv' /\ MasterDataSteps
<1>1. UNCHANGED <<category, labelled, schema, form, touched, frozen>>
  BY DEF masterVars
<1>2. DOMAIN call' = Clients /\ \A d \in Clients : MasterFrame(call'[d])
  BY DEF MasterDataInv
<1>3. \A d \in Clients : MasterFrame(call[d])'
  BY <1>1, <1>2 DEF MasterFrame, SomePublished, PastDraft, CategoryChange
<1>4. FormsClosed' /\ FormsFrozen' /\ SomePublished' = SomePublished
  BY <1>1 DEF MasterDataInv, FormsClosed, FormsFrozen, SomePublished
<1> QED
  BY <1>1, <1>2, <1>3, <1>4 DEF MasterDataInv, MasterDataSteps

\* How versions, forms and marks move, but for the version that an edit reads.
MasterMoves ==
  /\ \A v \in Versions :
       /\ schema[v] # "none" => schema'[v] # "none"
       /\ PastDraft(v) => PastDraft(v)'
       /\ schema[v] = "published" => schema'[v] = "published" /\ frozen'[v] = frozen[v]
       /\ form[v] \subseteq form'[v]
       /\ form'[v] = form[v] \/ ~PastDraft(v) \/ v \in touched'
  /\ touched \subseteq touched'

LEMMA MasterFrameStays ==
  ASSUME MasterMoves, NEW f, MasterFrame(f),
         f.op = "edit" => schema'[f.version] = schema[f.version] \/ f.late
  PROVE  MasterFrame(f)'
<1>1. f.op = "put_category" => CategoryChange(f)' /\ (f.next.status = "published" => SomePublished')
  BY DEF MasterFrame, CategoryChange, SomePublished, MasterMoves
<1>2. f.op = "edit" =>
        /\ f \in EditFrame
        /\ schema'[f.version] # "none" /\ (schema'[f.version] = "draft" \/ f.late)
        /\ Prerequisites[f.part] \subseteq form'[f.version]
  BY DEF MasterFrame, MasterMoves, EditFrame
<1>3. f.op = "publish" => PastDraft(f.version)'
  BY DEF MasterFrame, MasterMoves, PastDraft
<1>4. f.op = "put_schema" =>
       /\ f.to \in {"review", "approved", "published"} /\ CategoryChange(f)'
       /\ f.to = "published" =>
            /\ PastDraft(f.version)' /\ f.next.status = "published"
            /\ ValidateSchemaForReview(form'[f.version]) \/ f.version \in touched'
  BY DEF MasterFrame, MasterMoves, CategoryChange, PastDraft
<1>5. f.op \in {"form_attributes", "form_options", "form"} =>
          schema'[f.version] = "published" /\ frozen'[f.version] = frozen[f.version]
  BY DEF MasterFrame, MasterMoves
<1> QED
  BY <1>1, <1>2, <1>3, <1>4, <1>5 DEF MasterFrame, MasterMoves

\* A request writes and ends, and the others keep what they have.
LEMMA MasterWrites ==
  ASSUME MasterDataInv, NEW c \in Clients, call' = [call EXCEPT ![c] = Idle], MasterMoves,
         \A v \in Versions : schema'[v] = schema[v] \/ schema[v] = "none"
  PROVE  DOMAIN call' = Clients /\ \A d \in Clients : MasterFrame(call[d])'
<1>1. DOMAIN call' = Clients /\ call'[c] = Idle
  BY DEF MasterDataInv
<1>2. ASSUME NEW d \in Clients
      PROVE  MasterFrame(call[d])'
  <2>1. CASE d = c
    BY <1>1, <2>1, IdleMasterFrame
  <2>2. CASE d # c
    <3>1. PICK f : f = call[d]
      OBVIOUS
    <3>2. call'[d] = f /\ MasterFrame(f)
      BY <2>2, <3>1 DEF MasterDataInv
    <3>3. f.op = "edit" => schema'[f.version] = schema[f.version] \/ f.late
      BY <3>2 DEF MasterFrame, EditFrame
    <3>4. MasterFrame(f)'
      BY <3>2, <3>3, MasterFrameStays
    <3> QED
      BY <3>2, <3>4
  <2> QED
    BY <2>1, <2>2
<1> QED
  BY <1>1, <1>2

-----------------------------------------------------------------------------
\* A change of the category is made of what is read.
LEMMA CategoryRead ==
  ASSUME MasterDataInv, NEW c \in Clients, NEW next \in CategoryRow, MutateCategory(c, next),
         category.status = "published" => next.status = "published",
         next.status = "published" => category.status = "published"
  PROVE  MasterDataInv' /\ MasterDataSteps
<1> DEFINE f == [op |-> "put_category", read |-> category, next |-> next]
<1>1. call' = [call EXCEPT ![c] = f] /\ UNCHANGED masterVars
  BY DEF MutateCategory, Proceed
<1>2. MasterFrame(f)
  BY DEF MasterFrame, CategoryChange, MasterDataInv
<1> HIDE DEF f
<1> QED
  BY <1>1, <1>2, MasterReads

LEMMA CategoryStep ==
  ASSUME MasterDataInv, NEW c \in Clients,
         \/ CreateCategory(c) \/ UpsertCategoryLabel(c) \/ UpdateCategory(c)
         \/ \E op \in {"submit", "approve"} : MoveCategory(c, op)
         \/ \E req \in Requirements : SetCategoryEIDSRequirement(c, req)
  PROVE  MasterDataInv' /\ MasterDataSteps
<1>1. CASE CreateCategory(c) \/ UpsertCategoryLabel(c)
  <2>1. UNCHANGED <<call, schema, form, touched, frozen>> /\ category' \in CategoryRow
        /\ (category' = category \/ (category.status = "none" /\ category'.status = "draft"))
    BY <1>1 DEF CreateCategory, UpsertCategoryLabel, MasterDataInv, CategoryRow, SchemaStatuses, Requirements
  <2>2. \A d \in Clients : MasterFrame(call[d])'
    BY <2>1 DEF MasterDataInv, MasterFrame, SomePublished, PastDraft, CategoryChange
  <2>3. FormsClosed' /\ FormsFrozen' /\ SomePublished' = SomePublished
    BY <2>1 DEF MasterDataInv, FormsClosed, FormsFrozen, SomePublished
  <2> QED
    BY <2>1, <2>2, <2>3 DEF MasterDataInv, MasterDataSteps
<1>2. CASE UpdateCategory(c)
  <2>1. /\ call[c].op = "put_category" /\ CategoryChange(call[c])
        /\ call[c].next.status = "published" => SomePublished
        /\ category' = call[c].next /\ call' = [call EXCEPT ![c] = Idle]
        /\ UNCHANGED <<labelled, schema, form, touched, frozen>>
    BY <1>2 DEF UpdateCategory, Return, MasterDataInv, MasterFrame
  <2>2. MasterMoves
    BY <2>1 DEF MasterMoves, PastDraft
  <2>3. DOMAIN call' = Clients /\ \A d \in Clients : MasterFrame(call[d])'
    BY <2>1, <2>2, MasterWrites
  <2>4. FormsClosed' /\ FormsFrozen' /\ SomePublished' = SomePublished
    BY <2>1 DEF MasterDataInv, FormsClosed, FormsFrozen, SomePublished
  <2>5. MasterDataInv'
    BY <2>1, <2>3, <2>4 DEF MasterDataInv, CategoryChange
  <2>6. MasterDataSteps
    BY <2>1 DEF MasterDataSteps, CategoryChange
  <2> QED
    BY <2>5, <2>6
<1>3. ASSUME NEW op \in {"submit", "approve"}, MoveCategory(c, op)
      PROVE  MasterDataInv' /\ MasterDataSteps
  <2> DEFINE next == [category EXCEPT !.status = CategoryMove(op).to]
  <2>1. /\ category.status # "published" /\ MutateCategory(c, next)
        /\ CategoryMove(op).to \in SchemaStatuses \ {"published"}
    BY <1>3 DEF MoveCategory, CategoryMove, SchemaStatuses
  <2>2. next \in CategoryRow /\ next.status # "published"
    BY <2>1 DEF MasterDataInv, CategoryRow
  <2> HIDE DEF next
  <2> QED
    BY <2>1, <2>2, CategoryRead
<1>4. ASSUME NEW req \in Requirements, SetCategoryEIDSRequirement(c, req)
      PROVE  MasterDataInv' /\ MasterDataSteps
  <2> DEFINE next == [category EXCEPT !.eids = req]
  <2>1. MutateCategory(c, next)
    BY <1>4 DEF SetCategoryEIDSRequirement
  <2>2. next \in CategoryRow /\ next.status = category.status
    BY <2>1 DEF MasterDataInv, CategoryRow
  <2> HIDE DEF next
  <2> QED
    BY <2>1, <2>2, CategoryRead
<1> QED
  BY <1>1, <1>2, <1>3, <1>4

LEMMA MasterReadStep ==
  ASSUME MasterDataInv, NEW c \in Clients,
         \/ CreateSchemaVersion(c) \/ ReviewSchema(c)
         \/ \E v \in Versions :
              \/ \E p \in DOMAIN Prerequisites : EditCheck(c, v, p)
              \/ \E op \in {"submit", "approve", "publish"} : MutateSchema(c, v, op)
              \/ \E given \in BOOLEAN : ResolvePublishedForm(c, v, given)
         \/ (call[c].op = "form" /\ Return(c) /\ UNCHANGED masterVars)
  PROVE  MasterDataInv' /\ MasterDataSteps
<1>1. CASE CreateSchemaVersion(c)
  <2> DEFINE f == [op |-> "insert_schema", version |-> MaxSchemaVersion + 1]
  <2>1. call' = [call EXCEPT ![c] = f] /\ UNCHANGED masterVars /\ MaxSchemaVersion + 1 \in Versions
    BY <1>1 DEF CreateSchemaVersion, Proceed
  <2>2. MasterFrame(f)
    BY <2>1 DEF MasterFrame
  <2> HIDE DEF f
  <2> QED
    BY <2>1, <2>2, MasterReads
<1>2. CASE ReviewSchema(c)
  <2> DEFINE g == call[c]
             next == [category EXCEPT !.status = "published"]
             f == [op |-> "put_schema", version |-> g.version, to |-> SchemaMove(g.op).to,
                   read |-> category, next |-> next]
  <2>1. /\ UNCHANGED masterVars /\ g.op \in {"submit", "approve", "publish"} /\ g.version \in Versions
        /\ g.op = "publish" => PastDraft(g.version)
    BY <1>2 DEF ReviewSchema, MasterDataInv, MasterFrame
  <2>2. \/ call' = [call EXCEPT ![c] = Idle]
        \/ call' = [call EXCEPT ![c] = f] /\ (g.op # "approve" => ValidateSchemaForReview(form[g.version]))
    BY <1>2 DEF ReviewSchema, Return, Proceed
  <2>3. next \in CategoryRow /\ next.status = "published"
    BY DEF MasterDataInv, CategoryRow, SchemaStatuses
  <2>4. /\ SchemaMove(g.op).to \in {"review", "approved", "published"}
        /\ SchemaMove(g.op).to = "published" => g.op = "publish"
    BY <2>1 DEF SchemaMove
  <2>5. ASSUME g.op # "approve" => ValidateSchemaForReview(form[g.version])
        PROVE  MasterFrame(f)
    <3> HIDE DEF g, next
    <3> QED
      BY <2>1, <2>3, <2>4, <2>5 DEF MasterFrame, CategoryChange, MasterDataInv
  <2> HIDE DEF f, g
  <2> QED
    BY <2>1, <2>2, <2>5, MasterReads, IdleMasterFrame
<1>3. ASSUME NEW v \in Versions, NEW p \in DOMAIN Prerequisites, EditCheck(c, v, p)
      PROVE  MasterDataInv' /\ MasterDataSteps
  <2> DEFINE f == [op |-> "edit", version |-> v, part |-> p, late |-> FALSE]
  <2>1. /\ call' = [call EXCEPT ![c] = f] /\ UNCHANGED masterVars
        /\ schema[v] = "draft" /\ Prerequisites[p] \subseteq form[v]
    BY <1>3 DEF EditCheck, Proceed, AssertDraft
  <2>2. f \in EditFrame
    BY DEF EditFrame, FormParts
  <2>3. MasterFrame(f)
    BY <2>1, <2>2 DEF MasterFrame
  <2> HIDE DEF f
  <2> QED
    BY <2>1, <2>3, MasterReads
<1>4. ASSUME NEW v \in Versions, NEW op \in {"submit", "approve", "publish"}, MutateSchema(c, v, op)
      PROVE  MasterDataInv' /\ MasterDataSteps
  <2> DEFINE f == [op |-> op, version |-> v]
  <2>1. call' = [call EXCEPT ![c] = f] /\ UNCHANGED masterVars /\ schema[v] \in SchemaMove(op).from
    BY <1>4 DEF MutateSchema, Proceed
  <2>2. op = "publish" => PastDraft(v)
    BY <2>1 DEF SchemaMove, PastDraft
  <2>3. MasterFrame(f)
    BY <2>2 DEF MasterFrame
  <2> HIDE DEF f
  <2> QED
    BY <2>1, <2>3, MasterReads
<1>5. ASSUME NEW v \in Versions, NEW given, ResolvePublishedForm(c, v, given)
      PROVE  MasterDataInv' /\ MasterDataSteps
  <2> DEFINE f == [op |-> "form_attributes", version |-> v]
  <2>1. call' = [call EXCEPT ![c] = f] /\ UNCHANGED masterVars /\ schema[v] = "published"
    BY <1>5 DEF ResolvePublishedForm, PublishedSchema, Proceed
  <2>2. MasterFrame(f)
    BY <2>1 DEF MasterFrame
  <2> HIDE DEF f
  <2> QED
    BY <2>1, <2>2, MasterReads
<1>6. CASE Return(c) /\ UNCHANGED masterVars
  BY <1>6, MasterReads, IdleMasterFrame DEF Return
<1> QED
  BY <1>1, <1>2, <1>3, <1>4, <1>5, <1>6

\* What is read of a published version that no late edit touched is its frozen form.
LEMMA FormReadStep ==
  ASSUME MasterDataInv, NEW c \in Clients, ListAttributes(c) \/ FormDefinition(c)
  PROVE  MasterDataInv' /\ MasterDataSteps
<1> DEFINE g == call[c]
           v == g.version
<1>1. v \in Versions /\ schema[v] = "published" /\ UNCHANGED masterVars
  BY DEF ListAttributes, FormDefinition, MasterDataInv, MasterFrame
<1>2. v \in touched \/ form[v] = frozen[v]
  BY <1>1 DEF MasterDataInv, FormsFrozen
<1>3. CASE ListAttributes(c)
  <2> DEFINE f == [op |-> "form_options", version |-> v, attributes |-> form[v] \cap {"enum", "text"}]
  <2>1. call' = [call EXCEPT ![c] = f]
    BY <1>3 DEF ListAttributes, Proceed
  <2>2. MasterFrame(f)
    BY <1>1, <1>2 DEF MasterFrame
  <2> HIDE DEF f
  <2> QED
    BY <1>1, <2>1, <2>2, MasterReads
<1>4. CASE FormDefinition(c)
  <2> DEFINE parts == g.attributes \cup {p \in form[v] : Prerequisites[p] # {} /\ "enum" \in g.attributes}
             f == [op |-> "form", version |-> v, parts |-> parts]
  <2>1. call' = [call EXCEPT ![c] = f]
    BY <1>4 DEF FormDefinition, Proceed
  <2>2. v \in touched \/ g.attributes = frozen[v] \cap {"enum", "text"}
    BY <1>4 DEF FormDefinition, MasterDataInv, MasterFrame
  <2> HIDE DEF g, v
  <2>3. v \in touched \/ parts = frozen[v]
    <3> SUFFICES ASSUME v \notin touched
                 PROVE  parts = frozen[v]
      OBVIOUS
    <3>1. form[v] = frozen[v] /\ g.attributes = form[v] \cap {"enum", "text"}
      BY <1>2, <2>2
    <3>2. \A p \in form[v] : p \in {"enum", "text", "option", "label", "option_label"} /\ Prerequisites[p] \subseteq form[v]
      BY <1>1 DEF MasterDataInv, FormsClosed, FormParts, Prerequisites
    <3>3. /\ Prerequisites["option"] = {"enum"} /\ Prerequisites["label"] = {"enum"}
          /\ Prerequisites["option_label"] = {"enum", "option"}
      BY DEF Prerequisites
    <3>4. \A p \in form[v] : p \in g.attributes \/ (Prerequisites[p] # {} /\ "enum" \in g.attributes)
      BY <3>1, <3>2, <3>3
    <3> QED
      BY <3>1, <3>4
  <2>4. MasterFrame(f)
    BY <1>1, <2>3 DEF MasterFrame
  <2> HIDE DEF f
  <2> QED
    BY <1>1, <2>1, <2>4, MasterReads
<1> QED
  BY <1>3, <1>4

-----------------------------------------------------------------------------
LEMMA CreateSchemaStep ==
  ASSUME MasterDataInv, NEW c \in Clients, CreateSchema(c)
  PROVE  MasterDataInv' /\ MasterDataSteps
<1> DEFINE v == call[c].version
<1>1. /\ v \in Versions /\ call' = [call EXCEPT ![c] = Idle]
      /\ UNCHANGED <<category, labelled, form, touched, frozen>>
      /\ schema' = IF schema[v] = "none" THEN [schema EXCEPT ![v] = "draft"] ELSE schema
  BY DEF CreateSchema, Return, MasterDataInv, MasterFrame
<1> HIDE DEF v
<1>2. /\ schema' \in [Versions -> SchemaStatuses]
      /\ \A w \in Versions : schema'[w] = schema[w] \/ (schema[w] = "none" /\ schema'[w] = "draft")
  BY <1>1 DEF MasterDataInv, SchemaStatuses
<1>3. MasterMoves
  BY <1>1, <1>2 DEF MasterMoves, PastDraft
<1>4. DOMAIN call' = Clients /\ \A d \in Clients : MasterFrame(call[d])'
  BY <1>1, <1>2, <1>3, MasterWrites
<1>5. FormsClosed' /\ FormsFrozen' /\ SomePublished' = SomePublished
  BY <1>1, <1>2 DEF MasterDataInv, FormsClosed, FormsFrozen, SomePublished
<1> QED
  BY <1>1, <1>2, <1>4, <1>5 DEF MasterDataInv, MasterDataSteps

LEMMA EditWriteStep ==
  ASSUME MasterDataInv, NEW c \in Clients, EditWrite(c)
  PROVE  MasterDataInv' /\ MasterDataSteps
<1> DEFINE f == call[c]
           v == f.version
<1>1. /\ f \in EditFrame /\ schema[v] # "none" /\ (schema[v] = "draft" \/ f.late)
      /\ Prerequisites[f.part] \subseteq form[v]
      /\ call' = [call EXCEPT ![c] = Idle]
      /\ UNCHANGED <<category, labelled, schema, frozen>>
      /\ form' = [form EXCEPT ![v] = @ \cup {f.part}]
      /\ touched' = IF f.late THEN touched \cup {v} ELSE touched
  BY DEF EditWrite, Return, MasterDataInv, MasterFrame
<1>2. v \in Versions /\ f.part \in FormParts
  BY <1>1 DEF EditFrame
<1> HIDE DEF f, v
<1>3. /\ form' \in [Versions -> SUBSET FormParts] /\ form'[v] = form[v] \cup {f.part}
      /\ \A w \in Versions \ {v} : form'[w] = form[w]
  BY <1>1, <1>2 DEF MasterDataInv
<1>4. MasterMoves
  BY <1>1, <1>3 DEF MasterMoves, PastDraft
<1>5. DOMAIN call' = Clients /\ \A d \in Clients : MasterFrame(call[d])'
  BY <1>1, <1>4, MasterWrites
<1>6. FormsClosed'
  BY <1>1, <1>3 DEF MasterDataInv, FormsClosed
<1>7. FormsFrozen' /\ SomePublished' = SomePublished
  BY <1>1, <1>3 DEF MasterDataInv, FormsFrozen, SomePublished
<1> QED
  BY <1>1, <1>3, <1>5, <1>6, <1>7 DEF MasterDataInv, MasterDataSteps

LEMMA UpdateSchemaStep ==
  ASSUME MasterDataInv, NEW c \in Clients, UpdateSchema(c)
  PROVE  MasterDataInv' /\ MasterDataSteps
<1> DEFINE f == call[c]
           v == f.version
           after == IF f.to = "published" THEN [op |-> "put_category", read |-> f.read, next |-> f.next] ELSE Idle
<1>1. /\ f.op = "put_schema" /\ v \in Versions
      /\ f.to \in {"review", "approved", "published"} /\ CategoryChange(f)
      /\ f.to = "published" =>
           /\ PastDraft(v) /\ f.next.status = "published"
           /\ ValidateSchemaForReview(form[v]) \/ v \in touched
      /\ UNCHANGED <<category, labelled, form, touched>>
  BY DEF UpdateSchema, MasterDataInv, MasterFrame
<1>2. CASE StillOpen(v)
  <2>1. /\ schema' = [schema EXCEPT ![v] = f.to]
        /\ frozen' = IF f.to = "published" THEN [frozen EXCEPT ![v] = form[v]] ELSE frozen
        /\ DOMAIN call' = Clients /\ call'[c] = after
        /\ \A d \in Clients \ {c} :
             call'[d] = IF call[d].op = "edit" /\ call[d].version = v THEN [call[d] EXCEPT !.late = TRUE] ELSE call[d]
        /\ schema[v] # "published"
    BY <1>2 DEF UpdateSchema, StillOpen
  <2> HIDE DEF f, v, after
  <2>2. /\ schema' \in [Versions -> SchemaStatuses] /\ schema'[v] = f.to
        /\ \A w \in Versions \ {v} : schema'[w] = schema[w]
    BY <1>1, <2>1 DEF MasterDataInv, SchemaStatuses
  <2>3. /\ DOMAIN frozen' = Versions /\ (f.to = "published" => frozen'[v] = form[v])
        /\ \A w \in Versions \ {v} : frozen'[w] = frozen[w]
    BY <1>1, <2>1 DEF MasterDataInv
  <2>4. MasterMoves
    BY <1>1, <2>1, <2>2, <2>3 DEF MasterMoves, PastDraft
  <2>5. MasterFrame(call[c])'
    <3>1. CASE f.to = "published"
      <4>1. after = [op |-> "put_category", read |-> f.read, next |-> f.next]
        BY <3>1 DEF after
      <4>2. SomePublished'
        BY <1>1, <2>2, <3>1 DEF SomePublished
      <4> QED
        BY <1>1, <2>1, <4>1, <4>2 DEF MasterFrame, CategoryChange
    <3>2. CASE f.to # "published"
      BY <2>1, <3>2, IdleMasterFrame DEF after
    <3> QED
      BY <3>1, <3>2
  <2>6. ASSUME NEW d \in Clients \ {c}
        PROVE  MasterFrame(call[d])'
    <3>1. PICK g : g = call[d]
      OBVIOUS
    <3>2. MasterFrame(g)
      BY <3>1 DEF MasterDataInv
    <3>3. CASE g.op = "edit" /\ g.version = v
      <4> DEFINE h == [g EXCEPT !.late = TRUE]
      <4>1. g \in EditFrame /\ schema[v] # "none" /\ Prerequisites[g.part] \subseteq form[v]
        BY <3>2, <3>3 DEF MasterFrame
      <4>2. h \in EditFrame /\ h.op = "edit" /\ h.version = v /\ h.part = g.part /\ h.late
        BY <3>3, <4>1 DEF EditFrame
      <4>3. call'[d] = h
        BY <2>1, <3>1, <3>3
      <4> HIDE DEF h
      <4>4. schema'[v] # "none" /\ form' = form
        BY <1>1, <2>2
      <4> QED
        BY <4>1, <4>2, <4>3, <4>4 DEF MasterFrame
    <3>4. CASE ~(g.op = "edit" /\ g.version = v)
      <4>1. call'[d] = g
        BY <2>1, <3>1, <3>4
      <4>2. g.op = "edit" => schema'[g.version] = schema[g.version]
        BY <2>2, <3>2, <3>4 DEF MasterFrame, EditFrame
      <4>3. MasterFrame(g)'
        BY <2>4, <3>2, <4>2, MasterFrameStays
      <4> QED
        BY <4>1, <4>3
    <3> QED
      BY <3>3, <3>4
  <2>7. FormsClosed' /\ (SomePublished => SomePublished')
    BY <1>1, <2>1, <2>2 DEF MasterDataInv, FormsClosed, SomePublished
  <2>8. FormsFrozen'
    BY <1>1, <2>2, <2>3 DEF MasterDataInv, FormsFrozen
  <2>9. MasterDataInv'
    BY <1>1, <2>1, <2>2, <2>3, <2>5, <2>6, <2>7, <2>8 DEF MasterDataInv
  <2>10. MasterDataSteps
    BY <1>1, <2>1, <2>2 DEF MasterDataSteps
  <2> QED
    BY <2>9, <2>10
<1>3. CASE ~StillOpen(v)
  <2>1. call' = [call EXCEPT ![c] = Idle] /\ UNCHANGED masterVars
    BY <1>1, <1>3 DEF UpdateSchema, Return, masterVars
  <2> QED
    BY <2>1, MasterReads, IdleMasterFrame
<1> QED
  BY <1>2, <1>3

LEMMA MasterDataStep ==
  ASSUME MasterDataInv, MasterDataNext
  PROVE  MasterDataInv' /\ MasterDataSteps
BY CategoryStep, MasterReadStep, FormReadStep, CreateSchemaStep, EditWriteStep, UpdateSchemaStep DEF MasterDataNext

LEMMA MasterDataTold == MasterDataInv => MasterDataStory
  BY DEF MasterDataInv, FormsFrozen, SomePublished, MasterFrame, MasterDataStory

-----------------------------------------------------------------------------
(* The limits on authentication *)

AuthChecks(op) == DOMAIN For(op) \cup {"verify", "replay", "resolve"}

LEMMA LimitsOfOperation ==
  ASSUME NEW op
  PROVE  /\ "ip" \in DOMAIN For(op)
         /\ DOMAIN For(op) \subseteq {"ip", "target", "account", "proof", "session"}
         /\ \A d \in DOMAIN For(op) : For(op)[d] \in DOMAIN BucketMax
<1>1. CASE op = "password_login"
  BY <1>1, AbuseAssumption DEF For
<1>2. CASE op = "passkey_login_finish"
  BY <1>2, AbuseAssumption DEF For
<1>3. CASE op \in {"signup_finish", "reset_verify"}
  BY <1>3, AbuseAssumption DEF For
<1>4. CASE op \in {"signup_complete", "reset_complete"}
  BY <1>4, AbuseAssumption DEF For
<1>5. CASE op \in Sensitive
  BY <1>5, AbuseAssumption DEF For, Sensitive
<1>6. CASE op = "password_reauth"
  BY <1>6, AbuseAssumption DEF For, Sensitive
<1>7. CASE op \notin {"password_login", "passkey_login_finish", "signup_finish", "reset_verify", "signup_complete",
                      "reset_complete", "password_reauth"} \cup Sensitive
  BY <1>7, AbuseAssumption DEF For
<1> QED
  BY <1>1, <1>2, <1>3, <1>4, <1>5, <1>6, <1>7

LEMMA MaximumIsPositive ==
  ASSUME NEW check \in DOMAIN For(operation) \cup {"replay"}
  PROVE  MaxOf(check) \in Nat \ {0}
BY LimitsOfOperation, AbuseAssumption DEF MaxOf

LEMMA EvaluateIsASequence ==
  ASSUME NEW op, NEW phase
  PROVE  /\ Evaluate(op, phase) \in Seq(AuthChecks(op))
         /\ "ip" \in phase => Len(Evaluate(op, phase)) > 0
<1> DEFINE S == AuthChecks(op)
           c1 == Counted(op, phase, "ip")
           c2 == Counted(op, phase, "target")
           c3 == Counted(op, phase, "account")
           c4 == Counted(op, phase, "proof")
           c5 == Counted(op, phase, "session")
           c6 == Challenge(op, phase)
<1>1. ASSUME NEW d
      PROVE  Counted(op, phase, d) \in Seq(S)
  <2>1. CASE d \in phase \cap DOMAIN For(op)
    <3>1. Counted(op, phase, d) = <<d>> /\ d \in S
      BY <2>1 DEF Counted, AuthChecks
    <3> HIDE DEF S
    <3> QED
      BY <3>1
  <2>2. CASE d \notin phase \cap DOMAIN For(op)
    <3>1. Counted(op, phase, d) = <<>>
      BY <2>2 DEF Counted
    <3> HIDE DEF S
    <3> QED
      BY <3>1
  <2> QED
    BY <2>1, <2>2
<1>2. c1 \in Seq(S) /\ c2 \in Seq(S) /\ c3 \in Seq(S) /\ c4 \in Seq(S) /\ c5 \in Seq(S)
  BY <1>1
<1>3. c6 \in Seq(S)
  <2>1. (c6 = <<>> \/ c6 = <<"verify", "replay">>) /\ "verify" \in S /\ "replay" \in S
    BY DEF Challenge, AuthChecks
  <2> HIDE DEF S, c6
  <2>2. <<>> \in Seq(S) /\ <<"verify", "replay">> \in Seq(S)
    BY <2>1
  <2> QED
    BY <2>1, <2>2
<1>4. "ip" \in phase => Len(c1) = 1
  BY LimitsOfOperation DEF Counted
<1>5. Evaluate(op, phase) = ((((c1 \o c2) \o c3) \o c4) \o c5) \o c6
  BY DEF Evaluate
<1> HIDE DEF S, c1, c2, c3, c4, c5, c6
<1>6. c1 \o c2 \in Seq(S) /\ Len(c1 \o c2) >= Len(c1)
  BY <1>2, ConcatProperties, LenProperties
<1>7. (c1 \o c2) \o c3 \in Seq(S) /\ Len((c1 \o c2) \o c3) >= Len(c1)
  BY <1>2, <1>6, ConcatProperties, LenProperties
<1>8. ((c1 \o c2) \o c3) \o c4 \in Seq(S) /\ Len(((c1 \o c2) \o c3) \o c4) >= Len(c1)
  BY <1>2, <1>7, ConcatProperties, LenProperties
<1>9. (((c1 \o c2) \o c3) \o c4) \o c5 \in Seq(S) /\ Len((((c1 \o c2) \o c3) \o c4) \o c5) >= Len(c1)
  BY <1>2, <1>8, ConcatProperties, LenProperties
<1>10. Evaluate(op, phase) \in Seq(S) /\ Len(Evaluate(op, phase)) >= Len(c1)
  BY <1>3, <1>5, <1>9, ConcatProperties, LenProperties
<1> QED
  BY <1>4, <1>10 DEF S

LEMMA ChecksAreASequence ==
  ASSUME NEW op
  PROVE  ChecksOf(op) \in Seq(AuthChecks(op)) /\ Len(ChecksOf(op)) > 0
<1> DEFINE S == AuthChecks(op)
<1>1. \/ \E p : Phases(op) = <<p>> /\ "ip" \in p
      \/ \E p, q : Phases(op) = <<p, q>> /\ "ip" \in p
  BY DEF Phases, PhaseAll
<1>2. CASE \E p : Phases(op) = <<p>> /\ "ip" \in p
  <2>1. PICK p : Phases(op) = <<p>> /\ "ip" \in p
    BY <1>2
  <2>2. ChecksOf(op) = Evaluate(op, p)
    BY <2>1 DEF ChecksOf
  <2> QED
    BY <2>1, <2>2, EvaluateIsASequence
<1>3. CASE \E p, q : Phases(op) = <<p, q>> /\ "ip" \in p
  <2>1. PICK p, q : Phases(op) = <<p, q>> /\ "ip" \in p
    BY <1>3
  <2> DEFINE a == Evaluate(op, p)
             b == Evaluate(op, q)
             r == <<"resolve">>
  <2>2. ChecksOf(op) = (a \o r) \o b
    BY <2>1 DEF ChecksOf
  <2>3. a \in Seq(S) /\ b \in Seq(S) /\ Len(a) > 0
    BY <2>1, EvaluateIsASequence
  <2>4. r \in Seq(S)
    BY DEF AuthChecks
  <2> HIDE DEF S, a, b, r
  <2>5. a \o r \in Seq(S) /\ Len(a \o r) > 0
    BY <2>3, <2>4, ConcatProperties, LenProperties
  <2>6. (a \o r) \o b \in Seq(S) /\ Len((a \o r) \o b) > 0
    BY <2>3, <2>5, ConcatProperties, LenProperties
  <2> QED
    BY <2>2, <2>6 DEF S
<1> QED
  BY <1>1, <1>2, <1>3

\* A login looks at its target once and counts its account last.
LoginShape(s) ==
  /\ s[Len(s)] = "account"
  /\ \A n \in 1 .. Len(s) : s[n] = "account" => n = Len(s)
  /\ \A m, n \in 1 .. Len(s) : s[m] = "target" /\ s[n] = "target" => m = n

LEMMA OneMoreCheck ==
  ASSUME NEW S, NEW s \in Seq(S), NEW x \in S
  PROVE  /\ s \o <<x>> \in Seq(S) /\ Len(s) \in Nat
         /\ Len(s \o <<x>>) = Len(s) + 1 /\ (s \o <<x>>)[Len(s) + 1] = x
         /\ \A i \in 1 .. Len(s) : (s \o <<x>>)[i] = s[i]
<1>1. <<x>> \in Seq(S) /\ Len(<<x>>) = 1 /\ <<x>>[1] = x
  OBVIOUS
<1> DEFINE t == <<x>>
<1> HIDE DEF t
<1>2. Len(s) \in Nat /\ t \in Seq(S) /\ Len(t) = 1 /\ t[1] = x
  BY <1>1, LenProperties DEF t
<1> QED
  BY <1>2, ConcatProperties DEF t

LEMMA LoginChecks ==
  /\ LoginShape(ChecksOf("password_login"))
  /\ \E n \in 1 .. Len(ChecksOf("password_login")) : ChecksOf("password_login")[n] = "target"
<1> DEFINE op == "password_login"
           p == {"ip", "target", "challenge"}
           q == {"account"}
           A == {"ip", "target", "account", "verify", "replay", "resolve"}
           h == Challenge(op, p)
           s2 == <<"ip">> \o <<"target">>
           s3 == (s2 \o h) \o <<"resolve">>
           s4 == s3 \o <<"account">>
<1>1. Phases(op) = <<p, q>>
  BY DEF Phases
<1>2. DOMAIN For(op) = {"ip", "target", "account"}
  <2>1. For(op) = [ip |-> "ip", target |-> "account", account |-> "account"]
    BY DEF For, Sensitive
  <2> HIDE DEF op
  <2> QED
    BY <2>1
<1>3. ChecksOf(op) = (Evaluate(op, p) \o <<"resolve">>) \o Evaluate(op, q)
  <2> HIDE DEF op, p, q
  <2> QED
    BY <1>1 DEF ChecksOf
<1>4. h = <<>> \/ h = <<"verify", "replay">>
  BY DEF Challenge
<1>5. /\ Counted(op, p, "ip") = <<"ip">> /\ Counted(op, p, "target") = <<"target">>
      /\ Counted(op, p, "account") = <<>> /\ Counted(op, p, "proof") = <<>> /\ Counted(op, p, "session") = <<>>
  BY <1>2 DEF Counted
<1>6. /\ Counted(op, q, "ip") = <<>> /\ Counted(op, q, "target") = <<>>
      /\ Counted(op, q, "account") = <<"account">> /\ Counted(op, q, "proof") = <<>>
      /\ Counted(op, q, "session") = <<>> /\ Challenge(op, q) = <<>>
  BY <1>2 DEF Counted, Challenge
<1>7. "ip" \in A /\ "target" \in A /\ "account" \in A /\ "verify" \in A /\ "replay" \in A /\ "resolve" \in A
  OBVIOUS
<1>8. Evaluate(op, p) = ((((<<"ip">> \o <<"target">>) \o <<>>) \o <<>>) \o <<>>) \o h
  BY <1>5 DEF Evaluate
<1>9. Evaluate(op, q) = ((((<<>> \o <<>>) \o <<"account">>) \o <<>>) \o <<>>) \o <<>>
  BY <1>6 DEF Evaluate
<1> HIDE DEF A, op, p, q, h
<1>10. <<>> \in Seq(A) /\ <<"ip">> \in Seq(A) /\ <<"account">> \in Seq(A) /\ h \in Seq(A)
  <2>1. <<>> \in Seq(A) /\ <<"ip">> \in Seq(A) /\ <<"account">> \in Seq(A)
    BY <1>7
  <2>2. <<"verify", "replay">> \in Seq(A)
    BY <1>7
  <2> QED
    BY <1>4, <2>1, <2>2
<1>11. s2 \in Seq(A) /\ Len(s2) = 2 /\ s2[1] = "ip" /\ s2[2] = "target"
  <2>1. <<"ip">> \in Seq(A) /\ Len(<<"ip">>) = 1 /\ <<"ip">>[1] = "ip"
    BY <1>10
  <2> DEFINE one == <<"ip">>
  <2>2. one \in Seq(A) /\ Len(one) = 1 /\ one[1] = "ip" /\ 1 \in 1 .. Len(one)
    BY <2>1
  <2> HIDE DEF one
  <2> QED
    BY <2>2, <1>7, OneMoreCheck DEF one
<1>12. ChecksOf(op) = s4
  <2> HIDE DEF s2
  <2>1. Evaluate(op, p) = s2 \o h
    BY <1>8, <1>10, <1>11, ConcatEmptySeq DEF s2
  <2>2. Evaluate(op, q) = <<"account">>
    BY <1>9, <1>10, ConcatEmptySeq
  <2> QED
    BY <1>3, <2>1, <2>2
<1> DEFINE k == Len(h)
<1>13. /\ k \in {0, 2} /\ s2 \o h \in Seq(A) /\ Len(s2 \o h) = k + 2
       /\ (s2 \o h)[1] = "ip" /\ (s2 \o h)[2] = "target"
       /\ k = 2 => (s2 \o h)[3] = "verify" /\ (s2 \o h)[4] = "replay"
  <2> HIDE DEF s2
  <2>1. k \in {0, 2} /\ (k = 2 => h[1] = "verify" /\ h[2] = "replay")
    BY <1>4
  <2> HIDE DEF k
  <2>2. k = Len(h)
    BY DEF k
  <2>3. /\ s2 \o h \in Seq(A) /\ Len(s2 \o h) = Len(s2) + Len(h)
        /\ \A i \in 1 .. Len(s2) + Len(h) : (s2 \o h)[i] = IF i <= Len(s2) THEN s2[i] ELSE h[i - Len(s2)]
    BY <1>10, <1>11, ConcatProperties
  <2>4. /\ Len(s2 \o h) = k + 2 /\ (s2 \o h)[1] = s2[1] /\ (s2 \o h)[2] = s2[2]
        /\ k = 2 => (s2 \o h)[3] = h[1] /\ (s2 \o h)[4] = h[2]
    BY <1>11, <2>1, <2>2, <2>3
  <2> QED
    BY <1>11, <2>1, <2>3, <2>4
<1> HIDE DEF s2, k
<1>14. /\ s3 \in Seq(A) /\ Len(s3) = k + 3 /\ s3[1] = "ip" /\ s3[2] = "target" /\ s3[k + 3] = "resolve"
       /\ k = 2 => s3[3] = "verify" /\ s3[4] = "replay"
  <2>1. \A i \in 1 .. k + 2 : s3[i] = (s2 \o h)[i]
    BY <1>7, <1>13, OneMoreCheck
  <2>2. s3 \in Seq(A) /\ Len(s3) = k + 3 /\ s3[k + 3] = "resolve"
    BY <1>7, <1>13, OneMoreCheck
  <2> QED
    BY <1>13, <2>1, <2>2
<1> HIDE DEF s3
<1>15. /\ Len(s4) = k + 4 /\ s4[1] = "ip" /\ s4[2] = "target" /\ s4[k + 3] = "resolve" /\ s4[k + 4] = "account"
       /\ k = 2 => s4[3] = "verify" /\ s4[4] = "replay"
  <2>1. \A i \in 1 .. k + 3 : s4[i] = s3[i]
    BY <1>7, <1>14, OneMoreCheck
  <2>2. Len(s4) = k + 4 /\ s4[k + 4] = "account"
    BY <1>7, <1>13, <1>14, OneMoreCheck
  <2> QED
    BY <1>13, <1>14, <2>1, <2>2
<1> HIDE DEF s4
<1>16. CASE k = 0
  <2>1. /\ Len(s4) = 4 /\ s4[1] = "ip" /\ s4[2] = "target" /\ s4[3] = "resolve" /\ s4[4] = "account"
    BY <1>15, <1>16
  <2>2. 1 .. 4 = {1, 2, 3, 4}
    OBVIOUS
  <2>3. LoginShape(s4) /\ \E n \in 1 .. Len(s4) : s4[n] = "target"
    BY <2>1, <2>2 DEF LoginShape
  <2> QED
    BY <1>12, <2>3 DEF op
<1>17. CASE k = 2
  <2>1. /\ Len(s4) = 6 /\ s4[1] = "ip" /\ s4[2] = "target" /\ s4[5] = "resolve" /\ s4[6] = "account"
        /\ s4[3] = "verify" /\ s4[4] = "replay"
    BY <1>15, <1>17
  <2>2. 1 .. 6 = {1, 2, 3, 4, 5, 6}
    OBVIOUS
  <2>3. LoginShape(s4) /\ \E n \in 1 .. Len(s4) : s4[n] = "target"
    BY <2>1, <2>2 DEF LoginShape
  <2> QED
    BY <1>12, <2>3 DEF op
<1> QED
  BY <1>13, <1>16, <1>17

LEMMA LoginShapeOfTail ==
  ASSUME NEW S, NEW s \in Seq(S), Len(s) > 1, LoginShape(s)
  PROVE  /\ LoginShape(Tail(s))
         /\ (\E n \in 1 .. Len(Tail(s)) : Tail(s)[n] = "target")
              <=> (s[1] # "target" /\ \E n \in 1 .. Len(s) : s[n] = "target")
<1>1. Len(s) \in Nat /\ s # <<>> /\ Len(Tail(s)) = Len(s) - 1 /\ \A i \in 1 .. Len(s) - 1 : Tail(s)[i] = s[i + 1]
  BY HeadTailProperties, LenProperties
<1> DEFINE t == Tail(s)
           L == Len(s)
<1> HIDE DEF t, L
<1>2. L \in Nat /\ L > 1 /\ Len(t) = L - 1 /\ \A i \in 1 .. L - 1 : t[i] = s[i + 1]
  BY <1>1 DEF t, L
<1>3. /\ s[L] = "account"
      /\ \A n \in 1 .. L : s[n] = "account" => n = L
      /\ \A m, n \in 1 .. L : s[m] = "target" /\ s[n] = "target" => m = n
  BY DEF LoginShape, L
<1>4. LoginShape(t)
  <2>1. t[L - 1] = "account"
    BY <1>2, <1>3
  <2>2. \A n \in 1 .. L - 1 : t[n] = "account" => n = L - 1
    BY <1>2, <1>3
  <2>3. \A m, n \in 1 .. L - 1 : t[m] = "target" /\ t[n] = "target" => m = n
    <3> SUFFICES ASSUME NEW m \in 1 .. L - 1, NEW n \in 1 .. L - 1, t[m] = "target", t[n] = "target"
                 PROVE  m = n
      OBVIOUS
    <3>1. m + 1 \in 1 .. L /\ n + 1 \in 1 .. L /\ s[m + 1] = "target" /\ s[n + 1] = "target"
      BY <1>2
    <3>2. m + 1 = n + 1
      BY <1>3, <3>1
    <3> QED
      BY <3>2
  <2> QED
    BY <1>2, <2>1, <2>2, <2>3 DEF LoginShape
<1>5. (\E n \in 1 .. L - 1 : t[n] = "target") => s[1] # "target" /\ \E n \in 1 .. L : s[n] = "target"
  BY <1>2, <1>3
<1>6. ASSUME s[1] # "target", NEW n \in 1 .. L, s[n] = "target"
      PROVE  \E m \in 1 .. L - 1 : t[m] = "target"
  <2>1. n - 1 \in 1 .. L - 1 /\ t[n - 1] = s[n]
    BY <1>2, <1>6
  <2> QED
    BY <2>1, <1>6
<1> QED
  BY <1>2, <1>4, <1>5, <1>6 DEF t, L

-----------------------------------------------------------------------------
CounterRow == [n : Nat, until : Nat, passed : Nat, seen : SUBSET (LoginIdents \X Nat)]

\* A login that is still to count its target has no window yet.
AuthFrame(op, f) ==
  /\ f.op \in {"idle", "auth", "answered"}
  /\ f.op = "auth" =>
       /\ f \in [op : {"auth"}, ident : LoginIdents, token : {"none", "given"}, checks : Seq(AuthChecks(op)), window : Nat]
       /\ Len(f.checks) > 0
       /\ op = "password_login" =>
            LoginShape(f.checks) /\ (f.window = 0 <=> \E n \in 1 .. Len(f.checks) : f.checks[n] = "target")
  /\ f.op = "answered" /\ op = "password_login" /\ f.answer = "limited_account" => f.excused

KeptBelow ==
  /\ \A k \in LoginIdents : "target" \in DOMAIN For(operation) => counter[k].passed <= MaxOf("target")
  /\ \A k \in Limited : counter[k].passed <= MaxOf(k)

\* A window that has not ended is the one of the identifier's counter.
KnownWindow(i, w) == w > instant => counter[i].until = w

WindowsKnown ==
  /\ \A c \in Clients : call[c].op = "auth" => KnownWindow(call[c].ident, call[c].window)
  /\ \A i \in LoginIdents, w \in Nat : <<i, w>> \in counter["account"].seen => KnownWindow(i, w)

InFlight(i, u) == {c \in Clients : call[c].op = "auth" /\ call[c].ident = i /\ call[c].window = u}

\* What the account has counted, when it all came with one identifier in one window.
Charged(i, u) == IF counter["account"].seen \subseteq {<<i, u>>} THEN counter["account"].n ELSE 0

\* Who has passed the identifier's counter and not the account's yet, and what the
\* account has counted of that identifier and window alone, all passed it.
TargetsCounted ==
  \A i \in LoginIdents :
    counter[i].until # 0 =>
      Cardinality(InFlight(i, counter[i].until)) + Charged(i, counter[i].until) <= counter[i].passed

LoginsCounted ==
  /\ counter["account"].seen = {} => counter["account"].n = 0
  /\ WindowsKnown /\ TargetsCounted

AbuseInv ==
  /\ DOMAIN call = Clients
  /\ instant \in Nat
  /\ counter \in [Keys -> CounterRow]
  /\ \A k \in Keys : counter[k].until = 0 => counter[k] = NoCounter
  /\ \A k \in Keys : counter[k].passed <= counter[k].n
  /\ KeptBelow
  /\ \A c \in Clients : AuthFrame(operation, call[c])
  /\ operation = "password_login" => LoginsCounted

LEMMA KeysAreApart ==
  /\ \A k \in LoginIdents : k \in Keys /\ k \notin {"ip", "account", "proof", "session", "replay"}
  /\ {"ip", "account", "proof", "session", "replay"} \subseteq Keys
  /\ Limited \subseteq Keys
BY AbuseAssumption, LimitsOfOperation DEF Keys, Limited

LEMMA InFlightIsFinite ==
  ASSUME NEW i, NEW u
  PROVE  IsFiniteSet(InFlight(i, u)) /\ Cardinality(InFlight(i, u)) \in Nat
<1> DEFINE I == InFlight(i, u)
<1>1. I \subseteq Clients /\ IsFiniteSet(Clients)
  BY AbuseAssumption DEF InFlight
<1> HIDE DEF I
<1>2. IsFiniteSet(I) /\ Cardinality(I) \in Nat
  BY <1>1, FS_Subset, FS_CardinalityType
<1> QED
  BY <1>2 DEF I

LEMMA IdleAuthFrame == \A op : AuthFrame(op, Idle)
  BY DEF AuthFrame, Idle

LEMMA AbuseStart ==
  ASSUME AbuseInit, call = [c \in Clients |-> Idle]
  PROVE  AbuseInv
<1>1. NoCounter \in CounterRow /\ NoCounter.passed = 0 /\ NoCounter.n = 0 /\ NoCounter.until = 0 /\ NoCounter.seen = {}
  BY DEF NoCounter, CounterRow
<1>2. counter \in [Keys -> CounterRow] /\ \A k \in Keys : counter[k] = NoCounter
  BY <1>1 DEF AbuseInit
<1> HIDE DEF NoCounter
<1>3. KeptBelow
  <2>1. \A k \in LoginIdents : "target" \in DOMAIN For(operation) => counter[k].passed <= MaxOf("target")
    <3> SUFFICES ASSUME NEW k \in LoginIdents, "target" \in DOMAIN For(operation)
                 PROVE  counter[k].passed <= MaxOf("target")
      OBVIOUS
    <3>1. counter[k].passed = 0
      BY <1>1, <1>2, KeysAreApart
    <3>2. MaxOf("target") \in Nat
      BY MaximumIsPositive
    <3> QED
      BY <3>1, <3>2
  <2>2. \A k \in Limited : counter[k].passed <= MaxOf(k)
    <3> SUFFICES ASSUME NEW k \in Limited
                 PROVE  counter[k].passed <= MaxOf(k)
      OBVIOUS
    <3>1. counter[k].passed = 0
      BY <1>1, <1>2, KeysAreApart
    <3>2. MaxOf(k) \in Nat
      BY MaximumIsPositive, LimitsOfOperation DEF Limited
    <3> QED
      BY <3>1, <3>2
  <2> QED
    BY <2>1, <2>2 DEF KeptBelow
<1>4. LoginsCounted
  <2>1. counter["account"] = NoCounter
    BY <1>2, KeysAreApart
  <2>2. WindowsKnown
    BY <1>1, <2>1 DEF WindowsKnown, Idle
  <2>3. TargetsCounted
    BY <1>1, <1>2, KeysAreApart DEF TargetsCounted
  <2> QED
    BY <1>1, <2>1, <2>2, <2>3 DEF LoginsCounted
<1>5. instant \in Nat
  BY DEF AbuseInit
<1> QED
  BY <1>1, <1>2, <1>3, <1>4, <1>5, IdleAuthFrame DEF AbuseInv

\* Requests that leave the counters alone: they begin, end, or pass another check.
LEMMA CountsKept ==
  ASSUME AbuseInv, UNCHANGED abuseVars, DOMAIN call' = Clients, \A c \in Clients : AuthFrame(operation, call'[c]),
         \A c \in Clients :
           call'[c].op = "auth" =>
             \/ call'[c].window = 0
             \/ call[c].op = "auth" /\ call'[c].ident = call[c].ident /\ call'[c].window = call[c].window
  PROVE  AbuseInv' /\ AbuseSteps
<1>1. operation' = operation /\ counter' = counter /\ instant' = instant
  BY DEF abuseVars
<1>2. KeptBelow'
  BY <1>1 DEF AbuseInv, KeptBelow, MaxOf, Limited
<1>3. ASSUME operation = "password_login"
      PROVE  LoginsCounted'
  <2>1. LoginsCounted
    BY <1>3 DEF AbuseInv
  <2>2. ASSUME NEW c \in Clients, call'[c].op = "auth"
        PROVE  KnownWindow(call[c].ident, call[c].window)'
    <3>1. CASE call'[c].window = 0
      BY <3>1, <1>1 DEF KnownWindow, AbuseInv
    <3>2. CASE call[c].op = "auth" /\ call'[c].ident = call[c].ident /\ call'[c].window = call[c].window
      BY <3>2, <1>1, <2>1 DEF KnownWindow, LoginsCounted, WindowsKnown
    <3> QED
      BY <3>1, <3>2, <2>2
  <2>3. WindowsKnown'
    <3>1. \A i \in LoginIdents, w \in Nat : <<i, w>> \in counter'["account"].seen => KnownWindow(i, w)'
      BY <1>1, <2>1 DEF KnownWindow, LoginsCounted, WindowsKnown
    <3> QED
      BY <2>2, <3>1 DEF WindowsKnown
  <2>4. ASSUME NEW i \in LoginIdents, counter[i].until # 0
        PROVE  Cardinality(InFlight(i, counter[i].until))' + Charged(i, counter[i].until)' <= counter[i].passed
    <3> DEFINE u == counter[i].until
               I == InFlight(i, u)
               J == InFlight(i, counter[i].until)'
    <3>1. J \subseteq I
      BY <1>1, <2>4 DEF InFlight
    <3>2. IsFiniteSet(I) /\ Cardinality(I) \in Nat
      BY InFlightIsFinite
    <3> HIDE DEF I, J
    <3>3. Cardinality(J) <= Cardinality(I) /\ Cardinality(J) \in Nat
      BY <3>1, <3>2, FS_Subset, FS_CardinalityType
    <3>4. Charged(i, u) \in Nat /\ counter[i].passed \in Nat
      BY KeysAreApart DEF AbuseInv, CounterRow, Charged
    <3>5. Charged(i, counter[i].until)' = Charged(i, u)
      BY <1>1 DEF Charged
    <3>6. Cardinality(I) + Charged(i, u) <= counter[i].passed
      BY <2>1, <2>4 DEF LoginsCounted, TargetsCounted, I
    <3>7. Cardinality(J) + Charged(i, u) <= counter[i].passed
      BY <3>2, <3>3, <3>4, <3>6
    <3> QED
      BY <3>5, <3>7 DEF J
  <2>5. TargetsCounted'
    BY <1>1, <2>4 DEF TargetsCounted
  <2> QED
    BY <1>1, <2>1, <2>3, <2>5 DEF LoginsCounted
<1>4. AbuseSteps
  BY <1>1 DEF AbuseSteps
<1> QED
  BY <1>1, <1>2, <1>3, <1>4 DEF AbuseInv

LEMMA AbuseEnd ==
  ASSUME AbuseInv, UNCHANGED abuseVars, DOMAIN call' = Clients, \A c \in Clients : call'[c] \in {call[c], Idle}
  PROVE  AbuseInv' /\ AbuseSteps
BY CountsKept, IdleAuthFrame DEF AbuseInv, Idle

\* Limits bound what every counter let through.
LEMMA MaximaAreNumbers ==
  /\ "target" \in DOMAIN For(operation) => MaxOf("target") \in Nat \ {0}
  /\ \A k \in Limited : MaxOf(k) \in Nat \ {0}
BY MaximumIsPositive, LimitsOfOperation DEF Limited

LEMMA NoCounterIsARow ==
  NoCounter \in CounterRow /\ NoCounter.passed = 0 /\ NoCounter.n = 0 /\ NoCounter.until = 0 /\ NoCounter.seen = {}
BY DEF NoCounter, CounterRow

LEMMA AbuseTick ==
  ASSUME AbuseInv, Tick
  PROVE  AbuseInv' /\ AbuseSteps
<1>1. instant' = instant + 1 /\ instant \in Nat /\ operation' = operation /\ call' = call
  BY DEF Tick, AbuseInv
<1>2. /\ counter' = [k \in Keys |-> IF instant' < counter[k].until THEN counter[k] ELSE NoCounter]
      /\ counter \in [Keys -> CounterRow]
  BY DEF Tick, AbuseInv
<1> HIDE DEF NoCounter
<1>3. \A k \in Keys :
        /\ counter'[k] = counter[k] \/ counter'[k] = NoCounter
        /\ instant' < counter[k].until => counter'[k] = counter[k]
        /\ ~(instant' < counter[k].until) => counter'[k] = NoCounter
  BY <1>2
<1>4. counter' \in [Keys -> CounterRow]
  BY <1>2, NoCounterIsARow
<1>5. KeptBelow'
  <2>1. \A k \in Keys : counter[k].passed \in Nat /\ (counter'[k].passed = 0 \/ counter'[k].passed = counter[k].passed)
    BY <1>2, <1>3, NoCounterIsARow DEF CounterRow
  <2>2. "target" \in DOMAIN For(operation) => \A k \in LoginIdents : counter'[k].passed <= MaxOf("target")
    BY <2>1, KeysAreApart, MaximaAreNumbers DEF KeptBelow, AbuseInv
  <2>3. \A k \in Limited : counter'[k].passed <= MaxOf(k)
    BY <2>1, KeysAreApart, MaximaAreNumbers DEF KeptBelow, AbuseInv
  <2> QED
    BY <1>1, <2>2, <2>3 DEF KeptBelow, Limited, MaxOf
<1>6. ASSUME operation = "password_login"
      PROVE  LoginsCounted'
  <2>1. LoginsCounted
    BY <1>6 DEF AbuseInv
  <2>2. ASSUME NEW i \in LoginIdents, NEW w \in Nat, KnownWindow(i, w)
        PROVE  KnownWindow(i, w)'
    <3> SUFFICES ASSUME w > instant'
                 PROVE  counter'[i].until = w
      BY DEF KnownWindow
    <3>1. counter[i].until = w /\ i \in Keys
      BY <1>1, <2>2, KeysAreApart DEF KnownWindow
    <3>2. instant' < counter[i].until
      BY <1>1, <3>1
    <3> QED
      BY <1>3, <3>1, <3>2
  <2>3. counter'["account"].seen \subseteq counter["account"].seen
    BY <1>3, NoCounterIsARow, KeysAreApart
  <2>4. WindowsKnown'
    <3>1. ASSUME NEW c \in Clients, call[c].op = "auth"
          PROVE  KnownWindow(call[c].ident, call[c].window)'
      <4>1. call[c].ident \in LoginIdents /\ call[c].window \in Nat
        BY <3>1 DEF AbuseInv, AuthFrame
      <4>2. KnownWindow(call[c].ident, call[c].window)
        BY <3>1, <2>1 DEF LoginsCounted, WindowsKnown
      <4>3. PICK i \in LoginIdents, w \in Nat : i = call[c].ident /\ w = call[c].window
        BY <4>1
      <4>4. KnownWindow(i, w)'
        BY <2>2, <4>2, <4>3
      <4> QED
        BY <1>1, <4>3, <4>4 DEF KnownWindow
    <3>2. \A i \in LoginIdents, w \in Nat : <<i, w>> \in counter'["account"].seen => KnownWindow(i, w)'
      BY <2>1, <2>2, <2>3 DEF LoginsCounted, WindowsKnown
    <3> QED
      BY <1>1, <3>1, <3>2 DEF WindowsKnown
  <2>5. ASSUME NEW i \in LoginIdents, counter'[i].until # 0
        PROVE  Cardinality(InFlight(i, counter[i].until))' + Charged(i, counter[i].until)' <= counter'[i].passed
    <3> DEFINE u == counter[i].until
    <3>1. counter'[i] = counter[i] /\ u # 0
      BY <1>3, <2>5, KeysAreApart, NoCounterIsARow
    <3>2. InFlight(i, counter[i].until)' = InFlight(i, u)
      BY <1>1, <3>1 DEF InFlight
    <3>3. Charged(i, counter[i].until)' \in {0, Charged(i, u)} /\ Charged(i, u) \in Nat
      <4>1. Charged(i, counter[i].until)'
            = IF counter'["account"].seen \subseteq {<<i, u>>} THEN counter'["account"].n ELSE 0
        BY <3>1 DEF Charged
      <4>2. counter'["account"] = counter["account"] \/ counter'["account"].n = 0
        BY <1>3, KeysAreApart, NoCounterIsARow
      <4>3. counter["account"].n \in Nat
        BY <1>2, KeysAreApart DEF CounterRow
      <4> QED
        BY <4>1, <4>2, <4>3 DEF Charged
    <3>4. Cardinality(InFlight(i, u)) + Charged(i, u) <= counter[i].passed
      BY <2>1, <3>1 DEF LoginsCounted, TargetsCounted
    <3>5. Cardinality(InFlight(i, u)) \in Nat /\ counter[i].passed \in Nat
      BY <1>2, KeysAreApart, InFlightIsFinite DEF CounterRow
    <3> HIDE DEF u
    <3> QED
      BY <3>1, <3>2, <3>3, <3>4, <3>5
  <2>6. TargetsCounted'
    BY <2>5 DEF TargetsCounted
  <2>7. counter'["account"].seen = {} => counter'["account"].n = 0
    BY <1>3, <2>1, NoCounterIsARow, KeysAreApart DEF LoginsCounted
  <2> QED
    BY <2>4, <2>6, <2>7 DEF LoginsCounted
<1>7. AbuseSteps
  BY <1>3 DEF AbuseSteps
<1>8. \A k \in Keys : (counter'[k].until = 0 => counter'[k] = NoCounter) /\ counter'[k].passed <= counter'[k].n
  BY <1>3, NoCounterIsARow DEF AbuseInv
<1>9. instant' \in Nat
  BY <1>1
<1> QED
  BY <1>1, <1>4, <1>5, <1>6, <1>7, <1>8, <1>9 DEF AbuseInv

-----------------------------------------------------------------------------
\* One increment: the window stays where it is, or begins with the key.
LEMMA IncrementedRow ==
  ASSUME AbuseInv, NEW k \in Keys, NEW f, f.ident \in LoginIdents, f.window \in Nat
  PROVE  LET q == Incremented(k, f)
         IN  /\ q \in CounterRow
             /\ q.n = counter[k].n + 1 /\ q.passed = counter[k].passed
             /\ q.seen = counter[k].seen \cup Seen(k, f)
             /\ q.until = (IF counter[k].until = 0 THEN instant + Window ELSE counter[k].until)
             /\ q.until # 0
<1> DEFINE r == counter[k]
           q == Incremented(k, f)
<1>1. r \in CounterRow /\ (r.until = 0 => r = NoCounter) /\ instant \in Nat /\ Window \in Nat \ {0}
  BY AbuseAssumption DEF AbuseInv
<1>2. Seen(k, f) \subseteq LoginIdents \X Nat
  BY DEF Seen
<1>3. CASE r = NoCounter
  <2>1. q = [n |-> 1, until |-> instant + Window, passed |-> 0, seen |-> Seen(k, f)]
    BY <1>3 DEF Incremented
  <2> HIDE DEF q
  <2>2. instant + Window \in Nat /\ instant + Window # 0
    BY <1>1
  <2>3. q \in CounterRow
    BY <1>2, <2>1, <2>2 DEF CounterRow
  <2>4. r.n = 0 /\ r.passed = 0 /\ r.seen = {} /\ r.until = 0
    BY <1>3, NoCounterIsARow
  <2>5. q.n = 1 /\ q.until = instant + Window /\ q.passed = 0 /\ q.seen = Seen(k, f)
    BY <2>1
  <2> HIDE DEF r
  <2>6. q.n = r.n + 1 /\ q.passed = r.passed /\ q.seen = r.seen \cup Seen(k, f)
    BY <2>4, <2>5
  <2> QED
    BY <2>2, <2>3, <2>4, <2>5, <2>6 DEF q, r
<1>4. CASE r # NoCounter
  <2> DEFINE p == [r EXCEPT !.n = @ + 1]
  <2>1. q = [p EXCEPT !.seen = @ \cup Seen(k, f)]
    BY <1>4 DEF Incremented
  <2> HIDE DEF q, r
  <2>2. p \in CounterRow /\ p.n = r.n + 1 /\ p.passed = r.passed /\ p.seen = r.seen /\ p.until = r.until
    BY <1>1 DEF CounterRow
  <2> HIDE DEF p
  <2>3. q \in CounterRow /\ q.n = p.n /\ q.passed = p.passed /\ q.seen = p.seen \cup Seen(k, f) /\ q.until = p.until
    BY <1>2, <2>1, <2>2 DEF CounterRow
  <2>4. r.until # 0
    BY <1>1, <1>4
  <2> QED
    BY <2>2, <2>3, <2>4 DEF q, r
<1> QED
  BY <1>3, <1>4

\* A counter goes up for the next check of a request, and the request goes on or is answered.
CounterMoves(c, check, row, frame) ==
  LET f == call[c]
      k == Subject(check, f.ident)
  IN  /\ check \in DOMAIN For(operation) \cup {"replay"}
      /\ row \in CounterRow
      /\ row.n = counter[k].n + 1
      /\ row.passed = counter[k].passed \/ (row.passed = counter[k].passed + 1 /\ row.n <= MaxOf(check))
      /\ row.seen = counter[k].seen \cup Seen(k, f)
      /\ row.until = (IF counter[k].until = 0 THEN instant + Window ELSE counter[k].until)
      /\ row.until # 0
      /\ AuthFrame(operation, frame)
      /\ operation = "password_login" =>
           (frame.op = "auth" =>
             /\ frame.ident = f.ident /\ check # "account"
             /\ frame.window = (IF check = "target" THEN row.until ELSE f.window)
             /\ row.passed = counter[k].passed + 1)

LEMMA MovesKeepLimits ==
  ASSUME AbuseInv, NEW c \in Clients, call[c].op = "auth", NEW check, NEW row, NEW frame,
         CounterMoves(c, check, row, frame), counter' = [counter EXCEPT ![Subject(check, call[c].ident)] = row],
         UNCHANGED <<operation, instant>>
  PROVE  /\ KeptBelow' /\ AbuseSteps
         /\ counter' \in [Keys -> CounterRow]
         /\ \A k \in Keys : (counter'[k].until = 0 => counter'[k] = NoCounter) /\ counter'[k].passed <= counter'[k].n
<1> DEFINE i == call[c].ident
           k == Subject(check, i)
<1>1. /\ check \in DOMAIN For(operation) \cup {"replay"} /\ row \in CounterRow
      /\ row.n = counter[k].n + 1
      /\ row.passed = counter[k].passed \/ (row.passed = counter[k].passed + 1 /\ row.n <= MaxOf(check))
      /\ row.until = (IF counter[k].until = 0 THEN instant + Window ELSE counter[k].until)
      /\ row.until # 0
  BY DEF CounterMoves
<1>2. i \in LoginIdents /\ counter \in [Keys -> CounterRow] /\ instant \in Nat
  BY DEF AbuseInv, AuthFrame
<1>3. k \in Keys /\ (check = "target" => k = i) /\ (check # "target" => k = check /\ k \notin LoginIdents)
  BY <1>1, <1>2, KeysAreApart, LimitsOfOperation DEF Subject
<1> HIDE DEF i, k
<1>4. counter' = [counter EXCEPT ![k] = row]
  BY DEF i, k
<1>5. counter'[k] = row /\ (\A j \in Keys \ {k} : counter'[j] = counter[j]) /\ counter' \in [Keys -> CounterRow]
  BY <1>1, <1>2, <1>3, <1>4
<1>6. counter[k].passed \in Nat /\ counter[k].n \in Nat /\ counter[k].passed <= counter[k].n
      /\ row.passed \in Nat /\ row.n \in Nat
  BY <1>1, <1>2, <1>3 DEF CounterRow, AbuseInv
<1>7. row.passed <= row.n
  BY <1>1, <1>6
<1>8. row.passed = counter[k].passed \/ row.passed <= MaxOf(check)
  <2>1. MaxOf(check) \in Nat
    BY <1>1, MaximumIsPositive
  <2> QED
    BY <1>1, <1>6, <1>7, <2>1
<1>9. KeptBelow'
  <2>1. ASSUME NEW j \in LoginIdents, "target" \in DOMAIN For(operation)
        PROVE  counter'[j].passed <= MaxOf("target")
    <3>1. counter[j].passed <= MaxOf("target")
      BY <2>1 DEF KeptBelow, AbuseInv
    <3>2. CASE j = k
      BY <1>3, <1>5, <1>8, <3>1, <3>2
    <3>3. CASE j # k
      BY <1>5, <3>1, <3>3, KeysAreApart
    <3> QED
      BY <3>2, <3>3
  <2>2. ASSUME NEW j \in Limited
        PROVE  counter'[j].passed <= MaxOf(j)
    <3>1. counter[j].passed <= MaxOf(j) /\ j \notin LoginIdents
      BY <2>2, KeysAreApart, LimitsOfOperation DEF KeptBelow, AbuseInv, Limited
    <3>2. CASE j = k
      BY <1>2, <1>3, <1>5, <1>8, <3>1, <3>2
    <3>3. CASE j # k
      BY <1>5, <3>1, <3>3, KeysAreApart
    <3> QED
      BY <3>2, <3>3
  <2> QED
    BY <2>1, <2>2 DEF KeptBelow, Limited, MaxOf
<1>10. AbuseSteps
  <2> SUFFICES ASSUME NEW j \in Keys, instant' < counter[j].until
               PROVE  counter'[j].until = counter[j].until
    BY DEF AbuseSteps
  <2>1. counter[j].until # 0
    BY <1>2
  <2> QED
    BY <1>1, <1>5, <2>1
<1>11. \A j \in Keys : (counter'[j].until = 0 => counter'[j] = NoCounter) /\ counter'[j].passed <= counter'[j].n
  BY <1>1, <1>5, <1>7 DEF AbuseInv
<1> QED
  BY <1>5, <1>9, <1>10, <1>11

\* The windows of a login and of its account stay known.
LEMMA MovesKeepWindows ==
  ASSUME AbuseInv, operation = "password_login", NEW c \in Clients, call[c].op = "auth", NEW check, NEW row, NEW frame,
         CounterMoves(c, check, row, frame), counter' = [counter EXCEPT ![Subject(check, call[c].ident)] = row],
         UNCHANGED <<operation, instant>>, call' = [call EXCEPT ![c] = frame]
  PROVE  WindowsKnown'
<1> DEFINE i == call[c].ident
           w == call[c].window
           k == Subject(check, i)
<1>1. /\ check \in DOMAIN For(operation) \cup {"replay"}
      /\ row.seen = counter[k].seen \cup Seen(k, call[c])
      /\ row.until = (IF counter[k].until = 0 THEN instant + Window ELSE counter[k].until)
      /\ AuthFrame(operation, frame)
      /\ frame.op = "auth" => frame.ident = i /\ frame.window = (IF check = "target" THEN row.until ELSE w)
  BY DEF CounterMoves
<1>2. i \in LoginIdents /\ w \in Nat /\ counter \in [Keys -> CounterRow] /\ instant \in Nat /\ DOMAIN call = Clients
  BY DEF AbuseInv, AuthFrame
<1>3. k \in Keys /\ (check = "target" => k = i) /\ (check # "target" => k = check /\ k \notin LoginIdents)
  BY <1>1, <1>2, KeysAreApart, LimitsOfOperation DEF Subject
<1>4. Seen(k, call[c]) = IF k = "account" THEN {<<i, w>>} ELSE {}
  BY DEF Seen
<1>5. /\ \A j \in LoginIdents, v \in Nat : <<j, v>> \in counter["account"].seen => KnownWindow(j, v)
      /\ \A d \in Clients : call[d].op = "auth" => KnownWindow(call[d].ident, call[d].window)
  BY DEF AbuseInv, LoginsCounted, WindowsKnown
<1>6. KnownWindow(i, w)
  BY <1>5
<1> HIDE DEF i, w, k
<1>7. counter'[k] = row /\ \A j \in Keys \ {k} : counter'[j] = counter[j]
  BY <1>2, <1>3 DEF i, k
<1>8. ASSUME NEW j \in LoginIdents, NEW v \in Nat, KnownWindow(j, v)
      PROVE  KnownWindow(j, v)'
  <2> SUFFICES ASSUME v > instant
               PROVE  counter'[j].until = v
    BY DEF KnownWindow
  <2>1. counter[j].until = v /\ v # 0 /\ j \in Keys
    BY <1>2, <1>8, KeysAreApart DEF KnownWindow
  <2> QED
    BY <1>1, <1>7, <2>1
<1>9. ASSUME NEW d \in Clients, call'[d].op = "auth"
      PROVE  KnownWindow(call[d].ident, call[d].window)'
  <2>1. CASE d # c
    <3>1. call'[d] = call[d] /\ call[d].ident \in LoginIdents /\ call[d].window \in Nat
      BY <1>2, <1>9, <2>1 DEF AbuseInv, AuthFrame
    <3>2. KnownWindow(call[d].ident, call[d].window)
      BY <1>5, <1>9, <3>1
    <3>3. PICK j \in LoginIdents, v \in Nat : j = call[d].ident /\ v = call[d].window
      BY <3>1
    <3>4. KnownWindow(j, v)'
      BY <1>8, <3>2, <3>3
    <3> QED
      BY <3>1, <3>3, <3>4
  <2>2. CASE d = c
    <3>1. call'[c] = frame /\ frame.op = "auth"
      BY <1>2, <1>9, <2>2
    <3>2. CASE check = "target"
      <4>1. counter'[i].until = row.until /\ frame.ident = i /\ frame.window = row.until
        BY <1>1, <1>3, <1>7, <3>1, <3>2
      <4> QED
        BY <2>2, <3>1, <4>1 DEF KnownWindow
    <3>3. CASE check # "target"
      <4>1. frame.ident = i /\ frame.window = w
        BY <1>1, <3>1, <3>3
      <4>2. PICK j \in LoginIdents, v \in Nat : j = i /\ v = w
        BY <1>2
      <4>3. KnownWindow(j, v)'
        BY <1>6, <1>8, <4>2
      <4> QED
        BY <2>2, <3>1, <4>1, <4>2, <4>3
    <3> QED
      BY <3>2, <3>3
  <2> QED
    BY <2>1, <2>2
<1>10. ASSUME NEW j \in LoginIdents, NEW v \in Nat, <<j, v>> \in counter'["account"].seen
       PROVE  KnownWindow(j, v)'
  <2>1. <<j, v>> \in counter["account"].seen \/ <<j, v>> = <<i, w>>
    BY <1>1, <1>4, <1>7, <1>10, KeysAreApart
  <2>2. KnownWindow(j, v)
    BY <1>5, <1>6, <2>1
  <2> QED
    BY <1>8, <2>2
<1> QED
  BY <1>9, <1>10 DEF WindowsKnown

LEMMA FewerInFlight ==
  ASSUME NEW T, NEW U, IsFiniteSet(U), T \subseteq U
  PROVE  Cardinality(T) \in Nat /\ Cardinality(U) \in Nat /\ Cardinality(T) <= Cardinality(U)
BY FS_Subset, FS_CardinalityType

LEMMA OneFewerInFlight ==
  ASSUME NEW T, NEW U, IsFiniteSet(U), NEW c, c \in U, T \subseteq U \ {c}
  PROVE  Cardinality(T) \in Nat /\ Cardinality(U) \in Nat /\ Cardinality(T) + 1 <= Cardinality(U)
<1>1. IsFiniteSet(U \ {c}) /\ Cardinality(U \ {c}) = Cardinality(U) - 1 /\ Cardinality(U) \in Nat
  BY FS_RemoveElement, FS_CardinalityType
<1>2. Cardinality(T) \in Nat /\ Cardinality(T) <= Cardinality(U \ {c})
  BY <1>1, FewerInFlight
<1> QED
  BY <1>1, <1>2

LEMMA OneMoreInFlight ==
  ASSUME NEW T, NEW U, IsFiniteSet(U), NEW c, T \subseteq U \cup {c}
  PROVE  Cardinality(T) \in Nat /\ Cardinality(U) \in Nat /\ Cardinality(T) <= Cardinality(U) + 1
<1>1. IsFiniteSet(U \cup {c}) /\ Cardinality(U \cup {c}) <= Cardinality(U) + 1 /\ Cardinality(U) \in Nat
      /\ Cardinality(U \cup {c}) \in Nat
  BY FS_AddElement, FS_CardinalityType
<1>2. Cardinality(T) \in Nat /\ Cardinality(T) <= Cardinality(U \cup {c})
  BY <1>1, FewerInFlight
<1> QED
  BY <1>1, <1>2

\* Every attempt that the account counts was let through by its identifier.
LEMMA MovesKeepCounts ==
  ASSUME AbuseInv, operation = "password_login", NEW c \in Clients, call[c].op = "auth", NEW check, NEW row, NEW frame,
         CounterMoves(c, check, row, frame), counter' = [counter EXCEPT ![Subject(check, call[c].ident)] = row],
         UNCHANGED <<operation, instant>>, call' = [call EXCEPT ![c] = frame]
  PROVE  LoginsCounted'
<1> DEFINE i == call[c].ident
           w == call[c].window
           k == Subject(check, i)
           a == counter["account"]
<1>1. /\ check \in DOMAIN For(operation) \cup {"replay"} /\ row \in CounterRow
      /\ row.n = counter[k].n + 1
      /\ row.passed = counter[k].passed \/ row.passed = counter[k].passed + 1
      /\ row.seen = counter[k].seen \cup Seen(k, call[c])
      /\ row.until = (IF counter[k].until = 0 THEN instant + Window ELSE counter[k].until)
      /\ frame.op = "auth" => /\ frame.ident = i /\ check # "account"
                             /\ frame.window = (IF check = "target" THEN row.until ELSE w)
                             /\ row.passed = counter[k].passed + 1
  BY DEF CounterMoves
<1>2. i \in LoginIdents /\ w \in Nat /\ counter \in [Keys -> CounterRow] /\ instant \in Nat /\ DOMAIN call = Clients
      /\ Window \in Nat \ {0}
  BY AbuseAssumption DEF AbuseInv, AuthFrame
<1>3. /\ k \in Keys /\ "account" \in Keys /\ "account" \notin LoginIdents
      /\ check = "target" => k = i
      /\ check # "target" => k = check /\ k \notin LoginIdents
  BY <1>1, <1>2, KeysAreApart, LimitsOfOperation DEF Subject
<1>4. Seen(k, call[c]) = IF k = "account" THEN {<<i, w>>} ELSE {}
  BY DEF Seen
<1>5. /\ \A j \in LoginIdents, v \in Nat : <<j, v>> \in a.seen => KnownWindow(j, v)
      /\ \A d \in Clients : call[d].op = "auth" => KnownWindow(call[d].ident, call[d].window)
      /\ a.seen = {} => a.n = 0
      /\ TargetsCounted
  BY DEF AbuseInv, LoginsCounted, WindowsKnown
<1>6. call[c].op = "auth" /\ call[c].ident = i /\ call[c].window = w
  OBVIOUS
<1>7. a.n \in Nat /\ a.seen \subseteq LoginIdents \X Nat
  BY <1>2, <1>3 DEF CounterRow
<1> HIDE DEF i, w, k
<1>8. counter'[k] = row /\ \A j \in Keys \ {k} : counter'[j] = counter[j]
  BY <1>2, <1>3 DEF i, k
<1>9. call'[c] = frame /\ \A d \in Clients \ {c} : call'[d] = call[d]
  BY <1>2
<1>10. counter'["account"].seen = {} => counter'["account"].n = 0
  BY <1>1, <1>3, <1>4, <1>5, <1>8
<1>11. ASSUME NEW j \in LoginIdents, counter'[j].until # 0
       PROVE  (Cardinality(InFlight(j, counter[j].until)) + Charged(j, counter[j].until))' <= counter'[j].passed
  <2> DEFINE u == counter[j].until
             v == counter'[j].until
             I == InFlight(j, u)
             J == InFlight(j, counter[j].until)'
             a2 == counter'["account"]
             charged == IF a2.seen \subseteq {<<j, v>>} THEN a2.n ELSE 0
  <2>1. J = {d \in Clients : call'[d].op = "auth" /\ call'[d].ident = j /\ call'[d].window = v}
    BY DEF InFlight
  <2>2. I = {d \in Clients : call[d].op = "auth" /\ call[d].ident = j /\ call[d].window = u} /\ IsFiniteSet(I)
    <3>1. I = {d \in Clients : call[d].op = "auth" /\ call[d].ident = j /\ call[d].window = u}
      BY DEF InFlight
    <3>2. IsFiniteSet(I)
      BY InFlightIsFinite
    <3> QED
      BY <3>1, <3>2
  <2>3. Charged(j, counter[j].until)' = charged
    BY DEF Charged
  <2>4. Charged(j, u) = IF a.seen \subseteq {<<j, u>>} THEN a.n ELSE 0
    BY DEF Charged
  <2>5. u # 0 => Cardinality(I) + Charged(j, u) <= counter[j].passed
    BY <1>5 DEF TargetsCounted
  <2>6. counter[j].passed \in Nat /\ counter[j].until \in Nat /\ counter'[j].passed \in Nat /\ j \in Keys
    BY <1>1, <1>2, <1>8, KeysAreApart DEF CounterRow
  <2>7. Charged(j, u) \in Nat
    BY <1>7, <2>4
  <2> SUFFICES Cardinality(J) + charged <= counter'[j].passed
    BY <2>3
  <2> HIDE DEF u, v, I, J, a2, charged
  <2>8. CASE check = "target" /\ j = i
    <3>1. k = i /\ a2 = a /\ counter'[j] = row /\ v = row.until /\ v # 0
      BY <1>3, <1>8, <1>11, <2>8 DEF a2, v
    <3>2. CASE u # 0
      <4>1. v = u /\ charged = Charged(j, u)
        BY <1>1, <2>4, <2>8, <3>1, <3>2 DEF u, charged
      <4>2. CASE frame.op = "auth"
        <5>1. J \subseteq I \cup {c}
          BY <1>9, <2>1, <2>2, <4>1
        <5>2. Cardinality(J) \in Nat /\ Cardinality(I) \in Nat /\ Cardinality(J) <= Cardinality(I) + 1
          BY <2>2, <5>1, OneMoreInFlight
        <5>3. counter'[j].passed = counter[j].passed + 1
          BY <1>1, <2>8, <3>1, <4>2
        <5> QED
          BY <2>5, <2>6, <2>7, <3>2, <4>1, <5>2, <5>3
      <4>3. CASE frame.op # "auth"
        <5>1. J \subseteq I
          BY <1>9, <2>1, <2>2, <4>1, <4>3
        <5>2. Cardinality(J) \in Nat /\ Cardinality(I) \in Nat /\ Cardinality(J) <= Cardinality(I)
          BY <2>2, <5>1, FewerInFlight
        <5>3. counter'[j].passed >= counter[j].passed
          BY <1>1, <2>6, <2>8, <3>1
        <5> QED
          BY <2>5, <2>6, <2>7, <3>2, <4>1, <5>2, <5>3
      <4> QED
        BY <4>2, <4>3
    <3>3. CASE u = 0
      <4>1. v = instant + Window /\ v > instant /\ v \in Nat
        BY <1>1, <1>2, <2>8, <3>1, <3>3 DEF u
      <4>2. ~KnownWindow(j, v)
        BY <3>1, <3>3, <4>1 DEF KnownWindow, u
      <4>3. <<j, v>> \notin a.seen
        BY <1>5, <4>1, <4>2
      <4>4. charged = 0
        BY <1>5, <3>1, <4>3 DEF charged
      <4>5. J \subseteq {} \cup {c} /\ (frame.op # "auth" => J = {})
        BY <1>5, <1>9, <2>1, <4>2
      <4>6. Cardinality(J) \in Nat /\ Cardinality(J) <= 1 /\ (frame.op # "auth" => Cardinality(J) = 0)
        <5>1. IsFiniteSet({}) /\ Cardinality({}) = 0
          BY FS_EmptySet
        <5>2. Cardinality(J) \in Nat /\ Cardinality(J) <= 1
          <6> DEFINE none == {}
          <6>1. J \subseteq none \cup {c} /\ IsFiniteSet(none) /\ Cardinality(none) = 0
            BY <4>5, <5>1
          <6> HIDE DEF none
          <6>2. Cardinality(J) <= Cardinality(none) + 1 /\ Cardinality(J) \in Nat
            BY ONLY <6>1, OneMoreInFlight
          <6> QED
            BY <6>1, <6>2
        <5> QED
          BY <4>5, <5>1, <5>2
      <4>7. frame.op = "auth" => counter'[j].passed = counter[j].passed + 1
        BY <1>1, <2>8, <3>1
      <4> QED
        BY <2>6, <4>4, <4>6, <4>7
    <3> QED
      BY <3>2, <3>3
  <2>9. CASE ~(check = "target" /\ j = i)
    <3>1. j # k /\ counter'[j] = counter[j] /\ v = u /\ u # 0
      BY <1>3, <1>8, <1>11, <2>6, <2>9 DEF u, v
    <3>2. J \subseteq I
      <4> SUFFICES ASSUME NEW d \in J
                   PROVE  d \in I
        OBVIOUS
      <4>1. d \in Clients /\ call'[d].op = "auth" /\ call'[d].ident = j /\ call'[d].window = v
        BY <2>1
      <4>2. CASE d # c
        BY <1>9, <2>2, <3>1, <4>1, <4>2
      <4>3. CASE d = c
        <5>1. frame.op = "auth" /\ frame.ident = j /\ frame.window = u
          BY <1>9, <3>1, <4>1, <4>3
        <5>2. i = j /\ check # "target"
          BY <1>1, <2>9, <5>1
        <5>3. w = u
          BY <1>1, <5>1, <5>2
        <5> QED
          BY <1>6, <2>2, <4>3, <5>2, <5>3
      <4> QED
        BY <4>2, <4>3
    <3>3. CASE k # "account"
      <4>1. a2 = a /\ charged = Charged(j, u)
        BY <1>3, <1>8, <2>4, <3>1, <3>3 DEF a2, charged
      <4>2. Cardinality(J) \in Nat /\ Cardinality(I) \in Nat /\ Cardinality(J) <= Cardinality(I)
        BY <2>2, <3>2, FewerInFlight
      <4> QED
        BY <2>5, <2>6, <2>7, <3>1, <4>1, <4>2
    <3>4. CASE k = "account"
      <4>1. a2 = row /\ a2.n = a.n + 1 /\ a2.seen = a.seen \cup {<<i, w>>} /\ frame.op # "auth"
        <5>1. check = "account"
          BY <1>2, <1>3, <3>4
        <5> QED
          BY <1>1, <1>4, <1>8, <3>4, <5>1 DEF a2
      <4>2. CASE <<i, w>> = <<j, u>>
        <5>1. c \in I /\ J \subseteq I \ {c}
          BY <1>6, <1>9, <2>1, <2>2, <3>2, <4>1, <4>2
        <5>2. Cardinality(J) \in Nat /\ Cardinality(I) \in Nat /\ Cardinality(J) + 1 <= Cardinality(I)
          <6>1. IsFiniteSet(I) /\ c \in I /\ J \subseteq I \ {c}
            BY <2>2, <5>1
          <6> QED
            BY ONLY <6>1, OneFewerInFlight
        <5>3. charged \in Nat /\ charged <= Charged(j, u) + 1
          BY <1>7, <2>4, <3>1, <4>1, <4>2 DEF charged
        <5> QED
          BY <2>5, <2>6, <2>7, <3>1, <5>2, <5>3
      <4>3. CASE <<i, w>> # <<j, u>>
        <5>1. charged = 0
          BY <3>1, <4>1, <4>3 DEF charged
        <5>2. Cardinality(J) \in Nat /\ Cardinality(I) \in Nat /\ Cardinality(J) <= Cardinality(I)
          BY <2>2, <3>2, FewerInFlight
        <5> QED
          BY <2>5, <2>6, <2>7, <3>1, <5>1, <5>2
      <4> QED
        BY <4>2, <4>3
    <3> QED
      BY <3>3, <3>4
  <2> QED
    BY <2>8, <2>9
<1>12. WindowsKnown'
  BY MovesKeepWindows
<1>13. TargetsCounted'
  BY <1>11 DEF TargetsCounted
<1> QED
  BY <1>10, <1>12, <1>13 DEF LoginsCounted

LEMMA CounterStep ==
  ASSUME AbuseInv, NEW c \in Clients, call[c].op = "auth", NEW check, NEW row, NEW frame,
         CounterMoves(c, check, row, frame), counter' = [counter EXCEPT ![Subject(check, call[c].ident)] = row],
         UNCHANGED <<operation, instant>>, call' = [call EXCEPT ![c] = frame]
  PROVE  AbuseInv' /\ AbuseSteps
<1>1. operation = "password_login" => LoginsCounted'
  BY MovesKeepCounts
<1>2. DOMAIN call' = Clients /\ \A d \in Clients : call'[d] \in {call[d], frame}
  BY DEF AbuseInv
<1>3. \A d \in Clients : AuthFrame(operation, call'[d])
  BY <1>2 DEF AbuseInv, CounterMoves
<1> QED
  BY <1>1, <1>2, <1>3, MovesKeepLimits DEF AbuseInv

-----------------------------------------------------------------------------
LEMMA HeadOfChecks ==
  ASSUME NEW op, NEW f, AuthFrame(op, f), f.op = "auth"
  PROVE  /\ Head(f.checks) \in AuthChecks(op) /\ Head(f.checks) = f.checks[1] /\ Len(f.checks) \in Nat /\ Len(f.checks) > 0
         /\ f.ident \in LoginIdents /\ f.window \in Nat
         /\ op = "password_login" =>
              /\ Len(f.checks) = 1 => Head(f.checks) = "account"
              /\ Head(f.checks) = "account" => Len(f.checks) = 1 /\ f.window # 0
<1> DEFINE s == f.checks
           S == AuthChecks(op)
<1>1. s \in Seq(S) /\ Len(s) > 0 /\ f.ident \in LoginIdents /\ f.window \in Nat
  BY DEF AuthFrame
<1>2. op = "password_login" => LoginShape(s) /\ (f.window = 0 <=> \E n \in 1 .. Len(s) : s[n] = "target")
  BY DEF AuthFrame
<1> HIDE DEF s, S
<1>3. Len(s) \in Nat /\ Head(s) = s[1] /\ s[1] \in S
  BY <1>1, ElementOfSeq, LenProperties
<1>4. ASSUME op = "password_login"
      PROVE  (Len(s) = 1 => s[1] = "account") /\ (s[1] = "account" => Len(s) = 1 /\ f.window # 0)
  <2>1. LoginShape(s) /\ 1 \in 1 .. Len(s)
    BY <1>1, <1>2, <1>3, <1>4
  <2>2. s[1] = "account" => Len(s) = 1
    BY <2>1 DEF LoginShape
  <2>3. ASSUME s[1] = "account"
        PROVE  f.window # 0
    <3>1. 1 .. Len(s) = {1}
      <4>1. Len(s) = 1
        BY <2>2, <2>3
      <4>2. 1 .. 1 = {1}
        OBVIOUS
      <4> QED
        BY <4>1, <4>2
    <3>2. \A n \in 1 .. Len(s) : s[n] # "target"
      BY <2>3, <3>1
    <3> QED
      BY <1>2, <1>4, <3>2
  <2> QED
    BY <2>1, <2>2, <2>3 DEF LoginShape
<1> QED
  BY <1>1, <1>3, <1>4 DEF s, S

\* The request after a check that it passes.
LEMMA NextCheck ==
  ASSUME NEW op, NEW f, AuthFrame(op, f), f.op = "auth", Len(f.checks) > 1,
         NEW w \in Nat, w = f.window \/ (Head(f.checks) = "target" /\ w # 0), Head(f.checks) = "target" => w # 0
  PROVE  AuthFrame(op, [[f EXCEPT !.window = w] EXCEPT !.checks = Tail(@)])
<1> DEFINE s == f.checks
           S == AuthChecks(op)
           t == Tail(s)
           q == [f EXCEPT !.window = w]
           g == [q EXCEPT !.checks = Tail(@)]
<1>1. /\ f \in [op : {"auth"}, ident : LoginIdents, token : {"none", "given"}, checks : Seq(S), window : Nat]
      /\ op = "password_login" => LoginShape(s) /\ (f.window = 0 <=> \E n \in 1 .. Len(s) : s[n] = "target")
  BY DEF AuthFrame
<1>2. s \in Seq(S) /\ Len(s) > 1
  BY <1>1
<1>3. s[1] = Head(s)
  BY HeadOfChecks
<1>4. /\ q \in [op : {"auth"}, ident : LoginIdents, token : {"none", "given"}, checks : Seq(S), window : Nat]
      /\ q.checks = s /\ q.window = w
  BY <1>1
<1> HIDE DEF s, S, t, q
<1>5. t \in Seq(S) /\ Len(t) = Len(s) - 1 /\ Len(s) \in Nat
  BY <1>2, HeadTailProperties, LenProperties DEF t
<1>6. /\ g \in [op : {"auth"}, ident : LoginIdents, token : {"none", "given"}, checks : Seq(S), window : Nat]
      /\ g.checks = t /\ g.window = w /\ g.op = "auth"
  BY <1>4, <1>5 DEF t
<1>7. ASSUME op = "password_login"
      PROVE  LoginShape(t) /\ (w = 0 <=> \E n \in 1 .. Len(t) : t[n] = "target")
  <2>1. LoginShape(t) /\ ((\E n \in 1 .. Len(t) : t[n] = "target")
                            <=> (s[1] # "target" /\ \E n \in 1 .. Len(s) : s[n] = "target"))
    BY <1>1, <1>2, <1>7, LoginShapeOfTail DEF t
  <2> QED
    BY <1>1, <1>3, <1>7, <2>1 DEF s
<1> HIDE DEF g
<1>8. Len(g.checks) > 0
  BY <1>2, <1>5, <1>6
<1>9. AuthFrame(op, g)
  BY <1>6, <1>7, <1>8 DEF AuthFrame, S
<1> QED
  BY <1>9 DEF g, q

LEMMA AnsweredFrames ==
  ASSUME NEW op, NEW answer, NEW excused,
         op = "password_login" /\ answer = "limited_account" => excused
  PROVE  /\ AuthFrame(op, [op |-> "answered", answer |-> answer, excused |-> excused])
         /\ [op |-> "answered", answer |-> answer, excused |-> excused].op = "answered"
         /\ AuthFrame(op, [op |-> "answered", excused |-> excused, answer |-> answer])
         /\ [op |-> "answered", excused |-> excused, answer |-> answer].op = "answered"
BY DEF AuthFrame

\* A login that its account alone refuses: another identifier, or another window, came before it.
LEMMA AccountExcused ==
  ASSUME AbuseInv, operation = "password_login", NEW c \in Clients, call[c].op = "auth",
         Head(call[c].checks) = "account", counter["account"].n + 1 > MaxOf("account")
  PROVE  Excused(call[c])
<1> DEFINE i == call[c].ident
           w == call[c].window
           a == counter["account"]
           u == counter[i].until
           I == InFlight(i, u)
<1>1. i \in LoginIdents /\ i \in Keys /\ "account" \in Keys /\ w # 0
  BY HeadOfChecks, KeysAreApart DEF AbuseInv
<1>2. a.n \in Nat /\ counter[i].passed \in Nat
  BY <1>1 DEF AbuseInv, CounterRow
<1>3. MaxOf("account") = MaxOf("target") /\ MaxOf("target") \in Nat /\ "target" \in DOMAIN For(operation)
  <2>1. For(operation) = [ip |-> "ip", target |-> "account", account |-> "account"]
    BY DEF For, Sensitive
  <2> QED
    BY <2>1, MaximumIsPositive DEF MaxOf
<1>4. counter[i].passed <= MaxOf("target")
  BY <1>1, <1>3 DEF AbuseInv, KeptBelow
<1>5. u # 0 => Cardinality(I) + Charged(i, u) <= counter[i].passed
  BY <1>1 DEF AbuseInv, LoginsCounted, TargetsCounted
<1>6. SUFFICES ASSUME \A x \in a.seen \cup {<<i, w>>} : x = <<i, u>>
               PROVE  FALSE
  BY DEF Excused
<1>7. w = u /\ a.seen \subseteq {<<i, u>>}
  BY <1>6
<1>8. c \in I /\ Charged(i, u) = a.n
  BY <1>7 DEF InFlight, Charged
<1>9. IsFiniteSet(I) /\ {c} \subseteq I
  BY <1>8, InFlightIsFinite
<1> HIDE DEF I
<1>10. Cardinality(I) \in Nat /\ Cardinality(I) >= 1
  <2>1. Cardinality({c}) = 1
    BY FS_Singleton
  <2> QED
    BY <1>9, <2>1, FewerInFlight
<1> HIDE DEF a, u
<1>11. Cardinality(I) + a.n <= counter[i].passed
  BY <1>1, <1>5, <1>7, <1>8
<1> QED
  BY <1>2, <1>3, <1>4, <1>10, <1>11 DEF a

\* A request begins.
LEMMA AskAuthStep ==
  ASSUME AbuseInv, NEW c \in Clients, AskAuth(c)
  PROVE  AbuseInv' /\ AbuseSteps
<1>1. PICK ident \in IdentsOf(operation), token \in (IF operation \in Challenged THEN {"none", "given"} ELSE {"none"}) :
         Proceed(c, [op |-> "auth", ident |-> ident, token |-> token, checks |-> ChecksOf(operation), window |-> 0])
  BY DEF AskAuth
<1> DEFINE f == [op |-> "auth", ident |-> ident, token |-> token, checks |-> ChecksOf(operation), window |-> 0]
<1>2. ident \in LoginIdents /\ token \in {"none", "given"}
  BY AbuseAssumption DEF IdentsOf
<1>3. ChecksOf(operation) \in Seq(AuthChecks(operation)) /\ Len(ChecksOf(operation)) > 0
  BY ChecksAreASequence
<1>4. operation = "password_login" => LoginShape(ChecksOf(operation))
        /\ \E n \in 1 .. Len(ChecksOf(operation)) : ChecksOf(operation)[n] = "target"
  BY LoginChecks
<1>5. AuthFrame(operation, f) /\ f.op = "auth" /\ f.window = 0
  BY <1>2, <1>3, <1>4 DEF AuthFrame
<1> HIDE DEF f
<1>6. call' = [call EXCEPT ![c] = f] /\ UNCHANGED abuseVars
  BY <1>1 DEF f, Proceed, AskAuth
<1>7. DOMAIN call' = Clients /\ \A d \in Clients : call'[d] = call[d] \/ call'[d] = f
  BY <1>6 DEF AbuseInv
<1>8. \A d \in Clients : AuthFrame(operation, call'[d])
  BY <1>5, <1>7 DEF AbuseInv
<1> QED
  BY <1>5, <1>6, <1>7, <1>8, CountsKept

\* A request is answered, with the counters as they are.
LEMMA AnswerStep ==
  ASSUME AbuseInv, NEW c \in Clients, NEW answer, AnswerAuth(c, answer), UNCHANGED abuseVars
  PROVE  AbuseInv' /\ AbuseSteps
<1> DEFINE g == [op |-> "answered", answer |-> answer, excused |-> TRUE]
<1>1. AuthFrame(operation, g) /\ g.op = "answered"
  BY AnsweredFrames
<1> HIDE DEF g
<1>2. call' = [call EXCEPT ![c] = g]
  BY DEF g, AnswerAuth, Proceed
<1>3. DOMAIN call' = Clients /\ \A d \in Clients : call'[d] = call[d] \/ call'[d] = g
  BY <1>2 DEF AbuseInv
<1>4. \A d \in Clients : AuthFrame(operation, call'[d])
  BY <1>1, <1>3 DEF AbuseInv
<1> QED
  BY <1>1, <1>3, <1>4, CountsKept

\* The frame of a request that goes on, w being its window from then on.
LEMMA GoOnFrame ==
  ASSUME NEW op, NEW f, AuthFrame(op, f), f.op = "auth", NEW c, NEW w \in Nat,
         w = f.window \/ (Head(f.checks) = "target" /\ w # 0), Head(f.checks) = "target" => w # 0,
         GoOn(c, [f EXCEPT !.window = w])
  PROVE  \E frame : /\ call' = [call EXCEPT ![c] = frame]
                    /\ AuthFrame(op, frame)
                    /\ frame.op \in {"auth", "answered"}
                    /\ frame.op = "auth" => frame.ident = f.ident /\ frame.window = w /\ Len(f.checks) # 1
<1> DEFINE q == [f EXCEPT !.window = w]
           S == AuthChecks(op)
<1>1. f \in [op : {"auth"}, ident : LoginIdents, token : {"none", "given"}, checks : Seq(S), window : Nat]
  BY DEF AuthFrame
<1>2. q.checks = f.checks /\ q.ident = f.ident /\ q.window = w /\ q.op = "auth"
      /\ q \in [op : {"auth"}, ident : LoginIdents, token : {"none", "given"}, checks : Seq(S), window : Nat]
  BY <1>1
<1>3. CASE Len(f.checks) = 1
  <2> DEFINE g == [op |-> "answered", answer |-> "allowed", excused |-> TRUE]
  <2>1. AuthFrame(op, g) /\ g.op = "answered"
    BY AnsweredFrames
  <2> HIDE DEF g, q
  <2>2. call' = [call EXCEPT ![c] = g]
    BY <1>2, <1>3 DEF g, q, GoOn, AnswerAuth, Proceed
  <2> QED
    BY <2>1, <2>2
<1>4. CASE Len(f.checks) # 1
  <2> DEFINE g == [q EXCEPT !.checks = Tail(@)]
  <2>1. Len(f.checks) > 1
    <3> DEFINE n == Len(f.checks)
    <3>1. n \in Nat /\ n > 0 /\ n # 1
      BY <1>4, HeadOfChecks
    <3> HIDE DEF n
    <3>2. n > 1
      BY <3>1
    <3> QED
      BY <3>2 DEF n
  <2>2. AuthFrame(op, g)
    BY <2>1, NextCheck
  <2> HIDE DEF q
  <2>3. g.op = "auth" /\ g.ident = f.ident /\ g.window = w
    BY <1>2
  <2>4. call' = [call EXCEPT ![c] = g]
    BY <1>2, <1>4 DEF GoOn, Proceed, q
  <2> HIDE DEF g
  <2> QED
    BY <1>4, <2>2, <2>3, <2>4
<1> QED
  BY <1>3, <1>4

\* A request passes a check that counts nothing.
LEMMA GoOnStep ==
  ASSUME AbuseInv, NEW c \in Clients, call[c].op = "auth", Head(call[c].checks) # "target", GoOn(c, call[c]),
         UNCHANGED abuseVars
  PROVE  AbuseInv' /\ AbuseSteps
<1> DEFINE w == call[c].window
<1>1. AuthFrame(operation, call[c]) /\ w \in Nat
  BY HeadOfChecks DEF AbuseInv
<1>2. call[c] = [call[c] EXCEPT !.window = w]
  BY <1>1 DEF AuthFrame
<1>3. GoOn(c, [call[c] EXCEPT !.window = w])
  BY <1>2
<1>4. PICK frame : /\ call' = [call EXCEPT ![c] = frame]
                   /\ AuthFrame(operation, frame)
                   /\ frame.op \in {"auth", "answered"}
                   /\ frame.op = "auth" => frame.ident = call[c].ident /\ frame.window = w
  BY <1>1, <1>3, GoOnFrame
<1>5. DOMAIN call' = Clients /\ \A d \in Clients : call'[d] = call[d] \/ (d = c /\ call'[d] = frame)
  BY <1>4 DEF AbuseInv
<1>6. \A d \in Clients : AuthFrame(operation, call'[d])
  BY <1>4, <1>5 DEF AbuseInv
<1> QED
  BY <1>4, <1>5, <1>6, CountsKept

LEMMA CheckDimensionStep ==
  ASSUME AbuseInv, NEW c \in Clients, call[c].op = "auth", CheckDimension(c)
  PROVE  AbuseInv' /\ AbuseSteps
<1> DEFINE f == call[c]
           check == Head(f.checks)
           k == Subject(check, f.ident)
           next == Incremented(k, f)
<1>1. AuthFrame(operation, f) /\ f.ident \in LoginIdents /\ f.window \in Nat /\ check \in AuthChecks(operation)
  BY HeadOfChecks DEF AbuseInv
<1>2. check \in DOMAIN For(operation) \cup {"replay"} /\ UNCHANGED <<operation, instant>>
  BY <1>1 DEF CheckDimension, AuthChecks
<1>3. k \in Keys
  BY <1>1, <1>2, KeysAreApart, LimitsOfOperation DEF Subject
<1>4. /\ next \in CounterRow
      /\ next.n = counter[k].n + 1 /\ next.passed = counter[k].passed
      /\ next.seen = counter[k].seen \cup Seen(k, f)
      /\ next.until = (IF counter[k].until = 0 THEN instant + Window ELSE counter[k].until)
      /\ next.until # 0
  BY <1>1, <1>3, IncrementedRow
<1>5. counter[k].n \in Nat /\ counter[k].passed \in Nat /\ next.until \in Nat
  BY <1>3, <1>4 DEF AbuseInv, CounterRow
<1>6. CASE next.n > MaxOf(check)
  <2> DEFINE answer == IF check = "replay" THEN "forbidden" ELSE LimitedBy[check]
             g == [op |-> "answered", excused |-> Excused(f), answer |-> answer]
  <2>1. counter' = [counter EXCEPT ![k] = next] /\ call' = [call EXCEPT ![c] = g]
    BY <1>6 DEF CheckDimension, Proceed
  <2>2. operation = "password_login" /\ answer = "limited_account" => Excused(f)
    <3> SUFFICES ASSUME operation = "password_login", answer = "limited_account"
                 PROVE  Excused(f)
      OBVIOUS
    <3>1. check = "account"
      BY <1>2, LimitsOfOperation DEF LimitedBy
    <3>2. k = "account"
      BY <3>1 DEF Subject
    <3> QED
      BY <1>4, <1>6, <3>1, <3>2, AccountExcused
  <2>3. AuthFrame(operation, g) /\ g.op = "answered"
    BY <2>2, AnsweredFrames
  <2> HIDE DEF next, g
  <2>4. CounterMoves(c, check, next, g)
    BY <1>2, <1>4, <2>3 DEF CounterMoves
  <2> QED
    BY <1>2, <2>1, <2>4, CounterStep
<1>7. CASE ~(next.n > MaxOf(check))
  <2> DEFINE w == IF check = "target" THEN next.until ELSE f.window
             row == [next EXCEPT !.passed = @ + 1]
  <2>1. counter' = [counter EXCEPT ![k] = row] /\ GoOn(c, [f EXCEPT !.window = w])
    BY <1>1, <1>7 DEF CheckDimension, AuthFrame
  <2>2. w \in Nat /\ (check = "target" => w # 0) /\ (check # "target" => w = f.window)
    BY <1>1, <1>4, <1>5
  <2>3. PICK g : /\ call' = [call EXCEPT ![c] = g]
                 /\ AuthFrame(operation, g)
                 /\ g.op \in {"auth", "answered"}
                 /\ g.op = "auth" => g.ident = f.ident /\ g.window = w /\ Len(f.checks) # 1
    <3> HIDE DEF w
    <3> QED
      BY <1>1, <2>1, <2>2, GoOnFrame
  <2>4. operation = "password_login" /\ g.op = "auth" => check # "account"
    BY <1>1, <2>3, HeadOfChecks
  <2>5. MaxOf(check) \in Nat
    BY <1>2, MaximumIsPositive
  <2>6. row \in CounterRow /\ row.n = next.n /\ row.passed = counter[k].passed + 1 /\ row.seen = next.seen
        /\ row.until = next.until
    <3> HIDE DEF next
    <3> QED
      BY <1>4, <1>5 DEF CounterRow
  <2>7. row.n <= MaxOf(check)
    BY <1>4, <1>5, <1>7, <2>5, <2>6
  <2> HIDE DEF row, next
  <2>8. CounterMoves(c, check, row, g)
    BY <1>2, <1>4, <2>3, <2>4, <2>6, <2>7 DEF CounterMoves
  <2> QED
    BY <1>2, <2>1, <2>3, <2>8, CounterStep
<1> QED
  BY <1>6, <1>7

\* What a counter that does not answer has counted is charged to nobody that is let through.
LEMMA CounterFailsStep ==
  ASSUME AbuseInv, NEW c \in Clients, call[c].op = "auth", CounterFails(c)
  PROVE  AbuseInv' /\ AbuseSteps
<1> DEFINE f == call[c]
           check == Head(f.checks)
           k == Subject(check, f.ident)
           next == Incremented(k, f)
           g == [op |-> "answered", answer |-> "unavailable", excused |-> TRUE]
<1>1. AuthFrame(operation, f) /\ f.ident \in LoginIdents /\ f.window \in Nat /\ check \in AuthChecks(operation)
  BY HeadOfChecks DEF AbuseInv
<1>2. check \in DOMAIN For(operation) \cup {"replay"} /\ UNCHANGED <<operation, instant>>
  BY <1>1 DEF CounterFails, AuthChecks
<1>3. k \in Keys
  BY <1>1, <1>2, KeysAreApart, LimitsOfOperation DEF Subject
<1>4. AuthFrame(operation, g) /\ g.op = "answered" /\ call' = [call EXCEPT ![c] = g]
  BY AnsweredFrames DEF CounterFails, AnswerAuth, Proceed
<1>5. CASE counter' = counter
  BY <1>2, <1>5, AnswerStep DEF CounterFails, abuseVars
<1>6. CASE counter' = [counter EXCEPT ![k] = next]
  <2>1. /\ next \in CounterRow
        /\ next.n = counter[k].n + 1 /\ next.passed = counter[k].passed
        /\ next.seen = counter[k].seen \cup Seen(k, f)
        /\ next.until = (IF counter[k].until = 0 THEN instant + Window ELSE counter[k].until)
        /\ next.until # 0
    BY <1>1, <1>3, IncrementedRow
  <2> HIDE DEF next, g
  <2>2. CounterMoves(c, check, next, g)
    BY <1>2, <1>4, <2>1 DEF CounterMoves
  <2> QED
    BY <1>2, <1>4, <1>6, <2>2, CounterStep
<1> QED
  BY <1>5, <1>6 DEF CounterFails

LEMMA AbuseStep ==
  ASSUME AbuseInv, AbuseNext
  PROVE  AbuseInv' /\ AbuseSteps
<1>1. CASE Tick
  BY <1>1, AbuseTick
<1>2. ASSUME NEW c \in Clients, AskAuth(c)
      PROVE  AbuseInv' /\ AbuseSteps
  BY <1>2, AskAuthStep
<1>3. ASSUME NEW c \in Clients, call[c].op = "auth", CheckDimension(c)
      PROVE  AbuseInv' /\ AbuseSteps
  BY <1>3, CheckDimensionStep
<1>4. ASSUME NEW c \in Clients, call[c].op = "auth", CounterFails(c)
      PROVE  AbuseInv' /\ AbuseSteps
  BY <1>4, CounterFailsStep
<1>5. ASSUME NEW c \in Clients, call[c].op = "auth", EvaluateChallenge(c)
      PROVE  AbuseInv' /\ AbuseSteps
  <2>1. UNCHANGED abuseVars /\ Head(call[c].checks) # "target"
        /\ (GoOn(c, call[c]) \/ \E answer : AnswerAuth(c, answer))
    BY <1>5 DEF EvaluateChallenge
  <2> QED
    BY <1>5, <2>1, GoOnStep, AnswerStep
<1>6. ASSUME NEW c \in Clients, call[c].op = "auth", ResolveAccount(c)
      PROVE  AbuseInv' /\ AbuseSteps
  <2>1. UNCHANGED abuseVars /\ Head(call[c].checks) # "target"
        /\ (GoOn(c, call[c]) \/ \E answer : AnswerAuth(c, answer))
    BY <1>6 DEF ResolveAccount
  <2> QED
    BY <1>6, <2>1, GoOnStep, AnswerStep
<1>7. ASSUME NEW c \in Clients, Return(c), UNCHANGED abuseVars
      PROVE  AbuseInv' /\ AbuseSteps
  <2>1. DOMAIN call' = Clients /\ \A d \in Clients : call'[d] \in {call[d], Idle}
    BY <1>7 DEF Return, AbuseInv
  <2> QED
    BY <1>7, <2>1, AbuseEnd
<1> QED
  BY <1>1, <1>2, <1>3, <1>4, <1>5, <1>6, <1>7 DEF AbuseNext

LEMMA AbuseTold ==
  ASSUME AbuseInv
  PROVE  AbuseStory
BY DEF AbuseInv, AbuseStory, KeptBelow, AuthFrame

\* Where the behaviour is not about authentication, nothing is counted.
LEMMA AbuseDoneTold ==
  ASSUME AbuseDone
  PROVE  AbuseStory
<1>1. operation = "none" /\ \A k \in Keys : counter[k] = NoCounter
  BY DEF AbuseDone
<1>2. \A k \in Keys : counter[k].passed = 0
  BY <1>1, NoCounterIsARow
<1>3. \A k \in LoginIdents : "target" \in DOMAIN For(operation) => counter[k].passed <= MaxOf("target")
  BY <1>2, KeysAreApart, MaximaAreNumbers
<1>4. \A k \in Limited : counter[k].passed <= MaxOf(k)
  BY <1>2, KeysAreApart, MaximaAreNumbers
<1> QED
  BY <1>1, <1>3, <1>4 DEF AbuseStory

-----------------------------------------------------------------------------
(* The handlers in front of the services *)

\* Steps that look at no body.
PlainSteps ==
  {"query", "origin", "session", "csrf", "credential", "permission", "path", "content", "read", "write", "recheck"}

StepNames == PlainSteps \cup {"body", "opt_body"}

\* A sequence of steps, of which only reads, writes and rechecks follow a write.
Tidy(s) ==
  /\ s \in Seq(StepNames) /\ Len(s) > 0
  /\ \A i, j \in 1 .. Len(s) : i < j /\ s[i] = "write" => s[j] \in {"read", "write", "recheck"}

\* One that writes, if at all, in its last step.
WritesLast(s) ==
  /\ s \in Seq(StepNames) /\ Len(s) > 0
  /\ \A i \in 1 .. Len(s) : i < Len(s) => s[i] # "write"

Plain(s) == \A i \in 1 .. Len(s) : s[i] \in PlainSteps

\* The checks that come before the handler's own.
IsGate(g) == g \in Seq(StepNames) /\ \A i \in 1 .. Len(g) : g[i] \in PlainSteps \ {"write"}

LEMMA GatesAreGates ==
  /\ IsGate(<<>>) /\ IsGate(<<"session">>) /\ IsGate(<<"query">>) /\ IsGate(<<"content">>) /\ IsGate(<<"credential">>)
  /\ IsGate(<<"query", "session">>) /\ IsGate(<<"credential", "permission">>)
  /\ IsGate(<<"origin", "session", "csrf">>) /\ IsGate(<<"query", "origin", "session", "csrf">>)
<1> DEFINE G == PlainSteps \ {"write"}
<1>1. {"query", "origin", "session", "csrf", "credential", "permission", "content"} \subseteq G /\ G \subseteq StepNames
  BY DEF PlainSteps, StepNames
<1> HIDE DEF G
<1>2. IsGate(<<>>)
  BY DEF IsGate
<1>3. \A a \in G : IsGate(<<a>>)
  BY <1>1 DEF IsGate, G
<1>4. \A a, b \in G : IsGate(<<a, b>>)
  BY <1>1 DEF IsGate, G
<1>5. \A a, b, c \in G : IsGate(<<a, b, c>>)
  BY <1>1 DEF IsGate, G
<1>6. \A a, b, c, d \in G : IsGate(<<a, b, c, d>>)
  BY <1>1 DEF IsGate, G
<1> QED
  BY <1>1, <1>2, <1>3, <1>4, <1>5, <1>6

LEMMA HandlersThatWriteLast ==
  /\ \A a \in StepNames : WritesLast(<<a>>)
  /\ \A a, b \in StepNames : a # "write" => WritesLast(<<a, b>>)
  /\ \A a, b, c \in StepNames : "write" \notin {a, b} => WritesLast(<<a, b, c>>)
  /\ \A a, b, c, d \in StepNames : "write" \notin {a, b, c} => WritesLast(<<a, b, c, d>>)
  /\ \A a, b, c, d, e \in StepNames : "write" \notin {a, b, c, d} => WritesLast(<<a, b, c, d, e>>)
  /\ \A a, b, c, d, e, f \in StepNames : "write" \notin {a, b, c, d, e} => WritesLast(<<a, b, c, d, e, f>>)
<1>1. \A a \in StepNames : WritesLast(<<a>>)
  BY DEF WritesLast
<1>2. \A a, b \in StepNames : a # "write" => WritesLast(<<a, b>>)
  BY DEF WritesLast
<1>3. \A a, b, c \in StepNames : "write" \notin {a, b} => WritesLast(<<a, b, c>>)
  BY DEF WritesLast
<1>4. \A a, b, c, d \in StepNames : "write" \notin {a, b, c} => WritesLast(<<a, b, c, d>>)
  BY DEF WritesLast
<1>5. \A a, b, c, d, e \in StepNames : "write" \notin {a, b, c, d} => WritesLast(<<a, b, c, d, e>>)
  BY DEF WritesLast
<1>6. \A a, b, c, d, e, f \in StepNames : "write" \notin {a, b, c, d, e} => WritesLast(<<a, b, c, d, e, f>>)
  BY DEF WritesLast
<1> QED
  BY <1>1, <1>2, <1>3, <1>4, <1>5, <1>6

LEMMA PlainHandlers ==
  /\ \A a \in PlainSteps : Plain(<<a>>)
  /\ \A a, b \in PlainSteps : Plain(<<a, b>>)
  /\ \A a, b, c \in PlainSteps : Plain(<<a, b, c>>)
  /\ \A a, b, c, d \in PlainSteps : Plain(<<a, b, c, d>>)
  /\ \A a, b, c, d, e, f \in PlainSteps : Plain(<<a, b, c, d, e, f>>)
BY DEF Plain

LEMMA RoutesHaveSteps ==
  ASSUME NEW kind, NEW gate, NEW handlers, IsGate(gate), NEW r \in Routes(kind, gate, handlers)
  PROVE  \E h \in handlers : r.steps = gate \o h
BY DEF Routes

LEMMA GateBeforeHandler ==
  ASSUME NEW g, IsGate(g), NEW h, h \in Seq(StepNames)
  PROVE  /\ WritesLast(h) => WritesLast(g \o h)
         /\ Tidy(h) => Tidy(g \o h)
         /\ Plain(h) => Plain(g \o h)
<1> DEFINE s == g \o h
           m == Len(g)
           n == Len(h)
<1>1. /\ m \in Nat /\ n \in Nat /\ s \in Seq(StepNames) /\ Len(s) = m + n
      /\ \A i \in 1 .. m + n : s[i] = IF i <= m THEN g[i] ELSE h[i - m]
  BY ConcatProperties, LenProperties DEF IsGate
<1>2. \A i \in 1 .. m : g[i] \in PlainSteps /\ g[i] # "write"
  BY DEF IsGate
<1> HIDE DEF s, m, n
<1>3. ASSUME NEW i \in 1 .. m + n
      PROVE  \/ s[i] \in PlainSteps /\ s[i] # "write"
             \/ i > m /\ i - m \in 1 .. n /\ s[i] = h[i - m]
  <2>1. CASE i <= m
    BY <1>1, <1>2, <2>1
  <2>2. CASE i > m
    BY <1>1, <2>2
  <2> QED
    BY <1>1, <2>1, <2>2
<1>4. WritesLast(h) => WritesLast(s)
  <2> SUFFICES ASSUME n > 0, \A i \in 1 .. n : i < n => h[i] # "write"
               PROVE  WritesLast(s)
    BY DEF WritesLast, n
  <2>1. \A i \in 1 .. m + n : i < m + n => s[i] # "write"
    <3> SUFFICES ASSUME NEW i \in 1 .. m + n, i < m + n
                 PROVE  s[i] # "write"
      OBVIOUS
    <3>1. CASE i > m /\ i - m \in 1 .. n /\ s[i] = h[i - m]
      <4>1. i - m < n
        BY <1>1
      <4> QED
        BY <3>1, <4>1
    <3> QED
      BY <1>3, <3>1
  <2> QED
    BY <1>1, <2>1 DEF WritesLast
<1>5. Tidy(h) => Tidy(s)
  <2> SUFFICES ASSUME n > 0, \A i, j \in 1 .. n : i < j /\ h[i] = "write" => h[j] \in {"read", "write", "recheck"}
               PROVE  Tidy(s)
    BY DEF Tidy, n
  <2>1. ASSUME NEW i \in 1 .. m + n, NEW j \in 1 .. m + n, i < j, s[i] = "write"
        PROVE  s[j] \in {"read", "write", "recheck"}
    <3>1. i > m /\ i - m \in 1 .. n /\ h[i - m] = "write"
      BY <1>3, <2>1
    <3>2. j - m \in 1 .. n /\ i - m < j - m /\ s[j] = h[j - m]
      BY <1>1, <2>1, <3>1
    <3> QED
      BY <3>1, <3>2
  <2> QED
    BY <1>1, <2>1 DEF Tidy
<1>6. Plain(h) => Plain(s)
  <2> SUFFICES ASSUME \A i \in 1 .. n : h[i] \in PlainSteps
               PROVE  Plain(s)
    BY DEF Plain, n
  <2> QED
    BY <1>1, <1>3 DEF Plain
<1> QED
  BY <1>4, <1>5, <1>6 DEF s

LEMMA RoutesThatWriteLast ==
  ASSUME NEW kind, NEW gate, NEW handlers, IsGate(gate), \A h \in handlers : WritesLast(h)
  PROVE  \A r \in Routes(kind, gate, handlers) : WritesLast(r.steps)
<1> SUFFICES ASSUME NEW r \in Routes(kind, gate, handlers)
             PROVE  WritesLast(r.steps)
  OBVIOUS
<1>1. PICK h \in handlers : r.steps = gate \o h
  BY RoutesHaveSteps
<1>2. WritesLast(h) /\ h \in Seq(StepNames)
  BY DEF WritesLast
<1> QED
  BY <1>1, <1>2, GateBeforeHandler

\* The handlers of all packages that write in their last step, and those that write nothing.
LastHandlers ==
  {<<"read">>, <<"write">>, <<"body", "write">>, <<"content", "read">>, <<"opt_body", "write">>,
   <<"path", "read">>, <<"path", "write">>, <<"body", "content", "write">>, <<"content", "read", "read">>,
   <<"credential", "body", "write">>, <<"path", "body", "write">>, <<"path", "content", "read">>,
   <<"path", "opt_body", "write">>, <<"path", "path", "read">>, <<"path", "read", "read">>,
   <<"path", "body", "content", "write">>, <<"path", "body", "read", "write">>,
   <<"path", "path", "body", "write">>, <<"path", "path", "opt_body", "write">>,
   <<"path", "read", "opt_body", "write">>, <<"path", "read", "read", "read">>,
   <<"path", "body", "read", "content", "write">>, <<"path", "path", "body", "permission", "write">>,
   <<"path", "read", "body", "content", "write">>, <<"path", "read", "opt_body", "read", "write">>,
   <<"path", "path", "body", "read", "content", "write">>, <<"query", "path", "read", "read", "read", "read">>}

BodylessHandlers ==
  {<<"read">>, <<"write">>, <<"content", "read">>, <<"path", "read">>, <<"path", "write">>,
   <<"content", "read", "read">>, <<"path", "content", "read">>, <<"path", "path", "read">>,
   <<"path", "read", "read">>, <<"path", "read", "read", "read">>,
   <<"query", "path", "read", "read", "read", "read">>}

LEMMA LastHandlersWriteLast == \A h \in LastHandlers : WritesLast(h)
  BY HandlersThatWriteLast DEF LastHandlers, StepNames, PlainSteps

LEMMA BodylessHandlersArePlain == \A h \in BodylessHandlers : Plain(h) /\ WritesLast(h)
<1>1. \A h \in BodylessHandlers : h \in LastHandlers
  BY DEF BodylessHandlers, LastHandlers
<1>2. \A h \in BodylessHandlers : Plain(h)
  <2> DEFINE P == PlainSteps
  <2>1. {"query", "path", "content", "read", "write"} \subseteq P
    BY DEF PlainSteps
  <2> HIDE DEF P
  <2>2. /\ \A a \in P : Plain(<<a>>)
        /\ \A a, b \in P : Plain(<<a, b>>)
        /\ \A a, b, c \in P : Plain(<<a, b, c>>)
        /\ \A a, b, c, d \in P : Plain(<<a, b, c, d>>)
        /\ \A a, b, c, d, e, f \in P : Plain(<<a, b, c, d, e, f>>)
    BY PlainHandlers DEF P
  <2> QED
    BY <2>1, <2>2 DEF BodylessHandlers
<1> QED
  BY <1>1, <1>2, LastHandlersWriteLast

LEMMA RoutesWriteLast ==
  /\ \A r \in MessagingRoutes : WritesLast(r.steps)
  /\ \A r \in FavoritesRoutes : WritesLast(r.steps)
  /\ \A r \in SavedSearchRoutes : WritesLast(r.steps)
  /\ \A r \in OfferedServiceRoutes : WritesLast(r.steps)
  /\ \A r \in ServiceStatusRoutes : WritesLast(r.steps)
  /\ \A r \in TransactionRoutes : WritesLast(r.steps)
  /\ \A r \in DeliveryRoutes : WritesLast(r.steps)
  /\ \A r \in OfferRoutes : WritesLast(r.steps)
  /\ \A r \in DisputeRoutes : WritesLast(r.steps)
  /\ \A r \in NeedRoutes : WritesLast(r.steps)
  /\ \A r \in PaymentRoutes : WritesLast(r.steps)
  /\ \A r \in PreferenceRoutes : WritesLast(r.steps)
  /\ \A r \in InboxRoutes : WritesLast(r.steps)
  /\ \A r \in AppointmentRoutes : WritesLast(r.steps)
  /\ \A r \in FlowRoutes : WritesLast(r.steps)
  /\ \A r \in ReviewRoutes : WritesLast(r.steps)
  /\ \A r \in ReportRoutes : WritesLast(r.steps)
  /\ \A r \in DraftRoutes : WritesLast(r.steps)
  /\ \A r \in ListingRoutes : WritesLast(r.steps)
  /\ \A r \in ListingEidsRoutes : WritesLast(r.steps)
  /\ \A r \in PublicListingRoutes : WritesLast(r.steps)
  /\ \A r \in ProfileRoutes : WritesLast(r.steps)
  /\ \A r \in TrustRoutes : WritesLast(r.steps)
  /\ \A r \in SummaryRoutes : WritesLast(r.steps)
  /\ \A r \in MasterDataRoutes : WritesLast(r.steps)
  /\ \A r \in SearchRoutes : WritesLast(r.steps)
  /\ \A r \in DisputeStaffRoutes : WritesLast(r.steps)
  /\ \A r \in ReportStaffRoutes : WritesLast(r.steps)
  /\ \A r \in CaseStaffRoutes : WritesLast(r.steps)
  /\ \A r \in CaseEditRoutes : WritesLast(r.steps)
  /\ \A r \in ActionStaffRoutes : WritesLast(r.steps)
  /\ \A r \in AppealStaffRoutes : WritesLast(r.steps)
  /\ \A r \in ListingStaffRoutes : WritesLast(r.steps)
  /\ \A r \in TrustStaffRoutes : WritesLast(r.steps)
  /\ \A r \in SummaryStaffRoutes : WritesLast(r.steps)
  /\ \A r \in ProfileStaffRoutes : WritesLast(r.steps)
  /\ \A r \in DecisionRoutes : WritesLast(r.steps)
<1> DEFINE Last(routes) == \A r \in routes : WritesLast(r.steps)
<1>0. \A kind, gate, handlers : IsGate(gate) /\ handlers \subseteq LastHandlers => Last(Routes(kind, gate, handlers))
  BY LastHandlersWriteLast, RoutesThatWriteLast
<1> HIDE DEF Last
<1>u. \A A, B : Last(A) /\ Last(B) => Last(A \cup B)
  BY DEF Last
<1>1. Last(MessagingRoutes)
  BY <1>0, <1>u, GatesAreGates DEF MessagingRoutes, MessagingGate, LastHandlers
<1>2. Last(FavoritesRoutes)
  BY <1>0, <1>u, GatesAreGates DEF FavoritesRoutes, FavoritesGate, LastHandlers
<1>3. Last(SavedSearchRoutes)
  BY <1>0, <1>u, GatesAreGates DEF SavedSearchRoutes, SavedSearchGate, LastHandlers
<1>4. Last(OfferedServiceRoutes)
  BY <1>0, <1>u, GatesAreGates DEF OfferedServiceRoutes, BusinessGate, LastHandlers
<1>5. Last(ServiceStatusRoutes)
  BY <1>0, <1>u, GatesAreGates DEF ServiceStatusRoutes, BusinessGate, LastHandlers
<1>6. Last(TransactionRoutes)
  BY <1>0, <1>u, GatesAreGates DEF TransactionRoutes, TransactionGate, LastHandlers
<1>7. Last(DeliveryRoutes)
  BY <1>0, <1>u, GatesAreGates DEF DeliveryRoutes, DeliveryGate, LastHandlers
<1>8. Last(OfferRoutes)
  BY <1>0, <1>u, GatesAreGates DEF OfferRoutes, OfferGate, LastHandlers
<1>9. Last(DisputeRoutes)
  BY <1>0, <1>u, GatesAreGates DEF DisputeRoutes, DisputeGate, LastHandlers
<1>10. Last(NeedRoutes)
  BY <1>0, <1>u, GatesAreGates DEF NeedRoutes, NeedGate, LastHandlers
<1>11. Last(PaymentRoutes)
  BY <1>0, <1>u, GatesAreGates DEF PaymentRoutes, PaymentGate, LastHandlers
<1>12. Last(PreferenceRoutes)
  BY <1>0, <1>u, GatesAreGates DEF PreferenceRoutes, NotificationGate, LastHandlers
<1>13. Last(InboxRoutes)
  BY <1>0, <1>u, GatesAreGates DEF InboxRoutes, NotificationGate, LastHandlers
<1>14. Last(AppointmentRoutes)
  BY <1>0, <1>u, GatesAreGates DEF AppointmentRoutes, VerifiedGate, LastHandlers
<1>15. Last(FlowRoutes)
  BY <1>0, <1>u, GatesAreGates DEF FlowRoutes, VerifiedGate, LastHandlers
<1>16. Last(ReviewRoutes)
  BY <1>0, <1>u, GatesAreGates DEF ReviewRoutes, ReviewGate, LastHandlers
<1>17. Last(ReportRoutes)
  BY <1>0, <1>u, GatesAreGates DEF ReportRoutes, ReportGate, LastHandlers
<1>18. Last(DraftRoutes)
  BY <1>0, <1>u, GatesAreGates DEF DraftRoutes, ListingGate, LastHandlers
<1>19. Last(ListingRoutes)
  BY <1>0, <1>u, GatesAreGates DEF ListingRoutes, ListingGate, LastHandlers
<1>20. Last(ListingEidsRoutes)
  BY <1>0, <1>u, GatesAreGates DEF ListingEidsRoutes, ListingGate, LastHandlers
<1>21. Last(PublicListingRoutes)
  BY <1>0, <1>u, GatesAreGates DEF PublicListingRoutes, LastHandlers
<1>22. Last(ProfileRoutes)
  BY <1>0, <1>u, GatesAreGates DEF ProfileRoutes, ProfileGate, LastHandlers
<1>23. Last(TrustRoutes)
  BY <1>0, <1>u, GatesAreGates DEF TrustRoutes, LastHandlers
<1>24. Last(SummaryRoutes)
  BY <1>0, <1>u, GatesAreGates DEF SummaryRoutes, LastHandlers
<1>25. Last(MasterDataRoutes)
  BY <1>0, <1>u, GatesAreGates DEF MasterDataRoutes, LastHandlers
<1>26. Last(SearchRoutes)
  BY <1>0, <1>u, GatesAreGates DEF SearchRoutes, LastHandlers
<1>27. Last(DisputeStaffRoutes)
  BY <1>0, <1>u, GatesAreGates DEF DisputeStaffRoutes, DisputeStaffGate, LastHandlers
<1>28. Last(ReportStaffRoutes)
  BY <1>0, <1>u, GatesAreGates DEF ReportStaffRoutes, ModerationStaffGate, LastHandlers
<1>29. Last(CaseStaffRoutes)
  BY <1>0, <1>u, GatesAreGates DEF CaseStaffRoutes, ModerationStaffGate, LastHandlers
<1>30. Last(CaseEditRoutes)
  BY <1>0, <1>u, GatesAreGates DEF CaseEditRoutes, ModerationStaffGate, LastHandlers
<1>31. Last(ActionStaffRoutes)
  BY <1>0, <1>u, GatesAreGates DEF ActionStaffRoutes, ModerationStaffGate, LastHandlers
<1>32. Last(AppealStaffRoutes)
  BY <1>0, <1>u, GatesAreGates DEF AppealStaffRoutes, ModerationStaffGate, LastHandlers
<1>33. Last(ListingStaffRoutes)
  BY <1>0, <1>u, GatesAreGates DEF ListingStaffRoutes, ListingStaffGate, LastHandlers
<1>34. Last(TrustStaffRoutes)
  BY <1>0, <1>u, GatesAreGates DEF TrustStaffRoutes, TrustStaffGate, LastHandlers
<1>35. Last(SummaryStaffRoutes)
  BY <1>0, <1>u, GatesAreGates DEF SummaryStaffRoutes, SummaryStaffGate, LastHandlers
<1>36. Last(ProfileStaffRoutes)
  BY <1>0, <1>u, GatesAreGates DEF ProfileStaffRoutes, ProfileStaffGate, LastHandlers
<1>37. Last(DecisionRoutes)
  BY <1>0, <1>u, GatesAreGates DEF DecisionRoutes, LastHandlers
<1> QED
  BY <1>1, <1>2, <1>3, <1>4, <1>5, <1>6, <1>7, <1>8, <1>9, <1>10, <1>11, <1>12, <1>13, <1>14, <1>15, <1>16,
     <1>17, <1>18, <1>19, <1>20, <1>21, <1>22, <1>23, <1>24, <1>25, <1>26, <1>27, <1>28, <1>29, <1>30, <1>31,
     <1>32, <1>33, <1>34, <1>35, <1>36, <1>37
  DEF Last

LEMMA RoutesThatArePlain ==
  ASSUME NEW kind, NEW gate, NEW handlers, IsGate(gate), handlers \subseteq BodylessHandlers
  PROVE  \A r \in Routes(kind, gate, handlers) : Plain(r.steps)
<1> SUFFICES ASSUME NEW r \in Routes(kind, gate, handlers)
             PROVE  Plain(r.steps)
  OBVIOUS
<1>1. PICK h \in handlers : r.steps = gate \o h
  BY RoutesHaveSteps
<1>2. Plain(h) /\ h \in Seq(StepNames)
  BY BodylessHandlersArePlain DEF WritesLast
<1> QED
  BY <1>1, <1>2, GateBeforeHandler

\* These packages take no body.
LEMMA BodylessRoutes ==
  /\ \A r \in FavoritesRoutes : Plain(r.steps)
  /\ \A r \in TrustRoutes : Plain(r.steps)
  /\ \A r \in TrustStaffRoutes : Plain(r.steps)
  /\ \A r \in SummaryRoutes : Plain(r.steps)
  /\ \A r \in SummaryStaffRoutes : Plain(r.steps)
  /\ \A r \in MasterDataRoutes : Plain(r.steps)
  /\ \A r \in SearchRoutes : Plain(r.steps)
  /\ \A r \in ListingStaffRoutes : Plain(r.steps)
<1> DEFINE Bodyless(routes) == \A r \in routes : Plain(r.steps)
<1>0. \A kind, gate, handlers : IsGate(gate) /\ handlers \subseteq BodylessHandlers =>
          Bodyless(Routes(kind, gate, handlers))
  BY RoutesThatArePlain
<1> HIDE DEF Bodyless
<1>u. \A A, B : Bodyless(A) /\ Bodyless(B) => Bodyless(A \cup B)
  BY DEF Bodyless
<1>1. Bodyless(FavoritesRoutes)
  BY <1>0, <1>u, GatesAreGates DEF FavoritesRoutes, FavoritesGate, BodylessHandlers
<1>2. Bodyless(TrustRoutes)
  BY <1>0, <1>u, GatesAreGates DEF TrustRoutes, BodylessHandlers
<1>3. Bodyless(TrustStaffRoutes)
  BY <1>0, <1>u, GatesAreGates DEF TrustStaffRoutes, TrustStaffGate, BodylessHandlers
<1>4. Bodyless(SummaryRoutes)
  BY <1>0, <1>u, GatesAreGates DEF SummaryRoutes, BodylessHandlers
<1>5. Bodyless(SummaryStaffRoutes)
  BY <1>0, <1>u, GatesAreGates DEF SummaryStaffRoutes, SummaryStaffGate, BodylessHandlers
<1>6. Bodyless(MasterDataRoutes)
  BY <1>0, <1>u, GatesAreGates DEF MasterDataRoutes, BodylessHandlers
<1>7. Bodyless(SearchRoutes)
  BY <1>0, <1>u, GatesAreGates DEF SearchRoutes, BodylessHandlers
<1>8. Bodyless(ListingStaffRoutes)
  BY <1>0, <1>u, GatesAreGates DEF ListingStaffRoutes, ListingStaffGate, BodylessHandlers
<1> QED
  BY <1>1, <1>2, <1>3, <1>4, <1>5, <1>6, <1>7, <1>8 DEF Bodyless

LEMMA TidyWhenWritesLast == \A s : WritesLast(s) => Tidy(s)
<1> SUFFICES ASSUME NEW s, WritesLast(s)
             PROVE  Tidy(s)
  OBVIOUS
<1>1. s \in Seq(StepNames) /\ Len(s) > 0 /\ Len(s) \in Nat /\ \A i \in 1 .. Len(s) : i < Len(s) => s[i] # "write"
  BY LenProperties DEF WritesLast
<1>2. \A i, j \in 1 .. Len(s) : ~(i < j /\ s[i] = "write")
  BY <1>1
<1> QED
  BY <1>1, <1>2 DEF Tidy

\* Businesses and media write twice, or look at what they wrote.
TwiceHandlers ==
  {<<"body", "write", "write">>, <<"path", "body", "read", "write", "write">>,
   <<"opt_body", "content", "read", "write", "write">>, <<"path", "opt_body", "write", "recheck">>}

LEMMA TwiceHandlersAreTidy == \A h \in TwiceHandlers : Tidy(h)
<1> DEFINE N == StepNames
<1>1. {"body", "opt_body", "path", "content", "read", "write", "recheck"} \subseteq N
  BY DEF StepNames, PlainSteps
<1>2. \A a, b, c \in N : a # "write" /\ c \in {"read", "write", "recheck"} => Tidy(<<a, b, c>>)
  BY DEF Tidy
<1>3. \A a, b, c, d \in N : "write" \notin {a, b} /\ d \in {"read", "write", "recheck"} => Tidy(<<a, b, c, d>>)
  BY DEF Tidy
<1>4. \A a, b, c, d, e \in N : "write" \notin {a, b, c} /\ e \in {"read", "write", "recheck"} =>
          Tidy(<<a, b, c, d, e>>)
  BY DEF Tidy
<1> HIDE DEF N
<1> QED
  BY <1>1, <1>2, <1>3, <1>4 DEF TwiceHandlers

LEMMA RoutesThatAreTidy ==
  ASSUME NEW kind, NEW gate, NEW handlers, IsGate(gate), handlers \subseteq LastHandlers \cup TwiceHandlers
  PROVE  \A r \in Routes(kind, gate, handlers) : Tidy(r.steps)
<1> SUFFICES ASSUME NEW r \in Routes(kind, gate, handlers)
             PROVE  Tidy(r.steps)
  OBVIOUS
<1>1. PICK h \in handlers : r.steps = gate \o h
  BY RoutesHaveSteps
<1>2. Tidy(h) /\ h \in Seq(StepNames)
  BY LastHandlersWriteLast, TwiceHandlersAreTidy, TidyWhenWritesLast DEF Tidy
<1> QED
  BY <1>1, <1>2, GateBeforeHandler

LEMMA RoutesThatWriteTwice ==
  /\ \A r \in BusinessRoutes : Tidy(r.steps)
  /\ \A r \in MediaRoutes : Tidy(r.steps)
<1> DEFINE Good(routes) == \A r \in routes : Tidy(r.steps)
<1>0. \A kind, gate, handlers :
        IsGate(gate) /\ handlers \subseteq LastHandlers \cup TwiceHandlers => Good(Routes(kind, gate, handlers))
  BY RoutesThatAreTidy
<1> HIDE DEF Good
<1>u. \A A, B : Good(A) /\ Good(B) => Good(A \cup B)
  BY DEF Good
<1>1. Good(BusinessRoutes)
  BY <1>0, <1>u, GatesAreGates DEF BusinessRoutes, BusinessGate, LastHandlers, TwiceHandlers
<1>2. Good(MediaRoutes)
  BY <1>0, <1>u, GatesAreGates DEF MediaRoutes, MediaGate, LastHandlers, TwiceHandlers
<1> QED
  BY <1>1, <1>2 DEF Good

-----------------------------------------------------------------------------
\* No error is answered "ok", and a row of somebody else like one that does not exist.
Hides(errors) ==
  /\ \A e \in DOMAIN errors : errors[e] # "ok"
  /\ "forbidden" \in DOMAIN errors => "missing" \in DOMAIN errors /\ errors["forbidden"] = errors["missing"]

LEMMA ErrorsOfMore ==
  ASSUME NEW e, NEW d, Hides(e), \A x \in DOMAIN d : d[x] # "ok" /\ x # "forbidden"
  PROVE  Hides(More(e, d))
<1>1. More(e, d) = [x \in DOMAIN e \cup DOMAIN d |-> IF x \in DOMAIN e THEN e[x] ELSE d[x]]
  BY DEF More
<1> DEFINE m == More(e, d)
<1>2. DOMAIN m = DOMAIN e \cup DOMAIN d /\ \A x \in DOMAIN m : m[x] = IF x \in DOMAIN e THEN e[x] ELSE d[x]
  BY <1>1
<1> HIDE DEF m
<1>3. Hides(m)
  BY <1>2 DEF Hides
<1> QED
  BY <1>3 DEF m

LEMMA ErrorsHide ==
  /\ Hides(ReadErrors) /\ Hides(PlainErrors) /\ Hides(OwnedErrors)
  /\ Hides(DeliveryErrors) /\ Hides(OfferErrors) /\ Hides(DisputeErrors) /\ Hides(PaymentErrors)
  /\ Hides(NotificationErrors) /\ Hides(VerifiedErrors) /\ Hides(ReviewErrors) /\ Hides(ReportErrors)
  /\ Hides(EidsErrors) /\ Hides(DecisionErrors)
<1>1. Hides(ReadErrors)
  BY DEF ReadErrors, Hides
<1>2. Hides(PlainErrors)
  BY <1>1, ErrorsOfMore DEF PlainErrors
<1>3. Hides(OwnedErrors)
  <2> DEFINE d == [forbidden |-> "not_found", conflict |-> "conflict"]
             m == More(PlainErrors, d)
  <2>1. "missing" \in DOMAIN PlainErrors /\ "forbidden" \notin DOMAIN PlainErrors /\ PlainErrors["missing"] = "not_found"
    BY DEF PlainErrors, ReadErrors, More
  <2>2. /\ DOMAIN d = {"forbidden", "conflict"} /\ d["forbidden"] = "not_found" /\ d["conflict"] = "conflict"
    OBVIOUS
  <2> HIDE DEF d
  <2>3. DOMAIN m = DOMAIN PlainErrors \cup DOMAIN d
        /\ \A x \in DOMAIN m : m[x] = IF x \in DOMAIN PlainErrors THEN PlainErrors[x] ELSE d[x]
    BY DEF More
  <2> HIDE DEF m
  <2>4. Hides(m)
    BY <1>2, <2>1, <2>2, <2>3 DEF Hides
  <2> QED
    BY <2>4 DEF m, d, OwnedErrors
<1>4. Hides(DeliveryErrors)
  BY <1>3, ErrorsOfMore DEF DeliveryErrors
<1>5. Hides(OfferErrors)
  BY <1>3, ErrorsOfMore DEF OfferErrors
<1>6. Hides(DisputeErrors)
  BY <1>3, ErrorsOfMore DEF DisputeErrors
<1>7. Hides(PaymentErrors)
  BY <1>3, ErrorsOfMore DEF PaymentErrors
<1>8. Hides(NotificationErrors)
  BY <1>2, ErrorsOfMore DEF NotificationErrors
<1>9. Hides(VerifiedErrors)
  BY <1>2, ErrorsOfMore DEF VerifiedErrors
<1>10. Hides(ReviewErrors)
  BY <1>2, ErrorsOfMore DEF ReviewErrors
<1>11. Hides(ReportErrors)
  BY <1>2, ErrorsOfMore DEF ReportErrors
<1>12. Hides(EidsErrors)
  BY <1>2, ErrorsOfMore DEF EidsErrors
<1>13. Hides(DecisionErrors)
  BY <1>1, ErrorsOfMore DEF DecisionErrors
<1> QED
  BY <1>1, <1>2, <1>3, <1>4, <1>5, <1>6, <1>7, <1>8, <1>9, <1>10, <1>11, <1>12, <1>13

-----------------------------------------------------------------------------
\* What ApiStory needs of a package.
WellKept(p, package) ==
  /\ \A r \in package.routes : Tidy(r.steps) /\ (p \in {"businesses", "media"} \/ WritesLast(r.steps))
  /\ \/ \A r \in package.routes : Plain(r.steps)
     \/ /\ "malformed" \in package.refuses
        /\ "owner" \in package.refuses \/ p \in {"drafts", "listings", "eids", "media", "disputes_staff"}
        /\ "state" \in package.refuses \/ p \in {"savedsearch", "listings", "media", "disputes_staff"}
  /\ Hides(package.errors)

LEMMA PackageOfRoutes ==
  ASSUME NEW routes, NEW refuses, NEW errors
  PROVE  /\ Package(routes, refuses, errors).routes = routes
         /\ Package(routes, refuses, errors).refuses = refuses
         /\ Package(routes, refuses, errors).errors = errors
BY DEF Package

LEMMA PackagesAreWellKept == \A p \in DOMAIN Packages : WellKept(p, Packages[p])
<1>1. WellKept("messaging", Packages["messaging"])
  <2>1. Packages["messaging"] = Package(MessagingRoutes, MessagingRefuses, MessagingErrors)
    BY DEF Packages
  <2>2. WellKept("messaging", Package(MessagingRoutes, MessagingRefuses, MessagingErrors))
    BY RoutesWriteLast, TidyWhenWritesLast, ErrorsHide, PackageOfRoutes
    DEF WellKept, MessagingRefuses, BodyFlaws, MessagingErrors
  <2> QED
    BY <2>1, <2>2
<1>2. WellKept("favorites", Packages["favorites"])
  <2>1. Packages["favorites"] = Package(FavoritesRoutes, {}, FavoritesErrors)
    BY DEF Packages
  <2>2. WellKept("favorites", Package(FavoritesRoutes, {}, FavoritesErrors))
    BY RoutesWriteLast, BodylessRoutes, TidyWhenWritesLast, ErrorsHide, PackageOfRoutes DEF WellKept, FavoritesErrors
  <2> QED
    BY <2>1, <2>2
<1>3. WellKept("savedsearch", Packages["savedsearch"])
  <2>1. Packages["savedsearch"] = Package(SavedSearchRoutes, SavedSearchRefuses, SavedSearchErrors)
    BY DEF Packages
  <2>2. WellKept("savedsearch", Package(SavedSearchRoutes, SavedSearchRefuses, SavedSearchErrors))
    BY RoutesWriteLast, TidyWhenWritesLast, ErrorsHide, PackageOfRoutes
    DEF WellKept, SavedSearchRefuses, SavedSearchErrors
  <2> QED
    BY <2>1, <2>2
<1>4. WellKept("businesses", Packages["businesses"])
  <2>1. Packages["businesses"] =
          Package(BusinessRoutes \cup OfferedServiceRoutes \cup ServiceStatusRoutes, BusinessRefuses, BusinessErrors)
    BY DEF Packages
  <2>2. WellKept("businesses",
          Package(BusinessRoutes \cup OfferedServiceRoutes \cup ServiceStatusRoutes, BusinessRefuses, BusinessErrors))
    BY RoutesWriteLast, RoutesThatWriteTwice, TidyWhenWritesLast, ErrorsHide, PackageOfRoutes
    DEF WellKept, BusinessRefuses, BusinessErrors
  <2> QED
    BY <2>1, <2>2
<1>5. WellKept("transactions", Packages["transactions"])
  <2>1. Packages["transactions"] = Package(TransactionRoutes, TransactionRefuses, TransactionErrors)
    BY DEF Packages
  <2>2. WellKept("transactions", Package(TransactionRoutes, TransactionRefuses, TransactionErrors))
    BY RoutesWriteLast, TidyWhenWritesLast, ErrorsHide, PackageOfRoutes
    DEF WellKept, TransactionRefuses, TransactionErrors
  <2> QED
    BY <2>1, <2>2
<1>6. WellKept("deliveries", Packages["deliveries"])
  <2>1. Packages["deliveries"] = Package(DeliveryRoutes, DeliveryRefuses, DeliveryErrors)
    BY DEF Packages
  <2>2. WellKept("deliveries", Package(DeliveryRoutes, DeliveryRefuses, DeliveryErrors))
    BY RoutesWriteLast, TidyWhenWritesLast, ErrorsHide, PackageOfRoutes DEF WellKept, DeliveryRefuses
  <2> QED
    BY <2>1, <2>2
<1>7. WellKept("offers", Packages["offers"])
  <2>1. Packages["offers"] = Package(OfferRoutes, OfferRefuses, OfferErrors)
    BY DEF Packages
  <2>2. WellKept("offers", Package(OfferRoutes, OfferRefuses, OfferErrors))
    BY RoutesWriteLast, TidyWhenWritesLast, ErrorsHide, PackageOfRoutes DEF WellKept, OfferRefuses
  <2> QED
    BY <2>1, <2>2
<1>8. WellKept("disputes", Packages["disputes"])
  <2>1. Packages["disputes"] = Package(DisputeRoutes, DisputeRefuses, DisputeErrors)
    BY DEF Packages
  <2>2. WellKept("disputes", Package(DisputeRoutes, DisputeRefuses, DisputeErrors))
    BY RoutesWriteLast, TidyWhenWritesLast, ErrorsHide, PackageOfRoutes DEF WellKept, DisputeRefuses
  <2> QED
    BY <2>1, <2>2
<1>9. WellKept("needs", Packages["needs"])
  <2>1. Packages["needs"] = Package(NeedRoutes, NeedRefuses, NeedErrors)
    BY DEF Packages
  <2>2. WellKept("needs", Package(NeedRoutes, NeedRefuses, NeedErrors))
    BY RoutesWriteLast, TidyWhenWritesLast, ErrorsHide, PackageOfRoutes DEF WellKept, NeedRefuses, NeedErrors
  <2> QED
    BY <2>1, <2>2
<1>10. WellKept("payments", Packages["payments"])
  <2>1. Packages["payments"] = Package(PaymentRoutes, PaymentRefuses, PaymentErrors)
    BY DEF Packages
  <2>2. WellKept("payments", Package(PaymentRoutes, PaymentRefuses, PaymentErrors))
    BY RoutesWriteLast, TidyWhenWritesLast, ErrorsHide, PackageOfRoutes DEF WellKept, PaymentRefuses
  <2> QED
    BY <2>1, <2>2
<1>11. WellKept("notifications", Packages["notifications"])
  <2>1. Packages["notifications"] =
          Package(PreferenceRoutes \cup InboxRoutes, NotificationRefuses, NotificationErrors)
    BY DEF Packages
  <2>2. WellKept("notifications", Package(PreferenceRoutes \cup InboxRoutes, NotificationRefuses, NotificationErrors))
    BY RoutesWriteLast, TidyWhenWritesLast, ErrorsHide, PackageOfRoutes DEF WellKept, NotificationRefuses, BodyFlaws
  <2> QED
    BY <2>1, <2>2
<1>12. WellKept("verified", Packages["verified"])
  <2>1. Packages["verified"] = Package(AppointmentRoutes \cup FlowRoutes, VerifiedRefuses, VerifiedErrors)
    BY DEF Packages
  <2>2. WellKept("verified", Package(AppointmentRoutes \cup FlowRoutes, VerifiedRefuses, VerifiedErrors))
    BY RoutesWriteLast, TidyWhenWritesLast, ErrorsHide, PackageOfRoutes DEF WellKept, VerifiedRefuses, BodyFlaws
  <2> QED
    BY <2>1, <2>2
<1>13. WellKept("reviews", Packages["reviews"])
  <2>1. Packages["reviews"] = Package(ReviewRoutes, ReviewRefuses, ReviewErrors)
    BY DEF Packages
  <2>2. WellKept("reviews", Package(ReviewRoutes, ReviewRefuses, ReviewErrors))
    BY RoutesWriteLast, TidyWhenWritesLast, ErrorsHide, PackageOfRoutes DEF WellKept, ReviewRefuses, BodyFlaws
  <2> QED
    BY <2>1, <2>2
<1>14. WellKept("reports", Packages["reports"])
  <2>1. Packages["reports"] = Package(ReportRoutes, ReportRefuses, ReportErrors)
    BY DEF Packages
  <2>2. WellKept("reports", Package(ReportRoutes, ReportRefuses, ReportErrors))
    BY RoutesWriteLast, TidyWhenWritesLast, ErrorsHide, PackageOfRoutes DEF WellKept, ReportRefuses, BodyFlaws
  <2> QED
    BY <2>1, <2>2
<1>15. WellKept("drafts", Packages["drafts"])
  <2>1. Packages["drafts"] = Package(DraftRoutes, DraftRefuses, ListingErrors)
    BY DEF Packages
  <2>2. WellKept("drafts", Package(DraftRoutes, DraftRefuses, ListingErrors))
    BY RoutesWriteLast, TidyWhenWritesLast, ErrorsHide, PackageOfRoutes DEF WellKept, DraftRefuses, ListingErrors
  <2> QED
    BY <2>1, <2>2
<1>16. WellKept("listings", Packages["listings"])
  <2>1. Packages["listings"] = Package(ListingRoutes \cup PublicListingRoutes, ListingRefuses, ListingErrors)
    BY DEF Packages
  <2>2. WellKept("listings", Package(ListingRoutes \cup PublicListingRoutes, ListingRefuses, ListingErrors))
    BY RoutesWriteLast, TidyWhenWritesLast, ErrorsHide, PackageOfRoutes DEF WellKept, ListingRefuses, ListingErrors
  <2> QED
    BY <2>1, <2>2
<1>17. WellKept("eids", Packages["eids"])
  <2>1. Packages["eids"] = Package(ListingEidsRoutes, EidsRefuses, EidsErrors)
    BY DEF Packages
  <2>2. WellKept("eids", Package(ListingEidsRoutes, EidsRefuses, EidsErrors))
    BY RoutesWriteLast, TidyWhenWritesLast, ErrorsHide, PackageOfRoutes DEF WellKept, EidsRefuses
  <2> QED
    BY <2>1, <2>2
<1>18. WellKept("decisions", Packages["decisions"])
  <2>1. Packages["decisions"] = Package(DecisionRoutes, DecisionRefuses, DecisionErrors)
    BY DEF Packages
  <2>2. WellKept("decisions", Package(DecisionRoutes, DecisionRefuses, DecisionErrors))
    BY RoutesWriteLast, TidyWhenWritesLast, ErrorsHide, PackageOfRoutes DEF WellKept, DecisionRefuses, BodyFlaws
  <2> QED
    BY <2>1, <2>2
<1>19. WellKept("media", Packages["media"])
  <2>1. Packages["media"] = Package(MediaRoutes, MediaRefuses, MediaErrors)
    BY DEF Packages
  <2>2. WellKept("media", Package(MediaRoutes, MediaRefuses, MediaErrors))
    BY RoutesWriteLast, RoutesThatWriteTwice, TidyWhenWritesLast, ErrorsHide, PackageOfRoutes
    DEF WellKept, MediaRefuses, MediaErrors
  <2> QED
    BY <2>1, <2>2
<1>20. WellKept("profiles", Packages["profiles"])
  <2>1. Packages["profiles"] = Package(ProfileRoutes \cup ProfileStaffRoutes, ProfileRefuses, ProfileErrors)
    BY DEF Packages
  <2>2. WellKept("profiles", Package(ProfileRoutes \cup ProfileStaffRoutes, ProfileRefuses, ProfileErrors))
    BY RoutesWriteLast, TidyWhenWritesLast, ErrorsHide, PackageOfRoutes DEF WellKept, ProfileRefuses, ProfileErrors
  <2> QED
    BY <2>1, <2>2
<1>21. WellKept("trust", Packages["trust"])
  <2>1. Packages["trust"] = Package(TrustRoutes \cup TrustStaffRoutes, {}, TrustErrors)
    BY DEF Packages
  <2>2. WellKept("trust", Package(TrustRoutes \cup TrustStaffRoutes, {}, TrustErrors))
    BY RoutesWriteLast, BodylessRoutes, TidyWhenWritesLast, ErrorsHide, PackageOfRoutes DEF WellKept, TrustErrors
  <2> QED
    BY <2>1, <2>2
<1>22. WellKept("summaries", Packages["summaries"])
  <2>1. Packages["summaries"] = Package(SummaryRoutes \cup SummaryStaffRoutes, {}, SummaryErrors)
    BY DEF Packages
  <2>2. WellKept("summaries", Package(SummaryRoutes \cup SummaryStaffRoutes, {}, SummaryErrors))
    BY RoutesWriteLast, BodylessRoutes, TidyWhenWritesLast, ErrorsHide, PackageOfRoutes DEF WellKept, SummaryErrors
  <2> QED
    BY <2>1, <2>2
<1>23. WellKept("masterdata", Packages["masterdata"])
  <2>1. Packages["masterdata"] = Package(MasterDataRoutes, {}, MasterDataErrors)
    BY DEF Packages
  <2>2. WellKept("masterdata", Package(MasterDataRoutes, {}, MasterDataErrors))
    BY RoutesWriteLast, BodylessRoutes, TidyWhenWritesLast, ErrorsHide, PackageOfRoutes DEF WellKept, MasterDataErrors
  <2> QED
    BY <2>1, <2>2
<1>24. WellKept("search", Packages["search"])
  <2>1. Packages["search"] = Package(SearchRoutes, {}, SearchErrors)
    BY DEF Packages
  <2>2. WellKept("search", Package(SearchRoutes, {}, SearchErrors))
    BY RoutesWriteLast, BodylessRoutes, TidyWhenWritesLast, ErrorsHide, PackageOfRoutes DEF WellKept, SearchErrors
  <2> QED
    BY <2>1, <2>2
<1>25. WellKept("disputes_staff", Packages["disputes_staff"])
  <2>1. Packages["disputes_staff"] = Package(DisputeStaffRoutes, DisputeStaffRefuses, DisputeErrors)
    BY DEF Packages
  <2>2. WellKept("disputes_staff", Package(DisputeStaffRoutes, DisputeStaffRefuses, DisputeErrors))
    BY RoutesWriteLast, TidyWhenWritesLast, ErrorsHide, PackageOfRoutes DEF WellKept, DisputeStaffRefuses
  <2> QED
    BY <2>1, <2>2
<1>26. WellKept("moderation_staff", Packages["moderation_staff"])
  <2>1. Packages["moderation_staff"] =
          Package(ReportStaffRoutes \cup CaseStaffRoutes \cup CaseEditRoutes \cup ActionStaffRoutes \cup AppealStaffRoutes,
                  ReportRefuses, ReportErrors)
    BY DEF Packages
  <2>2. WellKept("moderation_staff",
          Package(ReportStaffRoutes \cup CaseStaffRoutes \cup CaseEditRoutes \cup ActionStaffRoutes \cup AppealStaffRoutes,
                  ReportRefuses, ReportErrors))
    BY RoutesWriteLast, TidyWhenWritesLast, ErrorsHide, PackageOfRoutes DEF WellKept, ReportRefuses, BodyFlaws
  <2> QED
    BY <2>1, <2>2
<1>27. WellKept("listings_staff", Packages["listings_staff"])
  <2>1. Packages["listings_staff"] = Package(ListingStaffRoutes, {}, ListingErrors)
    BY DEF Packages
  <2>2. WellKept("listings_staff", Package(ListingStaffRoutes, {}, ListingErrors))
    BY RoutesWriteLast, BodylessRoutes, TidyWhenWritesLast, ErrorsHide, PackageOfRoutes DEF WellKept, ListingErrors
  <2> QED
    BY <2>1, <2>2
<1>d. DOMAIN Packages =
        {"messaging", "favorites", "savedsearch", "businesses", "transactions", "deliveries",
         "offers", "disputes", "needs", "payments", "notifications", "verified", "reviews",
         "reports", "drafts", "listings", "eids", "decisions", "media", "profiles", "trust",
         "summaries", "masterdata", "search", "disputes_staff", "moderation_staff",
         "listings_staff"}
  BY DEF Packages
<1> QED
  BY <1>1, <1>2, <1>3, <1>4, <1>5, <1>6, <1>7, <1>8, <1>9, <1>10, <1>11, <1>12, <1>13, <1>14, <1>15,
     <1>16, <1>17, <1>18, <1>19, <1>20, <1>21, <1>22, <1>23, <1>24, <1>25, <1>26, <1>27, <1>d

-----------------------------------------------------------------------------
Writes(s, n) == Cardinality({i \in 1 .. n : s[i] = "write"})

TurnedAway(package, flaw, step) == flaw \in Flaws(step) /\ (flaw \in BodyFlaws => flaw \in package.refuses)

\* The steps that a request has behind it.
StepsBehind(f) == IF f.answer = "ok" THEN Len(f.route.steps) ELSE f.at - 1

HttpFields(f) ==
  f = [op |-> "http", package |-> f.package, route |-> f.route, flaw |-> f.flaw, at |-> f.at, written |-> f.written,
       answer |-> f.answer]

ApiFrame(f) ==
  /\ f.op \in {"idle", "http"}
  /\ f.op = "http" =>
       /\ HttpFields(f)
       /\ f.package \in DOMAIN Packages /\ f.route \in Packages[f.package].routes
       /\ f.at \in 1 .. Len(f.route.steps)
       /\ f.flaw = "none" \/ \E i \in 1 .. Len(f.route.steps) : f.flaw \in Flaws(f.route.steps[i])
       /\ \A i \in 1 .. StepsBehind(f) : ~TurnedAway(Packages[f.package], f.flaw, f.route.steps[i])
       /\ f.written = Writes(f.route.steps, StepsBehind(f))

ApiInv == DOMAIN call = Clients /\ \A c \in Clients : ApiFrame(call[c])

LEMMA IdleApiFrame == ApiFrame(Idle) /\ Idle.op = "idle"
  BY DEF ApiFrame, Idle

LEMMA WritesCount ==
  ASSUME NEW s, NEW n \in Nat
  PROVE  /\ Writes(s, n) \in Nat /\ Writes(s, 0) = 0
         /\ Writes(s, n + 1) = (IF s[n + 1] = "write" THEN Writes(s, n) + 1 ELSE Writes(s, n))
         /\ Writes(s, n) > 0 => \E i \in 1 .. n : s[i] = "write"
<1> DEFINE W == {i \in 1 .. n : s[i] = "write"}
           V == {i \in 1 .. n + 1 : s[i] = "write"}
<1>1. IsFiniteSet(1 .. n) /\ W \subseteq 1 .. n
  BY FS_Interval
<1>2. n + 1 \notin W /\ V = (IF s[n + 1] = "write" THEN W \cup {n + 1} ELSE W)
  OBVIOUS
<1>3. Writes(s, n) = Cardinality(W) /\ Writes(s, n + 1) = Cardinality(V)
  BY DEF Writes
<1>4. Writes(s, 0) = 0
  <2>1. {i \in 1 .. 0 : s[i] = "write"} = {}
    OBVIOUS
  <2> QED
    BY <2>1, FS_EmptySet DEF Writes
<1>5. W # {} => \E i \in 1 .. n : s[i] = "write"
  OBVIOUS
<1> HIDE DEF W, V
<1>6. IsFiniteSet(W) /\ Cardinality(W) \in Nat
  BY <1>1, FS_Subset, FS_CardinalityType
<1>7. Cardinality(W \cup {n + 1}) = Cardinality(W) + 1
  BY <1>2, <1>6, FS_AddElement
<1>8. Cardinality(W) > 0 => W # {}
  BY FS_EmptySet
<1> QED
  BY <1>2, <1>3, <1>4, <1>5, <1>6, <1>7, <1>8

\* A flaw that no step turns away is one of those that the package overlooks.
LEMMA FlawsOverlooked ==
  ASSUME NEW p \in DOMAIN Packages, NEW r \in Packages[p].routes, NEW i \in 1 .. Len(r.steps), NEW flaw,
         flaw \in Flaws(r.steps[i]), ~TurnedAway(Packages[p], flaw, r.steps[i])
  PROVE  /\ flaw \in {"extra", "owner", "state"}
         /\ flaw = "owner" => p \in {"drafts", "listings", "eids", "media", "disputes_staff"}
         /\ flaw = "state" => p \in {"savedsearch", "listings", "media", "disputes_staff"}
<1>1. WellKept(p, Packages[p])
  BY PackagesAreWellKept
<1>2. flaw \in BodyFlaws /\ flaw \notin Packages[p].refuses
  BY DEF TurnedAway
<1>3. ~Plain(r.steps)
  <2> SUFFICES ASSUME r.steps[i] \in PlainSteps
               PROVE  FALSE
    BY DEF Plain
  <2>1. Flaws(r.steps[i]) \subseteq {r.steps[i]}
    BY DEF Flaws, PlainSteps
  <2> QED
    BY <1>2, <2>1 DEF BodyFlaws, PlainSteps
<1> QED
  BY <1>1, <1>2, <1>3 DEF WellKept, BodyFlaws

LEMMA ApiFrameTold ==
  ASSUME NEW f, ApiFrame(f), f.op = "http"
  PROVE  /\ f.written > 0 => f.flaw \in {"none", "extra", "owner", "state"}
         /\ f.written > 0 /\ f.flaw = "owner" =>
                f.package \in {"drafts", "listings", "eids", "media", "disputes_staff"}
         /\ f.written > 0 /\ f.flaw = "state" => f.package \in {"savedsearch", "listings", "media", "disputes_staff"}
         /\ f.answer = "ok" => f.written = WritesOf(f.route) /\ f.flaw \in {"none", "extra", "owner", "state"}
         /\ f.answer \notin {"none", "ok"} /\ f.written > 0 => f.package \in {"businesses", "media"}
         /\ LET errors == Packages[f.package].errors
            IN  "forbidden" \in DOMAIN errors => errors["forbidden"] = errors["missing"]
<1> DEFINE p == f.package
           r == f.route
           s == r.steps
           n == StepsBehind(f)
<1>1. /\ p \in DOMAIN Packages /\ r \in Packages[p].routes /\ f.at \in 1 .. Len(s)
      /\ f.flaw = "none" \/ \E i \in 1 .. Len(s) : f.flaw \in Flaws(s[i])
      /\ \A i \in 1 .. n : ~TurnedAway(Packages[p], f.flaw, s[i])
      /\ f.written = Writes(s, n)
      /\ n = IF f.answer = "ok" THEN Len(s) ELSE f.at - 1
  BY DEF ApiFrame, StepsBehind
<1>2. WellKept(p, Packages[p])
  BY <1>1, PackagesAreWellKept
<1>3. Tidy(s) /\ (p \in {"businesses", "media"} \/ WritesLast(s)) /\ Hides(Packages[p].errors)
  BY <1>1, <1>2 DEF WellKept
<1>4. s \in Seq(StepNames) /\ Len(s) \in Nat /\ DOMAIN s = 1 .. Len(s)
      /\ \A i, j \in 1 .. Len(s) : i < j /\ s[i] = "write" => s[j] \in {"read", "write", "recheck"}
  BY <1>3, LenProperties DEF Tidy
<1> HIDE DEF n, s
<1>5. n \in Nat /\ n <= Len(s)
  BY <1>1, <1>4
<1>6. f.written > 0 => \E i \in 1 .. n : s[i] = "write"
  BY <1>1, <1>5, WritesCount
<1>7. ASSUME NEW i \in 1 .. Len(s), f.flaw \in Flaws(s[i]), i <= n
      PROVE  /\ f.flaw \in {"extra", "owner", "state"}
             /\ f.flaw = "owner" => p \in {"drafts", "listings", "eids", "media", "disputes_staff"}
             /\ f.flaw = "state" => p \in {"savedsearch", "listings", "media", "disputes_staff"}
  <2>0. i \in 1 .. n
    BY <1>4, <1>5, <1>7
  <2>1. ~TurnedAway(Packages[p], f.flaw, s[i])
    BY <1>1, <2>0
  <2> QED
    BY <1>1, <1>7, <2>1, FlawsOverlooked DEF s
<1>8. ASSUME f.written > 0, f.flaw # "none"
      PROVE  \E i \in 1 .. Len(s) : i <= n /\ f.flaw \in Flaws(s[i])
  <2>1. PICK i \in 1 .. Len(s) : f.flaw \in Flaws(s[i])
    BY <1>1, <1>8
  <2>2. PICK j \in 1 .. n : s[j] = "write"
    BY <1>6, <1>8
  <2>3. s[i] \notin {"read", "write", "recheck"}
    BY <2>1 DEF Flaws
  <2>4. i <= n
    BY <1>4, <1>5, <2>2, <2>3
  <2> QED
    BY <2>1, <2>4
<1>9. f.answer = "ok" => f.written = WritesOf(r)
  BY <1>1, <1>4 DEF Writes, WritesOf, s
<1>10. ASSUME f.answer \notin {"none", "ok"}, f.written > 0
       PROVE  p \in {"businesses", "media"}
  <2>1. PICK j \in 1 .. n : s[j] = "write"
    BY <1>6, <1>10
  <2>0. f.at \in 1 .. Len(s) /\ n = f.at - 1
    BY <1>1, <1>10
  <2>2. j \in 1 .. Len(s) /\ j < Len(s)
    BY <1>4, <2>0
  <2> QED
    BY <1>3, <2>1, <2>2 DEF WritesLast
<1>11. f.answer = "ok" /\ f.flaw # "none" => \E i \in 1 .. Len(s) : i <= n /\ f.flaw \in Flaws(s[i])
  BY <1>1, <1>4
<1> QED
  BY <1>3, <1>7, <1>8, <1>9, <1>10, <1>11 DEF Hides

LEMMA ApiTold ==
  ASSUME ApiInv
  PROVE  ApiStory
<1> SUFFICES ASSUME NEW c \in Clients, call[c].op = "http"
             PROVE  LET f == call[c]
                    IN  /\ f.written > 0 => f.flaw \in {"none", "extra", "owner", "state"}
                        /\ f.written > 0 /\ f.flaw = "owner" =>
                               f.package \in {"drafts", "listings", "eids", "media", "disputes_staff"}
                        /\ f.written > 0 /\ f.flaw = "state" =>
                               f.package \in {"savedsearch", "listings", "media", "disputes_staff"}
                        /\ f.answer = "ok" =>
                               f.written = WritesOf(f.route) /\ f.flaw \in {"none", "extra", "owner", "state"}
                        /\ f.answer \notin {"none", "ok"} /\ f.written > 0 => f.package \in {"businesses", "media"}
                        /\ LET errors == Packages[f.package].errors
                           IN  "forbidden" \in DOMAIN errors => errors["forbidden"] = errors["missing"]
  BY DEF ApiStory, Asked
<1>1. ApiFrame(call[c])
  BY DEF ApiInv
<1> QED
  BY <1>1, ApiFrameTold

LEMMA ApiStart ==
  ASSUME call = [c \in Clients |-> Idle]
  PROVE  ApiInv
BY IdleApiFrame DEF ApiInv

LEMMA ApiEnd ==
  ASSUME ApiInv, DOMAIN call' = Clients, \A c \in Clients : call'[c] \in {call[c], Idle}
  PROVE  ApiInv'
<1>1. \A c \in Clients : ApiFrame(call'[c])
  BY IdleApiFrame DEF ApiInv
<1> QED
  BY <1>1 DEF ApiInv

LEMMA ApiProceeds ==
  ASSUME ApiInv, NEW c \in Clients, NEW frame, ApiFrame(frame), call' = [call EXCEPT ![c] = frame]
  PROVE  ApiInv'
<1>1. DOMAIN call' = Clients /\ \A d \in Clients : ApiFrame(call'[d])
  BY DEF ApiInv
<1> QED
  BY <1>1 DEF ApiInv

LEMMA AskStep ==
  ASSUME ApiInv, NEW c \in Clients, Ask(c)
  PROVE  ApiInv'
<1>1. PICK p \in DOMAIN Packages : \E route \in Packages[p].routes :
         \E flaw \in {"none"} \cup UNION {Flaws(route.steps[i]) : i \in DOMAIN route.steps} :
            Proceed(c, HttpFrame(p, route, flaw))
  BY DEF Ask
<1>2. PICK route \in Packages[p].routes :
         \E flaw \in {"none"} \cup UNION {Flaws(route.steps[i]) : i \in DOMAIN route.steps} :
            Proceed(c, HttpFrame(p, route, flaw))
  BY <1>1
<1>3. PICK flaw \in {"none"} \cup UNION {Flaws(route.steps[i]) : i \in DOMAIN route.steps} :
         Proceed(c, HttpFrame(p, route, flaw))
  BY <1>2
<1>4. Tidy(route.steps)
  BY PackagesAreWellKept DEF WellKept
<1>5. Len(route.steps) \in Nat /\ Len(route.steps) > 0 /\ DOMAIN route.steps = 1 .. Len(route.steps)
  BY <1>4, LenProperties DEF Tidy
<1> DEFINE f == HttpFrame(p, route, flaw)
<1>6. HttpFields(f) /\ f.op = "http" /\ f.package = p /\ f.route = route /\ f.flaw = flaw /\ f.at = 1 /\ f.written = 0
      /\ f.answer = "none"
  BY DEF HttpFrame, HttpFields
<1>7. flaw = "none" \/ \E i \in 1 .. Len(route.steps) : flaw \in Flaws(route.steps[i])
  <2>1. flaw = "none" \/ \E i \in DOMAIN route.steps : flaw \in Flaws(route.steps[i])
    BY <1>3
  <2> QED
    BY <1>5, <2>1
<1> HIDE DEF f
<1>8. StepsBehind(f) = 0
  BY <1>6 DEF StepsBehind
<1>9. Writes(route.steps, 0) = 0
  BY WritesCount
<1>10. 1 .. 0 = {} /\ 1 \in 1 .. Len(route.steps)
  <2>1. 1 .. 0 = {}
    OBVIOUS
  <2>2. \A n \in Nat : n > 0 => 1 \in 1 .. n
    OBVIOUS
  <2> QED
    BY <1>5, <2>1, <2>2
<1>11. ApiFrame(f)
  BY <1>6, <1>7, <1>8, <1>9, <1>10 DEF ApiFrame
<1> QED
  BY <1>3, <1>11, ApiProceeds DEF Proceed, f

\* A request is answered: with "ok" only when every step is behind it.
LEMMA AnswerFrame ==
  ASSUME NEW f, ApiFrame(f), f.op = "http", f.answer = "none", NEW a, a # "ok"
  PROVE  ApiFrame([f EXCEPT !.answer = a])
<1> DEFINE g == [f EXCEPT !.answer = a]
<1>1. HttpFields(f)
  BY DEF ApiFrame
<1>2. HttpFields(g) /\ g.op = "http" /\ g.package = f.package /\ g.route = f.route /\ g.flaw = f.flaw /\ g.at = f.at
      /\ g.written = f.written /\ g.answer = a
  BY <1>1 DEF HttpFields
<1> HIDE DEF g
<1>3. StepsBehind(g) = StepsBehind(f)
  BY <1>2 DEF StepsBehind
<1>4. ApiFrame(g)
  BY <1>2, <1>3 DEF ApiFrame
<1> QED
  BY <1>4 DEF g

LEMMA HandleStepStep ==
  ASSUME ApiInv, NEW c \in Clients, HandleStep(c)
  PROVE  ApiInv'
<1> DEFINE f == call[c]
           s == f.route.steps
           step == StepOf(f)
<1>1. f.op = "http" /\ f.answer = "none" /\ ApiFrame(f)
  BY DEF HandleStep, ApiInv
<1>2. WellKept(f.package, Packages[f.package]) /\ Tidy(s) /\ Hides(Packages[f.package].errors)
  BY <1>1, PackagesAreWellKept DEF ApiFrame, WellKept
<1>3. ASSUME NEW a, a # "ok", Proceed(c, [f EXCEPT !.answer = a])
      PROVE  ApiInv'
  BY <1>1, <1>3, AnswerFrame, ApiProceeds DEF Proceed
<1>4. CASE Refuses(f)
  <2>1. Answer(c, Refusals(step) \cup Unavailable(step))
    BY <1>4 DEF HandleStep
  <2>2. "ok" \notin Refusals(step) \cup Unavailable(step)
    BY DEF Refusals, Unavailable
  <2> QED
    BY <1>3, <2>1, <2>2 DEF Answer
<1>5. CASE ~Refuses(f) /\ Answer(c, Unavailable(step) \cup ServiceAnswers(f) \cup Conflicts(step))
  <2>1. "ok" \notin Unavailable(step) \cup ServiceAnswers(f) \cup Conflicts(step)
    BY <1>2 DEF Unavailable, ServiceAnswers, Conflicts, Hides
  <2> QED
    BY <1>3, <1>5, <2>1 DEF Answer
<1>6. CASE ~Refuses(f) /\ Pass(c)
  <2> DEFINE written == IF step = "write" THEN f.written + 1 ELSE f.written
             q == [f EXCEPT !.written = written]
             at == f.at
  <2>1. /\ HttpFields(f) /\ f.package \in DOMAIN Packages /\ f.route \in Packages[f.package].routes
        /\ at \in 1 .. Len(s)
        /\ f.flaw = "none" \/ \E i \in 1 .. Len(s) : f.flaw \in Flaws(s[i])
        /\ \A i \in 1 .. StepsBehind(f) : ~TurnedAway(Packages[f.package], f.flaw, s[i])
        /\ f.written = Writes(s, StepsBehind(f))
        /\ StepsBehind(f) = at - 1
    BY <1>1 DEF ApiFrame, StepsBehind
  <2>2. Len(s) \in Nat /\ step = s[at]
    BY <1>2, LenProperties DEF Tidy, StepOf
  <2>3. ~TurnedAway(Packages[f.package], f.flaw, s[at])
    BY <1>6 DEF Refuses, TurnedAway, StepOf
  <2>4. /\ HttpFields(q) /\ q.op = "http" /\ q.package = f.package /\ q.route = f.route /\ q.flaw = f.flaw /\ q.at = at
        /\ q.written = written /\ q.answer = "none"
    BY <1>1, <2>1 DEF HttpFields
  <2>5. call' = [call EXCEPT ![c] = IF at = Len(s) THEN [q EXCEPT !.answer = "ok"] ELSE [q EXCEPT !.at = @ + 1]]
    BY <1>6 DEF Pass, Proceed
  <2> HIDE DEF q, at, step, s
  <2>6. at \in Nat /\ at - 1 \in Nat /\ (at - 1) + 1 = at
    BY <2>1, <2>2
  <2>7. written = Writes(s, at)
    <3>1. Writes(s, (at - 1) + 1) = IF s[(at - 1) + 1] = "write" THEN Writes(s, at - 1) + 1 ELSE Writes(s, at - 1)
      BY <2>6, WritesCount
    <3> QED
      BY <2>1, <2>2, <2>6, <3>1
  <2>8. \A i \in 1 .. at : ~TurnedAway(Packages[f.package], f.flaw, s[i])
    <3>1. \A i \in 1 .. at : i = at \/ i \in 1 .. (at - 1)
      BY <2>6
    <3> QED
      BY <2>1, <2>3, <3>1
  <2> HIDE DEF written
  <2>9. CASE at = Len(s)
    <3> DEFINE g == [q EXCEPT !.answer = "ok"]
    <3>1. /\ HttpFields(g) /\ g.op = "http" /\ g.package = f.package /\ g.route = f.route /\ g.flaw = f.flaw /\ g.at = at
          /\ g.written = written /\ g.answer = "ok"
      BY <2>4 DEF HttpFields
    <3> HIDE DEF g
    <3>2. StepsBehind(g) = at /\ g.route.steps = s
      BY <2>9, <3>1 DEF StepsBehind, s
    <3>3. ApiFrame(g)
      BY <2>1, <2>7, <2>8, <3>1, <3>2 DEF ApiFrame
    <3> QED
      BY <2>5, <2>9, <3>3, ApiProceeds DEF g
  <2>10. CASE at # Len(s)
    <3> DEFINE g == [q EXCEPT !.at = @ + 1]
    <3>1. /\ HttpFields(g) /\ g.op = "http" /\ g.package = f.package /\ g.route = f.route /\ g.flaw = f.flaw
          /\ g.at = at + 1 /\ g.written = written /\ g.answer = "none"
      BY <2>4 DEF HttpFields
    <3> HIDE DEF g
    <3>2. StepsBehind(g) = at /\ g.route.steps = s
      BY <2>6, <3>1 DEF StepsBehind, s
    <3>3. at + 1 \in 1 .. Len(s)
      BY <2>1, <2>2, <2>10
    <3>4. ApiFrame(g)
      BY <2>1, <2>7, <2>8, <3>1, <3>2, <3>3 DEF ApiFrame
    <3> QED
      BY <2>5, <2>10, <3>4, ApiProceeds DEF g
  <2> QED
    BY <2>9, <2>10
<1> QED
  BY <1>4, <1>5, <1>6 DEF HandleStep

LEMMA ApiStep ==
  ASSUME ApiInv, ApiNext
  PROVE  ApiInv'
<1>1. ASSUME NEW c \in Clients, Respond(c)
      PROVE  ApiInv'
  BY <1>1, IdleApiFrame, ApiProceeds DEF Respond, Return
<1> QED
  BY <1>1, AskStep, HandleStepStep DEF ApiNext

-----------------------------------------------------------------------------
(* One part at a time *)

NoRequests == call = [c \in Clients |-> Idle]

\* The part that runs keeps its invariant; the rows of the others are as at the start.
CommunityInv ==
  /\ part \in Parts
  /\ IF part = "messaging" THEN MessagingInv ELSE MessagingInit
  /\ IF part = "businesses" THEN BusinessInv ELSE BusinessesInit
  /\ IF part = "cases" THEN CasesInv ELSE CasesInit
  /\ IF part = "eids" THEN EidsInv ELSE EidsInit
  /\ IF part \in {"favourites", "searches"} THEN SavedInv ELSE SavedInit
  /\ IF part = "profiles" THEN ProfilesInv ELSE ProfilesInit
  /\ IF part \in {"settings", "devices"} THEN PreferencesInv ELSE PreferencesInit
  /\ IF part = "masterdata" THEN MasterDataInv ELSE MasterDataInit
  /\ IF part = "abuse" THEN AbuseInv ELSE AbuseDone
  /\ PagingInv /\ (part = "paging" => NoRequests)
  /\ part = "http" => ApiInv

\* Requests that one part alone has.
RequestsOfPart ==
  \A c \in Clients :
    /\ call[c].op \in {"send", "mark"} => part = "messaging"
    /\ call[c].op = "favourites" => part \in {"favourites", "searches"}
    /\ call[c].op = "patch" => part \in {"settings", "devices"}
    /\ call[c].op = "form" => part = "masterdata"
    /\ call[c].op = "http" => part = "http"

\* Requests end, or nothing happens.
RequestsEnd ==
  /\ DOMAIN call' = Clients /\ DOMAIN disturbed' = Clients /\ DOMAIN overlaid' = Clients
  /\ \A c \in Clients :
       \/ call'[c] = Idle
       \/ call'[c] = call[c] /\ disturbed'[c] = disturbed[c] /\ overlaid'[c] = overlaid[c]
  /\ NoRequests => call' = call
  /\ SavedInit => disturbed' = disturbed
  /\ PreferencesInit => overlaid' = overlaid
  /\ UNCHANGED <<part, published>>
  /\ UNCHANGED messagingVars /\ UNCHANGED businessVars /\ UNCHANGED caseVars /\ UNCHANGED eidsVars
  /\ UNCHANGED pagingVars /\ UNCHANGED profileVars /\ UNCHANGED abuseVars /\ UNCHANGED masterVars
  /\ UNCHANGED <<shownToAll, favourites, saved>>
  /\ UNCHANGED <<settings, consent, endpoints, readAt, now>>

LEMMA RequestsApart ==
  ASSUME CommunityInv
  PROVE  /\ DOMAIN call = Clients /\ DOMAIN disturbed = Clients /\ DOMAIN overlaid = Clients
         /\ RequestsOfPart
<1>1. DOMAIN disturbed = Clients /\ DOMAIN overlaid = Clients
  BY DEF CommunityInv, SavedInv, SavedInit, PreferencesInv, PreferencesInit
<1>2. CASE part = "messaging"
  BY <1>1, <1>2 DEF CommunityInv, MessagingInv, MessagingFrame, RequestsOfPart
<1>3. CASE part = "businesses"
  BY <1>1, <1>3 DEF CommunityInv, BusinessInv, BusinessFrame, RequestsOfPart
<1>4. CASE part = "cases"
  BY <1>1, <1>4 DEF CommunityInv, CasesInv, CaseFrame, RequestsOfPart
<1>5. CASE part = "eids"
  BY <1>1, <1>5 DEF CommunityInv, EidsInv, EidsFrame, RequestsOfPart
<1>6. CASE part \in {"favourites", "searches"}
  BY <1>1, <1>6 DEF CommunityInv, SavedInv, FavouriteFrame, RequestsOfPart
<1>7. CASE part = "profiles"
  BY <1>1, <1>7 DEF CommunityInv, ProfilesInv, ProfileFrame, EnsuredOps, RequestsOfPart
<1>8. CASE part \in {"settings", "devices"}
  BY <1>1, <1>8 DEF CommunityInv, PreferencesInv, PreferenceFrame, RequestsOfPart
<1>9. CASE part = "masterdata"
  BY <1>1, <1>9 DEF CommunityInv, MasterDataInv, MasterFrame, RequestsOfPart
<1>10. CASE part = "abuse"
  BY <1>1, <1>10 DEF CommunityInv, AbuseInv, AuthFrame, RequestsOfPart
<1>11. CASE part = "paging"
  BY <1>1, <1>11 DEF CommunityInv, NoRequests, Idle, RequestsOfPart
<1>12. CASE part = "http"
  BY <1>1, <1>12 DEF CommunityInv, ApiInv, ApiFrame, RequestsOfPart
<1> QED
  BY <1>2, <1>3, <1>4, <1>5, <1>6, <1>7, <1>8, <1>9, <1>10, <1>11, <1>12 DEF CommunityInv, Parts

LEMMA AbandonStep ==
  ASSUME CommunityInv, \/ \E c \in Clients : Abandon(c)
                       \/ UNCHANGED communityVars
  PROVE  RequestsEnd
<1>1. CASE UNCHANGED communityVars
  <2>1. /\ UNCHANGED <<part, call, published>>
        /\ UNCHANGED messagingVars /\ UNCHANGED businessVars /\ UNCHANGED caseVars /\ UNCHANGED eidsVars
        /\ UNCHANGED pagingVars /\ UNCHANGED savedVars /\ UNCHANGED profileVars /\ UNCHANGED preferenceVars
        /\ UNCHANGED abuseVars /\ UNCHANGED masterVars
    BY <1>1 DEF communityVars
  <2>2. UNCHANGED <<shownToAll, favourites, disturbed, saved>> /\ UNCHANGED <<settings, overlaid, consent, endpoints, readAt, now>>
    BY <2>1 DEF savedVars, preferenceVars, settingVars
  <2> QED
    BY <2>1, <2>2, RequestsApart DEF RequestsEnd
<1>2. ASSUME NEW c \in Clients, Abandon(c)
      PROVE  RequestsEnd
  <2>1. /\ call' = [call EXCEPT ![c] = Idle]
        /\ disturbed' = [disturbed EXCEPT ![c] = {}]
        /\ overlaid' = [overlaid EXCEPT ![c] = {}]
    BY <1>2 DEF Abandon, Return
  <2>2. /\ DOMAIN call' = Clients /\ DOMAIN disturbed' = Clients /\ DOMAIN overlaid' = Clients
        /\ call'[c] = Idle
        /\ \A d \in Clients \ {c} : call'[d] = call[d] /\ disturbed'[d] = disturbed[d] /\ overlaid'[d] = overlaid[d]
    BY <2>1, RequestsApart
  <2>3. (NoRequests => call' = call) /\ (SavedInit => disturbed' = disturbed)
    BY <2>1 DEF NoRequests, SavedInit
  <2>4. PreferencesInit => overlaid' = overlaid
    BY <2>1 DEF PreferencesInit
  <2>5. /\ UNCHANGED <<part, published>>
        /\ UNCHANGED messagingVars /\ UNCHANGED businessVars /\ UNCHANGED caseVars /\ UNCHANGED eidsVars
        /\ UNCHANGED pagingVars /\ UNCHANGED profileVars /\ UNCHANGED abuseVars /\ UNCHANGED masterVars
        /\ UNCHANGED <<shownToAll, favourites, saved>>
        /\ UNCHANGED <<settings, consent, endpoints, readAt, now>>
    BY <1>2 DEF Abandon
  <2> QED
    BY <2>2, <2>3, <2>4, <2>5 DEF RequestsEnd
<1> QED
  BY <1>1, <1>2

\* In each step, the part that runs moves or requests end, and all others rest.
LEMMA OnePartMoves ==
  ASSUME CommunityInv, [CommunityNext]_communityVars
  PROVE  /\ part' = part
         /\ part = "messaging" => MessagingNext \/ RequestsEnd
         /\ part = "businesses" => BusinessesNext \/ RequestsEnd
         /\ part = "cases" => CasesNext \/ RequestsEnd
         /\ part = "eids" => EidsNext \/ RequestsEnd
         /\ part \in {"favourites", "searches"} => FavouritesNext \/ SearchesNext \/ RequestsEnd
         /\ part = "profiles" => ProfilesNext \/ RequestsEnd
         /\ part \in {"settings", "devices"} => SettingsNext \/ DevicesNext \/ RequestsEnd
         /\ part = "masterdata" => MasterDataNext \/ RequestsEnd
         /\ part = "abuse" => AbuseNext \/ RequestsEnd
         /\ part = "paging" => PagingNext \/ RequestsEnd
         /\ part = "http" => ApiNext \/ RequestsEnd
         /\ part # "messaging" => UNCHANGED messagingVars
         /\ part # "businesses" => UNCHANGED businessVars
         /\ part # "cases" => UNCHANGED caseVars
         /\ part # "eids" => UNCHANGED eidsVars
         /\ part \notin {"favourites", "searches"} =>
              UNCHANGED <<shownToAll, favourites, saved>> /\ (SavedInit => disturbed' = disturbed)
         /\ part # "profiles" => UNCHANGED profileVars
         /\ part \notin {"settings", "devices"} =>
              UNCHANGED <<settings, consent, endpoints, readAt, now>> /\ (PreferencesInit => overlaid' = overlaid)
         /\ part # "masterdata" => UNCHANGED masterVars
         /\ part # "abuse" => UNCHANGED abuseVars
         /\ part # "paging" => UNCHANGED pagingVars
<1>1. CASE RequestsEnd
  BY <1>1 DEF RequestsEnd
<1>2. CASE ~RequestsEnd
  <2>1. \/ part = "messaging" /\ MessagingNext /\ Apart("messaging")
        \/ part = "businesses" /\ BusinessesNext /\ Apart("businesses")
        \/ part = "cases" /\ CasesNext /\ Apart("cases")
        \/ part = "eids" /\ EidsNext /\ Apart("eids")
        \/ part = "paging" /\ PagingNext /\ Apart("paging")
        \/ part = "favourites" /\ FavouritesNext /\ Apart("saved")
        \/ part = "searches" /\ SearchesNext /\ Apart("saved")
        \/ part = "profiles" /\ ProfilesNext /\ Apart("profiles")
        \/ part = "settings" /\ SettingsNext /\ Apart("preferences")
        \/ part = "devices" /\ DevicesNext /\ Apart("preferences")
        \/ part = "abuse" /\ AbuseNext /\ Apart("abuse")
        \/ part = "masterdata" /\ MasterDataNext /\ Apart("masterdata")
        \/ part = "http" /\ ApiNext /\ Apart("http")
    BY <1>2, AbandonStep DEF CommunityNext
  <2>2. UNCHANGED savedVars => UNCHANGED <<shownToAll, favourites, disturbed, saved>>
    BY DEF savedVars
  <2>3. UNCHANGED preferenceVars => UNCHANGED <<settings, overlaid, consent, endpoints, readAt, now>>
    BY DEF preferenceVars, settingVars
  <2> QED
    BY <2>1, <2>2, <2>3 DEF Apart
<1> QED
  BY <1>1, <1>2

LEMMA MessagingPart ==
  ASSUME CommunityInv, [CommunityNext]_communityVars
  PROVE  (IF part = "messaging" THEN MessagingInv ELSE MessagingInit)' /\ GoesBackOnlyByOverlap
<1>1. part' = part
  BY OnePartMoves
<1>2. CASE part = "messaging"
  <2>1. MessagingInv
    BY <1>2 DEF CommunityInv
  <2>2. MessagingNext \/ RequestsEnd
    BY <1>2, OnePartMoves
  <2>3. CASE MessagingNext
    BY <1>1, <1>2, <2>1, <2>3, MessagingStep
  <2>4. CASE RequestsEnd
    <3>1. UNCHANGED <<published, messagingVars>> /\ DOMAIN call' = Clients /\ \A c \in Clients : call'[c] \in {call[c], Idle}
      BY <2>4 DEF RequestsEnd
    <3> QED
      BY <1>1, <1>2, <2>1, <3>1, MessagingEnds
  <2> QED
    BY <2>2, <2>3, <2>4
<1>3. CASE part # "messaging"
  <2>1. UNCHANGED <<visible, chats, updated, messages, pointer, clock>>
    BY <1>3, OnePartMoves DEF messagingVars
  <2>2. MessagingInit'
    BY <1>3, <2>1 DEF CommunityInv, MessagingInit
  <2>3. GoesBackOnlyByOverlap
    BY <1>3, RequestsApart DEF RequestsOfPart, GoesBackOnlyByOverlap
  <2> QED
    BY <1>1, <1>3, <2>2, <2>3
<1> QED
  BY <1>2, <1>3

LEMMA BusinessPart ==
  ASSUME CommunityInv, [CommunityNext]_communityVars
  PROVE  (IF part = "businesses" THEN BusinessInv ELSE BusinessesInit)' /\ BusinessSteps
<1>1. part' = part
  BY OnePartMoves
<1>2. CASE part = "businesses"
  <2>1. BusinessInv
    BY <1>2 DEF CommunityInv
  <2>2. BusinessesNext \/ RequestsEnd
    BY <1>2, OnePartMoves
  <2>3. CASE BusinessesNext
    BY <1>1, <1>2, <2>1, <2>3, BusinessStep
  <2>4. CASE RequestsEnd
    <3>1. UNCHANGED businessVars /\ DOMAIN call' = Clients /\ \A c \in Clients : call'[c] \in {call[c], Idle}
      BY <2>4 DEF RequestsEnd
    <3> QED
      BY <1>1, <1>2, <2>1, <3>1, BusinessEnds
  <2> QED
    BY <2>2, <2>3, <2>4
<1>3. CASE part # "businesses"
  <2>1. UNCHANGED <<business, offered>>
    BY <1>3, OnePartMoves DEF businessVars
  <2>2. BusinessesInit'
    BY <1>3, <2>1 DEF CommunityInv, BusinessesInit

  <2>3. BusinessSteps
    BY <2>1 DEF BusinessSteps
  <2> QED
    BY <1>1, <1>3, <2>2, <2>3
<1> QED
  BY <1>2, <1>3
LEMMA CasesPart ==
  ASSUME CommunityInv, [CommunityNext]_communityVars
  PROVE  (IF part = "cases" THEN CasesInv ELSE CasesInit)' /\ CaseSteps
<1>1. part' = part
  BY OnePartMoves
<1>2. CASE part = "cases"
  <2>1. CasesInv
    BY <1>2 DEF CommunityInv
  <2>2. CasesNext \/ RequestsEnd
    BY <1>2, OnePartMoves
  <2>3. CASE CasesNext
    BY <1>1, <1>2, <2>1, <2>3, CasesStep
  <2>4. CASE RequestsEnd
    <3>1. UNCHANGED caseVars /\ DOMAIN call' = Clients /\ \A c \in Clients : call'[c] \in {call[c], Idle}
      BY <2>4 DEF RequestsEnd
    <3> QED
      BY <1>1, <1>2, <2>1, <3>1, CasesEnd
  <2> QED
    BY <2>2, <2>3, <2>4
<1>3. CASE part # "cases"
  <2>1. UNCHANGED <<report, recent, case, attached, evidence, told>>
    BY <1>3, OnePartMoves DEF caseVars
  <2>2. CasesInit'
    BY <1>3, <2>1 DEF CommunityInv, CasesInit

  <2>3. CaseSteps
    BY <2>1 DEF CaseSteps
  <2> QED
    BY <1>1, <1>3, <2>2, <2>3
<1> QED
  BY <1>2, <1>3
LEMMA EidsPart ==
  ASSUME CommunityInv, [CommunityNext]_communityVars
  PROVE  (IF part = "eids" THEN EidsInv ELSE EidsInit)' /\ EidsSteps
<1>1. part' = part
  BY OnePartMoves
<1>2. CASE part = "eids"
  <2>1. EidsInv
    BY <1>2 DEF CommunityInv
  <2>2. EidsNext \/ RequestsEnd
    BY <1>2, OnePartMoves
  <2>3. CASE EidsNext
    BY <1>1, <1>2, <2>1, <2>3, EidsStep
  <2>4. CASE RequestsEnd
    <3>1. UNCHANGED eidsVars /\ DOMAIN call' = Clients /\ \A c \in Clients : call'[c] \in {call[c], Idle}
      BY <2>4 DEF RequestsEnd
    <3> QED
      BY <1>1, <1>2, <2>1, <3>1, EidsEnd
  <2> QED
    BY <2>2, <2>3, <2>4
<1>3. CASE part # "eids"
  <2>1. UNCHANGED <<attempt, latest, subjects, decisions, replays, today>>
    BY <1>3, OnePartMoves DEF eidsVars
  <2>2. EidsInit'
    BY <1>3, <2>1 DEF CommunityInv, EidsInit

  <2>3. EidsSteps
    BY <2>1 DEF EidsSteps, VerifiedUntil, DecisionsAreFollowed, Verified, Effective, IsExpired
  <2> QED
    BY <1>1, <1>3, <2>2, <2>3
<1> QED
  BY <1>2, <1>3
LEMMA ProfilesPart ==
  ASSUME CommunityInv, [CommunityNext]_communityVars
  PROVE  (IF part = "profiles" THEN ProfilesInv ELSE ProfilesInit)'
<1>1. part' = part
  BY OnePartMoves
<1>2. CASE part = "profiles"
  <2>1. ProfilesInv
    BY <1>2 DEF CommunityInv
  <2>2. ProfilesNext \/ RequestsEnd
    BY <1>2, OnePartMoves
  <2>3. CASE ProfilesNext
    BY <1>1, <1>2, <2>1, <2>3, ProfilesStep
  <2>4. CASE RequestsEnd
    <3>1. UNCHANGED profileVars /\ DOMAIN call' = Clients /\ \A c \in Clients : call'[c] \in {call[c], Idle}
      BY <2>4 DEF RequestsEnd
    <3> QED
      BY <1>1, <1>2, <2>1, <3>1, ProfilesEnd
  <2> QED
    BY <2>2, <2>3, <2>4
<1>3. CASE part # "profiles"
  <2>1. UNCHANGED <<accountOpen, profile, publicIds, handedOut, ruled>>
    BY <1>3, OnePartMoves DEF profileVars
  <2>2. ProfilesInit'
    BY <1>3, <2>1 DEF CommunityInv, ProfilesInit

  <2> QED
    BY <1>1, <1>3, <2>2
<1> QED
  BY <1>2, <1>3
LEMMA MasterDataPart ==
  ASSUME CommunityInv, [CommunityNext]_communityVars
  PROVE  (IF part = "masterdata" THEN MasterDataInv ELSE MasterDataInit)' /\ MasterDataSteps
<1>1. part' = part
  BY OnePartMoves
<1>2. CASE part = "masterdata"
  <2>1. MasterDataInv
    BY <1>2 DEF CommunityInv
  <2>2. MasterDataNext \/ RequestsEnd
    BY <1>2, OnePartMoves
  <2>3. CASE MasterDataNext
    BY <1>1, <1>2, <2>1, <2>3, MasterDataStep
  <2>4. CASE RequestsEnd
    <3>1. UNCHANGED masterVars /\ DOMAIN call' = Clients /\ \A c \in Clients : call'[c] \in {call[c], Idle}
      BY <2>4 DEF RequestsEnd
    <3> QED
      BY <1>1, <1>2, <2>1, <3>1, MasterDataEnd
  <2> QED
    BY <2>2, <2>3, <2>4
<1>3. CASE part # "masterdata"
  <2>1. UNCHANGED <<category, labelled, schema, form, touched, frozen>>
    BY <1>3, OnePartMoves DEF masterVars
  <2>2. MasterDataInit'
    BY <1>3, <2>1 DEF CommunityInv, MasterDataInit

  <2>3. MasterDataSteps
    BY <2>1 DEF MasterDataSteps
  <2> QED
    BY <1>1, <1>3, <2>2, <2>3
<1> QED
  BY <1>2, <1>3
LEMMA AbusePart ==
  ASSUME CommunityInv, [CommunityNext]_communityVars
  PROVE  (IF part = "abuse" THEN AbuseInv ELSE AbuseDone)' /\ AbuseSteps
<1>1. part' = part
  BY OnePartMoves
<1>2. CASE part = "abuse"
  <2>1. AbuseInv
    BY <1>2 DEF CommunityInv
  <2>2. AbuseNext \/ RequestsEnd
    BY <1>2, OnePartMoves
  <2>3. CASE AbuseNext
    BY <1>1, <1>2, <2>1, <2>3, AbuseStep
  <2>4. CASE RequestsEnd
    <3>1. UNCHANGED abuseVars /\ DOMAIN call' = Clients /\ \A c \in Clients : call'[c] \in {call[c], Idle}
      BY <2>4 DEF RequestsEnd
    <3> QED
      BY <1>1, <1>2, <2>1, <3>1, AbuseEnd
  <2> QED
    BY <2>2, <2>3, <2>4
<1>3. CASE part # "abuse"
  <2>1. UNCHANGED <<operation, counter, instant>>
    BY <1>3, OnePartMoves DEF abuseVars
  <2>2. AbuseDone'
    BY <1>3, <2>1 DEF CommunityInv, AbuseDone

  <2>3. AbuseSteps
    BY <2>1 DEF AbuseSteps
  <2> QED
    BY <1>1, <1>3, <2>2, <2>3
<1> QED
  BY <1>2, <1>3
LEMMA SavedPart ==
  ASSUME CommunityInv, [CommunityNext]_communityVars
  PROVE  (IF part \in {"favourites", "searches"} THEN SavedInv ELSE SavedInit)' /\ FavouritesAreListed
<1>1. part' = part
  BY OnePartMoves
<1>2. CASE part \in {"favourites", "searches"}
  <2>1. SavedInv
    BY <1>2 DEF CommunityInv
  <2>2. FavouritesNext \/ SearchesNext \/ RequestsEnd
    BY <1>2, OnePartMoves
  <2>3. CASE FavouritesNext
    BY <1>1, <1>2, <2>1, <2>3, FavouritesStep
  <2>4. CASE SearchesNext
    BY <1>1, <1>2, <2>1, <2>4, SearchesStep
  <2>5. CASE RequestsEnd
    <3>1. /\ UNCHANGED <<shownToAll, favourites, saved>>
          /\ DOMAIN call' = Clients /\ DOMAIN disturbed' = Clients
          /\ \A c \in Clients : call'[c] = Idle \/ (call'[c] = call[c] /\ disturbed'[c] = disturbed[c])
      BY <2>5 DEF RequestsEnd
    <3> QED
      BY <1>1, <1>2, <2>1, <3>1, SavedEnd
  <2> QED
    BY <2>2, <2>3, <2>4, <2>5
<1>3. CASE part \notin {"favourites", "searches"}
  <2>1. SavedInit
    BY <1>3 DEF CommunityInv
  <2>2. UNCHANGED <<shownToAll, favourites, saved>> /\ disturbed' = disturbed
    BY <1>3, <2>1, OnePartMoves
  <2>3. SavedInit'
    BY <2>1, <2>2 DEF SavedInit
  <2>4. FavouritesAreListed
    BY <1>3, <2>2, RequestsApart DEF RequestsOfPart, FavouritesAreListed
  <2> QED
    BY <1>1, <1>3, <2>3, <2>4
<1> QED
  BY <1>2, <1>3

LEMMA PreferencesPart ==
  ASSUME CommunityInv, [CommunityNext]_communityVars
  PROVE  (IF part \in {"settings", "devices"} THEN PreferencesInv ELSE PreferencesInit)' /\ PreferenceSteps
<1>1. part' = part
  BY OnePartMoves
<1>2. CASE part \in {"settings", "devices"}
  <2>1. PreferencesInv
    BY <1>2 DEF CommunityInv
  <2>2. SettingsNext \/ DevicesNext \/ RequestsEnd
    BY <1>2, OnePartMoves
  <2>3. CASE SettingsNext
    BY <1>1, <1>2, <2>1, <2>3, SettingsStep
  <2>4. CASE DevicesNext
    BY <1>1, <1>2, <2>1, <2>4, DevicesStep
  <2>5. CASE RequestsEnd
    <3>1. /\ UNCHANGED <<settings, consent, endpoints, readAt, now>>
          /\ DOMAIN call' = Clients /\ DOMAIN overlaid' = Clients
          /\ \A c \in Clients : call'[c] = Idle \/ (call'[c] = call[c] /\ overlaid'[c] = overlaid[c])
      BY <2>5 DEF RequestsEnd
    <3> QED
      BY <1>1, <1>2, <2>1, <3>1, PreferencesEnd
  <2> QED
    BY <2>2, <2>3, <2>4, <2>5
<1>3. CASE part \notin {"settings", "devices"}
  <2>1. PreferencesInit
    BY <1>3 DEF CommunityInv
  <2>2. UNCHANGED <<settings, consent, endpoints, readAt, now>> /\ overlaid' = overlaid
    BY <1>3, <2>1, OnePartMoves
  <2>3. PreferencesInit'
    BY <2>1, <2>2 DEF PreferencesInit
  <2>4. PreferenceSteps
    BY <1>3, <2>2, RequestsApart DEF RequestsOfPart, PreferenceSteps
  <2> QED
    BY <1>1, <1>3, <2>3, <2>4
<1> QED
  BY <1>2, <1>3

LEMMA PagingPart ==
  ASSUME CommunityInv, [CommunityNext]_communityVars
  PROVE  (PagingInv /\ (part = "paging" => NoRequests))'
<1>1. part' = part /\ PagingInv
  BY OnePartMoves DEF CommunityInv
<1>2. CASE part = "paging" /\ PagingNext
  <2>1. PagingInv'
    BY <1>1, <1>2, PagingStep
  <2>2. NoRequests'
    BY <1>2 DEF CommunityInv, NoRequests, PagingNext, NextPage, ListChanges
  <2> QED
    BY <2>1, <2>2
<1>3. CASE part = "paging" /\ RequestsEnd
  <2>1. UNCHANGED pagingVars /\ DOMAIN call' = Clients /\ \A c \in Clients : call'[c] \in {call[c], Idle}
    BY <1>3 DEF RequestsEnd
  <2>2. PagingInv'
    BY <1>1, <2>1, PagingEnd
  <2>3. NoRequests /\ call' = call
    BY <1>3 DEF CommunityInv, RequestsEnd
  <2> QED
    BY <2>2, <2>3 DEF NoRequests
<1>4. CASE part # "paging"
  BY <1>1, <1>4, OnePartMoves, PagingEnd
<1> QED
  BY <1>2, <1>3, <1>4, OnePartMoves

LEMMA ApiPart ==
  ASSUME CommunityInv, [CommunityNext]_communityVars
  PROVE  (part = "http" => ApiInv)'
<1>1. part' = part
  BY OnePartMoves
<1>2. CASE part = "http"
  <2>1. ApiInv
    BY <1>2 DEF CommunityInv
  <2>2. ApiNext \/ RequestsEnd
    BY <1>2, OnePartMoves
  <2>3. CASE ApiNext
    BY <2>1, <2>3, ApiStep
  <2>4. CASE RequestsEnd
    <3>1. DOMAIN call' = Clients /\ \A c \in Clients : call'[c] \in {call[c], Idle}
      BY <2>4 DEF RequestsEnd
    <3> QED
      BY <2>1, <3>1, ApiEnd
  <2> QED
    BY <2>2, <2>3, <2>4
<1> QED
  BY <1>1, <1>2

LEMMA CommunityStarts ==
  ASSUME CommunityInit
  PROVE  CommunityInv
<1>1. NoRequests /\ part \in Parts
  BY DEF CommunityInit, NoRequests
<1>2. /\ MessagingInit /\ BusinessesInit /\ CasesInit /\ EidsInit
      /\ SavedInit /\ ProfilesInit /\ PreferencesInit /\ MasterDataInit
      /\ IF part = "abuse" THEN AbuseInit ELSE AbuseDone
      /\ PagingInit \/ PagingDone
  BY DEF CommunityInit
<1>3. /\ MessagingInv /\ BusinessInv /\ CasesInv /\ EidsInv
      /\ SavedInv /\ ProfilesInv /\ PreferencesInv /\ MasterDataInv
      /\ PagingInv /\ ApiInv
  BY <1>1, <1>2, MessagingStarts, BusinessStarts, CasesStart, EidsStart, SavedStart, ProfilesStart,
     PreferencesStart, MasterDataStart, PagingStart, ApiStart DEF NoRequests
<1>4. part = "abuse" => AbuseInv
  BY <1>1, <1>2, AbuseStart DEF NoRequests
<1> QED
  BY <1>1, <1>2, <1>3, <1>4 DEF CommunityInv

LEMMA CommunityStep ==
  ASSUME CommunityInv, [CommunityNext]_communityVars
  PROVE  CommunityInv'
<1>1. (part \in Parts)'
  BY OnePartMoves DEF CommunityInv, Parts
<1> QED
  BY <1>1, MessagingPart, BusinessPart, CasesPart, EidsPart, SavedPart, ProfilesPart, PreferencesPart,
     MasterDataPart, AbusePart, PagingPart, ApiPart DEF CommunityInv

LEMMA CommunityTold ==
  ASSUME CommunityInv
  PROVE  RecordsAgree
<1>1. ConversationStory
  <2>1. CASE part = "messaging"
    BY <2>1, MessagingTold DEF CommunityInv
  <2>2. CASE part # "messaging"
    BY <2>2, FS_EmptySet DEF CommunityInv, MessagingInit, ConversationStory
  <2> QED
    BY <2>1, <2>2
<1>2. CaseStory
  <2>1. CASE part = "cases"
    BY <2>1, CasesTold DEF CommunityInv
  <2>2. CASE part # "cases"
    <3>1. /\ attached = {} /\ case = [k \in CaseIds |-> NoCase]
          /\ evidence = [k \in CaseIds |-> 0] /\ told = [k \in CaseIds |-> NoHistory]
      BY <2>2 DEF CommunityInv, CasesInit
    <3>2. \A k \in CaseIds : {r \in ReportIds : <<k, r>> \in attached} = {}
      BY <3>1
    <3>3. \A r \in ReportIds : {k \in CaseIds : <<k, r>> \in attached} = {}
      BY <3>1
    <3>4. ASSUME NEW r \in ReportIds
          PROVE  Cardinality({k \in CaseIds : <<k, r>> \in attached}) <= 1
      <4> DEFINE S == {k \in CaseIds : <<k, r>> \in attached}
      <4>1. S = {}
        BY <3>3
      <4> HIDE DEF S
      <4>2. Cardinality(S) <= 1
        BY <4>1, FS_EmptySet
      <4> QED
        BY <4>2 DEF S
    <3> QED
      BY <3>1, <3>2, <3>4 DEF CaseStory, NoHistory
  <2> QED
    BY <2>1, <2>2
<1>3. EidsStory
  <2>1. CASE part = "eids"
    BY <2>1, EidsTold DEF CommunityInv
  <2>2. CASE part # "eids"
    BY <2>2 DEF CommunityInv, EidsInit, EidsStory, Open, NoAttempt
  <2> QED
    BY <2>1, <2>2
<1>4. SavedSearchesRun
  <2>1. CASE part \in {"favourites", "searches"}
    BY <2>1, SavedTold DEF CommunityInv
  <2>2. CASE part \notin {"favourites", "searches"}
    BY <2>2 DEF CommunityInv, SavedInit, SavedSearchesRun
  <2> QED
    BY <2>1, <2>2
<1>5. ProfileStory
  BY DEF CommunityInv, ProfilesInv, ProfilesInit, ProfileStory, NoProfile
<1>6. PreferenceStory
  <2>1. CASE part \in {"settings", "devices"}
    BY <2>1, PreferencesTold DEF CommunityInv
  <2>2. CASE part \notin {"settings", "devices"}
    <3>1. DOMAIN endpoints = {}
      BY <2>2 DEF CommunityInv, PreferencesInit
    <3>2. OneActive
      BY <3>1 DEF OneActive
    <3> QED
      BY <3>2, RulesTold
  <2> QED
    BY <2>1, <2>2
<1>7. ApiStory
  <2>1. CASE part = "http"
    BY <2>1, ApiTold DEF CommunityInv
  <2>2. CASE part # "http"
    <3>1. Asked = {}
      BY <2>2, RequestsApart DEF RequestsOfPart, Asked
    <3> QED
      BY <3>1 DEF ApiStory
  <2> QED
    BY <2>1, <2>2
<1>8. AbuseStory
  BY AbuseTold, AbuseDoneTold DEF CommunityInv
<1>9. MasterDataStory
  <2>1. CASE part = "masterdata"
    BY <2>1, MasterDataTold DEF CommunityInv
  <2>2. CASE part # "masterdata"
    <3>1. category.status = "none" /\ \A v \in Versions : schema[v] = "none"
      BY <2>2 DEF CommunityInv, MasterDataInit
    <3> QED
      BY <2>2, <3>1, RequestsApart DEF RequestsOfPart, MasterDataStory
  <2> QED
    BY <2>1, <2>2
<1> QED
  BY <1>1, <1>2, <1>3, <1>4, <1>5, <1>6, <1>7, <1>8, <1>9 DEF RecordsAgree

LEMMA CommunityOverlaps ==
  ASSUME CommunityInv, [CommunityNext]_communityVars
  PROVE  /\ GoesBackOnlyByOverlap /\ BusinessSteps /\ CaseSteps /\ EidsSteps
         /\ FavouritesAreListed /\ PreferenceSteps /\ AbuseSteps /\ MasterDataSteps
BY MessagingPart, BusinessPart, CasesPart, EidsPart, SavedPart, PreferencesPart, AbusePart, MasterDataPart

\* Whatever requests overlap, fail or end half way in whichever part, the rows
\* stay such that what was read of them can be trusted: the part that runs keeps
\* its invariant and touches the rows of no other.
THEOREM CommunityKeepsRows == CommunitySpec => []CommunityInv
<1>1. CommunityInit => CommunityInv
  BY CommunityStarts
<1>2. CommunityInv /\ [CommunityNext]_communityVars => CommunityInv'
  BY CommunityStep
<1> QED
  BY <1>1, <1>2, PTL DEF CommunitySpec

\* What requests write on their own earlier reads fits together: conversations
\* and their events, case histories, the one open verification of a listing, saved
\* searches, public ids, required notifications, published forms, limits on
\* authentication, and the checks a route makes before it writes.
THEOREM RecordsStayInAgreement == CommunitySpec => []RecordsAgree
<1>1. CommunityInv => RecordsAgree
  BY CommunityTold
<1> QED
  BY <1>1, CommunityKeepsRows, PTL

\* Pages that are read one after another, by the cursor of the page before, show
\* every row that stayed in the list, and show it once, whatever moves meanwhile.
THEOREM PagesStayComplete == CommunitySpec => []PagesAreComplete
<1>1. CommunityInv => PagesAreComplete
  BY PagingTold DEF CommunityInv
<1> QED
  BY <1>1, CommunityKeepsRows, PTL

\* No step undoes what another request did unless the two overlapped: pointers
\* go back, contents are overwritten, closed rows are written to, favourites are
\* missed, verified listings lose their state, and decisions of the authority are
\* recorded without being applied only for such a request.
THEOREM OnlyOverlapsAreStale == CommunitySpec => StaleReadsOnlyOverlap
<1>1. CommunityInv /\ [CommunityNext]_communityVars
        => [/\ GoesBackOnlyByOverlap
            /\ BusinessSteps
            /\ CaseSteps
            /\ EidsSteps
            /\ FavouritesAreListed
            /\ PreferenceSteps
            /\ AbuseSteps
            /\ MasterDataSteps]_communityVars
  BY CommunityOverlaps
<1> QED
  BY <1>1, CommunityKeepsRows, PTL DEF CommunitySpec, StaleReadsOnlyOverlap

-----------------------------------------------------------------------------
(* What a dispatcher says and sends *)

States == {"none", "pending", "processing", "retryable_failed"} \cup Final
AnswerSet == {"unconfigured", "accepted", "retryable", "permanent", "invalid"}
Plan == [op : {"pending", "suppressed"}, id : Deliveries]
Claimed == [id : Deliveries, attempts : Nat, wanted : BOOLEAN, disabled : BOOLEAN]
Job == [op : {"recheck", "list", "send", "suppressed", "failed"}, id : Deliveries, attempts : Nat,
        wanted : BOOLEAN, disabled : BOOLEAN, blind : BOOLEAN,
        left : SUBSET Endpoints, outcomes : SUBSET AnswerSet]

DispatchTypeOK ==
  /\ delivery \in [Deliveries -> [state : States, attempts : Nat]]
  /\ wanted \in [Deliveries -> BOOLEAN]
  /\ disabled \in BOOLEAN
  /\ active \subseteq Endpoints
  /\ plan \in [Planners -> Plan \cup {NoJob}]
  /\ batch \in [Workers -> SUBSET Claimed]
  /\ job \in [Workers -> Job \cup {NoJob}]
  /\ accepts \in [Deliveries -> SUBSET Endpoints]

\* What was turned off when the row was claimed still is.
ClaimTrue(row, want, dis) == (want[row.id] => row.wanted) /\ (row.disabled => dis)

\* So it is for a row that is being worked on, and the check has been made for
\* one that is sent; whatever the dispatcher was told, the provider has said.
JobTrue(j, want, dis, acc) ==
  /\ ClaimTrue(j, want, dis)
  /\ j.op \in {"list", "send"} => j.wanted /\ (j.disabled => j.blind)
  /\ "accepted" \in j.outcomes => acc[j.id] # {}

ClaimsTrue == \A w \in Workers : \A row \in batch[w] : ClaimTrue(row, wanted, disabled)
JobsTrue == \A w \in Workers : job[w] # NoJob => JobTrue(job[w], wanted, disabled, accepts)

DispatchInv == DispatchTypeOK /\ AcceptedByProvider /\ ClaimsTrue /\ JobsTrue

\* What was turned off stays off, and what a provider accepted stays accepted.
Advance ==
  /\ \A d \in Deliveries : wanted'[d] => wanted[d]
  /\ disabled => disabled'
  /\ \A d \in Deliveries : accepts[d] # {} => accepts'[d] # {}

\* What no step of the model does to a row.
RowsKept == FinalStays /\ AcceptedByProvider'

-----------------------------------------------------------------------------
(* Frames and batches *)

LEMMA JobNotIdle == \A j \in Job : j # NoJob /\ j.id \in Deliveries
BY DEF Job, NoJob

\* The dispatchers that do not move, and their batches, stay right.
LEMMA ClaimsStay ==
  ASSUME DispatchInv, Advance, \A w \in Workers : batch'[w] \subseteq batch[w]
  PROVE  ClaimsTrue'
BY DEF DispatchInv, DispatchTypeOK, ClaimsTrue, ClaimTrue, Claimed, Advance

LEMMA JobStays ==
  ASSUME DispatchInv, Advance, NEW w \in Workers, job[w] # NoJob
  PROVE  JobTrue(job[w], wanted', disabled', accepts')
<1>1. job[w] \in Job /\ job[w].id \in Deliveries
  BY JobNotIdle DEF DispatchInv, DispatchTypeOK
<1>2. JobTrue(job[w], wanted, disabled, accepts)
  BY DEF DispatchInv, JobsTrue
<1> QED
  BY <1>1, <1>2 DEF JobTrue, ClaimTrue, Advance

\* A step of one dispatcher, or of none.
LEMMA OneJob ==
  ASSUME DispatchInv, Advance, NEW w \in Workers, NEW j, job' = [job EXCEPT ![w] = j],
         j # NoJob => JobTrue(j, wanted', disabled', accepts')
  PROVE  JobsTrue'
BY JobStays DEF DispatchInv, DispatchTypeOK, JobsTrue

LEMMA SameJobs ==
  ASSUME DispatchInv, Advance, UNCHANGED job
  PROVE  JobsTrue' /\ SendsAreWanted
BY JobStays DEF JobsTrue, SendsAreWanted

\* No dispatcher sends in a step that does not answer for an endpoint.
LEMMA NothingSent ==
  ASSUME DispatchTypeOK, NEW w \in Workers, NEW j, job' = [job EXCEPT ![w] = j],
         j.op # "send" \/ job[w].op # "send"
  PROVE  SendsAreWanted
BY DEF DispatchTypeOK, SendsAreWanted

-----------------------------------------------------------------------------
(* The user, the planners and the claims *)

\* A row is written only while no outcome stands; what is accepted was accepted.
LEMMA RowsWritten ==
  ASSUME DispatchInv, Advance,
         \A d \in Deliveries : delivery'[d].state # delivery[d].state =>
           /\ delivery[d].state \notin Final
           /\ delivery'[d].state = "accepted" => accepts'[d] # {}
  PROVE  RowsKept
BY DEF RowsKept, FinalStays, DispatchInv, AcceptedByProvider, Advance

LEMMA UserStep ==
  ASSUME DispatchInv,
         \/ \E d \in Deliveries : OptOut(d)
         \/ DisableAccount
         \/ \E e \in Endpoints : RemoveEndpoint(e)
  PROVE  DispatchInv' /\ RowsKept /\ SendsAreWanted
<1>1. UNCHANGED <<delivery, plan, workVars, accepts>>
  BY DEF OptOut, DisableAccount, RemoveEndpoint
<1>2. DispatchTypeOK'
  BY <1>1 DEF DispatchInv, DispatchTypeOK, workVars, OptOut, DisableAccount, RemoveEndpoint
<1>3. Advance
  BY <1>1 DEF DispatchInv, DispatchTypeOK, Advance, OptOut, DisableAccount, RemoveEndpoint
<1>4. UNCHANGED <<delivery, batch, job>>
  BY <1>1 DEF workVars
<1> QED
  BY <1>2, <1>3, <1>4, ClaimsStay, SameJobs, RowsWritten DEF DispatchInv, RowsKept

\* Planners.
LEMMA PlanStep ==
  ASSUME DispatchInv, NEW p \in Planners,
         PlanWrite(p) \/ \E d \in Deliveries : PlanRead(p, d) \/ PlanReadFails(p, d)
  PROVE  DispatchInv' /\ RowsKept /\ SendsAreWanted
<1>1. UNCHANGED <<wanted, disabled, active, batch, job, accepts>>
  BY DEF PlanWrite, PlanRead, PlanReadFails, userVars, workVars
<1>2. Advance
  BY <1>1 DEF Advance
<1>3. CASE \E d \in Deliveries : PlanRead(p, d) \/ PlanReadFails(p, d)
  <2>1. UNCHANGED delivery
    BY <1>3 DEF PlanRead, PlanReadFails
  <2>2. \A d \in Deliveries, op \in {"pending", "suppressed"} : [op |-> op, id |-> d] \in Plan
    BY DEF Plan
  <2>3. plan' \in [Planners -> Plan \cup {NoJob}]
    BY <1>3, <2>2 DEF PlanRead, PlanReadFails, DispatchInv, DispatchTypeOK
  <2>4. DispatchTypeOK'
    BY <1>1, <2>1, <2>3 DEF DispatchInv, DispatchTypeOK
  <2> QED
    BY <1>1, <1>2, <2>1, <2>4, ClaimsStay, SameJobs, RowsWritten DEF DispatchInv, RowsKept
<1>4. CASE PlanWrite(p)
  <2>1. plan[p] \in Plan
    BY <1>4 DEF PlanWrite, DispatchInv, DispatchTypeOK
  <2>2. plan[p].id \in Deliveries /\ plan[p].op \in {"pending", "suppressed"}
    BY <2>1 DEF Plan
  <2>3. delivery' \in [Deliveries -> [state : States, attempts : Nat]]
        /\ plan' \in [Planners -> Plan \cup {NoJob}]
    BY <1>4, <2>2 DEF PlanWrite, DispatchInv, DispatchTypeOK, States, Final
  <2>4. DispatchTypeOK'
    BY <1>1, <2>3 DEF DispatchInv, DispatchTypeOK
  <2>5. \A d \in Deliveries : delivery'[d].state # delivery[d].state =>
          delivery[d].state \notin Final /\ delivery'[d].state # "accepted"
    BY <1>4, <2>2 DEF PlanWrite, DispatchInv, DispatchTypeOK, Final
  <2> QED
    BY <1>1, <1>2, <2>4, <2>5, ClaimsStay, SameJobs, RowsWritten DEF DispatchInv, RowsKept
<1> QED
  BY <1>3, <1>4

\* A claim takes rows that are due, or that seem to be stranded.
LEMMA ClaimStep ==
  ASSUME DispatchInv, NEW w \in Workers, Claim(w)
  PROVE  DispatchInv' /\ RowsKept /\ SendsAreWanted
<1>1. PICK S \in SUBSET (Waiting \cup Reclaimable) :
        /\ delivery' = [d \in Deliveries |->
             IF d \in S THEN [state |-> "processing", attempts |-> Attempt(d)] ELSE delivery[d]]
        /\ batch' = [batch EXCEPT ![w] = {[id |-> d, attempts |-> Attempt(d),
                                              wanted |-> wanted[d], disabled |-> disabled] : d \in S}]
  BY DEF Claim
<1>2. UNCHANGED <<wanted, disabled, active, plan, job, accepts>>
  BY DEF Claim, userVars
<1>3. S \subseteq Deliveries /\ \A d \in S : delivery[d].state \notin Final
  BY DEF Waiting, Reclaimable, Stranded, Final
<1>4. \A d \in Deliveries : Attempt(d) \in Nat
  BY DispatchAssumption DEF Attempt, DispatchInv, DispatchTypeOK
<1>5. \A d \in S : [id |-> d, attempts |-> Attempt(d), wanted |-> wanted[d], disabled |-> disabled] \in Claimed
  BY <1>3, <1>4 DEF Claimed, DispatchInv, DispatchTypeOK
<1>6. DispatchTypeOK'
  <2>1. delivery' \in [Deliveries -> [state : States, attempts : Nat]]
    BY <1>1, <1>4 DEF DispatchInv, DispatchTypeOK, States
  <2>2. batch' \in [Workers -> SUBSET Claimed]
    BY <1>1, <1>5 DEF DispatchInv, DispatchTypeOK
  <2> QED
    BY <1>2, <2>1, <2>2 DEF DispatchInv, DispatchTypeOK
<1>7. Advance
  BY <1>2 DEF Advance
<1>8. ClaimsTrue'
  <2>1. \A row \in batch'[w] : ClaimTrue(row, wanted', disabled')
    BY <1>1, <1>2 DEF ClaimTrue, DispatchInv, DispatchTypeOK
  <2>2. \A v \in Workers : v # w => batch'[v] = batch[v]
    BY <1>1 DEF DispatchInv, DispatchTypeOK
  <2>3. \A v \in Workers : v # w => \A row \in batch[v] : ClaimTrue(row, wanted', disabled')
    BY <1>2 DEF DispatchInv, ClaimsTrue
  <2> QED
    BY <2>1, <2>2, <2>3 DEF ClaimsTrue
<1>9. \A d \in Deliveries : delivery'[d].state # delivery[d].state =>
        delivery[d].state \notin Final /\ delivery'[d].state # "accepted"
  BY <1>1, <1>3
<1> QED
  BY <1>2, <1>6, <1>7, <1>8, <1>9, SameJobs, RowsWritten DEF DispatchInv, RowsKept

-----------------------------------------------------------------------------
(* The steps of a dispatcher *)

\* A step of one dispatcher that writes no row and sends nothing.
LEMMA QuietStep ==
  ASSUME DispatchInv, NEW w \in Workers, NEW j \in Job \cup {NoJob}, job' = [job EXCEPT ![w] = j],
         j # NoJob => JobTrue(j, wanted, disabled, accepts),
         j.op # "send" \/ job[w].op # "send",
         batch' \in [Workers -> SUBSET Claimed], \A v \in Workers : batch'[v] \subseteq batch[v],
         UNCHANGED <<delivery, wanted, disabled, active, plan, accepts>>
  PROVE  DispatchInv' /\ RowsKept /\ SendsAreWanted
<1>1. DispatchTypeOK'
  BY DEF DispatchInv, DispatchTypeOK
<1>2. Advance
  BY DEF Advance
<1>3. JobsTrue'
  BY <1>2, OneJob
<1>4. SendsAreWanted
  BY NothingSent DEF DispatchInv
<1> QED
  BY <1>1, <1>2, <1>3, <1>4, ClaimsStay, RowsWritten DEF DispatchInv, RowsKept

\* Crashes and lost outcomes.
LEMMA LostStep ==
  ASSUME DispatchInv, NEW w \in Workers, FinishFails(w) \/ Crash(w)
  PROVE  DispatchInv' /\ RowsKept /\ SendsAreWanted
<1>1. job' = [job EXCEPT ![w] = NoJob] /\ NoJob.op # "send"
      /\ UNCHANGED <<delivery, wanted, disabled, active, plan, accepts>>
  BY DEF FinishFails, Crash, userVars, NoJob
<1>2. batch' \in [Workers -> SUBSET Claimed] /\ \A v \in Workers : batch'[v] \subseteq batch[v]
  BY DEF FinishFails, Crash, DispatchInv, DispatchTypeOK
<1> QED
  BY <1>1, <1>2, QuietStep

\* processOne takes over what the claim has read.
LEMMA TakeStep ==
  ASSUME DispatchInv, NEW w \in Workers, Take(w)
  PROVE  DispatchInv' /\ RowsKept /\ SendsAreWanted
<1>1. PICK row \in batch[w] :
        /\ batch' = [batch EXCEPT ![w] = @ \ {row}]
        /\ job' = [job EXCEPT ![w] = [op |-> "recheck", id |-> row.id, attempts |-> row.attempts,
                                      wanted |-> row.wanted, disabled |-> row.disabled,
                                      blind |-> FALSE, left |-> {}, outcomes |-> {}]]
  BY DEF Take
<1> DEFINE j == [op |-> "recheck", id |-> row.id, attempts |-> row.attempts,
                 wanted |-> row.wanted, disabled |-> row.disabled,
                 blind |-> FALSE, left |-> {}, outcomes |-> {}]
<1>2. row \in Claimed /\ ClaimTrue(row, wanted, disabled)
  BY DEF DispatchInv, DispatchTypeOK, ClaimsTrue
<1>3. j \in Job
  BY <1>2 DEF Claimed, Job
<1>4. JobTrue(j, wanted, disabled, accepts)
  BY <1>2 DEF JobTrue, ClaimTrue
<1>5. batch' \in [Workers -> SUBSET Claimed] /\ \A v \in Workers : batch'[v] \subseteq batch[v]
  BY <1>1 DEF DispatchInv, DispatchTypeOK
<1>6. UNCHANGED <<delivery, wanted, disabled, active, plan, accepts>> /\ j.op # "send"
  BY DEF Take, userVars
<1> HIDE DEF j
<1> QED
  BY <1>1, <1>3, <1>4, <1>5, <1>6, QuietStep DEF j

\* What the checks of a dispatcher change in its frame.
LEMMA JobUpdates ==
  ASSUME NEW j \in Job, NEW op \in {"recheck", "list", "send", "suppressed", "failed"}
  PROVE  /\ [j EXCEPT !.op = op] \in Job
         /\ [j EXCEPT !.op = op, !.blind = TRUE] \in Job
         /\ \A E \in SUBSET Endpoints : [j EXCEPT !.left = E, !.op = op] \in Job
BY DEF Job

\* Checking again, listing the endpoints, and lookups that fail.
LEMMA CheckStep ==
  ASSUME DispatchInv, NEW w \in Workers,
         Recheck(w) \/ List(w) \/ RecheckFails(w) \/ LookupFails(w)
  PROVE  DispatchInv' /\ RowsKept /\ SendsAreWanted
<1> DEFINE j == job[w]
<1>1. UNCHANGED <<delivery, wanted, disabled, active, plan, accepts, batch>> /\ j.op \in {"recheck", "list"}
  BY DEF Recheck, List, RecheckFails, LookupFails, userVars
<1>2. j \in Job /\ j.id \in Deliveries /\ j # NoJob
  BY <1>1, JobNotIdle DEF DispatchInv, DispatchTypeOK, NoJob
<1>3. JobTrue(j, wanted, disabled, accepts)
  BY <1>2 DEF DispatchInv, JobsTrue
<1>4. batch' \in [Workers -> SUBSET Claimed] /\ \A v \in Workers : batch'[v] \subseteq batch[v]
  BY <1>1 DEF DispatchInv, DispatchTypeOK
<1>5. ASSUME NEW k \in Job, job' = [job EXCEPT ![w] = k], JobTrue(k, wanted, disabled, accepts)
      PROVE  DispatchInv' /\ RowsKept /\ SendsAreWanted
  <2>1. k.op # "send" \/ job[w].op # "send"
    BY <1>1
  <2> QED
    BY <1>1, <1>4, <1>5, <2>1, QuietStep
<1>6. ASSUME NEW op \in {"suppressed", "failed"}, Goto(w, op)
      PROVE  DispatchInv' /\ RowsKept /\ SendsAreWanted
  <2> DEFINE k == [j EXCEPT !.op = op]
  <2>1. k \in Job
    BY <1>2, JobUpdates
  <2>2. k.op = op /\ k.id = j.id /\ k.wanted = j.wanted /\ k.disabled = j.disabled /\ k.outcomes = j.outcomes
    BY <1>2 DEF Job
  <2>3. JobTrue(k, wanted, disabled, accepts)
    BY <1>3, <2>2 DEF JobTrue, ClaimTrue
  <2>4. job' = [job EXCEPT ![w] = k]
    BY <1>6 DEF Goto
  <2> HIDE DEF k
  <2> QED
    BY <1>5, <2>1, <2>3, <2>4
<1>7. CASE Recheck(w) /\ Allowed(j.id)
  <2> DEFINE k == [j EXCEPT !.op = "list"]
  <2>1. k \in Job
    BY <1>2, JobUpdates
  <2>2. k.op = "list" /\ k.id = j.id /\ k.wanted = j.wanted /\ k.disabled = j.disabled
        /\ k.outcomes = j.outcomes
    BY <1>2 DEF Job
  <2>3. wanted[j.id] /\ ~disabled
    BY <1>7 DEF Allowed
  <2>4. JobTrue(k, wanted, disabled, accepts)
    BY <1>3, <2>2, <2>3 DEF JobTrue, ClaimTrue
  <2>5. job' = [job EXCEPT ![w] = k]
    BY <1>7 DEF Recheck, Goto
  <2> HIDE DEF k
  <2> QED
    BY <1>5, <2>1, <2>4, <2>5
<1>8. CASE wanted[j.id] /\ job' = [job EXCEPT ![w].op = "list", ![w].blind = TRUE]
  <2> DEFINE k == [j EXCEPT !.op = "list", !.blind = TRUE]
  <2>1. k \in Job
    BY <1>2, JobUpdates
  <2>2. k.op = "list" /\ k.id = j.id /\ k.wanted = j.wanted /\ k.disabled = j.disabled
        /\ k.outcomes = j.outcomes /\ k.blind
    BY <1>2 DEF Job
  <2>3. JobTrue(k, wanted, disabled, accepts)
    BY <1>3, <1>8, <2>2 DEF JobTrue, ClaimTrue
  <2>4. job' = [job EXCEPT ![w] = k]
    BY <1>8 DEF DispatchInv, DispatchTypeOK
  <2> HIDE DEF k
  <2> QED
    BY <1>5, <2>1, <2>3, <2>4
<1>9. CASE List(w)
  <2> DEFINE op == IF Reachable(j.id) = {} THEN "suppressed" ELSE "send"
             k == [j EXCEPT !.left = Reachable(j.id), !.op = op]
  <2>1. k \in Job
    <3>1. Reachable(j.id) \in SUBSET Endpoints
      BY DEF Reachable, DispatchInv, DispatchTypeOK
    <3> QED
      BY <1>2, <3>1, JobUpdates
  <2>2. k.op \in {"suppressed", "send"} /\ k.id = j.id /\ k.wanted = j.wanted /\ k.disabled = j.disabled
        /\ k.outcomes = j.outcomes /\ k.blind = j.blind /\ j.op = "list"
    BY <1>2, <1>9 DEF Job, List
  <2>3. JobTrue(k, wanted, disabled, accepts)
    BY <1>3, <2>2 DEF JobTrue, ClaimTrue
  <2>4. job' = [job EXCEPT ![w] = k]
    BY <1>9 DEF List, DispatchInv, DispatchTypeOK
  <2> HIDE DEF k
  <2> QED
    BY <1>5, <2>1, <2>3, <2>4
<1> QED
  BY <1>6, <1>7, <1>8, <1>9 DEF Recheck, RecheckFails, LookupFails

\* One answer of a provider.
LEMMA SendStep ==
  ASSUME DispatchInv, NEW w \in Workers, Send(w)
  PROVE  DispatchInv' /\ RowsKept /\ SendsAreWanted
<1> DEFINE j == job[w]
<1>1. PICK e \in j.left, answer \in AnswerSet :
        /\ job' = [job EXCEPT ![w].left = @ \ {e}, ![w].outcomes = @ \cup {answer}]
        /\ accepts' = IF answer = "accepted" THEN [accepts EXCEPT ![j.id] = @ \cup {e}] ELSE accepts
        /\ active' = IF answer = "invalid" THEN active \ {e} ELSE active
  BY DEF Send, Answers, AnswerSet
<1>2. UNCHANGED <<delivery, wanted, disabled, plan, batch>> /\ j.op = "send"
  BY DEF Send
<1>3. j \in Job /\ j.id \in Deliveries /\ j # NoJob
  BY <1>2, JobNotIdle DEF DispatchInv, DispatchTypeOK, NoJob
<1>4. JobTrue(j, wanted, disabled, accepts)
  BY <1>3 DEF DispatchInv, JobsTrue
<1> DEFINE k == [j EXCEPT !.left = @ \ {e}, !.outcomes = @ \cup {answer}]
<1>5. answer \in AnswerSet /\ e \in Endpoints
  BY <1>3 DEF Job
<1>6. k \in Job /\ k.op = "send" /\ k.id = j.id /\ k.wanted = j.wanted /\ k.disabled = j.disabled
      /\ k.outcomes = j.outcomes \cup {answer} /\ k.blind = j.blind
  BY <1>2, <1>3, <1>5 DEF Job
<1>7. job' = [job EXCEPT ![w] = k]
  BY <1>1 DEF DispatchInv, DispatchTypeOK
<1> HIDE DEF k
<1>8. /\ accepts' \in [Deliveries -> SUBSET Endpoints]
      /\ \A d \in Deliveries : accepts[d] # {} => accepts'[d] # {}
      /\ answer = "accepted" => accepts'[j.id] # {}
  BY <1>1, <1>3, <1>5 DEF DispatchInv, DispatchTypeOK
<1>9. DispatchTypeOK'
  BY <1>1, <1>2, <1>6, <1>7, <1>8 DEF DispatchInv, DispatchTypeOK
<1>10. Advance
  BY <1>2, <1>8 DEF Advance
<1>11. JobTrue(k, wanted', disabled', accepts')
  BY <1>2, <1>3, <1>4, <1>6, <1>8 DEF JobTrue, ClaimTrue
<1>12. JobsTrue'
  BY <1>7, <1>10, <1>11, OneJob
<1>13. SendsAreWanted
  BY <1>2, <1>4, <1>7 DEF SendsAreWanted, JobTrue, DispatchInv, DispatchTypeOK
<1> QED
  BY <1>2, <1>9, <1>10, <1>12, <1>13, ClaimsStay, RowsWritten DEF DispatchInv, RowsKept

\* The outcome of a row that is still processing.
LEMMA FinishStep ==
  ASSUME DispatchInv, NEW w \in Workers, Finish(w)
  PROVE  DispatchInv' /\ RowsKept /\ SendsAreWanted
<1> DEFINE j == job[w]
<1>1. /\ delivery' = [delivery EXCEPT ![j.id].state = IF @ = "processing" THEN Outcome(w) ELSE @]
      /\ job' = [job EXCEPT ![w] = NoJob] /\ NoJob.op # "send"
      /\ UNCHANGED <<wanted, disabled, active, plan, batch, accepts>>
  BY DEF Finish, userVars, NoJob
<1>2. j \in Job /\ j.id \in Deliveries /\ j # NoJob
  BY JobNotIdle DEF Finish, Decided, DispatchInv, DispatchTypeOK, NoJob
<1>3. JobTrue(j, wanted, disabled, accepts)
  BY <1>2 DEF DispatchInv, JobsTrue
<1>4. Outcome(w) \in States
  BY DEF Outcome, Decide, Retry, States, Final
<1>5. Outcome(w) = "accepted" => accepts[j.id] # {}
  BY <1>3 DEF Outcome, Decide, Retry, JobTrue
<1>6. DispatchTypeOK'
  BY <1>1, <1>2, <1>4 DEF DispatchInv, DispatchTypeOK
<1>7. Advance
  BY <1>1 DEF Advance
<1>8. \A d \in Deliveries : delivery'[d].state # delivery[d].state =>
        /\ delivery[d].state \notin Final
        /\ delivery'[d].state = "accepted" => accepts'[d] # {}
  BY <1>1, <1>2, <1>5 DEF DispatchInv, DispatchTypeOK, Final
<1>9. JobsTrue'
  BY <1>1, <1>7, OneJob
<1>10. SendsAreWanted
  BY <1>1, NothingSent DEF DispatchInv
<1> QED
  BY <1>1, <1>6, <1>7, <1>8, <1>9, <1>10, ClaimsStay, RowsWritten DEF DispatchInv, RowsKept

-----------------------------------------------------------------------------
(* The theorems *)

LEMMA DispatchInit == Init => DispatchInv
<1> SUFFICES ASSUME Init PROVE DispatchInv
  OBVIOUS
<1>1. DispatchTypeOK
  BY DEF Init, DispatchTypeOK, States
<1>2. AcceptedByProvider /\ ClaimsTrue /\ JobsTrue
  BY DEF Init, AcceptedByProvider, ClaimsTrue, JobsTrue
<1> QED
  BY <1>1, <1>2 DEF DispatchInv

LEMMA DispatchStep ==
  DispatchInv /\ [Next]_vars => DispatchInv' /\ [FinalStays]_vars /\ [SendsAreWanted]_vars
<1> SUFFICES ASSUME DispatchInv, [Next]_vars
             PROVE  DispatchInv' /\ [FinalStays]_vars /\ [SendsAreWanted]_vars
  OBVIOUS
<1>1. CASE UNCHANGED vars
  <2>1. UNCHANGED <<delivery, wanted, disabled, active, plan, batch, job, accepts>>
    BY <1>1 DEF vars, userVars, workVars
  <2> QED
    BY <1>1, <2>1 DEF DispatchInv, DispatchTypeOK, AcceptedByProvider, ClaimsTrue, JobsTrue
<1>2. CASE Next
  <2>1. ASSUME NEW w \in Workers, Work(w) \/ RecheckFails(w) \/ LookupFails(w) \/ FinishFails(w) \/ Crash(w)
        PROVE  DispatchInv' /\ RowsKept /\ SendsAreWanted
    BY <2>1, ClaimStep, TakeStep, CheckStep, SendStep, FinishStep, LostStep DEF Work
  <2>2. DispatchInv' /\ RowsKept /\ SendsAreWanted
    BY <1>2, <2>1, UserStep, PlanStep DEF Next
  <2> QED
    BY <2>2 DEF RowsKept
<1> QED
  BY <1>1, <1>2

\* "Never fake success": however many dispatchers hold a row, it says accepted
\* only if a provider accepted it.
THEOREM AcceptanceIsReal == Spec => []AcceptedByProvider
<1>1. DispatchInv => AcceptedByProvider
  BY DEF DispatchInv
<1> QED
  BY <1>1, DispatchInit, DispatchStep, PTL DEF Spec

\* An outcome is final: no planner and no dispatcher that was taken for dead
\* writes over it.
THEOREM OutcomesStay == Spec => OutcomesAreFinal
<1>1. DispatchInv /\ [Next]_vars => DispatchInv' /\ [FinalStays]_vars
  BY DispatchStep
<1> QED
  BY <1>1, DispatchInit, PTL DEF Spec, OutcomesAreFinal

\* A claim made after an opt-out, or after the account was disabled, sends
\* nothing, unless the account could not be read when it was checked again.
THEOREM StopsHonoured == Spec => StopsAreHonoured
<1>1. DispatchInv /\ [Next]_vars => DispatchInv' /\ [SendsAreWanted]_vars
  BY DispatchStep
<1> QED
  BY <1>1, DispatchInit, PTL DEF Spec, StopsAreHonoured
=============================================================================
