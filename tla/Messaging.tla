------------------------------ MODULE Messaging ------------------------------
(***************************************************************************)
(* backend/internal/messaging: the conversation of a buyer with the seller *)
(* of a listing.  A message has the time at which its request asked the    *)
(* clock, before the transaction that inserts it; each side has a pointer  *)
(* to the last message it has read, and what the other side sent after     *)
(* that is unread.  Neither the pointer nor the conversation's updated_at  *)
(* is written under a version.                                             *)
(***************************************************************************)
EXTENDS Requests, FiniteSets

CONSTANT MaxMessages      \* bound: messages sent

VARIABLES
  visible,    \* the listing can be seen by the public
  chats,      \* conversations of the buyer about the listing
  updated,    \* updated_at of the conversation
  messages,   \* messaging.messages: a message is its time and its sender
  pointer,    \* last_read_message_id of each side, as the time of the message
  clock       \* now

messagingVars == <<visible, chats, updated, messages, pointer, clock>>

Parties == {"buyer", "seller"}

\* Conversation.Counterpart
Counterpart(u) == CHOOSE v \in Parties : v # u

MessagingInit ==
  /\ visible = TRUE
  /\ chats = {}
  /\ updated = 0
  /\ messages = {}
  /\ pointer = [u \in Parties |-> 0]
  /\ clock = 0

\* encodeMessageReceived
ReceivedKey(at) == <<"message", at>>

\* LatestMessage: 0 when there is none
LatestMessage == IF messages = {} THEN 0 ELSE (CHOOSE m \in messages : \A n \in messages : n.at <= m.at).at

\* unreadCount, afterRead
Unread(u) == {m \in messages : m.from # u /\ m.at > pointer[u]}

\* requireParticipant
HasConversation == chats # {}

-----------------------------------------------------------------------------
\* CreateConversation: requirePublishedOwner, then GetByPair ...
CreateConversation(c) ==
  /\ call[c] = Idle
  /\ visible /\ chats = {}
  /\ Proceed(c, [op |-> "chat"])
  /\ UNCHANGED <<published, messagingVars>>

\* ... then InsertConversation; the loser of a race is given the winner's.
InsertConversation(c) ==
  /\ call[c].op = "chat"
  /\ chats' = IF chats = {} THEN {1} ELSE chats
  /\ Return(c)
  /\ UNCHANGED <<published, visible, updated, messages, pointer, clock>>

\* SendMessage: the time is taken ...
SendMessage(c, u) ==
  /\ call[c] = Idle
  /\ HasConversation
  /\ clock < MaxMessages
  /\ clock' = clock + 1
  /\ Proceed(c, [op |-> "send", from |-> u, at |-> clock', base |-> pointer, since |-> updated])
  /\ UNCHANGED <<published, visible, chats, updated, messages, pointer>>

\* ... and the message, its event, updated_at and the sender's own pointer are
\* written in one transaction.
InsertMessage(c) ==
  /\ call[c].op = "send"
  /\ messages' = messages \cup {[at |-> call[c].at, from |-> call[c].from]}
  /\ published' = published \cup {ReceivedKey(call[c].at)}
  /\ updated' = call[c].at
  /\ pointer' = [pointer EXCEPT ![call[c].from] = call[c].at]
  /\ Return(c)
  /\ UNCHANGED <<visible, chats, clock>>

\* MarkRead: the latest message is looked up ...
MarkRead(c, u) ==
  /\ call[c] = Idle
  /\ HasConversation
  /\ Proceed(c, [op |-> "mark", from |-> u, at |-> LatestMessage, base |-> pointer, since |-> updated])
  /\ UNCHANGED <<published, messagingVars>>

\* ... and becomes the pointer, whatever the pointer is by then.
WritePointer(c) ==
  /\ call[c].op = "mark"
  /\ pointer' = [pointer EXCEPT ![call[c].from] = call[c].at]
  /\ Return(c)
  /\ UNCHANGED <<published, visible, chats, updated, messages, clock>>

\* The listing is hidden, or shown again (module Listings).
VisibilityChanges ==
  /\ visible' = ~visible
  /\ UNCHANGED <<call, published, chats, updated, messages, pointer, clock>>

MessagingNext ==
  \/ VisibilityChanges
  \/ \E c \in Clients :
       \/ CreateConversation(c) \/ InsertConversation(c) \/ InsertMessage(c) \/ WritePointer(c)
       \/ \E u \in Parties : SendMessage(c, u) \/ MarkRead(c, u)

-----------------------------------------------------------------------------
\* The buyer has one conversation about the listing, every message that was
\* sent has its event, and a pointer names a message that exists: CreateConversation,
\* SendMessage and MarkRead may all run at once.
ConversationStory ==
  /\ Cardinality(chats) <= 1
  /\ \A m \in messages : ReceivedKey(m.at) \in published
  /\ \A u \in Parties : pointer[u] # 0 => \E m \in messages : m.at = pointer[u]

\* Pointers and updated_at have no version.  They go back, and a message is
\* inserted that the other side never sees as unread, only when another write
\* of the pointer or of updated_at came in during the request that does it.
GoesBackOnlyByOverlap ==
  \A c \in Clients :
    (call[c].op \in {"send", "mark"} /\ call'[c] = Idle) =>
      /\ pointer'[call[c].from] < pointer[call[c].from] => call[c].base # pointer
      /\ updated' < updated => call[c].since # updated
      /\ \A m \in messages' \ messages :
           m.at <= pointer[Counterpart(m.from)] => call[c].base # pointer
=============================================================================
