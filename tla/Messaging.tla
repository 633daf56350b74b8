----------------------------- MODULE Messaging -----------------------------
(***************************************************************************)
(* What is written in the conversations of module Dispatch, and the two    *)
(* kinds of goroutine app.Service (backend/internal/app/service.go) starts *)
(* for a visitor's message: a job that asks the AI and writes its reply,   *)
(* and a timer that gives the conversation to the AI when the agent stays  *)
(* silent.  Both act on the conversation as they find it when they finish. *)
(*                                                                         *)
(* A message is known by its position.  LastMessageAt is kept as the       *)
(* position of the message it is the CreatedAt of: two messages never have *)
(* the same time here.  Of the notices the server generates (handoff,      *)
(* keyword replies, the greeting, transfers, closing), which touch neither *)
(* LastMessageAt nor a counter, only this is kept: whether the last entry  *)
(* of a conversation is the one that says it is over.                      *)
(***************************************************************************)
EXTENDS Dispatch, Sequences

CONSTANTS
  ClientIDs,      \* the client_msg_id values clients use, besides none
  Paddings,       \* whether a client may send its id with blanks around it
  MaxMessages     \* bound: messages people write in one conversation

NoID == 0         \* client_msg_id is empty, or blank

ASSUME ClientIDsAssumption == ClientIDs \subseteq Nat \ {NoID}
ASSUME PaddingsAssumption == Paddings \subseteq BOOLEAN
ASSUME MessagesAssumption == MaxMessages \in Nat

\* A raw client_msg_id: what is left of it when trimmed, and whether that is less.
Keys == [id : ClientIDs, padded : Paddings] \cup [id : {NoID}, padded : {FALSE}]
NoKey == [id |-> NoID, padded |-> FALSE]

\* The AI replies at most once to a message of the visitor (AnsweredAtMostOnce).
Positions == 1..(2 * MaxMessages)
NotAMessage == 0  \* LastMessageAt is the time of the creation or a revocation
ZeroTime == -1    \* the VisitorMessageSentAt of a retry

VARIABLES
  messages,       \* s.messages[c], without the notices
  closingLast,    \* whether the last entry of s.messages[c] is 会话已结束
  lastMessage,    \* conversation.LastMessageAt
  unreadAgent,    \* conversation.UnreadForAgent
  unreadVisitor,  \* conversation.UnreadForVisitor
  jobs,           \* running calls of generateAIReply
  timers          \* goroutines of scheduleNoReplyAI that have not fired

writtenVars == <<messages, lastMessage, unreadAgent, unreadVisitor>>
conversationVars == <<messages, closingLast, lastMessage, unreadAgent, unreadVisitor>>
goroutines == <<jobs, timers>>
mvars == <<vars, messages, closingLast, lastMessage, unreadAgent, unreadVisitor,
           jobs, timers>>

\* re: the position of the message an AI reply answers, 0 for the others.
Messages == [from : {"visitor", "agent", "ai"}, sender : Agents \cup {NoAgent},
             kind : TextKinds, key : Keys, revoked : BOOLEAN,
             re : Positions \cup {0}]

VisitorText(kind, key) == [from |-> "visitor", sender |-> NoAgent, kind |-> kind,
                           key |-> key, revoked |-> FALSE, re |-> 0]
AgentText(a, key) == [from |-> "agent", sender |-> a, kind |-> "plain",
                      key |-> key, revoked |-> FALSE, re |-> 0]
AIText(i) == [from |-> "ai", sender |-> NoAgent, kind |-> "plain",
              key |-> NoKey, revoked |-> FALSE, re |-> i]

\* Messages written by the same account with the same, non-empty, trimmed id.
SameMessage(m, n) ==
  m.from = n.from /\ m.sender = n.sender /\ m.key.id = n.key.id /\ m.key.id # NoID

-----------------------------------------------------------------------------
\* Fault: only the last message is looked at.
FaultyIsRetry(c, new) ==
  /\ messages[c] # <<>>
  /\ SameMessage(messages[c][Len(messages[c])], new)

\* findMessageByClientIDLocked trims the id it looks for; the ids it compares
\* it with were stored as they came.
IsRetry(c, new) ==
  \E i \in DOMAIN messages[c] :
    SameMessage(messages[c][i], new) /\ ~messages[c][i].key.padded

MayWrite(c) == Cardinality({i \in DOMAIN messages[c] : messages[c][i].from # "ai"}) < MaxMessages

\* Fault: only a visitor's message is the conversation's last message.
FaultyWriteNotLast(c, m) ==
  /\ messages' = [messages EXCEPT ![c] = Append(@, m)]
  /\ closingLast' = [closingLast EXCEPT ![c] = FALSE]
  /\ lastMessage' = IF m.from = "visitor"
                    THEN [lastMessage EXCEPT ![c] = Len(messages[c]) + 1]
                    ELSE lastMessage
  /\ unreadAgent' = [unreadAgent EXCEPT ![c] = IF m.from = "visitor" THEN @ + 1 ELSE 0]
  /\ unreadVisitor' = [unreadVisitor EXCEPT ![c] = IF m.from = "visitor" THEN @ ELSE @ + 1]

\* Fault: an answer does not clear the agent's unread counter.
FaultyWriteUnread(c, m) ==
  /\ messages' = [messages EXCEPT ![c] = Append(@, m)]
  /\ closingLast' = [closingLast EXCEPT ![c] = FALSE]
  /\ lastMessage' = [lastMessage EXCEPT ![c] = Len(messages[c]) + 1]
  /\ unreadAgent' = [unreadAgent EXCEPT ![c] = IF m.from = "visitor" THEN @ + 1 ELSE @]
  /\ unreadVisitor' = [unreadVisitor EXCEPT ![c] = IF m.from = "visitor" THEN @ ELSE @ + 1]

\* createMessageLocked and touchConversationLocked.  Replies to a visitor's keyword
\* follow in the same call.
Write(c, m) ==
  /\ messages' = [messages EXCEPT ![c] = Append(@, m)]
  /\ closingLast' = [closingLast EXCEPT ![c] = FALSE]
  /\ lastMessage' = [lastMessage EXCEPT ![c] = Len(messages[c]) + 1]
  /\ unreadAgent' = [unreadAgent EXCEPT ![c] = IF m.from = "visitor" THEN @ + 1 ELSE 0]
  /\ unreadVisitor' = [unreadVisitor EXCEPT ![c] = IF m.from = "visitor" THEN @ ELSE @ + 1]

\* scheduleNoReplyAI, started in the status the store returned.
Schedule(c, i, status, agent) ==
  timers' = IF status = "assigned" /\ agent # NoAgent
            THEN timers \cup {[conv |-> c, msg |-> i]}
            ELSE timers

MInit ==
  /\ Init
  /\ messages = [c \in Convs |-> <<>>]
  /\ closingLast = [c \in Convs |-> FALSE]
  /\ lastMessage = [c \in Convs |-> NotAMessage]
  /\ unreadAgent = [c \in Convs |-> 0]
  /\ unreadVisitor = [c \in Convs |-> 0]
  /\ jobs = {}
  /\ timers = {}

-----------------------------------------------------------------------------
(* The visitor *)

\* Fault: a retry asks the AI again.
FaultySendVisitorMessage(c, key, kind, businessTime) ==
  LET new == VisitorText(kind, key)
      i == Len(messages[c]) + 1
  IN \/ /\ IsOpen(c)
        /\ IsRetry(c, new)
        /\ NeedsAI(c, businessTime)
        /\ \E k \in DOMAIN messages[c] :
             /\ SameMessage(messages[c][k], new)
             /\ jobs' = jobs \cup {[conv |-> c, msg |-> k]}
        /\ UNCHANGED <<vars, conversationVars, timers>>
     \/ /\ ~IsRetry(c, new)
        /\ MayWrite(c)
        /\ AddVisitorMessage(c, kind, businessTime)
        /\ Write(c, new)
        /\ jobs' = IF kind = "plain" /\ NeedsAI(c, businessTime)
                   THEN jobs \cup {[conv |-> c, msg |-> i]} ELSE jobs
        /\ Schedule(c, i, convStatus'[c], owner'[c])

\* Service.AddVisitorMessage.  A retry is told from the conversation's status
\* only: in an assigned one it starts a timer too, for no message.
SendVisitorMessage(c, key, kind, businessTime) ==
  LET new == VisitorText(kind, key)
      i == Len(messages[c]) + 1
  IN \/ /\ IsOpen(c)
        /\ IsRetry(c, new)
        /\ Schedule(c, ZeroTime, convStatus[c], owner[c])
        /\ UNCHANGED <<vars, conversationVars, jobs>>
     \/ /\ ~IsRetry(c, new)
        /\ MayWrite(c)
        /\ AddVisitorMessage(c, kind, businessTime)
        /\ Write(c, new)
        /\ jobs' = IF kind = "plain" /\ NeedsAI(c, businessTime)
                   THEN jobs \cup {[conv |-> c, msg |-> i]} ELSE jobs
        /\ Schedule(c, i, convStatus'[c], owner'[c])

-----------------------------------------------------------------------------
(* The AI *)

\* Fault: the reply is stored before the conversation is looked at.
FaultyGenerateAIReply(j) ==
  /\ j \in jobs
  /\ jobs' = jobs \ {j}
  /\ IF IsOpen(j.conv) THEN AddAIMessage(j.conv) ELSE UNCHANGED vars
  /\ Write(j.conv, AIText(j.msg))
  /\ UNCHANGED timers

\* Fault: the reply is dropped when an agent has the conversation.
FaultyGenerateAIReplyDrops(j) ==
  /\ j \in jobs
  /\ jobs' = jobs \ {j}
  /\ \/ /\ convStatus[j.conv] # "ai_serving"
        /\ UNCHANGED <<vars, conversationVars>>
     \/ /\ convStatus[j.conv] = "ai_serving"
        /\ AddAIMessage(j.conv)
        /\ Write(j.conv, AIText(j.msg))
  /\ UNCHANGED timers

\* The end of generateAIReply.  The model or its failure always gives a text;
\* a conversation closed or deleted in the meantime refuses it.
GenerateAIReply(j) ==
  /\ j \in jobs
  /\ jobs' = jobs \ {j}
  /\ \/ /\ ~IsOpen(j.conv)
        /\ UNCHANGED <<vars, conversationVars>>
     \/ /\ AddAIMessage(j.conv)
        /\ Write(j.conv, AIText(j.msg))
  /\ UNCHANGED timers

Unanswered(t) == lastMessage[t.conv] = t.msg

\* Fault: the conversation goes to the AI and nobody asks the AI.
FaultyFireTimer(t) ==
  /\ t \in timers
  /\ timers' = timers \ {t}
  /\ \/ Unanswered(t) /\ EscalateNoReplyToAI(t.conv)
     \/ /\ ~(Unanswered(t) /\ convStatus[t.conv] = "assigned" /\ AIActive)
        /\ UNCHANGED vars
  /\ UNCHANGED <<conversationVars, jobs>>

\* A timer fires: EscalateNoReplyToAI, then generateAIReply for its message.
FireTimer(t) ==
  /\ t \in timers
  /\ timers' = timers \ {t}
  /\ \/ /\ Unanswered(t)
        /\ EscalateNoReplyToAI(t.conv)
        /\ jobs' = jobs \cup {t}
     \/ /\ ~(Unanswered(t) /\ convStatus[t.conv] = "assigned" /\ AIActive)
        /\ UNCHANGED <<vars, jobs>>
  /\ UNCHANGED conversationVars

-----------------------------------------------------------------------------
(* Agents and administrators *)

\* Service.AddAgentMessage; a retry changes nothing.
SendAgentMessage(a, c, key) ==
  /\ ~IsRetry(c, AgentText(a, key))
  /\ MayWrite(c)
  /\ AddAgentMessage(a, c)
  /\ Write(c, AgentText(a, key))
  /\ UNCHANGED goroutines

\* Fault: a message can be revoked again.
FaultyRevokeMessage(actor, c, i) ==
  /\ Exists(c)
  /\ actor.kind # "visitor"
  /\ Permitted(actor, c)
  /\ messages[c][i].from = "agent"
  /\ actor.kind = "agent" => messages[c][i].sender = actor.id
  /\ messages' = [messages EXCEPT ![c][i].revoked = TRUE]
  /\ lastMessage' = [lastMessage EXCEPT ![c] = NotAMessage]
  /\ unreadVisitor' = [unreadVisitor EXCEPT ![c] = IF @ > 0 THEN @ - 1 ELSE 0]
  /\ UNCHANGED <<vars, closingLast, unreadAgent, goroutines>>

\* An agent revokes its own messages, an administrator any agent's, in a
\* closed conversation too.  LastMessageAt becomes the time of the revocation.
RevokeMessage(actor, c, i) ==
  /\ Exists(c)
  /\ actor.kind # "visitor"
  /\ Permitted(actor, c)
  /\ messages[c][i].from = "agent"
  /\ actor.kind = "agent" => messages[c][i].sender = actor.id
  /\ ~messages[c][i].revoked
  /\ messages' = [messages EXCEPT ![c][i].revoked = TRUE]
  /\ lastMessage' = [lastMessage EXCEPT ![c] = NotAMessage]
  /\ unreadVisitor' = [unreadVisitor EXCEPT ![c] = IF @ > 0 THEN @ - 1 ELSE 0]
  /\ UNCHANGED <<vars, closingLast, unreadAgent, goroutines>>

\* The router lets no visitor call it.
MarkConversationRead(actor, c) ==
  /\ Exists(c)
  /\ actor.kind # "visitor"
  /\ Permitted(actor, c)
  /\ unreadAgent' = [unreadAgent EXCEPT ![c] = 0]
  /\ UNCHANGED <<vars, messages, closingLast, lastMessage, unreadVisitor, goroutines>>

\* DeleteConversation takes the messages with it; goroutines go on.
DeleteWithMessages(actor, c) ==
  /\ DeleteConversation(actor, c)
  /\ messages' = [messages EXCEPT ![c] = <<>>]
  /\ closingLast' = [closingLast EXCEPT ![c] = FALSE]
  /\ lastMessage' = [lastMessage EXCEPT ![c] = NotAMessage]
  /\ unreadAgent' = [unreadAgent EXCEPT ![c] = 0]
  /\ unreadVisitor' = [unreadVisitor EXCEPT ![c] = 0]
  /\ UNCHANGED goroutines

-----------------------------------------------------------------------------
(* Operations of Dispatch that write a notice and nothing else *)

NoticeIn(c, closing) ==
  /\ closingLast' = [closingLast EXCEPT ![c] = closing]
  /\ UNCHANGED <<writtenVars, goroutines>>

\* The greeting, when there is one.
CreateWithGreeting(businessTime) ==
  /\ CreateVisitorConversation(businessTime)
  /\ NoticeIn(lastID', FALSE)

\* Closing a closed conversation writes the notice again.
CloseWithNotice(actor, c) == CloseConversation(actor, c) /\ NoticeIn(c, TRUE)

\* A transfer to the agent that has the conversation writes a notice, too.
TransferToAgentWithNotice(actor, c, a) ==
  TransferToAgent(actor, c, a) /\ NoticeIn(c, FALSE)

TransferToGroupWithNotice(actor, c, members) ==
  TransferToGroup(actor, c, members) /\ NoticeIn(c, FALSE)

-----------------------------------------------------------------------------
VisitorNext ==
  \E c \in Convs, key \in Keys, kind \in TextKinds, businessTime \in BOOLEAN :
    SendVisitorMessage(c, key, kind, businessTime)

GoroutineNext ==
  \/ \E j \in jobs : GenerateAIReply(j)
  \/ \E t \in timers : FireTimer(t)

StaffNext ==
  \E c \in Convs :
    \/ \E a \in Agents, key \in Keys : SendAgentMessage(a, c, key)
    \/ \E actor \in Actors :
         \/ \E i \in DOMAIN messages[c] : RevokeMessage(actor, c, i)
         \/ MarkConversationRead(actor, c)
         \/ DeleteWithMessages(actor, c)

DispatchNext ==
  \/ (AgentNext \/ SettingsNext) /\ UNCHANGED <<conversationVars, goroutines>>
  \/ \E businessTime \in BOOLEAN : CreateWithGreeting(businessTime)
  \/ \E c \in Convs, actor \in Actors :
       \/ CloseWithNotice(actor, c)
       \/ \E a \in Agents : TransferToAgentWithNotice(actor, c, a)
       \/ \E members \in SUBSET Agents : TransferToGroupWithNotice(actor, c, members)

MNext == VisitorNext \/ GoroutineNext \/ StaffNext \/ DispatchNext

Goroutines == [conv : Convs, msg : Positions \cup {ZeroTime}]

\* Every goroutine ends: the call of the AI has a timeout and a text of its
\* own for a failure, and a timer fires.  Nobody else has to do anything.
Fairness ==
  \A g \in Goroutines :
    WF_mvars(GenerateAIReply(g)) /\ WF_mvars(FireTimer(g))

MSpec == MInit /\ [][MNext]_mvars
FairSpec == MSpec /\ Fairness

-----------------------------------------------------------------------------
(* Properties *)

Written(c) == DOMAIN messages[c]
By(c, who) == {i \in Written(c) : messages[c][i].from \in who}

\* The state keeps its type; a conversation that is not there has no messages,
\* also when an AI reply arrives after it was deleted.
MTypeOK ==
  /\ \A c \in Convs :
       /\ Len(messages[c]) \in 0..(2 * MaxMessages)
       /\ \A i \in Written(c) : messages[c][i] \in Messages
       /\ lastMessage[c] \in Written(c) \cup {NotAMessage}
       /\ convStatus[c] = "none" => messages[c] = <<>>
  /\ closingLast \in [Convs -> BOOLEAN]
  /\ unreadAgent \in [Convs -> Nat]
  /\ unreadVisitor \in [Convs -> Nat]
  /\ jobs \subseteq [conv : Convs, msg : Positions]
  /\ timers \subseteq Goroutines

\* A client that repeats a message, whatever was written, revoked or answered
\* since, does not get it written twice.  With blanks around an id it does.
WrittenOnce ==
  \A c \in Convs : \A i, j \in Written(c) :
    i # j => ~SameMessage(messages[c][i], messages[c][j])

\* The AI answers a message of the visitor at most once, and nothing but a
\* message of the visitor: not once for the message and again for its timer.
AnsweredAtMostOnce ==
  \A c \in Convs :
    /\ \A i \in By(c, {"ai"}) :
         /\ messages[c][i].re < i
         /\ messages[c][messages[c][i].re].from = "visitor"
    /\ \A i, j \in By(c, {"ai"}) :
         i # j => messages[c][i].re # messages[c][j].re

\* The visitor's counter is the number of answers the visitor can still see:
\* a message that is revoked leaves it, once.
UnreadForVisitorCounts ==
  \A c \in Convs :
    unreadVisitor[c] =
      Cardinality({i \in By(c, {"agent", "ai"}) : ~messages[c][i].revoked})

\* The agent's counter never counts a message that was answered since.
UnreadForAgentIsUnanswered ==
  \A c \in Convs :
    unreadAgent[c] <=
      Cardinality({i \in By(c, {"visitor"}) : \A j \in By(c, {"agent", "ai"}) : j < i})

\* A conversation passes from its agent to the AI without a message only while
\* the last message in it is the visitor's: no timer overtakes an answer.
EscalatesOnlyUnanswered ==
  [][\A c \in Convs :
       (/\ convStatus[c] = "assigned" /\ convStatus'[c] = "ai_serving"
        /\ owner'[c] = owner[c] /\ messages'[c] = messages[c])
         => /\ messages[c] # <<>>
            /\ messages[c][Len(messages[c])].from = "visitor"]_mvars

\* What says that a conversation is over is the last thing in it as long as it is
\* closed, whatever was on its way to it: no message, reply of the AI or notice of
\* another operation follows.  Closing it again repeats the notice.
ClosingComesLast == \A c \in Convs : convStatus[c] = "closed" <=> closingLast[c]

HasNew(c) == Len(messages'[c]) > Len(messages[c])
New(c) == messages'[c][Len(messages'[c])]

\* A visitor who asks for a human gets an agent, or waits for one, except in
\* always_ai mode, where assignConversationLocked gives the conversation back to the AI.
KeywordReachesHuman ==
  [][\A c \in Convs :
       (HasNew(c) /\ New(c).kind = "human_keyword" /\ aiMode # "always_ai")
         => convStatus'[c] \in {"assigned", "human_requested"}]_mvars

\* A visitor who waits for a human keeps waiting until an agent has the
\* conversation or it is closed.  It does not hold: an AI reply that was under
\* way, or the visitor's next message, gives the conversation to the AI.
HumanRequestKept ==
  [][\A c \in Convs :
       convStatus[c] = "human_requested"
         => convStatus'[c] \in {"human_requested", "assigned", "closed"}]_mvars

\* A message given to the AI gets its reply, unless the conversation is closed.
AskedIsAnswered ==
  \A j \in [conv : Convs, msg : Positions] :
    (j \in jobs) ~> \/ \E i \in By(j.conv, {"ai"}) : messages[j.conv][i].re = j.msg
                    \/ ~IsOpen(j.conv)

\* A message whose timer runs does not remain the last one: somebody answers,
\* the AI at the latest.  Three ways out: the AI is off, the conversation is
\* closed, or it lost its agent (then the timer is void and nobody is asked).
SilenceEnds ==
  \A t \in [conv : Convs, msg : Positions] :
    (t \in timers) ~> \/ ~Unanswered(t)
                      \/ ~IsOpen(t.conv)
                      \/ owner[t.conv] = NoAgent
                      \/ ~AIActive

=============================================================================
