-------------------------- MODULE MessagingProofs --------------------------
(***************************************************************************)
(* The messages, AI jobs and timers of module Messaging only ever restrict *)
(* what module Dispatch allows, so every theorem about Dispatch holds of   *)
(* the service with its goroutines.  Then what Messaging itself promises:  *)
(* retries, unread counters, answers and timers, for any number of people, *)
(* conversations and messages.                                             *)
(***************************************************************************)
EXTENDS Messaging, DispatchProofs

\* A step of the visitor is a message, or a retry that changes no conversation.
LEMMA VisitorStep ==
  ASSUME VisitorNext
  PROVE  MessageNext \/ UNCHANGED vars
<1>1. PICK c \in Convs, key \in Keys, kind \in TextKinds, businessTime \in BOOLEAN :
        SendVisitorMessage(c, key, kind, businessTime)
  BY DEF VisitorNext
<1>2. AddVisitorMessage(c, kind, businessTime) \/ UNCHANGED vars
  BY <1>1 DEF SendVisitorMessage
<1> QED
  BY <1>2 DEF MessageNext

\* A job or a timer belongs to a conversation: the only typing the proof needs.
GoroutinesHaveConvs == \A g \in jobs \cup timers : g.conv \in Convs

\* A goroutine adds an AI message, escalates, or finds nothing left to do.
LEMMA GoroutineStep ==
  ASSUME GoroutineNext, GoroutinesHaveConvs
  PROVE  MessageNext \/ UNCHANGED vars
<1>1. CASE \E j \in jobs : GenerateAIReply(j)
  <2>1. PICK j \in jobs : GenerateAIReply(j)
    BY <1>1
  <2>2. j.conv \in Convs
    BY DEF GoroutinesHaveConvs
  <2>3. AddAIMessage(j.conv) \/ UNCHANGED vars
    BY <2>1 DEF GenerateAIReply
  <2> QED
    BY <2>2, <2>3 DEF MessageNext
<1>2. CASE \E t \in timers : FireTimer(t)
  <2>1. PICK t \in timers : FireTimer(t)
    BY <1>2
  <2>2. t.conv \in Convs
    BY DEF GoroutinesHaveConvs
  <2>3. EscalateNoReplyToAI(t.conv) \/ UNCHANGED vars
    BY <2>1 DEF FireTimer
  <2> QED
    BY <2>2, <2>3 DEF MessageNext
<1> QED
  BY <1>1, <1>2 DEF GoroutineNext

\* Agents and administrators write, revoke, read and delete.
LEMMA StaffStep ==
  ASSUME StaffNext
  PROVE  Next \/ UNCHANGED vars
<1>1. PICK c \in Convs :
        \/ \E a \in Agents, key \in Keys : SendAgentMessage(a, c, key)
        \/ \E actor \in Actors :
             \/ \E i \in DOMAIN messages[c] : RevokeMessage(actor, c, i)
             \/ MarkConversationRead(actor, c)
             \/ DeleteWithMessages(actor, c)
  BY DEF StaffNext
<1>2. CASE \E a \in Agents, key \in Keys : SendAgentMessage(a, c, key)
  BY <1>2 DEF SendAgentMessage, MessageNext, Next
<1>3. CASE \E actor \in Actors, i \in DOMAIN messages[c] : RevokeMessage(actor, c, i)
  BY <1>3 DEF RevokeMessage
<1>4. CASE \E actor \in Actors : MarkConversationRead(actor, c)
  BY <1>4 DEF MarkConversationRead
<1>5. CASE \E actor \in Actors : DeleteWithMessages(actor, c)
  BY <1>5 DEF DeleteWithMessages, ConversationNext, Next
<1> QED
  BY <1>1, <1>2, <1>3, <1>4, <1>5

\* The operations of Dispatch that write a notice or nothing touch no message, no
\* counter and no goroutine.
LEMMA DispatchOnly ==
  ASSUME DispatchNext
  PROVE  /\ UNCHANGED writtenVars /\ UNCHANGED goroutines
         /\ \/ AgentNext \/ SettingsNext
            \/ \E businessTime \in BOOLEAN : CreateVisitorConversation(businessTime)
            \/ \E c \in Convs, actor \in Actors :
                 \/ CloseConversation(actor, c)
                 \/ \E a \in Agents : TransferToAgent(actor, c, a)
                 \/ \E members \in SUBSET Agents : TransferToGroup(actor, c, members)
<1>1. CASE (AgentNext \/ SettingsNext) /\ UNCHANGED <<conversationVars, goroutines>>
  BY <1>1 DEF conversationVars, writtenVars
<1>2. CASE \E businessTime \in BOOLEAN : CreateWithGreeting(businessTime)
  BY <1>2 DEF CreateWithGreeting, NoticeIn
<1>3. ASSUME NEW c \in Convs, NEW actor \in Actors,
             \/ CloseWithNotice(actor, c)
             \/ \E a \in Agents : TransferToAgentWithNotice(actor, c, a)
             \/ \E members \in SUBSET Agents : TransferToGroupWithNotice(actor, c, members)
      PROVE  /\ UNCHANGED writtenVars /\ UNCHANGED goroutines
             /\ \/ CloseConversation(actor, c)
                \/ \E a \in Agents : TransferToAgent(actor, c, a)
                \/ \E members \in SUBSET Agents : TransferToGroup(actor, c, members)
  BY <1>3 DEF CloseWithNotice, TransferToAgentWithNotice, TransferToGroupWithNotice, NoticeIn
<1> QED
  BY <1>1, <1>2, <1>3 DEF DispatchNext

LEMMA DispatchStep ==
  ASSUME DispatchNext
  PROVE  Next
BY DispatchOnly DEF Next, ConversationNext

\* New goroutines are started for the conversation of the message.
LEMMA GoroutinesHaveConvsInductive ==
  ASSUME GoroutinesHaveConvs, [MNext]_mvars
  PROVE  GoroutinesHaveConvs'
<1>1. CASE VisitorNext
  <2>1. PICK c \in Convs, key \in Keys, kind \in TextKinds, businessTime \in BOOLEAN :
          SendVisitorMessage(c, key, kind, businessTime)
    BY <1>1 DEF VisitorNext
  <2>2. \A g \in jobs' : g \in jobs \/ g.conv = c
    BY <2>1 DEF SendVisitorMessage
  <2>3. \A g \in timers' : g \in timers \/ g.conv = c
    BY <2>1 DEF SendVisitorMessage, Schedule
  <2> QED
    BY <2>2, <2>3 DEF GoroutinesHaveConvs
<1>2. CASE GoroutineNext
  <2>1. jobs' \cup timers' \subseteq jobs \cup timers
    BY <1>2 DEF GoroutineNext, GenerateAIReply, FireTimer
  <2> QED
    BY <2>1 DEF GoroutinesHaveConvs
<1>3. CASE UNCHANGED goroutines
  BY <1>3 DEF goroutines, GoroutinesHaveConvs
<1>4. StaffNext \/ DispatchNext \/ UNCHANGED mvars => UNCHANGED goroutines
  BY DispatchOnly DEF StaffNext, SendAgentMessage, RevokeMessage, MarkConversationRead,
                      DeleteWithMessages, goroutines, mvars
<1> QED
  BY <1>1, <1>2, <1>3, <1>4 DEF MNext

\* Every step of the service is a step of Dispatch, or leaves it alone.
LEMMA StepSimulation ==
  ASSUME GoroutinesHaveConvs, [MNext]_mvars
  PROVE  [Next]_vars
<1>1. CASE VisitorNext
  BY <1>1, VisitorStep DEF Next
<1>2. CASE GoroutineNext
  BY <1>2, GoroutineStep DEF Next
<1>3. CASE StaffNext
  BY <1>3, StaffStep
<1>4. CASE DispatchNext
  BY <1>4, DispatchStep
<1>5. CASE UNCHANGED mvars
  BY <1>5 DEF mvars
<1> QED
  BY <1>1, <1>2, <1>3, <1>4, <1>5 DEF MNext

\* Messages, AI jobs and timers take no step Dispatch does not have: what is
\* proved of Dispatch, where they may act at any time, holds of the service.
THEOREM MessagingImplementsDispatch == MSpec => Spec
<1>1. MInit => Init /\ GoroutinesHaveConvs
  BY DEF MInit, GoroutinesHaveConvs
<1>2. GoroutinesHaveConvs /\ [MNext]_mvars => GoroutinesHaveConvs' /\ [Next]_vars
  BY GoroutinesHaveConvsInductive, StepSimulation
<1> QED
  BY <1>1, <1>2, PTL DEF MSpec, Spec

\* With messages, AI replies and timers in flight the counter still never
\* exceeds the open conversations, and equals them until one is closed twice.
THEOREM MessagingCounterCorrect == MSpec => []CounterMatchesLoad
BY MessagingImplementsDispatch, CounterCorrect, PTL

\* No late AI reply and no timer reopens a closed conversation.
THEOREM MessagingClosedForever == MSpec => ClosedIsFinal
BY MessagingImplementsDispatch, ClosedForever, PTL

-----------------------------------------------------------------------------
(* What is written in a conversation *)

\* A message, wherever the bound of the model lies.
Texts == [from : {"visitor", "agent", "ai"}, sender : Agents \cup {NoAgent},
          kind : TextKinds, key : Keys, revoked : BOOLEAN, re : Nat]

WritingTyped ==
  /\ messages \in [Convs -> Seq(Texts)]
  /\ lastMessage \in [Convs -> Nat]
  /\ unreadAgent \in [Convs -> Nat]
  /\ unreadVisitor \in [Convs -> Nat]

MTyped ==
  /\ WritingTyped
  /\ jobs \subseteq [conv : Convs, msg : Nat]
  /\ timers \subseteq [conv : Convs, msg : Nat \cup {ZeroTime}]

\* The four things a step can do to what is written.
Writes(c, m) ==
  /\ Write(c, m)
  /\ IsOpen(c) /\ ~m.revoked
  /\ m.from = "ai" => /\ m.key = NoKey
                     /\ [conv |-> c, msg |-> m.re] \in jobs
                     /\ jobs' = jobs \ {[conv |-> c, msg |-> m.re]}
  /\ m.from # "ai" => ~IsRetry(c, m) /\ MayWrite(c) /\ m.re = 0

Revokes(c, i) ==
  /\ messages[c][i].from = "agent"
  /\ ~messages[c][i].revoked
  /\ messages' = [messages EXCEPT ![c][i].revoked = TRUE]
  /\ lastMessage' = [lastMessage EXCEPT ![c] = NotAMessage]
  /\ unreadVisitor' = [unreadVisitor EXCEPT ![c] = IF @ > 0 THEN @ - 1 ELSE 0]
  /\ UNCHANGED <<unreadAgent, convStatus>>

Empties(c) ==
  /\ convStatus[c] = "closed"
  /\ convStatus' = [convStatus EXCEPT ![c] = "none"]
  /\ messages' = [messages EXCEPT ![c] = <<>>]
  /\ lastMessage' = [lastMessage EXCEPT ![c] = NotAMessage]
  /\ unreadAgent' = [unreadAgent EXCEPT ![c] = 0]
  /\ unreadVisitor' = [unreadVisitor EXCEPT ![c] = 0]

Reads(c) ==
  /\ unreadAgent' = [unreadAgent EXCEPT ![c] = 0]
  /\ UNCHANGED <<messages, lastMessage, unreadVisitor>>

LEMMA WritingStep ==
  ASSUME MTyped, [MNext]_mvars
  PROVE  \/ \E c \in Convs, m \in Texts : Writes(c, m)
         \/ \E c \in Convs : \E i \in Written(c) : Revokes(c, i)
         \/ \E c \in Convs : Empties(c) \/ Reads(c)
         \/ UNCHANGED writtenVars
<1>0. NoKey \in Keys
  BY DEF NoKey, Keys
<1>1. CASE VisitorNext
  <2>1. PICK c \in Convs, key \in Keys, kind \in TextKinds, businessTime \in BOOLEAN :
          SendVisitorMessage(c, key, kind, businessTime)
    BY <1>1 DEF VisitorNext
  <2>2. /\ VisitorText(kind, key) \in Texts
        /\ VisitorText(kind, key).from = "visitor" /\ VisitorText(kind, key).re = 0
        /\ ~VisitorText(kind, key).revoked
    BY <2>1 DEF VisitorText, Texts
  <2>3. Writes(c, VisitorText(kind, key)) \/ UNCHANGED writtenVars
    BY <2>1, <2>2
       DEF SendVisitorMessage, AddVisitorMessage, Writes, conversationVars, writtenVars
  <2> QED
    BY <2>2, <2>3
<1>2. ASSUME NEW j \in jobs, GenerateAIReply(j)
      PROVE  \/ \E c \in Convs, m \in Texts : Writes(c, m)
             \/ UNCHANGED writtenVars
  <2>1. j \in [conv : Convs, msg : Nat]
    BY DEF MTyped
  <2>2. AIText(j.msg) \in Texts
    BY <1>0, <2>1 DEF AIText, Texts, TextKinds
  <2>3. /\ AIText(j.msg).key = NoKey /\ AIText(j.msg).re = j.msg
        /\ AIText(j.msg).from = "ai"
        /\ ~AIText(j.msg).revoked
    BY DEF AIText
  <2>4. [conv |-> j.conv, msg |-> j.msg] = j
    BY <2>1
  <2>5. Writes(j.conv, AIText(j.msg)) \/ UNCHANGED writtenVars
    BY <1>2, <2>3, <2>4
       DEF GenerateAIReply, AddAIMessage, Writes, conversationVars, writtenVars
  <2> QED
    BY <2>1, <2>2, <2>5
<1>3. CASE GoroutineNext
  BY <1>2, <1>3 DEF GoroutineNext, FireTimer, conversationVars, writtenVars
<1>4. ASSUME NEW c \in Convs, NEW a \in Agents, NEW key \in Keys, SendAgentMessage(a, c, key)
      PROVE  \E m \in Texts : Writes(c, m)
  <2>1. /\ AgentText(a, key) \in Texts
        /\ AgentText(a, key).from = "agent" /\ AgentText(a, key).re = 0
        /\ ~AgentText(a, key).revoked
    BY DEF AgentText, Texts, TextKinds
  <2>2. Writes(c, AgentText(a, key))
    BY <1>4, <2>1 DEF SendAgentMessage, AddAgentMessage, Writes
  <2> QED
    BY <2>1, <2>2
<1>5. ASSUME NEW c \in Convs, NEW actor \in Actors, NEW i \in DOMAIN messages[c],
             RevokeMessage(actor, c, i)
      PROVE  i \in Written(c) /\ Revokes(c, i)
  BY <1>5 DEF RevokeMessage, Revokes, Written, vars
<1>6. ASSUME NEW c \in Convs, NEW actor \in Actors, MarkConversationRead(actor, c)
      PROVE  Reads(c)
  BY <1>6 DEF MarkConversationRead, Reads
<1>7. ASSUME NEW c \in Convs, NEW actor \in Actors, DeleteWithMessages(actor, c)
      PROVE  Empties(c)
  BY <1>7 DEF DeleteWithMessages, DeleteConversation, Empties
<1>8. CASE StaffNext
  BY <1>4, <1>5, <1>6, <1>7, <1>8 DEF StaffNext
<1>9. CASE DispatchNext \/ UNCHANGED mvars
  BY <1>9, DispatchOnly DEF mvars, writtenVars
<1> QED
  BY <1>1, <1>3, <1>8, <1>9 DEF MNext

\* Written at the end of the conversation; the others keep their messages.
LEMMA Appended ==
  ASSUME MTyped, NEW c \in Convs, NEW m \in Texts, Write(c, m)
  PROVE  /\ messages' \in [Convs -> Seq(Texts)]
         /\ \A d \in Convs \ {c} : messages'[d] = messages[d]
         /\ Len(messages[c]) \in Nat
         /\ DOMAIN messages[c] = 1..Len(messages[c])
         /\ Len(messages'[c]) = Len(messages[c]) + 1
         /\ DOMAIN messages'[c] = 1..(Len(messages[c]) + 1)
         /\ \A i \in DOMAIN messages[c] : messages'[c][i] = messages[c][i]
         /\ messages'[c][Len(messages[c]) + 1] = m
<1>1. messages[c] \in Seq(Texts) /\ messages'[c] = Append(messages[c], m)
  BY DEF MTyped, WritingTyped, Write
<1>2. messages'[c] \in Seq(Texts)
  BY <1>1
<1>3. /\ messages' \in [Convs -> Seq(Texts)]
      /\ \A d \in Convs \ {c} : messages'[d] = messages[d]
  BY <1>1, <1>2 DEF MTyped, WritingTyped, Write
<1> QED
  BY <1>1, <1>3

\* A revoked message keeps its place, its author and what it answers.
LEMMA Kept ==
  ASSUME MTyped, NEW c \in Convs, NEW i \in Written(c), Revokes(c, i)
  PROVE  /\ messages' \in [Convs -> Seq(Texts)]
         /\ \A d \in Convs \ {c} : messages'[d] = messages[d]
         /\ Len(messages'[c]) = Len(messages[c])
         /\ DOMAIN messages'[c] = DOMAIN messages[c]
         /\ messages'[c][i] = [messages[c][i] EXCEPT !.revoked = TRUE]
         /\ \A k \in DOMAIN messages[c] \ {i} : messages'[c][k] = messages[c][k]
<1>1. messages[c] \in Seq(Texts) /\ i \in 1..Len(messages[c]) /\ Len(messages[c]) \in Nat
  BY DEF MTyped, WritingTyped, Written
<1>2. messages[c][i] \in Texts
  BY <1>1
<1>3. messages'[c] = [messages[c] EXCEPT ![i] = [messages[c][i] EXCEPT !.revoked = TRUE]]
  BY DEF MTyped, WritingTyped, Revokes
<1>4. [messages[c][i] EXCEPT !.revoked = TRUE] \in Texts
  BY <1>2 DEF Texts
<1>5. messages'[c] \in Seq(Texts) /\ Len(messages'[c]) = Len(messages[c])
  BY <1>1, <1>3, <1>4
<1>6. /\ messages' \in [Convs -> Seq(Texts)]
      /\ \A d \in Convs \ {c} : messages'[d] = messages[d]
  BY <1>5 DEF MTyped, WritingTyped, Revokes
<1> QED
  BY <1>1, <1>3, <1>5, <1>6

\* What a step does to one conversation.
LEMMA OneConversation ==
  ASSUME MTyped, [MNext]_mvars, NEW c \in Convs
  PROVE  \/ \E m \in Texts : Writes(c, m)
         \/ \E i \in Written(c) : Revokes(c, i)
         \/ Empties(c) \/ Reads(c)
         \/ /\ messages'[c] = messages[c]
            /\ lastMessage'[c] = lastMessage[c]
            /\ unreadAgent'[c] = unreadAgent[c]
            /\ unreadVisitor'[c] = unreadVisitor[c]
<1> DEFINE Same == /\ messages'[c] = messages[c]
                   /\ lastMessage'[c] = lastMessage[c]
                   /\ unreadAgent'[c] = unreadAgent[c]
                   /\ unreadVisitor'[c] = unreadVisitor[c]
<1>1. ASSUME NEW d \in Convs, d # c, NEW m \in Texts, Writes(d, m)
      PROVE  Same
  BY <1>1, Appended DEF Writes, Write, MTyped, WritingTyped
<1>2. ASSUME NEW d \in Convs, d # c, NEW i \in Written(d), Revokes(d, i)
      PROVE  Same
  <2>1. messages'[c] = messages[c]
    BY <1>2, Kept
  <2> QED
    BY <1>2, <2>1 DEF Revokes, MTyped, WritingTyped
<1>3. ASSUME NEW d \in Convs, d # c, Empties(d) \/ Reads(d)
      PROVE  Same
  BY <1>3 DEF Empties, Reads, MTyped, WritingTyped
<1>4. UNCHANGED writtenVars => Same
  BY DEF writtenVars
<1> HIDE DEF Same
<1>5. \/ \E m \in Texts : Writes(c, m)
      \/ \E i \in Written(c) : Revokes(c, i)
      \/ Empties(c) \/ Reads(c)
      \/ Same
  BY <1>1, <1>2, <1>3, <1>4, WritingStep
<1> QED
  BY <1>5 DEF Same

LEMMA MTypedStep == MTyped /\ [MNext]_mvars => MTyped'
<1> SUFFICES ASSUME MTyped, [MNext]_mvars PROVE MTyped'
  OBVIOUS
<1>1. WritingTyped'
  <2>1. ASSUME NEW c \in Convs, NEW m \in Texts, Writes(c, m)
        PROVE  WritingTyped'
    <3>1. Write(c, m)
      BY <2>1 DEF Writes
    <3>2. messages' \in [Convs -> Seq(Texts)] /\ Len(messages[c]) + 1 \in Nat
      BY <3>1, Appended
    <3>3. lastMessage' \in [Convs -> Nat]
      BY <3>1, <3>2 DEF Write, MTyped, WritingTyped
    <3>4. unreadAgent[c] + 1 \in Nat /\ unreadVisitor[c] + 1 \in Nat
      BY DEF MTyped, WritingTyped
    <3>5. unreadAgent' \in [Convs -> Nat]
      BY <3>1, <3>4 DEF Write, MTyped, WritingTyped
    <3>6. unreadVisitor' \in [Convs -> Nat]
      BY <3>1, <3>4 DEF Write, MTyped, WritingTyped
    <3> QED
      BY <3>2, <3>3, <3>5, <3>6 DEF WritingTyped
  <2>2. ASSUME NEW c \in Convs, NEW i \in Written(c), Revokes(c, i)
        PROVE  WritingTyped'
    <3>1. messages' \in [Convs -> Seq(Texts)]
      BY <2>2, Kept
    <3>2. unreadVisitor' \in [Convs -> Nat]
      BY <2>2 DEF Revokes, MTyped, WritingTyped
    <3>3. lastMessage' \in [Convs -> Nat] /\ unreadAgent' \in [Convs -> Nat]
      BY <2>2 DEF Revokes, MTyped, WritingTyped, NotAMessage
    <3> QED
      BY <3>1, <3>2, <3>3 DEF WritingTyped
  <2>3. ASSUME NEW c \in Convs, Empties(c)
        PROVE  WritingTyped'
    <3>1. <<>> \in Seq(Texts)
      OBVIOUS
    <3>2. messages' \in [Convs -> Seq(Texts)]
      BY <2>3, <3>1, Zenon DEF Empties, MTyped, WritingTyped
    <3>3. /\ lastMessage' \in [Convs -> Nat]
          /\ unreadAgent' \in [Convs -> Nat]
          /\ unreadVisitor' \in [Convs -> Nat]
      BY <2>3 DEF Empties, MTyped, WritingTyped, NotAMessage
    <3> QED
      BY <3>2, <3>3 DEF WritingTyped
  <2>4. ASSUME NEW c \in Convs, Reads(c)
        PROVE  WritingTyped'
    BY <2>4 DEF Reads, MTyped, WritingTyped
  <2>5. CASE UNCHANGED writtenVars
    BY <2>5 DEF writtenVars, MTyped, WritingTyped
  <2> QED
    BY <2>1, <2>2, <2>3, <2>4, <2>5, WritingStep
<1>2. /\ jobs' \subseteq [conv : Convs, msg : Nat]
      /\ timers' \subseteq [conv : Convs, msg : Nat \cup {ZeroTime}]
  <2>1. CASE VisitorNext
    <3>1. PICK c \in Convs, key \in Keys, kind \in TextKinds, businessTime \in BOOLEAN :
            SendVisitorMessage(c, key, kind, businessTime)
      BY <2>1 DEF VisitorNext
    <3>2. Len(messages[c]) + 1 \in Nat
      BY DEF MTyped, WritingTyped
    <3> QED
      BY <3>1, <3>2 DEF SendVisitorMessage, Schedule, MTyped
  <2>2. ASSUME NEW t \in timers, FireTimer(t)
        PROVE  <1>2
    <3>1. t \in [conv : Convs, msg : Nat \cup {ZeroTime}] /\ lastMessage[t.conv] \in Nat
      BY DEF MTyped, WritingTyped
    <3>2. Unanswered(t) => t \in [conv : Convs, msg : Nat]
      BY <3>1 DEF Unanswered
    <3> QED
      BY <2>2, <3>2 DEF FireTimer, MTyped
  <2>3. CASE GoroutineNext
    BY <2>2, <2>3 DEF GoroutineNext, GenerateAIReply, MTyped
  <2>4. StaffNext \/ DispatchNext \/ UNCHANGED mvars => UNCHANGED goroutines
    BY DispatchOnly DEF StaffNext, SendAgentMessage, RevokeMessage, MarkConversationRead,
                        DeleteWithMessages, goroutines, mvars
  <2> QED
    BY <2>1, <2>3, <2>4 DEF MNext, goroutines, MTyped
<1> QED
  BY <1>1, <1>2 DEF MTyped

LEMMA MTypedInit == MInit => MTyped
BY DEF MInit, MTyped, WritingTyped, NotAMessage

-----------------------------------------------------------------------------
(* Retries *)

\* Without blanks around ids.
OnceInv == Paddings = {FALSE} => WrittenOnce

LEMMA OnceStep == MTyped /\ OnceInv /\ [MNext]_mvars => OnceInv'
<1> SUFFICES ASSUME MTyped, OnceInv, [MNext]_mvars, Paddings = {FALSE},
                    NEW c \in Convs, NEW i \in Written(c)', NEW j \in Written(c)', i # j
             PROVE  ~SameMessage(messages'[c][i], messages'[c][j])
  BY DEF OnceInv, WrittenOnce
<1>1. \A k, l \in DOMAIN messages[c] : k # l => ~SameMessage(messages[c][k], messages[c][l])
  BY DEF OnceInv, WrittenOnce, Written
<1>2. CASE messages'[c] = messages[c]
  BY <1>1, <1>2 DEF Written
<1>3. ASSUME NEW m \in Texts, Writes(c, m)
      PROVE  ~SameMessage(messages'[c][i], messages'[c][j])
  <2>1. Write(c, m)
    BY <1>3 DEF Writes
  <2> DEFINE n == Len(messages[c])
  <2>2. /\ n \in Nat
        /\ DOMAIN messages[c] = 1..n
        /\ DOMAIN messages'[c] = 1..(n + 1)
        /\ \A k \in DOMAIN messages[c] : messages'[c][k] = messages[c][k]
        /\ messages'[c][n + 1] = m
    BY <2>1, Appended
  <2>3. ASSUME NEW k \in DOMAIN messages[c]
        PROVE  /\ ~SameMessage(messages[c][k], m)
               /\ ~SameMessage(m, messages[c][k])
    <3>1. messages[c][k] \in Texts
      BY DEF MTyped, WritingTyped
    <3>2. messages[c][k].key \in Keys
      BY <3>1 DEF Texts
    <3>3. ~messages[c][k].key.padded
      BY <3>2 DEF Keys
    <3>4. CASE m.from = "ai"
      <4>1. m.key.id = NoID
        BY <1>3, <3>4 DEF Writes, NoKey
      <4> QED
        BY <4>1 DEF SameMessage
    <3>5. CASE m.from # "ai"
      <4>1. ~SameMessage(messages[c][k], m)
        BY <1>3, <3>3, <3>5 DEF Writes, IsRetry
      <4> QED
        BY <4>1 DEF SameMessage
    <3> QED
      BY <3>4, <3>5
  <2>4. i \in 1..(n + 1) /\ j \in 1..(n + 1)
    BY <2>2 DEF Written
  <2> HIDE DEF n
  <2>5. CASE i = n + 1
    <3>1. j \in DOMAIN messages[c]
      BY <2>2, <2>4, <2>5
    <3> QED
      BY <2>2, <2>3, <2>5, <3>1
  <2>6. CASE j = n + 1
    <3>1. i \in DOMAIN messages[c]
      BY <2>2, <2>4, <2>6
    <3> QED
      BY <2>2, <2>3, <2>6, <3>1
  <2>7. CASE i # n + 1 /\ j # n + 1
    <3>1. i \in DOMAIN messages[c] /\ j \in DOMAIN messages[c]
      BY <2>2, <2>4, <2>7
    <3> QED
      BY <1>1, <2>2, <3>1
  <2> QED
    BY <2>5, <2>6, <2>7
<1>4. ASSUME NEW k \in Written(c), Revokes(c, k)
      PROVE  ~SameMessage(messages'[c][i], messages'[c][j])
  <2>1. /\ DOMAIN messages'[c] = DOMAIN messages[c]
        /\ messages'[c][k] = [messages[c][k] EXCEPT !.revoked = TRUE]
        /\ \A l \in DOMAIN messages[c] \ {k} : messages'[c][l] = messages[c][l]
    BY <1>4, Kept
  <2>2. messages[c][k] \in Texts
    BY DEF MTyped, WritingTyped, Written
  <2>3. /\ messages'[c][k].from = messages[c][k].from
        /\ messages'[c][k].sender = messages[c][k].sender
        /\ messages'[c][k].key = messages[c][k].key
    BY <2>1, <2>2 DEF Texts
  <2>4. \A l \in DOMAIN messages[c] :
          /\ messages'[c][l].from = messages[c][l].from
          /\ messages'[c][l].sender = messages[c][l].sender
          /\ messages'[c][l].key = messages[c][l].key
    BY <2>1, <2>3
  <2>5. i \in DOMAIN messages[c] /\ j \in DOMAIN messages[c]
    BY <2>1 DEF Written
  <2>6. ~SameMessage(messages[c][i], messages[c][j])
    BY <1>1, <2>5
  <2> QED
    BY <2>4, <2>5, <2>6 DEF SameMessage
<1>5. ASSUME Empties(c)
      PROVE  FALSE
  BY <1>5 DEF Empties, MTyped, WritingTyped, Written
<1>6. Reads(c) => messages'[c] = messages[c]
  BY DEF Reads
<1> QED
  BY <1>2, <1>3, <1>4, <1>5, <1>6, OneConversation

\* However often clients repeat their messages and whatever happens in between, no
\* message is written twice, as long as no client puts blanks around its id.
THEOREM RetriesAreFound == MSpec => [](Paddings = {FALSE} => WrittenOnce)
<1>1. MInit => OnceInv
  BY DEF MInit, OnceInv, WrittenOnce, Written
<1>2. QED
  BY <1>1, OnceStep, MTypedInit, MTypedStep, PTL DEF MSpec, OnceInv

-----------------------------------------------------------------------------
(* Unread messages *)

Visible(c) == {i \in By(c, {"agent", "ai"}) : ~messages[c][i].revoked}
Pending(c) == {i \in By(c, {"visitor"}) : \A j \in By(c, {"agent", "ai"}) : j < i}

LEMMA PositionsFinite ==
  ASSUME NEW n \in Nat, NEW S \in SUBSET (1..n)
  PROVE  IsFiniteSet(S) /\ Cardinality(S) \in Nat
<1>1. IsFiniteSet(1..n)
  BY FS_Interval
<1>2. IsFiniteSet(S)
  BY <1>1, FS_Subset
<1> QED
  BY <1>2, FS_CardinalityType

\* The positions the counters count lie in the conversation.
LEMMA CountedPositions ==
  ASSUME MTyped, NEW c \in Convs
  PROVE  /\ Len(messages[c]) \in Nat
         /\ Visible(c) \in SUBSET (1..Len(messages[c]))
         /\ Pending(c) \in SUBSET (1..Len(messages[c]))
BY DEF MTyped, WritingTyped, Visible, Pending, By, Written

LEMMA AddedVisible ==
  ASSUME MTyped, NEW c \in Convs, NEW m \in Texts, Write(c, m), ~m.revoked
  PROVE  Visible(c)' = IF m.from = "visitor" THEN Visible(c)
                       ELSE Visible(c) \cup {Len(messages[c]) + 1}
<1> DEFINE n == Len(messages[c])
<1>1. /\ n \in Nat
      /\ DOMAIN messages[c] = 1..n
      /\ DOMAIN messages'[c] = 1..(n + 1)
      /\ \A k \in DOMAIN messages[c] : messages'[c][k] = messages[c][k]
      /\ messages'[c][n + 1] = m
  BY Appended
<1>2. m.from \in {"visitor", "agent", "ai"}
  BY DEF Texts
<1> HIDE DEF n
<1>3. \A i : i \in Visible(c)' <=> \/ i \in Visible(c)
                                   \/ i = n + 1 /\ m.from # "visitor"
  <2> SUFFICES ASSUME NEW i
               PROVE  i \in Visible(c)' <=> \/ i \in Visible(c)
                                            \/ i = n + 1 /\ m.from # "visitor"
    OBVIOUS
  <2>1. i \in 1..(n + 1) <=> i \in 1..n \/ i = n + 1
    BY <1>1
  <2>2. CASE i \in 1..n
    <3>1. i # n + 1 /\ messages'[c][i] = messages[c][i]
      BY <1>1, <2>2
    <3> QED
      BY <1>1, <2>1, <2>2, <3>1 DEF Visible, By, Written
  <2>3. CASE i = n + 1
    <3>1. i \notin 1..n
      BY <1>1, <2>3
    <3> QED
      BY <1>1, <1>2, <2>1, <2>3, <3>1 DEF Visible, By, Written
  <2>4. CASE i \notin 1..(n + 1)
    BY <1>1, <2>1, <2>4 DEF Visible, By, Written
  <2> QED
    BY <2>1, <2>2, <2>3, <2>4
<1> QED
  BY <1>3 DEF n

LEMMA AddedPending ==
  ASSUME MTyped, NEW c \in Convs, NEW m \in Texts, Write(c, m), m.from = "visitor"
  PROVE  Pending(c)' = Pending(c) \cup {Len(messages[c]) + 1}
<1> DEFINE n == Len(messages[c])
<1>1. /\ n \in Nat
      /\ DOMAIN messages[c] = 1..n
      /\ DOMAIN messages'[c] = 1..(n + 1)
      /\ \A k \in DOMAIN messages[c] : messages'[c][k] = messages[c][k]
      /\ messages'[c][n + 1] = m
  BY Appended
<1> HIDE DEF n
<1>2. By(c, {"agent", "ai"})' = By(c, {"agent", "ai"})
  BY <1>1 DEF By, Written
<1>3. By(c, {"visitor"})' = By(c, {"visitor"}) \cup {n + 1}
  BY <1>1 DEF By, Written
<1>4. \A j \in By(c, {"agent", "ai"}) : j < n + 1
  BY <1>1 DEF By, Written
<1>5. Pending(c)' = {i \in By(c, {"visitor"})' : \A j \in By(c, {"agent", "ai"})' : j < i}
  BY DEF Pending
<1>6. Pending(c)' = Pending(c) \cup {n + 1}
  BY <1>2, <1>3, <1>4, <1>5 DEF Pending
<1> QED
  BY <1>6 DEF n

LEMMA RevokedCounted ==
  ASSUME MTyped, NEW c \in Convs, NEW i \in Written(c), Revokes(c, i)
  PROVE  /\ Visible(c)' = Visible(c) \ {i} /\ i \in Visible(c)
         /\ Pending(c)' = Pending(c)
<1>1. /\ DOMAIN messages'[c] = DOMAIN messages[c]
      /\ messages'[c][i] = [messages[c][i] EXCEPT !.revoked = TRUE]
      /\ \A l \in DOMAIN messages[c] \ {i} : messages'[c][l] = messages[c][l]
  BY Kept
<1>2. messages[c][i] \in Texts
  BY DEF MTyped, WritingTyped, Written
<1>3. messages'[c][i].from = messages[c][i].from /\ messages'[c][i].revoked
  BY <1>1, <1>2 DEF Texts
<1>4. \A l \in DOMAIN messages[c] : messages'[c][l].from = messages[c][l].from
  BY <1>1, <1>3
<1>5. /\ By(c, {"agent", "ai"})' = By(c, {"agent", "ai"})
      /\ By(c, {"visitor"})' = By(c, {"visitor"})
  BY <1>1, <1>4 DEF By, Written
<1>6. i \in Visible(c)
  BY DEF Visible, By, Revokes
<1>7. Visible(c)' = Visible(c) \ {i}
  <2>1. Visible(c)' = {k \in By(c, {"agent", "ai"})' : ~messages'[c][k].revoked}
    BY DEF Visible
  <2>2. \A k \in By(c, {"agent", "ai"}) :
          ~messages'[c][k].revoked <=> k # i /\ ~messages[c][k].revoked
    BY <1>1, <1>3 DEF By, Written
  <2> QED
    BY <1>5, <2>1, <2>2 DEF Visible
<1>8. Pending(c)' = Pending(c)
  BY <1>5 DEF Pending
<1> QED
  BY <1>6, <1>7, <1>8

LEMMA UnreadStep ==
  MTyped /\ UnreadForVisitorCounts /\ UnreadForAgentIsUnanswered /\ [MNext]_mvars
    => UnreadForVisitorCounts' /\ UnreadForAgentIsUnanswered'
<1> SUFFICES ASSUME MTyped, [MNext]_mvars,
                    UnreadForVisitorCounts, UnreadForAgentIsUnanswered, NEW c \in Convs
             PROVE  /\ unreadVisitor'[c] = Cardinality(Visible(c)')
                    /\ unreadAgent'[c] <= Cardinality(Pending(c)')
  BY DEF UnreadForVisitorCounts, UnreadForAgentIsUnanswered, Visible, Pending
<1>1. /\ unreadVisitor[c] = Cardinality(Visible(c))
      /\ unreadAgent[c] <= Cardinality(Pending(c))
  BY DEF UnreadForVisitorCounts, UnreadForAgentIsUnanswered, Visible, Pending
<1>2. /\ Len(messages[c]) \in Nat
      /\ Visible(c) \in SUBSET (1..Len(messages[c]))
      /\ Pending(c) \in SUBSET (1..Len(messages[c]))
  BY CountedPositions
<1>3. /\ IsFiniteSet(Visible(c)) /\ Cardinality(Visible(c)) \in Nat
      /\ IsFiniteSet(Pending(c)) /\ Cardinality(Pending(c)) \in Nat
  BY <1>2, PositionsFinite
<1>4. MTyped'
  BY MTypedStep
<1>5. Cardinality(Visible(c)') \in Nat /\ Cardinality(Pending(c)') \in Nat
  <2>1. /\ Len(messages'[c]) \in Nat
        /\ Visible(c)' \in SUBSET (1..Len(messages'[c]))
        /\ Pending(c)' \in SUBSET (1..Len(messages'[c]))
    BY <1>4 DEF MTyped, WritingTyped, Visible, Pending, By, Written
  <2> QED
    BY <2>1, PositionsFinite
<1>6. Len(messages[c]) + 1 \notin Visible(c) \cup Pending(c)
  BY <1>2
<1>7. unreadAgent \in [Convs -> Nat] /\ unreadVisitor \in [Convs -> Nat]
  BY DEF MTyped, WritingTyped
<1>8. ASSUME NEW m \in Texts, Writes(c, m)
      PROVE  /\ unreadVisitor'[c] = Cardinality(Visible(c)')
             /\ unreadAgent'[c] <= Cardinality(Pending(c)')
  <2>1. Write(c, m) /\ ~m.revoked
    BY <1>8 DEF Writes
  <2>2. CASE m.from = "visitor"
    <3>1. Visible(c)' = Visible(c) /\ unreadVisitor'[c] = unreadVisitor[c]
      BY <1>7, <2>1, <2>2, AddedVisible DEF Write
    <3>2. Cardinality(Pending(c)') = Cardinality(Pending(c)) + 1
      <4>1. Pending(c)' = Pending(c) \cup {Len(messages[c]) + 1}
        BY <2>1, <2>2, AddedPending
      <4>2. Len(messages[c]) + 1 \notin Pending(c)
        BY <1>6
      <4> QED
        BY <1>3, <4>1, <4>2, FS_AddElement
    <3>3. unreadAgent'[c] = unreadAgent[c] + 1 /\ unreadAgent[c] \in Nat
      BY <1>7, <2>1, <2>2 DEF Write
    <3> QED
      BY <1>1, <1>3, <3>1, <3>2, <3>3
  <2>3. CASE m.from # "visitor"
    <3>1. Cardinality(Visible(c)') = Cardinality(Visible(c)) + 1
      BY <1>3, <1>6, <2>1, <2>3, AddedVisible, FS_AddElement
    <3>2. unreadVisitor'[c] = unreadVisitor[c] + 1 /\ unreadAgent'[c] = 0
      BY <1>7, <2>1, <2>3 DEF Write
    <3> QED
      BY <1>1, <1>5, <3>1, <3>2
  <2> QED
    BY <2>2, <2>3
<1>9. ASSUME NEW i \in Written(c), Revokes(c, i)
      PROVE  /\ unreadVisitor'[c] = Cardinality(Visible(c)')
             /\ unreadAgent'[c] <= Cardinality(Pending(c)')
  <2>1. /\ Visible(c)' = Visible(c) \ {i} /\ i \in Visible(c)
        /\ Pending(c)' = Pending(c)
    BY <1>9, RevokedCounted
  <2>2. Cardinality(Visible(c)') = Cardinality(Visible(c)) - 1
    BY <1>3, <2>1, FS_RemoveElement
  <2>3. /\ unreadVisitor'[c] = IF unreadVisitor[c] > 0 THEN unreadVisitor[c] - 1 ELSE 0
        /\ unreadAgent'[c] = unreadAgent[c]
    BY <1>7, <1>9 DEF Revokes
  <2> QED
    BY <1>1, <1>3, <1>5, <2>1, <2>2, <2>3
<1>10. CASE Empties(c)
  <2>1. messages'[c] = <<>> /\ unreadAgent'[c] = 0 /\ unreadVisitor'[c] = 0
    BY <1>7, <1>10 DEF Empties, MTyped, WritingTyped
  <2>2. Visible(c)' = {}
    BY <2>1 DEF Visible, By, Written
  <2> QED
    BY <1>5, <2>1, <2>2, FS_EmptySet
<1>11. ASSUME messages'[c] = messages[c], unreadVisitor'[c] = unreadVisitor[c],
              unreadAgent'[c] <= unreadAgent[c], unreadAgent'[c] \in Nat
       PROVE  /\ unreadVisitor'[c] = Cardinality(Visible(c)')
              /\ unreadAgent'[c] <= Cardinality(Pending(c)')
  <2>1. Visible(c)' = Visible(c) /\ Pending(c)' = Pending(c)
    BY <1>11 DEF Visible, Pending, By, Written
  <2> QED
    BY <1>1, <1>3, <1>7, <1>11, <2>1
<1>12. CASE Reads(c)
  <2>1. /\ messages'[c] = messages[c] /\ unreadVisitor'[c] = unreadVisitor[c]
        /\ unreadAgent'[c] = 0 /\ unreadAgent[c] \in Nat
    BY <1>7, <1>12 DEF Reads
  <2> QED
    BY <1>11, <2>1
<1> QED
  BY <1>7, <1>8, <1>9, <1>10, <1>11, <1>12, OneConversation

\* The two unread counters are right after any number of messages, replies,
\* retries and revocations: the visitor's counts the answers not revoked, the
\* agent's never an answered message.
THEOREM UnreadIsRight == MSpec => [](UnreadForVisitorCounts /\ UnreadForAgentIsUnanswered)
<1>1. MInit => UnreadForVisitorCounts /\ UnreadForAgentIsUnanswered
  <2> SUFFICES ASSUME MInit, NEW c \in Convs
               PROVE  /\ unreadVisitor[c] = Cardinality(Visible(c))
                      /\ unreadAgent[c] <= Cardinality(Pending(c))
    BY DEF UnreadForVisitorCounts, UnreadForAgentIsUnanswered, Visible, Pending
  <2>1. unreadVisitor[c] = 0 /\ unreadAgent[c] = 0 /\ Visible(c) = {} /\ Pending(c) = {}
    BY DEF MInit, Visible, Pending, By, Written
  <2> QED
    BY <2>1, FS_EmptySet
<1>2. QED
  BY <1>1, UnreadStep, MTypedInit, MTypedStep, PTL DEF MSpec

\* What the agent's counter counts is the visitor's and nobody has answered it: an answer
\* of an agent or of the AI, a marking as read and a message never cross wrongly.
THEOREM UnreadNeverAnswered == MSpec => []UnreadForAgentIsUnanswered
BY UnreadIsRight, PTL

-----------------------------------------------------------------------------
(* Jobs, timers and answers *)

\* What jobs and timers know of conversations that may have changed since.
Blank == \A c \in Convs : ~Exists(c) => messages[c] = <<>>
Started == \A g \in jobs \cup timers : g.conv <= lastID
Newest == \A c \in Convs : lastMessage[c] \in {NotAMessage, Len(messages[c])}
Asks == \A g \in jobs \cup timers :
          Exists(g.conv) /\ g.msg # ZeroTime => g.msg \in By(g.conv, {"visitor"})
AskInv == Blank /\ Started /\ Newest /\ Asks

\* A deleted conversation does not come back.
LEMMA StaysAway ==
  ASSUME TypeOK, [Next]_vars, NEW c \in Convs, c <= lastID, ~Exists(c)
  PROVE  ~Exists(c)'
<1> SUFFICES convStatus'[c] = "none"
  BY DEF Exists
<1>1. convStatus[c] = "none" /\ convStatus \in [Convs -> ConversationStatuses]
  BY DEF Exists, TypeOK
<1>2. ASSUME NEW d \in Convs, d # c, NEW s, AssignConversation(d, s)
      PROVE  convStatus'[c] = "none"
  BY <1>1, <1>2 DEF AssignConversation
<1>3. ASSUME NEW a, NEW Forget, ReleaseConversations(a, Forget)
      PROVE  convStatus'[c] = "none"
  BY <1>1, <1>3 DEF ReleaseConversations, Serving, IsOpen
<1>4. ASSUME NEW a, PickUpWaiting(a)
      PROVE  convStatus'[c] = "none"
  BY <1>1, <1>4 DEF PickUpWaiting, Pickable
<1>5. CASE AgentNext
  BY <1>1, <1>3, <1>4, <1>5
     DEF AgentNext, CreateAgent, SetAgentStatus, UpdateAgent, DisableAgent, DeleteAgent,
         convVars
<1>6. CASE MessageNext
  <2>1. ASSUME NEW d \in Convs, NEW kind \in TextKinds, NEW t \in BOOLEAN,
               AddVisitorMessage(d, kind, t)
        PROVE  convStatus'[c] = "none"
    <3>1. d # c
      BY <1>1, <2>1 DEF AddVisitorMessage, IsOpen
    <3> QED
      BY <1>1, <1>2, <2>1, <3>1 DEF AddVisitorMessage, AskForHuman
  <2> QED
    BY <1>1, <1>6, <2>1
       DEF MessageNext, AddAIMessage, AddAgentMessage, EscalateNoReplyToAI, IsOpen
<1>7. ASSUME NEW t \in BOOLEAN, CreateVisitorConversation(t)
      PROVE  convStatus'[c] = "none"
  <2>1. lastID + 1 \in Convs /\ lastID + 1 # c
    BY <1>7, BoundAssumption DEF CreateVisitorConversation, Convs, TypeOK
  <2>2. \E s : AssignConversation(lastID + 1, s)
    BY <1>7 DEF CreateVisitorConversation
  <2> QED
    BY <1>2, <2>1, <2>2
<1>8. CASE ConversationNext
  BY <1>1, <1>7, <1>8
     DEF ConversationNext, CloseConversation, DeleteConversation, TransferToAgent,
         TransferToGroup, MoveConversation, Exists, IsOpen
<1>9. CASE SettingsNext \/ UNCHANGED vars
  BY <1>1, <1>9 DEF SettingsNext, UpdateAISettings, UpdateBusinessHours, convVars, vars
<1> QED
  BY <1>5, <1>6, <1>8, <1>9 DEF Next

\* Only its deletion makes a conversation go away.
LEMMA Survives ==
  ASSUME TypeOK, NEW c \in Convs, Exists(c),
         \/ AgentNext \/ MessageNext \/ SettingsNext
         \/ \E t \in BOOLEAN : CreateVisitorConversation(t)
         \/ \E d \in Convs, actor \in Actors :
              \/ CloseConversation(actor, d)
              \/ \E a \in Agents : TransferToAgent(actor, d, a)
              \/ \E members \in SUBSET Agents : TransferToGroup(actor, d, members)
         \/ UNCHANGED vars
  PROVE  Exists(c)'
<1> SUFFICES convStatus'[c] # "none"
  BY DEF Exists
<1>1. convStatus[c] # "none" /\ convStatus \in [Convs -> ConversationStatuses]
  BY DEF Exists, TypeOK
<1>2. ASSUME NEW d, NEW s, s # "none", AssignConversation(d, s)
      PROVE  convStatus'[c] # "none"
  BY <1>1, <1>2 DEF AssignConversation
<1>3. ASSUME NEW a, NEW Forget, ReleaseConversations(a, Forget)
      PROVE  convStatus'[c] # "none"
  BY <1>1, <1>3 DEF ReleaseConversations, StatusUnassigned
<1>4. ASSUME NEW a, PickUpWaiting(a)
      PROVE  convStatus'[c] # "none"
  BY <1>1, <1>4 DEF PickUpWaiting
<1>5. CASE AgentNext
  BY <1>1, <1>3, <1>4, <1>5
     DEF AgentNext, CreateAgent, SetAgentStatus, UpdateAgent, DisableAgent, DeleteAgent,
         convVars
<1>6. CASE MessageNext
  <2>1. ASSUME NEW d \in Convs, NEW kind \in TextKinds, NEW t \in BOOLEAN,
               AddVisitorMessage(d, kind, t)
        PROVE  convStatus'[c] # "none"
    <3>1. StatusUnassigned("human_requested") # "none"
      BY DEF StatusUnassigned
    <3> QED
      BY <1>1, <1>2, <2>1, <3>1 DEF AddVisitorMessage, AskForHuman
  <2> QED
    BY <1>1, <1>6, <2>1
       DEF MessageNext, AddAIMessage, AddAgentMessage, EscalateNoReplyToAI
<1>7. ASSUME NEW t \in BOOLEAN, CreateVisitorConversation(t)
      PROVE  convStatus'[c] # "none"
  <2>1. \E s : s # "none" /\ AssignConversation(lastID + 1, s)
    BY <1>7 DEF CreateVisitorConversation, StatusUnassigned
  <2> QED
    BY <1>2, <2>1
<1>8. ASSUME NEW d \in Convs, NEW actor \in Actors,
             \/ CloseConversation(actor, d)
             \/ \E a : MoveConversation(actor, d, a)
      PROVE  convStatus'[c] # "none"
  BY <1>1, <1>8 DEF CloseConversation, MoveConversation
<1>9. CASE SettingsNext \/ UNCHANGED vars
  BY <1>1, <1>9 DEF SettingsNext, UpdateAISettings, UpdateBusinessHours, convVars, vars
<1> QED
  BY <1>5, <1>6, <1>7, <1>8, <1>9 DEF TransferToAgent, TransferToGroup

LEMMA Vanishes ==
  ASSUME TypeOK, GoroutinesHaveConvs, [MNext]_mvars, NEW c \in Convs, Exists(c), ~Exists(c)'
  PROVE  Empties(c)
<1>1. ~(MessageNext \/ UNCHANGED vars)
  BY Survives
<1>2. ~VisitorNext /\ ~GoroutineNext
  BY <1>1, VisitorStep, GoroutineStep
<1>3. ~DispatchNext
  BY DispatchOnly, Survives
<1>4. StaffNext
  BY <1>1, <1>2, <1>3 DEF MNext, mvars
<1>5. PICK d \in Convs :
        \/ \E a \in Agents, key \in Keys : SendAgentMessage(a, d, key)
        \/ \E actor \in Actors :
             \/ \E i \in DOMAIN messages[d] : RevokeMessage(actor, d, i)
             \/ MarkConversationRead(actor, d)
             \/ DeleteWithMessages(actor, d)
  BY <1>4 DEF StaffNext
<1>6. PICK actor \in Actors : DeleteWithMessages(actor, d)
  BY <1>1, <1>5 DEF SendAgentMessage, RevokeMessage, MarkConversationRead, MessageNext
<1>7. d = c
  BY <1>6 DEF DeleteWithMessages, DeleteConversation, Exists, TypeOK
<1> QED
  BY <1>6, <1>7 DEF DeleteWithMessages, DeleteConversation, Empties

\* Where jobs and timers come from.
Fresh(g) ==
  /\ g.conv \in Convs /\ IsOpen(g.conv)
  /\ g.msg = Len(messages[g.conv]) + 1
  /\ g.msg \in By(g.conv, {"visitor"})'

LEMMA WhereFrom ==
  ASSUME MTyped, [MNext]_mvars
  PROVE  /\ \A j \in jobs' : j \in jobs \/ Fresh(j) \/ (j \in timers /\ Unanswered(j))
         /\ \A t \in timers' :
              \/ t \in timers \/ Fresh(t)
              \/ t.conv \in Convs /\ IsOpen(t.conv) /\ t.msg = ZeroTime
<1>1. CASE VisitorNext
  <2>1. PICK c \in Convs, key \in Keys, kind \in TextKinds, businessTime \in BOOLEAN :
          SendVisitorMessage(c, key, kind, businessTime)
    BY <1>1 DEF VisitorNext
  <2> DEFINE m == VisitorText(kind, key)
             g == [conv |-> c, msg |-> Len(messages[c]) + 1]
  <2>2. m \in Texts /\ m.from = "visitor"
    BY DEF VisitorText, Texts
  <2>3. CASE IsOpen(c) /\ Schedule(c, ZeroTime, convStatus[c], owner[c]) /\ UNCHANGED jobs
    BY <2>3 DEF Schedule
  <2>4. CASE /\ IsOpen(c) /\ Write(c, m)
             /\ jobs' \subseteq jobs \cup {g}
             /\ Schedule(c, Len(messages[c]) + 1, convStatus'[c], owner'[c])
    <3>1. timers' \subseteq timers \cup {g}
      BY <2>4 DEF Schedule
    <3>2. Len(messages[c]) + 1 \in By(c, {"visitor"})'
      BY <2>2, <2>4, Appended DEF By, Written
    <3>3. Fresh(g)
      BY <2>4, <3>2 DEF Fresh
    <3> QED
      BY <2>4, <3>1, <3>3
  <2> QED
    BY <2>1, <2>3, <2>4 DEF SendVisitorMessage, AddVisitorMessage
<1>2. CASE GoroutineNext
  BY <1>2 DEF GoroutineNext, GenerateAIReply, FireTimer
<1>3. StaffNext \/ DispatchNext \/ UNCHANGED mvars => UNCHANGED goroutines
  BY DispatchOnly DEF StaffNext, SendAgentMessage, RevokeMessage, MarkConversationRead,
                      DeleteWithMessages, goroutines, mvars
<1> QED
  BY <1>1, <1>2, <1>3 DEF MNext, goroutines

\* A message of the visitor stays where it is until the conversation is deleted.
LEMMA VisitorsKept ==
  ASSUME MTyped, [MNext]_mvars, NEW c \in Convs, ~Empties(c), NEW i \in By(c, {"visitor"})
  PROVE  i \in By(c, {"visitor"})'
<1>1. i \in DOMAIN messages[c] /\ messages[c][i].from = "visitor"
  BY DEF By, Written
<1>2. ASSUME NEW m \in Texts, Writes(c, m)
      PROVE  i \in By(c, {"visitor"})'
  BY <1>1, <1>2, Appended DEF Writes, By, Written
<1>3. ASSUME NEW k \in Written(c), Revokes(c, k)
      PROVE  i \in By(c, {"visitor"})'
  <2>1. i # k
    BY <1>1, <1>3 DEF Revokes
  <2>2. /\ DOMAIN messages'[c] = DOMAIN messages[c]
        /\ messages'[c][k] = [messages[c][k] EXCEPT !.revoked = TRUE]
        /\ \A l \in DOMAIN messages[c] \ {k} : messages'[c][l] = messages[c][l]
    BY <1>3, Kept
  <2> QED
    BY <1>1, <2>1, <2>2 DEF By, Written
<1>4. messages'[c] = messages[c] => i \in By(c, {"visitor"})'
  BY <1>1 DEF By, Written
<1>5. Reads(c) => messages'[c] = messages[c]
  BY DEF Reads
<1> QED
  BY <1>2, <1>3, <1>4, <1>5, OneConversation

LEMMA AskStep ==
  TypeOK /\ OwnershipInv /\ MTyped /\ AskInv /\ [MNext]_mvars => AskInv'
<1> SUFFICES ASSUME TypeOK, OwnershipInv, MTyped, AskInv, [MNext]_mvars
             PROVE  AskInv'
  OBVIOUS
<1>0. GoroutinesHaveConvs
  BY DEF GoroutinesHaveConvs, MTyped
<1>1. [Next]_vars
  BY <1>0, StepSimulation
<1>2. lastID \in Nat /\ lastID' \in Nat /\ lastID <= lastID'
  <2>1. TypeOK'
    BY <1>1, TypeStep
  <2>2. UNCHANGED lastID \/ lastID' = lastID + 1
    BY <1>1 DEF Next, vars, AgentNext, CreateAgent, SetAgentStatus, UpdateAgent,
                DisableAgent, DeleteAgent, convVars, MessageNext, AddVisitorMessage,
                AddAIMessage, AddAgentMessage, EscalateNoReplyToAI, ConversationNext,
                CreateVisitorConversation, CloseConversation, DeleteConversation,
                TransferToAgent, TransferToGroup, MoveConversation, SettingsNext,
                UpdateAISettings, UpdateBusinessHours
  <2> QED
    BY <2>1, <2>2, BoundAssumption DEF TypeOK
<1>3. \A c \in Convs : Exists(c) => c <= lastID
  BY <1>2, ConvsAreIntegers DEF OwnershipInv, Unborn, Exists
<1>4. Blank'
  <2> SUFFICES ASSUME NEW c \in Convs, ~Exists(c)'
               PROVE  messages'[c] = <<>>
    BY DEF Blank
  <2>1. CASE Exists(c)
    BY <1>0, <2>1, Vanishes DEF Empties, MTyped, WritingTyped
  <2>2. CASE ~Exists(c)
    <3>1. messages[c] = <<>> /\ convStatus[c] = "none"
      BY <2>2 DEF AskInv, Blank, Exists
    <3>2. \A m : ~Writes(c, m)
      BY <3>1 DEF Writes, IsOpen
    <3>3. Written(c) = {} /\ ~Empties(c)
      BY <3>1 DEF Written, Empties
    <3>4. Reads(c) => messages'[c] = messages[c]
      BY DEF Reads
    <3> QED
      BY <3>1, <3>2, <3>3, <3>4, OneConversation
  <2> QED
    BY <2>1, <2>2
<1>5. Started'
  <2> SUFFICES ASSUME NEW g \in jobs' \cup timers'
               PROVE  g.conv <= lastID'
    BY DEF Started
  <2>1. CASE g \in jobs \cup timers
    <3>1. g.conv <= lastID /\ g.conv \in Int
      BY <1>0, <2>1, ConvsAreIntegers DEF AskInv, Started, GoroutinesHaveConvs
    <3> QED
      BY <1>2, <3>1
  <2>2. CASE g.conv \in Convs /\ IsOpen(g.conv)
    <3>1. g.conv <= lastID /\ g.conv \in Int
      BY <1>3, <2>2, ConvsAreIntegers DEF IsOpen, Exists
    <3> QED
      BY <1>2, <3>1
  <2> QED
    BY <2>1, <2>2, WhereFrom DEF Fresh
<1>6. Newest'
  <2> SUFFICES ASSUME NEW c \in Convs
               PROVE  lastMessage'[c] \in {NotAMessage, Len(messages'[c])}
    BY DEF Newest
  <2>1. ASSUME NEW m \in Texts, Writes(c, m)
        PROVE  lastMessage'[c] = Len(messages'[c])
    BY <2>1, Appended DEF Writes, Write, MTyped, WritingTyped
  <2>2. ASSUME NEW i \in Written(c), Revokes(c, i)
        PROVE  lastMessage'[c] = NotAMessage
    BY <2>2 DEF Revokes, MTyped, WritingTyped
  <2>3. Empties(c) => lastMessage'[c] = NotAMessage
    BY DEF Empties, MTyped, WritingTyped
  <2>4. Reads(c) => messages'[c] = messages[c] /\ lastMessage'[c] = lastMessage[c]
    BY DEF Reads
  <2>5. lastMessage[c] \in {NotAMessage, Len(messages[c])}
    BY DEF AskInv, Newest
  <2> QED
    BY <2>1, <2>2, <2>3, <2>4, <2>5, OneConversation
<1>7. Asks'
  <2> SUFFICES ASSUME NEW g \in jobs' \cup timers', Exists(g.conv)', g.msg # ZeroTime
               PROVE  g.msg \in By(g.conv, {"visitor"})'
    BY DEF Asks
  <2>1. CASE g \in jobs \cup timers
    <3>1. g.conv \in Convs /\ g.conv <= lastID
      BY <1>0, <2>1 DEF AskInv, Started, GoroutinesHaveConvs
    <3>2. Exists(g.conv)
      BY <1>1, <3>1, StaysAway
    <3>3. g.msg \in By(g.conv, {"visitor"})
      BY <2>1, <3>2 DEF AskInv, Asks
    <3>4. ~Empties(g.conv)
      BY <3>1 DEF Empties, Exists, TypeOK
    <3> QED
      BY <3>1, <3>3, <3>4, VisitorsKept
  <2>2. CASE Fresh(g)
    BY <2>2 DEF Fresh
  <2> QED
    BY <2>1, <2>2, WhereFrom
<1> QED
  BY <1>4, <1>5, <1>6, <1>7 DEF AskInv

LEMMA AskInit == MInit => AskInv
BY DEF MInit, AskInv, Blank, Started, Newest, Asks

\* What a job is about to answer has no answer yet.
NotYet == \A j \in jobs : \A i \in By(j.conv, {"ai"}) : messages[j.conv][i].re # j.msg

Answers ==
  \A c \in Convs :
    /\ \A i \in By(c, {"ai"}) :
         messages[c][i].re \in By(c, {"visitor"}) /\ messages[c][i].re < i
    /\ \A i, j \in By(c, {"ai"}) : i # j => messages[c][i].re # messages[c][j].re

AnswerInv == NotYet /\ Answers

\* A job the step leaves or starts has no answer, one that takes over a timer included:
\* while the timer's message is the last one, nothing can have answered it.
LEMMA NothingAnswered ==
  ASSUME MTyped, AskInv, AnswerInv, [MNext]_mvars, NEW j \in jobs',
         NEW i \in By(j.conv, {"ai"})
  PROVE  messages[j.conv][i].re # j.msg
<1> DEFINE c == j.conv
<1>1. c \in Convs
  <2>1. MTyped'
    BY MTypedStep
  <2> QED
    BY <2>1 DEF MTyped
<1>2. i \in 1..Len(messages[c]) /\ Len(messages[c]) \in Nat /\ messages[c] # <<>>
  BY <1>1 DEF By, Written, MTyped, WritingTyped
<1>3. messages[c][i].re < i /\ messages[c][i].re \in 1..Len(messages[c])
  BY <1>1 DEF AnswerInv, Answers, By, Written, MTyped, WritingTyped
<1>4. CASE j \in jobs
  BY <1>4 DEF AnswerInv, NotYet
<1>5. CASE Fresh(j)
  BY <1>2, <1>3, <1>5 DEF Fresh
<1>6. CASE j \in timers /\ Unanswered(j)
  <2>1. lastMessage[c] = j.msg /\ lastMessage[c] \in Nat
    BY <1>1, <1>6 DEF Unanswered, MTyped, WritingTyped
  <2>2. j.msg \in {NotAMessage, Len(messages[c])}
    BY <1>1, <2>1 DEF AskInv, Newest
  <2>3. Exists(c)
    BY <1>1, <1>2 DEF AskInv, Blank
  <2>4. j.msg \in By(c, {"visitor"})
    BY <1>6, <2>1, <2>3 DEF AskInv, Asks, ZeroTime
  <2>5. j.msg \in 1..Len(messages[c])
    BY <1>1, <2>4 DEF By, Written, MTyped, WritingTyped
  <2>6. j.msg = Len(messages[c])
    BY <1>2, <2>2, <2>5 DEF NotAMessage
  <2> QED
    BY <1>2, <1>3, <2>6
<1> QED
  BY <1>4, <1>5, <1>6, WhereFrom

\* The AI's messages before a step and after it.
LEMMA AIMessages ==
  ASSUME MTyped, [MNext]_mvars, NEW c \in Convs, NEW i \in By(c, {"ai"})'
  PROVE  \/ i \in By(c, {"ai"}) /\ messages'[c][i].re = messages[c][i].re
         \/ \E m \in Texts : /\ Writes(c, m) /\ m.from = "ai"
                             /\ i = Len(messages[c]) + 1 /\ messages'[c][i].re = m.re
<1>1. i \in DOMAIN messages'[c] /\ messages'[c][i].from = "ai"
  BY DEF By, Written
<1>2. ASSUME NEW m \in Texts, Writes(c, m)
      PROVE  \/ i \in By(c, {"ai"}) /\ messages'[c][i].re = messages[c][i].re
             \/ m.from = "ai" /\ i = Len(messages[c]) + 1 /\ messages'[c][i].re = m.re
  <2>1. Write(c, m)
    BY <1>2 DEF Writes
  <2>2. i \in DOMAIN messages[c] \/ i = Len(messages[c]) + 1
    BY <1>1, <2>1, Appended
  <2> QED
    BY <1>1, <2>1, <2>2, Appended DEF By, Written
<1>3. ASSUME NEW k \in Written(c), Revokes(c, k)
      PROVE  i \in By(c, {"ai"}) /\ messages'[c][i].re = messages[c][i].re
  <2>1. messages[c][k] \in Texts /\ messages[c][k].from = "agent"
    BY <1>3 DEF MTyped, WritingTyped, Written, Revokes
  <2>2. /\ DOMAIN messages'[c] = DOMAIN messages[c]
        /\ messages'[c][k] = [messages[c][k] EXCEPT !.revoked = TRUE]
        /\ \A l \in DOMAIN messages[c] \ {k} : messages'[c][l] = messages[c][l]
    BY <1>3, Kept
  <2>3. i # k
    BY <1>1, <2>1, <2>2 DEF Texts
  <2>4. i \in DOMAIN messages[c] /\ messages'[c][i] = messages[c][i]
    BY <1>1, <2>2, <2>3
  <2> QED
    BY <1>1, <2>4 DEF By, Written
<1>4. ~Empties(c)
  <2>1. Empties(c) => messages'[c] = <<>>
    BY DEF Empties, MTyped, WritingTyped
  <2> QED
    BY <1>1, <2>1
<1>5. messages'[c] = messages[c] =>
        i \in By(c, {"ai"}) /\ messages'[c][i].re = messages[c][i].re
  BY <1>1 DEF By, Written
<1>6. Reads(c) => messages'[c] = messages[c]
  BY DEF Reads
<1> QED
  BY <1>2, <1>3, <1>4, <1>5, <1>6, OneConversation

LEMMA AnswerStep ==
  MTyped /\ AskInv /\ AnswerInv /\ [MNext]_mvars => AnswerInv'
<1> SUFFICES ASSUME MTyped, AskInv, AnswerInv, [MNext]_mvars
             PROVE  AnswerInv'
  OBVIOUS
<1>0. MTyped'
  BY MTypedStep
<1>1. NotYet'
  <2> SUFFICES ASSUME NEW j \in jobs', NEW i \in By(j.conv, {"ai"})'
               PROVE  messages'[j.conv][i].re # j.msg
    BY DEF NotYet
  <2>1. j \in [conv : Convs, msg : Nat]
    BY <1>0 DEF MTyped
  <2>2. CASE i \in By(j.conv, {"ai"}) /\ messages'[j.conv][i].re = messages[j.conv][i].re
    BY <2>2, NothingAnswered
  <2>3. ASSUME NEW m \in Texts, Writes(j.conv, m), m.from = "ai",
               messages'[j.conv][i].re = m.re
        PROVE  messages'[j.conv][i].re # j.msg
    <3>1. j # [conv |-> j.conv, msg |-> m.re]
      BY <2>3 DEF Writes
    <3> QED
      BY <2>1, <2>3, <3>1
  <2> QED
    BY <2>1, <2>2, <2>3, AIMessages
<1>2. ASSUME NEW c \in Convs, NEW i \in By(c, {"ai"})'
      PROVE  messages'[c][i].re \in By(c, {"visitor"})' /\ messages'[c][i].re < i
  <2>1. ~Empties(c)
    <3>1. Empties(c) => messages'[c] = <<>>
      BY DEF Empties, MTyped, WritingTyped
    <3> QED
      BY <1>2, <3>1 DEF By, Written
  <2>2. CASE i \in By(c, {"ai"}) /\ messages'[c][i].re = messages[c][i].re
    <3>1. messages[c][i].re \in By(c, {"visitor"}) /\ messages[c][i].re < i
      BY <2>2 DEF AnswerInv, Answers
    <3> QED
      BY <2>1, <2>2, <3>1, VisitorsKept
  <2>3. ASSUME NEW m \in Texts, Writes(c, m), m.from = "ai",
               i = Len(messages[c]) + 1, messages'[c][i].re = m.re
        PROVE  messages'[c][i].re \in By(c, {"visitor"})' /\ messages'[c][i].re < i
    <3> DEFINE k == [conv |-> c, msg |-> m.re]
    <3>1. k \in jobs /\ Exists(c)
      BY <2>3 DEF Writes, IsOpen, Exists
    <3>2. m.re # ZeroTime
      BY DEF Texts, ZeroTime
    <3>3. m.re \in By(c, {"visitor"})
      BY <3>1, <3>2 DEF AskInv, Asks
    <3>4. m.re \in 1..Len(messages[c]) /\ Len(messages[c]) \in Nat
      BY <3>3 DEF By, Written, MTyped, WritingTyped
    <3> QED
      BY <2>1, <2>3, <3>3, <3>4, VisitorsKept
  <2> QED
    BY <2>2, <2>3, AIMessages
<1>3. ASSUME NEW c \in Convs, NEW i \in By(c, {"ai"})', NEW l \in By(c, {"ai"})', i # l,
             messages'[c][i].re = messages'[c][l].re
      PROVE  FALSE
  <2>1. ASSUME NEW p \in By(c, {"ai"}), NEW m \in Texts, Writes(c, m), m.from = "ai"
        PROVE  messages[c][p].re # m.re
    BY <2>1 DEF Writes, AnswerInv, NotYet
  <2>2. \A p, q \in By(c, {"ai"}) : p # q => messages[c][p].re # messages[c][q].re
    BY DEF AnswerInv, Answers
  <2>3. \/ i \in By(c, {"ai"}) /\ messages'[c][i].re = messages[c][i].re
        \/ \E m \in Texts : /\ Writes(c, m) /\ m.from = "ai"
                            /\ i = Len(messages[c]) + 1 /\ messages'[c][i].re = m.re
    BY AIMessages
  <2>4. \/ l \in By(c, {"ai"}) /\ messages'[c][l].re = messages[c][l].re
        \/ \E m \in Texts : /\ Writes(c, m) /\ m.from = "ai"
                            /\ l = Len(messages[c]) + 1 /\ messages'[c][l].re = m.re
    BY AIMessages
  <2> QED
    BY <1>3, <2>1, <2>2, <2>3, <2>4, Zenon
<1> QED
  BY <1>1, <1>2, <1>3 DEF AnswerInv, Answers

\* TypeOK, ownership and what goroutines know hold together.
ServiceInv == TypeOK /\ OwnershipInv /\ MTyped /\ AskInv /\ AnswerInv

LEMMA ServiceInvariant == MSpec => []ServiceInv
<1>1. MInit => ServiceInv
  <2> SUFFICES ASSUME MInit PROVE ServiceInv
    OBVIOUS
  <2>1. AnswerInv
    BY DEF MInit, AnswerInv, NotYet, Answers, By, Written
  <2> QED
    BY <2>1, TypeInit, OwnershipInit, MTypedInit, AskInit DEF MInit, ServiceInv
<1>2. ServiceInv /\ [MNext]_mvars => ServiceInv'
  <2> SUFFICES ASSUME ServiceInv, [MNext]_mvars PROVE ServiceInv'
    OBVIOUS
  <2>1. GoroutinesHaveConvs
    BY DEF ServiceInv, MTyped, GoroutinesHaveConvs
  <2>2. [Next]_vars
    BY <2>1, StepSimulation
  <2> QED
    BY <2>2, TypeStep, OwnershipStep, MTypedStep, AskStep, AnswerStep DEF ServiceInv
<1>3. QED
  BY <1>1, <1>2, PTL DEF MSpec

\* A message is answered once: not by its job and by its timer, not again for a
\* retry, and not in a conversation that was deleted meanwhile.
THEOREM AnsweredOnce == MSpec => []AnsweredAtMostOnce
<1>1. ServiceInv => AnsweredAtMostOnce
  BY DEF ServiceInv, AnswerInv, Answers, AnsweredAtMostOnce, By
<1>2. QED
  BY <1>1, ServiceInvariant, PTL

\* No operation but a timer's gives an assigned conversation to the AI and leaves
\* its agent on it.
LEMMA OnlyTimersEscalate ==
  ASSUME TypeOK, OwnershipInv, NEW c \in Convs, owner[c] # NoAgent,
         convStatus[c] = "assigned", convStatus'[c] = "ai_serving", owner'[c] = owner[c],
         DispatchNext
  PROVE  FALSE
<1>1. ASSUME NEW a \in Agents, NEW Forget, ReleaseConversations(a, Forget)
      PROVE  FALSE
  BY <1>1 DEF ReleaseConversations
<1>2. ASSUME NEW a, PickUpWaiting(a)
      PROVE  FALSE
  BY <1>2 DEF PickUpWaiting
<1>3. CASE AgentNext
  BY <1>1, <1>2, <1>3
     DEF AgentNext, CreateAgent, SetAgentStatus, UpdateAgent, DisableAgent, DeleteAgent,
         convVars
<1>4. CASE SettingsNext
  BY <1>4 DEF SettingsNext, UpdateAISettings, UpdateBusinessHours, convVars
<1>5. ASSUME NEW t \in BOOLEAN, CreateVisitorConversation(t)
      PROVE  FALSE
  <2>1. lastID + 1 \in Convs /\ lastID + 1 > lastID
    BY <1>5, BoundAssumption DEF CreateVisitorConversation, Convs, TypeOK
  <2>2. c # lastID + 1
    BY <2>1 DEF OwnershipInv, Unborn
  <2>3. \E s : AssignConversation(lastID + 1, s)
    BY <1>5 DEF CreateVisitorConversation
  <2> QED
    BY <2>2, <2>3 DEF AssignConversation, TypeOK
<1>6. ASSUME NEW d \in Convs, NEW actor \in Actors,
             \/ CloseConversation(actor, d)
             \/ \E a : MoveConversation(actor, d, a)
      PROVE  FALSE
  BY <1>6 DEF CloseConversation, MoveConversation, TypeOK
<1> QED
  BY <1>3, <1>4, <1>5, <1>6, DispatchOnly DEF TransferToAgent, TransferToGroup

LEMMA EscalationStep ==
  ASSUME ServiceInv, [MNext]_mvars, NEW c \in Convs,
         convStatus[c] = "assigned", convStatus'[c] = "ai_serving",
         owner'[c] = owner[c], messages'[c] = messages[c]
  PROVE  messages[c] # <<>> /\ messages[c][Len(messages[c])].from = "visitor"
<1> USE DEF ServiceInv
<1>0. convStatus \in [Convs -> ConversationStatuses] /\ messages[c] \in Seq(Texts)
  BY DEF TypeOK, MTyped, WritingTyped
<1>1. \A m \in Texts : ~Write(c, m)
  <2> SUFFICES ASSUME NEW m \in Texts, Write(c, m) PROVE FALSE
    OBVIOUS
  <2>1. Len(messages'[c]) = Len(messages[c]) + 1 /\ Len(messages[c]) \in Nat
    BY Appended
  <2> QED
    BY <2>1
<1>2. ~(UNCHANGED vars)
  BY DEF vars
<1>3. ASSUME NEW d \in Convs, NEW key \in Keys, NEW kind \in TextKinds, NEW t \in BOOLEAN,
             SendVisitorMessage(d, key, kind, t)
      PROVE  FALSE
  <2>1. AddVisitorMessage(d, kind, t) /\ Write(d, VisitorText(kind, key))
    BY <1>2, <1>3 DEF SendVisitorMessage
  <2>2. VisitorText(kind, key) \in Texts
    BY DEF VisitorText, Texts
  <2>3. c # d
    BY <1>1, <2>1, <2>2
  <2> QED
    BY <1>0, <2>1, <2>3 DEF AddVisitorMessage, AskForHuman, AssignConversation
<1>4. ASSUME NEW j \in jobs, GenerateAIReply(j)
      PROVE  FALSE
  <2>1. AddAIMessage(j.conv) /\ Write(j.conv, AIText(j.msg))
    BY <1>2, <1>4 DEF GenerateAIReply
  <2>2. AIText(j.msg) \in Texts
    BY DEF MTyped, AIText, Texts, TextKinds, NoKey, Keys
  <2>3. c # j.conv
    BY <1>1, <2>1, <2>2
  <2> QED
    BY <1>0, <2>1, <2>3 DEF AddAIMessage
<1>5. ASSUME NEW t \in timers, FireTimer(t)
      PROVE  messages[c] # <<>> /\ messages[c][Len(messages[c])].from = "visitor"
  <2>1. Unanswered(t) /\ EscalateNoReplyToAI(t.conv)
    BY <1>2, <1>5 DEF FireTimer
  <2>2. c = t.conv
    BY <1>0, <2>1 DEF EscalateNoReplyToAI
  <2>3. Exists(c) /\ lastMessage[c] = t.msg /\ t.msg \in Nat
    BY <2>1, <2>2 DEF Exists, Unanswered, MTyped, WritingTyped
  <2>4. t.msg \in By(c, {"visitor"})
    BY <1>5, <2>2, <2>3 DEF AskInv, Asks, ZeroTime
  <2>5. t.msg \in 1..Len(messages[c]) /\ messages[c][t.msg].from = "visitor"
    BY <1>0, <2>4 DEF By, Written
  <2>6. t.msg = Len(messages[c])
    BY <1>0, <2>3, <2>5 DEF AskInv, Newest, NotAMessage
  <2> QED
    BY <1>0, <2>5, <2>6
<1>6. ASSUME NEW d \in Convs, NEW a \in Agents, NEW key \in Keys, SendAgentMessage(a, d, key)
      PROVE  FALSE
  <2>1. AddAgentMessage(a, d) /\ Write(d, AgentText(a, key))
    BY <1>6 DEF SendAgentMessage
  <2>2. AgentText(a, key) \in Texts
    BY DEF AgentText, Texts, TextKinds
  <2>3. c # d
    BY <1>1, <2>1, <2>2
  <2> QED
    BY <1>0, <2>1, <2>3 DEF AddAgentMessage
<1>7. ASSUME NEW d \in Convs, NEW actor \in Actors, DeleteWithMessages(actor, d)
      PROVE  FALSE
  BY <1>0, <1>7 DEF DeleteWithMessages, DeleteConversation
<1>8. CASE StaffNext
  BY <1>2, <1>6, <1>7, <1>8 DEF StaffNext, RevokeMessage, MarkConversationRead
<1>9. CASE DispatchNext
  BY <1>9, OnlyTimersEscalate DEF OwnershipInv, OwnerMatchesStatus
<1> QED
  BY <1>2, <1>3, <1>4, <1>5, <1>8, <1>9 DEF MNext, VisitorNext, GoroutineNext, mvars

\* No timer takes a conversation from an agent that has answered.
THEOREM TimersSpareAnswered == MSpec => EscalatesOnlyUnanswered
<1>1. ServiceInv /\ [MNext]_mvars =>
        [\A c \in Convs :
           (/\ convStatus[c] = "assigned" /\ convStatus'[c] = "ai_serving"
            /\ owner'[c] = owner[c] /\ messages'[c] = messages[c])
             => /\ messages[c] # <<>>
                /\ messages[c][Len(messages[c])].from = "visitor"]_mvars
  BY EscalationStep
<1>2. QED
  BY <1>1, ServiceInvariant, PTL DEF MSpec, EscalatesOnlyUnanswered

LEMMA KeywordStep ==
  ASSUME TypeOK, OwnershipInv, MTyped, [MNext]_mvars, NEW c \in Convs,
         HasNew(c), New(c).kind = "human_keyword", aiMode # "always_ai"
  PROVE  convStatus'[c] \in {"assigned", "human_requested"}
<1>0. /\ messages[c] \in Seq(Texts) /\ Len(messages[c]) \in Nat
      /\ Len(messages'[c]) > Len(messages[c])
  BY DEF MTyped, WritingTyped, HasNew
<1>1. ASSUME NEW d \in Convs, NEW m \in Texts, Write(d, m)
      PROVE  d = c /\ m.kind = "human_keyword"
  <2>1. d = c
    BY <1>0, <1>1, Appended
  <2>2. New(c) = m
    BY <1>1, <2>1, Appended DEF New
  <2> QED
    BY <2>1, <2>2
<1>2. ~(UNCHANGED messages) /\ messages'[c] # <<>>
  BY <1>0
<1>3. ASSUME NEW d \in Convs, NEW key \in Keys, NEW kind \in TextKinds, NEW t \in BOOLEAN,
             SendVisitorMessage(d, key, kind, t)
      PROVE  convStatus'[c] \in {"assigned", "human_requested"}
  <2>1. AddVisitorMessage(d, kind, t) /\ Write(d, VisitorText(kind, key))
    BY <1>2, <1>3 DEF SendVisitorMessage, conversationVars
  <2>2. VisitorText(kind, key) \in Texts /\ VisitorText(kind, key).kind = kind
    BY DEF VisitorText, Texts
  <2>3. d = c /\ kind = "human_keyword"
    BY <1>1, <2>1, <2>2
  <2>4. AskForHuman(c)
    BY <2>1, <2>3 DEF AddVisitorMessage
  <2>5. StatusUnassigned("human_requested") = "human_requested"
    BY DEF StatusUnassigned
  <2> QED
    BY <2>4, <2>5 DEF AskForHuman, AssignConversation, TypeOK
<1>4. ASSUME NEW j \in jobs, GenerateAIReply(j)
      PROVE  FALSE
  <2>1. j.conv \in Convs /\ Write(j.conv, AIText(j.msg))
    BY <1>2, <1>4 DEF GenerateAIReply, conversationVars, MTyped
  <2>2. AIText(j.msg) \in Texts /\ AIText(j.msg).kind = "plain"
    BY DEF MTyped, AIText, Texts, TextKinds, NoKey, Keys
  <2> QED
    BY <1>1, <2>1, <2>2
<1>5. ASSUME NEW d \in Convs, NEW a \in Agents, NEW key \in Keys, SendAgentMessage(a, d, key)
      PROVE  FALSE
  <2>1. Write(d, AgentText(a, key))
    BY <1>5 DEF SendAgentMessage
  <2>2. AgentText(a, key) \in Texts /\ AgentText(a, key).kind = "plain"
    BY DEF AgentText, Texts, TextKinds
  <2> QED
    BY <1>1, <2>1, <2>2
<1>6. ASSUME NEW d \in Convs, NEW actor \in Actors, NEW i \in DOMAIN messages[d],
             RevokeMessage(actor, d, i)
      PROVE  FALSE
  <2>1. i \in Written(d) /\ Revokes(d, i)
    BY <1>6 DEF RevokeMessage, Revokes, Written, vars
  <2>2. messages'[c] = messages[c] \/ Len(messages'[c]) = Len(messages[c])
    BY <2>1, Kept
  <2> QED
    BY <1>0, <2>2
<1>7. ASSUME NEW d \in Convs, NEW actor \in Actors, DeleteWithMessages(actor, d)
      PROVE  FALSE
  <2>1. messages'[c] = messages[c] \/ messages'[c] = <<>>
    BY <1>7 DEF DeleteWithMessages, MTyped, WritingTyped
  <2> QED
    BY <1>0, <1>2, <2>1
<1>8. CASE GoroutineNext
  BY <1>2, <1>4, <1>8 DEF GoroutineNext, FireTimer, conversationVars
<1>9. CASE StaffNext
  BY <1>2, <1>5, <1>6, <1>7, <1>9 DEF StaffNext, MarkConversationRead
<1>10. ~DispatchNext /\ ~(UNCHANGED mvars)
  BY <1>2, DispatchOnly DEF writtenVars, mvars
<1> QED
  BY <1>3, <1>8, <1>9, <1>10 DEF MNext, VisitorNext

\* Asking for a human always reaches one or the queue, whoever else acts.
THEOREM KeywordWorks == MSpec => KeywordReachesHuman
<1>1. ServiceInv /\ [MNext]_mvars =>
        [\A c \in Convs :
           (HasNew(c) /\ New(c).kind = "human_keyword" /\ aiMode # "always_ai")
             => convStatus'[c] \in {"assigned", "human_requested"}]_mvars
  BY KeywordStep DEF ServiceInv
<1>2. QED
  BY <1>1, ServiceInvariant, PTL DEF MSpec, KeywordReachesHuman

-----------------------------------------------------------------------------
(* The end of a conversation *)

\* Only closing closes a conversation, and only deleting it takes that back.
LEMMA OthersKeepClosed ==
  ASSUME TypeOK, OwnershipInv, NEW c \in Convs,
         \/ AgentNext \/ MessageNext \/ SettingsNext
         \/ \E t \in BOOLEAN : CreateVisitorConversation(t)
         \/ \E d \in Convs, actor \in Actors :
              \/ \E a \in Agents : TransferToAgent(actor, d, a)
              \/ \E members \in SUBSET Agents : TransferToGroup(actor, d, members)
         \/ UNCHANGED vars
  PROVE  convStatus'[c] = "closed" <=> convStatus[c] = "closed"
<1> DEFINE AsBefore == convStatus'[c] = "closed" <=> convStatus[c] = "closed"
<1>1. convStatus \in [Convs -> ConversationStatuses]
  BY DEF TypeOK
<1>2. ASSUME NEW d \in Convs, convStatus[d] # "closed", NEW s, s # "closed",
             AssignConversation(d, s)
      PROVE  AsBefore
  BY <1>1, <1>2 DEF AssignConversation
<1>3. ASSUME NEW a, NEW Forget, ReleaseConversations(a, Forget)
      PROVE  AsBefore
  BY <1>1, <1>3 DEF ReleaseConversations, StatusUnassigned, Serving, IsOpen
<1>4. ASSUME NEW a, PickUpWaiting(a)
      PROVE  AsBefore
  BY <1>1, <1>4 DEF PickUpWaiting, Pickable
<1>5. CASE AgentNext
  BY <1>1, <1>3, <1>4, <1>5
     DEF AgentNext, CreateAgent, SetAgentStatus, UpdateAgent, DisableAgent, DeleteAgent,
         convVars
<1>6. CASE MessageNext
  <2>1. ASSUME NEW d \in Convs, NEW kind \in TextKinds, NEW t \in BOOLEAN,
               AddVisitorMessage(d, kind, t)
        PROVE  AsBefore
    <3>1. StatusUnassigned("human_requested") # "closed" /\ convStatus[d] # "closed"
      BY <2>1 DEF StatusUnassigned, AddVisitorMessage, IsOpen
    <3> QED
      BY <1>1, <1>2, <2>1, <3>1 DEF AddVisitorMessage, AskForHuman
  <2> QED
    BY <1>1, <1>6, <2>1
       DEF MessageNext, AddAIMessage, AddAgentMessage, EscalateNoReplyToAI, IsOpen
<1>7. ASSUME NEW t \in BOOLEAN, CreateVisitorConversation(t)
      PROVE  AsBefore
  <2>1. lastID + 1 \in Convs /\ lastID + 1 > lastID
    BY <1>7, BoundAssumption DEF CreateVisitorConversation, Convs, TypeOK
  <2>2. convStatus[lastID + 1] # "closed"
    BY <2>1 DEF OwnershipInv, Unborn
  <2>3. \E s : s # "closed" /\ AssignConversation(lastID + 1, s)
    BY <1>7 DEF CreateVisitorConversation, StatusUnassigned
  <2> QED
    BY <1>2, <2>1, <2>2, <2>3
<1>8. ASSUME NEW d \in Convs, NEW actor \in Actors, NEW a, MoveConversation(actor, d, a)
      PROVE  AsBefore
  BY <1>1, <1>8 DEF MoveConversation, IsOpen
<1>9. CASE SettingsNext \/ UNCHANGED vars
  BY <1>1, <1>9 DEF SettingsNext, UpdateAISettings, UpdateBusinessHours, convVars, vars
<1> QED
  BY <1>5, <1>6, <1>7, <1>8, <1>9 DEF TransferToAgent, TransferToGroup

ClosingInv == closingLast \in [Convs -> BOOLEAN] /\ ClosingComesLast

LEMMA ClosingStep == ServiceInv /\ ClosingInv /\ [MNext]_mvars => ClosingInv'
<1> SUFFICES ASSUME ServiceInv, ClosingInv, [MNext]_mvars
             PROVE  ClosingInv'
  OBVIOUS
<1>0. TypeOK /\ OwnershipInv /\ MTyped /\ GoroutinesHaveConvs
  BY DEF ServiceInv, MTyped, GoroutinesHaveConvs
<1> DEFINE KeepsClosed == \A c \in Convs : convStatus'[c] = "closed" <=> convStatus[c] = "closed"
           Opens(c) == closingLast' = [closingLast EXCEPT ![c] = FALSE]
<1>1. KeepsClosed /\ UNCHANGED closingLast => ClosingInv'
  BY DEF ClosingInv, ClosingComesLast
<1>2. ASSUME NEW c \in Convs, IsOpen(c) \/ ~Exists(c), KeepsClosed, Opens(c)
      PROVE  ClosingInv'
  BY <1>2 DEF ClosingInv, ClosingComesLast, IsOpen, Exists
<1>3. ASSUME NEW c \in Convs, NEW kind \in TextKinds, NEW key \in Keys, NEW t \in BOOLEAN,
             SendVisitorMessage(c, key, kind, t)
      PROVE  ClosingInv'
  <2>1. CASE UNCHANGED <<vars, conversationVars, jobs>>
    <3>1. KeepsClosed /\ UNCHANGED closingLast
      BY <2>1 DEF vars, conversationVars
    <3> QED
      BY <1>1, <3>1
  <2>2. CASE AddVisitorMessage(c, kind, t) /\ Write(c, VisitorText(kind, key))
    <3>1. KeepsClosed
      BY <1>0, <2>2, OthersKeepClosed DEF MessageNext
    <3>2. IsOpen(c) /\ Opens(c)
      BY <2>2 DEF AddVisitorMessage, Write
    <3> QED
      BY <1>2, <3>1, <3>2
  <2> QED
    BY <1>3, <2>1, <2>2 DEF SendVisitorMessage
<1>4. ASSUME NEW j \in jobs, GenerateAIReply(j)
      PROVE  ClosingInv'
  <2>1. j.conv \in Convs
    BY <1>0 DEF GoroutinesHaveConvs
  <2>2. CASE UNCHANGED <<vars, conversationVars>>
    <3>1. KeepsClosed /\ UNCHANGED closingLast
      BY <2>2 DEF vars, conversationVars
    <3> QED
      BY <1>1, <3>1
  <2>3. CASE AddAIMessage(j.conv) /\ Write(j.conv, AIText(j.msg))
    <3>1. KeepsClosed
      BY <1>0, <2>1, <2>3, OthersKeepClosed DEF MessageNext
    <3>2. IsOpen(j.conv) /\ Opens(j.conv)
      BY <2>3 DEF AddAIMessage, Write
    <3> QED
      BY <1>2, <2>1, <3>1, <3>2
  <2> QED
    BY <1>4, <2>2, <2>3 DEF GenerateAIReply
<1>5. ASSUME NEW t \in timers, FireTimer(t)
      PROVE  ClosingInv'
  <2>1. t.conv \in Convs /\ (EscalateNoReplyToAI(t.conv) \/ UNCHANGED vars)
    BY <1>0, <1>5 DEF GoroutinesHaveConvs, FireTimer
  <2>2. KeepsClosed
    BY <1>0, <2>1, OthersKeepClosed DEF MessageNext
  <2>3. UNCHANGED closingLast
    BY <1>5 DEF FireTimer, conversationVars
  <2> QED
    BY <1>1, <2>2, <2>3
<1>6. ASSUME NEW c \in Convs, NEW a \in Agents, NEW key \in Keys, SendAgentMessage(a, c, key)
      PROVE  ClosingInv'
  <2>1. KeepsClosed
    BY <1>0, <1>6, OthersKeepClosed DEF MessageNext, SendAgentMessage
  <2>2. IsOpen(c) /\ Opens(c)
    BY <1>6 DEF SendAgentMessage, AddAgentMessage, Write
  <2> QED
    BY <1>2, <2>1, <2>2
<1>7. ASSUME NEW c \in Convs, NEW actor \in Actors,
             \/ \E i \in DOMAIN messages[c] : RevokeMessage(actor, c, i)
             \/ MarkConversationRead(actor, c)
      PROVE  ClosingInv'
  <2>1. KeepsClosed /\ UNCHANGED closingLast
    BY <1>7 DEF RevokeMessage, MarkConversationRead, vars
  <2> QED
    BY <1>1, <2>1
<1>8. ASSUME NEW c \in Convs, NEW actor \in Actors, DeleteWithMessages(actor, c)
      PROVE  ClosingInv'
  <2>1. convStatus' = [convStatus EXCEPT ![c] = "none"] /\ Opens(c)
    BY <1>8 DEF DeleteWithMessages, DeleteConversation
  <2> QED
    BY <1>0, <2>1 DEF ClosingInv, ClosingComesLast, TypeOK
<1>9. CASE (AgentNext \/ SettingsNext) /\ UNCHANGED <<conversationVars, goroutines>>
  <2>1. KeepsClosed
    BY <1>0, <1>9, OthersKeepClosed
  <2>2. UNCHANGED closingLast
    BY <1>9 DEF conversationVars
  <2> QED
    BY <1>1, <2>1, <2>2
<1>10. ASSUME NEW t \in BOOLEAN, CreateWithGreeting(t)
       PROVE  ClosingInv'
  <2>1. CreateVisitorConversation(t) /\ Opens(lastID') /\ lastID' = lastID + 1
    BY <1>10 DEF CreateWithGreeting, NoticeIn, CreateVisitorConversation
  <2>2. lastID + 1 \in Convs /\ lastID + 1 > lastID
    BY <1>0, <2>1, BoundAssumption DEF CreateVisitorConversation, Convs, TypeOK
  <2>3. ~Exists(lastID + 1)
    BY <1>0, <2>2 DEF OwnershipInv, Unborn, Exists
  <2>4. KeepsClosed
    BY <1>0, <2>1, OthersKeepClosed
  <2> QED
    BY <1>2, <2>1, <2>2, <2>3, <2>4
<1>11. ASSUME NEW c \in Convs, NEW actor \in Actors, CloseWithNotice(actor, c)
       PROVE  ClosingInv'
  <2>1. /\ convStatus' = [convStatus EXCEPT ![c] = "closed"]
        /\ closingLast' = [closingLast EXCEPT ![c] = TRUE]
    BY <1>11 DEF CloseWithNotice, CloseConversation, NoticeIn
  <2> QED
    BY <1>0, <2>1 DEF ClosingInv, ClosingComesLast, TypeOK
<1>12. ASSUME NEW c \in Convs, NEW actor \in Actors,
              \/ \E a \in Agents : TransferToAgentWithNotice(actor, c, a)
              \/ \E members \in SUBSET Agents : TransferToGroupWithNotice(actor, c, members)
       PROVE  ClosingInv'
  <2>1. KeepsClosed
    BY <1>0, <1>12, OthersKeepClosed
       DEF TransferToAgentWithNotice, TransferToGroupWithNotice
  <2>2. IsOpen(c) /\ Opens(c)
    BY <1>12 DEF TransferToAgentWithNotice, TransferToGroupWithNotice, TransferToAgent,
                 TransferToGroup, MoveConversation, NoticeIn
  <2> QED
    BY <1>2, <2>1, <2>2
<1>13. CASE UNCHANGED mvars
  <2>1. KeepsClosed /\ UNCHANGED closingLast
    BY <1>13 DEF mvars, vars
  <2> QED
    BY <1>1, <2>1
<1>14. DispatchNext => ClosingInv'
  BY <1>9, <1>10, <1>11, <1>12 DEF DispatchNext
<1>15. StaffNext => ClosingInv'
  BY <1>6, <1>7, <1>8 DEF StaffNext
<1> QED
  BY <1>3, <1>4, <1>5, <1>13, <1>14, <1>15 DEF MNext, VisitorNext, GoroutineNext

\* As long as a conversation is closed the closing notice stays the last thing in it:
\* no message, late reply or other notice follows, however many are under way.
THEOREM NothingFollowsClosing == MSpec => []ClosingComesLast
<1>1. MInit => ClosingInv
  BY DEF MInit, Init, ClosingInv, ClosingComesLast
<1>2. ClosingInv => ClosingComesLast
  BY DEF ClosingInv
<1>3. QED
  BY <1>1, <1>2, ClosingStep, ServiceInvariant, PTL DEF MSpec

-----------------------------------------------------------------------------
(* How long a conversation gets *)

People(c) == {i \in Written(c) : messages[c][i].from # "ai"}

\* People write within the bound and answer nothing; what goroutines were started
\* for lies within twice the bound.
Bounded ==
  /\ \A c \in Convs : Cardinality(People(c)) <= MaxMessages
  /\ \A c \in Convs : \A i \in People(c) : messages[c][i].re = 0
  /\ jobs \subseteq [conv : Convs, msg : Positions]
  /\ timers \subseteq Goroutines

\* The AI answers a message of the visitor at most once, so it has written no more
\* than people have.
LEMMA TwiceTheBound ==
  MTyped /\ AnswerInv =>
    \A c \in Convs : Cardinality(People(c)) <= MaxMessages =>
      Len(messages[c]) \in 0..(2 * MaxMessages)
<1> SUFFICES ASSUME MTyped, AnswerInv, NEW c \in Convs,
                    Cardinality(People(c)) <= MaxMessages
             PROVE  Len(messages[c]) \in 0..(2 * MaxMessages)
  OBVIOUS
<1> DEFINE n == Len(messages[c])
           replies == By(c, {"ai"})
           answered == [i \in replies |-> messages[c][i].re]
<1>1. n \in Nat /\ DOMAIN messages[c] = 1..n /\ MaxMessages \in Nat
  BY MessagesAssumption DEF MTyped, WritingTyped
<1>2. People(c) \in SUBSET (1..n) /\ replies \in SUBSET (1..n)
  BY <1>1 DEF People, By, Written
<1>3. /\ IsFiniteSet(People(c)) /\ Cardinality(People(c)) \in Nat
      /\ IsFiniteSet(replies) /\ Cardinality(replies) \in Nat
  BY <1>1, <1>2, PositionsFinite
<1>4. \A i \in replies : messages[c][i].re \in People(c)
  BY DEF AnswerInv, Answers, People, By
<1>5. \A i, j \in replies : messages[c][i].re = messages[c][j].re => i = j
  BY DEF AnswerInv, Answers
<1>6. answered \in Injection(replies, People(c))
  BY <1>4, <1>5 DEF Injection, IsInjective
<1>7. Cardinality(replies) <= Cardinality(People(c))
  BY <1>3, <1>6, FS_Injection
<1>8. People(c) \cup replies = 1..n /\ People(c) \cap replies = {}
  BY <1>1 DEF People, By, Written
<1> HIDE DEF n, replies, answered
<1>9. Cardinality(1..n) = Cardinality(People(c)) + Cardinality(replies)
  <2>1. Cardinality(People(c) \cup replies)
          = Cardinality(People(c)) + Cardinality(replies) - Cardinality(People(c) \cap replies)
    BY <1>3, FS_Union
  <2>2. Cardinality(People(c) \cap replies) = 0
    BY <1>8, FS_EmptySet
  <2>3. Cardinality(1..n) = Cardinality(People(c) \cup replies)
    BY <1>8, Zenon
  <2> QED
    BY <1>3, <2>1, <2>2, <2>3
<1>10. Cardinality(1..n) = n
  BY <1>1, FS_Interval
<1>11. n \in 0..(2 * MaxMessages)
  BY <1>1, <1>3, <1>7, <1>9, <1>10
<1> QED
  BY <1>11 DEF n

\* The bound holds where people write and nobody else writes as one of them.
LEMMA PeopleStep ==
  ASSUME MTyped, Bounded, [MNext]_mvars, NEW c \in Convs
  PROVE  /\ Cardinality(People(c)') <= MaxMessages
         /\ \A i \in People(c)' : messages'[c][i].re = 0
<1>1. /\ Cardinality(People(c)) <= MaxMessages
      /\ \A i \in People(c) : messages[c][i].re = 0
      /\ Len(messages[c]) \in Nat /\ DOMAIN messages[c] = 1..Len(messages[c])
  BY DEF Bounded, MTyped, WritingTyped
<1>2. IsFiniteSet(People(c)) /\ Cardinality(People(c)) \in Nat
  <2>1. People(c) \in SUBSET (1..Len(messages[c]))
    BY <1>1 DEF People, Written
  <2> QED
    BY <1>1, <2>1, PositionsFinite
<1>3. ASSUME NEW m \in Texts, Writes(c, m)
      PROVE  /\ Cardinality(People(c)') <= MaxMessages
             /\ \A i \in People(c)' : messages'[c][i].re = 0
  <2> DEFINE n == Len(messages[c])
  <2>1. /\ n \in Nat
        /\ DOMAIN messages[c] = 1..n
        /\ DOMAIN messages'[c] = 1..(n + 1)
        /\ \A k \in DOMAIN messages[c] : messages'[c][k] = messages[c][k]
        /\ messages'[c][n + 1] = m
    BY <1>3, Appended DEF Writes
  <2> HIDE DEF n
  <2>2. \A i : i \in 1..(n + 1) <=> i \in 1..n \/ i = n + 1
    BY <2>1
  <2>3. CASE m.from = "ai"
    <3>1. People(c)' = People(c)
      BY <2>1, <2>2, <2>3 DEF People, Written
    <3>2. \A i \in People(c) : messages'[c][i] = messages[c][i]
      BY <2>1 DEF People, Written
    <3> QED
      BY <1>1, <3>1, <3>2
  <2>4. CASE m.from # "ai"
    <3>1. People(c)' = People(c) \cup {n + 1} /\ n + 1 \notin People(c)
      BY <2>1, <2>2, <2>4 DEF People, Written
    <3>2. \A i \in People(c) : messages'[c][i] = messages[c][i]
      BY <2>1 DEF People, Written
    <3>3. Cardinality(People(c)) < MaxMessages /\ m.re = 0
      BY <1>3, <2>4 DEF Writes, MayWrite, People, Written
    <3>4. Cardinality(People(c)') = Cardinality(People(c)) + 1
      BY <1>2, <3>1, FS_AddElement
    <3> QED
      BY <1>1, <1>2, <2>1, <3>1, <3>2, <3>3, <3>4, MessagesAssumption
  <2> QED
    BY <2>3, <2>4
<1>4. ASSUME NEW i \in Written(c), Revokes(c, i)
      PROVE  /\ Cardinality(People(c)') <= MaxMessages
             /\ \A k \in People(c)' : messages'[c][k].re = 0
  <2>1. /\ DOMAIN messages'[c] = DOMAIN messages[c]
        /\ messages'[c][i] = [messages[c][i] EXCEPT !.revoked = TRUE]
        /\ \A l \in DOMAIN messages[c] \ {i} : messages'[c][l] = messages[c][l]
    BY <1>4, Kept
  <2>2. messages[c][i] \in Texts
    BY DEF MTyped, WritingTyped, Written
  <2>3. \A k \in DOMAIN messages[c] : /\ messages'[c][k].from = messages[c][k].from
                                      /\ messages'[c][k].re = messages[c][k].re
    BY <2>1, <2>2 DEF Texts
  <2>4. People(c)' = People(c)
    BY <2>1, <2>3 DEF People, Written
  <2> QED
    BY <1>1, <2>3, <2>4 DEF People, Written
<1>5. CASE Empties(c)
  <2>1. messages'[c] = <<>>
    BY <1>5 DEF Empties, MTyped, WritingTyped
  <2>2. People(c)' = {}
    BY <2>1 DEF People, Written
  <2> QED
    BY <2>2, FS_EmptySet, MessagesAssumption
<1>6. CASE messages'[c] = messages[c]
  BY <1>1, <1>6 DEF People, Written
<1>7. Reads(c) => messages'[c] = messages[c]
  BY DEF Reads
<1> QED
  BY <1>3, <1>4, <1>5, <1>6, <1>7, OneConversation

LEMMA BoundedStep == ServiceInv /\ ServiceInv' /\ Bounded /\ [MNext]_mvars => Bounded'
<1> SUFFICES ASSUME ServiceInv, ServiceInv', Bounded, [MNext]_mvars
             PROVE  Bounded'
  OBVIOUS
<1>1. MTyped /\ MTyped' /\ AnswerInv'
  BY DEF ServiceInv
<1>2. \A c \in Convs : /\ Cardinality(People(c)') <= MaxMessages
                       /\ \A i \in People(c)' : messages'[c][i].re = 0
  BY <1>1, PeopleStep
<1>3. (MTyped /\ AnswerInv =>
         \A c \in Convs : Cardinality(People(c)) <= MaxMessages =>
           Len(messages[c]) \in 0..(2 * MaxMessages))'
  BY TwiceTheBound, PTL
<1>4. ASSUME NEW g, Fresh(g)
      PROVE  g.conv \in Convs /\ g.msg \in Positions
  <2>1. g.conv \in Convs /\ g.msg \in DOMAIN messages'[g.conv]
    BY <1>4 DEF Fresh, By, Written
  <2>2. Len(messages'[g.conv]) \in 0..(2 * MaxMessages)
    BY <1>1, <1>2, <1>3, <2>1
  <2>3. DOMAIN messages'[g.conv] = 1..Len(messages'[g.conv])
    BY <1>1, <2>1 DEF MTyped, WritingTyped
  <2> QED
    BY <2>1, <2>2, <2>3, MessagesAssumption DEF Positions
<1>5. ASSUME NEW t \in timers, Unanswered(t)
      PROVE  t.msg \in Positions
  <2>1. t \in Goroutines
    BY DEF Bounded
  <2>2. lastMessage[t.conv] \in Nat
    BY <1>1, <2>1 DEF Goroutines, MTyped, WritingTyped
  <2> QED
    BY <1>5, <2>1, <2>2 DEF Unanswered, Goroutines, ZeroTime
<1>6. jobs' \subseteq [conv : Convs, msg : Positions]
  <2> SUFFICES ASSUME NEW j \in jobs'
               PROVE  j \in [conv : Convs, msg : Positions]
    OBVIOUS
  <2>1. j \in [conv : Convs, msg : Nat]
    BY <1>1 DEF MTyped
  <2>2. j \in jobs \/ Fresh(j) \/ (j \in timers /\ Unanswered(j))
    BY <1>1, WhereFrom
  <2>3. j \in jobs => j.msg \in Positions
    BY DEF Bounded
  <2> QED
    BY <1>4, <1>5, <2>1, <2>2, <2>3
<1>7. timers' \subseteq Goroutines
  <2> SUFFICES ASSUME NEW t \in timers'
               PROVE  t \in Goroutines
    OBVIOUS
  <2>1. t \in [conv : Convs, msg : Nat \cup {ZeroTime}]
    BY <1>1 DEF MTyped
  <2>2. t \in timers \/ Fresh(t) \/ t.msg = ZeroTime
    BY <1>1, WhereFrom
  <2>3. t \in timers => t \in Goroutines
    BY DEF Bounded
  <2> QED
    BY <1>4, <2>1, <2>2, <2>3 DEF Goroutines
<1> QED
  BY <1>2, <1>6, <1>7 DEF Bounded

\* What the variables of the service hold: the AI has written no more messages than
\* people have, the last message is one that is there, and jobs and timers that outlived
\* their conversation still name a place a message once had.
THEOREM MessagesTyped == MSpec => []MTypeOK
<1>1. MInit => Bounded
  <2> SUFFICES ASSUME MInit PROVE Bounded
    OBVIOUS
  <2>1. \A c \in Convs : People(c) = {}
    BY DEF MInit, People, Written
  <2>2. jobs = {} /\ timers = {}
    BY DEF MInit
  <2> QED
    BY <2>1, <2>2, FS_EmptySet, MessagesAssumption DEF Bounded
<1>2. ServiceInv /\ Bounded /\ ClosingInv => MTypeOK
  <2> SUFFICES ASSUME ServiceInv, Bounded, ClosingInv PROVE MTypeOK
    OBVIOUS
  <2>1. MTyped /\ AskInv /\ AnswerInv
    BY DEF ServiceInv
  <2>2. ASSUME NEW c \in Convs
        PROVE  /\ Len(messages[c]) \in 0..(2 * MaxMessages)
               /\ \A i \in Written(c) : messages[c][i] \in Messages
               /\ lastMessage[c] \in Written(c) \cup {NotAMessage}
               /\ convStatus[c] = "none" => messages[c] = <<>>
    <3>1. Len(messages[c]) \in 0..(2 * MaxMessages)
      BY <2>1, TwiceTheBound DEF Bounded
    <3>2. messages[c] \in Seq(Texts) /\ Written(c) = 1..Len(messages[c])
      BY <2>1 DEF MTyped, WritingTyped, Written
    <3>3. Written(c) \subseteq Positions
      BY <3>1, <3>2, MessagesAssumption DEF Positions
    <3>4. ASSUME NEW i \in Written(c)
          PROVE  messages[c][i] \in Messages
      <4>1. messages[c][i] \in Texts
        BY <3>2
      <4>2. i \in People(c) => messages[c][i].re = 0
        BY DEF Bounded
      <4>3. i \notin People(c) => messages[c][i].re \in Written(c)
        BY <2>1 DEF People, AnswerInv, Answers, By
      <4> QED
        BY <3>3, <4>1, <4>2, <4>3 DEF Texts, Messages
    <3>5. lastMessage[c] \in Written(c) \cup {NotAMessage}
      <4>1. lastMessage[c] \in {NotAMessage, Len(messages[c])}
        BY <2>1 DEF AskInv, Newest
      <4> QED
        BY <3>1, <3>2, <4>1, MessagesAssumption DEF NotAMessage
    <3>6. convStatus[c] = "none" => messages[c] = <<>>
      BY <2>1 DEF AskInv, Blank, Exists
    <3> QED
      BY <3>1, <3>4, <3>5, <3>6
  <2> QED
    BY <2>1, <2>2 DEF MTypeOK, Bounded, MTyped, WritingTyped, ClosingInv
<1>3. MInit => ClosingInv
  BY DEF MInit, Init, ClosingInv, ClosingComesLast
<1>4. QED
  BY <1>1, <1>2, <1>3, BoundedStep, ClosingStep, ServiceInvariant, PTL DEF MSpec

\* With goroutines too, every step is one that module Ownership allows.
THEOREM MessagingImplementsOwnership == MSpec => ActsAtOnce
BY MessagingImplementsDispatch, DispatchImplementsOwnership, PTL

=============================================================================
