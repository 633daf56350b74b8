------------------------------ MODULE Dispatch ------------------------------
(***************************************************************************)
(* Who serves which conversation: the agents, conversations and settings   *)
(* of store.MemoryStore (backend/internal/store/memory.go) that decide the *)
(* ownership and the status of a conversation.  Every method of the store  *)
(* runs under one mutex, so every method is one action.  Methods may be    *)
(* called in any order by the HTTP handlers, the socket handlers, the AI   *)
(* goroutines and the no-reply timers; module Messaging adds the messages  *)
(* and restricts the last two to the jobs and timers the service started.  *)
(***************************************************************************)
EXTENDS Integers, FiniteSets

CONSTANTS
  Agents,            \* agent ids; only their order matters (ties in dispatch)
  MaxConversations,  \* bound: conversations ever created
  Limits,            \* the values of agent.MaxConversations in play
  AIModes            \* the AI modes the administrator uses

NoAgent == 0         \* AssignedAgentID = ""
NoLimit == 0         \* max_conversations left out of an update

ASSUME AgentsAssumption == Agents \subseteq Nat \ {NoAgent} /\ IsFiniteSet(Agents)
ASSUME BoundAssumption == MaxConversations \in Nat
ASSUME LimitsAssumption == Limits \subseteq Nat \ {NoLimit}
ASSUME ModesAssumption == AIModes \subseteq {"human_first", "always_ai", "manual_only"}

Convs == 1..MaxConversations   \* conversation ids, in the order of CreatedAt

AgentStatuses == {"online", "busy", "offline"}

\* "none": not created yet, or deleted.
ConversationStatuses ==
  {"none", "waiting", "human_requested", "ai_serving", "assigned", "closed"}

\* What generateAutoRepliesLocked distinguishes in a visitor's text.
TextKinds == {"human_keyword", "keyword_rule", "plain"}

\* domain.AuthSession of the caller: kind and account id.
Actors == [kind : {"admin"}, id : {0}]
            \cup [kind : {"agent"}, id : Agents]
            \cup [kind : {"visitor"}, id : Convs]

VARIABLES
  agents,        \* keys of agentsByID
  agentStatus,   \* agent.Status
  disabled,      \* agent.DisabledAt # nil
  maxConv,       \* agent.MaxConversations
  current,       \* agent.CurrentConversations
  lastID,        \* conversations created so far
  convStatus,    \* conversation.Status
  owner,         \* conversation.AssignedAgentID
  aiEnabled,     \* ai.Enabled
  aiMode,        \* ai.Mode
  bizEnabled,    \* business.Enabled
  reclosed       \* history: a closed conversation with an owner was closed again

agentVars == <<agents, agentStatus, disabled, maxConv>>
convVars == <<lastID, convStatus, owner>>
settings == <<aiEnabled, aiMode, bizEnabled>>
vars == <<agents, agentStatus, disabled, maxConv, current,
          lastID, convStatus, owner, aiEnabled, aiMode, bizEnabled, reclosed>>

-----------------------------------------------------------------------------
Exists(c) == convStatus[c] # "none"
IsOpen(c) == convStatus[c] \notin {"none", "closed"}

\* The open conversations an agent really has, whatever its counter says.
Serving(a) == {c \in Convs : IsOpen(c) /\ owner[c] = a}
Load(a) == Cardinality(Serving(a))

\* ai.Enabled && ai.Mode != manual_only
AIActive == aiEnabled /\ aiMode # "manual_only"

\* An agent caller must own the conversation, a visitor must be in it.
Permitted(actor, c) ==
  /\ actor.kind = "agent" => owner[c] = actor.id
  /\ actor.kind = "visitor" => c = actor.id

-----------------------------------------------------------------------------
(* Dispatch *)

\* Fault: an agent at its maximum is not skipped.
FaultyCandidates ==
  {a \in agents : /\ agentStatus[a] = "online"
                  /\ ~disabled[a]
                  /\ current[a] <= maxConv[a]}

\* Agents the loop of assignConversationLocked does not skip.
Candidates ==
  {a \in agents : /\ agentStatus[a] = "online"
                  /\ ~disabled[a]
                  /\ current[a] < maxConv[a]}

\* Fault: the id decides before the number of conversations does.
FaultyIsLeastLoaded(a, S) == \A b \in S : a <= b

\* The candidate with the fewest conversations, the smallest id on a tie.
IsLeastLoaded(a, S) ==
  \A b \in S : current[a] < current[b] \/ (current[a] = current[b] /\ a <= b)

\* Fault: whatever the mode, the AI serves what no agent can take.
FaultyStatusUnassigned(before) == IF AIActive THEN "ai_serving" ELSE before

\* The status left by assignConversationLocked when it selects nobody.
StatusUnassigned(before) == IF aiMode = "always_ai" THEN "ai_serving" ELSE before

\* assignConversationLocked; unassigned is the caller's status for no agent.
AssignConversation(c, unassigned) ==
  \/ \E a \in Candidates :
       /\ aiMode # "always_ai"
       /\ IsLeastLoaded(a, Candidates)
       /\ current' = [current EXCEPT ![a] = @ + 1]
       /\ owner' = [owner EXCEPT ![c] = a]
       /\ convStatus' = [convStatus EXCEPT ![c] = "assigned"]
  \/ /\ aiMode = "always_ai" \/ Candidates = {}
     /\ convStatus' = [convStatus EXCEPT ![c] = unassigned]
     /\ UNCHANGED <<current, owner>>

\* The conversations of R given by dest to agent b.
Received(dest, R, b) == {c \in R : dest[c] = b}
LoadAfter(dest, R, b) == current[b] + Cardinality(Received(dest, R, b))

\* The outcomes of running assignConversationLocked on each conversation of R
\* in turn, candidates C, in the random order of a Go map: the last pick of
\* every agent was the least loaded choice among the agents left with room.
GreedyDispatch(dest, R, C) ==
  /\ aiMode = "always_ai" => \A c \in R : dest[c] = NoAgent
  /\ aiMode # "always_ai" =>
       /\ (\E c \in R : dest[c] = NoAgent) =>
            \A b \in C : LoadAfter(dest, R, b) = maxConv[b]
       /\ \A b \in C :
            /\ LoadAfter(dest, R, b) <= maxConv[b]
            /\ Received(dest, R, b) # {} =>
                 \A d \in C : LoadAfter(dest, R, d) < maxConv[d] =>
                   \/ LoadAfter(dest, R, b) - 1 < LoadAfter(dest, R, d)
                   \/ LoadAfter(dest, R, b) - 1 = LoadAfter(dest, R, d) /\ b <= d

\* The release loop shared by going offline, disabling and deleting agent a:
\* its counter is reset, its open conversations go back to waiting and are
\* dispatched again; Forget is the set of closed ones that also lose it.
ReleaseConversations(a, Forget) ==
  LET R == Serving(a)
      C == Candidates \ {a}
  IN \E dest \in [R -> C \cup {NoAgent}] :
       /\ GreedyDispatch(dest, R, C)
       /\ owner' = [c \in Convs |-> IF c \in R THEN dest[c]
                                    ELSE IF c \in Forget THEN NoAgent
                                    ELSE owner[c]]
       /\ convStatus' = [c \in Convs |->
                           IF c \notin R THEN convStatus[c]
                           ELSE IF dest[c] # NoAgent THEN "assigned"
                           ELSE IF AIActive THEN "ai_serving"
                           ELSE StatusUnassigned("waiting")]
       /\ current' = [b \in Agents |->
                        IF b = a THEN 0 ELSE LoadAfter(dest, R, b)]

\* Fault: conversations the AI serves are picked up too, owned ones included.
FaultyPickable ==
  {c \in Convs : convStatus[c] \in {"waiting", "human_requested", "ai_serving"}}

\* The loop of SetAgentStatus(online): the oldest conversations that wait for
\* a human, until the agent's counter reaches its maximum.
Pickable == {c \in Convs : convStatus[c] \in {"waiting", "human_requested"}}

\* The outcomes of running the loop (module PickUpLoop) when agent a takes T.
OldestFirst(T, a) ==
  /\ \A c \in T : \A d \in Pickable \ T : c < d
  /\ T # {} => current[a] + Cardinality(T) <= maxConv[a]
  /\ T # Pickable => current[a] + Cardinality(T) >= maxConv[a]

PickUpWaiting(a) ==
  \E T \in SUBSET Pickable :
    /\ OldestFirst(T, a)
    /\ owner' = [c \in Convs |-> IF c \in T THEN a ELSE owner[c]]
    /\ convStatus' = [c \in Convs |-> IF c \in T THEN "assigned" ELSE convStatus[c]]
    /\ current' = [current EXCEPT ![a] = @ + Cardinality(T)]

-----------------------------------------------------------------------------
(* Agents *)

\* NewMemoryStore: one seeded agent, AI on and human first, business hours on.
Init ==
  \E a \in Agents, m \in Limits :
    /\ agents = {a}
    /\ agentStatus = [b \in Agents |-> "offline"]
    /\ disabled = [b \in Agents |-> FALSE]
    /\ maxConv = [b \in Agents |-> IF b = a THEN m ELSE NoLimit]
    /\ current = [b \in Agents |-> 0]
    /\ lastID = 0
    /\ convStatus = [c \in Convs |-> "none"]
    /\ owner = [c \in Convs |-> NoAgent]
    /\ aiEnabled = TRUE
    /\ aiMode = "human_first"
    /\ bizEnabled = TRUE
    /\ reclosed = FALSE

\* A new random id; the handler never passes a status, so it is offline.
CreateAgent(a, m) ==
  /\ a \notin agents
  /\ agents' = agents \cup {a}
  /\ agentStatus' = [agentStatus EXCEPT ![a] = "offline"]
  /\ disabled' = [disabled EXCEPT ![a] = FALSE]
  /\ maxConv' = [maxConv EXCEPT ![a] = m]
  /\ current' = [current EXCEPT ![a] = 0]
  /\ UNCHANGED <<convVars, settings, reclosed>>

SetAgentStatus(a, s) ==
  /\ a \in agents
  /\ ~(disabled[a] /\ s = "online")
  /\ agentStatus' = [agentStatus EXCEPT ![a] = s]
  /\ \/ s = "offline" /\ ReleaseConversations(a, {})
     \/ s = "online" /\ PickUpWaiting(a)
     \/ s = "busy" /\ UNCHANGED <<owner, convStatus, current>>
  /\ UNCHANGED <<agents, disabled, maxConv, lastID, settings, reclosed>>

\* The administrator's edit.  The maximum is written before a status is
\* refused, and no status written here releases or picks up conversations.
UpdateAgent(a, m, s) ==
  /\ a \in agents
  /\ maxConv' = IF m = NoLimit THEN maxConv ELSE [maxConv EXCEPT ![a] = m]
  /\ agentStatus' = IF s = "" \/ (disabled[a] /\ s = "online")
                    THEN agentStatus
                    ELSE [agentStatus EXCEPT ![a] = s]
  /\ UNCHANGED <<agents, disabled, current, convVars, settings, reclosed>>

DisableAgent(a) ==
  /\ a \in agents
  /\ disabled' = [disabled EXCEPT ![a] = TRUE]
  /\ agentStatus' = [agentStatus EXCEPT ![a] = "offline"]
  /\ ReleaseConversations(a, {})
  /\ UNCHANGED <<agents, maxConv, lastID, settings, reclosed>>

\* Closed conversations lose the agent too; its record goes away.
DeleteAgent(a) ==
  /\ a \in agents
  /\ agents' = agents \ {a}
  /\ agentStatus' = [agentStatus EXCEPT ![a] = "offline"]
  /\ disabled' = [disabled EXCEPT ![a] = FALSE]
  /\ maxConv' = [maxConv EXCEPT ![a] = NoLimit]
  /\ ReleaseConversations(a, {c \in Convs : owner[c] = a})
  /\ UNCHANGED <<lastID, settings, reclosed>>

-----------------------------------------------------------------------------
(* Conversations *)

\* businessTime is what isBusinessTimeLocked says at the time of the call.
CreateVisitorConversation(businessTime) ==
  LET c == lastID + 1
      aiFirst == /\ AIActive
                 /\ ~bizEnabled \/ ~businessTime \/ aiMode = "always_ai"
  IN /\ lastID < MaxConversations
     /\ lastID' = c
     /\ AssignConversation(c, IF aiFirst THEN "ai_serving"
                              ELSE StatusUnassigned("waiting"))
     /\ UNCHANGED <<agentVars, settings, reclosed>>

\* Fault: the conversation may have an agent already.
FaultyAskForHuman(c) == AssignConversation(c, StatusUnassigned("human_requested"))

\* generateAutoRepliesLocked: the branches that move the conversation.
AskForHuman(c) ==
  IF owner[c] # NoAgent
  THEN /\ convStatus' = [convStatus EXCEPT ![c] = "assigned"]
       /\ UNCHANGED <<owner, current>>
  ELSE AssignConversation(c, StatusUnassigned("human_requested"))

NeedsAI(c, businessTime) ==
  /\ convStatus[c] # "assigned"
  /\ AIActive
  /\ ~(convStatus[c] = "waiting" /\ bizEnabled /\ businessTime)

AddVisitorMessage(c, kind, businessTime) ==
  /\ IsOpen(c)
  /\ \/ kind = "human_keyword" /\ AskForHuman(c)
     \/ kind = "keyword_rule" /\ UNCHANGED <<convStatus, owner, current>>
     \/ /\ kind = "plain"
        /\ convStatus' = IF NeedsAI(c, businessTime)
                         THEN [convStatus EXCEPT ![c] = "ai_serving"]
                         ELSE convStatus
        /\ UNCHANGED <<owner, current>>
  /\ UNCHANGED <<agentVars, lastID, settings, reclosed>>

\* Fault: a conversation closed while the reply was written is not refused.
FaultyAddAIMessage(c) ==
  /\ Exists(c)
  /\ convStatus' = [convStatus EXCEPT ![c] = "ai_serving"]
  /\ UNCHANGED <<agentVars, current, lastID, owner, settings, reclosed>>

AddAIMessage(c) ==
  /\ IsOpen(c)
  /\ convStatus' = [convStatus EXCEPT ![c] = "ai_serving"]
  /\ UNCHANGED <<agentVars, current, lastID, owner, settings, reclosed>>

AddAgentMessage(a, c) ==
  /\ IsOpen(c)
  /\ owner[c] = a
  /\ convStatus' = IF convStatus[c] \in {"ai_serving", "human_requested"}
                   THEN [convStatus EXCEPT ![c] = "assigned"]
                   ELSE convStatus
  /\ UNCHANGED <<agentVars, current, lastID, owner, settings, reclosed>>

\* The comparison of LastMessageAt with the timer's message is in Messaging.
EscalateNoReplyToAI(c) ==
  /\ convStatus[c] = "assigned"
  /\ AIActive
  /\ convStatus' = [convStatus EXCEPT ![c] = "ai_serving"]
  /\ UNCHANGED <<agentVars, current, lastID, owner, settings, reclosed>>

\* Fault: the counter is not compared with zero.
FaultyDecremented(a) == IF a \in agents THEN current[a] - 1 ELSE current[a]

\* The counter of one agent after it gave up a conversation.
Decremented(a) == IF a \in agents /\ current[a] > 0 THEN current[a] - 1 ELSE current[a]

\* Fault: the agent's counter is forgotten.
FaultyCloseConversation(actor, c) ==
  /\ Exists(c)
  /\ Permitted(actor, c)
  /\ convStatus' = [convStatus EXCEPT ![c] = "closed"]
  /\ reclosed' = (reclosed \/ (convStatus[c] = "closed" /\ owner[c] # NoAgent))
  /\ UNCHANGED <<agentVars, current, lastID, owner, settings>>

\* There is no test for a conversation that is closed already.
CloseConversation(actor, c) ==
  /\ Exists(c)
  /\ Permitted(actor, c)
  /\ current' = [b \in Agents |-> IF b = owner[c] THEN Decremented(b) ELSE current[b]]
  /\ convStatus' = [convStatus EXCEPT ![c] = "closed"]
  /\ reclosed' = (reclosed \/ (convStatus[c] = "closed" /\ owner[c] # NoAgent))
  /\ UNCHANGED <<agentVars, lastID, owner, settings>>

DeleteConversation(actor, c) ==
  /\ convStatus[c] = "closed"
  /\ Permitted(actor, c)
  /\ convStatus' = [convStatus EXCEPT ![c] = "none"]
  /\ owner' = [owner EXCEPT ![c] = NoAgent]
  /\ UNCHANGED <<agentVars, current, lastID, settings, reclosed>>

\* Fault: a disabled agent is a target like any other.
FaultyMayTransferTo(a) == a \in agents

\* selectTransferTargetLocked with an agent id: neither online nor below its
\* maximum is asked for.
MayTransferTo(a) == a \in agents /\ ~disabled[a]

\* ... and without: the dispatch rule over the members of the named group, or
\* over everybody.  Any set of agents may be a group.
GroupCandidates(members) == Candidates \cap members

\* Fault: the new agent's counter is not incremented.
FaultyMoveConversation(actor, c, a) ==
  /\ actor.kind = "admin"
  /\ IsOpen(c)
  /\ IF owner[c] = a
     THEN UNCHANGED <<current, owner, convStatus>>
     ELSE /\ current' = [b \in Agents |-> IF b = owner[c] THEN Decremented(b)
                                         ELSE current[b]]
          /\ owner' = [owner EXCEPT ![c] = a]
          /\ convStatus' = [convStatus EXCEPT ![c] = "assigned"]
  /\ UNCHANGED <<agentVars, lastID, settings, reclosed>>

MoveConversation(actor, c, a) ==
  /\ actor.kind = "admin"
  /\ IsOpen(c)
  /\ IF owner[c] = a
     THEN UNCHANGED <<current, owner, convStatus>>
     ELSE /\ current' = [b \in Agents |->
                           IF b = a THEN current[b] + 1
                           ELSE IF b = owner[c] THEN Decremented(b)
                           ELSE current[b]]
          /\ owner' = [owner EXCEPT ![c] = a]
          /\ convStatus' = [convStatus EXCEPT ![c] = "assigned"]
  /\ UNCHANGED <<agentVars, lastID, settings, reclosed>>

TransferToAgent(actor, c, a) ==
  /\ MayTransferTo(a)
  /\ MoveConversation(actor, c, a)

TransferToGroup(actor, c, members) ==
  \E a \in GroupCandidates(members) :
    /\ IsLeastLoaded(a, GroupCandidates(members))
    /\ MoveConversation(actor, c, a)

-----------------------------------------------------------------------------
(* Settings *)

UpdateAISettings(enabled, mode) ==
  /\ aiEnabled' = enabled
  /\ aiMode' = mode
  /\ UNCHANGED <<agentVars, current, convVars, bizEnabled, reclosed>>

UpdateBusinessHours(enabled) ==
  /\ bizEnabled' = enabled
  /\ UNCHANGED <<agentVars, current, convVars, aiEnabled, aiMode, reclosed>>

-----------------------------------------------------------------------------
AgentNext ==
  \E a \in Agents :
    \/ \E m \in Limits : CreateAgent(a, m)
    \/ \E s \in AgentStatuses : SetAgentStatus(a, s)
    \/ \E m \in Limits \cup {NoLimit}, s \in AgentStatuses \cup {""} :
         UpdateAgent(a, m, s)
    \/ DisableAgent(a)
    \/ DeleteAgent(a)

MessageNext ==
  \E c \in Convs :
    \/ \E kind \in TextKinds, businessTime \in BOOLEAN :
         AddVisitorMessage(c, kind, businessTime)
    \/ AddAIMessage(c)
    \/ \E a \in Agents : AddAgentMessage(a, c)
    \/ EscalateNoReplyToAI(c)

ConversationNext ==
  \/ \E businessTime \in BOOLEAN : CreateVisitorConversation(businessTime)
  \/ \E c \in Convs, actor \in Actors :
       \/ CloseConversation(actor, c)
       \/ DeleteConversation(actor, c)
       \/ \E a \in Agents : TransferToAgent(actor, c, a)
       \/ \E members \in SUBSET Agents : TransferToGroup(actor, c, members)

SettingsNext ==
  \/ \E enabled \in BOOLEAN, mode \in AIModes \cup {aiMode} :
       UpdateAISettings(enabled, mode)
  \/ \E enabled \in BOOLEAN : UpdateBusinessHours(enabled)

Next == AgentNext \/ MessageNext \/ ConversationNext \/ SettingsNext

Spec == Init /\ [][Next]_vars

-----------------------------------------------------------------------------
(* Properties *)

\* Every part of the store keeps its type.  A record that is not registered or
\* not created holds zero values, as a new record of the store does.
TypeOK ==
  /\ agents \subseteq Agents
  /\ agentStatus \in [Agents -> AgentStatuses]
  /\ disabled \in [Agents -> BOOLEAN]
  /\ maxConv \in [Agents -> Limits \cup {NoLimit}]
  /\ current \in [Agents -> Nat]
  /\ lastID \in 0..MaxConversations
  /\ convStatus \in [Convs -> ConversationStatuses]
  /\ owner \in [Convs -> Agents \cup {NoAgent}]
  /\ aiEnabled \in BOOLEAN
  /\ aiMode \in AIModes \cup {"human_first"}
  /\ bizEnabled \in BOOLEAN
  /\ reclosed \in BOOLEAN

\* A conversation that waits for a human has nobody, an assigned one has its
\* agent: the status the clients show and the owner the permission checks read
\* never disagree, however releases, AI replies, escalations and transfers
\* follow each other.
OwnerMatchesStatus ==
  \A c \in Convs :
    /\ convStatus[c] \in {"none", "waiting", "human_requested"} => owner[c] = NoAgent
    /\ convStatus[c] = "assigned" => owner[c] # NoAgent

\* An owner, of a closed conversation too, is a registered agent.
OwnerRegistered == \A c \in Convs : owner[c] \in agents \cup {NoAgent}

\* A disabled agent has no open conversation and is not online.
DisabledServesNobody ==
  \A a \in agents : disabled[a] => Serving(a) = {} /\ agentStatus[a] # "online"

\* DeleteAgent leaves no conversation, closed or not, pointing at the agent it
\* removed; and a disabled agent never gets one again, neither by dispatch nor by
\* a transfer, and cannot be put online by either of the two ways to change a status.
OwnersCanServe == OwnerRegistered /\ DisabledServesNobody

CounterNeverAboveLoad == \A a \in Agents : current[a] <= Load(a)
CounterExactUnlessReclosed == ~reclosed => \A a \in Agents : current[a] = Load(a)

\* The counter that dispatch compares with the maximum never shows more than the
\* open conversations the agent has, so no agent is passed over for conversations
\* it no longer serves; and closing one that is closed already is the only way the
\* counter and the conversations can ever disagree.
CounterMatchesLoad == CounterNeverAboveLoad /\ CounterExactUnlessReclosed

\* What a step may do to a closed conversation.
ClosedStays(c) ==
  convStatus[c] = "closed" =>
    \/ convStatus'[c] = "closed" /\ owner'[c] = owner[c]
    \/ convStatus'[c] = "closed" /\ owner'[c] = NoAgent /\ owner[c] \notin agents'
    \/ convStatus'[c] = "none" /\ owner'[c] = NoAgent

\* A closed conversation is never reopened: not by a late AI reply, a timer, a
\* transfer or the release of its agent.  It keeps its owner until the agent
\* or the conversation is deleted.
ClosedIsFinal == [][\A c \in Convs : ClosedStays(c)]_vars

ExplicitTransfer(c, a) == \E actor \in Actors : TransferToAgent(actor, c, a)

\* An open conversation changes hands only when its agent goes offline, is
\* disabled or is deleted, or when an administrator transfers it: nobody else's
\* action takes a conversation away from the agent serving it.
NoStealing ==
  [][\A c \in Convs :
       (IsOpen(c) /\ owner[c] # NoAgent /\ owner'[c] # owner[c]) =>
         \/ owner[c] \notin agents'
         \/ /\ agentStatus'[owner[c]] = "offline"
            /\ \A d \in Serving(owner[c]) : owner'[d] # owner[c]
         \/ \E actor \in Actors, a \in Agents : MoveConversation(actor, c, a)]_vars

\* Conversation c arrives at agent a, by any way but a transfer to a by name.
Dispatched(c, a) == owner'[c] = a /\ owner[c] # a /\ ~ExplicitTransfer(c, a)

\* The agent as the step leaves it could be dispatched to.
WithinLimits(a) ==
  /\ a \in agents /\ agentStatus[a] = "online" /\ ~disabled[a]
  /\ current[a] <= maxConv[a]

\* Except for a transfer to a named agent, a conversation only ever arrives at
\* an agent that is online and enabled, and leaves its counter within its
\* maximum, also when a release hands out several conversations at once.
DispatchWithinLimits ==
  [][\A c \in Convs, a \in Agents : Dispatched(c, a) => WithinLimits(a)']_vars

\* The same with the open conversations the agent really has in place of its
\* counter.  It does not hold: closing a conversation twice takes the counter
\* below the conversations the agent still has.
RealLoadWithinLimits ==
  [][\A c \in Convs, a \in Agents : Dispatched(c, a) => Load(a)' <= maxConv'[a]]_vars

Store == INSTANCE Ownership

\* Every method of the memory store does what module Ownership allows a caller to
\* see of it: releases, dispatches and pick-ups are one step each, and what the
\* administrator edits moves no conversation.
ActsAtOnce == [][Store!Next]_(Store!vars)

=============================================================================
