--------------------------- MODULE DispatchProofs ---------------------------
(***************************************************************************)
(* Theorems about Dispatch for every set of agents, every bound on the     *)
(* conversations and every choice of maximums, with their TLAPS proofs.    *)
(***************************************************************************)
EXTENDS Dispatch, FiniteSetTheorems, TLAPS

-----------------------------------------------------------------------------
(* Counting conversations *)

LEMMA ConvSetFinite ==
  ASSUME NEW S \in SUBSET Convs
  PROVE  IsFiniteSet(S) /\ Cardinality(S) \in Nat
<1>1. IsFiniteSet(Convs)
  BY FS_Interval, BoundAssumption DEF Convs
<1>2. IsFiniteSet(S)
  BY <1>1, FS_Subset
<1>3. QED
  BY <1>2, FS_CardinalityType

LEMMA CountAdd ==
  ASSUME NEW S \in SUBSET Convs, NEW c \in Convs, c \notin S
  PROVE  Cardinality(S \cup {c}) = Cardinality(S) + 1
BY ConvSetFinite, FS_AddElement

LEMMA CountRemove ==
  ASSUME NEW S \in SUBSET Convs, NEW c \in S
  PROVE  Cardinality(S \ {c}) = Cardinality(S) - 1
BY ConvSetFinite, FS_RemoveElement

LEMMA CountUnion ==
  ASSUME NEW S \in SUBSET Convs, NEW T \in SUBSET Convs, S \cap T = {}
  PROVE  Cardinality(S \cup T) = Cardinality(S) + Cardinality(T)
<1>1. Cardinality(S \cup T) = Cardinality(S) + Cardinality(T) - Cardinality(S \cap T)
  BY ConvSetFinite, FS_Union
<1>2. Cardinality(S \cap T) = 0
  BY FS_EmptySet
<1>3. QED
  BY <1>1, <1>2, ConvSetFinite

LEMMA CountNone ==
  ASSUME NEW S \in SUBSET Convs, S = {}
  PROVE  Cardinality(S) = 0
BY FS_EmptySet

-----------------------------------------------------------------------------
(* Type correctness *)

\* The part of TypeOK that dispatch and release change.
PlacementOK ==
  /\ current \in [Agents -> Nat]
  /\ convStatus \in [Convs -> ConversationStatuses]
  /\ owner \in [Convs -> Agents \cup {NoAgent}]

\* assignConversationLocked keeps counters, statuses and owners well typed.
LEMMA AssignTyped ==
  ASSUME TypeOK, NEW c \in Convs, NEW s \in ConversationStatuses,
         AssignConversation(c, s)
  PROVE  PlacementOK'
<1>1. "assigned" \in ConversationStatuses
  BY DEF ConversationStatuses
<1>2. CASE \E a \in Candidates :
             /\ current' = [current EXCEPT ![a] = @ + 1]
             /\ owner' = [owner EXCEPT ![c] = a]
             /\ convStatus' = [convStatus EXCEPT ![c] = "assigned"]
  <2>1. Candidates \subseteq Agents
    BY DEF Candidates, TypeOK
  <2>2. QED
    BY <1>1, <1>2, <2>1 DEF TypeOK, PlacementOK
<1>3. CASE /\ convStatus' = [convStatus EXCEPT ![c] = s]
           /\ UNCHANGED <<current, owner>>
  BY <1>3 DEF TypeOK, PlacementOK
<1>4. QED
  BY <1>2, <1>3 DEF AssignConversation

LEMMA ReceivedCounted ==
  ASSUME TypeOK, NEW R \in SUBSET Convs, NEW dest, NEW b \in Agents
  PROVE  /\ Received(dest, R, b) \in SUBSET Convs
         /\ Cardinality(Received(dest, R, b)) \in Nat
         /\ LoadAfter(dest, R, b) \in Nat
<1>1. Received(dest, R, b) \in SUBSET Convs
  BY DEF Received
<1>2. Cardinality(Received(dest, R, b)) \in Nat
  BY <1>1, ConvSetFinite
<1>3. QED
  BY <1>1, <1>2 DEF LoadAfter, TypeOK

\* The release loop keeps counters, statuses and owners well typed.
LEMMA ReleaseTyped ==
  ASSUME TypeOK, NEW a \in Agents, NEW Forget, ReleaseConversations(a, Forget)
  PROVE  PlacementOK'
<1>1. Serving(a) \in SUBSET Convs
  BY DEF Serving
<1>2. Candidates \subseteq Agents
  BY DEF Candidates, TypeOK
<1>3. PICK dest \in [Serving(a) -> (Candidates \ {a}) \cup {NoAgent}] :
        /\ owner' = [c \in Convs |-> IF c \in Serving(a) THEN dest[c]
                                     ELSE IF c \in Forget THEN NoAgent
                                     ELSE owner[c]]
        /\ convStatus' = [c \in Convs |->
                            IF c \notin Serving(a) THEN convStatus[c]
                            ELSE IF dest[c] # NoAgent THEN "assigned"
                            ELSE IF AIActive THEN "ai_serving"
                            ELSE StatusUnassigned("waiting")]
        /\ current' = [b \in Agents |->
                         IF b = a THEN 0 ELSE LoadAfter(dest, Serving(a), b)]
  BY DEF ReleaseConversations
<1>4. \A b \in Agents : LoadAfter(dest, Serving(a), b) \in Nat
  BY <1>1, ReceivedCounted
<1>5. current' \in [Agents -> Nat]
  BY <1>3, <1>4
<1>6. owner' \in [Convs -> Agents \cup {NoAgent}]
  BY <1>2, <1>3 DEF TypeOK
<1>7. convStatus' \in [Convs -> ConversationStatuses]
  BY <1>3 DEF TypeOK, ConversationStatuses, StatusUnassigned
<1>8. QED
  BY <1>5, <1>6, <1>7 DEF PlacementOK

\* Coming online keeps counters, statuses and owners well typed.
LEMMA PickUpTyped ==
  ASSUME TypeOK, NEW a \in Agents, PickUpWaiting(a)
  PROVE  PlacementOK'
<1>1. PICK T \in SUBSET Pickable :
        /\ owner' = [c \in Convs |-> IF c \in T THEN a ELSE owner[c]]
        /\ convStatus' = [c \in Convs |-> IF c \in T THEN "assigned" ELSE convStatus[c]]
        /\ current' = [current EXCEPT ![a] = @ + Cardinality(T)]
  BY DEF PickUpWaiting
<1>2. Cardinality(T) \in Nat
  BY ConvSetFinite DEF Pickable
<1>3. QED
  BY <1>1, <1>2 DEF TypeOK, PlacementOK, ConversationStatuses

LEMMA TypeInit == Init => TypeOK
<1> SUFFICES ASSUME Init PROVE TypeOK
  OBVIOUS
<1>1. /\ agents \subseteq Agents
      /\ maxConv \in [Agents -> Limits \cup {NoLimit}]
      /\ agentStatus \in [Agents -> AgentStatuses]
  BY DEF Init, AgentStatuses
<1>2. disabled \in [Agents -> BOOLEAN] /\ current \in [Agents -> Nat]
  BY DEF Init
<1>3. lastID \in 0..MaxConversations
  BY BoundAssumption DEF Init
<1>4. /\ convStatus \in [Convs -> ConversationStatuses]
      /\ owner \in [Convs -> Agents \cup {NoAgent}]
  BY DEF Init, ConversationStatuses
<1>5. QED
  BY <1>1, <1>2, <1>3, <1>4 DEF Init, TypeOK

LEMMA TypeStep == TypeOK /\ [Next]_vars => TypeOK'
<1> SUFFICES ASSUME TypeOK, [Next]_vars PROVE TypeOK'
  OBVIOUS
<1> USE DEF agentVars, convVars, settings
<1>1. CASE UNCHANGED vars
  BY <1>1 DEF vars, TypeOK
<1>2. ASSUME NEW a \in Agents, NEW m \in Limits, CreateAgent(a, m) PROVE TypeOK'
  BY <1>2 DEF CreateAgent, TypeOK, AgentStatuses
<1>3. ASSUME NEW a \in Agents, NEW s \in AgentStatuses, SetAgentStatus(a, s)
      PROVE  TypeOK'
  <2>1. PlacementOK'
    <3>1. CASE ReleaseConversations(a, {})
      BY <3>1, ReleaseTyped
    <3>2. CASE PickUpWaiting(a)
      BY <3>2, PickUpTyped
    <3>3. CASE UNCHANGED <<owner, convStatus, current>>
      BY <3>3 DEF PlacementOK, TypeOK
    <3>4. QED
      BY <1>3, <3>1, <3>2, <3>3 DEF SetAgentStatus
  <2>2. QED
    BY <1>3, <2>1 DEF SetAgentStatus, TypeOK, PlacementOK
<1>4. ASSUME NEW a \in Agents, NEW m \in Limits \cup {NoLimit},
             NEW s \in AgentStatuses \cup {""}, UpdateAgent(a, m, s)
      PROVE  TypeOK'
  BY <1>4 DEF UpdateAgent, TypeOK, AgentStatuses
<1>5. ASSUME NEW a \in Agents, DisableAgent(a) PROVE TypeOK'
  <2>1. PlacementOK'
    BY <1>5, ReleaseTyped DEF DisableAgent
  <2>2. QED
    BY <1>5, <2>1 DEF DisableAgent, TypeOK, PlacementOK, AgentStatuses
<1>6. ASSUME NEW a \in Agents, DeleteAgent(a) PROVE TypeOK'
  <2>1. PlacementOK'
    BY <1>6, ReleaseTyped DEF DeleteAgent
  <2>2. QED
    BY <1>6, <2>1 DEF DeleteAgent, TypeOK, PlacementOK, AgentStatuses
<1>7. ASSUME NEW c \in Convs, NEW kind \in TextKinds, NEW t \in BOOLEAN,
             AddVisitorMessage(c, kind, t)
      PROVE  TypeOK'
  <2>1. PlacementOK'
    <3>1. CASE AskForHuman(c)
      <4>1. CASE owner[c] # NoAgent
        BY <3>1, <4>1 DEF AskForHuman, PlacementOK, TypeOK, ConversationStatuses
      <4>2. CASE owner[c] = NoAgent
        <5>1. StatusUnassigned("human_requested") \in ConversationStatuses
          BY DEF StatusUnassigned, ConversationStatuses
        <5>2. AssignConversation(c, StatusUnassigned("human_requested"))
          BY <3>1, <4>2 DEF AskForHuman
        <5>3. QED
          BY <5>1, <5>2, AssignTyped
      <4>3. QED
        BY <4>1, <4>2
    <3>2. CASE ~AskForHuman(c)
      BY <1>7, <3>2 DEF AddVisitorMessage, PlacementOK, TypeOK, ConversationStatuses
    <3>3. QED
      BY <3>1, <3>2
  <2>2. QED
    BY <1>7, <2>1 DEF AddVisitorMessage, TypeOK, PlacementOK
<1>8. ASSUME NEW c \in Convs, AddAIMessage(c) PROVE TypeOK'
  BY <1>8 DEF AddAIMessage, TypeOK, ConversationStatuses
<1>9. ASSUME NEW c \in Convs, NEW a \in Agents, AddAgentMessage(a, c) PROVE TypeOK'
  BY <1>9 DEF AddAgentMessage, TypeOK, ConversationStatuses
<1>10. ASSUME NEW c \in Convs, EscalateNoReplyToAI(c) PROVE TypeOK'
  BY <1>10 DEF EscalateNoReplyToAI, TypeOK, ConversationStatuses
<1>11. ASSUME NEW t \in BOOLEAN, CreateVisitorConversation(t) PROVE TypeOK'
  <2>1. lastID + 1 \in Convs /\ lastID' = lastID + 1 /\ lastID' \in 0..MaxConversations
    BY <1>11, BoundAssumption DEF CreateVisitorConversation, TypeOK, Convs
  <2>2. PICK s \in ConversationStatuses : AssignConversation(lastID + 1, s)
    BY <1>11 DEF CreateVisitorConversation, StatusUnassigned, ConversationStatuses
  <2>3. PlacementOK'
    BY <2>1, <2>2, AssignTyped
  <2>4. QED
    BY <1>11, <2>1, <2>3 DEF CreateVisitorConversation, TypeOK, PlacementOK
<1>12. ASSUME NEW c \in Convs, NEW actor \in Actors, CloseConversation(actor, c)
       PROVE  TypeOK'
  <2>1. \A b \in Agents : Decremented(b) \in Nat
    BY DEF Decremented, TypeOK
  <2>2. current' \in [Agents -> Nat]
    BY <1>12, <2>1 DEF CloseConversation, TypeOK
  <2>3. reclosed' \in BOOLEAN
    BY <1>12, Zenon DEF CloseConversation, TypeOK
  <2>4. QED
    BY <1>12, <2>2, <2>3 DEF CloseConversation, TypeOK, ConversationStatuses
<1>13. ASSUME NEW c \in Convs, NEW actor \in Actors, DeleteConversation(actor, c)
       PROVE  TypeOK'
  BY <1>13 DEF DeleteConversation, TypeOK, ConversationStatuses
<1>14. ASSUME NEW c \in Convs, NEW actor \in Actors, NEW a \in Agents,
              MoveConversation(actor, c, a)
       PROVE  TypeOK'
  <2>1. \A b \in Agents : Decremented(b) \in Nat /\ current[b] + 1 \in Nat
    BY DEF Decremented, TypeOK
  <2>2. current' \in [Agents -> Nat]
    BY <1>14, <2>1 DEF MoveConversation, TypeOK
  <2>3. QED
    BY <1>14, <2>2 DEF MoveConversation, TypeOK, ConversationStatuses
<1>15. ASSUME NEW enabled \in BOOLEAN, NEW mode \in AIModes \cup {aiMode},
              UpdateAISettings(enabled, mode)
       PROVE  TypeOK'
  BY <1>15 DEF UpdateAISettings, TypeOK
<1>16. ASSUME NEW enabled \in BOOLEAN, UpdateBusinessHours(enabled) PROVE TypeOK'
  BY <1>16 DEF UpdateBusinessHours, TypeOK
<1>17. CASE AgentNext
  BY <1>2, <1>3, <1>4, <1>5, <1>6, <1>17 DEF AgentNext
<1>18. CASE MessageNext
  BY <1>7, <1>8, <1>9, <1>10, <1>18 DEF MessageNext
<1>19. CASE ConversationNext
  BY <1>11, <1>12, <1>13, <1>14, <1>19
     DEF ConversationNext, TransferToAgent, TransferToGroup, GroupCandidates, Candidates, TypeOK
<1>20. CASE SettingsNext
  BY <1>15, <1>16, <1>20 DEF SettingsNext
<1>21. QED
  BY <1>1, <1>17, <1>18, <1>19, <1>20 DEF Next

\* TypeOK is an invariant of the store for all agents, bounds and maximums.
THEOREM TypeCorrect == Spec => []TypeOK
BY TypeInit, TypeStep, PTL DEF Spec

-----------------------------------------------------------------------------
(* Ownership *)

\* Ids are handed out in order, so the next conversation is a blank one.
Unborn == \A c \in Convs : c > lastID => convStatus[c] = "none"

\* The inductive invariant about owners.  The four parts need each other: a
\* release is sound because an owner is registered, a new conversation because
\* it is blank and has no owner.
OwnershipInv ==
  /\ OwnerMatchesStatus
  /\ OwnerRegistered
  /\ DisabledServesNobody
  /\ Unborn

LEMMA NoAgentIsNobody == NoAgent \notin Agents
BY AgentsAssumption DEF NoAgent

LEMMA ConvsAreIntegers == Convs \subseteq Int
BY BoundAssumption DEF Convs

\* A candidate of dispatch is registered, online and enabled.
LEMMA CandidatesAvailable ==
  ASSUME NEW a \in Candidates
  PROVE  a \in agents /\ agentStatus[a] = "online" /\ ~disabled[a]
BY DEF Candidates

\* Dispatching a conversation nobody owns, with the agents as they are.
LEMMA AssignOwnership ==
  ASSUME TypeOK, OwnershipInv, NEW c \in Convs, owner[c] = NoAgent,
         NEW s \in {"waiting", "human_requested", "ai_serving"},
         AssignConversation(c, s), UNCHANGED agentVars
  PROVE  OwnerMatchesStatus' /\ OwnerRegistered' /\ DisabledServesNobody'
<1> USE DEF OwnershipInv, agentVars
<1>1. CASE \E a \in Candidates :
             /\ owner' = [owner EXCEPT ![c] = a]
             /\ convStatus' = [convStatus EXCEPT ![c] = "assigned"]
  <2>1. PICK a \in Candidates :
             /\ owner' = [owner EXCEPT ![c] = a]
             /\ convStatus' = [convStatus EXCEPT ![c] = "assigned"]
    BY <1>1
  <2>2. a \in agents /\ a \in Agents /\ ~disabled[a] /\ a # NoAgent
    BY CandidatesAvailable, NoAgentIsNobody DEF TypeOK
  <2>3. OwnerMatchesStatus'
    BY <2>1, <2>2 DEF OwnerMatchesStatus, TypeOK
  <2>4. OwnerRegistered'
    BY <2>1, <2>2 DEF OwnerRegistered, TypeOK
  <2>5. DisabledServesNobody'
    BY <2>1, <2>2 DEF DisabledServesNobody, Serving, IsOpen, TypeOK
  <2>6. QED
    BY <2>3, <2>4, <2>5
<1>2. CASE /\ convStatus' = [convStatus EXCEPT ![c] = s]
           /\ UNCHANGED owner
  <2>1. OwnerMatchesStatus'
    BY <1>2 DEF OwnerMatchesStatus, TypeOK
  <2>2. OwnerRegistered'
    BY <1>2 DEF OwnerRegistered, TypeOK
  <2>3. DisabledServesNobody'
    BY <1>2, NoAgentIsNobody DEF DisabledServesNobody, Serving, IsOpen, TypeOK
  <2>4. QED
    BY <2>1, <2>2, <2>3
<1>3. QED
  BY <1>1, <1>2 DEF AssignConversation

\* What the release loop does to owners, for the three operations that run it.
LEMMA ReleaseOwnership ==
  ASSUME TypeOK, OwnershipInv, NEW a \in Agents,
         NEW Forget \in SUBSET {c \in Convs : owner[c] = a},
         ReleaseConversations(a, Forget)
  PROVE  /\ OwnerMatchesStatus'
         /\ \A c \in Convs : \/ owner'[c] = owner[c]
                             \/ owner[c] = a /\ owner'[c] = NoAgent
                             \/ c \in Serving(a) /\ owner'[c] \in Candidates \ {a}
         /\ \A c \in Serving(a) \cup Forget : owner'[c] # a
         /\ \A c \in Convs \ Serving(a) : convStatus'[c] = convStatus[c]
<1>1. PICK dest \in [Serving(a) -> (Candidates \ {a}) \cup {NoAgent}] :
        /\ owner' = [c \in Convs |-> IF c \in Serving(a) THEN dest[c]
                                     ELSE IF c \in Forget THEN NoAgent
                                     ELSE owner[c]]
        /\ convStatus' = [c \in Convs |->
                            IF c \notin Serving(a) THEN convStatus[c]
                            ELSE IF dest[c] # NoAgent THEN "assigned"
                            ELSE IF AIActive THEN "ai_serving"
                            ELSE StatusUnassigned("waiting")]
  BY DEF ReleaseConversations
<1>2. \A c \in Serving(a) : c \in Convs /\ owner[c] = a
  BY DEF Serving
<1>3. a # NoAgent
  BY NoAgentIsNobody
<1>4. \A c \in Convs : \/ owner'[c] = owner[c]
                       \/ owner[c] = a /\ owner'[c] = NoAgent
                       \/ c \in Serving(a) /\ owner'[c] \in Candidates \ {a}
  BY <1>1, <1>2
<1>5. \A c \in Serving(a) \cup Forget : owner'[c] # a
  BY <1>1, <1>2, <1>3
<1>6. \A c \in Convs \ Serving(a) : convStatus'[c] = convStatus[c]
  BY <1>1
<1>7. OwnerMatchesStatus'
  <2> SUFFICES ASSUME NEW c \in Convs
               PROVE  /\ convStatus'[c] \in {"none", "waiting", "human_requested"}
                           => owner'[c] = NoAgent
                      /\ convStatus'[c] = "assigned" => owner'[c] # NoAgent
    BY DEF OwnerMatchesStatus
  <2>1. CASE c \in Serving(a)
    BY <1>1, <2>1 DEF StatusUnassigned
  <2>2. CASE c \notin Serving(a)
    <3>1. convStatus[c] = "assigned" => c \notin Forget
      BY <2>2 DEF Serving, IsOpen
    <3>2. QED
      BY <1>1, <2>2, <3>1 DEF OwnershipInv, OwnerMatchesStatus
  <2>3. QED
    BY <2>1, <2>2
<1>8. QED
  BY <1>4, <1>5, <1>6, <1>7

LEMMA OwnershipInit == Init => OwnershipInv
BY ConvsAreIntegers, NoAgentIsNobody
   DEF Init, OwnershipInv, OwnerMatchesStatus, OwnerRegistered, DisabledServesNobody,
       Unborn, Serving, IsOpen

\* Releasing an agent that stays registered and ends up offline.
LEMMA ReleaseKeepsInv ==
  ASSUME TypeOK, OwnershipInv, NEW a \in agents, ReleaseConversations(a, {}),
         agents' = agents, lastID' = lastID,
         agentStatus' = [agentStatus EXCEPT ![a] = "offline"],
         \A b \in agents \ {a} : disabled'[b] = disabled[b]
  PROVE  OwnershipInv'
<1>1. a \in Agents
  BY DEF TypeOK
<1>2. /\ OwnerMatchesStatus'
      /\ \A c \in Convs : \/ owner'[c] = owner[c]
                          \/ owner[c] = a /\ owner'[c] = NoAgent
                          \/ c \in Serving(a) /\ owner'[c] \in Candidates \ {a}
      /\ \A c \in Serving(a) : owner'[c] # a
      /\ \A c \in Convs \ Serving(a) : convStatus'[c] = convStatus[c]
  BY <1>1, ReleaseOwnership
<1>3. OwnerRegistered'
  BY <1>2, CandidatesAvailable DEF OwnershipInv, OwnerRegistered
<1>4. DisabledServesNobody'
  <2> SUFFICES ASSUME NEW b \in agents, disabled'[b]
               PROVE  Serving(b)' = {} /\ agentStatus'[b] # "online"
    BY DEF DisabledServesNobody
  <2>1. CASE b = a
    <3>1. \A c \in Convs : IsOpen(c)' => owner'[c] # a
      BY <1>2 DEF Serving, IsOpen
    <3>2. QED
      BY <1>1, <2>1, <3>1 DEF Serving, TypeOK
  <2>2. CASE b # a
    <3>1. disabled[b] /\ b \notin Candidates
      BY <2>2, CandidatesAvailable
    <3>2. Serving(b) = {} /\ agentStatus[b] # "online"
      BY <3>1 DEF OwnershipInv, DisabledServesNobody
    <3>3. \A c \in Convs : IsOpen(c)' => owner'[c] # b
      BY <1>2, <2>2, <3>1, <3>2, NoAgentIsNobody DEF Serving, IsOpen, TypeOK
    <3>4. QED
      BY <1>1, <2>2, <3>2, <3>3 DEF Serving, TypeOK
  <2>3. QED
    BY <2>1, <2>2
<1>5. Unborn'
  BY <1>2 DEF OwnershipInv, Unborn, Serving, IsOpen
<1>6. QED
  BY <1>2, <1>3, <1>4, <1>5 DEF OwnershipInv

LEMMA OwnershipStep == TypeOK /\ OwnershipInv /\ [Next]_vars => OwnershipInv'
<1> SUFFICES ASSUME TypeOK, OwnershipInv, [Next]_vars PROVE OwnershipInv'
  OBVIOUS
<1> USE DEF agentVars, convVars, settings
<1>1. CASE UNCHANGED vars
  BY <1>1 DEF vars, OwnershipInv, OwnerMatchesStatus, OwnerRegistered,
              DisabledServesNobody, Unborn, Serving, IsOpen
<1>2. ASSUME NEW a \in Agents, NEW m \in Limits, CreateAgent(a, m)
      PROVE  OwnershipInv'
  BY <1>2 DEF CreateAgent, OwnershipInv, OwnerMatchesStatus, OwnerRegistered,
              DisabledServesNobody, Unborn, Serving, IsOpen, TypeOK
<1>3. ASSUME NEW a \in Agents, NEW s \in AgentStatuses, SetAgentStatus(a, s)
      PROVE  OwnershipInv'
  <2>1. CASE s = "offline"
    <3>1. ReleaseConversations(a, {})
      BY <1>3, <2>1 DEF SetAgentStatus
    <3>2. QED
      BY <1>3, <2>1, <3>1, ReleaseKeepsInv DEF SetAgentStatus
  <2>2. CASE s = "online"
    <3>1. /\ a \in agents /\ ~disabled[a]
          /\ agentStatus' = [agentStatus EXCEPT ![a] = "online"]
          /\ UNCHANGED <<agents, disabled, lastID>>
      BY <1>3, <2>2 DEF SetAgentStatus
    <3>2. PICK T \in SUBSET Pickable :
            /\ owner' = [c \in Convs |-> IF c \in T THEN a ELSE owner[c]]
            /\ convStatus' = [c \in Convs |-> IF c \in T THEN "assigned" ELSE convStatus[c]]
      BY <1>3, <2>2 DEF SetAgentStatus, PickUpWaiting
    <3>3. OwnerMatchesStatus'
      BY <3>2, NoAgentIsNobody DEF OwnershipInv, OwnerMatchesStatus
    <3>4. OwnerRegistered'
      BY <3>1, <3>2 DEF OwnershipInv, OwnerRegistered
    <3>5. DisabledServesNobody'
      BY <3>1, <3>2 DEF OwnershipInv, DisabledServesNobody, Serving, IsOpen, Pickable, TypeOK
    <3>6. Unborn'
      BY <3>1, <3>2 DEF OwnershipInv, Unborn, Pickable
    <3>7. QED
      BY <3>3, <3>4, <3>5, <3>6 DEF OwnershipInv
  <2>3. CASE s = "busy"
    BY <1>3, <2>3 DEF SetAgentStatus, OwnershipInv, OwnerMatchesStatus, OwnerRegistered,
                      DisabledServesNobody, Unborn, Serving, IsOpen, TypeOK
  <2>4. QED
    BY <2>1, <2>2, <2>3 DEF AgentStatuses
<1>4. ASSUME NEW a \in Agents, NEW m \in Limits \cup {NoLimit},
             NEW s \in AgentStatuses \cup {""}, UpdateAgent(a, m, s)
      PROVE  OwnershipInv'
  BY <1>4, ZenonT(60) DEF UpdateAgent, OwnershipInv, OwnerMatchesStatus, OwnerRegistered,
              DisabledServesNobody, Unborn, Serving, IsOpen, TypeOK
<1>5. ASSUME NEW a \in Agents, DisableAgent(a) PROVE OwnershipInv'
  BY <1>5, ReleaseKeepsInv DEF DisableAgent, TypeOK
<1>6. ASSUME NEW a \in Agents, DeleteAgent(a) PROVE OwnershipInv'
  <2> DEFINE F == {c \in Convs : owner[c] = a}
  <2>1. ReleaseConversations(a, F) /\ F \in SUBSET {c \in Convs : owner[c] = a}
    BY <1>6 DEF DeleteAgent
  <2> HIDE DEF F
  <2>2. /\ OwnerMatchesStatus'
        /\ \A c \in Convs : \/ owner'[c] = owner[c]
                            \/ owner[c] = a /\ owner'[c] = NoAgent
                            \/ c \in Serving(a) /\ owner'[c] \in Candidates \ {a}
        /\ \A c \in Serving(a) \cup F : owner'[c] # a
        /\ \A c \in Convs \ Serving(a) : convStatus'[c] = convStatus[c]
    BY <2>1, ReleaseOwnership
  <2>3. \A c \in Convs : owner'[c] # a
    BY <2>2 DEF F
  <2>4. /\ agents' = agents \ {a} /\ lastID' = lastID
        /\ \A b \in agents' : disabled'[b] = disabled[b] /\ agentStatus'[b] = agentStatus[b]
    BY <1>6 DEF DeleteAgent, TypeOK
  <2>5. OwnerRegistered'
    BY <2>2, <2>3, <2>4, CandidatesAvailable DEF OwnershipInv, OwnerRegistered
  <2>6. DisabledServesNobody'
    <3> SUFFICES ASSUME NEW b \in agents', disabled'[b]
                 PROVE  Serving(b)' = {} /\ agentStatus'[b] # "online"
      BY DEF DisabledServesNobody
    <3>1. b \in agents /\ b # a /\ disabled[b] /\ b \notin Candidates
      BY <2>4, CandidatesAvailable
    <3>2. Serving(b) = {} /\ agentStatus[b] # "online"
      BY <3>1 DEF OwnershipInv, DisabledServesNobody
    <3>3. \A c \in Convs : IsOpen(c)' => owner'[c] # b
      BY <2>2, <3>1, <3>2, NoAgentIsNobody DEF Serving, IsOpen, TypeOK
    <3>4. QED
      BY <2>4, <3>2, <3>3 DEF Serving
  <2>7. Unborn'
    BY <2>2, <2>4 DEF OwnershipInv, Unborn, Serving, IsOpen
  <2>8. QED
    BY <2>2, <2>5, <2>6, <2>7 DEF OwnershipInv
<1>7. ASSUME NEW c \in Convs, NEW kind \in TextKinds, NEW t \in BOOLEAN,
             AddVisitorMessage(c, kind, t)
      PROVE  OwnershipInv'
  <2>1. UNCHANGED agentVars /\ lastID' = lastID /\ IsOpen(c)
    BY <1>7 DEF AddVisitorMessage
  <2>2. CASE AssignConversation(c, StatusUnassigned("human_requested")) /\ owner[c] = NoAgent
    <3>1. StatusUnassigned("human_requested") \in {"waiting", "human_requested", "ai_serving"}
      BY DEF StatusUnassigned
    <3>2. OwnerMatchesStatus' /\ OwnerRegistered' /\ DisabledServesNobody'
      BY <2>1, <2>2, <3>1, AssignOwnership
    <3>3. \A d \in Convs \ {c} : convStatus'[d] = convStatus[d]
      BY <2>2 DEF AssignConversation, TypeOK
    <3>4. Unborn'
      BY <2>1, <3>3 DEF OwnershipInv, Unborn, IsOpen
    <3>5. QED
      BY <3>2, <3>4 DEF OwnershipInv
  <2>3. CASE /\ owner[c] # NoAgent
             /\ convStatus' = [convStatus EXCEPT ![c] = "assigned"]
             /\ UNCHANGED owner
    BY <2>1, <2>3 DEF OwnershipInv, OwnerMatchesStatus, OwnerRegistered,
              DisabledServesNobody, Unborn, Serving, IsOpen, TypeOK
  <2>4. CASE /\ convStatus' \in {convStatus, [convStatus EXCEPT ![c] = "ai_serving"]}
             /\ UNCHANGED owner
    BY <2>1, <2>4 DEF OwnershipInv, OwnerMatchesStatus, OwnerRegistered,
              DisabledServesNobody, Unborn, Serving, IsOpen, TypeOK
  <2>5. QED
    BY <1>7, <2>2, <2>3, <2>4 DEF AddVisitorMessage, AskForHuman
<1>8. ASSUME NEW c \in Convs, AddAIMessage(c) PROVE OwnershipInv'
  BY <1>8 DEF AddAIMessage, OwnershipInv, OwnerMatchesStatus, OwnerRegistered,
              DisabledServesNobody, Unborn, Serving, IsOpen, TypeOK
<1>9. ASSUME NEW c \in Convs, NEW a \in Agents, AddAgentMessage(a, c)
      PROVE  OwnershipInv'
  BY <1>9, NoAgentIsNobody
     DEF AddAgentMessage, OwnershipInv, OwnerMatchesStatus, OwnerRegistered,
         DisabledServesNobody, Unborn, Serving, IsOpen, TypeOK
<1>10. ASSUME NEW c \in Convs, EscalateNoReplyToAI(c) PROVE OwnershipInv'
  BY <1>10 DEF EscalateNoReplyToAI, OwnershipInv, OwnerMatchesStatus, OwnerRegistered,
               DisabledServesNobody, Unborn, Serving, IsOpen, TypeOK
<1>11. ASSUME NEW t \in BOOLEAN, CreateVisitorConversation(t) PROVE OwnershipInv'
  <2> DEFINE c == lastID + 1
  <2>1. /\ c \in Convs /\ c > lastID /\ lastID' = c /\ lastID \in Int
        /\ UNCHANGED agentVars
    BY <1>11, BoundAssumption DEF CreateVisitorConversation, TypeOK, Convs
  <2>2. PICK s \in {"waiting", "human_requested", "ai_serving"} : AssignConversation(c, s)
    BY <1>11 DEF CreateVisitorConversation, StatusUnassigned
  <2>3. owner[c] = NoAgent
    BY <2>1 DEF OwnershipInv, Unborn, OwnerMatchesStatus
  <2>4. OwnerMatchesStatus' /\ OwnerRegistered' /\ DisabledServesNobody'
    BY <2>1, <2>2, <2>3, AssignOwnership
  <2>5. \A d \in Convs \ {c} : convStatus'[d] = convStatus[d]
    BY <2>2 DEF AssignConversation, TypeOK
  <2>6. Unborn'
    BY <2>1, <2>5, ConvsAreIntegers DEF OwnershipInv, Unborn
  <2>7. QED
    BY <2>4, <2>6 DEF OwnershipInv
<1>12. ASSUME NEW c \in Convs, NEW actor \in Actors, CloseConversation(actor, c)
       PROVE  OwnershipInv'
  BY <1>12 DEF CloseConversation, Exists, OwnershipInv, OwnerMatchesStatus, OwnerRegistered,
               DisabledServesNobody, Unborn, Serving, IsOpen, TypeOK
<1>13. ASSUME NEW c \in Convs, NEW actor \in Actors, DeleteConversation(actor, c)
       PROVE  OwnershipInv'
  BY <1>13 DEF DeleteConversation, OwnershipInv, OwnerMatchesStatus, OwnerRegistered,
               DisabledServesNobody, Unborn, Serving, IsOpen, TypeOK
<1>14. ASSUME NEW c \in Convs, NEW actor \in Actors, NEW a \in Agents,
              a \in agents, ~disabled[a], MoveConversation(actor, c, a)
       PROVE  OwnershipInv'
  BY <1>14, NoAgentIsNobody
     DEF MoveConversation, OwnershipInv, OwnerMatchesStatus, OwnerRegistered,
         DisabledServesNobody, Unborn, Serving, IsOpen, TypeOK
<1>15. CASE SettingsNext
  BY <1>15 DEF SettingsNext, UpdateAISettings, UpdateBusinessHours, OwnershipInv,
       OwnerMatchesStatus, OwnerRegistered, DisabledServesNobody, Unborn, Serving, IsOpen
<1>16. CASE AgentNext
  BY <1>2, <1>3, <1>4, <1>5, <1>6, <1>16 DEF AgentNext
<1>17. CASE MessageNext
  BY <1>7, <1>8, <1>9, <1>10, <1>17 DEF MessageNext
<1>18. CASE ConversationNext
  BY <1>11, <1>12, <1>13, <1>14, <1>18
     DEF ConversationNext, TransferToAgent, TransferToGroup, GroupCandidates, Candidates,
         MayTransferTo, TypeOK
<1>19. QED
  BY <1>1, <1>15, <1>16, <1>17, <1>18 DEF Next

\* Owners and statuses agree, owners are registered and disabled agents serve
\* nobody, in every reachable state of the store.
THEOREM OwnershipCorrect == Spec => [](OwnerMatchesStatus /\ OwnersCanServe)
<1>1. Init => TypeOK /\ OwnershipInv
  BY TypeInit, OwnershipInit
<1>2. TypeOK /\ OwnershipInv /\ [Next]_vars => (TypeOK /\ OwnershipInv)'
  BY TypeStep, OwnershipStep
<1>3. OwnershipInv => OwnerMatchesStatus /\ OwnersCanServe
  BY DEF OwnershipInv, OwnersCanServe
<1>4. QED
  BY <1>1, <1>2, <1>3, PTL DEF Spec

\* An assigned conversation has an agent, every owner is registered, and disabling or
\* deleting an agent leaves it nobody to serve.
THEOREM OwnersServe == Spec => []OwnersCanServe
BY OwnershipCorrect, PTL

-----------------------------------------------------------------------------
(* The counter dispatch relies on *)

\* Agent a's counter against its open conversations.
Counted(a) ==
  /\ current[a] <= Load(a)
  /\ ~reclosed => current[a] = Load(a)

CounterInv == \A a \in Agents : Counted(a)

\* An agent that receives the conversations T.
LEMMA GrewCounted ==
  ASSUME TypeOK, NEW b \in Agents, Counted(b), NEW T \in SUBSET Convs,
         T \cap Serving(b) = {}, Serving(b)' = Serving(b) \cup T,
         current'[b] = current[b] + Cardinality(T), reclosed' = reclosed
  PROVE  Counted(b)'
<1>1. Serving(b) \in SUBSET Convs
  BY DEF Serving
<1>2. /\ Cardinality(Serving(b) \cup T) = Cardinality(Serving(b)) + Cardinality(T)
      /\ Cardinality(Serving(b)) \in Nat /\ Cardinality(T) \in Nat
  BY <1>1, CountUnion, ConvSetFinite
<1>3. current[b] \in Nat
  BY DEF TypeOK
<1>4. QED
  BY <1>2, <1>3 DEF Counted, Load

\* An agent that gains and loses nothing.
LEMMA SameCounted ==
  ASSUME NEW b \in Agents, Counted(b), Serving(b)' = Serving(b),
         current'[b] = current[b], reclosed' = reclosed
  PROVE  Counted(b)'
BY DEF Counted, Load

\* An agent that gives up the open conversation c.
LEMMA ShrankCounted ==
  ASSUME TypeOK, NEW b \in agents, Counted(b), NEW c \in Serving(b),
         Serving(b)' = Serving(b) \ {c}, current'[b] = Decremented(b),
         reclosed' = reclosed
  PROVE  Counted(b)'
<1>1. Serving(b) \in SUBSET Convs
  BY DEF Serving
<1>2. /\ Cardinality(Serving(b) \ {c}) = Cardinality(Serving(b)) - 1
      /\ Cardinality(Serving(b)) \in Nat /\ Cardinality(Serving(b) \ {c}) \in Nat
  BY <1>1, CountRemove, ConvSetFinite
<1>3. current[b] \in Nat
  BY DEF TypeOK
<1>4. QED
  BY <1>2, <1>3 DEF Counted, Load, Decremented

\* A step that leaves owners, counters and the set of open conversations alone.
LEMMA UndisturbedCounted ==
  ASSUME CounterInv, UNCHANGED <<owner, current, reclosed>>,
         \A c \in Convs : IsOpen(c)' <=> IsOpen(c)
  PROVE  CounterInv'
<1> SUFFICES ASSUME NEW b \in Agents PROVE Counted(b)'
  BY DEF CounterInv
<1>1. Serving(b)' = Serving(b)
  BY DEF Serving
<1>2. QED
  BY <1>1, SameCounted DEF CounterInv

\* Dispatching a conversation nobody owns.
LEMMA AssignCounted ==
  ASSUME TypeOK, CounterInv, NEW c \in Convs, owner[c] = NoAgent,
         NEW s \in {"waiting", "human_requested", "ai_serving"},
         AssignConversation(c, s), reclosed' = reclosed
  PROVE  CounterInv'
<1> SUFFICES ASSUME NEW b \in Agents PROVE Counted(b)'
  BY DEF CounterInv
<1>1. Counted(b)
  BY DEF CounterInv
<1>2. CASE \E a \in Candidates :
             /\ current' = [current EXCEPT ![a] = @ + 1]
             /\ owner' = [owner EXCEPT ![c] = a]
             /\ convStatus' = [convStatus EXCEPT ![c] = "assigned"]
  <2>1. PICK a \in Candidates :
             /\ current' = [current EXCEPT ![a] = @ + 1]
             /\ owner' = [owner EXCEPT ![c] = a]
             /\ convStatus' = [convStatus EXCEPT ![c] = "assigned"]
    BY <1>2
  <2>2. CASE b = a
    <3>1. c \notin Serving(b)
      BY NoAgentIsNobody DEF Serving
    <3>2. Serving(b)' = Serving(b) \cup {c}
      BY <2>1, <2>2 DEF Serving, IsOpen, TypeOK
    <3>3. Cardinality({c}) = 1
      BY FS_Singleton
    <3>4. current'[b] = current[b] + 1
      BY <2>1, <2>2 DEF TypeOK
    <3>5. QED
      BY <1>1, <3>1, <3>2, <3>3, <3>4, GrewCounted
  <2>3. CASE b # a
    <3>1. Serving(b)' = Serving(b)
      BY <2>1, <2>3, NoAgentIsNobody DEF Serving, IsOpen, TypeOK
    <3>2. current'[b] = current[b]
      BY <2>1, <2>3 DEF TypeOK
    <3>3. QED
      BY <1>1, <3>1, <3>2, SameCounted
  <2>4. QED
    BY <2>2, <2>3
<1>3. CASE /\ convStatus' = [convStatus EXCEPT ![c] = s]
           /\ UNCHANGED <<current, owner>>
  <2>1. Serving(b)' = Serving(b)
    BY <1>3, NoAgentIsNobody DEF Serving, IsOpen, TypeOK
  <2>2. QED
    BY <1>1, <1>3, <2>1, SameCounted
<1>4. QED
  BY <1>2, <1>3 DEF AssignConversation

\* Handing out the conversations of an agent whose counter is reset.
LEMMA ReleaseCounted ==
  ASSUME TypeOK, CounterInv, NEW a \in Agents, NEW Forget \in SUBSET Convs,
         \A c \in Forget : owner[c] = a,
         ReleaseConversations(a, Forget), reclosed' = reclosed
  PROVE  CounterInv'
<1> SUFFICES ASSUME NEW b \in Agents PROVE Counted(b)'
  BY DEF CounterInv
<1>1. PICK dest \in [Serving(a) -> (Candidates \ {a}) \cup {NoAgent}] :
        /\ owner' = [c \in Convs |-> IF c \in Serving(a) THEN dest[c]
                                     ELSE IF c \in Forget THEN NoAgent
                                     ELSE owner[c]]
        /\ convStatus' = [c \in Convs |->
                            IF c \notin Serving(a) THEN convStatus[c]
                            ELSE IF dest[c] # NoAgent THEN "assigned"
                            ELSE IF AIActive THEN "ai_serving"
                            ELSE StatusUnassigned("waiting")]
        /\ current' = [d \in Agents |->
                         IF d = a THEN 0 ELSE LoadAfter(dest, Serving(a), d)]
  BY DEF ReleaseConversations
<1>2. /\ Serving(a) \in SUBSET Convs
      /\ \A c \in Serving(a) : IsOpen(c) /\ owner[c] = a
      /\ a # NoAgent /\ b # NoAgent
  BY NoAgentIsNobody DEF Serving
<1>3. \A c \in Convs : IsOpen(c)' <=> IsOpen(c)
  BY <1>1, <1>2 DEF IsOpen, StatusUnassigned
<1>4. CASE b = a
  <2>1. \A c \in Convs : IsOpen(c) => owner'[c] # a
    BY <1>1, <1>2 DEF Serving
  <2>2. Serving(b)' = {}
    BY <1>3, <1>4, <2>1 DEF Serving
  <2>3. Load(b)' = 0
    BY <2>2, FS_EmptySet DEF Load
  <2>4. current'[b] = 0
    BY <1>1, <1>4
  <2>5. QED
    BY <2>3, <2>4 DEF Counted
<1>5. CASE b # a
  <2> DEFINE T == Received(dest, Serving(a), b)
  <2>1. T \in SUBSET Convs /\ T \cap Serving(b) = {}
    BY <1>2, <1>5 DEF Received, Serving
  <2>2. \A c \in Convs : (IsOpen(c) /\ owner'[c] = b) <=> (c \in Serving(b) \/ c \in T)
    BY <1>1, <1>2, <1>5 DEF Received, Serving
  <2>3. Serving(b)' = Serving(b) \cup T
    BY <1>3, <2>1, <2>2 DEF Serving
  <2>4. current'[b] = current[b] + Cardinality(T)
    BY <1>1, <1>5 DEF LoadAfter
  <2>5. Counted(b)
    BY DEF CounterInv
  <2> HIDE DEF T
  <2>6. QED
    BY <2>1, <2>3, <2>4, <2>5, GrewCounted
<1>6. QED
  BY <1>4, <1>5

LEMMA CounterInit == Init => CounterInv
<1> SUFFICES ASSUME Init, NEW a \in Agents PROVE Counted(a)
  BY DEF CounterInv
<1>1. Serving(a) = {}
  BY DEF Init, Serving, IsOpen
<1>2. Load(a) = 0
  BY <1>1, FS_EmptySet DEF Load
<1>3. QED
  BY <1>2 DEF Init, Counted

LEMMA CounterStep == TypeOK /\ OwnershipInv /\ CounterInv /\ [Next]_vars => CounterInv'
<1> SUFFICES ASSUME TypeOK, OwnershipInv, CounterInv, [Next]_vars PROVE CounterInv'
  OBVIOUS
<1> USE DEF agentVars, convVars, settings
<1>1. CASE UNCHANGED vars
  BY <1>1, UndisturbedCounted DEF vars, IsOpen
<1>2. ASSUME NEW a \in Agents, NEW m \in Limits, CreateAgent(a, m)
      PROVE  CounterInv'
  <2> SUFFICES ASSUME NEW b \in Agents PROVE Counted(b)'
    BY DEF CounterInv
  <2>1. Serving(b)' = Serving(b)
    BY <1>2 DEF CreateAgent, Serving, IsOpen
  <2>2. CASE b = a
    <3>1. Serving(b) = {}
      BY <1>2, <2>2, NoAgentIsNobody
         DEF CreateAgent, OwnershipInv, OwnerRegistered, Serving
    <3>2. Load(b)' = 0
      BY <2>1, <3>1, FS_EmptySet DEF Load
    <3>3. current'[b] = 0
      BY <1>2, <2>2 DEF CreateAgent, TypeOK
    <3>4. QED
      BY <3>2, <3>3 DEF Counted
  <2>3. CASE b # a
    BY <1>2, <2>1, <2>3, SameCounted DEF CreateAgent, CounterInv, TypeOK
  <2>4. QED
    BY <2>2, <2>3
<1>3. ASSUME NEW a \in Agents, NEW s \in AgentStatuses, SetAgentStatus(a, s)
      PROVE  CounterInv'
  <2>1. reclosed' = reclosed
    BY <1>3 DEF SetAgentStatus
  <2>2. CASE ReleaseConversations(a, {})
    BY <2>1, <2>2, ReleaseCounted
  <2>3. CASE PickUpWaiting(a)
    <3>1. PICK T \in SUBSET Pickable :
            /\ owner' = [c \in Convs |-> IF c \in T THEN a ELSE owner[c]]
            /\ convStatus' = [c \in Convs |-> IF c \in T THEN "assigned" ELSE convStatus[c]]
            /\ current' = [current EXCEPT ![a] = @ + Cardinality(T)]
      BY <2>3 DEF PickUpWaiting
    <3>2. /\ T \in SUBSET Convs
          /\ \A c \in T : IsOpen(c) /\ owner[c] = NoAgent
      BY DEF Pickable, OwnershipInv, OwnerMatchesStatus, IsOpen
    <3>3. \A c \in Convs : IsOpen(c)' <=> IsOpen(c)
      BY <3>1, <3>2 DEF IsOpen
    <3> SUFFICES ASSUME NEW b \in Agents PROVE Counted(b)'
      BY DEF CounterInv
    <3>4. Counted(b)
      BY DEF CounterInv
    <3>5. CASE b = a
      <4>1. T \cap Serving(b) = {}
        BY <3>2, NoAgentIsNobody DEF Serving
      <4>2. Serving(b)' = Serving(b) \cup T
        BY <3>1, <3>2, <3>3, <3>5 DEF Serving
      <4>3. current'[b] = current[b] + Cardinality(T)
        BY <3>1, <3>5 DEF TypeOK
      <4>4. QED
        BY <2>1, <3>2, <3>4, <4>1, <4>2, <4>3, GrewCounted
    <3>6. CASE b # a
      <4>1. Serving(b)' = Serving(b)
        BY <3>1, <3>2, <3>3, <3>6, NoAgentIsNobody DEF Serving
      <4>2. current'[b] = current[b]
        BY <3>1, <3>6 DEF TypeOK
      <4>3. QED
        BY <2>1, <3>4, <4>1, <4>2, SameCounted
    <3>7. QED
      BY <3>5, <3>6
  <2>4. CASE UNCHANGED <<owner, convStatus, current>>
    BY <2>1, <2>4, UndisturbedCounted DEF IsOpen
  <2>5. QED
    BY <1>3, <2>2, <2>3, <2>4 DEF SetAgentStatus
<1>4. ASSUME NEW a \in Agents, NEW m \in Limits \cup {NoLimit},
             NEW s \in AgentStatuses \cup {""}, UpdateAgent(a, m, s)
      PROVE  CounterInv'
  BY <1>4, UndisturbedCounted DEF UpdateAgent, IsOpen
<1>5. ASSUME NEW a \in Agents, DisableAgent(a) PROVE CounterInv'
  BY <1>5, ReleaseCounted DEF DisableAgent
<1>6. ASSUME NEW a \in Agents, DeleteAgent(a) PROVE CounterInv'
  BY <1>6, ReleaseCounted DEF DeleteAgent
<1>7. ASSUME NEW c \in Convs, NEW kind \in TextKinds, NEW t \in BOOLEAN,
             AddVisitorMessage(c, kind, t)
      PROVE  CounterInv'
  <2>1. reclosed' = reclosed /\ IsOpen(c)
    BY <1>7 DEF AddVisitorMessage
  <2>2. CASE AssignConversation(c, StatusUnassigned("human_requested")) /\ owner[c] = NoAgent
    <3>1. StatusUnassigned("human_requested") \in {"waiting", "human_requested", "ai_serving"}
      BY DEF StatusUnassigned
    <3>2. QED
      BY <2>1, <2>2, <3>1, AssignCounted
  <2>3. CASE /\ UNCHANGED <<owner, current>>
             /\ \/ convStatus' = convStatus
                \/ convStatus' = [convStatus EXCEPT ![c] = "assigned"]
                \/ convStatus' = [convStatus EXCEPT ![c] = "ai_serving"]
    <3>1. \A d \in Convs : IsOpen(d)' <=> IsOpen(d)
      BY <2>1, <2>3 DEF IsOpen, TypeOK
    <3>2. QED
      BY <2>1, <2>3, <3>1, UndisturbedCounted
  <2>4. QED
    BY <1>7, <2>2, <2>3 DEF AddVisitorMessage, AskForHuman
<1>8. ASSUME NEW c \in Convs, AddAIMessage(c) PROVE CounterInv'
  <2>1. \A d \in Convs : IsOpen(d)' <=> IsOpen(d)
    BY <1>8 DEF AddAIMessage, IsOpen, TypeOK
  <2>2. QED
    BY <1>8, <2>1, UndisturbedCounted DEF AddAIMessage
<1>9. ASSUME NEW c \in Convs, NEW a \in Agents, AddAgentMessage(a, c)
      PROVE  CounterInv'
  <2>1. \A d \in Convs : IsOpen(d)' <=> IsOpen(d)
    BY <1>9 DEF AddAgentMessage, IsOpen, TypeOK
  <2>2. QED
    BY <1>9, <2>1, UndisturbedCounted DEF AddAgentMessage
<1>10. ASSUME NEW c \in Convs, EscalateNoReplyToAI(c) PROVE CounterInv'
  <2>1. \A d \in Convs : IsOpen(d)' <=> IsOpen(d)
    BY <1>10 DEF EscalateNoReplyToAI, IsOpen, TypeOK
  <2>2. QED
    BY <1>10, <2>1, UndisturbedCounted DEF EscalateNoReplyToAI
<1>11. ASSUME NEW t \in BOOLEAN, CreateVisitorConversation(t) PROVE CounterInv'
  <2> DEFINE c == lastID + 1
  <2>1. c \in Convs /\ c > lastID /\ reclosed' = reclosed
    BY <1>11, BoundAssumption DEF CreateVisitorConversation, TypeOK, Convs
  <2>2. PICK s \in {"waiting", "human_requested", "ai_serving"} : AssignConversation(c, s)
    BY <1>11 DEF CreateVisitorConversation, StatusUnassigned
  <2>3. owner[c] = NoAgent
    BY <2>1 DEF OwnershipInv, Unborn, OwnerMatchesStatus
  <2>4. QED
    BY <2>1, <2>2, <2>3, AssignCounted
<1>12. ASSUME NEW c \in Convs, NEW actor \in Actors, CloseConversation(actor, c)
       PROVE  CounterInv'
  <2> SUFFICES ASSUME NEW b \in Agents PROVE Counted(b)'
    BY DEF CounterInv
  <2>1. Counted(b)
    BY DEF CounterInv
  <2>2. CASE b # owner[c]
    <3>1. Serving(b)' = Serving(b)
      BY <1>12, <2>2 DEF CloseConversation, Serving, IsOpen, TypeOK
    <3>2. current'[b] = current[b]
      BY <1>12, <2>2 DEF CloseConversation
    <3>3. Load(b)' = Load(b)
      BY <3>1 DEF Load
    <3>4. ~reclosed' => ~reclosed
      BY <1>12 DEF CloseConversation
    <3>5. QED
      BY <2>1, <3>2, <3>3, <3>4 DEF Counted
  <2>3. CASE b = owner[c] /\ IsOpen(c)
    <3>1. b \in agents /\ c \in Serving(b)
      BY <2>3, NoAgentIsNobody DEF OwnershipInv, OwnerRegistered, Serving
    <3>2. Serving(b)' = Serving(b) \ {c}
      BY <1>12, <2>3 DEF CloseConversation, Serving, IsOpen, TypeOK
    <3>3. current'[b] = Decremented(b) /\ reclosed' = reclosed
      BY <1>12, <2>3 DEF CloseConversation, IsOpen, TypeOK
    <3>4. QED
      BY <2>1, <3>1, <3>2, <3>3, ShrankCounted
  <2>4. CASE b = owner[c] /\ ~IsOpen(c)
    <3>1. convStatus[c] = "closed" /\ reclosed'
      BY <1>12, <2>4, NoAgentIsNobody DEF CloseConversation, Exists, IsOpen
    <3>2. Serving(b)' = Serving(b)
      BY <1>12, <2>4, <3>1 DEF CloseConversation, Serving, IsOpen, TypeOK
    <3>3. current'[b] = Decremented(b)
      BY <1>12, <2>4 DEF CloseConversation
    <3>4. current[b] \in Nat /\ Load(b) \in Nat
      BY ConvSetFinite DEF TypeOK, Load, Serving
    <3>5. Load(b)' = Load(b)
      BY <3>2 DEF Load
    <3>6. QED
      BY <2>1, <3>1, <3>3, <3>4, <3>5 DEF Counted, Decremented
  <2>5. QED
    BY <2>2, <2>3, <2>4
<1>13. ASSUME NEW c \in Convs, NEW actor \in Actors, DeleteConversation(actor, c)
       PROVE  CounterInv'
  <2> SUFFICES ASSUME NEW b \in Agents PROVE Counted(b)'
    BY DEF CounterInv
  <2>1. Serving(b)' = Serving(b)
    BY <1>13, NoAgentIsNobody DEF DeleteConversation, Serving, IsOpen, TypeOK
  <2>2. QED
    BY <1>13, <2>1, SameCounted DEF DeleteConversation, CounterInv
<1>14. ASSUME NEW c \in Convs, NEW actor \in Actors, NEW a \in Agents,
              MoveConversation(actor, c, a)
       PROVE  CounterInv'
  <2>1. reclosed' = reclosed /\ IsOpen(c)
    BY <1>14 DEF MoveConversation
  <2>2. CASE owner[c] = a
    BY <1>14, <2>1, <2>2, UndisturbedCounted DEF MoveConversation, IsOpen
  <2>3. CASE owner[c] # a
    <3>1. /\ current' = [b \in Agents |-> IF b = a THEN current[b] + 1
                                          ELSE IF b = owner[c] THEN Decremented(b)
                                          ELSE current[b]]
          /\ owner' = [owner EXCEPT ![c] = a]
          /\ convStatus' = [convStatus EXCEPT ![c] = "assigned"]
      BY <1>14, <2>3 DEF MoveConversation
    <3>2. \A d \in Convs : IsOpen(d)' <=> IsOpen(d)
      BY <2>1, <3>1 DEF IsOpen, TypeOK
    <3> SUFFICES ASSUME NEW b \in Agents PROVE Counted(b)'
      BY DEF CounterInv
    <3>3. Counted(b)
      BY DEF CounterInv
    <3>4. CASE b = a
      <4>1. {c} \cap Serving(b) = {}
        BY <2>3, <3>4 DEF Serving
      <4>2. Serving(b)' = Serving(b) \cup {c}
        BY <2>1, <3>1, <3>2, <3>4 DEF Serving, TypeOK
      <4>3. Cardinality({c}) = 1
        BY FS_Singleton
      <4>4. current'[b] = current[b] + Cardinality({c})
        BY <3>1, <3>4, <4>3
      <4>5. QED
        BY <2>1, <3>3, <4>1, <4>2, <4>4, GrewCounted
    <3>5. CASE b # a /\ b = owner[c]
      <4>1. b \in agents /\ c \in Serving(b)
        BY <2>1, <3>5, NoAgentIsNobody DEF OwnershipInv, OwnerRegistered, Serving
      <4>2. Serving(b)' = Serving(b) \ {c}
        BY <3>1, <3>2, <3>5 DEF Serving, TypeOK
      <4>3. QED
        BY <2>1, <3>1, <3>3, <3>5, <4>1, <4>2, ShrankCounted
    <3>6. CASE b # a /\ b # owner[c]
      <4>1. Serving(b)' = Serving(b)
        BY <3>1, <3>2, <3>6 DEF Serving, TypeOK
      <4>2. QED
        BY <2>1, <3>1, <3>3, <3>6, <4>1, SameCounted
    <3>7. QED
      BY <3>4, <3>5, <3>6
  <2>4. QED
    BY <2>2, <2>3
<1>15. CASE SettingsNext
  BY <1>15, UndisturbedCounted DEF SettingsNext, UpdateAISettings, UpdateBusinessHours, IsOpen
<1>16. CASE AgentNext
  BY <1>2, <1>3, <1>4, <1>5, <1>6, <1>16 DEF AgentNext
<1>17. CASE MessageNext
  BY <1>7, <1>8, <1>9, <1>10, <1>17 DEF MessageNext
<1>18. CASE ConversationNext
  BY <1>11, <1>12, <1>13, <1>14, <1>18
     DEF ConversationNext, TransferToAgent, TransferToGroup, GroupCandidates, Candidates, TypeOK
<1>19. QED
  BY <1>1, <1>15, <1>16, <1>17, <1>18 DEF Next

\* The counter never exceeds the conversations the agent has, and differs from
\* them only after a closed conversation was closed again.
THEOREM CounterCorrect == Spec => []CounterMatchesLoad
<1>1. Init => TypeOK /\ OwnershipInv /\ CounterInv
  BY TypeInit, OwnershipInit, CounterInit
<1>2. TypeOK /\ OwnershipInv /\ CounterInv /\ [Next]_vars
        => (TypeOK /\ OwnershipInv /\ CounterInv)'
  BY TypeStep, OwnershipStep, CounterStep
<1>3. CounterInv => CounterMatchesLoad
  BY DEF CounterInv, Counted, CounterMatchesLoad, CounterNeverAboveLoad, CounterExactUnlessReclosed
<1>4. QED
  BY <1>1, <1>2, <1>3, PTL DEF Spec

-----------------------------------------------------------------------------
(* What a step may never do *)

\* The release loop touches open conversations and those it is told to forget.
LEMMA ReleaseSparesClosed ==
  ASSUME TypeOK, NEW a \in Agents, NEW Forget, ReleaseConversations(a, Forget),
         NEW c \in Convs, convStatus[c] = "closed"
  PROVE  /\ convStatus'[c] = "closed"
         /\ owner'[c] = IF c \in Forget THEN NoAgent ELSE owner[c]
<1>1. c \notin Serving(a)
  BY DEF Serving, IsOpen
<1>2. QED
  BY <1>1 DEF ReleaseConversations

LEMMA ClosedStep == TypeOK /\ OwnershipInv /\ Next => \A c \in Convs : ClosedStays(c)
<1> SUFFICES ASSUME TypeOK, OwnershipInv, Next, NEW c \in Convs, convStatus[c] = "closed"
             PROVE  ClosedStays(c)
  BY DEF ClosedStays
<1> USE DEF agentVars, convVars, settings
<1>1. CASE convStatus'[c] = "closed" /\ owner'[c] = owner[c]
  BY <1>1 DEF ClosedStays
<1>2. ASSUME NEW a \in Agents, NEW s \in AgentStatuses, SetAgentStatus(a, s)
      PROVE  ClosedStays(c)
  <2>1. CASE ReleaseConversations(a, {})
    BY <1>1, <2>1, ReleaseSparesClosed
  <2>2. CASE PickUpWaiting(a)
    BY <1>1, <2>2 DEF PickUpWaiting, Pickable
  <2>3. CASE UNCHANGED <<owner, convStatus, current>>
    BY <1>1, <2>3
  <2>4. QED
    BY <1>2, <2>1, <2>2, <2>3 DEF SetAgentStatus
<1>3. ASSUME NEW a \in Agents, DisableAgent(a) PROVE ClosedStays(c)
  BY <1>1, <1>3, ReleaseSparesClosed DEF DisableAgent
<1>4. ASSUME NEW a \in Agents, DeleteAgent(a) PROVE ClosedStays(c)
  <2>1. /\ convStatus'[c] = "closed"
        /\ owner'[c] = IF c \in {d \in Convs : owner[d] = a} THEN NoAgent ELSE owner[c]
    BY <1>4, ReleaseSparesClosed DEF DeleteAgent
  <2>2. agents' = agents \ {a}
    BY <1>4 DEF DeleteAgent
  <2>3. QED
    BY <2>1, <2>2 DEF ClosedStays
<1>5. CASE AgentNext
  BY <1>1, <1>2, <1>3, <1>4, <1>5 DEF AgentNext, CreateAgent, UpdateAgent
<1>6. ASSUME NEW d \in Convs, NEW s, AssignConversation(d, s), d # c
      PROVE  ClosedStays(c)
  BY <1>1, <1>6 DEF AssignConversation, TypeOK
<1>7. CASE MessageNext
  <2>1. PICK d \in Convs :
          \/ \E kind \in TextKinds, t \in BOOLEAN : AddVisitorMessage(d, kind, t)
          \/ AddAIMessage(d)
          \/ \E a \in Agents : AddAgentMessage(a, d)
          \/ EscalateNoReplyToAI(d)
    BY <1>7 DEF MessageNext
  <2>2. d # c
    BY <2>1 DEF AddVisitorMessage, AddAIMessage, AddAgentMessage, EscalateNoReplyToAI, IsOpen
  <2>3. CASE \E s : AssignConversation(d, s)
    BY <1>6, <2>2, <2>3
  <2>4. CASE UNCHANGED owner /\ \A e \in Convs \ {d} : convStatus'[e] = convStatus[e]
    BY <1>1, <2>2, <2>4
  <2>5. QED
    BY <2>1, <2>3, <2>4
       DEF AddVisitorMessage, AskForHuman, AddAIMessage, AddAgentMessage,
           EscalateNoReplyToAI, TypeOK
<1>8. ASSUME NEW t \in BOOLEAN, CreateVisitorConversation(t) PROVE ClosedStays(c)
  <2>1. lastID + 1 \in Convs /\ lastID + 1 # c
    BY <1>8, BoundAssumption
       DEF CreateVisitorConversation, Convs, TypeOK, OwnershipInv, Unborn
  <2>2. \E s : AssignConversation(lastID + 1, s)
    BY <1>8 DEF CreateVisitorConversation
  <2>3. QED
    BY <1>6, <2>1, <2>2
<1>9. ASSUME NEW d \in Convs, NEW actor \in Actors,
             CloseConversation(actor, d) \/ DeleteConversation(actor, d)
      PROVE  ClosedStays(c)
  BY <1>9 DEF CloseConversation, DeleteConversation, ClosedStays, TypeOK
<1>10. ASSUME NEW d \in Convs, NEW actor \in Actors, NEW a, MoveConversation(actor, d, a)
       PROVE  ClosedStays(c)
  BY <1>1, <1>10 DEF MoveConversation, IsOpen, TypeOK
<1>11. CASE ConversationNext
  BY <1>8, <1>9, <1>10, <1>11 DEF ConversationNext, TransferToAgent, TransferToGroup
<1>12. CASE SettingsNext
  BY <1>1, <1>12 DEF SettingsNext, UpdateAISettings, UpdateBusinessHours
<1>13. QED
  BY <1>5, <1>7, <1>11, <1>12 DEF Next

\* No step of the store, in any order of calls, reopens a closed conversation.
THEOREM ClosedForever == Spec => ClosedIsFinal
<1>1. Init => TypeOK /\ OwnershipInv
  BY TypeInit, OwnershipInit
<1>2. TypeOK /\ OwnershipInv /\ [Next]_vars => (TypeOK /\ OwnershipInv)'
  BY TypeStep, OwnershipStep
<1>3. TypeOK /\ OwnershipInv /\ [Next]_vars => [\A c \in Convs : ClosedStays(c)]_vars
  BY ClosedStep
<1>4. QED
  BY <1>1, <1>2, <1>3, PTL DEF Spec, ClosedIsFinal

\* What the release loop gives to an agent fits below the agent's maximum.
LEMMA ReleaseWithinLimits ==
  ASSUME TypeOK, NEW a \in Agents, NEW Forget, ReleaseConversations(a, Forget),
         NEW c \in Convs, NEW b \in Agents, owner'[c] = b, owner[c] # b
  PROVE  b \in Candidates /\ b # a /\ current'[b] <= maxConv[b]
<1>1. PICK dest \in [Serving(a) -> (Candidates \ {a}) \cup {NoAgent}] :
        /\ GreedyDispatch(dest, Serving(a), Candidates \ {a})
        /\ owner' = [d \in Convs |-> IF d \in Serving(a) THEN dest[d]
                                     ELSE IF d \in Forget THEN NoAgent
                                     ELSE owner[d]]
        /\ current' = [d \in Agents |->
                         IF d = a THEN 0 ELSE LoadAfter(dest, Serving(a), d)]
  BY DEF ReleaseConversations
<1>2. c \in Serving(a) /\ dest[c] = b /\ b # NoAgent
  BY <1>1, NoAgentIsNobody
<1>3. b \in Candidates \ {a}
  BY <1>1, <1>2
<1>4. LoadAfter(dest, Serving(a), b) <= maxConv[b]
  BY <1>1, <1>2, <1>3 DEF GreedyDispatch
<1>5. QED
  BY <1>1, <1>3, <1>4

LEMMA CandidateHasRoom ==
  ASSUME TypeOK, NEW a \in Candidates
  PROVE  current[a] \in Nat /\ maxConv[a] \in Nat /\ current[a] < maxConv[a]
<1>1. a \in Agents /\ current[a] < maxConv[a]
  BY DEF Candidates, TypeOK
<1>2. Limits \cup {NoLimit} \subseteq Nat
  BY LimitsAssumption DEF NoLimit
<1>3. QED
  BY <1>1, <1>2 DEF TypeOK

\* A dispatch to one agent fits below its maximum.
LEMMA AssignWithinLimits ==
  ASSUME TypeOK, NEW d \in Convs, NEW s, AssignConversation(d, s),
         NEW c \in Convs, NEW b \in Agents, owner'[c] = b, owner[c] # b
  PROVE  b \in Candidates /\ current'[b] <= maxConv[b]
<1>1. PICK a \in Candidates : /\ current' = [current EXCEPT ![a] = @ + 1]
                              /\ owner' = [owner EXCEPT ![d] = a]
  BY DEF AssignConversation
<1>2. a = b
  BY <1>1 DEF TypeOK
<1>3. current[b] \in Nat /\ maxConv[b] \in Nat /\ current[b] < maxConv[b]
  BY <1>1, <1>2, CandidateHasRoom
<1>4. current'[b] = current[b] + 1
  BY <1>1, <1>2 DEF TypeOK
<1>5. QED
  BY <1>1, <1>2, <1>3, <1>4

LEMMA LimitStep ==
  TypeOK /\ Next => \A c \in Convs, b \in Agents : Dispatched(c, b) => WithinLimits(b)'
<1> SUFFICES ASSUME TypeOK, Next, NEW c \in Convs, NEW b \in Agents, Dispatched(c, b)
             PROVE  WithinLimits(b)'
  OBVIOUS
<1> USE DEF agentVars, convVars, settings
<1>1. owner'[c] = b /\ owner[c] # b /\ ~ExplicitTransfer(c, b)
  BY DEF Dispatched
<1>2. ASSUME b \in Candidates, current'[b] <= maxConv[b], UNCHANGED agentVars
      PROVE  WithinLimits(b)'
  BY <1>2 DEF WithinLimits, Candidates
<1>3. ASSUME NEW a \in Agents, NEW s \in AgentStatuses, SetAgentStatus(a, s)
      PROVE  WithinLimits(b)'
  <2>1. CASE s = "offline"
    <3>1. b \in Candidates /\ b # a /\ current'[b] <= maxConv[b]
      BY <1>1, <1>3, <2>1, ReleaseWithinLimits DEF SetAgentStatus
    <3>2. QED
      BY <1>3, <2>1, <3>1 DEF SetAgentStatus, WithinLimits, Candidates, TypeOK
  <2>2. CASE s = "online"
    <3>1. PICK T \in SUBSET Pickable :
            /\ OldestFirst(T, a)
            /\ owner' = [d \in Convs |-> IF d \in T THEN a ELSE owner[d]]
            /\ current' = [current EXCEPT ![a] = @ + Cardinality(T)]
      BY <1>3, <2>2 DEF SetAgentStatus, PickUpWaiting
    <3>2. b = a /\ T # {}
      BY <1>1, <3>1
    <3>3. current'[a] <= maxConv[a]
      BY <3>1, <3>2 DEF OldestFirst, TypeOK
    <3>4. QED
      BY <1>3, <2>2, <3>2, <3>3 DEF SetAgentStatus, WithinLimits, TypeOK
  <2>3. CASE s = "busy"
    BY <1>1, <1>3, <2>3 DEF SetAgentStatus
  <2>4. QED
    BY <2>1, <2>2, <2>3 DEF AgentStatuses
<1>4. ASSUME NEW a \in Agents, DisableAgent(a) PROVE WithinLimits(b)'
  <2>1. b \in Candidates /\ b # a /\ current'[b] <= maxConv[b]
    BY <1>1, <1>4, ReleaseWithinLimits DEF DisableAgent
  <2>2. QED
    BY <1>4, <2>1 DEF DisableAgent, WithinLimits, Candidates, TypeOK
<1>5. ASSUME NEW a \in Agents, DeleteAgent(a) PROVE WithinLimits(b)'
  <2>1. b \in Candidates /\ b # a /\ current'[b] <= maxConv[b]
    BY <1>1, <1>5, ReleaseWithinLimits DEF DeleteAgent
  <2>2. QED
    BY <1>5, <2>1 DEF DeleteAgent, WithinLimits, Candidates, TypeOK
<1>6. CASE AgentNext
  BY <1>1, <1>3, <1>4, <1>5, <1>6 DEF AgentNext, CreateAgent, UpdateAgent
<1>7. ASSUME NEW d \in Convs, NEW s, AssignConversation(d, s), UNCHANGED agentVars
      PROVE  WithinLimits(b)'
  BY <1>1, <1>2, <1>7, AssignWithinLimits
<1>8. CASE MessageNext
  <2>1. ASSUME NEW d \in Convs, NEW kind \in TextKinds, NEW t \in BOOLEAN,
               AddVisitorMessage(d, kind, t)
        PROVE  WithinLimits(b)'
    <3>1. UNCHANGED agentVars
      BY <2>1 DEF AddVisitorMessage
    <3>2. \E s : AssignConversation(d, s)
      BY <1>1, <2>1 DEF AddVisitorMessage, AskForHuman
    <3>3. QED
      BY <1>7, <3>1, <3>2
  <2>2. QED
    BY <1>1, <1>8, <2>1
       DEF MessageNext, AddAIMessage, AddAgentMessage, EscalateNoReplyToAI
<1>9. ASSUME NEW t \in BOOLEAN, CreateVisitorConversation(t) PROVE WithinLimits(b)'
  <2>1. lastID + 1 \in Convs /\ UNCHANGED agentVars
    BY <1>9, BoundAssumption DEF CreateVisitorConversation, Convs, TypeOK
  <2>2. \E s : AssignConversation(lastID + 1, s)
    BY <1>9 DEF CreateVisitorConversation
  <2>3. QED
    BY <1>7, <2>1, <2>2
<1>10. ASSUME NEW d \in Convs, NEW actor \in Actors, NEW members \in SUBSET Agents,
              TransferToGroup(actor, d, members)
       PROVE  WithinLimits(b)'
  <2>1. PICK a \in Candidates : MoveConversation(actor, d, a)
    BY <1>10 DEF TransferToGroup, GroupCandidates
  <2>2. a = b /\ owner[d] # a
    BY <1>1, <2>1 DEF MoveConversation, TypeOK
  <2>3. current'[b] = current[b] + 1 /\ UNCHANGED agentVars
    BY <2>1, <2>2 DEF MoveConversation
  <2>4. current[b] \in Nat /\ maxConv[b] \in Nat /\ current[b] < maxConv[b]
    BY <2>1, <2>2, CandidateHasRoom
  <2>5. QED
    BY <1>2, <2>1, <2>2, <2>3, <2>4
<1>11. ASSUME NEW d \in Convs, NEW actor \in Actors, NEW a \in Agents,
              TransferToAgent(actor, d, a)
       PROVE  FALSE
  <2>1. a = b /\ d = c
    BY <1>1, <1>11 DEF TransferToAgent, MoveConversation, TypeOK
  <2>2. QED
    BY <1>1, <1>11, <2>1 DEF ExplicitTransfer
<1>12. CASE ConversationNext
  BY <1>1, <1>9, <1>10, <1>11, <1>12, NoAgentIsNobody
     DEF ConversationNext, CloseConversation, DeleteConversation, TypeOK
<1>13. CASE SettingsNext
  BY <1>1, <1>13 DEF SettingsNext, UpdateAISettings, UpdateBusinessHours
<1>14. QED
  BY <1>6, <1>8, <1>12, <1>13 DEF Next

\* Dispatch, pick-up, release and transfer to a group put a conversation only
\* on an online, enabled agent whose counter then is within its maximum.
THEOREM DispatchCorrect == Spec => DispatchWithinLimits
<1>1. TypeOK /\ [Next]_vars =>
        [\A c \in Convs, a \in Agents : Dispatched(c, a) => WithinLimits(a)']_vars
  BY LimitStep
<1>2. QED
  BY <1>1, TypeCorrect, PTL DEF Spec, DispatchWithinLimits

-----------------------------------------------------------------------------
(* The store implements Ownership *)

LEMMA LimitsAreNaturals == Limits \cup {NoLimit} \subseteq Nat
BY LimitsAssumption DEF NoLimit

\* Ownership counts as Dispatch does.
LEMMA SameCount == \A S : Store!Cardinality(S) = Cardinality(S)
BY DEF Store!Cardinality, Cardinality

\* Dispatching a conversation that has nobody is a dispatch or an idle status there.
LEMMA AssignRefines ==
  ASSUME TypeOK, NEW c \in Convs, owner[c] = NoAgent, convStatus[c] # "closed",
         NEW s \in {"waiting", "human_requested", "ai_serving"},
         s = "waiting" => convStatus[c] = "none",
         AssignConversation(c, s), UNCHANGED agentVars
  PROVE  Store!Next
<1>1. CASE \E a \in Candidates :
             /\ current' = [current EXCEPT ![a] = @ + 1]
             /\ owner' = [owner EXCEPT ![c] = a]
             /\ convStatus' = [convStatus EXCEPT ![c] = "assigned"]
  <2>1. PICK a \in Candidates :
          /\ current' = [current EXCEPT ![a] = @ + 1]
          /\ owner' = [owner EXCEPT ![c] = a]
          /\ convStatus' = [convStatus EXCEPT ![c] = "assigned"]
    BY <1>1
  <2>2. a \in Agents /\ Store!Available(a)
    BY DEF Candidates, TypeOK, Store!Available
  <2>3. Store!Dispatch(c, a)
    BY <2>1, <2>2 DEF Store!Dispatch, Store!agentVars, agentVars
  <2> QED
    BY <2>2, <2>3 DEF Store!Next
<1>2. CASE /\ convStatus' = [convStatus EXCEPT ![c] = s]
           /\ UNCHANGED <<current, owner>>
  <2>1. Store!Progress(c)
    BY <1>2 DEF Store!Progress, Store!agentVars, agentVars
  <2> QED
    BY <2>1 DEF Store!Next
<1> QED
  BY <1>1, <1>2 DEF AssignConversation

\* The release loop, whatever it forgets, is one Redispatch.
LEMMA ReleaseRefines ==
  ASSUME TypeOK, NEW a \in Agents, NEW Forget, ReleaseConversations(a, Forget),
         IF a \in agents' THEN Forget = {} ELSE Forget = {c \in Convs : owner[c] = a}
  PROVE  Store!Redispatch(a)
<1> DEFINE R == Serving(a)
           C == Candidates \ {a}
<1>1. R = Store!Serving(a) /\ R \in SUBSET Convs
  BY DEF Serving, IsOpen, Store!Serving, Store!IsOpen
<1>2. PICK dest \in [R -> C \cup {NoAgent}] :
        /\ GreedyDispatch(dest, R, C)
        /\ owner' = [c \in Convs |-> IF c \in R THEN dest[c]
                                     ELSE IF c \in Forget THEN NoAgent
                                     ELSE owner[c]]
        /\ convStatus' = [c \in Convs |->
                            IF c \notin R THEN convStatus[c]
                            ELSE IF dest[c] # NoAgent THEN "assigned"
                            ELSE IF AIActive THEN "ai_serving"
                            ELSE StatusUnassigned("waiting")]
        /\ current' = [b \in Agents |-> IF b = a THEN 0 ELSE LoadAfter(dest, R, b)]
  BY DEF ReleaseConversations
<1> DEFINE left == IF AIActive THEN "ai_serving" ELSE StatusUnassigned("waiting")
           idle == [c \in R |-> left]
<1>3. dest \in [R -> Agents \cup {NoAgent}] /\ idle \in [R -> {"waiting", "ai_serving"}]
  BY <1>2 DEF Candidates, TypeOK, StatusUnassigned
<1>4. \A b : Received(dest, R, b) = Store!Received(dest, b)
  BY <1>2 DEF Received, Store!Received
<1>5. \A c \in R : dest[c] # NoAgent => dest[c] # a /\ Store!Available(dest[c])
  BY <1>2 DEF Candidates, Store!Available
<1>6. ASSUME NEW b \in Agents \ {a}, Store!Received(dest, b) # {}
      PROVE  current[b] + Cardinality(Store!Received(dest, b)) <= maxConv[b]
  <2>1. PICK c \in R : dest[c] = b
    BY <1>4, <1>6 DEF Received
  <2>2. b # NoAgent /\ b \in C
    BY <1>2, <2>1, NoAgentIsNobody
  <2>3. LoadAfter(dest, R, b) <= maxConv[b]
    BY <1>2, <2>1, <2>2 DEF GreedyDispatch
  <2> QED
    BY <1>4, <2>3 DEF LoadAfter
<1>7. current' = [b \in Agents |->
                    IF b = a THEN 0 ELSE current[b] + Cardinality(Store!Received(dest, b))]
  BY <1>2, <1>4 DEF LoadAfter
<1>8. convStatus' = [c \in Convs |->
                       IF c \notin R THEN convStatus[c]
                       ELSE IF dest[c] = NoAgent THEN idle[c] ELSE "assigned"]
  BY <1>2
<1>9. owner' = [c \in Convs |->
                  IF c \in R THEN dest[c]
                  ELSE IF a \in agents' THEN owner[c]
                  ELSE IF owner[c] = a THEN NoAgent ELSE owner[c]]
  BY <1>2
<1>10. PICK i \in [R -> {"waiting", "ai_serving"}] :
         convStatus' = [c \in Convs |->
                          IF c \notin R THEN convStatus[c]
                          ELSE IF dest[c] = NoAgent THEN i[c] ELSE "assigned"]
  BY <1>3, <1>8
<1>11. \A b \in Agents \ {a} :
         Store!Received(dest, b) # {} =>
           current[b] + Store!Cardinality(Store!Received(dest, b)) <= maxConv[b]
  BY <1>6, SameCount
<1>12. current' = [b \in Agents |->
                     IF b = a THEN 0
                     ELSE current[b] + Store!Cardinality(Store!Received(dest, b))]
  BY <1>7, SameCount, Zenon
<1> HIDE DEF idle, R, C
<1> QED
  BY <1>1, <1>3, <1>5, <1>9, <1>10, <1>11, <1>12, ZenonT(30) DEF Store!Redispatch

LEMMA AgentStepRefines ==
  ASSUME TypeOK, OwnershipInv, TypeOK', NEW a \in Agents,
         \/ \E m \in Limits : CreateAgent(a, m)
         \/ \E s \in AgentStatuses : SetAgentStatus(a, s)
         \/ \E m \in Limits \cup {NoLimit}, s \in AgentStatuses \cup {""} : UpdateAgent(a, m, s)
         \/ DisableAgent(a)
         \/ DeleteAgent(a)
  PROVE  Store!Next
<1> USE DEF agentVars, convVars, Store!convVars
<1>0. maxConv \in [Agents -> Nat] /\ maxConv' \in [Agents -> Nat]
  BY LimitsAreNaturals DEF TypeOK
<1>1. CASE \E m \in Limits : CreateAgent(a, m)
  <2>1. Store!Register(a)
    BY <1>0, <1>1 DEF CreateAgent, Store!Register, Store!NewLimit, TypeOK
  <2> QED
    BY <2>1 DEF Store!Next
<1>2. ASSUME NEW s \in AgentStatuses, SetAgentStatus(a, s)
      PROVE  Store!Next
  <2>1. CASE s = "offline"
    <3>1. ReleaseConversations(a, {}) /\ a \in agents'
      BY <1>2, <2>1 DEF SetAgentStatus
    <3>2. Store!Redispatch(a)
      BY <3>1, ReleaseRefines
    <3>3. Store!GoOffline(a)
      BY <1>2, <2>1, <3>2 DEF SetAgentStatus, Store!GoOffline
    <3> QED
      BY <3>3 DEF Store!Next
  <2>2. CASE s = "online"
    <3>1. PICK T \in SUBSET Pickable :
            /\ OldestFirst(T, a)
            /\ owner' = [c \in Convs |-> IF c \in T THEN a ELSE owner[c]]
            /\ convStatus' = [c \in Convs |-> IF c \in T THEN "assigned" ELSE convStatus[c]]
            /\ current' = [current EXCEPT ![a] = @ + Cardinality(T)]
      BY <1>2, <2>2 DEF SetAgentStatus, PickUpWaiting
    <3>2. Store!PickUp(a)
      <4>1. T \in SUBSET {c \in Convs : convStatus[c] \in {"waiting", "human_requested"}}
        BY DEF Pickable
      <4>2. T # {} => current[a] + Cardinality(T) <= maxConv[a]
        BY <3>1 DEF OldestFirst
      <4>3. /\ a \in agents /\ ~disabled[a]
            /\ agentStatus' = [agentStatus EXCEPT ![a] = "online"]
            /\ UNCHANGED <<agents, disabled, maxConv>>
        BY <1>2, <2>2 DEF SetAgentStatus
      <4>4. /\ T # {} => current[a] + Store!Cardinality(T) <= maxConv[a]
            /\ current' = [current EXCEPT ![a] = @ + Store!Cardinality(T)]
        BY <3>1, <4>2, SameCount
      <4> QED
        BY <3>1, <4>1, <4>3, <4>4 DEF Store!PickUp
    <3> QED
      BY <3>2 DEF Store!Next
  <2>3. CASE s = "busy"
    <3>1. Store!Edit(a)
      BY <1>0, <1>2, <2>3 DEF SetAgentStatus, Store!Edit, Store!NewLimit
    <3> QED
      BY <3>1 DEF Store!Next
  <2> QED
    BY <2>1, <2>2, <2>3 DEF AgentStatuses
<1>3. ASSUME NEW m \in Limits \cup {NoLimit}, NEW s \in AgentStatuses \cup {""},
             UpdateAgent(a, m, s)
      PROVE  Store!Next
  <2>1. Store!NewLimit(a)
    BY <1>0, <1>3 DEF UpdateAgent, Store!NewLimit, TypeOK
  <2>2. PICK t \in {"online", "busy", "offline"} :
          /\ disabled[a] /\ t = "online" => agentStatus[a] = "online"
          /\ agentStatus' = [agentStatus EXCEPT ![a] = t]
    <3>1. CASE s = "" \/ (disabled[a] /\ s = "online")
      <4>1. agentStatus[a] \in {"online", "busy", "offline"}
        BY DEF TypeOK, AgentStatuses
      <4>2. agentStatus' = [agentStatus EXCEPT ![a] = agentStatus[a]]
        BY <1>3, <3>1 DEF UpdateAgent, TypeOK
      <4> QED
        BY <4>1, <4>2
    <3>2. CASE ~(s = "" \/ (disabled[a] /\ s = "online"))
      BY <1>3, <3>2 DEF UpdateAgent, AgentStatuses
    <3> QED
      BY <3>1, <3>2
  <2>3. Store!Edit(a)
    BY <1>3, <2>1, <2>2 DEF UpdateAgent, Store!Edit
  <2> QED
    BY <2>3 DEF Store!Next
<1>4. CASE DisableAgent(a)
  <2>1. Store!Redispatch(a)
    BY <1>4, ReleaseRefines DEF DisableAgent
  <2>2. Store!Disable(a)
    BY <1>4, <2>1 DEF DisableAgent, Store!Disable
  <2> QED
    BY <2>2 DEF Store!Next
<1>5. CASE DeleteAgent(a)
  <2>1. Store!Redispatch(a)
    BY <1>5, ReleaseRefines DEF DeleteAgent
  <2>2. Store!Unregister(a)
    BY <1>5, <2>1 DEF DeleteAgent, NoLimit, Store!Unregister
  <2> QED
    BY <2>2 DEF Store!Next
<1> QED
  BY <1>1, <1>2, <1>3, <1>4, <1>5

\* Messages, AI replies and timers.
LEMMA MessageStepRefines ==
  ASSUME TypeOK, OwnershipInv, MessageNext
  PROVE  [Store!Next]_(Store!vars)
<1>1. PICK c \in Convs :
        \/ \E kind \in TextKinds, t \in BOOLEAN : AddVisitorMessage(c, kind, t)
        \/ AddAIMessage(c)
        \/ \E a \in Agents : AddAgentMessage(a, c)
        \/ EscalateNoReplyToAI(c)
  BY DEF MessageNext
<1>2. /\ owner[c] \in Agents \cup {NoAgent}
      /\ convStatus[c] \in {"waiting", "human_requested"} => owner[c] = NoAgent
      /\ convStatus[c] = "assigned" => owner[c] # NoAgent
  BY DEF TypeOK, OwnershipInv, OwnerMatchesStatus
<1> SUFFICES ASSUME ~(UNCHANGED Store!vars)
             PROVE  Store!Next
  OBVIOUS
<1>3. ASSUME NEW s \in {"assigned", "ai_serving"}, convStatus[c] # "closed",
             s = "assigned" => owner[c] # NoAgent,
             convStatus' = [convStatus EXCEPT ![c] = s],
             UNCHANGED <<agentVars, current, owner>>
      PROVE  Store!Next
  <2>1. Store!Progress(c)
    BY <1>3, Zenon DEF Store!Progress, Store!agentVars, agentVars
  <2> QED
    BY <2>1 DEF Store!Next
<1>4. ASSUME convStatus' = convStatus, UNCHANGED <<agentVars, current, owner>>
      PROVE  FALSE
  BY <1>4 DEF Store!vars, agentVars
<1>5. ASSUME NEW kind \in TextKinds, NEW t \in BOOLEAN, AddVisitorMessage(c, kind, t)
      PROVE  Store!Next
  <2>1. IsOpen(c) /\ UNCHANGED agentVars
    BY <1>5 DEF AddVisitorMessage
  <2>2. CASE kind = "human_keyword" /\ AskForHuman(c)
    <3>1. CASE owner[c] # NoAgent
      BY <1>3, <2>1, <2>2, <3>1 DEF AskForHuman, IsOpen
    <3>2. CASE owner[c] = NoAgent
      <4>1. AssignConversation(c, StatusUnassigned("human_requested"))
        BY <2>2, <3>2 DEF AskForHuman
      <4>2. /\ StatusUnassigned("human_requested") \in
                 {"waiting", "human_requested", "ai_serving"}
            /\ StatusUnassigned("human_requested") # "waiting"
        BY DEF StatusUnassigned
      <4> QED
        BY <2>1, <3>2, <4>1, <4>2, AssignRefines DEF IsOpen
    <3> QED
      BY <3>1, <3>2
  <2>3. CASE kind = "keyword_rule" /\ UNCHANGED <<convStatus, owner, current>>
    BY <1>4, <2>1, <2>3
  <2>4. CASE /\ convStatus' = IF NeedsAI(c, t)
                              THEN [convStatus EXCEPT ![c] = "ai_serving"]
                              ELSE convStatus
             /\ UNCHANGED <<owner, current>>
    BY <1>3, <1>4, <2>1, <2>4 DEF IsOpen
  <2> QED
    BY <1>5, <2>2, <2>3, <2>4 DEF AddVisitorMessage
<1>6. CASE AddAIMessage(c)
  BY <1>3, <1>6 DEF AddAIMessage, IsOpen
<1>7. CASE \E a \in Agents : AddAgentMessage(a, c)
  <2>1. PICK a \in Agents : AddAgentMessage(a, c)
    BY <1>7
  <2>2. owner[c] # NoAgent
    BY <2>1, NoAgentIsNobody DEF AddAgentMessage
  <2> QED
    BY <1>3, <1>4, <2>1, <2>2 DEF AddAgentMessage, IsOpen
<1>8. CASE EscalateNoReplyToAI(c)
  BY <1>3, <1>8 DEF EscalateNoReplyToAI
<1> QED
  BY <1>1, <1>5, <1>6, <1>7, <1>8

\* A new conversation, and the end or the transfer of one.
LEMMA ConversationStepRefines ==
  ASSUME TypeOK, OwnershipInv, ConversationNext
  PROVE  [Store!Next]_(Store!vars)
<1> USE DEF agentVars, Store!agentVars
<1>1. \A b \in Agents : b \in agents => Decremented(b) = Store!Fewer(b)
  BY DEF Decremented, Store!Fewer, TypeOK
<1>2. \A c \in Convs : owner[c] \in agents \cup {NoAgent}
  BY DEF OwnershipInv, OwnerRegistered
<1>3. ASSUME NEW t \in BOOLEAN, CreateVisitorConversation(t)
      PROVE  Store!Next
  <2> DEFINE c == lastID + 1
  <2>1. c \in Convs /\ convStatus[c] = "none" /\ owner[c] = NoAgent
    <3>1. c \in Convs /\ c > lastID
      BY <1>3, BoundAssumption DEF CreateVisitorConversation, Convs, TypeOK
    <3> QED
      BY <3>1 DEF OwnershipInv, Unborn, OwnerMatchesStatus
  <2>2. PICK s \in {"waiting", "human_requested", "ai_serving"} : AssignConversation(c, s)
    BY <1>3 DEF CreateVisitorConversation, StatusUnassigned
  <2>3. UNCHANGED agentVars
    BY <1>3 DEF CreateVisitorConversation
  <2> HIDE DEF c
  <2> QED
    BY <2>1, <2>2, <2>3, AssignRefines
<1>4. ASSUME NEW c \in Convs, NEW actor \in Actors, CloseConversation(actor, c)
      PROVE  Store!Next
  <2>1. \A b \in Agents : b = owner[c] => Decremented(b) = Store!Fewer(b)
    BY <1>1, <1>2, NoAgentIsNobody
  <2>2. current' = [b \in Agents |-> IF b = owner[c] THEN Store!Fewer(b) ELSE current[b]]
    BY <1>4, <2>1 DEF CloseConversation
  <2>3. Store!Close(c)
    BY <1>4, <2>2 DEF CloseConversation, Exists, Store!Close
  <2> QED
    BY <2>3 DEF Store!Next
<1>5. ASSUME NEW c \in Convs, NEW actor \in Actors, DeleteConversation(actor, c)
      PROVE  Store!Next
  <2>1. Store!Remove(c)
    BY <1>5 DEF DeleteConversation, Store!Remove
  <2> QED
    BY <2>1 DEF Store!Next
<1>6. ASSUME NEW c \in Convs, NEW actor \in Actors, NEW a \in Agents,
             a \in agents, ~disabled[a], MoveConversation(actor, c, a)
      PROVE  Store!Next \/ UNCHANGED Store!vars
  <2>1. CASE owner[c] = a
    BY <1>6, <2>1 DEF MoveConversation, Store!vars
  <2>2. CASE owner[c] # a
    <3>1. \A b \in Agents : b = owner[c] => Decremented(b) = Store!Fewer(b)
      BY <1>1, <1>2, NoAgentIsNobody
    <3>2. current' = [b \in Agents |-> IF b = a THEN current[b] + 1
                                       ELSE IF b = owner[c] THEN Store!Fewer(b)
                                       ELSE current[b]]
      BY <1>6, <2>2, <3>1 DEF MoveConversation
    <3>3. Store!Transfer(c, a)
      BY <1>6, <2>2, <3>2 DEF MoveConversation, IsOpen, Store!Transfer, Store!IsOpen
    <3> QED
      BY <3>3 DEF Store!Next
  <2> QED
    BY <2>1, <2>2
<1>7. ASSUME NEW c \in Convs, NEW actor \in Actors, NEW a \in Agents,
             TransferToAgent(actor, c, a)
      PROVE  Store!Next \/ UNCHANGED Store!vars
  BY <1>6, <1>7 DEF TransferToAgent, MayTransferTo
<1>8. ASSUME NEW c \in Convs, NEW actor \in Actors, NEW members \in SUBSET Agents,
             TransferToGroup(actor, c, members)
      PROVE  Store!Next \/ UNCHANGED Store!vars
  BY <1>6, <1>8, CandidatesAvailable DEF TransferToGroup, GroupCandidates
<1> QED
  BY <1>3, <1>4, <1>5, <1>7, <1>8 DEF ConversationNext

\* Every method of the memory store, for any number of agents and conversations,
\* is one step of module Ownership, or changes nothing a caller sees.
THEOREM DispatchImplementsOwnership == Spec => ActsAtOnce
<1>1. Init => TypeOK /\ OwnershipInv
  BY TypeInit, OwnershipInit
<1>2. TypeOK /\ OwnershipInv /\ [Next]_vars => (TypeOK /\ OwnershipInv)'
  BY TypeStep, OwnershipStep
<1>3. TypeOK /\ OwnershipInv /\ [Next]_vars => [Store!Next]_(Store!vars)
  <2> SUFFICES ASSUME TypeOK, OwnershipInv, [Next]_vars
               PROVE  [Store!Next]_(Store!vars)
    OBVIOUS
  <2>1. TypeOK'
    BY <1>2
  <2>2. CASE AgentNext
    BY <2>1, <2>2, AgentStepRefines DEF AgentNext
  <2>3. CASE MessageNext
    BY <2>3, MessageStepRefines
  <2>4. CASE ConversationNext
    BY <2>4, ConversationStepRefines
  <2>5. CASE SettingsNext \/ UNCHANGED vars
    BY <2>5 DEF SettingsNext, UpdateAISettings, UpdateBusinessHours,
               vars, agentVars, convVars, Store!vars
  <2> QED
    BY <2>2, <2>3, <2>4, <2>5 DEF Next
<1>4. QED
  BY <1>1, <1>2, <1>3, PTL DEF Spec, ActsAtOnce

-----------------------------------------------------------------------------
(* Who loses a conversation, and who gets one first *)

\* What NoStealing says of one conversation.
LeavesOrStays(c) ==
  (IsOpen(c) /\ owner[c] # NoAgent /\ owner'[c] # owner[c]) =>
    \/ owner[c] \notin agents'
    \/ /\ agentStatus'[owner[c]] = "offline"
       /\ \A d \in Serving(owner[c]) : owner'[d] # owner[c]
    \/ \E actor \in Actors, a \in Agents : MoveConversation(actor, c, a)

\* A release takes the conversations of the agent released, and no other.
LEMMA ReleaseSparesOthers ==
  ASSUME TypeOK, NEW a \in Agents, NEW Forget, ReleaseConversations(a, Forget),
         Forget \subseteq {c \in Convs : owner[c] = a}
  PROVE  /\ \A d \in Serving(a) : owner'[d] # a
         /\ \A c \in Convs : IsOpen(c) /\ owner[c] # a => owner'[c] = owner[c]
<1>1. PICK dest \in [Serving(a) -> (Candidates \ {a}) \cup {NoAgent}] :
        owner' = [c \in Convs |-> IF c \in Serving(a) THEN dest[c]
                                  ELSE IF c \in Forget THEN NoAgent
                                  ELSE owner[c]]
  BY DEF ReleaseConversations
<1>2. \A d \in Serving(a) : d \in Convs /\ dest[d] # a
  BY <1>1, NoAgentIsNobody DEF Serving
<1>3. \A d \in Serving(a) : owner'[d] # a
  BY <1>1, <1>2
<1>4. ASSUME NEW c \in Convs, owner[c] # a
      PROVE  owner'[c] = owner[c]
  BY <1>1, <1>4 DEF Serving
<1> QED
  BY <1>3, <1>4

LEMMA StealingStep ==
  TypeOK /\ OwnershipInv /\ Next => \A c \in Convs : LeavesOrStays(c)
<1> SUFFICES ASSUME TypeOK, OwnershipInv, Next, NEW c \in Convs,
                    IsOpen(c), owner[c] # NoAgent, owner'[c] # owner[c]
             PROVE  \/ owner[c] \notin agents'
                    \/ /\ agentStatus'[owner[c]] = "offline"
                       /\ \A d \in Serving(owner[c]) : owner'[d] # owner[c]
                    \/ \E actor \in Actors, a \in Agents : MoveConversation(actor, c, a)
  BY DEF LeavesOrStays
<1>1. convStatus[c] \notin {"none", "waiting", "human_requested"}
  BY DEF OwnershipInv, OwnerMatchesStatus
<1>2. ASSUME NEW d \in Convs, owner[d] = NoAgent, NEW s, AssignConversation(d, s)
      PROVE  FALSE
  BY <1>2 DEF AssignConversation, TypeOK
<1>3. ASSUME NEW a \in Agents, NEW s \in AgentStatuses, SetAgentStatus(a, s)
      PROVE  owner[c] = a /\ agentStatus'[a] = "offline" /\ \A d \in Serving(a) : owner'[d] # a
  <2>1. CASE s = "offline"
    <3>1. ReleaseConversations(a, {}) /\ agentStatus'[a] = "offline"
      BY <1>3, <2>1 DEF SetAgentStatus, TypeOK
    <3> QED
      BY <3>1, ReleaseSparesOthers
  <2>2. CASE s = "online" /\ PickUpWaiting(a)
    BY <1>1, <2>2 DEF PickUpWaiting, Pickable
  <2> QED
    BY <1>3, <2>1, <2>2 DEF SetAgentStatus
<1>4. ASSUME NEW a \in Agents, DisableAgent(a)
      PROVE  owner[c] = a /\ agentStatus'[a] = "offline" /\ \A d \in Serving(a) : owner'[d] # a
  <2>1. ReleaseConversations(a, {}) /\ agentStatus'[a] = "offline"
    BY <1>4 DEF DisableAgent, TypeOK
  <2> QED
    BY <2>1, ReleaseSparesOthers
<1>5. ASSUME NEW a \in Agents, DeleteAgent(a)
      PROVE  owner[c] = a /\ a \notin agents'
  <2>1. ReleaseConversations(a, {d \in Convs : owner[d] = a}) /\ a \notin agents'
    BY <1>5 DEF DeleteAgent
  <2> QED
    BY <2>1, ReleaseSparesOthers
<1>6. CASE AgentNext
  BY <1>3, <1>4, <1>5, <1>6 DEF AgentNext, CreateAgent, UpdateAgent, convVars
<1>7. CASE MessageNext
  <2>1. ASSUME NEW d \in Convs, NEW kind \in TextKinds, NEW t \in BOOLEAN,
               AddVisitorMessage(d, kind, t)
        PROVE  FALSE
    BY <1>2, <2>1 DEF AddVisitorMessage, AskForHuman
  <2> QED
    BY <1>7, <2>1 DEF MessageNext, AddAIMessage, AddAgentMessage, EscalateNoReplyToAI
<1>8. CASE ConversationNext
  <2>1. ASSUME NEW t \in BOOLEAN, CreateVisitorConversation(t)
        PROVE  FALSE
    <3>1. lastID + 1 \in Convs /\ lastID + 1 > lastID
      BY <2>1, BoundAssumption DEF CreateVisitorConversation, Convs, TypeOK
    <3>2. owner[lastID + 1] = NoAgent
      BY <3>1 DEF OwnershipInv, Unborn, OwnerMatchesStatus
    <3>3. \E s : AssignConversation(lastID + 1, s)
      BY <2>1 DEF CreateVisitorConversation
    <3> QED
      BY <1>2, <3>1, <3>2, <3>3
  <2>2. ASSUME NEW d \in Convs, NEW actor \in Actors, NEW a \in Agents,
               MoveConversation(actor, d, a)
        PROVE  d = c
    BY <2>2 DEF MoveConversation, TypeOK
  <2>3. Candidates \subseteq Agents
    BY DEF Candidates, TypeOK
  <2>4. ASSUME NEW d \in Convs, NEW actor \in Actors,
               CloseConversation(actor, d) \/ DeleteConversation(actor, d)
        PROVE  FALSE
    BY <2>4 DEF CloseConversation, DeleteConversation, IsOpen, TypeOK
  <2> QED
    BY <1>8, <2>1, <2>2, <2>3, <2>4
       DEF ConversationNext, TransferToAgent, TransferToGroup, GroupCandidates
<1>9. CASE SettingsNext
  BY <1>9 DEF SettingsNext, UpdateAISettings, UpdateBusinessHours, convVars
<1> QED
  BY <1>6, <1>7, <1>8, <1>9 DEF Next

\* However many agents and conversations there are, an agent only loses an open
\* conversation by leaving or by an administrator's transfer.
THEOREM NobodySteals == Spec => NoStealing
<1>1. Init => TypeOK /\ OwnershipInv
  BY TypeInit, OwnershipInit
<1>2. TypeOK /\ OwnershipInv /\ [Next]_vars => (TypeOK /\ OwnershipInv)'
  BY TypeStep, OwnershipStep
<1>3. TypeOK /\ OwnershipInv /\ [Next]_vars => [\A c \in Convs : LeavesOrStays(c)]_vars
  BY StealingStep
<1>4. [\A c \in Convs : LeavesOrStays(c)]_vars =>
        [\A c \in Convs :
           (IsOpen(c) /\ owner[c] # NoAgent /\ owner'[c] # owner[c]) =>
             \/ owner[c] \notin agents'
             \/ /\ agentStatus'[owner[c]] = "offline"
                /\ \A d \in Serving(owner[c]) : owner'[d] # owner[c]
             \/ \E actor \in Actors, a \in Agents : MoveConversation(actor, c, a)]_vars
  BY DEF LeavesOrStays
<1>5. QED
  BY <1>1, <1>2, <1>3, <1>4, PTL DEF Spec, NoStealing

=============================================================================
