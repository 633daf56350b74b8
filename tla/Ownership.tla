----------------------------- MODULE Ownership -----------------------------
(***************************************************************************)
(* What store.Store (backend/internal/store/store.go) promises of the      *)
(* ownership of conversations, whatever keeps it: every change a caller    *)
(* can observe is one of the steps below, each taken in one piece.  Which  *)
(* free agent gets a conversation is left open here: MemoryStore chooses   *)
(* the least loaded one, PostgresStore the least loaded one whose row      *)
(* nobody has locked, or nobody.  Dispatch and PgDispatch implement it.    *)
(***************************************************************************)
EXTENDS Integers, FiniteSets

CONSTANTS
  Agents,   \* agent ids
  Convs,    \* conversation ids
  NoAgent   \* a conversation's owner when it has none

VARIABLES
  agents,       \* the registered agents
  agentStatus,  \* online, busy or offline
  disabled,     \* disabled by an administrator
  maxConv,      \* how many conversations dispatch may give an agent
  current,      \* how many it counts
  convStatus,   \* "none" before creation and after deletion
  owner         \* the agent serving a conversation

agentVars == <<agents, agentStatus, disabled, maxConv>>
convVars == <<convStatus, owner>>
vars == <<agents, agentStatus, disabled, maxConv, current, convStatus, owner>>

-----------------------------------------------------------------------------
IsOpen(c) == convStatus[c] \notin {"none", "closed"}
Serving(a) == {c \in Convs : IsOpen(c) /\ owner[c] = a}

\* Dispatch may give the agent one more conversation.
Available(a) ==
  /\ a \in agents
  /\ agentStatus[a] = "online"
  /\ ~disabled[a]
  /\ current[a] < maxConv[a]

\* The conversations of R given by dest to agent b.
Received(dest, b) == {c \in DOMAIN dest : dest[c] = b}

\* An agent that leaves counts nothing any more, and each of its conversations
\* is dispatched again or left to the AI or the queue.
Redispatch(a) ==
  \E dest \in [Serving(a) -> Agents \cup {NoAgent}],
     idle \in [Serving(a) -> {"waiting", "ai_serving"}] :
    /\ \A c \in Serving(a) : dest[c] # NoAgent => dest[c] # a /\ Available(dest[c])
    /\ \A b \in Agents \ {a} :
         Received(dest, b) # {} => current[b] + Cardinality(Received(dest, b)) <= maxConv[b]
    /\ current' = [b \in Agents |->
                     IF b = a THEN 0 ELSE current[b] + Cardinality(Received(dest, b))]
    /\ convStatus' = [c \in Convs |->
                        IF c \notin Serving(a) THEN convStatus[c]
                        ELSE IF dest[c] = NoAgent THEN idle[c] ELSE "assigned"]
    /\ owner' = [c \in Convs |->
                   IF c \in Serving(a) THEN dest[c]
                   ELSE IF a \in agents' THEN owner[c]
                   ELSE IF owner[c] = a THEN NoAgent ELSE owner[c]]

-----------------------------------------------------------------------------
\* Agent a gets any maximum.
NewLimit(a) ==
  /\ maxConv' \in [Agents -> Nat]
  /\ \A b \in Agents \ {a} : maxConv'[b] = maxConv[b]

Register(a) ==
  /\ a \notin agents
  /\ agents' = agents \cup {a}
  /\ agentStatus' = [agentStatus EXCEPT ![a] = "offline"]
  /\ disabled' = [disabled EXCEPT ![a] = FALSE]
  /\ NewLimit(a)
  /\ current' = [current EXCEPT ![a] = 0]
  /\ UNCHANGED convVars

\* An edit moves no conversation, an agent made "offline" included.
Edit(a) ==
  /\ a \in agents
  /\ \E s \in {"online", "busy", "offline"} :
       /\ disabled[a] /\ s = "online" => agentStatus[a] = "online"
       /\ agentStatus' = [agentStatus EXCEPT ![a] = s]
  /\ NewLimit(a)
  /\ UNCHANGED <<agents, disabled, current, convVars>>

GoOffline(a) ==
  /\ a \in agents
  /\ agentStatus' = [agentStatus EXCEPT ![a] = "offline"]
  /\ UNCHANGED <<agents, disabled, maxConv>>
  /\ Redispatch(a)

Disable(a) ==
  /\ a \in agents
  /\ agentStatus' = [agentStatus EXCEPT ![a] = "offline"]
  /\ disabled' = [disabled EXCEPT ![a] = TRUE]
  /\ UNCHANGED <<agents, maxConv>>
  /\ Redispatch(a)

Unregister(a) ==
  /\ a \in agents
  /\ agents' = agents \ {a}
  /\ agentStatus' = [agentStatus EXCEPT ![a] = "offline"]
  /\ disabled' = [disabled EXCEPT ![a] = FALSE]
  /\ maxConv' = [maxConv EXCEPT ![a] = 0]
  /\ Redispatch(a)

\* An agent coming online takes conversations that wait for a human.
PickUp(a) ==
  \E T \in SUBSET {c \in Convs : convStatus[c] \in {"waiting", "human_requested"}} :
    /\ a \in agents /\ ~disabled[a]
    /\ T # {} => current[a] + Cardinality(T) <= maxConv[a]
    /\ agentStatus' = [agentStatus EXCEPT ![a] = "online"]
    /\ current' = [current EXCEPT ![a] = @ + Cardinality(T)]
    /\ owner' = [c \in Convs |-> IF c \in T THEN a ELSE owner[c]]
    /\ convStatus' = [c \in Convs |-> IF c \in T THEN "assigned" ELSE convStatus[c]]
    /\ UNCHANGED <<agents, disabled, maxConv>>

-----------------------------------------------------------------------------
\* A conversation that has nobody, a new one included, gets a free agent.
Dispatch(c, a) ==
  /\ convStatus[c] # "closed" /\ owner[c] = NoAgent
  /\ Available(a)
  /\ current' = [current EXCEPT ![a] = @ + 1]
  /\ owner' = [owner EXCEPT ![c] = a]
  /\ convStatus' = [convStatus EXCEPT ![c] = "assigned"]
  /\ UNCHANGED agentVars

\* The AI, the queue and the agent take turns; the owner stays.
Progress(c) ==
  /\ convStatus[c] # "closed"
  /\ \/ /\ owner[c] = NoAgent
        /\ \E s \in {"waiting", "human_requested", "ai_serving"} :
             /\ s = "waiting" => convStatus[c] = "none"
             /\ convStatus' = [convStatus EXCEPT ![c] = s]
     \/ /\ owner[c] # NoAgent
        /\ \E s \in {"assigned", "ai_serving"} :
             convStatus' = [convStatus EXCEPT ![c] = s]
  /\ UNCHANGED <<agentVars, current, owner>>

\* One less, never below zero; nobody when the conversation had no agent.
Fewer(b) == IF current[b] > 0 THEN current[b] - 1 ELSE 0

Close(c) ==
  /\ convStatus[c] # "none"
  /\ current' = [b \in Agents |-> IF b = owner[c] THEN Fewer(b) ELSE current[b]]
  /\ convStatus' = [convStatus EXCEPT ![c] = "closed"]
  /\ UNCHANGED <<agentVars, owner>>

Remove(c) ==
  /\ convStatus[c] = "closed"
  /\ convStatus' = [convStatus EXCEPT ![c] = "none"]
  /\ owner' = [owner EXCEPT ![c] = NoAgent]
  /\ UNCHANGED <<agentVars, current>>

\* An administrator may exceed the agent's maximum, and its being offline.
Transfer(c, a) ==
  /\ IsOpen(c) /\ owner[c] # a
  /\ a \in agents /\ ~disabled[a]
  /\ current' = [b \in Agents |-> IF b = a THEN current[b] + 1
                                  ELSE IF b = owner[c] THEN Fewer(b)
                                  ELSE current[b]]
  /\ owner' = [owner EXCEPT ![c] = a]
  /\ convStatus' = [convStatus EXCEPT ![c] = "assigned"]
  /\ UNCHANGED agentVars

-----------------------------------------------------------------------------
Init ==
  /\ agents \subseteq Agents
  /\ agentStatus = [a \in Agents |-> "offline"]
  /\ disabled = [a \in Agents |-> FALSE]
  /\ maxConv \in [Agents -> Nat]
  /\ current = [a \in Agents |-> 0]
  /\ convStatus = [c \in Convs |-> "none"]
  /\ owner = [c \in Convs |-> NoAgent]

Next ==
  \/ \E a \in Agents : \/ Register(a) \/ Edit(a) \/ PickUp(a)
                       \/ GoOffline(a) \/ Disable(a) \/ Unregister(a)
  \/ \E c \in Convs : \/ Progress(c) \/ Close(c) \/ Remove(c)
                      \/ \E a \in Agents : Dispatch(c, a) \/ Transfer(c, a)

Spec == Init /\ [][Next]_vars

=============================================================================
