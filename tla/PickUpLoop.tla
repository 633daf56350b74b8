----------------------------- MODULE PickUpLoop -----------------------------
(***************************************************************************)
(* The loop of SetAgentStatus(online): the agent takes the conversations   *)
(* that wait for a human, one after the other in the order of CreatedAt,   *)
(* and compares with its maximum the counter the loop itself goes on       *)
(* incrementing.  Dispatch describes the whole loop at once by OldestFirst;*)
(* this module runs it and checks that this is what it does and all it may *)
(* do.  A conversation's id is its place in sortedConversationsLocked.     *)
(***************************************************************************)
EXTENDS Dispatch

VARIABLES
  looked,  \* the conversations the loop has left behind, up to this one
  asFound  \* history: the agent, and what the loop found when it started

pickUpVars == <<vars, looked, asFound>>

Found == INSTANCE Dispatch WITH current <- asFound.current,
                                convStatus <- asFound.convStatus, owner <- asFound.owner

\* Any maximums, the counter above its own included (the administrator may lower
\* it), any statuses, and the owners that go with them.
PickUpInit ==
  /\ agents = Agents
  /\ agentStatus = [a \in Agents |-> "online"]
  /\ disabled = [a \in Agents |-> FALSE]
  /\ maxConv \in [Agents -> Limits]
  /\ current \in [Agents -> Nat]
  /\ lastID = MaxConversations
  /\ convStatus \in [Convs -> ConversationStatuses]
  /\ owner \in [Convs -> Agents \cup {NoAgent}]
  /\ aiEnabled = TRUE /\ aiMode = "human_first" /\ bizEnabled = TRUE /\ reclosed = FALSE
  /\ looked = 0
  /\ \E a \in Agents : asFound = [agent |-> a, current |-> current,
                                  convStatus |-> convStatus, owner |-> owner]

\* The tests before the loop breaks off.
MayTakeMore(a) == ~disabled[a] /\ current[a] < maxConv[a]

\* Fault: the maximum is compared with the counter as it was before the loop.
FaultyLookAtNext ==
  LET c == looked + 1
      a == asFound.agent
  IN /\ looked < MaxConversations /\ ~disabled[a] /\ asFound.current[a] < maxConv[a]
     /\ looked' = c
     /\ \/ /\ c \in Pickable
           /\ owner' = [owner EXCEPT ![c] = a]
           /\ convStatus' = [convStatus EXCEPT ![c] = "assigned"]
           /\ current' = [current EXCEPT ![a] = @ + 1]
        \/ c \notin Pickable /\ UNCHANGED <<owner, convStatus, current>>
     /\ UNCHANGED <<agentVars, lastID, settings, reclosed, asFound>>

\* One iteration.
LookAtNext ==
  LET c == looked + 1
      a == asFound.agent
  IN /\ looked < MaxConversations /\ MayTakeMore(a)
     /\ looked' = c
     /\ \/ /\ c \in Pickable
           /\ owner' = [owner EXCEPT ![c] = a]
           /\ convStatus' = [convStatus EXCEPT ![c] = "assigned"]
           /\ current' = [current EXCEPT ![a] = @ + 1]
        \/ c \notin Pickable /\ UNCHANGED <<owner, convStatus, current>>
     /\ UNCHANGED <<agentVars, lastID, settings, reclosed, asFound>>

\* break: the conversations that are left stay where they are.
BreakOff ==
  /\ looked < MaxConversations /\ ~MayTakeMore(asFound.agent)
  /\ looked' = MaxConversations
  /\ UNCHANGED <<vars, asFound>>

PickUpNext == LookAtNext \/ BreakOff

PickUpSpec == PickUpInit /\ [][PickUpNext]_pickUpVars

-----------------------------------------------------------------------------
TakenUp == {c \in Convs : convStatus[c] # asFound.convStatus[c]}

\* The state PickUpWaiting leads to when the agent takes T.
LeadsHere(T) ==
  LET a == asFound.agent IN
  /\ owner = [c \in Convs |-> IF c \in T THEN a ELSE asFound.owner[c]]
  /\ convStatus = [c \in Convs |-> IF c \in T THEN "assigned" ELSE asFound.convStatus[c]]
  /\ current = [asFound.current EXCEPT ![a] = @ + Cardinality(T)]

\* Stopping where the counter it increments reaches the maximum, the loop has taken
\* those that waited longest, no more than there was room for and all there was room
\* for, whatever lies between them; and Dispatch, which says it does that at once,
\* allows nothing else.
PickUpIsDispatch ==
  looked = MaxConversations =>
    /\ Found!OldestFirst(TakenUp, asFound.agent) /\ LeadsHere(TakenUp)
    /\ \A T \in SUBSET Found!Pickable : Found!OldestFirst(T, asFound.agent) => T = TakenUp

=============================================================================
