----------------------------- MODULE PgDispatch -----------------------------
(***************************************************************************)
(* Who serves which conversation when the store is PostgreSQL              *)
(* (backend/internal/store/postgres.go).  Every method is a transaction in *)
(* READ COMMITTED: a statement sees the committed rows and what its own    *)
(* transaction wrote, FOR UPDATE and UPDATE wait for a row another         *)
(* transaction has locked and then look at it again, SKIP LOCKED passes it *)
(* over, and the locks are kept until the transaction ends.  Several       *)
(* backends run transactions at once.                                      *)
(*                                                                         *)
(* Statements that only touch rows the transaction has locked already are  *)
(* one step with the statement before them; nobody can tell.  The settings *)
(* are read again by every statement that needs them and may have been     *)
(* changed since by any node, so each reading is any setting.              *)
(***************************************************************************)
EXTENDS Integers, FiniteSets, Sequences

CONSTANTS
  Agents,            \* agent ids; only their order matters (ties in dispatch)
  MaxConversations,  \* bound: conversations ever begun
  Limits,            \* the values of agents.max_conversations in play
  AIModes,           \* the AI modes the administrator uses
  ClientIDs,         \* client_msg_id values
  Requests,          \* the calls clients make
  Backends,          \* connections that run transactions
  MaxTransactions    \* bound: transactions ever begun

NoAgent == 0
NoConv == 0
NoID == 0      \* client_msg_id left out
NoLimit == 0   \* max_conversations left out of an update
Free == 0      \* a row nobody has locked

ASSUME AgentsAssumption == Agents \subseteq Nat \ {NoAgent} /\ IsFiniteSet(Agents)
ASSUME BoundAssumption == MaxConversations \in Nat /\ MaxTransactions \in Nat
ASSUME LimitsAssumption == Limits \subseteq Nat \ {NoLimit}
ASSUME ModesAssumption == AIModes \subseteq {"human_first", "always_ai", "manual_only"}
ASSUME IDsAssumption == ClientIDs \subseteq Nat \ {NoID}
ASSUME BackendsAssumption == Backends \subseteq Nat \ {Free}

Convs == 1..MaxConversations   \* in the order of created_at

AgentStatuses == {"online", "busy", "offline"}
ConversationStatuses ==
  {"none", "waiting", "human_requested", "ai_serving", "assigned", "closed"}

\* A row of agents; live is FALSE before INSERT and after DELETE.
AgentRows == [live : BOOLEAN, status : AgentStatuses, disabled : BOOLEAN,
              max : Limits \cup {NoLimit}, current : Nat]

\* What touched last_message_at: a message of the visitor, of an agent or of
\* the AI, or the revocation of message num.
Entries == [from : {"visitor", "agent", "ai", "revoked"}, agent : Agents \cup {NoAgent},
            id : ClientIDs \cup {NoID}, num : Nat]

\* A row of conversations with its messages, which are only ever read and
\* written under the lock of the row; "none" when there is no row.
ConvRows == [status : ConversationStatuses, owner : Agents \cup {NoAgent},
             log : Seq(Entries), unread : Nat]

NoAgentRow == [live |-> FALSE, status |-> "offline", disabled |-> FALSE,
               max |-> NoLimit, current |-> 0]
NoConvRow == [status |-> "none", owner |-> NoAgent, log |-> << >>, unread |-> 0]
NewConvRow == [status |-> "waiting", owner |-> NoAgent, log |-> << >>, unread |-> 0]

\* The methods by the row they lock first.
AgentOps == {"set_status", "update_agent", "disable_agent", "delete_agent"}
MessageOps == {"visitor_message", "agent_message", "ai_message"}
ConvOps == MessageOps \cup
  {"mark_read", "revoke", "escalate", "close", "delete_conversation", "transfer"}
Ops == AgentOps \cup ConvOps \cup {"create"}

\* A status asked for, or what a visitor's text says.
Words == AgentStatuses \cup {"", "text", "human_keyword"}

\* A call: agent is the agent it is about, the agent calling (none: the visitor of
\* the conversation, or an administrator), or the transfer's target (none: a
\* group); word and num are the status, the text or the number passed along.
Calls == [op : Ops, agent : Agents \cup {NoAgent}, conv : Convs \cup {NoConv},
          word : Words, num : Nat]
CreateCall(c) == [op |-> "create", agent |-> NoAgent, conv |-> c, word |-> "", num |-> 0]

ASSUME RequestsAssumption ==
  \A k \in Requests :
    /\ k \in Calls /\ k.op # "create"
    /\ IF k.op \in AgentOps THEN k.agent # NoAgent ELSE k.conv # NoConv
    /\ k.op = "update_agent" =>
         k.word \in AgentStatuses \cup {""} /\ k.num \in Limits \cup {NoLimit}
    /\ k.op \in {"visitor_message", "agent_message"} => k.num \in ClientIDs \cup {NoID}
    /\ k.op = "agent_message" => k.agent # NoAgent

\* The statement a transaction runs next.
Steps == {"idle", "lock_agent", "lock_conv", "work", "assign", "release", "pick_up",
          "move", "commit"}

VARIABLES
  arow, crow,    \* the committed rows of agents and conversations
  anew, cnew,    \* their newest versions, those of transactions under way included
  alock, clock,  \* the backend whose transaction has locked the row
  call,          \* what each backend's transaction does
  step,          \* and where it is
  lastID,        \* conversations begun so far
  begun,         \* transactions begun so far
  reclosed       \* history: a closed conversation with an owner was closed again

rows == <<arow, crow>>
newest == <<anew, cnew>>
locks == <<alock, clock>>
counters == <<lastID, begun, reclosed>>
vars == <<arow, crow, anew, cnew, alock, clock, call, step, lastID, begun, reclosed>>

-----------------------------------------------------------------------------
(* Rows and locks *)

\* What a statement of backend t sees.
AgentSeen(t, a) == IF alock[a] = t THEN anew[a] ELSE arow[a]
ConvSeen(t, c) == IF clock[c] = t THEN cnew[c] ELSE crow[c]

\* FOR UPDATE and UPDATE wait until this holds.
AgentFree(t, a) == alock[a] \in {Free, t}
ConvFree(t, c) == clock[c] \in {Free, t}

IsOpen(row) == row.status \notin {"none", "closed"}

\* The open conversations of agent a as the release loop selects them.
Served(t, a) == {c \in Convs : IsOpen(ConvSeen(t, c)) /\ ConvSeen(t, c).owner = a}

\* The closed ones that DeleteAgent clears.
ClosedOf(t, a) == {c \in Convs : ConvSeen(t, c).status = "closed" /\ ConvSeen(t, c).owner = a}

\* Fault: no lower bound.
FaultyFewer(row) == [row EXCEPT !.current = @ - 1]

\* GREATEST(current_conversations-1, 0)
Fewer(row) == [row EXCEPT !.current = IF @ > 0 THEN @ - 1 ELSE 0]
More(row) == [row EXCEPT !.current = @ + 1]

\* ORDER BY created_at LIMIT 1.
IsOldest(c, S) == c \in S /\ \A d \in S : c <= d

Permitted(k, row) == k.agent # NoAgent => row.owner = k.agent

Goto(t, s) == step' = [step EXCEPT ![t] = s]
At(t, s, op) == step[t] = s /\ call[t].op = op

\* Fault: BeginFunc's rollback leaves the locks to the connection.
FaultyRollback(t) ==
  /\ Goto(t, "idle")
  /\ UNCHANGED <<rows, newest, locks, call, counters>>

\* The transaction ends and nothing of it remains.
Rollback(t) ==
  /\ anew' = [a \in Agents |-> IF alock[a] = t THEN arow[a] ELSE anew[a]]
  /\ cnew' = [c \in Convs |-> IF clock[c] = t THEN crow[c] ELSE cnew[c]]
  /\ alock' = [a \in Agents |-> IF alock[a] = t THEN Free ELSE alock[a]]
  /\ clock' = [c \in Convs |-> IF clock[c] = t THEN Free ELSE clock[c]]
  /\ Goto(t, "idle")
  /\ UNCHANGED <<rows, call, counters>>

Commit(t) ==
  /\ step[t] = "commit"
  /\ arow' = [a \in Agents |-> IF alock[a] = t THEN anew[a] ELSE arow[a]]
  /\ crow' = [c \in Convs |-> IF clock[c] = t THEN cnew[c] ELSE crow[c]]
  /\ alock' = [a \in Agents |-> IF alock[a] = t THEN Free ELSE alock[a]]
  /\ clock' = [c \in Convs |-> IF clock[c] = t THEN Free ELSE clock[c]]
  /\ reclosed' = (reclosed \/ /\ call[t].op = "close"
                              /\ crow[call[t].conv].status = "closed"
                              /\ crow[call[t].conv].owner # NoAgent)
  /\ Goto(t, "idle")
  /\ UNCHANGED <<newest, call, lastID, begun>>

-----------------------------------------------------------------------------
(* Beginning a transaction *)

FirstStep(op) == IF op \in AgentOps THEN "lock_agent" ELSE "lock_conv"

\* Entry i of the log is by that side.
Says(row, i, from) == i \in DOMAIN row.log /\ row.log[i].from = from

\* Ids are those the store has given out; a timer carries a visitor's message.
Begin(t, k) ==
  /\ step[t] = "idle"
  /\ begun < MaxTransactions
  /\ begun' = begun + 1
  /\ IF k.op \in AgentOps THEN arow[k.agent].live ELSE crow[k.conv].status # "none"
  /\ k.op = "escalate" => Says(crow[k.conv], k.num, "visitor")
  /\ call' = [call EXCEPT ![t] = k]
  /\ Goto(t, FirstStep(k.op))
  /\ UNCHANGED <<rows, newest, locks, lastID, reclosed>>

\* The INSERT of CreateVisitorConversation: a row only its transaction sees.
BeginCreate(t) ==
  /\ step[t] = "idle"
  /\ begun < MaxTransactions /\ lastID < MaxConversations
  /\ begun' = begun + 1
  /\ lastID' = lastID + 1
  /\ clock' = [clock EXCEPT ![lastID + 1] = t]
  /\ cnew' = [cnew EXCEPT ![lastID + 1] = NewConvRow]
  /\ call' = [call EXCEPT ![t] = CreateCall(lastID + 1)]
  /\ Goto(t, "assign")
  /\ UNCHANGED <<rows, anew, alock, reclosed>>

\* agentByIDForUpdateTx
LockAgent(t) ==
  LET a == call[t].agent
  IN /\ step[t] = "lock_agent"
     /\ alock[a] = Free
     /\ alock' = [alock EXCEPT ![a] = t]
     /\ Goto(t, "work")
     /\ UNCHANGED <<rows, newest, clock, call, counters>>

\* conversationByIDForUpdateTx
LockConversation(t) ==
  LET c == call[t].conv
  IN /\ step[t] = "lock_conv"
     /\ clock[c] = Free
     /\ clock' = [clock EXCEPT ![c] = t]
     /\ Goto(t, "work")
     /\ UNCHANGED <<rows, newest, alock, call, counters>>

-----------------------------------------------------------------------------
(* assignConversationTx *)

\* Fault: the query waits for locked rows instead of passing them over.
FaultyCandidates(t) ==
  {a \in Agents : /\ AgentSeen(t, a).live
                  /\ AgentSeen(t, a).status = "online"
                  /\ ~AgentSeen(t, a).disabled
                  /\ AgentSeen(t, a).current < AgentSeen(t, a).max}

\* The WHERE of the query and its SKIP LOCKED.
Candidates(t) ==
  {a \in Agents : /\ AgentFree(t, a)
                  /\ AgentSeen(t, a).live
                  /\ AgentSeen(t, a).status = "online"
                  /\ ~AgentSeen(t, a).disabled
                  /\ AgentSeen(t, a).current < AgentSeen(t, a).max}

\* ORDER BY current_conversations ASC, id ASC
IsLeastLoaded(t, a, S) ==
  \A b \in S : \/ AgentSeen(t, a).current < AgentSeen(t, b).current
               \/ AgentSeen(t, a).current = AgentSeen(t, b).current /\ a <= b

\* The statuses the AI settings allow for what no agent takes.
LeftTo(status) == IF AIModes \subseteq {"manual_only"} THEN {status} ELSE {status, "ai_serving"}

\* Conversation c is locked by t; unassigned are the caller's statuses for it.
AssignConversation(t, c, unassigned) ==
  \/ /\ "always_ai" \in AIModes
     /\ cnew' = [cnew EXCEPT ![c] = [@ EXCEPT !.status = "ai_serving", !.owner = NoAgent]]
     /\ UNCHANGED <<anew, alock>>
  \/ /\ AIModes # {"always_ai"}
     /\ Candidates(t) = {}
     /\ \E s \in unassigned :
          cnew' = [cnew EXCEPT ![c] = [@ EXCEPT !.status = s, !.owner = NoAgent]]
     /\ UNCHANGED <<anew, alock>>
  \/ /\ AIModes # {"always_ai"}
     /\ \E a \in Candidates(t) :
          /\ IsLeastLoaded(t, a, Candidates(t))
          /\ AgentFree(t, a)
          /\ alock' = [alock EXCEPT ![a] = t]
          /\ anew' = [anew EXCEPT ![a] = More(@)]
          /\ cnew' = [cnew EXCEPT ![c] = [@ EXCEPT !.status = "assigned", !.owner = a]]

\* A new conversation, or one whose visitor asked for a human.
Assign(t) ==
  /\ step[t] = "assign"
  /\ AssignConversation(t, call[t].conv,
                        IF call[t].op = "create" THEN LeftTo("waiting")
                        ELSE {"human_requested"})
  /\ Goto(t, "commit")
  /\ UNCHANGED <<rows, clock, call, counters>>

-----------------------------------------------------------------------------
(* Agents *)

\* The row of the caller's agent is locked by t and registered.
AgentWork(t, op) == At(t, "work", op) /\ anew[call[t].agent].live

SetAgentRow(t, row) == anew' = [anew EXCEPT ![call[t].agent] = row]

SetBusy(t) ==
  /\ AgentWork(t, "set_status") /\ call[t].word = "busy"
  /\ SetAgentRow(t, [anew[call[t].agent] EXCEPT !.status = "busy"])
  /\ Goto(t, "commit")
  /\ UNCHANGED <<rows, cnew, locks, call, counters>>

\* Fault: the counter is left to the loop, which does not touch it.
FaultySetOffline(t) ==
  /\ AgentWork(t, "set_status") /\ call[t].word = "offline"
  /\ SetAgentRow(t, [anew[call[t].agent] EXCEPT !.status = "offline"])
  /\ Goto(t, "release")
  /\ UNCHANGED <<rows, cnew, locks, call, counters>>

SetOffline(t) ==
  /\ AgentWork(t, "set_status") /\ call[t].word = "offline"
  /\ SetAgentRow(t, [anew[call[t].agent] EXCEPT !.status = "offline", !.current = 0])
  /\ Goto(t, "release")
  /\ UNCHANGED <<rows, cnew, locks, call, counters>>

SetOnline(t) ==
  /\ AgentWork(t, "set_status") /\ call[t].word = "online"
  /\ ~anew[call[t].agent].disabled
  /\ SetAgentRow(t, [anew[call[t].agent] EXCEPT !.status = "online"])
  /\ Goto(t, "pick_up")
  /\ UNCHANGED <<rows, cnew, locks, call, counters>>

UpdateAgent(t) ==
  LET k == call[t]
      row == anew[k.agent]
  IN /\ AgentWork(t, "update_agent")
     /\ ~(row.disabled /\ k.word = "online")
     /\ SetAgentRow(t, [row EXCEPT !.max = IF k.num = NoLimit THEN @ ELSE k.num,
                                   !.status = IF k.word = "" THEN @ ELSE k.word])
     /\ Goto(t, "commit")
     /\ UNCHANGED <<rows, cnew, locks, call, counters>>

DisableAgent(t) ==
  /\ AgentWork(t, "disable_agent")
  /\ SetAgentRow(t, [anew[call[t].agent] EXCEPT !.status = "offline", !.current = 0,
                                               !.disabled = TRUE])
  /\ Goto(t, "release")
  /\ UNCHANGED <<rows, cnew, locks, call, counters>>

DeleteAgent(t) ==
  /\ AgentWork(t, "delete_agent")
  /\ SetAgentRow(t, [anew[call[t].agent] EXCEPT !.status = "offline", !.current = 0])
  /\ Goto(t, "release")
  /\ UNCHANGED <<rows, cnew, locks, call, counters>>

\* The SELECT ... FOR UPDATE of the release loop, row by row.  The agent's row
\* is locked, so no conversation joins or leaves those it serves meanwhile.
LockServed(t) ==
  /\ step[t] = "release"
  /\ \E c \in Convs :
       /\ IsOldest(c, {d \in Served(t, call[t].agent) : clock[d] # t})
       /\ clock[c] = Free
       /\ clock' = [clock EXCEPT ![c] = t]
  /\ UNCHANGED <<rows, newest, alock, call, step, counters>>

\* The loop over them, oldest first.
ReleaseOne(t) ==
  LET S == Served(t, call[t].agent)
  IN /\ step[t] = "release"
     /\ \A d \in S : clock[d] = t
     /\ \E c \in S : IsOldest(c, S) /\ AssignConversation(t, c, LeftTo("waiting"))
     /\ UNCHANGED <<rows, clock, call, step, counters>>

\* DeleteAgent: UPDATE conversations SET assigned_agent_id=NULL, row by row.
ClearClosed(t) ==
  /\ At(t, "release", "delete_agent")
  /\ Served(t, call[t].agent) = {}
  /\ \E c \in ClosedOf(t, call[t].agent) :
       /\ ConvFree(t, c)
       /\ clock' = [clock EXCEPT ![c] = t]
       /\ cnew' = [cnew EXCEPT ![c] = [@ EXCEPT !.owner = NoAgent]]
  /\ UNCHANGED <<rows, anew, alock, call, step, counters>>

\* Fault: DeleteAgent's last UPDATE of conversations is left out.
FaultyReleased(t) ==
  /\ step[t] = "release"
  /\ Served(t, call[t].agent) = {}
  /\ anew' = IF call[t].op = "delete_agent"
             THEN [anew EXCEPT ![call[t].agent] = NoAgentRow] ELSE anew
  /\ Goto(t, "commit")
  /\ UNCHANGED <<rows, cnew, locks, call, counters>>

\* The loop is over; a deleted agent's row goes.
Released(t) ==
  /\ step[t] = "release"
  /\ Served(t, call[t].agent) = {}
  /\ call[t].op = "delete_agent" => ClosedOf(t, call[t].agent) = {}
  /\ anew' = IF call[t].op = "delete_agent"
             THEN [anew EXCEPT ![call[t].agent] = NoAgentRow] ELSE anew
  /\ Goto(t, "commit")
  /\ UNCHANGED <<rows, cnew, locks, call, counters>>

\* nextWaitingConversationForUpdateTx: what SKIP LOCKED leaves.
Pickable(t) ==
  {c \in Convs : ConvFree(t, c) /\ ConvSeen(t, c).status \in {"waiting", "human_requested"}}

PickUpOne(t) ==
  LET a == call[t].agent
  IN /\ step[t] = "pick_up"
     /\ anew[a].current < anew[a].max
     /\ \E c \in Pickable(t) :
          /\ IsOldest(c, Pickable(t))
          /\ clock' = [clock EXCEPT ![c] = t]
          /\ cnew' = [cnew EXCEPT ![c] = [@ EXCEPT !.status = "assigned", !.owner = a]]
     /\ anew' = [anew EXCEPT ![a] = More(@)]
     /\ UNCHANGED <<rows, alock, call, step, counters>>

PickedUp(t) ==
  LET a == call[t].agent
  IN /\ step[t] = "pick_up"
     /\ anew[a].current >= anew[a].max \/ Pickable(t) = {}
     /\ Goto(t, "commit")
     /\ UNCHANGED <<rows, newest, locks, call, counters>>

\* One INSERT that commits by itself; the handler never passes a status.
CreateAgent(a, m) ==
  /\ ~arow[a].live /\ alock[a] = Free
  /\ arow' = [arow EXCEPT ![a] = [NoAgentRow EXCEPT !.live = TRUE, !.max = m]]
  /\ anew' = [anew EXCEPT ![a] = [NoAgentRow EXCEPT !.live = TRUE, !.max = m]]
  /\ UNCHANGED <<crow, cnew, locks, call, step, counters>>

-----------------------------------------------------------------------------
(* Messages *)

\* The row of the call's conversation is locked by t and there.
ConvWork(t, op) == At(t, "work", op) /\ cnew[call[t].conv].status # "none"

SetConvRow(t, row) == cnew' = [cnew EXCEPT ![call[t].conv] = row]

Entry(from, agent, id, num) == [from |-> from, agent |-> agent, id |-> id, num |-> num]

\* findMessageByClientIDTx: the sender has written a message with this id.
IsRetry(row, e) == e.id # NoID /\ \E i \in DOMAIN row.log : row.log[i] = e

\* Fault: the AI's replies leave the counter alone.
FaultyTouched(row, e) ==
  [row EXCEPT !.log = Append(@, e),
              !.unread = IF e.from = "visitor" THEN @ + 1 ELSE IF e.from = "agent" THEN 0 ELSE @]

\* touchConversationTx
Touched(row, e) ==
  [row EXCEPT !.log = Append(@, e), !.unread = IF e.from = "visitor" THEN @ + 1 ELSE 0]

\* generateAutoRepliesTx: a conversation with an agent is left alone, another goes
\* to the AI as far as the mode, the switches and the business hours let it.
AfterText(row) == IF row.status = "assigned" THEN {"assigned"} ELSE LeftTo(row.status)

\* AddVisitorMessage; asking for a human dispatches a conversation without agent.
VisitorMessage(t) ==
  LET k == call[t]
      row == cnew[k.conv]
      e == Entry("visitor", NoAgent, k.num, 0)
  IN /\ ConvWork(t, "visitor_message") /\ IsOpen(row)
     /\ \/ /\ IsRetry(row, e)
           /\ Goto(t, "commit")
           /\ UNCHANGED cnew
        \/ /\ ~IsRetry(row, e)
           /\ k.word = "text"
           /\ \E s \in AfterText(row) : SetConvRow(t, [Touched(row, e) EXCEPT !.status = s])
           /\ Goto(t, "commit")
        \/ /\ ~IsRetry(row, e)
           /\ k.word = "human_keyword" /\ row.owner # NoAgent
           /\ SetConvRow(t, [Touched(row, e) EXCEPT !.status = "assigned"])
           /\ Goto(t, "commit")
        \/ /\ ~IsRetry(row, e)
           /\ k.word = "human_keyword" /\ row.owner = NoAgent
           /\ SetConvRow(t, [Touched(row, e) EXCEPT !.status = "human_requested"])
           /\ Goto(t, "assign")
     /\ UNCHANGED <<rows, anew, locks, call, counters>>

AgentMessage(t) ==
  LET k == call[t]
      row == cnew[k.conv]
      e == Entry("agent", k.agent, k.num, 0)
  IN /\ ConvWork(t, "agent_message") /\ IsOpen(row) /\ row.owner = k.agent
     /\ \/ IsRetry(row, e) /\ UNCHANGED cnew
        \/ /\ ~IsRetry(row, e)
           /\ SetConvRow(t, [Touched(row, e) EXCEPT
                !.status = IF @ \in {"ai_serving", "human_requested"} THEN "assigned" ELSE @])
     /\ Goto(t, "commit")
     /\ UNCHANGED <<rows, anew, locks, call, counters>>

AIMessage(t) ==
  LET row == cnew[call[t].conv]
  IN /\ ConvWork(t, "ai_message") /\ IsOpen(row)
     /\ SetConvRow(t, [Touched(row, Entry("ai", NoAgent, NoID, 0)) EXCEPT
                         !.status = "ai_serving"])
     /\ Goto(t, "commit")
     /\ UNCHANGED <<rows, anew, locks, call, counters>>

MarkRead(t) ==
  LET row == cnew[call[t].conv]
  IN /\ ConvWork(t, "mark_read") /\ Permitted(call[t], row)
     /\ SetConvRow(t, [row EXCEPT !.unread = 0])
     /\ Goto(t, "commit")
     /\ UNCHANGED <<rows, anew, locks, call, counters>>

\* An agent revokes what it wrote, an administrator what any agent wrote.
MayRevoke(k, row) ==
  /\ Permitted(k, row)
  /\ Says(row, k.num, "agent")
  /\ k.agent # NoAgent => row.log[k.num].agent = k.agent

IsRevoked(row, i) == \E j \in DOMAIN row.log : row.log[j].from = "revoked" /\ row.log[j].num = i

\* A revocation touches last_message_at, in a closed conversation too.
RevokeMessage(t) ==
  LET k == call[t]
      row == cnew[k.conv]
  IN /\ ConvWork(t, "revoke") /\ MayRevoke(k, row)
     /\ IF IsRevoked(row, k.num) THEN UNCHANGED cnew
        ELSE SetConvRow(t, [row EXCEPT !.log = Append(@, Entry("revoked", NoAgent, NoID, k.num))])
     /\ Goto(t, "commit")
     /\ UNCHANGED <<rows, anew, locks, call, counters>>

\* Message num is still the last thing that happened in the conversation.
Unanswered(k, row) == row.status = "assigned" /\ Len(row.log) = k.num

\* EscalateNoReplyToAI, when the settings it reads have the AI active.
Escalate(t) ==
  LET row == cnew[call[t].conv]
  IN /\ ConvWork(t, "escalate") /\ Unanswered(call[t], row)
     /\ AIModes # {"manual_only"}
     /\ SetConvRow(t, [row EXCEPT !.status = "ai_serving"])
     /\ Goto(t, "commit")
     /\ UNCHANGED <<rows, anew, locks, call, counters>>

-----------------------------------------------------------------------------
(* Closing, deleting, transferring *)

\* A closed conversation may be closed again.
CloseConversation(t) ==
  LET k == call[t]
      row == cnew[k.conv]
  IN /\ ConvWork(t, "close") /\ Permitted(k, row)
     /\ \/ /\ row.owner = NoAgent
           /\ UNCHANGED <<anew, alock>>
        \/ /\ row.owner # NoAgent
           /\ AgentFree(t, row.owner)
           /\ alock' = [alock EXCEPT ![row.owner] = t]
           /\ anew' = [anew EXCEPT ![row.owner] = Fewer(@)]
     /\ SetConvRow(t, [row EXCEPT !.status = "closed"])
     /\ Goto(t, "commit")
     /\ UNCHANGED <<rows, clock, call, counters>>

\* The messages go with the row.
DeleteConversation(t) ==
  LET row == cnew[call[t].conv]
  IN /\ ConvWork(t, "delete_conversation") /\ Permitted(call[t], row)
     /\ row.status = "closed"
     /\ SetConvRow(t, NoConvRow)
     /\ Goto(t, "commit")
     /\ UNCHANGED <<rows, anew, locks, call, counters>>

\* Fault: a disabled agent may be the target.
FaultyCanBeTarget(row) == row.live

\* selectTransferTargetTx looks for an agent by its id in any status but disabled.
CanBeTarget(row) == row.live /\ ~row.disabled

TransferToAgent(t) ==
  LET a == call[t].agent
  IN /\ ConvWork(t, "transfer") /\ IsOpen(cnew[call[t].conv])
     /\ a # NoAgent
     /\ AgentFree(t, a)
     /\ CanBeTarget(AgentSeen(t, a))
     /\ alock' = [alock EXCEPT ![a] = t]
     /\ Goto(t, "move")
     /\ UNCHANGED <<rows, newest, clock, call, counters>>

\* Among the members of a group as dispatch does.
TransferToGroup(t) ==
  /\ ConvWork(t, "transfer") /\ IsOpen(cnew[call[t].conv])
  /\ call[t].agent = NoAgent
  /\ \E members \in SUBSET Agents :
       \E a \in Candidates(t) \cap members :
         /\ IsLeastLoaded(t, a, Candidates(t) \cap members)
         /\ AgentFree(t, a)
         /\ alock' = [alock EXCEPT ![a] = t]
         /\ call' = [call EXCEPT ![t] = [@ EXCEPT !.agent = a]]
  /\ Goto(t, "move")
  /\ UNCHANGED <<rows, newest, clock, counters>>

\* The target's row is locked; the one that has the conversation follows.
MoveConversation(t) ==
  LET k == call[t]
      row == cnew[k.conv]
  IN /\ step[t] = "move"
     /\ \/ row.owner = k.agent /\ UNCHANGED <<newest, alock>>
        \/ /\ row.owner = NoAgent
           /\ anew' = [anew EXCEPT ![k.agent] = More(@)]
           /\ SetConvRow(t, [row EXCEPT !.status = "assigned", !.owner = k.agent])
           /\ UNCHANGED alock
        \/ /\ row.owner \notin {NoAgent, k.agent}
           /\ AgentFree(t, row.owner)
           /\ alock' = [alock EXCEPT ![row.owner] = t]
           /\ anew' = [anew EXCEPT ![row.owner] = Fewer(@), ![k.agent] = More(@)]
           /\ SetConvRow(t, [row EXCEPT !.status = "assigned", !.owner = k.agent])
     /\ Goto(t, "commit")
     /\ UNCHANGED <<rows, clock, call, counters>>

-----------------------------------------------------------------------------
(* Transactions that do not get there *)

\* The early returns of the calls about an agent.
AgentRefused(k, row) == ~row.live \/ (row.disabled /\ k.word = "online")

\* And of those about a conversation; escalate's includes an AI that is off.
ConvRefused(k, row) ==
  \/ row.status = "none"
  \/ k.op \in MessageOps \cup {"transfer"} /\ ~IsOpen(row)
  \/ k.op = "agent_message" /\ row.owner # k.agent
  \/ k.op \in {"mark_read", "close", "delete_conversation"} /\ ~Permitted(k, row)
  \/ k.op = "delete_conversation" /\ row.status # "closed"
  \/ k.op = "revoke" /\ ~MayRevoke(k, row)
  \/ k.op = "escalate"
  \/ /\ k.op = "transfer"
     /\ k.agent # NoAgent => ~CanBeTarget(arow[k.agent])

Refuse(t) ==
  /\ step[t] = "work"
  /\ IF call[t].op \in AgentOps THEN AgentRefused(call[t], anew[call[t].agent])
     ELSE ConvRefused(call[t], cnew[call[t].conv])
  /\ Rollback(t)

\* dbContext's five seconds have passed, or the server process has died.
TimeOut(t) == step[t] # "idle" /\ Rollback(t)

\* The rows whose lock the next statement waits for.
AgentsAwaited(t) ==
  LET k == call[t]
      row == cnew[k.conv]
  IN {a \in Agents :
        \/ step[t] = "lock_agent" /\ a = k.agent
        \/ At(t, "work", "transfer") /\ ~ConvRefused(k, row) /\ a = k.agent
        \/ At(t, "work", "close") /\ ~ConvRefused(k, row) /\ a = row.owner
        \/ step[t] = "move" /\ a = row.owner
        \/ /\ step[t] \in {"assign", "release"}
           /\ a \in Candidates(t) /\ IsLeastLoaded(t, a, Candidates(t))}

ConvsAwaited(t) ==
  LET served == {c \in Served(t, call[t].agent) : clock[c] # t}
      kept == ClosedOf(t, call[t].agent)
  IN {c \in Convs :
        \/ step[t] = "lock_conv" /\ c = call[t].conv
        \/ step[t] = "release" /\ IsOldest(c, served)
        \/ /\ At(t, "release", "delete_agent") /\ Served(t, call[t].agent) = {}
           /\ c \in kept /\ \A d \in kept : ~ConvFree(t, d)}

WaitsFor(t) ==
  ({alock[a] : a \in AgentsAwaited(t)} \cup {clock[c] : c \in ConvsAwaited(t)}) \ {Free, t}

\* Each waits for one of the others and is waited for by one of them.
Cycle(S) ==
  /\ S # {}
  /\ \A t \in S : WaitsFor(t) \cap S # {} /\ \E u \in S : t \in WaitsFor(u)

\* PostgreSQL looks for a cycle after deadlock_timeout and aborts one in it.
DeadlockVictim(t) ==
  /\ \E S \in SUBSET Backends : t \in S /\ Cycle(S)
  /\ Rollback(t)

-----------------------------------------------------------------------------
AgentStep(t) ==
  \/ LockAgent(t) \/ SetBusy(t) \/ SetOffline(t) \/ SetOnline(t) \/ UpdateAgent(t)
  \/ DisableAgent(t) \/ DeleteAgent(t) \/ LockServed(t) \/ ReleaseOne(t) \/ ClearClosed(t)
  \/ Released(t) \/ PickUpOne(t) \/ PickedUp(t)

ConvStep(t) ==
  \/ LockConversation(t) \/ VisitorMessage(t) \/ AgentMessage(t) \/ AIMessage(t)
  \/ MarkRead(t) \/ RevokeMessage(t) \/ Escalate(t) \/ CloseConversation(t)
  \/ DeleteConversation(t) \/ TransferToAgent(t) \/ TransferToGroup(t)
  \/ MoveConversation(t) \/ Assign(t)

\* What a transaction does by itself once it is begun.
Proceed(t) == AgentStep(t) \/ ConvStep(t) \/ Refuse(t) \/ Commit(t)

Next ==
  \/ \E t \in Backends :
       \/ \E k \in Requests : Begin(t, k)
       \/ BeginCreate(t) \/ Proceed(t) \/ TimeOut(t) \/ DeadlockVictim(t)
  \/ \E a \in Agents, m \in Limits : CreateAgent(a, m)

\* The migrations leave the tables empty; the administrator registers agents.
Init ==
  /\ arow = [a \in Agents |-> NoAgentRow] /\ anew = arow
  /\ crow = [c \in Convs |-> NoConvRow] /\ cnew = crow
  /\ alock = [a \in Agents |-> Free] /\ clock = [c \in Convs |-> Free]
  /\ call = [t \in Backends |-> CreateCall(NoConv)]
  /\ step = [t \in Backends |-> "idle"]
  /\ lastID = 0 /\ begun = 0
  /\ reclosed = FALSE

\* A backend goes on and PostgreSQL ends deadlocks; no timeout has to help.
Fairness == \A t \in Backends : WF_vars(Proceed(t)) /\ WF_vars(DeadlockVictim(t))

Spec == Init /\ [][Next]_vars
FairSpec == Spec /\ Fairness

-----------------------------------------------------------------------------
(* Properties *)

\* Rows keep their types, and only a transaction that has locked a row has a
\* version of it that differs from the committed one.
TypeOK ==
  /\ arow \in [Agents -> AgentRows] /\ anew \in [Agents -> AgentRows]
  /\ crow \in [Convs -> ConvRows] /\ cnew \in [Convs -> ConvRows]
  /\ alock \in [Agents -> Backends \cup {Free}]
  /\ clock \in [Convs -> Backends \cup {Free}]
  /\ call \in [Backends -> Calls] /\ step \in [Backends -> Steps]
  /\ lastID \in 0..MaxConversations /\ begun \in 0..MaxTransactions
  /\ reclosed \in BOOLEAN
  /\ \A a \in Agents : alock[a] = Free => anew[a] = arow[a]
  /\ \A c \in Convs : clock[c] = Free => cnew[c] = crow[c]
  /\ \A a \in Agents : alock[a] # Free => step[alock[a]] # "idle"
  /\ \A c \in Convs : clock[c] # Free => step[clock[c]] # "idle"

Serving(a) == {c \in Convs : IsOpen(crow[c]) /\ crow[c].owner = a}

\* current_conversations never exceeds the agent's open conversations, and is
\* their number until a conversation is closed twice: no update is lost between
\* transactions that count the same agent, and none stays when one is rolled back.
CounterCorrect ==
  \A a \in Agents :
    /\ arow[a].current <= Cardinality(Serving(a))
    /\ ~reclosed => arow[a].current = Cardinality(Serving(a))

\* A conversation's agent is registered, in a closed one too, and nobody who is
\* disabled serves: not by a dispatch or a transfer that began before.
OwnersCanServe ==
  /\ \A c \in Convs : crow[c].owner # NoAgent => arow[crow[c].owner].live
  /\ \A c \in Convs : crow[c].status = "assigned" => crow[c].owner # NoAgent
  /\ \A a \in Agents : arow[a].disabled => Serving(a) = {}

\* unread_count never counts a message an agent or the AI has answered, however the
\* answer and the messages before it were interleaved.
UnreadIsUnanswered ==
  \A c \in Convs :
    LET log == crow[c].log
    IN crow[c].unread <= Cardinality({i \in DOMAIN log :
         /\ log[i].from = "visitor"
         /\ \A j \in (i + 1)..Len(log) : log[j].from \notin {"agent", "ai"}})

\* Only changes to agents and to a conversation's agent deadlock, and never two
\* changes to agents: messages, timers and new conversations always get through,
\* and agents that leave at the same time release their conversations.
DeadlocksNeedClosingOrTransfer ==
  \A S \in SUBSET Backends :
    Cycle(S) => /\ \A t \in S : call[t].op \in AgentOps \cup {"close", "transfer"}
                /\ \E t \in S : call[t].op \in {"close", "transfer"}

\* Every transaction ends, committed or rolled back, without its timeout.
TransactionsEnd == \A t \in Backends : (step[t] # "idle") ~> (step[t] = "idle")

Store ==
  INSTANCE Ownership WITH
    agents <- {a \in Agents : arow[a].live},
    agentStatus <- [a \in Agents |-> arow[a].status],
    disabled <- [a \in Agents |-> arow[a].disabled],
    maxConv <- [a \in Agents |-> arow[a].max],
    current <- [a \in Agents |-> arow[a].current],
    convStatus <- [c \in Convs |-> crow[c].status],
    owner <- [c \in Convs |-> crow[c].owner]

\* However transactions interleave, what they commit is a step of module
\* Ownership: the store behaves as if every call ran alone.
ActsAtOnce == [][Store!Next]_(Store!vars)

\* Violated.  "如果营业时间内有在线客服可接待，进入自动派单。"
\* (客服系统边界说明.md:243): a new conversation is not left waiting while an online
\* agent has room.  It is when that agent's row is locked by an unrelated change,
\* which SKIP LOCKED passes over, and nothing dispatches it afterwards.
NewIsDispatched ==
  [][\A c \in Convs :
       crow[c].status = "none" /\ crow'[c].status = "waiting"
         => ~ \E a \in Agents : /\ arow[a].live /\ arow[a].status = "online"
                                /\ ~arow[a].disabled
                                /\ arow[a].current < arow[a].max]_vars

=============================================================================
