-------------------------- MODULE PgDispatchProofs --------------------------
(***************************************************************************)
(* Types, locks and deadlocks of the transactions of module PgDispatch,    *)
(* for any agents, conversations, calls and number of backends.            *)
(***************************************************************************)
EXTENDS PgDispatch, TLAPS

\* The steps at which a transaction has not locked anything yet.
Outside == {"idle", "lock_agent", "lock_conv"}

\* What transaction t has locked when it is where it is.
HoldsBy(t) ==
  LET k == call[t]
  IN /\ step[t] \in Outside =>
          (\A a \in Agents : alock[a] # t) /\ (\A c \in Convs : clock[c] # t)
     /\ step[t] = "lock_agent" => k.op \in AgentOps /\ k.agent \in Agents
     /\ step[t] = "lock_conv" => k.op \in ConvOps /\ k.conv \in Convs
     /\ step[t] \in {"release", "pick_up"} => k.op \in AgentOps
     /\ step[t] = "assign" => k.op \notin AgentOps
     /\ step[t] = "move" => k.op = "transfer" /\ k.agent \in Agents /\ alock[k.agent] = t
     /\ step[t] \in {"work", "release", "pick_up"} /\ k.op \in AgentOps =>
          k.agent \in Agents /\ alock[k.agent] = t
     /\ step[t] \in {"work", "assign", "move"} /\ k.op \notin AgentOps =>
          k.conv \in Convs /\ clock[k.conv] = t
     /\ step[t] = "work" /\ k.op \in AgentOps => \A c \in Convs : clock[c] # t
     /\ step[t] = "release" =>
          \A c \in Convs : clock[c] = t => crow[c].owner = k.agent

\* The call a backend runs is well formed.
CallOK(k) ==
  /\ k.op = "update_agent" =>
       k.word \in AgentStatuses \cup {""} /\ k.num \in Limits \cup {NoLimit}
  /\ k.op \in {"visitor_message", "agent_message"} => k.num \in ClientIDs \cup {NoID}
  /\ k.op = "agent_message" => k.agent # NoAgent

WellCalled == \A t \in Backends : CallOK(call[t])

Holds == \A t \in Backends : HoldsBy(t)

\* A conversation that nobody has begun is nobody's.
Unused ==
  /\ \A c \in Convs : c > lastID => clock[c] = Free /\ crow[c].status = "none"
  /\ \A t \in Backends : step[t] = "lock_conv" => call[t].conv <= lastID

IInv == TypeOK /\ WellCalled /\ Holds /\ Unused

-----------------------------------------------------------------------------
(* A step of transaction t that goes on: it writes rows it has locked and  *)
(* locks rows that are free, and touches nothing that is another's.        *)

Writes(t) ==
  /\ arow' = arow /\ crow' = crow
  /\ anew' \in [Agents -> AgentRows] /\ cnew' \in [Convs -> ConvRows]
  /\ alock' \in [Agents -> Backends \cup {Free}]
  /\ clock' \in [Convs -> Backends \cup {Free}]
  /\ call' \in [Backends -> Calls] /\ step' \in [Backends -> Steps]
  /\ lastID' = lastID /\ begun' = begun /\ reclosed' = reclosed
  /\ step'[t] \notin Outside
  /\ \A u \in Backends \ {t} : call'[u] = call[u] /\ step'[u] = step[u]
  /\ \A a \in Agents : alock'[a] = alock[a] \/ (alock[a] = Free /\ alock'[a] = t)
  /\ \A c \in Convs : clock'[c] = clock[c] \/ (clock[c] = Free /\ clock'[c] = t /\ c <= lastID)
  /\ \A a \in Agents : anew'[a] = anew[a] \/ alock'[a] = t
  /\ \A c \in Convs : cnew'[c] = cnew[c] \/ clock'[c] = t

\* Such a step keeps the types, and the others hold what they held.
LEMMA WritesKeepTypes ==
  ASSUME IInv, NEW t \in Backends, Writes(t)
  PROVE  TypeOK'
<1>1. t # Free
  BY BackendsAssumption
<1>2. \A u \in Backends : step[u] # "idle" => step'[u] # "idle"
  BY DEF Writes, Outside
<1>3. step'[t] # "idle"
  BY DEF Writes, Outside
<1>4. \A a \in Agents : alock'[a] = Free => anew'[a] = arow'[a]
  BY <1>1 DEF Writes, IInv, TypeOK
<1>5. \A c \in Convs : clock'[c] = Free => cnew'[c] = crow'[c]
  BY <1>1 DEF Writes, IInv, TypeOK
<1>6. \A a \in Agents : alock'[a] # Free => step'[alock'[a]] # "idle"
  BY <1>2, <1>3 DEF Writes, IInv, TypeOK
<1>7. \A c \in Convs : clock'[c] # Free => step'[clock'[c]] # "idle"
  BY <1>2, <1>3 DEF Writes, IInv, TypeOK
<1> QED
  BY <1>4, <1>5, <1>6, <1>7 DEF Writes, IInv, TypeOK

\* What u holds depends on its own call, step and locks alone.
LEMMA SameHolds ==
  ASSUME IInv, NEW u \in Backends,
         call'[u] = call[u], step'[u] = step[u],
         \A a \in Agents : alock'[a] = u <=> alock[a] = u,
         \A c \in Convs : clock'[c] = u <=> clock[c] = u,
         \A c \in Convs : clock[c] = u => crow'[c] = crow[c]
  PROVE  HoldsBy(u)'
<1>1. HoldsBy(u)
  BY DEF IInv, Holds
<1> QED
  BY <1>1 DEF HoldsBy

LEMMA WritesKeepOthers ==
  ASSUME IInv, NEW t \in Backends, Writes(t), NEW u \in Backends \ {t}
  PROVE  HoldsBy(u)'
<1>1. u # Free
  BY BackendsAssumption
<1>2. call'[u] = call[u] /\ step'[u] = step[u]
  BY DEF Writes
<1>3. \A a \in Agents : alock'[a] = u <=> alock[a] = u
  BY <1>1 DEF Writes
<1>4. \A c \in Convs : clock'[c] = u <=> clock[c] = u
  BY <1>1 DEF Writes
<1>5. \A c \in Convs : clock[c] = u => crow'[c] = crow[c]
  BY DEF Writes
<1> QED
  BY <1>2, <1>3, <1>4, <1>5, SameHolds

\* What is left to show of an action that is such a step.
LEMMA WritesKeep ==
  ASSUME IInv, NEW t \in Backends, Writes(t), CallOK(call'[t]), HoldsBy(t)'
  PROVE  IInv'
<1>1. \A u \in Backends : HoldsBy(u)'
  BY WritesKeepOthers
<1>2. \A u \in Backends : CallOK(call'[u])
  BY DEF Writes, IInv, WellCalled
<1>3. \A u \in Backends : CallOK(call[u])'
  BY <1>2 DEF CallOK
<1>4. \A c \in Convs : c > lastID' => clock'[c] = Free /\ crow'[c].status = "none"
  <2> TAKE c \in Convs
  <2>1. lastID \in Int /\ c \in Int
    BY BoundAssumption DEF IInv, TypeOK, Convs
  <2> QED
    BY <2>1 DEF Writes, IInv, Unused
<1>5. \A u \in Backends : step'[u] = "lock_conv" => call'[u].conv <= lastID'
  BY DEF Writes, IInv, Unused, Outside
<1>6. Unused'
  BY <1>4, <1>5 DEF Unused
<1> QED
  BY <1>1, <1>3, <1>6, WritesKeepTypes DEF IInv, WellCalled, Holds

\* A row somebody sees has been inserted.
LEMMA SeenIsUsed ==
  ASSUME IInv, NEW t \in Backends, NEW c \in Convs, clock[c] = Free,
         ConvSeen(t, c).status # "none"
  PROVE  c <= lastID
<1>1. crow[c].status # "none"
  BY BackendsAssumption DEF ConvSeen
<1>2. lastID \in Int /\ c \in Int
  BY BoundAssumption DEF IInv, TypeOK, Convs
<1> QED
  BY <1>1, <1>2 DEF IInv, Unused

\* Before its end a transaction needs no more locks.
LEMMA CommitHolds ==
  ASSUME NEW t, step'[t] = "commit"
  PROVE  HoldsBy(t)'
  BY DEF HoldsBy, Outside

LEMMA StepsAre ==
  ASSUME IInv, NEW t \in Backends, NEW s \in Steps, Goto(t, s)
  PROVE  /\ step' \in [Backends -> Steps] /\ step'[t] = s
         /\ \A u \in Backends \ {t} : step'[u] = step[u]
  BY DEF IInv, TypeOK, Goto

\* Nothing is written, nothing is locked.
LEMMA GoesOn ==
  ASSUME IInv, NEW t \in Backends, NEW s \in Steps \ Outside, Goto(t, s),
         UNCHANGED <<rows, newest, locks, call, counters>>
  PROVE  Writes(t) /\ step'[t] = s
  BY StepsAre DEF IInv, TypeOK, Writes, rows, newest, locks, counters

LEMMA WritesAgent ==
  ASSUME IInv, NEW t \in Backends, NEW s \in Steps \ Outside, Goto(t, s),
         NEW a \in Agents, alock[a] = t, NEW row \in AgentRows,
         anew' = [anew EXCEPT ![a] = row],
         UNCHANGED <<rows, cnew, locks, call, counters>>
  PROVE  Writes(t) /\ step'[t] = s
  BY StepsAre DEF IInv, TypeOK, Writes, rows, locks, counters

LEMMA WritesConv ==
  ASSUME IInv, NEW t \in Backends, NEW s \in Steps \ Outside, Goto(t, s),
         NEW c \in Convs, clock[c] = t, NEW row \in ConvRows,
         cnew' = [cnew EXCEPT ![c] = row],
         UNCHANGED <<rows, anew, locks, call, counters>>
  PROVE  Writes(t) /\ step'[t] = s
  BY StepsAre DEF IInv, TypeOK, Writes, rows, locks, counters

-----------------------------------------------------------------------------
(* The rows the actions write *)

LEMMA AgentRowTyped ==
  ASSUME NEW row \in AgentRows, NEW s \in AgentStatuses, NEW m \in Limits \cup {NoLimit}
  PROVE  /\ [row EXCEPT !.status = s] \in AgentRows
         /\ [row EXCEPT !.status = s, !.current = 0] \in AgentRows
         /\ [row EXCEPT !.status = s, !.current = 0, !.disabled = TRUE] \in AgentRows
         /\ [row EXCEPT !.max = m, !.status = s] \in AgentRows
         /\ [row EXCEPT !.current = @ + 1] \in AgentRows
         /\ Fewer(row) \in AgentRows /\ More(row) \in AgentRows
<1>1. [row EXCEPT !.status = s] \in AgentRows
  BY DEF AgentRows
<1>2. [row EXCEPT !.status = s, !.current = 0] \in AgentRows
  BY DEF AgentRows
<1>3. [row EXCEPT !.status = s, !.current = 0, !.disabled = TRUE] \in AgentRows
  BY DEF AgentRows
<1>4. [row EXCEPT !.max = m, !.status = s] \in AgentRows
  BY DEF AgentRows
<1>5. [row EXCEPT !.current = @ + 1] \in AgentRows
  BY DEF AgentRows
<1>6. row.current \in Nat /\ (row.current > 0 => row.current - 1 \in Nat)
  BY DEF AgentRows
<1>7. Fewer(row) \in AgentRows
  BY <1>6 DEF AgentRows, Fewer
<1>8. More(row) \in AgentRows
  BY <1>5 DEF More
<1> QED
  BY <1>1, <1>2, <1>3, <1>4, <1>5, <1>7, <1>8

LEMMA NoRowsTyped == NoAgentRow \in AgentRows /\ NoConvRow \in ConvRows /\ NewConvRow \in ConvRows
  BY DEF AgentRows, ConvRows, NoAgentRow, NoConvRow, NewConvRow, AgentStatuses,
         ConversationStatuses, NoLimit, NoAgent

LEMMA ConvRowTyped ==
  ASSUME NEW row \in ConvRows, NEW s \in ConversationStatuses, NEW a \in Agents \cup {NoAgent}
  PROVE  /\ [row EXCEPT !.status = s] \in ConvRows
         /\ [row EXCEPT !.owner = a] \in ConvRows
         /\ [row EXCEPT !.status = s, !.owner = a] \in ConvRows
         /\ [row EXCEPT !.unread = 0] \in ConvRows
  BY DEF ConvRows

LEMMA LogTyped ==
  ASSUME NEW row \in ConvRows, NEW e \in Entries
  PROVE  Touched(row, e) \in ConvRows /\ [row EXCEPT !.log = Append(@, e)] \in ConvRows
<1>1. Append(row.log, e) \in Seq(Entries)
  BY DEF ConvRows
<1>2. row.unread + 1 \in Nat
  BY DEF ConvRows
<1>3. [row EXCEPT !.log = Append(@, e)] \in ConvRows
  BY <1>1 DEF ConvRows
<1>4. Touched(row, e) \in ConvRows
  BY <1>1, <1>2 DEF ConvRows, Touched
<1> QED
  BY <1>3, <1>4

LEMMA EntryTyped ==
  ASSUME NEW from \in {"visitor", "agent", "ai", "revoked"}, NEW a \in Agents \cup {NoAgent},
         NEW id \in ClientIDs \cup {NoID}, NEW num \in Nat
  PROVE  Entry(from, a, id, num) \in Entries
  BY DEF Entry, Entries

LEMMA LeftToTyped ==
  ASSUME NEW s \in ConversationStatuses
  PROVE  LeftTo(s) \subseteq ConversationStatuses
  BY DEF LeftTo, ConversationStatuses

-----------------------------------------------------------------------------
(* Agents *)

\* At work on an agent, t holds its row and no conversation.
LEMMA AtAgentWork ==
  ASSUME IInv, NEW t \in Backends, NEW op \in AgentOps, At(t, "work", op)
  PROVE  /\ call[t] \in Calls /\ call[t].op = op /\ CallOK(call[t])
         /\ call[t].agent \in Agents /\ alock[call[t].agent] = t
         /\ anew[call[t].agent] \in AgentRows
         /\ \A c \in Convs : clock[c] # t
<1>1. HoldsBy(t) /\ CallOK(call[t])
  BY DEF IInv, Holds, WellCalled
<1>2. call[t].agent \in Agents /\ alock[call[t].agent] = t /\ \A c \in Convs : clock[c] # t
  BY <1>1 DEF HoldsBy, At
<1> QED
  BY <1>1, <1>2 DEF IInv, TypeOK, At

\* It writes the row and goes on to the end, the release loop or the queue.
LEMMA AgentRowKeeps ==
  ASSUME IInv, NEW t \in Backends, NEW op \in AgentOps, At(t, "work", op),
         NEW row \in AgentRows, SetAgentRow(t, row),
         NEW s \in {"commit", "release", "pick_up"}, Goto(t, s),
         UNCHANGED <<rows, cnew, locks, call, counters>>
  PROVE  IInv' /\ Writes(t)
<1>1. /\ call[t].op = op /\ CallOK(call[t])
      /\ call[t].agent \in Agents /\ alock[call[t].agent] = t
      /\ \A c \in Convs : clock[c] # t
  BY AtAgentWork
<1>2. s \in Steps \ Outside
  BY DEF Steps, Outside
<1>3. Writes(t) /\ step'[t] = s
  BY <1>1, <1>2, WritesAgent DEF SetAgentRow
<1>4. call' = call /\ alock' = alock /\ clock' = clock
  BY DEF locks
<1>5. HoldsBy(t)'
  BY <1>1, <1>3, <1>4 DEF HoldsBy, Outside
<1>6. CallOK(call'[t])
  BY <1>1, <1>4
<1> QED
  BY <1>3, <1>5, <1>6, WritesKeep

LEMMA AgentsKeep ==
  ASSUME IInv, NEW t \in Backends,
         \/ SetBusy(t) \/ SetOffline(t) \/ SetOnline(t) \/ UpdateAgent(t)
         \/ DisableAgent(t) \/ DeleteAgent(t)
  PROVE  IInv' /\ Writes(t)
<1> DEFINE row == anew[call[t].agent]
<1>0. {"online", "busy", "offline"} = AgentStatuses
  BY DEF AgentStatuses
<1>1. CASE SetBusy(t)
  <2>1. At(t, "work", "set_status") /\ "set_status" \in AgentOps
    BY <1>1 DEF SetBusy, AgentWork, AgentOps
  <2>2. [row EXCEPT !.status = "busy"] \in AgentRows
    BY <2>1, <1>0, AtAgentWork, AgentRowTyped, ZenonT(60)
  <2> QED
    BY <1>1, <2>1, <2>2, AgentRowKeeps DEF SetBusy
<1>2. CASE SetOffline(t)
  <2>1. At(t, "work", "set_status") /\ "set_status" \in AgentOps
    BY <1>2 DEF SetOffline, AgentWork, AgentOps
  <2>2. [row EXCEPT !.status = "offline", !.current = 0] \in AgentRows
    BY <2>1, <1>0, AtAgentWork, AgentRowTyped, ZenonT(60)
  <2> QED
    BY <1>2, <2>1, <2>2, AgentRowKeeps DEF SetOffline
<1>3. CASE SetOnline(t)
  <2>1. At(t, "work", "set_status") /\ "set_status" \in AgentOps
    BY <1>3 DEF SetOnline, AgentWork, AgentOps
  <2>2. [row EXCEPT !.status = "online"] \in AgentRows
    BY <2>1, <1>0, AtAgentWork, AgentRowTyped, ZenonT(60)
  <2> QED
    BY <1>3, <2>1, <2>2, AgentRowKeeps DEF SetOnline
<1>4. CASE UpdateAgent(t)
  <2> DEFINE new == [row EXCEPT !.max = IF call[t].num = NoLimit THEN @ ELSE call[t].num,
                                !.status = IF call[t].word = "" THEN @ ELSE call[t].word]
  <2>1. At(t, "work", "update_agent") /\ "update_agent" \in AgentOps
    BY <1>4 DEF UpdateAgent, AgentWork, AgentOps
  <2>2. row \in AgentRows /\ call[t].word \in AgentStatuses \cup {""}
          /\ call[t].num \in Limits \cup {NoLimit}
    BY <2>1, AtAgentWork DEF CallOK
  <2>3. new \in AgentRows
    BY <2>2 DEF AgentRows
  <2>4. SetAgentRow(t, new) /\ Goto(t, "commit") /\ UNCHANGED <<rows, cnew, locks, call, counters>>
    BY <1>4 DEF UpdateAgent
  <2> HIDE DEF new
  <2> QED
    BY <2>1, <2>3, <2>4, AgentRowKeeps
<1>5. CASE DisableAgent(t)
  <2>1. At(t, "work", "disable_agent") /\ "disable_agent" \in AgentOps
    BY <1>5 DEF DisableAgent, AgentWork, AgentOps
  <2>2. [row EXCEPT !.status = "offline", !.current = 0, !.disabled = TRUE] \in AgentRows
    <3>1. PICK r \in AgentRows : r = row
      BY <2>1, AtAgentWork
    <3>2. [r EXCEPT !.status = "offline", !.current = 0, !.disabled = TRUE] \in AgentRows
      BY <1>0 DEF AgentRows
    <3> QED
      BY <3>1, <3>2
  <2> QED
    BY <1>5, <2>1, <2>2, AgentRowKeeps DEF DisableAgent
<1>6. CASE DeleteAgent(t)
  <2>1. At(t, "work", "delete_agent") /\ "delete_agent" \in AgentOps
    BY <1>6 DEF DeleteAgent, AgentWork, AgentOps
  <2>2. [row EXCEPT !.status = "offline", !.current = 0] \in AgentRows
    BY <2>1, <1>0, AtAgentWork, AgentRowTyped, ZenonT(60)
  <2> QED
    BY <1>6, <2>1, <2>2, AgentRowKeeps DEF DeleteAgent
<1> QED
  BY <1>1, <1>2, <1>3, <1>4, <1>5, <1>6

-----------------------------------------------------------------------------
(* Messages *)

\* At work on a conversation, t holds its row.
LEMMA AtConvWork ==
  ASSUME IInv, NEW t \in Backends, NEW op \in Ops \ AgentOps, At(t, "work", op)
  PROVE  /\ call[t] \in Calls /\ call[t].op = op /\ CallOK(call[t])
         /\ call[t].conv \in Convs /\ clock[call[t].conv] = t
         /\ cnew[call[t].conv] \in ConvRows
<1>1. HoldsBy(t) /\ CallOK(call[t])
  BY DEF IInv, Holds, WellCalled
<1>2. call[t].conv \in Convs /\ clock[call[t].conv] = t
  BY <1>1 DEF HoldsBy, At
<1> QED
  BY <1>1, <1>2 DEF IInv, TypeOK, At

\* It writes the row and goes on to the end or to dispatch, agents left alone.
LEMMA ConvRowKeeps ==
  ASSUME IInv, NEW t \in Backends, NEW op \in Ops \ AgentOps, At(t, "work", op),
         NEW row \in ConvRows, SetConvRow(t, row),
         NEW s \in {"commit", "assign"}, Goto(t, s),
         UNCHANGED <<rows, anew, locks, call, counters>>
  PROVE  IInv' /\ Writes(t)
<1>1. /\ call[t].op = op /\ CallOK(call[t])
      /\ call[t].conv \in Convs /\ clock[call[t].conv] = t
  BY AtConvWork
<1>2. s \in Steps \ Outside
  BY DEF Steps, Outside
<1>3. Writes(t) /\ step'[t] = s
  BY <1>1, <1>2, WritesConv DEF SetConvRow
<1>4. call' = call /\ alock' = alock /\ clock' = clock
  BY DEF locks
<1>5. HoldsBy(t)'
  BY <1>1, <1>3, <1>4 DEF HoldsBy, Outside
<1>6. CallOK(call'[t])
  BY <1>1, <1>4
<1> QED
  BY <1>3, <1>5, <1>6, WritesKeep

\* It writes nothing and is done.
LEMMA DoneKeeps ==
  ASSUME IInv, NEW t \in Backends, Goto(t, "commit"),
         UNCHANGED <<rows, newest, locks, call, counters>>
  PROVE  IInv' /\ Writes(t)
<1>1. "commit" \in Steps \ Outside
  BY DEF Steps, Outside
<1>2. Writes(t) /\ step'[t] = "commit"
  BY <1>1, GoesOn
<1>3. CallOK(call'[t])
  BY DEF IInv, WellCalled
<1> QED
  BY <1>2, <1>3, CommitHolds, WritesKeep

LEMMA VisitorMessageKeeps ==
  ASSUME IInv, NEW t \in Backends, VisitorMessage(t)
  PROVE  IInv' /\ Writes(t)
<1> DEFINE row == cnew[call[t].conv]
           e == Entry("visitor", NoAgent, call[t].num, 0)
<1>1. At(t, "work", "visitor_message") /\ "visitor_message" \in Ops \ AgentOps
  BY DEF VisitorMessage, ConvWork, Ops, ConvOps, MessageOps, AgentOps
<1>2. row \in ConvRows /\ call[t].num \in ClientIDs \cup {NoID}
  BY <1>1, AtConvWork DEF CallOK
<1>3. e \in Entries
  BY <1>2, EntryTyped
<1>4. PICK touched \in ConvRows : touched = Touched(row, e)
  BY <1>2, <1>3, LogTyped
<1>5. AfterText(row) \subseteq ConversationStatuses
  BY <1>2, LeftToTyped DEF AfterText, ConvRows, ConversationStatuses
<1>6. UNCHANGED <<rows, anew, locks, call, counters>>
  BY DEF VisitorMessage
<1>7. CASE Goto(t, "commit") /\ UNCHANGED cnew
  BY <1>6, <1>7, DoneKeeps DEF newest
<1>8. CASE \E s \in AfterText(row) :
             SetConvRow(t, [Touched(row, e) EXCEPT !.status = s]) /\ Goto(t, "commit")
  <2>1. PICK s \in AfterText(row) :
          SetConvRow(t, [Touched(row, e) EXCEPT !.status = s]) /\ Goto(t, "commit")
    BY <1>8
  <2>2. [Touched(row, e) EXCEPT !.status = s] \in ConvRows
    BY <1>4, <1>5, ConvRowTyped
  <2> QED
    BY <1>1, <1>6, <2>1, <2>2, ConvRowKeeps
<1>9. CASE /\ SetConvRow(t, [Touched(row, e) EXCEPT !.status = "assigned"])
           /\ Goto(t, "commit")
  <2>1. [Touched(row, e) EXCEPT !.status = "assigned"] \in ConvRows
    BY <1>4, ConvRowTyped DEF ConversationStatuses
  <2> QED
    BY <1>1, <1>6, <1>9, <2>1, ConvRowKeeps
<1>10. CASE /\ SetConvRow(t, [Touched(row, e) EXCEPT !.status = "human_requested"])
            /\ Goto(t, "assign")
  <2>1. [Touched(row, e) EXCEPT !.status = "human_requested"] \in ConvRows
    BY <1>4, ConvRowTyped DEF ConversationStatuses
  <2> QED
    BY <1>1, <1>6, <1>10, <2>1, ConvRowKeeps
<1> QED
  BY <1>7, <1>8, <1>9, <1>10 DEF VisitorMessage

LEMMA AgentMessageKeeps ==
  ASSUME IInv, NEW t \in Backends, AgentMessage(t)
  PROVE  IInv' /\ Writes(t)
<1> DEFINE row == cnew[call[t].conv]
           e == Entry("agent", call[t].agent, call[t].num, 0)
<1>1. At(t, "work", "agent_message") /\ "agent_message" \in Ops \ AgentOps
  BY DEF AgentMessage, ConvWork, Ops, ConvOps, MessageOps, AgentOps
<1>2. row \in ConvRows /\ call[t].num \in ClientIDs \cup {NoID}
        /\ call[t].agent \in Agents \cup {NoAgent}
  BY <1>1, AtConvWork DEF CallOK, Calls
<1>3. e \in Entries
  BY <1>2, EntryTyped
<1>4. PICK touched \in ConvRows : touched = Touched(row, e)
  BY <1>2, <1>3, LogTyped
<1>5. UNCHANGED <<rows, anew, locks, call, counters>> /\ Goto(t, "commit")
  BY DEF AgentMessage
<1>6. CASE UNCHANGED cnew
  BY <1>5, <1>6, DoneKeeps DEF newest
<1>7. CASE SetConvRow(t, [Touched(row, e) EXCEPT
             !.status = IF @ \in {"ai_serving", "human_requested"} THEN "assigned" ELSE @])
  <2>1. [touched EXCEPT
           !.status = IF @ \in {"ai_serving", "human_requested"} THEN "assigned" ELSE @]
          \in ConvRows
    BY DEF ConvRows, ConversationStatuses
  <2> QED
    BY <1>1, <1>4, <1>5, <1>7, <2>1, ConvRowKeeps
<1> QED
  BY <1>6, <1>7 DEF AgentMessage

LEMMA RevokeKeeps ==
  ASSUME IInv, NEW t \in Backends, RevokeMessage(t)
  PROVE  IInv' /\ Writes(t)
<1> DEFINE row == cnew[call[t].conv]
           e == Entry("revoked", NoAgent, NoID, call[t].num)
<1>1. At(t, "work", "revoke") /\ "revoke" \in Ops \ AgentOps
  BY DEF RevokeMessage, ConvWork, Ops, ConvOps, MessageOps, AgentOps
<1>2. row \in ConvRows /\ call[t].num \in Nat
  BY <1>1, AtConvWork DEF Calls
<1>3. [row EXCEPT !.log = Append(@, e)] \in ConvRows
  BY <1>2, EntryTyped, LogTyped
<1>4. UNCHANGED <<rows, anew, locks, call, counters>> /\ Goto(t, "commit")
  BY DEF RevokeMessage
<1>5. CASE UNCHANGED cnew
  BY <1>4, <1>5, DoneKeeps DEF newest
<1>6. CASE SetConvRow(t, [row EXCEPT !.log = Append(@, e)])
  BY <1>1, <1>3, <1>4, <1>6, ConvRowKeeps
<1> QED
  BY <1>5, <1>6 DEF RevokeMessage

\* What the AI writes, the counter that is reset, a timer and a deletion.
LEMMA ConvsKeep ==
  ASSUME IInv, NEW t \in Backends,
         AIMessage(t) \/ MarkRead(t) \/ Escalate(t) \/ DeleteConversation(t)
  PROVE  IInv' /\ Writes(t)
<1> DEFINE row == cnew[call[t].conv]
<1>0. {"ai_message", "mark_read", "escalate", "delete_conversation"} \subseteq Ops \ AgentOps
  BY DEF Ops, ConvOps, MessageOps, AgentOps
<1>1. CASE AIMessage(t)
  <2>1. At(t, "work", "ai_message") /\ row \in ConvRows
    BY <1>0, <1>1, AtConvWork DEF AIMessage, ConvWork
  <2>2. PICK touched \in ConvRows : touched = Touched(row, Entry("ai", NoAgent, NoID, 0))
    BY <2>1, EntryTyped, LogTyped
  <2>3. [touched EXCEPT !.status = "ai_serving"] \in ConvRows
    BY ConvRowTyped DEF ConversationStatuses
  <2> QED
    BY <1>0, <1>1, <2>1, <2>2, <2>3, ConvRowKeeps DEF AIMessage
<1>2. CASE MarkRead(t)
  <2>1. At(t, "work", "mark_read") /\ row \in ConvRows
    BY <1>0, <1>2, AtConvWork DEF MarkRead, ConvWork
  <2>2. [row EXCEPT !.unread = 0] \in ConvRows
    BY <2>1 DEF ConvRows
  <2> QED
    BY <1>0, <1>2, <2>1, <2>2, ConvRowKeeps DEF MarkRead
<1>3. CASE Escalate(t)
  <2>1. At(t, "work", "escalate") /\ row \in ConvRows
    BY <1>0, <1>3, AtConvWork DEF Escalate, ConvWork
  <2>2. [row EXCEPT !.status = "ai_serving"] \in ConvRows
    BY <2>1, ConvRowTyped DEF ConversationStatuses
  <2> QED
    BY <1>0, <1>3, <2>1, <2>2, ConvRowKeeps DEF Escalate
<1>4. CASE DeleteConversation(t)
  <2>1. At(t, "work", "delete_conversation")
    BY <1>4 DEF DeleteConversation, ConvWork
  <2> QED
    BY <1>0, <1>4, <2>1, NoRowsTyped, ConvRowKeeps DEF DeleteConversation
<1> QED
  BY <1>1, <1>2, <1>3, <1>4

-----------------------------------------------------------------------------
(* Dispatching and releasing *)

LEMMA AssignWrites ==
  ASSUME IInv, NEW t \in Backends, NEW c \in Convs, clock[c] = t,
         NEW S, S \subseteq ConversationStatuses, AssignConversation(t, c, S)
  PROVE  /\ anew' \in [Agents -> AgentRows] /\ cnew' \in [Convs -> ConvRows]
         /\ alock' \in [Agents -> Backends \cup {Free}]
         /\ \A a \in Agents : alock'[a] = alock[a] \/ (alock[a] = Free /\ alock'[a] = t)
         /\ \A a \in Agents : anew'[a] = anew[a] \/ alock'[a] = t
         /\ \A d \in Convs : cnew'[d] = cnew[d] \/ d = c
<1>1. /\ anew \in [Agents -> AgentRows] /\ cnew \in [Convs -> ConvRows]
      /\ alock \in [Agents -> Backends \cup {Free}]
  BY DEF IInv, TypeOK
<1>2. cnew[c] \in ConvRows
  BY <1>1
<1>3. {"ai_serving", "assigned"} \subseteq ConversationStatuses
  BY DEF ConversationStatuses
<1>4. CASE /\ \E s \in S \cup {"ai_serving"} :
                cnew' = [cnew EXCEPT ![c] = [@ EXCEPT !.status = s, !.owner = NoAgent]]
           /\ UNCHANGED <<anew, alock>>
  <2>1. PICK s \in S \cup {"ai_serving"} :
          cnew' = [cnew EXCEPT ![c] = [cnew[c] EXCEPT !.status = s, !.owner = NoAgent]]
    BY <1>4
  <2>2. [cnew[c] EXCEPT !.status = s, !.owner = NoAgent] \in ConvRows
    BY <1>2, <1>3, ConvRowTyped
  <2> QED
    BY <1>1, <1>4, <2>1, <2>2
<1>5. CASE \E a \in Candidates(t) :
             /\ AgentFree(t, a)
             /\ alock' = [alock EXCEPT ![a] = t]
             /\ anew' = [anew EXCEPT ![a] = More(@)]
             /\ cnew' = [cnew EXCEPT ![c] = [@ EXCEPT !.status = "assigned", !.owner = a]]
  <2>1. PICK a \in Agents :
             /\ AgentFree(t, a)
             /\ alock' = [alock EXCEPT ![a] = t]
             /\ anew' = [anew EXCEPT ![a] = More(anew[a])]
             /\ cnew' = [cnew EXCEPT ![c] = [cnew[c] EXCEPT !.status = "assigned", !.owner = a]]
    <3>1. Candidates(t) \subseteq Agents
      BY DEF Candidates
    <3> QED
      BY <1>5, <3>1, Zenon
  <2>2. [cnew[c] EXCEPT !.status = "assigned", !.owner = a] \in ConvRows
    BY <1>2, <1>3, ConvRowTyped
  <2>3. More(anew[a]) \in AgentRows
    BY <1>1 DEF AgentRows, More
  <2> QED
    BY <1>1, <2>1, <2>2, <2>3 DEF AgentFree
<1> QED
  BY <1>4, <1>5 DEF AssignConversation

LEMMA AssignKeeps ==
  ASSUME IInv, NEW t \in Backends, Assign(t)
  PROVE  IInv' /\ Writes(t)
<1> DEFINE c == call[t].conv
           S == IF call[t].op = "create" THEN LeftTo("waiting") ELSE {"human_requested"}
<1>1. c \in Convs /\ clock[c] = t
  BY DEF IInv, Holds, HoldsBy, Assign
<1>2. S \subseteq ConversationStatuses
  BY LeftToTyped DEF ConversationStatuses
<1>3. AssignConversation(t, c, S)
  BY DEF Assign
<1> HIDE DEF S
<1>4. /\ anew' \in [Agents -> AgentRows] /\ cnew' \in [Convs -> ConvRows]
      /\ alock' \in [Agents -> Backends \cup {Free}]
      /\ \A a \in Agents : alock'[a] = alock[a] \/ (alock[a] = Free /\ alock'[a] = t)
      /\ \A a \in Agents : anew'[a] = anew[a] \/ alock'[a] = t
      /\ \A d \in Convs : cnew'[d] = cnew[d] \/ d = c
  BY <1>1, <1>2, <1>3, AssignWrites
<1>5. Goto(t, "commit") /\ UNCHANGED <<rows, clock, call, counters>>
  BY DEF Assign
<1>6. "commit" \in Steps \ Outside
  BY DEF Steps, Outside
<1>7. Writes(t) /\ step'[t] = "commit"
  BY <1>1, <1>4, <1>5, <1>6, StepsAre DEF IInv, TypeOK, Writes, rows, counters
<1>8. CallOK(call'[t])
  BY <1>5 DEF IInv, WellCalled
<1> QED
  BY <1>7, <1>8, CommitHolds, WritesKeep

\* In the release loop t holds its agent, and conversations that were the agent's.
LEMMA AtRelease ==
  ASSUME IInv, NEW t \in Backends, step[t] = "release"
  PROVE  /\ call[t].op \in AgentOps /\ call[t].agent \in Agents /\ alock[call[t].agent] = t
         /\ \A c \in Convs : clock[c] = t => crow[c].owner = call[t].agent
  BY DEF IInv, Holds, HoldsBy

\* It stays there as long as it locks only such conversations.
LEMMA ReleaseKeeps ==
  ASSUME IInv, NEW t \in Backends, step[t] = "release", Writes(t), step' = step, call' = call,
         \A c \in Convs : clock'[c] = t => clock[c] = t \/ crow[c].owner = call[t].agent
  PROVE  IInv' /\ Writes(t)
<1>1. /\ call[t].op \in AgentOps /\ call[t].agent \in Agents /\ alock[call[t].agent] = t
      /\ \A c \in Convs : clock[c] = t => crow[c].owner = call[t].agent
  BY AtRelease
<1>2. alock'[call[t].agent] = t
  BY <1>1, BackendsAssumption DEF Writes
<1>3. \A c \in Convs : clock'[c] = t => crow'[c].owner = call[t].agent
  BY <1>1 DEF Writes
<1>4. step'[t] = "release" /\ call'[t] = call[t]
  OBVIOUS
<1>5. HoldsBy(t)'
  BY <1>1, <1>2, <1>3, <1>4 DEF HoldsBy, Outside
<1>6. CallOK(call'[t])
  BY <1>4 DEF IInv, WellCalled
<1> QED
  BY <1>5, <1>6, WritesKeep

LEMMA LoopKeeps ==
  ASSUME IInv, NEW t \in Backends,
         LockServed(t) \/ ReleaseOne(t) \/ ClearClosed(t) \/ Released(t)
  PROVE  IInv' /\ Writes(t)
<1>0. step[t] = "release" /\ step[t] \notin Outside
  BY DEF LockServed, ReleaseOne, ClearClosed, Released, At, Outside
<1>1. CASE LockServed(t)
  <2>1. PICK c \in Convs : /\ ConvSeen(t, c).owner = call[t].agent
                           /\ ConvSeen(t, c).status # "none"
                           /\ clock[c] = Free /\ clock' = [clock EXCEPT ![c] = t]
    BY <1>1 DEF LockServed, Served, IsOldest, IsOpen
  <2>2. crow[c].owner = call[t].agent
    BY <2>1, BackendsAssumption DEF ConvSeen
  <2>3. UNCHANGED <<rows, newest, alock, call, step, counters>>
    BY <1>1 DEF LockServed
  <2>4. Writes(t)
    BY <1>0, <2>1, <2>3, SeenIsUsed DEF IInv, TypeOK, Writes, rows, newest, counters
  <2>5. \A d \in Convs : clock'[d] = t => clock[d] = t \/ crow[d].owner = call[t].agent
    BY <2>1, <2>2 DEF IInv, TypeOK
  <2> QED
    BY <1>0, <2>3, <2>4, <2>5, ReleaseKeeps
<1>2. CASE ReleaseOne(t)
  <2>1. PICK c \in Convs : clock[c] = t /\ AssignConversation(t, c, LeftTo("waiting"))
    BY <1>2 DEF ReleaseOne, Served
  <2>2. LeftTo("waiting") \subseteq ConversationStatuses
    BY LeftToTyped DEF ConversationStatuses
  <2>3. UNCHANGED <<rows, clock, call, step, counters>>
    BY <1>2 DEF ReleaseOne
  <2>4. /\ anew' \in [Agents -> AgentRows] /\ cnew' \in [Convs -> ConvRows]
        /\ alock' \in [Agents -> Backends \cup {Free}]
        /\ \A a \in Agents : alock'[a] = alock[a] \/ (alock[a] = Free /\ alock'[a] = t)
        /\ \A a \in Agents : anew'[a] = anew[a] \/ alock'[a] = t
        /\ \A d \in Convs : cnew'[d] = cnew[d] \/ d = c
    BY <2>1, <2>2, AssignWrites
  <2>5. Writes(t)
    BY <1>0, <2>1, <2>3, <2>4 DEF IInv, TypeOK, Writes, rows, counters
  <2> QED
    BY <1>0, <2>3, <2>5, ReleaseKeeps
<1>3. CASE ClearClosed(t)
  <2>1. PICK c \in Convs : /\ ConvSeen(t, c).owner = call[t].agent
                           /\ ConvSeen(t, c).status # "none"
                           /\ ConvFree(t, c)
                           /\ clock' = [clock EXCEPT ![c] = t]
                           /\ cnew' = [cnew EXCEPT ![c] = [cnew[c] EXCEPT !.owner = NoAgent]]
    BY <1>3 DEF ClearClosed, ClosedOf
  <2>2. clock[c] = t \/ crow[c].owner = call[t].agent
    BY <2>1 DEF ConvSeen
  <2>3. UNCHANGED <<rows, anew, alock, call, step, counters>>
    BY <1>3 DEF ClearClosed
  <2>4. [cnew[c] EXCEPT !.owner = NoAgent] \in ConvRows
    <3>1. cnew[c] \in ConvRows
      BY DEF IInv, TypeOK
    <3> QED
      BY <3>1 DEF ConvRows
  <2>5. Writes(t)
    BY <1>0, <2>1, <2>3, <2>4, SeenIsUsed DEF IInv, TypeOK, Writes, rows, counters, ConvFree
  <2>6. \A d \in Convs : clock'[d] = t => clock[d] = t \/ crow[d].owner = call[t].agent
    BY <2>1, <2>2 DEF IInv, TypeOK
  <2> QED
    BY <1>0, <2>3, <2>5, <2>6, ReleaseKeeps
<1>4. CASE Released(t)
  <2>1. Goto(t, "commit") /\ UNCHANGED <<rows, cnew, locks, call, counters>>
    BY <1>4 DEF Released
  <2>2. call[t].agent \in Agents /\ alock[call[t].agent] = t
    BY <1>0, AtRelease
  <2>3. "commit" \in Steps \ Outside
    BY DEF Steps, Outside
  <2>4. CASE anew' = anew
    BY <2>1, <2>4, DoneKeeps DEF newest
  <2>5. CASE anew' = [anew EXCEPT ![call[t].agent] = NoAgentRow]
    <3>1. Writes(t) /\ step'[t] = "commit"
      BY <2>1, <2>2, <2>3, <2>5, NoRowsTyped, WritesAgent
    <3>2. CallOK(call'[t])
      BY <2>1 DEF IInv, WellCalled
    <3> QED
      BY <3>1, <3>2, CommitHolds, WritesKeep
  <2> QED
    BY <1>4, <2>4, <2>5 DEF Released
<1> QED
  BY <1>1, <1>2, <1>3, <1>4

LEMMA PickUpKeeps ==
  ASSUME IInv, NEW t \in Backends, PickUpOne(t) \/ PickedUp(t)
  PROVE  IInv' /\ Writes(t)
<1> DEFINE a == call[t].agent
<1>1. CASE PickUpOne(t)
  <2>1. step[t] = "pick_up" /\ step[t] \notin Outside
    BY <1>1 DEF PickUpOne, Outside
  <2>2. call[t].op \in AgentOps /\ a \in Agents /\ alock[a] = t
    BY <2>1 DEF IInv, Holds, HoldsBy
  <2>3. PICK c \in Convs :
          /\ ConvFree(t, c) /\ ConvSeen(t, c).status # "none"
          /\ clock' = [clock EXCEPT ![c] = t]
          /\ cnew' = [cnew EXCEPT ![c] = [cnew[c] EXCEPT !.status = "assigned", !.owner = a]]
    BY <1>1 DEF PickUpOne, Pickable
  <2>4. [cnew[c] EXCEPT !.status = "assigned", !.owner = a] \in ConvRows
    BY <2>2, ConvRowTyped DEF IInv, TypeOK, ConversationStatuses
  <2>5. More(anew[a]) \in AgentRows
    <3>1. anew[a] \in AgentRows
      BY <2>2 DEF IInv, TypeOK
    <3> QED
      BY <3>1 DEF AgentRows, More
  <2>6. /\ anew' = [anew EXCEPT ![a] = More(anew[a])]
        /\ UNCHANGED <<rows, alock, call, step, counters>>
    BY <1>1 DEF PickUpOne
  <2>7. Writes(t)
    BY <2>1, <2>2, <2>3, <2>4, <2>5, <2>6, SeenIsUsed
    DEF IInv, TypeOK, Writes, rows, counters, ConvFree
  <2>8. HoldsBy(t)'
    BY <2>1, <2>2, <2>6 DEF HoldsBy, Outside
  <2>9. CallOK(call'[t])
    BY <2>6 DEF IInv, WellCalled
  <2> QED
    BY <2>7, <2>8, <2>9, WritesKeep
<1>2. CASE PickedUp(t)
  BY <1>2, DoneKeeps DEF PickedUp
<1> QED
  BY <1>1, <1>2

-----------------------------------------------------------------------------
(* Closing and transferring *)

LEMMA CloseKeeps ==
  ASSUME IInv, NEW t \in Backends, CloseConversation(t)
  PROVE  IInv' /\ Writes(t)
<1> DEFINE c == call[t].conv
           row == cnew[c]
<1>1. At(t, "work", "close") /\ "close" \in Ops \ AgentOps
  BY DEF CloseConversation, ConvWork, Ops, ConvOps, MessageOps, AgentOps
<1>2. c \in Convs /\ clock[c] = t /\ row \in ConvRows
  BY <1>1, AtConvWork
<1>3. [row EXCEPT !.status = "closed"] \in ConvRows
  BY <1>2, ConvRowTyped DEF ConversationStatuses
<1>4. /\ cnew' = [cnew EXCEPT ![c] = [row EXCEPT !.status = "closed"]]
      /\ Goto(t, "commit") /\ UNCHANGED <<rows, clock, call, counters>>
  BY DEF CloseConversation, SetConvRow
<1>5. CASE UNCHANGED <<anew, alock>>
  BY <1>1, <1>3, <1>4, <1>5, ConvRowKeeps DEF SetConvRow, locks
<1>6. CASE /\ row.owner # NoAgent
           /\ AgentFree(t, row.owner)
           /\ alock' = [alock EXCEPT ![row.owner] = t]
           /\ anew' = [anew EXCEPT ![row.owner] = Fewer(@)]
  <2>1. PICK a \in Agents : a = row.owner
    BY <1>2, <1>6 DEF ConvRows
  <2>2. PICK less \in AgentRows : less = Fewer(anew[a])
    BY AgentRowTyped DEF IInv, TypeOK, AgentStatuses, NoLimit
  <2>3. /\ alock[a] \in {Free, t} /\ alock' = [alock EXCEPT ![a] = t]
        /\ anew' = [anew EXCEPT ![a] = less]
    BY <1>6, <2>1, <2>2 DEF AgentFree
  <2>4. "commit" \in Steps \ Outside
    BY DEF Steps, Outside
  <2>5. Writes(t) /\ step'[t] = "commit"
    BY <1>2, <1>3, <1>4, <2>3, <2>4, StepsAre DEF IInv, TypeOK, Writes, rows, counters
  <2>6. CallOK(call'[t])
    BY <1>4 DEF IInv, WellCalled
  <2> QED
    BY <2>5, <2>6, CommitHolds, WritesKeep
<1> QED
  BY <1>5, <1>6 DEF CloseConversation

LEMMA TransferKeeps ==
  ASSUME IInv, NEW t \in Backends, TransferToAgent(t) \/ TransferToGroup(t)
  PROVE  IInv' /\ Writes(t)
<1>1. At(t, "work", "transfer") /\ "transfer" \in Ops \ AgentOps
  BY DEF TransferToAgent, TransferToGroup, ConvWork, Ops, ConvOps, MessageOps, AgentOps
<1>2. /\ call[t] \in Calls /\ call[t].op = "transfer"
      /\ call[t].conv \in Convs /\ clock[call[t].conv] = t
  BY <1>1, AtConvWork
<1>3. PICK a \in Agents :
        /\ AgentFree(t, a) /\ alock' = [alock EXCEPT ![a] = t]
        /\ call' = [call EXCEPT ![t] = [call[t] EXCEPT !.agent = a]]
  <2>1. CASE TransferToAgent(t)
    <3>1. call[t].agent \in Agents
      BY <1>2, <2>1 DEF TransferToAgent, Calls
    <3>2. call[t] = [call[t] EXCEPT !.agent = call[t].agent]
      BY <1>2 DEF Calls
    <3>3. call = [call EXCEPT ![t] = call[t]]
      BY DEF IInv, TypeOK
    <3> QED
      BY <2>1, <3>1, <3>2, <3>3 DEF TransferToAgent
  <2>2. CASE TransferToGroup(t)
    BY <2>2 DEF TransferToGroup, Candidates
  <2> QED
    BY <2>1, <2>2
<1>4. Goto(t, "move") /\ UNCHANGED <<rows, newest, clock, counters>>
  BY DEF TransferToAgent, TransferToGroup
<1>5. PICK k \in Calls : k = [call[t] EXCEPT !.agent = a]
  BY <1>2 DEF Calls
<1>6. k.op = "transfer" /\ k.agent = a /\ k.conv = call[t].conv
  BY <1>2, <1>5 DEF Calls
<1>7. call' = [call EXCEPT ![t] = k] /\ call'[t] = k
  BY <1>3, <1>5 DEF IInv, TypeOK
<1>8. "move" \in Steps \ Outside
  BY DEF Steps, Outside
<1>9. Writes(t) /\ step'[t] = "move" /\ alock'[a] = t
  BY <1>3, <1>4, <1>7, <1>8, StepsAre
  DEF IInv, TypeOK, Writes, rows, newest, counters, AgentFree
<1>10. HoldsBy(t)'
  BY <1>2, <1>4, <1>6, <1>7, <1>9 DEF HoldsBy, Outside, AgentOps
<1>11. CallOK(call'[t])
  BY <1>6, <1>7 DEF CallOK
<1> QED
  BY <1>9, <1>10, <1>11, WritesKeep

LEMMA MoveKeeps ==
  ASSUME IInv, NEW t \in Backends, MoveConversation(t)
  PROVE  IInv' /\ Writes(t)
<1> DEFINE c == call[t].conv
           b == call[t].agent
           row == cnew[c]
<1>1. step[t] = "move" /\ Goto(t, "commit") /\ UNCHANGED <<rows, clock, call, counters>>
  BY DEF MoveConversation
<1>2. c \in Convs /\ clock[c] = t /\ b \in Agents /\ alock[b] = t
  BY <1>1 DEF IInv, Holds, HoldsBy, AgentOps
<1>3. row \in ConvRows /\ anew[b] \in AgentRows
  BY <1>2 DEF IInv, TypeOK
<1>4. PICK new \in ConvRows : new = [row EXCEPT !.status = "assigned", !.owner = b]
  BY <1>2, <1>3, ConvRowTyped DEF ConversationStatuses
<1>5. PICK more \in AgentRows : more = More(anew[b])
  BY <1>3, AgentRowTyped DEF AgentStatuses, NoLimit
<1>6. "commit" \in Steps \ Outside
  BY DEF Steps, Outside
<1>7. CallOK(call'[t])
  BY <1>1 DEF IInv, WellCalled
<1>8. CASE UNCHANGED <<newest, alock>>
  BY <1>1, <1>8, DoneKeeps DEF locks
<1>9. CASE /\ anew' = [anew EXCEPT ![b] = More(@)]
           /\ SetConvRow(t, [row EXCEPT !.status = "assigned", !.owner = b])
           /\ UNCHANGED alock
  <2>1. anew' = [anew EXCEPT ![b] = more] /\ cnew' = [cnew EXCEPT ![c] = new]
    BY <1>4, <1>5, <1>9 DEF SetConvRow
  <2>2. Writes(t) /\ step'[t] = "commit"
    BY <1>1, <1>2, <1>6, <1>9, <2>1, StepsAre DEF IInv, TypeOK, Writes, rows, counters
  <2> QED
    BY <1>7, <2>2, CommitHolds, WritesKeep
<1>10. CASE /\ row.owner \notin {NoAgent, b}
            /\ AgentFree(t, row.owner)
            /\ alock' = [alock EXCEPT ![row.owner] = t]
            /\ anew' = [anew EXCEPT ![row.owner] = Fewer(@), ![b] = More(@)]
            /\ SetConvRow(t, [row EXCEPT !.status = "assigned", !.owner = b])
  <2>1. PICK a \in Agents : a = row.owner /\ a # b
    BY <1>3, <1>10 DEF ConvRows
  <2>2. PICK less \in AgentRows : less = Fewer(anew[a])
    BY AgentRowTyped DEF IInv, TypeOK, AgentStatuses, NoLimit
  <2>3. anew' = [anew EXCEPT ![a] = less, ![b] = more] /\ cnew' = [cnew EXCEPT ![c] = new]
    BY <1>2, <1>4, <1>5, <1>10, <2>1, <2>2 DEF SetConvRow, IInv, TypeOK
  <2>4. alock[a] \in {Free, t} /\ alock' = [alock EXCEPT ![a] = t]
    BY <1>10, <2>1 DEF AgentFree
  <2>5. Writes(t) /\ step'[t] = "commit"
    BY <1>1, <1>2, <1>6, <2>3, <2>4, StepsAre DEF IInv, TypeOK, Writes, rows, counters
  <2> QED
    BY <1>7, <2>5, CommitHolds, WritesKeep
<1> QED
  BY <1>8, <1>9, <1>10 DEF MoveConversation

-----------------------------------------------------------------------------
(* Beginning and ending *)

LEMMA LocksKeep ==
  ASSUME IInv, NEW t \in Backends, LockAgent(t) \/ LockConversation(t)
  PROVE  IInv' /\ Writes(t)
<1>1. "work" \in Steps \ Outside
  BY DEF Steps, Outside
<1>2. Goto(t, "work") /\ UNCHANGED <<rows, newest, call, counters>>
  BY DEF LockAgent, LockConversation
<1>3. step[t] \in Outside /\ HoldsBy(t)
  BY DEF LockAgent, LockConversation, Outside, IInv, Holds
<1>4. (\A a \in Agents : alock[a] # t) /\ (\A c \in Convs : clock[c] # t)
  BY <1>3 DEF HoldsBy
<1>5. CallOK(call'[t])
  BY <1>2 DEF IInv, WellCalled
<1>6. CASE LockAgent(t)
  <2>1. /\ call[t].op \in AgentOps /\ call[t].agent \in Agents
        /\ alock[call[t].agent] = Free /\ alock' = [alock EXCEPT ![call[t].agent] = t]
        /\ clock' = clock
    BY <1>3, <1>6 DEF LockAgent, HoldsBy
  <2>2. Writes(t) /\ step'[t] = "work"
    BY <1>1, <1>2, <2>1, StepsAre DEF IInv, TypeOK, Writes, rows, newest, counters
  <2>3. alock'[call[t].agent] = t
    BY <2>1 DEF IInv, TypeOK
  <2>4. HoldsBy(t)'
    BY <1>2, <1>4, <2>1, <2>2, <2>3 DEF HoldsBy, Outside
  <2> QED
    BY <1>5, <2>2, <2>4, WritesKeep
<1>7. CASE LockConversation(t)
  <2>1. /\ call[t].op \notin AgentOps /\ call[t].conv \in Convs
        /\ clock[call[t].conv] = Free /\ clock' = [clock EXCEPT ![call[t].conv] = t]
        /\ alock' = alock /\ step[t] = "lock_conv"
    BY <1>3, <1>7 DEF LockConversation, HoldsBy, ConvOps, MessageOps, AgentOps
  <2>2. call[t].conv <= lastID
    BY <2>1 DEF IInv, Unused
  <2>3. Writes(t) /\ step'[t] = "work"
    BY <1>1, <1>2, <2>1, <2>2, StepsAre DEF IInv, TypeOK, Writes, rows, newest, counters
  <2>4. clock'[call[t].conv] = t
    BY <2>1 DEF IInv, TypeOK
  <2>5. HoldsBy(t)'
    BY <1>2, <2>1, <2>3, <2>4 DEF HoldsBy, Outside
  <2> QED
    BY <1>5, <2>3, <2>5, WritesKeep
<1> QED
  BY <1>6, <1>7

\* An idle backend holds nothing.
LEMMA IdleHolds ==
  ASSUME IInv, NEW t \in Backends, step[t] = "idle"
  PROVE  (\A a \in Agents : alock[a] # t) /\ (\A c \in Convs : clock[c] # t)
  BY DEF IInv, Holds, HoldsBy, Outside

LEMMA BeginKeeps ==
  ASSUME IInv, NEW t \in Backends, NEW k \in Requests, Begin(t, k)
  PROVE  IInv'
<1>1. k \in Calls /\ CallOK(k) /\ k.op \in AgentOps \cup ConvOps
  BY RequestsAssumption DEF CallOK, Calls, Ops
<1>2. IF k.op \in AgentOps THEN k.agent \in Agents ELSE k.conv \in Convs
  BY <1>1, RequestsAssumption DEF Calls
<1>3. FirstStep(k.op) \in Steps
  BY DEF FirstStep, Steps
<1>4. /\ step[t] = "idle" /\ Goto(t, FirstStep(k.op))
      /\ call' = [call EXCEPT ![t] = k]
      /\ UNCHANGED <<rows, newest, locks, lastID, reclosed>>
      /\ begun' = begun + 1 /\ begun < MaxTransactions
      /\ IF k.op \in AgentOps THEN arow[k.agent].live ELSE crow[k.conv].status # "none"
  BY DEF Begin
<1>5. /\ step' \in [Backends -> Steps] /\ step'[t] = FirstStep(k.op)
      /\ \A u \in Backends \ {t} : step'[u] = step[u]
  BY <1>3, <1>4, StepsAre
<1>6. call'[t] = k /\ call' \in [Backends -> Calls]
        /\ \A u \in Backends \ {t} : call'[u] = call[u]
  BY <1>1, <1>4 DEF IInv, TypeOK
<1>7. alock' = alock /\ clock' = clock /\ crow' = crow
  BY <1>4 DEF locks, rows
<1>8. begun' \in 0..MaxTransactions
  BY <1>4, BoundAssumption DEF IInv, TypeOK
<1>9. \A u \in Backends : step[u] # "idle" => step'[u] # "idle"
  BY <1>5 DEF FirstStep
<1>10. TypeOK'
  BY <1>4, <1>5, <1>6, <1>8, <1>9 DEF IInv, TypeOK, rows, newest, locks
<1>11. HoldsBy(t)'
  <2>1. (\A a \in Agents : alock'[a] # t) /\ (\A c \in Convs : clock'[c] # t)
    BY <1>4, <1>7, IdleHolds
  <2> QED
    BY <1>1, <1>2, <1>5, <1>6, <2>1 DEF HoldsBy, FirstStep
<1>12. \A u \in Backends \ {t} : HoldsBy(u)'
  BY <1>5, <1>6, <1>7, SameHolds
<1>13. Holds'
  BY <1>11, <1>12 DEF Holds
<1>14. \A u \in Backends : CallOK(call'[u])
  BY <1>1, <1>6 DEF IInv, WellCalled
<1>15. WellCalled'
  BY <1>14 DEF WellCalled, CallOK
<1>16. step'[t] = "lock_conv" => k.conv <= lastID
  <2>1. lastID \in Int /\ k.conv \in Convs => k.conv \in Int
    BY DEF Convs
  <2>2. lastID \in Int
    BY BoundAssumption DEF IInv, TypeOK
  <2> QED
    BY <1>2, <1>4, <1>5, <2>1, <2>2 DEF IInv, Unused, FirstStep
<1>17. Unused'
  BY <1>4, <1>5, <1>6, <1>7, <1>16 DEF IInv, Unused
<1> QED
  BY <1>10, <1>13, <1>15, <1>17 DEF IInv

LEMMA CreateCallTyped ==
  ASSUME NEW c \in Convs \cup {NoConv}
  PROVE  /\ CreateCall(c) \in Calls
         /\ CreateCall(c).op = "create" /\ CreateCall(c).conv = c
<1>1. "create" \in Ops /\ NoAgent \in Agents \cup {NoAgent} /\ 0 \in Nat
  BY DEF Ops
<1>2. "" \in Words
  BY DEF Words
<1>3. CreateCall(c) \in Calls
  BY <1>1, <1>2 DEF CreateCall, Calls
<1> QED
  BY <1>3 DEF CreateCall

LEMMA BeginCreateKeeps ==
  ASSUME IInv, NEW t \in Backends, BeginCreate(t)
  PROVE  IInv'
<1> DEFINE c == lastID + 1
<1>1. /\ step[t] = "idle" /\ Goto(t, "assign")
      /\ begun < MaxTransactions /\ lastID < MaxConversations
      /\ begun' = begun + 1 /\ lastID' = lastID + 1
      /\ clock' = [clock EXCEPT ![c] = t]
      /\ cnew' = [cnew EXCEPT ![c] = NewConvRow]
      /\ call' = [call EXCEPT ![t] = CreateCall(c)]
      /\ UNCHANGED <<rows, anew, alock, reclosed>>
  BY DEF BeginCreate
<1>2. lastID \in Nat /\ begun \in Nat /\ MaxConversations \in Nat /\ MaxTransactions \in Nat
  BY BoundAssumption DEF IInv, TypeOK
<1>3. c \in Convs /\ c > lastID /\ lastID' \in 0..MaxConversations /\ begun' \in 0..MaxTransactions
  BY <1>1, <1>2 DEF Convs
<1>4. clock[c] = Free /\ crow[c].status = "none"
  BY <1>3 DEF IInv, Unused
<1> HIDE DEF c
<1>5. CreateCall(c) \in Calls /\ CreateCall(c).op = "create" /\ CreateCall(c).conv = c
  BY <1>3, CreateCallTyped
<1>6. /\ step' \in [Backends -> Steps] /\ step'[t] = "assign"
      /\ \A u \in Backends \ {t} : step'[u] = step[u]
  BY <1>1, StepsAre DEF Steps
<1>7. call'[t] = CreateCall(c) /\ call' \in [Backends -> Calls]
        /\ \A u \in Backends \ {t} : call'[u] = call[u]
  BY <1>1, <1>5 DEF IInv, TypeOK
<1>8. clock'[c] = t /\ clock' \in [Convs -> Backends \cup {Free}]
        /\ \A d \in Convs \ {c} : clock'[d] = clock[d]
  BY <1>1, <1>3 DEF IInv, TypeOK
<1>9. t # Free
  BY BackendsAssumption
<1>10. TypeOK'
  BY <1>1, <1>3, <1>6, <1>7, <1>8, <1>9, NoRowsTyped DEF IInv, TypeOK, rows
<1>11. HoldsBy(t)'
  BY <1>3, <1>5, <1>6, <1>7, <1>8 DEF HoldsBy, Outside, AgentOps
<1>12. \A u \in Backends \ {t} : HoldsBy(u)'
  <2> TAKE u \in Backends \ {t}
  <2>1. u # Free
    BY BackendsAssumption
  <2>2. \A d \in Convs : clock'[d] = u <=> clock[d] = u
    BY <1>4, <1>8, <2>1
  <2>3. \A a \in Agents : alock'[a] = u <=> alock[a] = u
    BY <1>1
  <2>4. crow' = crow
    BY <1>1 DEF rows
  <2> QED
    BY <1>6, <1>7, <2>2, <2>3, <2>4, SameHolds
<1>13. Holds'
  BY <1>11, <1>12 DEF Holds
<1>14. \A u \in Backends : CallOK(call'[u])
  BY <1>5, <1>7 DEF IInv, WellCalled, CallOK
<1>15. WellCalled'
  BY <1>14 DEF WellCalled, CallOK
<1>16. \A d \in Convs : d > lastID' => clock'[d] = Free /\ crow'[d].status = "none"
  <2> TAKE d \in Convs
  <2>1. d \in Int /\ (d > lastID' => d > lastID /\ d # c)
    BY <1>1, <1>2 DEF Convs, c
  <2> QED
    BY <1>1, <1>8, <2>1 DEF IInv, Unused, rows
<1>17. \A u \in Backends : step'[u] = "lock_conv" => call'[u].conv <= lastID'
  <2> SUFFICES ASSUME NEW u \in Backends \ {t}, step'[u] = "lock_conv"
               PROVE  call[u].conv <= lastID + 1
    BY <1>1, <1>6, <1>7
  <2>1. call[u].conv \in Int /\ call[u].conv <= lastID
    BY <1>6 DEF IInv, Unused, TypeOK, Calls, Convs, NoConv
  <2> QED
    BY <1>2, <2>1
<1>18. Unused'
  BY <1>16, <1>17 DEF Unused
<1> QED
  BY <1>10, <1>13, <1>15, <1>18 DEF IInv

\* When t ends it gives up its locks; the rows are then the committed ones.
LEMMA EndKeeps ==
  ASSUME IInv, NEW t \in Backends, Goto(t, "idle"),
         arow' \in [Agents -> AgentRows], crow' \in [Convs -> ConvRows],
         anew' \in [Agents -> AgentRows], cnew' \in [Convs -> ConvRows],
         alock' = [a \in Agents |-> IF alock[a] = t THEN Free ELSE alock[a]],
         clock' = [c \in Convs |-> IF clock[c] = t THEN Free ELSE clock[c]],
         \A a \in Agents : IF alock[a] = t THEN anew'[a] = arow'[a]
                           ELSE arow'[a] = arow[a] /\ anew'[a] = anew[a],
         \A c \in Convs : IF clock[c] = t THEN cnew'[c] = crow'[c]
                          ELSE crow'[c] = crow[c] /\ cnew'[c] = cnew[c],
         reclosed' \in BOOLEAN, call' = call, lastID' = lastID, begun' = begun
  PROVE  IInv'
<1>1. t # Free
  BY BackendsAssumption
<1>2. /\ step' \in [Backends -> Steps] /\ step'[t] = "idle"
      /\ \A u \in Backends \ {t} : step'[u] = step[u]
  BY StepsAre DEF Steps
<1>3. \A a \in Agents : alock'[a] = Free => anew'[a] = arow'[a]
  BY DEF IInv, TypeOK
<1>4. \A c \in Convs : clock'[c] = Free => cnew'[c] = crow'[c]
  BY DEF IInv, TypeOK
<1>5. \A a \in Agents : alock'[a] # Free => step'[alock'[a]] # "idle"
  BY <1>2 DEF IInv, TypeOK
<1>6. \A c \in Convs : clock'[c] # Free => step'[clock'[c]] # "idle"
  BY <1>2 DEF IInv, TypeOK
<1>7. /\ alock' \in [Agents -> Backends \cup {Free}]
      /\ clock' \in [Convs -> Backends \cup {Free}]
  BY DEF IInv, TypeOK
<1>8. call' \in [Backends -> Calls] /\ lastID' \in 0..MaxConversations
        /\ begun' \in 0..MaxTransactions
  BY DEF IInv, TypeOK
<1>9. TypeOK'
  BY <1>2, <1>3, <1>4, <1>5, <1>6, <1>7, <1>8 DEF TypeOK
<1>10. HoldsBy(t)'
  <2>1. (\A a \in Agents : alock'[a] # t) /\ (\A c \in Convs : clock'[c] # t)
    BY <1>1
  <2> QED
    BY <1>2, <2>1 DEF HoldsBy
<1>11. \A u \in Backends \ {t} : HoldsBy(u)'
  <2> TAKE u \in Backends \ {t}
  <2>1. u # Free
    BY BackendsAssumption
  <2>2. /\ \A a \in Agents : alock'[a] = u <=> alock[a] = u
        /\ \A c \in Convs : clock'[c] = u <=> clock[c] = u
    BY <2>1
  <2>3. \A c \in Convs : clock[c] = u => crow'[c] = crow[c]
    OBVIOUS
  <2> QED
    BY <1>2, <2>2, <2>3, SameHolds
<1>12. Holds'
  BY <1>10, <1>11 DEF Holds
<1>13. WellCalled'
  BY DEF IInv, WellCalled, CallOK
<1>14. \A c \in Convs : c > lastID' => clock'[c] = Free /\ crow'[c].status = "none"
  BY <1>1 DEF IInv, Unused
<1>15. \A u \in Backends : step'[u] = "lock_conv" => call'[u].conv <= lastID'
  BY <1>2 DEF IInv, Unused
<1>16. Unused'
  BY <1>14, <1>15 DEF Unused
<1> QED
  BY <1>9, <1>12, <1>13, <1>16 DEF IInv

LEMMA RollbackKeeps ==
  ASSUME IInv, NEW t \in Backends, Rollback(t)
  PROVE  IInv'
<1>1. /\ arow' = arow /\ crow' = crow /\ reclosed' = reclosed /\ call' = call
      /\ lastID' = lastID /\ begun' = begun
  BY DEF Rollback, rows, counters
<1>2. anew' \in [Agents -> AgentRows] /\ cnew' \in [Convs -> ConvRows]
  BY DEF Rollback, IInv, TypeOK
<1>3. /\ \A a \in Agents : IF alock[a] = t THEN anew'[a] = arow'[a]
                           ELSE arow'[a] = arow[a] /\ anew'[a] = anew[a]
      /\ \A c \in Convs : IF clock[c] = t THEN cnew'[c] = crow'[c]
                          ELSE crow'[c] = crow[c] /\ cnew'[c] = cnew[c]
  BY <1>1 DEF Rollback
<1>4. arow' \in [Agents -> AgentRows] /\ crow' \in [Convs -> ConvRows] /\ reclosed' \in BOOLEAN
  BY <1>1 DEF IInv, TypeOK
<1>5. /\ Goto(t, "idle")
      /\ alock' = [a \in Agents |-> IF alock[a] = t THEN Free ELSE alock[a]]
      /\ clock' = [c \in Convs |-> IF clock[c] = t THEN Free ELSE clock[c]]
  BY DEF Rollback
<1> QED
  BY <1>1, <1>2, <1>3, <1>4, <1>5, EndKeeps

LEMMA CommitKeeps ==
  ASSUME IInv, NEW t \in Backends, Commit(t)
  PROVE  IInv'
<1>1. anew' = anew /\ cnew' = cnew /\ call' = call /\ lastID' = lastID /\ begun' = begun
  BY DEF Commit, newest
<1>2. arow' \in [Agents -> AgentRows] /\ crow' \in [Convs -> ConvRows]
  BY DEF Commit, IInv, TypeOK
<1>3. /\ \A a \in Agents : IF alock[a] = t THEN anew'[a] = arow'[a]
                           ELSE arow'[a] = arow[a] /\ anew'[a] = anew[a]
      /\ \A c \in Convs : IF clock[c] = t THEN cnew'[c] = crow'[c]
                          ELSE crow'[c] = crow[c] /\ cnew'[c] = cnew[c]
  BY <1>1 DEF Commit
<1>4. anew' \in [Agents -> AgentRows] /\ cnew' \in [Convs -> ConvRows]
  BY <1>1 DEF IInv, TypeOK
<1>5. reclosed' \in BOOLEAN
  BY DEF Commit, IInv, TypeOK
<1>6. /\ Goto(t, "idle")
      /\ alock' = [a \in Agents |-> IF alock[a] = t THEN Free ELSE alock[a]]
      /\ clock' = [c \in Convs |-> IF clock[c] = t THEN Free ELSE clock[c]]
  BY DEF Commit
<1> QED
  BY <1>1, <1>2, <1>3, <1>4, <1>5, <1>6, EndKeeps

LEMMA CreateAgentKeeps ==
  ASSUME IInv, NEW a \in Agents, NEW m \in Limits, CreateAgent(a, m)
  PROVE  IInv'
<1>1. PICK row \in AgentRows : row = [NoAgentRow EXCEPT !.live = TRUE, !.max = m]
  BY NoRowsTyped DEF AgentRows
<1>2. /\ arow' = [arow EXCEPT ![a] = row] /\ anew' = [anew EXCEPT ![a] = row]
      /\ UNCHANGED <<crow, cnew, alock, clock, call, step, lastID, begun, reclosed>>
  BY <1>1 DEF CreateAgent, locks, counters
<1>3. TypeOK'
  BY <1>2 DEF IInv, TypeOK
<1>4. Holds'
  BY <1>2, SameHolds DEF Holds
<1>5. WellCalled' /\ Unused'
  BY <1>2 DEF IInv, WellCalled, CallOK, Unused
<1> QED
  BY <1>3, <1>4, <1>5 DEF IInv

-----------------------------------------------------------------------------
(* The invariant *)

LEMMA InitOK == Init => IInv
<1> SUFFICES ASSUME Init PROVE IInv
  OBVIOUS
<1>1. CreateCall(NoConv) \in Calls /\ CreateCall(NoConv).op = "create"
  BY CreateCallTyped
<1>2. TypeOK
  <2>1. arow \in [Agents -> AgentRows] /\ anew = arow
    BY NoRowsTyped DEF Init
  <2>2. crow \in [Convs -> ConvRows] /\ cnew = crow
    BY NoRowsTyped DEF Init
  <2>3. /\ alock \in [Agents -> Backends \cup {Free}] /\ \A a \in Agents : alock[a] = Free
        /\ clock \in [Convs -> Backends \cup {Free}] /\ \A c \in Convs : clock[c] = Free
    BY DEF Init
  <2>4. call \in [Backends -> Calls]
    BY <1>1 DEF Init
  <2>5. step \in [Backends -> Steps]
    BY DEF Init, Steps
  <2>6. lastID \in 0..MaxConversations /\ begun \in 0..MaxTransactions
    BY BoundAssumption DEF Init
  <2>7. reclosed \in BOOLEAN
    BY DEF Init
  <2> QED
    BY <2>1, <2>2, <2>3, <2>4, <2>5, <2>6, <2>7 DEF TypeOK
<1>3. Holds
  BY BackendsAssumption DEF Init, Holds, HoldsBy
<1>4. WellCalled
  BY <1>1 DEF Init, WellCalled, CallOK
<1>5. Unused
  BY DEF Init, Unused, NoConvRow
<1> QED
  BY <1>2, <1>3, <1>4, <1>5 DEF IInv

\* What a transaction does by itself, but for its end, is such a step.
LEMMA GoingOnWrites ==
  ASSUME IInv, NEW t \in Backends, AgentStep(t) \/ ConvStep(t)
  PROVE  IInv' /\ Writes(t)
<1>1. CASE AgentStep(t)
  BY <1>1, LocksKeep, AgentsKeep, LoopKeeps, PickUpKeeps DEF AgentStep
<1>2. CASE ConvStep(t)
  BY <1>2, LocksKeep, VisitorMessageKeeps, AgentMessageKeeps, RevokeKeeps, ConvsKeep,
     CloseKeeps, TransferKeeps, MoveKeeps, AssignKeeps DEF ConvStep
<1> QED
  BY <1>1, <1>2

LEMMA ProceedKeeps ==
  ASSUME IInv, NEW t \in Backends, Proceed(t)
  PROVE  IInv'
<1>1. CASE AgentStep(t) \/ ConvStep(t)
  BY <1>1, GoingOnWrites
<1>2. CASE Refuse(t)
  BY <1>2, RollbackKeeps DEF Refuse
<1>3. CASE Commit(t)
  BY <1>3, CommitKeeps
<1> QED
  BY <1>1, <1>2, <1>3 DEF Proceed

LEMMA StepOK == IInv /\ [Next]_vars => IInv'
<1> SUFFICES ASSUME IInv, [Next]_vars PROVE IInv'
  OBVIOUS
<1>1. CASE \E t \in Backends, k \in Requests : Begin(t, k)
  BY <1>1, BeginKeeps
<1>2. CASE \E t \in Backends : BeginCreate(t)
  BY <1>2, BeginCreateKeeps
<1>3. CASE \E t \in Backends : Proceed(t)
  BY <1>3, ProceedKeeps
<1>4. CASE \E t \in Backends : TimeOut(t) \/ DeadlockVictim(t)
  BY <1>4, RollbackKeeps DEF TimeOut, DeadlockVictim
<1>5. CASE \E a \in Agents, m \in Limits : CreateAgent(a, m)
  BY <1>5, CreateAgentKeeps
<1>6. CASE UNCHANGED vars
  <2>1. TypeOK'
    BY <1>6 DEF IInv, TypeOK, vars
  <2>2. \A t \in Backends : HoldsBy(t)'
    BY <1>6, SameHolds DEF vars
  <2>3. WellCalled' /\ Unused'
    BY <1>6 DEF IInv, WellCalled, CallOK, Unused, vars
  <2> QED
    BY <2>1, <2>2, <2>3 DEF IInv, Holds
<1> QED
  BY <1>1, <1>2, <1>3, <1>4, <1>5, <1>6 DEF Next

\* What transactions hold at each of their steps, whatever the others do: every
\* run of the store keeps IInv.
THEOREM Inductive == Spec => []IInv
<1> QED
  BY InitOK, StepOK, PTL DEF Spec

\* Rows and transactions keep their types, a row nobody has locked has no version
\* but the committed one, and a transaction that has ended has left no lock behind.
THEOREM TypeCorrect == Spec => []TypeOK
<1>1. IInv => TypeOK
  BY DEF IInv
<1> QED
  BY <1>1, Inductive, PTL

-----------------------------------------------------------------------------
(* Deadlocks *)

\* Who is waited for holds a lock.
LEMMA AwaitedHolds ==
  ASSUME IInv, NEW t \in Backends, NEW u \in Backends, u \in WaitsFor(t)
  PROVE  step[u] \notin Outside
<1>1. (\E a \in Agents : alock[a] = u) \/ (\E c \in Convs : clock[c] = u)
  BY DEF WaitsFor, AgentsAwaited, ConvsAwaited
<1> QED
  BY <1>1 DEF IInv, Holds, HoldsBy

\* Dispatch waits for no agent: SKIP LOCKED.
LEMMA DispatchSkips ==
  ASSUME NEW t, NEW a \in Candidates(t)
  PROVE  alock[a] \in {Free, t}
  BY DEF Candidates, AgentFree

\* One that holds a lock and waits closes, transfers, or releases an agent's
\* conversations; that one waits for a conversation of its agent.
LEMMA WaitsWhileHolding ==
  ASSUME IInv, NEW t \in Backends, NEW u \in WaitsFor(t), step[t] \notin Outside
  PROVE  \/ call[t].op \in {"close", "transfer"}
         \/ /\ step[t] = "release"
            /\ \E c \in Convs : clock[c] = u /\ crow[c].owner = call[t].agent
<1>1. HoldsBy(t) /\ u \notin {Free, t}
  BY DEF IInv, Holds, WaitsFor
<1>2. CASE \E a \in AgentsAwaited(t) : alock[a] = u
  <2>1. PICK a \in AgentsAwaited(t) : alock[a] = u
    BY <1>2
  <2>2. a \notin Candidates(t)
    BY <1>1, <2>1, DispatchSkips
  <2> QED
    BY <1>1, <2>1, <2>2 DEF AgentsAwaited, At, Outside, HoldsBy
<1>3. CASE \E c \in ConvsAwaited(t) : clock[c] = u
  <2>1. PICK c \in ConvsAwaited(t) : clock[c] = u
    BY <1>3
  <2>2. c \in Convs /\ step[t] = "release" /\ ConvSeen(t, c).owner = call[t].agent
    BY <2>1 DEF ConvsAwaited, At, Outside, Served, ClosedOf, IsOldest
  <2>3. crow[c].owner = call[t].agent
    BY <1>1, <2>1, <2>2 DEF ConvSeen
  <2> QED
    BY <2>1, <2>2, <2>3
<1> QED
  BY <1>2, <1>3 DEF WaitsFor

LEMMA Deadlocks == IInv => DeadlocksNeedClosingOrTransfer
<1> SUFFICES ASSUME IInv, NEW S \in SUBSET Backends, Cycle(S)
             PROVE  /\ \A t \in S : call[t].op \in AgentOps \cup {"close", "transfer"}
                    /\ \E t \in S : call[t].op \in {"close", "transfer"}
  BY DEF DeadlocksNeedClosingOrTransfer
<1>1. \A t \in S : step[t] \notin Outside
  BY AwaitedHolds DEF Cycle
<1>2. \A t \in S : \E u \in S : u \in WaitsFor(t)
  BY DEF Cycle
<1>3. \A t \in S : step[t] = "release" =>
        call[t].op \in AgentOps /\ alock[call[t].agent] = t
  BY AtRelease
<1>4. \A t \in S : call[t].op \in AgentOps \cup {"close", "transfer"}
  BY <1>1, <1>2, <1>3, WaitsWhileHolding
<1>5. ASSUME \A t \in S : call[t].op \notin {"close", "transfer"}
      PROVE  FALSE
  <2>1. PICK t \in S, u \in S : u \in WaitsFor(t)
    BY <1>2 DEF Cycle
  <2>2. step[t] = "release" /\ step[u] = "release"
    BY <1>1, <1>2, <1>5, <2>1, WaitsWhileHolding
  <2>3. PICK c \in Convs : clock[c] = u /\ crow[c].owner = call[t].agent
    BY <1>1, <1>5, <2>1, WaitsWhileHolding
  <2>4. crow[c].owner = call[u].agent
    BY <2>2, <2>3, AtRelease
  <2>5. t # u
    BY <2>1 DEF WaitsFor
  <2> QED
    BY <1>3, <2>2, <2>3, <2>4, <2>5
<1> QED
  BY <1>4, <1>5

\* Whoever waits in a circle closes, transfers or releases, and one of them closes or
\* transfers: the store cannot deadlock on messages, timers, new conversations and
\* any number of agents leaving, whatever conversations they have.
THEOREM DeadlockOnlyThere == Spec => []DeadlocksNeedClosingOrTransfer
<1> QED
  BY Inductive, Deadlocks, PTL

=============================================================================
