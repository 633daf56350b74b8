---------------------------- MODULE MCPgDispatch ----------------------------
(***************************************************************************)
(* Module PgDispatch for TLC: two transactions that overlap in every way,  *)
(* begun in the situations of a running store that tell them apart.        *)
(***************************************************************************)
EXTENDS PgDispatch

Row(status, max, current) ==
  [live |-> TRUE, status |-> status, disabled |-> FALSE, max |-> max, current |-> current]
Disabled == [Row("offline", 1, 0) EXCEPT !.disabled = TRUE]
Conv(status, owner, log, unread) ==
  [status |-> status, owner |-> owner, log |-> log, unread |-> unread]
Agents2(r1, r2) == [a \in Agents |-> IF a = 1 THEN r1 ELSE r2]
Convs2(r1, r2) == [c \in Convs |-> IF c = 1 THEN r1 ELSE r2]

Asked == <<Entry("visitor", NoAgent, 1, 0)>>
Answered == Append(Asked, Entry("agent", 1, 1, 0))

\* Every one is reached from Init by a few calls, one after the other.
Situations ==
  { \* Nothing has happened yet.
    <<Agents2(Row("online", 1, 0), NoAgentRow), Convs2(NoConvRow, NoConvRow), 0>>,
    \* Two visitors wait, and nobody is there.
    <<Agents2(Row("offline", 1, 0), Row("offline", 2, 0)),
      Convs2(Conv("human_requested", 0, Asked, 1), Conv("waiting", 0, << >>, 0)), 2>>,
    \* The AI serves one visitor; one agent is free, one is disabled.
    <<Agents2(Row("online", 1, 0), Disabled),
      Convs2(Conv("ai_serving", 0, Asked, 1), NoConvRow), 1>>,
    \* Each agent has a conversation, and room for one more.
    <<Agents2(Row("online", 2, 1), Row("online", 2, 1)),
      Convs2(Conv("assigned", 1, Asked, 1), Conv("assigned", 2, Asked, 1)), 2>>,
    \* One agent has both, the other is free.
    <<Agents2(Row("online", 2, 2), Row("online", 1, 0)),
      Convs2(Conv("assigned", 1, Answered, 0), Conv("ai_serving", 1, Asked, 1)), 2>>,
    \* One conversation is closed; UpdateAgent has made its agent offline.
    <<Agents2(Row("offline", 1, 1), Row("busy", 1, 0)),
      Convs2(Conv("closed", 1, Answered, 0), Conv("assigned", 1, << >>, 0)), 2>>,
    \* The last conversation went from one agent to the other after its answer.
    <<Agents2(Row("online", 1, 0), Row("online", 1, 1)),
      Convs2(Conv("assigned", 2, Answered, 0), NoConvRow), 1>> }

SituationInit ==
  /\ \E s \in Situations : arow = s[1] /\ crow = s[2] /\ lastID = s[3]
  /\ anew = arow /\ cnew = crow
  /\ alock = [a \in Agents |-> Free] /\ clock = [c \in Convs |-> Free]
  /\ call = [t \in Backends |-> CreateCall(NoConv)]
  /\ step = [t \in Backends |-> "idle"]
  /\ begun = 0
  /\ reclosed = FALSE

Ask(op, a, c, word, num) == [op |-> op, agent |-> a, conv |-> c, word |-> word, num |-> num]

OfAgents ==
  {Ask("set_status", a, NoConv, s, 0) : a \in Agents, s \in AgentStatuses}
  \cup {Ask("update_agent", a, NoConv, "offline", 1) : a \in Agents}
  \cup {Ask(op, a, NoConv, "", 0) : op \in {"disable_agent", "delete_agent"}, a \in Agents}

OfConversations ==
  {Ask("visitor_message", NoAgent, c, w, 1) : c \in 1..2, w \in {"text", "human_keyword"}}
  \cup {Ask("agent_message", a, c, "", 1) : a \in Agents, c \in 1..2}
  \cup {Ask("revoke", a, 1, "", 2) : a \in {NoAgent, 1}}
  \cup {Ask("escalate", NoAgent, c, "", 1) : c \in 1..2}
  \cup {Ask("close", a, c, "", 0) : a \in {NoAgent, 1}, c \in 1..2}
  \cup {Ask("transfer", a, c, "", 0) : a \in Agents \cup {NoAgent}, c \in 1..2}
  \cup {Ask(op, NoAgent, c, "", 0) :
          op \in {"ai_message", "mark_read", "delete_conversation"}, c \in 1..2}

MCRequests == OfAgents \cup OfConversations

SituationSpec == SituationInit /\ [][Next]_vars
FairSituationSpec == SituationSpec /\ Fairness

=============================================================================
