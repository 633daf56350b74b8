\* One conversation passing between two agents.
CONSTANTS
  Agents = {1, 2}
  MaxConversations = 1
  Limits = {1}
  AIModes = {"human_first"}
  ClientIDs = {1}
  Paddings = {FALSE}
  MaxMessages = 2
SPECIFICATION MSpec
CONSTRAINT SeededSettings
INVARIANTS
  WrittenOnce
  UnreadForVisitorCounts
  AnsweredAtMostOnce
  UnreadForAgentIsUnanswered
PROPERTY
  EscalatesOnlyUnanswered
