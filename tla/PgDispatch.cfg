\* Two backends, two transactions, two agents, two conversations.
CONSTANTS
  Agents = {1, 2}
  MaxConversations = 2
  Limits = {1, 2}
  AIModes = {"human_first", "manual_only", "always_ai"}
  ClientIDs = {1}
  Requests <- MCRequests
  Backends = {1, 2}
  MaxTransactions = 2
\* Once MaxTransactions have ended nothing is left to do.
CHECK_DEADLOCK FALSE
SPECIFICATION FairSituationSpec
INVARIANTS
  TypeOK
  CounterCorrect
  OwnersCanServe
  UnreadIsUnanswered
  DeadlocksNeedClosingOrTransfer
PROPERTIES
  ActsAtOnce
  TransactionsEnd
