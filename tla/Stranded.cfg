\* A new conversation begins while another transaction is under way.
CONSTANTS
  Agents = {1, 2}
  MaxConversations = 2
  Limits = {1, 2}
  AIModes = {"human_first"}
  ClientIDs = {1}
  Requests <- MCRequests
  Backends = {1, 2}
  MaxTransactions = 2
\* Once MaxTransactions have ended nothing is left to do.
CHECK_DEADLOCK FALSE
SPECIFICATION SituationSpec
PROPERTY NewIsDispatched
