\* One conversation, one agent, two messages, every goroutine ends.
CONSTANTS
  Agents = {1}
  MaxConversations = 1
  Limits = {1}
  AIModes = {"human_first"}
  ClientIDs = {}
  Paddings = {FALSE}
  MaxMessages = 2
SPECIFICATION FairSpec
INVARIANTS
  MTypeOK
  ClosingComesLast
PROPERTIES
  AskedIsAnswered
  SilenceEnds
  KeywordReachesHuman
