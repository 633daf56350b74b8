\* A visitor asks for a human while the AI writes a reply.
CONSTANTS
  Agents = {1}
  MaxConversations = 1
  Limits = {1}
  AIModes = {"human_first"}
  ClientIDs = {}
  Paddings = {FALSE}
  MaxMessages = 2
SPECIFICATION MSpec
PROPERTY HumanRequestKept
