\* A client sends its message ids with a blank after them.
CONSTANTS
  Agents = {1}
  MaxConversations = 1
  Limits = {1}
  AIModes = {"human_first"}
  ClientIDs = {1}
  Paddings = {TRUE, FALSE}
  MaxMessages = 2
SPECIFICATION MSpec
INVARIANT WrittenOnce
