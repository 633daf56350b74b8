\* One agent that may serve one conversation at a time.
CONSTANTS
  Agents = {1}
  MaxConversations = 3
  Limits = {1}
  AIModes = {"human_first"}
SPECIFICATION Spec
PROPERTY RealLoadWithinLimits
