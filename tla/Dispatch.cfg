\* Two agents and two conversations under every setting.  manual_only decides as
\* human_first does with the AI switched off: it would double those states only.
CONSTANTS
  Agents = {1, 2}
  MaxConversations = 2
  Limits = {1, 2}
  AIModes = {"human_first", "always_ai"}
SPECIFICATION Spec
INVARIANTS
  TypeOK
  OwnerMatchesStatus
  OwnersCanServe
  CounterMatchesLoad
PROPERTIES
  ClosedIsFinal
  NoStealing
  DispatchWithinLimits
  ActsAtOnce
