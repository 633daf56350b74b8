---------------------------- MODULE ReleaseLoop ----------------------------
(***************************************************************************)
(* The loop that hands out the conversations of an agent that went         *)
(* offline, was disabled or was deleted, one conversation at a time, in    *)
(* the random order in which Go iterates over a map.  Dispatch describes   *)
(* the outcome of the whole loop at once, by GreedyDispatch; this module   *)
(* runs the loop with the very assignConversationLocked of Dispatch and    *)
(* checks that the outcomes are those and no others.                       *)
(***************************************************************************)
EXTENDS Dispatch

CONSTANT Counters   \* what agent.CurrentConversations may be when the loop starts

ASSUME CountersAssumption == Counters \subseteq Nat

VARIABLES
  todo,    \* conversations the loop has not reached
  before   \* the agents' counters when the loop started

loopVars == <<vars, todo, before>>

Atomic == INSTANCE Dispatch WITH current <- before

\* Any counters, maximums and statuses; the counters also stand for the
\* conversations of the other agents.  The conversations to hand out are Convs.
LoopInit ==
  /\ agents = Agents
  /\ agentStatus \in [Agents -> {"online", "offline"}]
  /\ disabled = [a \in Agents |-> FALSE]
  /\ maxConv \in [Agents -> Limits]
  /\ current \in [Agents -> Counters]
  /\ lastID = MaxConversations
  /\ convStatus = [c \in Convs |-> "waiting"]
  /\ owner = [c \in Convs |-> NoAgent]
  /\ aiEnabled \in BOOLEAN
  /\ aiMode \in AIModes
  /\ bizEnabled = TRUE
  /\ reclosed = FALSE
  /\ todo = Convs
  /\ before = current

\* One iteration.
ReleaseOne(c) ==
  /\ c \in todo
  /\ todo' = todo \ {c}
  /\ AssignConversation(c, IF AIActive THEN "ai_serving"
                           ELSE StatusUnassigned("waiting"))
  /\ UNCHANGED <<agentVars, lastID, settings, reclosed, before>>

LoopDone == todo = {} /\ UNCHANGED loopVars

LoopNext == (\E c \in Convs : ReleaseOne(c)) \/ LoopDone

LoopSpec == LoopInit /\ [][LoopNext]_loopVars

-----------------------------------------------------------------------------
\* What the loop did to the owners is an outcome GreedyDispatch allows.
LoopIsGreedy == Atomic!GreedyDispatch(owner, Convs, Atomic!Candidates)

\* No outcome it allows leaves other counters than the loop: the order of the map
\* decides who gets which conversation, never how many.
GreedyIsTheLoop ==
  \A dest \in [Convs -> Atomic!Candidates \cup {NoAgent}] :
    Atomic!GreedyDispatch(dest, Convs, Atomic!Candidates) =>
      \A a \in Agents : Atomic!LoadAfter(dest, Convs, a) = current[a]

\* In every order of the conversations the loop ends with what Dispatch says it
\* does at once: the one assignment of numbers to agents that dispatching them
\* one by one, always to the least loaded, can lead to.
LoopIsDispatch == todo = {} => LoopIsGreedy /\ GreedyIsTheLoop

=============================================================================
