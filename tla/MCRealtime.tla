---------------------------- MODULE MCRealtime -----------------------------
(***************************************************************************)
(* Module Realtime for TLC: an agent with a connection to each of two      *)
(* nodes, an administrator, and a worker on each node.                     *)
(***************************************************************************)
EXTENDS Realtime

CONSTANTS n1, n2, w1, w2,  \* nodes, workers
          phone, tablet,   \* connections of the agent to n1 and to n2
          browser          \* the administrator's connection to n1

MCNodeOf == [x \in Workers \cup Clients |-> IF x \in {w2, tablet} THEN n2 ELSE n1]
MCRoleOf == [c \in Clients |-> IF c = browser THEN "admin" ELSE "agent"]
MCAccountOf == [c \in Clients |-> IF c = browser THEN "super" ELSE "kf"]

\* Bound: n2, where nobody is connected, misses every event.  What w2 sends there
\* still reaches n1, and n1 gets back what w1 sends.
NobodyListensThere == \A n \in Nodes \ {n1} : wire[n] = <<>>

=============================================================================
