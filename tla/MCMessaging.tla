---------------------------- MODULE MCMessaging ----------------------------
(***************************************************************************)
(* Module Messaging for TLC with two agents: what two people write in the  *)
(* same conversation, and what each may revoke, as it passes between them. *)
(***************************************************************************)
EXTENDS Messaging

\* Bound: the settings stay as they are seeded, agents are online or offline.
\* Module Messaging itself is checked with everything else one agent can do in
\* the run with fairness.
SeededSettings ==
  /\ aiEnabled /\ bizEnabled
  /\ \A a \in Agents : ~disabled[a] /\ agentStatus[a] # "busy"

=============================================================================
