------------------------ MODULE PgRefinementProofs ------------------------
(***************************************************************************)
(* That what transactions commit is a step of module Ownership, however    *)
(* they interleave (ActsAtOnce of module PgDispatch), for any agents,      *)
(* conversations, calls and number of backends.                            *)
(*                                                                         *)
(* The argument: what a transaction has done to the rows it has locked, by *)
(* where it is, against their committed versions (EffectOf).  Nobody else  *)
(* can disturb that, because it is about locked rows and about whose       *)
(* conversations they are, which needs the agent's lock.  At the commit it *)
(* is what one step of Ownership does.                                     *)
(***************************************************************************)
EXTENDS PgOwnershipProofs

\* Two versions of an agent's row that differ in the counter at most.
SameAgent(x, y) ==
  x.live = y.live /\ x.status = y.status /\ x.disabled = y.disabled /\ x.max = y.max

SameOwner(x, y) == x.status = y.status /\ x.owner = y.owner

\* Dispatch may give the agent of this row one more conversation.
CanTake(row) == row.live /\ row.status = "online" /\ ~row.disabled /\ row.current < row.max

\* Of the rows t has locked, those of other agents and conversations are as they were.
AgentsKept(t, A) == \A a \in Agents \ A : alock[a] = t => anew[a] = arow[a]
ConvsKept(t, C) == \A c \in Convs \ C : clock[c] = t => SameOwner(cnew[c], crow[c])

\* t has locked the agent's row and counts one more, or one less.
CountsMore(t, b) ==
  alock[b] = t /\ SameAgent(anew[b], arow[b]) /\ anew[b].current = arow[b].current + 1
CountsLess(t, b) ==
  /\ alock[b] = t /\ SameAgent(anew[b], arow[b])
  /\ anew[b].current = IF arow[b].current > 0 THEN arow[b].current - 1 ELSE 0

-----------------------------------------------------------------------------
(* What transactions do, by where they are *)

\* An agent edited, or made busy.
Edited(t) ==
  LET a == call[t].agent
  IN /\ a \in Agents /\ alock[a] = t
     /\ AgentsKept(t, {a}) /\ ConvsKept(t, {})
     /\ arow[a].live /\ anew[a].live
     /\ anew[a].disabled = arow[a].disabled /\ anew[a].current = arow[a].current
     /\ arow[a].disabled /\ anew[a].status = "online" => arow[a].status = "online"

Locked(t) == {c \in Convs : clock[c] = t}

\* An agent come online has taken what t has locked of the queue.
TookUp(t) ==
  LET a == call[t].agent
  IN /\ a \in Agents /\ alock[a] = t /\ AgentsKept(t, {a})
     /\ \A c \in Locked(t) : /\ Waits(crow[c])
                             /\ cnew[c].status = "assigned" /\ cnew[c].owner = a
     /\ arow[a].live /\ ~arow[a].disabled
     /\ anew[a].live /\ ~anew[a].disabled /\ anew[a].max = arow[a].max
     /\ anew[a].status = "online"
     /\ anew[a].current = arow[a].current + Cardinality(Locked(t))
     /\ Locked(t) # {} => anew[a].current <= arow[a].max

\* The conversations t has given to agent b.
Given(t, b) == {c \in Convs : clock[c] = t /\ IsOpen(crow[c]) /\ cnew[c].owner = b}

\* A conversation of agent a that t has locked: still to be given away, given away,
\* or closed and no longer the agent's.
Passed(t, a, c) ==
  \/ SameOwner(cnew[c], crow[c])
  \/ /\ IsOpen(crow[c]) /\ cnew[c].owner = NoAgent
     /\ cnew[c].status \in {"waiting", "ai_serving"}
  \/ /\ IsOpen(crow[c]) /\ cnew[c].status = "assigned"
     /\ cnew[c].owner \in Agents \ {a} /\ alock[cnew[c].owner] = t
  \/ /\ call[t].op = "delete_agent" /\ crow[c].status = "closed"
     /\ cnew[c].status = "closed" /\ cnew[c].owner = NoAgent

\* The other agents whose rows t has locked count what t gave them, within their limits.
Receiver(t, b) ==
  alock[b] = t =>
    /\ SameAgent(anew[b], arow[b])
    /\ anew[b].current = arow[b].current + Cardinality(Given(t, b))
    /\ Given(t, b) # {} => CanTake(arow[b]) /\ anew[b].current <= arow[b].max

\* In a release, the loop and after it.
Handing(t) ==
  LET a == call[t].agent
  IN /\ a \in Agents /\ alock[a] = t /\ arow[a].live
     /\ \A c \in Locked(t) : crow[c].owner = a /\ Passed(t, a, c)
     /\ \A b \in Agents \ {a} : Receiver(t, b)

\* The row of the agent that leaves, while it is there.
Gone(t) ==
  LET a == call[t].agent
  IN /\ anew[a].live /\ anew[a].status = "offline" /\ anew[a].current = 0
     /\ anew[a].max = arow[a].max
     /\ call[t].op \in {"set_status", "disable_agent", "delete_agent"}
     /\ IF call[t].op = "disable_agent" THEN anew[a].disabled
        ELSE anew[a].disabled = arow[a].disabled

\* The loop is over: nothing open is the agent's, nothing at all when it is deleted.
HandedOut(t) ==
  LET a == call[t].agent
  IN /\ Handing(t)
     /\ \A c \in Convs : Serves(crow[c], a) => clock[c] = t /\ cnew[c].owner # a
     /\ \/ Gone(t) /\ call[t].op # "delete_agent"
        \/ /\ anew[a] = NoAgentRow /\ call[t].op = "delete_agent"
           /\ \A c \in Convs : crow[c].owner = a => clock[c] = t /\ cnew[c].owner # a

\* A conversation that has nobody is about to be dispatched.
Unassigned(t) ==
  LET c == call[t].conv
  IN /\ AgentsKept(t, {}) /\ ConvsKept(t, {c})
     /\ crow[c].status # "closed" /\ crow[c].owner = NoAgent
     /\ call[t].op = "create" => crow[c].status = "none"

\* What a change to one conversation comes to.
Progressed(t, c) ==
  /\ AgentsKept(t, {})
  /\ crow[c].status # "closed" /\ cnew[c].owner = crow[c].owner
  /\ \/ /\ crow[c].owner = NoAgent
        /\ cnew[c].status \in {"waiting", "human_requested", "ai_serving"}
        /\ cnew[c].status = "waiting" => crow[c].status = "none"
     \/ crow[c].owner # NoAgent /\ cnew[c].status \in {"assigned", "ai_serving"}

DispatchedTo(t, c, b) ==
  /\ AgentsKept(t, {b}) /\ CountsMore(t, b) /\ CanTake(arow[b])
  /\ crow[c].status # "closed" /\ crow[c].owner = NoAgent
  /\ cnew[c].status = "assigned" /\ cnew[c].owner = b

ClosedBy(t, c) ==
  /\ AgentsKept(t, {crow[c].owner})
  /\ crow[c].owner # NoAgent => CountsLess(t, crow[c].owner)
  /\ crow[c].status # "none" /\ cnew[c].status = "closed" /\ cnew[c].owner = crow[c].owner

RemovedBy(t, c) ==
  /\ AgentsKept(t, {})
  /\ crow[c].status = "closed" /\ cnew[c].status = "none" /\ cnew[c].owner = NoAgent

MovedTo(t, c, b) ==
  /\ AgentsKept(t, {b, crow[c].owner}) /\ CountsMore(t, b)
  /\ crow[c].owner # NoAgent => CountsLess(t, crow[c].owner)
  /\ IsOpen(crow[c]) /\ crow[c].owner # b /\ arow[b].live /\ ~arow[b].disabled
  /\ cnew[c].status = "assigned" /\ cnew[c].owner = b

Changed(t) ==
  LET c == call[t].conv
  IN /\ c \in Convs /\ clock[c] = t /\ ConvsKept(t, {c})
     /\ \/ AgentsKept(t, {}) /\ SameOwner(cnew[c], crow[c])
        \/ Progressed(t, c) \/ ClosedBy(t, c) \/ RemovedBy(t, c)
        \/ \E b \in Agents : DispatchedTo(t, c, b) \/ MovedTo(t, c, b)

\* What t has done so far, and what it has done when it commits.
EffectOf(t) ==
  /\ step[t] \in {"work", "move"} => AgentsKept(t, {})
  /\ step[t] = "assign" => Unassigned(t)
  /\ step[t] = "release" => Handing(t) /\ Gone(t)
  /\ step[t] = "pick_up" => TookUp(t)
  /\ step[t] = "commit" => Edited(t) \/ TookUp(t) \/ HandedOut(t) \/ Changed(t)

Effects == \A t \in Backends : EffectOf(t)

-----------------------------------------------------------------------------
(* What is committed is a step of Ownership *)

\* Ownership counts as PgDispatch does.
LEMMA SameCount == \A S : Store!Cardinality(S) = Cardinality(S)
BY DEF Store!Cardinality, Cardinality

LEMMA LimitsAreNaturals == Limits \cup {NoLimit} \subseteq Nat
BY LimitsAssumption DEF NoLimit

LEMMA AgentFields ==
  ASSUME NEW row \in AgentRows
  PROVE  /\ row.live \in BOOLEAN /\ row.disabled \in BOOLEAN
         /\ row.status \in {"online", "busy", "offline"}
         /\ row.max \in Nat /\ row.current \in Nat
BY LimitsAreNaturals DEF AgentRows, AgentStatuses

LEMMA EditRefines ==
  ASSUME TypeOK, TypeOK', NEW a \in Agents,
         arow[a].live, arow'[a].live, arow'[a].disabled = arow[a].disabled,
         arow'[a].current = arow[a].current,
         arow[a].disabled /\ arow'[a].status = "online" => arow[a].status = "online",
         \A b \in Agents \ {a} : arow'[b] = arow[b],
         \A c \in Convs : SameOwner(crow'[c], crow[c])
  PROVE  Store!Edit(a)
<1>1. /\ arow \in [Agents -> AgentRows] /\ arow' \in [Agents -> AgentRows]
  BY DEF TypeOK
<1>2. /\ a \in {b \in Agents : arow[b].live}
      /\ arow'[a].status \in {"online", "busy", "offline"}
      /\ \A b \in Agents : arow'[b].max \in Nat
  BY <1>1, AgentFields
<1>3. Store!NewLimit(a)
  BY <1>1, <1>2 DEF Store!NewLimit
<1> QED
  BY <1>1, <1>2, <1>3 DEF Store!Edit, Store!convVars, SameOwner

LEMMA PickUpRefines ==
  ASSUME TypeOK, TypeOK', NEW a \in Agents, NEW T \in SUBSET Convs,
         arow[a].live, ~arow[a].disabled, arow'[a].live, ~arow'[a].disabled,
         arow'[a].max = arow[a].max, arow'[a].status = "online",
         arow'[a].current = arow[a].current + Cardinality(T),
         T # {} => arow'[a].current <= arow[a].max,
         \A b \in Agents \ {a} : arow'[b] = arow[b],
         \A c \in T : Waits(crow[c]) /\ crow'[c].status = "assigned" /\ crow'[c].owner = a,
         \A c \in Convs \ T : SameOwner(crow'[c], crow[c])
  PROVE  Store!PickUp(a)
<1>1. /\ arow \in [Agents -> AgentRows] /\ arow' \in [Agents -> AgentRows]
      /\ crow \in [Convs -> ConvRows] /\ crow' \in [Convs -> ConvRows]
  BY DEF TypeOK
<1>2. /\ arow'[a].current = arow[a].current + Store!Cardinality(T)
      /\ T # {} => arow[a].current + Store!Cardinality(T) <= arow[a].max
  BY SameCount
<1>3. T \in SUBSET {c \in Convs :
                      [d \in Convs |-> crow[d].status][c] \in {"waiting", "human_requested"}}
  BY DEF Waits
<1>4. /\ [b \in Agents |-> arow'[b].status] = [[b \in Agents |-> arow[b].status] EXCEPT ![a] = "online"]
      /\ [b \in Agents |-> arow'[b].current] =
           [[b \in Agents |-> arow[b].current] EXCEPT ![a] = @ + Store!Cardinality(T)]
      /\ [b \in Agents |-> arow'[b].disabled] = [b \in Agents |-> arow[b].disabled]
      /\ [b \in Agents |-> arow'[b].max] = [b \in Agents |-> arow[b].max]
      /\ {b \in Agents : arow'[b].live} = {b \in Agents : arow[b].live}
  <2>1. arow'[a].disabled = arow[a].disabled /\ arow'[a].live = arow[a].live
    BY <1>1, AgentFields
  <2> QED
    BY <1>2, <2>1
<1>5. /\ [c \in Convs |-> crow'[c].owner] =
           [c \in Convs |-> IF c \in T THEN a ELSE [d \in Convs |-> crow[d].owner][c]]
      /\ [c \in Convs |-> crow'[c].status] =
           [c \in Convs |-> IF c \in T THEN "assigned" ELSE [d \in Convs |-> crow[d].status][c]]
  BY DEF SameOwner
<1> QED
  BY <1>2, <1>3, <1>4, <1>5 DEF Store!PickUp

\* A release.
LEMMA RedispatchRefines ==
  ASSUME TypeOK, TypeOK', NEW a \in Agents, arow'[a].current = 0,
         \A c \in Serving(a) :
           \/ crow'[c].owner = NoAgent /\ crow'[c].status \in {"waiting", "ai_serving"}
           \/ crow'[c].owner \in Agents \ {a} /\ crow'[c].status = "assigned",
         \A c \in Convs \ Serving(a) :
           /\ crow'[c].status = crow[c].status
           /\ crow'[c].owner = IF arow'[a].live THEN crow[c].owner
                               ELSE IF crow[c].owner = a THEN NoAgent ELSE crow[c].owner,
         \A b \in Agents \ {a} :
           /\ arow'[b].current = arow[b].current
                                 + Cardinality({c \in Serving(a) : crow'[c].owner = b})
           /\ {c \in Serving(a) : crow'[c].owner = b} # {} =>
                CanTake(arow[b]) /\ arow'[b].current <= arow[b].max
  PROVE  Store!Redispatch(a)
<1> DEFINE dest == [c \in Serving(a) |-> crow'[c].owner]
           idle == [c \in Serving(a) |-> IF crow'[c].owner = NoAgent THEN crow'[c].status
                                         ELSE "waiting"]
           cur == [b \in Agents |-> arow[b].current]
<1>1. /\ arow \in [Agents -> AgentRows] /\ arow' \in [Agents -> AgentRows]
      /\ crow \in [Convs -> ConvRows] /\ crow' \in [Convs -> ConvRows]
  BY DEF TypeOK
<1>2. Store!Serving(a) = Serving(a) /\ Serving(a) \in SUBSET Convs
  BY DEF Store!Serving, Store!IsOpen, Serving, IsOpen
<1>3. /\ dest \in [Serving(a) -> Agents \cup {NoAgent}]
      /\ idle \in [Serving(a) -> {"waiting", "ai_serving"}]
  BY AgentsAssumption
<1>4. \A b : Store!Received(dest, b) = {c \in Serving(a) : crow'[c].owner = b}
  BY DEF Store!Received
<1>5. \A b \in Agents : Store!Available(b) <=> CanTake(arow[b])
  BY DEF Store!Available, CanTake
<1>6. \A c \in Serving(a) : dest[c] # NoAgent => dest[c] # a /\ Store!Available(dest[c])
  BY <1>5
<1>7. \A b \in Agents \ {a} :
        Store!Received(dest, b) # {} =>
          cur[b] + Store!Cardinality(Store!Received(dest, b))
            <= [d \in Agents |-> arow[d].max][b]
  BY <1>4, SameCount
<1>8. [b \in Agents |-> arow'[b].current] =
        [b \in Agents |-> IF b = a THEN 0
                          ELSE cur[b] + Store!Cardinality(Store!Received(dest, b))]
  BY <1>4, SameCount
<1>9. [c \in Convs |-> crow'[c].status] =
        [c \in Convs |-> IF c \notin Serving(a) THEN [d \in Convs |-> crow[d].status][c]
                         ELSE IF dest[c] = NoAgent THEN idle[c] ELSE "assigned"]
  BY AgentsAssumption
<1>10. [c \in Convs |-> crow'[c].owner] =
         [c \in Convs |->
            IF c \in Serving(a) THEN dest[c]
            ELSE IF a \in {b \in Agents : arow'[b].live} THEN [d \in Convs |-> crow[d].owner][c]
            ELSE IF [d \in Convs |-> crow[d].owner][c] = a THEN NoAgent
                 ELSE [d \in Convs |-> crow[d].owner][c]]
  BY <1>1
<1> HIDE DEF dest, idle
<1> QED
  BY <1>2, <1>3, <1>6, <1>7, <1>8, <1>9, <1>10 DEF Store!Redispatch

\* A change to conversation c alone.
LEMMA ProgressRefines ==
  ASSUME NEW c \in Convs, \A b \in Agents : arow'[b] = arow[b],
         \A d \in Convs \ {c} : SameOwner(crow'[d], crow[d]),
         crow[c].status # "closed", crow'[c].owner = crow[c].owner,
         \/ /\ crow[c].owner = NoAgent
            /\ crow'[c].status \in {"waiting", "human_requested", "ai_serving"}
            /\ crow'[c].status = "waiting" => crow[c].status = "none"
         \/ crow[c].owner # NoAgent /\ crow'[c].status \in {"assigned", "ai_serving"}
  PROVE  Store!Progress(c)
<1> DEFINE st == [d \in Convs |-> crow[d].status]
<1>1. /\ st[c] = crow[c].status /\ [d \in Convs |-> crow[d].owner][c] = crow[c].owner
      /\ [d \in Convs |-> crow'[d].status] = [st EXCEPT ![c] = crow'[c].status]
      /\ [d \in Convs |-> crow'[d].owner] = [d \in Convs |-> crow[d].owner]
  BY DEF SameOwner
<1>2. UNCHANGED <<Store!agentVars, [b \in Agents |-> arow[b].current]>>
  BY DEF Store!agentVars
<1> QED
  BY <1>1, <1>2 DEF Store!Progress

LEMMA RemoveRefines ==
  ASSUME NEW c \in Convs, \A b \in Agents : arow'[b] = arow[b],
         \A d \in Convs \ {c} : SameOwner(crow'[d], crow[d]),
         crow[c].status = "closed", crow'[c].status = "none", crow'[c].owner = NoAgent
  PROVE  Store!Remove(c)
<1>1. /\ [d \in Convs |-> crow'[d].status] =
           [[d \in Convs |-> crow[d].status] EXCEPT ![c] = "none"]
      /\ [d \in Convs |-> crow'[d].owner] =
           [[d \in Convs |-> crow[d].owner] EXCEPT ![c] = NoAgent]
  BY DEF SameOwner
<1>2. UNCHANGED <<Store!agentVars, [b \in Agents |-> arow[b].current]>>
  BY DEF Store!agentVars
<1> QED
  BY <1>1, <1>2 DEF Store!Remove

\* One that involves agents: they all stay what they are but for their counters.
LEMMA AgentsRefine ==
  ASSUME \A b \in Agents : SameAgent(arow'[b], arow[b])
  PROVE  UNCHANGED Store!agentVars
BY DEF Store!agentVars, SameAgent

LEMMA DispatchRefines ==
  ASSUME NEW c \in Convs, NEW a \in Agents, CanTake(arow[a]),
         SameAgent(arow'[a], arow[a]), arow'[a].current = arow[a].current + 1,
         \A b \in Agents \ {a} : arow'[b] = arow[b],
         \A d \in Convs \ {c} : SameOwner(crow'[d], crow[d]),
         crow[c].status # "closed", crow[c].owner = NoAgent,
         crow'[c].status = "assigned", crow'[c].owner = a
  PROVE  Store!Dispatch(c, a)
<1>1. /\ [d \in Convs |-> crow'[d].status] =
           [[d \in Convs |-> crow[d].status] EXCEPT ![c] = "assigned"]
      /\ [d \in Convs |-> crow'[d].owner] = [[d \in Convs |-> crow[d].owner] EXCEPT ![c] = a]
      /\ [b \in Agents |-> arow'[b].current] =
           [[b \in Agents |-> arow[b].current] EXCEPT ![a] = @ + 1]
  BY DEF SameOwner
<1>2. UNCHANGED Store!agentVars
  BY AgentsRefine DEF SameAgent
<1>3. Store!Available(a)
  BY DEF Store!Available, CanTake
<1>4. /\ [d \in Convs |-> crow[d].status][c] # "closed"
      /\ [d \in Convs |-> crow[d].owner][c] = NoAgent
  OBVIOUS
<1> QED
  BY <1>1, <1>2, <1>3, <1>4 DEF Store!Dispatch

LEMMA CloseRefines ==
  ASSUME NEW c \in Convs, crow[c].owner \in Agents \cup {NoAgent},
         \A b \in Agents :
           IF b = crow[c].owner
           THEN /\ SameAgent(arow'[b], arow[b])
                /\ arow'[b].current = IF arow[b].current > 0 THEN arow[b].current - 1 ELSE 0
           ELSE arow'[b] = arow[b],
         \A d \in Convs \ {c} : SameOwner(crow'[d], crow[d]),
         crow[c].status # "none", crow'[c].status = "closed", crow'[c].owner = crow[c].owner
  PROVE  Store!Close(c)
<1>1. /\ [d \in Convs |-> crow'[d].status] =
           [[d \in Convs |-> crow[d].status] EXCEPT ![c] = "closed"]
      /\ [d \in Convs |-> crow'[d].owner] = [d \in Convs |-> crow[d].owner]
      /\ [d \in Convs |-> crow[d].status][c] # "none"
  BY DEF SameOwner
<1>2. UNCHANGED Store!agentVars
  BY AgentsRefine DEF SameAgent
<1>3. [b \in Agents |-> arow'[b].current] =
        [b \in Agents |-> IF b = [d \in Convs |-> crow[d].owner][c] THEN Store!Fewer(b)
                          ELSE [d \in Agents |-> arow[d].current][b]]
  BY DEF Store!Fewer
<1> QED
  BY <1>1, <1>2, <1>3 DEF Store!Close

LEMMA MoveRefines ==
  ASSUME NEW c \in Convs, NEW a \in Agents, crow[c].owner # a, IsOpen(crow[c]),
         arow[a].live, ~arow[a].disabled,
         SameAgent(arow'[a], arow[a]), arow'[a].current = arow[a].current + 1,
         \A b \in Agents \ {a} :
           IF b = crow[c].owner
           THEN /\ SameAgent(arow'[b], arow[b])
                /\ arow'[b].current = IF arow[b].current > 0 THEN arow[b].current - 1 ELSE 0
           ELSE arow'[b] = arow[b],
         \A d \in Convs \ {c} : SameOwner(crow'[d], crow[d]),
         crow'[c].status = "assigned", crow'[c].owner = a
  PROVE  Store!Transfer(c, a)
<1>1. /\ [d \in Convs |-> crow'[d].status] =
           [[d \in Convs |-> crow[d].status] EXCEPT ![c] = "assigned"]
      /\ [d \in Convs |-> crow'[d].owner] = [[d \in Convs |-> crow[d].owner] EXCEPT ![c] = a]
  BY DEF SameOwner
<1>2. UNCHANGED Store!agentVars
  BY AgentsRefine DEF SameAgent
<1>3. [b \in Agents |-> arow'[b].current] =
        [b \in Agents |-> IF b = a THEN [d \in Agents |-> arow[d].current][b] + 1
                          ELSE IF b = [d \in Convs |-> crow[d].owner][c] THEN Store!Fewer(b)
                          ELSE [d \in Agents |-> arow[d].current][b]]
  BY DEF Store!Fewer
<1>4. /\ Store!IsOpen(c) /\ [d \in Convs |-> crow[d].owner][c] # a
      /\ a \in {b \in Agents : arow[b].live} /\ ~[b \in Agents |-> arow[b].disabled][a]
  BY DEF Store!IsOpen, IsOpen
<1> QED
  BY <1>1, <1>2, <1>3, <1>4 DEF Store!Transfer

\* A conversation's transaction that commits.
LEMMA ChangedRefines ==
  ASSUME OInv, NEW t \in Backends, Changed(t),
         \A a \in Agents : arow'[a] = IF alock[a] = t THEN anew[a] ELSE arow[a],
         \A c \in Convs : crow'[c] = IF clock[c] = t THEN cnew[c] ELSE crow[c]
  PROVE  Store!Next \/ UNCHANGED Store!vars
<1>0. PICK c \in Convs : c = call[t].conv
  BY DEF Changed
<1>1. /\ clock[c] = t /\ crow'[c] = cnew[c]
      /\ \A d \in Convs \ {c} : SameOwner(crow'[d], crow[d])
  BY <1>0 DEF Changed, ConvsKept, SameOwner
<1>2. PICK x \in Agents \cup {NoAgent} : x = crow[c].owner
  BY DEF OInv, IInv, TypeOK, ConvRows
<1>3. NoAgent \notin Agents
  BY AgentsAssumption
<1>4. AgentsKept(t, {}) => \A b \in Agents : arow'[b] = arow[b]
  BY DEF AgentsKept
<1>5. CASE AgentsKept(t, {}) /\ SameOwner(cnew[c], crow[c])
  BY <1>1, <1>4, <1>5 DEF SameOwner, Store!vars
<1>6. CASE Progressed(t, c)
  <2>1. Store!Progress(c)
    BY <1>1, <1>4, <1>6, ProgressRefines DEF Progressed
  <2> QED
    BY <2>1 DEF Store!Next
<1>7. CASE ClosedBy(t, c)
  <2>1. \A b \in Agents :
          IF b = x
          THEN /\ SameAgent(arow'[b], arow[b])
               /\ arow'[b].current = IF arow[b].current > 0 THEN arow[b].current - 1 ELSE 0
          ELSE arow'[b] = arow[b]
    BY <1>2, <1>3, <1>7 DEF ClosedBy, CountsLess, AgentsKept
  <2>2. Store!Close(c)
    BY <1>1, <1>2, <1>7, <2>1, CloseRefines DEF ClosedBy
  <2> QED
    BY <2>2 DEF Store!Next
<1>8. CASE RemovedBy(t, c)
  <2>1. Store!Remove(c)
    BY <1>1, <1>4, <1>8, RemoveRefines DEF RemovedBy
  <2> QED
    BY <2>1 DEF Store!Next
<1>9. ASSUME NEW b \in Agents, DispatchedTo(t, c, b)
      PROVE  Store!Next
  <2>1. /\ SameAgent(arow'[b], arow[b]) /\ arow'[b].current = arow[b].current + 1
        /\ \A a \in Agents \ {b} : arow'[a] = arow[a]
    BY <1>9 DEF DispatchedTo, CountsMore, AgentsKept
  <2>2. Store!Dispatch(c, b)
    BY <1>1, <1>9, <2>1, DispatchRefines DEF DispatchedTo
  <2> QED
    BY <2>2 DEF Store!Next
<1>10. ASSUME NEW b \in Agents, MovedTo(t, c, b)
       PROVE  Store!Next
  <2>1. SameAgent(arow'[b], arow[b]) /\ arow'[b].current = arow[b].current + 1
    BY <1>10 DEF MovedTo, CountsMore
  <2>2. \A a \in Agents \ {b} :
          IF a = x
          THEN /\ SameAgent(arow'[a], arow[a])
               /\ arow'[a].current = IF arow[a].current > 0 THEN arow[a].current - 1 ELSE 0
          ELSE arow'[a] = arow[a]
    BY <1>2, <1>3, <1>10 DEF MovedTo, CountsLess, AgentsKept
  <2>3. Store!Transfer(c, b)
    BY <1>1, <1>2, <1>10, <2>1, <2>2, MoveRefines DEF MovedTo
  <2> QED
    BY <2>3 DEF Store!Next
<1> QED
  BY <1>0, <1>5, <1>6, <1>7, <1>8, <1>9, <1>10 DEF Changed

\* A release that commits.
LEMMA HandedOutRefines ==
  ASSUME OInv, TypeOK', NEW t \in Backends, HandedOut(t),
         \A a \in Agents : arow'[a] = IF alock[a] = t THEN anew[a] ELSE arow[a],
         \A c \in Convs : crow'[c] = IF clock[c] = t THEN cnew[c] ELSE crow[c]
  PROVE  Store!Next
<1>0. PICK a \in Agents : a = call[t].agent
  BY DEF HandedOut, Handing
<1>1. /\ alock[a] = t /\ arow[a].live /\ arow'[a] = anew[a]
      /\ \A c \in Convs : clock[c] = t => crow[c].owner = a /\ Passed(t, a, c)
      /\ \A b \in Agents \ {a} : Receiver(t, b)
      /\ \A c \in Convs : Serves(crow[c], a) => clock[c] = t /\ cnew[c].owner # a
  BY <1>0 DEF HandedOut, Handing, Locked
<1>2. /\ Serving(a) = {c \in Convs : Serves(crow[c], a)}
      /\ Serving(a) \in SUBSET Convs
  BY DEF Serving, Serves
<1>3. NoAgent \notin Agents
  BY AgentsAssumption
<1>4. ASSUME NEW c \in Serving(a)
      PROVE  /\ clock[c] = t /\ crow'[c] = cnew[c]
             /\ \/ crow'[c].owner = NoAgent /\ crow'[c].status \in {"waiting", "ai_serving"}
                \/ /\ crow'[c].owner \in Agents \ {a} /\ crow'[c].status = "assigned"
                   /\ alock[crow'[c].owner] = t
  <2>1. /\ c \in Convs /\ Serves(crow[c], a) /\ clock[c] = t /\ cnew[c].owner # a
        /\ Passed(t, a, c)
    BY <1>1, <1>2, <1>4
  <2> QED
    BY <2>1 DEF Passed, Serves, SameOwner, IsOpen
<1>5. ASSUME NEW b \in Agents \ {a}, alock[b] = t
      PROVE  {c \in Serving(a) : crow'[c].owner = b} = Given(t, b)
  BY <1>1, <1>2, <1>4, <1>5 DEF Given, Serves
<1>6. ASSUME NEW b \in Agents \ {a}
      PROVE  /\ SameAgent(arow'[b], arow[b])
             /\ arow'[b].current = arow[b].current
                                   + Cardinality({c \in Serving(a) : crow'[c].owner = b})
             /\ {c \in Serving(a) : crow'[c].owner = b} # {} =>
                  CanTake(arow[b]) /\ arow'[b].current <= arow[b].max
  <2>1. CASE alock[b] = t
    <3>1. PICK G : G = Given(t, b)
      OBVIOUS
    <3>2. {c \in Serving(a) : crow'[c].owner = b} = G
      BY <1>5, <2>1, <3>1
    <3>3. /\ SameAgent(anew[b], arow[b]) /\ anew[b].current = arow[b].current + Cardinality(G)
          /\ G # {} => CanTake(arow[b]) /\ anew[b].current <= arow[b].max
      BY <1>1, <2>1, <3>1 DEF Receiver
    <3>4. arow'[b] = anew[b]
      BY <2>1
    <3> QED
      BY <3>2, <3>3, <3>4
  <2>2. CASE alock[b] # t
    <3>1. arow'[b] = arow[b]
      BY <2>2
    <3>2. arow[b].current \in Nat
      BY AgentFields DEF OInv, IInv, TypeOK
    <3>3. {c \in Serving(a) : crow'[c].owner = b} = {}
      BY <1>3, <1>4, <2>2
    <3>4. SameAgent(arow[b], arow[b])
      BY DEF SameAgent
    <3>5. arow[b].current = arow[b].current + 0
      BY <3>2
    <3> QED
      BY <3>1, <3>3, <3>4, <3>5, NoneCount
  <2> QED
    BY <2>1, <2>2
<1>7. \A b \in Agents \ {a} :
         /\ arow'[b].live = arow[b].live /\ arow'[b].status = arow[b].status
         /\ arow'[b].disabled = arow[b].disabled /\ arow'[b].max = arow[b].max
  BY <1>6 DEF SameAgent
<1>8. \A c \in Convs \ Serving(a) : crow'[c].status = crow[c].status
  <2> TAKE c \in Convs \ Serving(a)
  <2>1. ~Serves(crow[c], a)
    BY <1>2
  <2> QED
    BY <1>1, <2>1 DEF Passed, Serves, SameOwner
<1>9. CASE Gone(t) /\ call[t].op # "delete_agent"
  <2>1. /\ arow'[a].live /\ arow'[a].status = "offline" /\ arow'[a].current = 0
        /\ arow'[a].max = arow[a].max
        /\ IF call[t].op = "disable_agent" THEN arow'[a].disabled
           ELSE arow'[a].disabled = arow[a].disabled
    BY <1>0, <1>1, <1>9 DEF Gone
  <2>2. \A c \in Convs \ Serving(a) : crow'[c].owner = crow[c].owner
    <3> TAKE c \in Convs \ Serving(a)
    <3>1. ~Serves(crow[c], a)
      BY <1>2
    <3> QED
      BY <1>1, <1>9, <3>1 DEF Passed, Serves, SameOwner
  <2>3. Store!Redispatch(a)
    BY <1>4, <1>6, <1>8, <2>1, <2>2, RedispatchRefines DEF OInv, IInv
  <2>4. /\ a \in {b \in Agents : arow[b].live}
        /\ {b \in Agents : arow'[b].live} = {b \in Agents : arow[b].live}
        /\ [b \in Agents |-> arow'[b].status] = [[b \in Agents |-> arow[b].status] EXCEPT ![a] = "offline"]
        /\ [b \in Agents |-> arow'[b].max] = [b \in Agents |-> arow[b].max]
    <3>1. arow'[a].live = arow[a].live
      BY <1>1, <2>1, AgentFields DEF TypeOK, OInv, IInv
    <3>2. {b \in Agents : arow'[b].live} = {b \in Agents : arow[b].live}
      BY <1>7, <3>1
    <3>3. [b \in Agents |-> arow'[b].status] = [[b \in Agents |-> arow[b].status] EXCEPT ![a] = "offline"]
      BY <1>7, <2>1
    <3>4. [b \in Agents |-> arow'[b].max] = [b \in Agents |-> arow[b].max]
      BY <1>7, <2>1
    <3> QED
      BY <1>1, <3>2, <3>3, <3>4
  <2>5. CASE call[t].op = "disable_agent"
    <3>1. [b \in Agents |-> arow'[b].disabled] = [[b \in Agents |-> arow[b].disabled] EXCEPT ![a] = TRUE]
      <4>1. arow'[a].disabled = TRUE
        BY <2>1, <2>5, AgentFields DEF TypeOK
      <4> QED
        BY <1>7, <4>1
    <3>2. Store!Disable(a)
      BY <2>3, <2>4, <3>1 DEF Store!Disable
    <3> QED
      BY <3>2 DEF Store!Next
  <2>6. CASE call[t].op # "disable_agent"
    <3>1. [b \in Agents |-> arow'[b].disabled] = [b \in Agents |-> arow[b].disabled]
      BY <1>7, <2>1, <2>6
    <3>2. Store!GoOffline(a)
      BY <2>3, <2>4, <3>1 DEF Store!GoOffline
    <3> QED
      BY <3>2 DEF Store!Next
  <2> QED
    BY <2>5, <2>6
<1>10. CASE /\ anew[a] = NoAgentRow
           /\ \A c \in Convs : crow[c].owner = a => clock[c] = t /\ cnew[c].owner # a
  <2>1. /\ ~arow'[a].live /\ arow'[a].status = "offline" /\ arow'[a].current = 0
        /\ arow'[a].max = 0 /\ arow'[a].disabled = FALSE
    BY <1>1, <1>10 DEF NoAgentRow, NoLimit
  <2>2. \A c \in Convs \ Serving(a) :
          crow'[c].owner = IF crow[c].owner = a THEN NoAgent ELSE crow[c].owner
    <3> TAKE c \in Convs \ Serving(a)
    <3>1. ~Serves(crow[c], a)
      BY <1>2
    <3> QED
      BY <1>1, <1>10, <3>1 DEF Passed, Serves, SameOwner
  <2>3. Store!Redispatch(a)
    BY <1>4, <1>6, <1>8, <2>1, <2>2, RedispatchRefines DEF OInv, IInv
  <2>4. /\ a \in {b \in Agents : arow[b].live}
        /\ {b \in Agents : arow'[b].live} = {b \in Agents : arow[b].live} \ {a}
        /\ [b \in Agents |-> arow'[b].status] = [[b \in Agents |-> arow[b].status] EXCEPT ![a] = "offline"]
        /\ [b \in Agents |-> arow'[b].disabled] = [[b \in Agents |-> arow[b].disabled] EXCEPT ![a] = FALSE]
        /\ [b \in Agents |-> arow'[b].max] = [[b \in Agents |-> arow[b].max] EXCEPT ![a] = 0]
    <3>1. {b \in Agents : arow'[b].live} = {b \in Agents : arow[b].live} \ {a}
      BY <1>7, <2>1
    <3>2. [b \in Agents |-> arow'[b].status] = [[b \in Agents |-> arow[b].status] EXCEPT ![a] = "offline"]
      BY <1>7, <2>1
    <3>3. [b \in Agents |-> arow'[b].disabled] = [[b \in Agents |-> arow[b].disabled] EXCEPT ![a] = FALSE]
      BY <1>7, <2>1
    <3>4. [b \in Agents |-> arow'[b].max] = [[b \in Agents |-> arow[b].max] EXCEPT ![a] = 0]
      BY <1>7, <2>1
    <3> QED
      BY <1>1, <3>1, <3>2, <3>3, <3>4
  <2>5. Store!Unregister(a)
    BY <2>3, <2>4 DEF Store!Unregister
  <2> QED
    BY <2>5 DEF Store!Next
<1> QED
  BY <1>0, <1>9, <1>10 DEF HandedOut

LEMMA CommitRefines ==
  ASSUME OInv, TypeOK', NEW t \in Backends, EffectOf(t), Commit(t)
  PROVE  Store!Next \/ UNCHANGED Store!vars
<1>1. /\ \A a \in Agents : arow'[a] = IF alock[a] = t THEN anew[a] ELSE arow[a]
      /\ \A c \in Convs : crow'[c] = IF clock[c] = t THEN cnew[c] ELSE crow[c]
      /\ step[t] = "commit"
  BY DEF Commit
<1>2. TypeOK
  BY DEF OInv, IInv
<1>3. CASE Edited(t)
  <2>1. PICK a \in Agents : a = call[t].agent
    BY <1>3 DEF Edited
  <2>2. /\ arow'[a] = anew[a] /\ \A b \in Agents \ {a} : arow'[b] = arow[b]
        /\ \A c \in Convs : SameOwner(crow'[c], crow[c])
        /\ arow[a].live /\ anew[a].live
        /\ anew[a].disabled = arow[a].disabled /\ anew[a].current = arow[a].current
        /\ arow[a].disabled /\ anew[a].status = "online" => arow[a].status = "online"
    BY <1>1, <1>3, <2>1 DEF Edited, AgentsKept, ConvsKept, SameOwner
  <2>3. Store!Edit(a)
    BY <1>2, <2>2, EditRefines
  <2> QED
    BY <2>3 DEF Store!Next
<1>4. CASE TookUp(t)
  <2>1. PICK a \in Agents : a = call[t].agent
    BY <1>4 DEF TookUp
  <2>2. PICK T \in SUBSET Convs : T = Locked(t)
    BY DEF Locked
  <2>3. /\ arow'[a] = anew[a] /\ \A b \in Agents \ {a} : arow'[b] = arow[b]
        /\ \A c \in T : crow'[c] = cnew[c] /\ Waits(crow[c])
                        /\ cnew[c].status = "assigned" /\ cnew[c].owner = a
        /\ \A c \in Convs \ T : SameOwner(crow'[c], crow[c])
    BY <1>1, <1>4, <2>1, <2>2 DEF TookUp, AgentsKept, Locked, SameOwner
  <2>4. /\ arow[a].live /\ ~arow[a].disabled
        /\ anew[a].live /\ ~anew[a].disabled /\ anew[a].max = arow[a].max
        /\ anew[a].status = "online"
        /\ anew[a].current = arow[a].current + Cardinality(T)
        /\ T # {} => anew[a].current <= arow[a].max
    BY <1>4, <2>1, <2>2 DEF TookUp
  <2>5. Store!PickUp(a)
    BY <1>2, <2>3, <2>4, PickUpRefines
  <2> QED
    BY <2>5 DEF Store!Next
<1>5. CASE HandedOut(t)
  BY <1>1, <1>5, HandedOutRefines
<1>6. CASE Changed(t)
  BY <1>1, <1>6, ChangedRefines
<1> QED
  BY <1>1, <1>3, <1>4, <1>5, <1>6 DEF EffectOf

LEMMA CreateAgentRefines ==
  ASSUME TypeOK, TypeOK', NEW a \in Agents, NEW m \in Limits, CreateAgent(a, m)
  PROVE  Store!Next
<1>1. PICK new : new = [NoAgentRow EXCEPT !.live = TRUE, !.max = m]
  OBVIOUS
<1>2. /\ new.live /\ new.status = "offline" /\ new.disabled = FALSE /\ new.current = 0
  BY <1>1 DEF NoAgentRow
<1>3. /\ ~arow[a].live /\ arow'[a] = new /\ \A b \in Agents \ {a} : arow'[b] = arow[b]
      /\ crow' = crow
  BY <1>1 DEF CreateAgent, TypeOK
<1>4. \A b \in Agents : arow'[b].max \in Nat
  BY AgentFields DEF TypeOK
<1>5. Store!NewLimit(a)
  BY <1>3, <1>4 DEF Store!NewLimit
<1>6. /\ a \notin {b \in Agents : arow[b].live}
      /\ {b \in Agents : arow'[b].live} = {b \in Agents : arow[b].live} \cup {a}
      /\ [b \in Agents |-> arow'[b].status] = [[b \in Agents |-> arow[b].status] EXCEPT ![a] = "offline"]
      /\ [b \in Agents |-> arow'[b].disabled] = [[b \in Agents |-> arow[b].disabled] EXCEPT ![a] = FALSE]
      /\ [b \in Agents |-> arow'[b].current] = [[b \in Agents |-> arow[b].current] EXCEPT ![a] = 0]
      /\ UNCHANGED Store!convVars
  BY <1>2, <1>3 DEF Store!convVars
<1>7. Store!Register(a)
  BY <1>5, <1>6 DEF Store!Register
<1> QED
  BY <1>7 DEF Store!Next

-----------------------------------------------------------------------------
(* Others disturb nothing of it *)

\* A step leaves u where it is, with the rows it has locked, and gives the agents
\* whose rows it has locked no conversation.
Undisturbed(u) ==
  /\ call'[u] = call[u] /\ step'[u] = step[u]
  /\ \A a \in Agents : /\ alock'[a] = u <=> alock[a] = u
                       /\ alock[a] = u => arow'[a] = arow[a] /\ anew'[a] = anew[a]
  /\ \A c \in Convs : /\ clock'[c] = u <=> clock[c] = u
                      /\ clock[c] = u => crow'[c] = crow[c] /\ cnew'[c] = cnew[c]
  /\ \A a \in Agents, c \in Convs :
       alock[a] = u /\ clock[c] # u =>
         /\ crow'[c].owner = a => crow[c].owner = a
         /\ Serves(crow'[c], a) => Serves(crow[c], a)

LEMMA KeptUndisturbed ==
  ASSUME NEW u, Undisturbed(u)
  PROVE  /\ \A A : AgentsKept(u, A) =>
              \A a \in Agents \ A : alock'[a] = u => anew'[a] = arow'[a]
         /\ \A C : ConvsKept(u, C) =>
              \A c \in Convs \ C : clock'[c] = u => SameOwner(cnew'[c], crow'[c])
         /\ \A b \in Agents : /\ CountsMore(u, b) => CountsMore(u, b)'
                              /\ CountsLess(u, b) => CountsLess(u, b)'
BY DEF Undisturbed, AgentsKept, ConvsKept, CountsMore, CountsLess, SameAgent, SameOwner

LEMMA EditedUndisturbed ==
  ASSUME NEW u, Undisturbed(u), Edited(u)
  PROVE  Edited(u)'
<1>1. PICK a \in Agents : a = call[u].agent
  BY DEF Edited
<1>2. /\ \A b \in Agents \ {a} : alock'[b] = u => anew'[b] = arow'[b]
      /\ \A c \in Convs : clock'[c] = u => SameOwner(cnew'[c], crow'[c])
  BY <1>1, KeptUndisturbed DEF Edited
<1>3. a = call'[u].agent /\ alock'[a] = u /\ arow'[a] = arow[a] /\ anew'[a] = anew[a]
  BY <1>1 DEF Undisturbed, Edited
<1> QED
  BY <1>1, <1>2, <1>3 DEF Edited, AgentsKept, ConvsKept, SameOwner

LEMMA TookUpUndisturbed ==
  ASSUME NEW u, Undisturbed(u), TookUp(u)
  PROVE  TookUp(u)'
<1>1. PICK a \in Agents : a = call[u].agent
  BY DEF TookUp
<1>2. \A b \in Agents \ {a} : alock'[b] = u => anew'[b] = arow'[b]
  BY <1>1, KeptUndisturbed DEF TookUp
<1>3. a = call'[u].agent /\ alock'[a] = u /\ arow'[a] = arow[a] /\ anew'[a] = anew[a]
  BY <1>1 DEF Undisturbed, TookUp
<1>4. /\ Locked(u)' = Locked(u)
      /\ \A c \in Locked(u) : crow'[c] = crow[c] /\ cnew'[c] = cnew[c]
  BY DEF Locked, Undisturbed
<1> QED
  BY <1>1, <1>2, <1>3, <1>4 DEF TookUp, AgentsKept, Waits

LEMMA HandingUndisturbed ==
  ASSUME NEW u, Undisturbed(u), Handing(u)
  PROVE  Handing(u)'
<1>1. PICK a \in Agents : a = call[u].agent
  BY DEF Handing
<1>2. a = call'[u].agent /\ alock'[a] = u /\ arow'[a] = arow[a] /\ arow[a].live
        /\ call'[u] = call[u]
  BY <1>1 DEF Undisturbed, Handing
<1>3. /\ Locked(u)' = Locked(u)
      /\ \A c \in Locked(u) : crow'[c] = crow[c] /\ cnew'[c] = cnew[c]
  BY DEF Locked, Undisturbed
<1>4. ASSUME NEW c \in Locked(u) PROVE crow'[c].owner = a /\ Passed(u, a, c)'
  <2>1. crow[c].owner = a /\ Passed(u, a, c)
    BY <1>1, <1>4 DEF Handing
  <2>2. \A b \in Agents : alock[b] = u => alock'[b] = u
    BY DEF Undisturbed
  <2> QED
    BY <1>2, <1>3, <1>4, <2>1, <2>2 DEF Passed, IsOpen, SameOwner
<1>5. ASSUME NEW b \in Agents \ {a} PROVE Receiver(u, b)'
  <2>1. Receiver(u, b)
    BY <1>1 DEF Handing
  <2>2. Given(u, b)' = Given(u, b)
    BY DEF Given, Undisturbed, IsOpen
  <2>3. alock'[b] = u => alock[b] = u /\ arow'[b] = arow[b] /\ anew'[b] = anew[b]
    BY DEF Undisturbed
  <2> QED
    BY <2>1, <2>2, <2>3 DEF Receiver, SameAgent, CanTake
<1> QED
  BY <1>2, <1>3, <1>4, <1>5 DEF Handing

LEMMA GoneUndisturbed ==
  ASSUME NEW u, Undisturbed(u), Handing(u)
  PROVE  Gone(u) => Gone(u)'
<1>1. /\ call'[u] = call[u] /\ arow'[call[u].agent] = arow[call[u].agent]
      /\ anew'[call[u].agent] = anew[call[u].agent]
  BY DEF Handing, Undisturbed
<1> QED
  BY <1>1 DEF Gone

LEMMA HandedOutUndisturbed ==
  ASSUME NEW u, Undisturbed(u), HandedOut(u)
  PROVE  HandedOut(u)'
<1>1. PICK a \in Agents : a = call[u].agent
  BY DEF HandedOut, Handing
<1>2. Handing(u) /\ Handing(u)' /\ (Gone(u) => Gone(u)')
  BY HandingUndisturbed, GoneUndisturbed DEF HandedOut
<1>3. /\ call'[u] = call[u] /\ alock[a] = u /\ anew'[a] = anew[a]
  BY <1>1, <1>2 DEF Handing, Undisturbed
<1>4. \A c \in Convs : Serves(crow[c], a) => clock[c] = u /\ cnew[c].owner # a
  BY <1>1 DEF HandedOut
<1>5. ASSUME NEW c \in Convs, Serves(crow'[c], a)
      PROVE  clock'[c] = u /\ cnew'[c].owner # a
  <2>1. CASE clock[c] = u
    BY <1>4, <1>5, <2>1 DEF Undisturbed
  <2>2. CASE clock[c] # u
    BY <1>3, <1>4, <1>5, <2>2 DEF Undisturbed
  <2> QED
    BY <2>1, <2>2
<1>6. ASSUME \A c \in Convs : crow[c].owner = a => clock[c] = u /\ cnew[c].owner # a,
             NEW c \in Convs, crow'[c].owner = a
      PROVE  clock'[c] = u /\ cnew'[c].owner # a
  <2>1. CASE clock[c] = u
    BY <1>6, <2>1 DEF Undisturbed
  <2>2. CASE clock[c] # u
    BY <1>3, <1>6, <2>2 DEF Undisturbed
  <2> QED
    BY <2>1, <2>2
<1>7. \/ Gone(u) /\ call[u].op # "delete_agent"
      \/ /\ anew[a] = NoAgentRow /\ call[u].op = "delete_agent"
         /\ \A c \in Convs : crow[c].owner = a => clock[c] = u /\ cnew[c].owner # a
  BY <1>1 DEF HandedOut
<1>8. \A c \in Convs : Serves(crow[c], a)' => Serves(crow'[c], a)
  BY DEF Serves, IsOpen
<1> QED
  BY <1>1, <1>2, <1>3, <1>5, <1>6, <1>7, <1>8 DEF HandedOut

LEMMA UnassignedUndisturbed ==
  ASSUME NEW u, Undisturbed(u), Unassigned(u), call[u].conv \in Convs, clock[call[u].conv] = u
  PROVE  Unassigned(u)'
<1>1. PICK c \in Convs : c = call[u].conv
  OBVIOUS
<1>2. /\ \A b \in Agents : alock'[b] = u => anew'[b] = arow'[b]
      /\ \A d \in Convs \ {c} : clock'[d] = u => SameOwner(cnew'[d], crow'[d])
  BY <1>1, KeptUndisturbed DEF Unassigned
<1>3. call'[u] = call[u] /\ crow'[c] = crow[c]
  BY <1>1 DEF Undisturbed
<1> QED
  BY <1>1, <1>2, <1>3 DEF Unassigned, AgentsKept, ConvsKept, SameOwner

\* What is said of it speaks of rows u has locked.
LEMMA ChangedUndisturbed ==
  ASSUME OInv, NEW u, Undisturbed(u), Changed(u)
  PROVE  Changed(u)'
<1>1. PICK c \in Convs : c = call[u].conv
  BY DEF Changed
<1>2. /\ clock[c] = u /\ clock'[c] = u /\ call'[u] = call[u]
      /\ crow'[c] = crow[c] /\ cnew'[c] = cnew[c]
  BY <1>1 DEF Changed, Undisturbed
<1>3. \A d \in Convs \ {c} : clock'[d] = u => SameOwner(cnew'[d], crow'[d])
  BY <1>1, KeptUndisturbed DEF Changed
<1>4. PICK x \in Agents \cup {NoAgent} : x = crow[c].owner
  BY DEF OInv, IInv, TypeOK, ConvRows
<1>5. \A A : AgentsKept(u, A) => \A a \in Agents \ A : alock'[a] = u => anew'[a] = arow'[a]
  BY KeptUndisturbed
<1>6. AgentsKept(u, {}) => AgentsKept(u, {})'
  BY <1>5 DEF AgentsKept
<1>7. CASE AgentsKept(u, {}) /\ SameOwner(cnew[c], crow[c])
  BY <1>1, <1>2, <1>3, <1>6, <1>7 DEF Changed, ConvsKept, SameOwner
<1>8. CASE Progressed(u, c)
  <2>1. Progressed(u, c)'
    BY <1>2, <1>6, <1>8 DEF Progressed
  <2> QED
    BY <1>1, <1>2, <1>3, <2>1 DEF Changed, ConvsKept, SameOwner
<1>9. CASE RemovedBy(u, c)
  <2>1. RemovedBy(u, c)'
    BY <1>2, <1>6, <1>9 DEF RemovedBy
  <2> QED
    BY <1>1, <1>2, <1>3, <2>1 DEF Changed, ConvsKept, SameOwner
<1>10. CASE ClosedBy(u, c)
  <2>1. \A a \in Agents \ {x} : alock'[a] = u => anew'[a] = arow'[a]
    BY <1>4, <1>5, <1>10 DEF ClosedBy
  <2>2. x # NoAgent => CountsLess(u, x)'
    BY <1>4, <1>10, KeptUndisturbed DEF ClosedBy
  <2>3. x = crow'[c].owner
    BY <1>2, <1>4
  <2>4. ClosedBy(u, c)'
    <3>1. AgentsKept(u, {crow[c].owner})'
      BY <2>1, <2>3 DEF AgentsKept
    <3>2. crow'[c].owner # NoAgent => CountsLess(u, crow[c].owner)'
      BY <2>2, <2>3 DEF CountsLess
    <3> QED
      BY <1>2, <1>10, <3>1, <3>2 DEF ClosedBy
  <2> QED
    BY <1>1, <1>2, <1>3, <2>4 DEF Changed, ConvsKept, SameOwner
<1>11. ASSUME NEW b \in Agents, DispatchedTo(u, c, b)
       PROVE  Changed(u)'
  <2>1. AgentsKept(u, {b})'
    BY <1>5, <1>11 DEF DispatchedTo, AgentsKept
  <2>2. CountsMore(u, b)' /\ arow'[b] = arow[b]
    BY <1>11, KeptUndisturbed DEF DispatchedTo, CountsMore, Undisturbed
  <2>3. DispatchedTo(u, c, b)'
    BY <1>2, <1>11, <2>1, <2>2 DEF DispatchedTo, CanTake
  <2> QED
    BY <1>1, <1>2, <1>3, <2>3 DEF Changed, ConvsKept, SameOwner
<1>12. ASSUME NEW b \in Agents, MovedTo(u, c, b)
       PROVE  Changed(u)'
  <2>1. \A a \in Agents \ {b, x} : alock'[a] = u => anew'[a] = arow'[a]
    BY <1>4, <1>5, <1>12 DEF MovedTo
  <2>2. CountsMore(u, b)' /\ arow'[b] = arow[b]
    BY <1>12, KeptUndisturbed DEF MovedTo, CountsMore, Undisturbed
  <2>3. x # NoAgent => CountsLess(u, x)'
    BY <1>4, <1>12, KeptUndisturbed DEF MovedTo
  <2>4. x = crow'[c].owner
    BY <1>2, <1>4
  <2>5. MovedTo(u, c, b)'
    <3>1. AgentsKept(u, {b, crow[c].owner})'
      BY <2>1, <2>4 DEF AgentsKept
    <3>2. crow'[c].owner # NoAgent => CountsLess(u, crow[c].owner)'
      BY <2>3, <2>4 DEF CountsLess
    <3> QED
      BY <1>2, <1>12, <2>2, <3>1, <3>2 DEF MovedTo, IsOpen
  <2> QED
    BY <1>1, <1>2, <1>3, <2>5 DEF Changed, ConvsKept, SameOwner
<1> QED
  BY <1>1, <1>7, <1>8, <1>9, <1>10, <1>11, <1>12 DEF Changed

LEMMA EffectUndisturbed ==
  ASSUME OInv, NEW u \in Backends, Undisturbed(u), EffectOf(u)
  PROVE  EffectOf(u)'
<1>1. call'[u] = call[u] /\ step'[u] = step[u]
  BY DEF Undisturbed
<1>2. step[u] \in {"work", "move"} => AgentsKept(u, {})'
  BY KeptUndisturbed DEF EffectOf, AgentsKept
<1>3. step[u] = "assign" => Unassigned(u)'
  <2>1. step[u] = "assign" => call[u].conv \in Convs /\ clock[call[u].conv] = u
    BY DEF OInv, IInv, Holds, HoldsBy
  <2> QED
    BY <2>1, UnassignedUndisturbed DEF EffectOf
<1>4. step[u] = "release" => Handing(u)' /\ Gone(u)'
  BY HandingUndisturbed, GoneUndisturbed DEF EffectOf
<1>5. step[u] = "pick_up" => TookUp(u)'
  BY TookUpUndisturbed DEF EffectOf
<1>6. step[u] = "commit" => Edited(u)' \/ TookUp(u)' \/ HandedOut(u)' \/ Changed(u)'
  BY EditedUndisturbed, TookUpUndisturbed, HandedOutUndisturbed, ChangedUndisturbed
  DEF EffectOf
<1> QED
  BY <1>1, <1>2, <1>3, <1>4, <1>5, <1>6 DEF EffectOf

\* A step of another that goes on, or its end, leaves u undisturbed.
LEMMA WritesUndisturb ==
  ASSUME OInv, NEW t \in Backends, NEW u \in Backends \ {t}, Writes(t)
  PROVE  Undisturbed(u)
<1>1. u # Free
  BY BackendsAssumption
<1> QED
  BY <1>1 DEF Writes, Undisturbed

LEMMA EndUndisturbs ==
  ASSUME OInv, NEW t \in Backends, NEW u \in Backends \ {t}, Ends(t),
         \A c \in Convs : clock[c] = t => crow'[c] \in {crow[c], cnew[c]}
  PROVE  Undisturbed(u)
<1>1. u # Free
  BY BackendsAssumption
<1>2. ASSUME NEW a \in Agents, NEW c \in Convs, alock[a] = u, clock[c] # u
      PROVE  /\ crow'[c].owner = a => crow[c].owner = a
             /\ Serves(crow'[c], a) => Serves(crow[c], a)
  <2>1. /\ ~(Serves(cnew[c], a) <=> Serves(crow[c], a)) => alock[a] = clock[c]
        /\ cnew[c].owner = a /\ crow[c].owner # a => alock[a] = clock[c]
    BY DEF OInv, Books, UnderLock
  <2> QED
    BY <1>2, <2>1 DEF Ends
<1> QED
  BY <1>1, <1>2 DEF Ends, Undisturbed

-----------------------------------------------------------------------------
(* What a transaction does to one conversation *)

\* Before it has written anything the rows it has locked are the committed ones.
LEMMA NothingDone ==
  ASSUME OInv, NEW t \in Backends, EffectOf(t), step[t] \in {"work", "move"}
  PROVE  /\ \A a \in Agents : AgentFree(t, a) => anew[a] = arow[a]
         /\ \A c \in Convs : ConvFree(t, c) => cnew[c] = crow[c]
<1>1. KnownBy(t) /\ AgentsKept(t, {})
  BY DEF OInv, Books, Known, EffectOf
<1> QED
  BY <1>1 DEF KnownBy, AgentsKept, AgentFree, ConvFree, OInv, IInv, TypeOK

\* It writes the row of a conversation and nothing else, and commits.
LEMMA RowChanged ==
  ASSUME OInv, NEW t \in Backends, EffectOf(t), Writes(t),
         NEW op \in Ops \ AgentOps, At(t, "work", op), NEW row, row = cnew[call[t].conv],
         NEW new, SetConvRow(t, new), Goto(t, "commit"),
         UNCHANGED <<rows, anew, locks, call, counters>>,
         \/ new.status = row.status /\ new.owner = row.owner
         \/ row.status # "closed" /\ new.owner = row.owner /\ new.status = "ai_serving"
         \/ /\ row.status # "closed" /\ new.owner = row.owner /\ row.owner # NoAgent
            /\ new.status = "assigned"
         \/ row.status = "closed" /\ new.status = "none" /\ new.owner = NoAgent
  PROVE  EffectOf(t)'
<1>1. PICK c \in Convs : c = call[t].conv /\ clock[c] = t /\ row = crow[c] /\ step[t] = "work"
  BY RowFound
<1>2. cnew'[c] = new /\ \A d \in Convs \ {c} : cnew'[d] = cnew[d]
  BY <1>1 DEF SetConvRow, OInv, IInv, TypeOK
<1>3. /\ crow' = crow /\ arow' = arow /\ anew' = anew /\ alock' = alock /\ clock' = clock
      /\ call' = call /\ step'[t] = "commit"
  BY GoesTo DEF rows, locks, Steps
<1>4. AgentsKept(t, {})'
  BY <1>1, <1>3, NothingDone DEF AgentsKept, AgentFree
<1>5. \A d \in Convs \ {c} : clock'[d] = t => SameOwner(cnew'[d], crow'[d])
  BY <1>1, <1>2, <1>3, NothingDone DEF ConvFree, SameOwner
<1>6. \/ SameOwner(cnew'[c], crow'[c])
      \/ Progressed(t, c)' \/ RemovedBy(t, c)'
  BY <1>1, <1>2, <1>3, <1>4 DEF SameOwner, Progressed, RemovedBy
<1>7. Changed(t)'
  BY <1>1, <1>3, <1>4, <1>5, <1>6 DEF Changed, ConvsKept, SameOwner
<1> QED
  BY <1>3, <1>7 DEF EffectOf

LEMMA NothingChanged ==
  ASSUME OInv, NEW t \in Backends, EffectOf(t), Writes(t),
         NEW op \in Ops \ AgentOps, At(t, "work", op), cnew' = cnew, Goto(t, "commit"),
         UNCHANGED <<rows, anew, locks, call, counters>>
  PROVE  EffectOf(t)'
<1>1. PICK row : row = cnew[call[t].conv]
  OBVIOUS
<1>2. SetConvRow(t, row)
  BY <1>1 DEF SetConvRow, OInv, IInv, TypeOK
<1> QED
  BY <1>1, <1>2, RowChanged

LEMMA VisitorMessageEffect ==
  ASSUME OInv, NEW t \in Backends, EffectOf(t), VisitorMessage(t)
  PROVE  EffectOf(t)'
<1>1. At(t, "work", "visitor_message") /\ "visitor_message" \in Ops \ AgentOps
  BY DEF VisitorMessage, ConvWork, Ops, ConvOps, MessageOps, AgentOps
<1>2. Writes(t)
  BY VisitorMessageKeeps DEF OInv
<1>3. PICK row \in ConvRows : row = cnew[call[t].conv] /\ RowOK(row)
  BY <1>1, RowFound
<1>4. call[t].num \in ClientIDs \cup {NoID} /\ call[t].op = "visitor_message"
  BY <1>1, RowFound DEF CallOK
<1>5. PICK e \in Entries : e = Entry("visitor", NoAgent, call[t].num, 0)
  BY <1>4, EntryTyped
<1>6. PICK touched \in ConvRows :
        touched = Touched(row, e) /\ touched.status = row.status /\ touched.owner = row.owner
  BY <1>3, LogRowOK, LogTyped
<1>7. /\ IsOpen(row) /\ row.status # "closed"
      /\ UNCHANGED <<rows, anew, locks, call, counters>>
  BY <1>3 DEF VisitorMessage, IsOpen
<1>8. ASSUME NEW s
      PROVE  [touched EXCEPT !.status = s].status = s
             /\ [touched EXCEPT !.status = s].owner = row.owner
  BY <1>6 DEF ConvRows
<1>9. CASE Goto(t, "commit") /\ UNCHANGED cnew
  BY <1>1, <1>2, <1>7, <1>9, NothingChanged
<1>10. CASE \E s \in AfterText(row) :
              SetConvRow(t, [touched EXCEPT !.status = s]) /\ Goto(t, "commit")
  <2>1. PICK s \in AfterText(row) :
          SetConvRow(t, [touched EXCEPT !.status = s]) /\ Goto(t, "commit")
    BY <1>10
  <2>2. PICK new : new = [touched EXCEPT !.status = s]
    OBVIOUS
  <2>3. s = row.status \/ s = "ai_serving"
    BY DEF AfterText, LeftTo
  <2>4. new.status = s /\ new.owner = row.owner
    BY <1>8, <2>2
  <2> QED
    BY <1>1, <1>2, <1>3, <1>7, <2>1, <2>2, <2>3, <2>4, RowChanged
<1>11. CASE /\ row.owner # NoAgent /\ Goto(t, "commit")
            /\ SetConvRow(t, [touched EXCEPT !.status = "assigned"])
  <2>1. PICK new : new = [touched EXCEPT !.status = "assigned"]
    OBVIOUS
  <2>2. new.status = "assigned" /\ new.owner = row.owner
    BY <1>8, <2>1
  <2> QED
    BY <1>1, <1>2, <1>3, <1>7, <1>11, <2>1, <2>2, RowChanged
<1>12. CASE /\ row.owner = NoAgent /\ Goto(t, "assign")
            /\ SetConvRow(t, [touched EXCEPT !.status = "human_requested"])
  <2>1. PICK c \in Convs : c = call[t].conv /\ clock[c] = t /\ row = crow[c] /\ step[t] = "work"
    BY <1>1, <1>3, RowFound
  <2>2. \A d \in Convs \ {c} : cnew'[d] = cnew[d]
    BY <1>12, <2>1 DEF SetConvRow, OInv, IInv, TypeOK
  <2>3. /\ crow' = crow /\ arow' = arow /\ anew' = anew /\ alock' = alock /\ clock' = clock
        /\ call' = call /\ step'[t] = "assign"
    BY <1>7, <1>12, GoesTo DEF rows, locks, Steps
  <2>4. /\ \A a \in Agents : alock'[a] = t => anew'[a] = arow'[a]
        /\ \A d \in Convs \ {c} : clock'[d] = t => SameOwner(cnew'[d], crow'[d])
    BY <2>1, <2>2, <2>3, NothingDone DEF AgentFree, ConvFree, SameOwner
  <2>5. Unassigned(t)'
    BY <1>4, <1>7, <1>12, <2>1, <2>3, <2>4 DEF Unassigned, AgentsKept, ConvsKept, SameOwner
  <2> QED
    BY <2>3, <2>5 DEF EffectOf
<1> QED
  BY <1>3, <1>5, <1>6, <1>9, <1>10, <1>11, <1>12 DEF VisitorMessage

LEMMA AgentMessageEffect ==
  ASSUME OInv, NEW t \in Backends, EffectOf(t), AgentMessage(t)
  PROVE  EffectOf(t)'
<1>1. At(t, "work", "agent_message") /\ "agent_message" \in Ops \ AgentOps
  BY DEF AgentMessage, ConvWork, Ops, ConvOps, MessageOps, AgentOps
<1>2. Writes(t)
  BY AgentMessageKeeps DEF OInv
<1>3. PICK row \in ConvRows : row = cnew[call[t].conv] /\ RowOK(row)
  BY <1>1, RowFound
<1>4. /\ call[t].num \in ClientIDs \cup {NoID} /\ call[t].agent # NoAgent
      /\ call[t].agent \in Agents \cup {NoAgent}
  <2>1. call[t].op = "agent_message" /\ call[t] \in Calls /\ CallOK(call[t])
    BY <1>1, RowFound
  <2> QED
    BY <2>1 DEF CallOK, Calls
<1>5. PICK e \in Entries : e = Entry("agent", call[t].agent, call[t].num, 0)
  BY <1>4, EntryTyped
<1>6. PICK touched \in ConvRows :
        touched = Touched(row, e) /\ touched.status = row.status /\ touched.owner = row.owner
  BY <1>3, LogRowOK, LogTyped
<1>7. /\ row.status # "closed" /\ row.owner = call[t].agent /\ Goto(t, "commit")
      /\ UNCHANGED <<rows, anew, locks, call, counters>>
  BY <1>3 DEF AgentMessage, IsOpen
<1>8. CASE UNCHANGED cnew
  BY <1>1, <1>2, <1>7, <1>8, NothingChanged
<1>9. CASE SetConvRow(t, [touched EXCEPT
             !.status = IF @ \in {"ai_serving", "human_requested"} THEN "assigned" ELSE @])
  <2>1. PICK new : new = [touched EXCEPT
             !.status = IF @ \in {"ai_serving", "human_requested"} THEN "assigned" ELSE @]
    OBVIOUS
  <2>2. /\ new.owner = row.owner
        /\ new.status = row.status \/ new.status = "assigned"
    BY <1>6, <2>1 DEF ConvRows
  <2> QED
    BY <1>1, <1>2, <1>3, <1>4, <1>7, <1>9, <2>1, <2>2, RowChanged
<1> QED
  BY <1>3, <1>5, <1>6, <1>8, <1>9 DEF AgentMessage

LEMMA PlainChangesEffect ==
  ASSUME OInv, NEW t \in Backends, EffectOf(t),
         AIMessage(t) \/ MarkRead(t) \/ RevokeMessage(t) \/ Escalate(t) \/ DeleteConversation(t)
  PROVE  EffectOf(t)'
<1> DEFINE row == cnew[call[t].conv]
<1>0. {"ai_message", "mark_read", "revoke", "escalate", "delete_conversation"} \subseteq Ops \ AgentOps
  BY DEF Ops, ConvOps, MessageOps, AgentOps
<1>1. Writes(t)
  BY ConvsKeep, RevokeKeeps DEF OInv
<1>2. Goto(t, "commit") /\ UNCHANGED <<rows, anew, locks, call, counters>>
  BY DEF AIMessage, MarkRead, RevokeMessage, Escalate, DeleteConversation
<1>3. CASE AIMessage(t)
  <2>1. At(t, "work", "ai_message") /\ row.status # "closed"
    BY <1>3 DEF AIMessage, ConvWork, IsOpen
  <2>2. row \in ConvRows /\ RowOK(row)
    BY <1>0, <2>1, RowFound
  <2>3. PICK e \in Entries : e = Entry("ai", NoAgent, NoID, 0)
    BY EntryTyped
  <2>4. PICK touched \in ConvRows : touched = Touched(row, e) /\ touched.owner = row.owner
    BY <2>2, LogRowOK, LogTyped
  <2>5. PICK new : new = [touched EXCEPT !.status = "ai_serving"]
    OBVIOUS
  <2>6. new.status = "ai_serving" /\ new.owner = row.owner
    BY <2>4, <2>5 DEF ConvRows
  <2>7. SetConvRow(t, new)
    BY <1>3, <2>3, <2>4, <2>5 DEF AIMessage
  <2> QED
    BY <1>0, <1>1, <1>2, <2>1, <2>6, <2>7, RowChanged
<1>4. CASE MarkRead(t)
  <2>1. At(t, "work", "mark_read")
    BY <1>4 DEF MarkRead, ConvWork
  <2>2. row \in ConvRows
    BY <1>0, <2>1, RowFound
  <2>3. PICK new : new = [row EXCEPT !.unread = 0]
    OBVIOUS
  <2>4. new.status = row.status /\ new.owner = row.owner
    BY <2>2, <2>3 DEF ConvRows
  <2>5. SetConvRow(t, new)
    BY <1>4, <2>3 DEF MarkRead
  <2> QED
    BY <1>0, <1>1, <1>2, <2>1, <2>4, <2>5, RowChanged
<1>5. CASE RevokeMessage(t)
  <2>1. At(t, "work", "revoke")
    BY <1>5 DEF RevokeMessage, ConvWork
  <2>2. row \in ConvRows
    BY <1>0, <2>1, RowFound
  <2>3. CASE UNCHANGED cnew
    BY <1>0, <1>1, <1>2, <2>1, <2>3, NothingChanged
  <2>4. CASE SetConvRow(t, [row EXCEPT !.log = Append(@, Entry("revoked", NoAgent, NoID, call[t].num))])
    <3>1. PICK e : e = Entry("revoked", NoAgent, NoID, call[t].num)
      OBVIOUS
    <3>2. PICK new : new = [row EXCEPT !.log = Append(@, e)]
      OBVIOUS
    <3>3. new.status = row.status /\ new.owner = row.owner
      BY <2>2, <3>2 DEF ConvRows
    <3>4. SetConvRow(t, new)
      BY <2>4, <3>1, <3>2
    <3> QED
      BY <1>0, <1>1, <1>2, <2>1, <3>3, <3>4, RowChanged
  <2> QED
    BY <1>5, <2>3, <2>4 DEF RevokeMessage
<1>6. CASE Escalate(t)
  <2>1. At(t, "work", "escalate") /\ row.status = "assigned"
    BY <1>6 DEF Escalate, ConvWork, Unanswered
  <2>2. row \in ConvRows
    BY <1>0, <2>1, RowFound
  <2>3. PICK new : new = [row EXCEPT !.status = "ai_serving"]
    OBVIOUS
  <2>4. new.status = "ai_serving" /\ new.owner = row.owner
    BY <2>2, <2>3 DEF ConvRows
  <2>5. SetConvRow(t, new)
    BY <1>6, <2>3 DEF Escalate
  <2> QED
    BY <1>0, <1>1, <1>2, <2>1, <2>4, <2>5, RowChanged
<1>7. CASE DeleteConversation(t)
  <2>1. At(t, "work", "delete_conversation") /\ row.status = "closed"
    BY <1>7 DEF DeleteConversation, ConvWork
  <2>2. PICK new : new = NoConvRow
    OBVIOUS
  <2>3. new.status = "none" /\ new.owner = NoAgent
    BY <2>2 DEF NoConvRow
  <2>4. SetConvRow(t, new)
    BY <1>7, <2>2 DEF DeleteConversation
  <2> QED
    BY <1>0, <1>1, <1>2, <2>1, <2>3, <2>4, RowChanged
<1> QED
  BY <1>3, <1>4, <1>5, <1>6, <1>7

LEMMA CloseEffect ==
  ASSUME OInv, NEW t \in Backends, EffectOf(t), CloseConversation(t)
  PROVE  EffectOf(t)'
<1>1. At(t, "work", "close") /\ "close" \in Ops \ AgentOps
  BY DEF CloseConversation, ConvWork, Ops, ConvOps, MessageOps, AgentOps
<1>2. Writes(t)
  BY CloseKeeps DEF OInv
<1>3. PICK c \in Convs : c = call[t].conv /\ clock[c] = t /\ cnew[c] = crow[c] /\ step[t] = "work"
                         /\ cnew[c] \in ConvRows
  BY <1>1, RowFound
<1>4. PICK x \in Agents \cup {NoAgent} : x = crow[c].owner
  BY <1>3 DEF ConvRows
<1>5. PICK new : new = [cnew[c] EXCEPT !.status = "closed"]
  OBVIOUS
<1>6. new.status = "closed" /\ new.owner = x
  BY <1>3, <1>4, <1>5 DEF ConvRows
<1>7. cnew'[c] = new /\ \A d \in Convs \ {c} : cnew'[d] = cnew[d]
  BY <1>3, <1>5 DEF CloseConversation, SetConvRow, OInv, IInv, TypeOK
<1>8. /\ crow' = crow /\ arow' = arow /\ clock' = clock /\ call' = call /\ step'[t] = "commit"
      /\ crow[c].status # "none"
  BY <1>3, GoesTo DEF CloseConversation, ConvWork, rows, Steps
<1>9. ConvsKept(t, {c})'
  BY <1>3, <1>7, <1>8, NothingDone DEF ConvsKept, ConvFree, SameOwner
<1>10. CASE x = NoAgent /\ anew' = anew /\ alock' = alock
  <2>1. \A a \in Agents : alock'[a] = t => anew'[a] = arow'[a]
    BY <1>3, <1>8, <1>10, NothingDone DEF AgentFree
  <2>2. ClosedBy(t, c)'
    BY <1>4, <1>6, <1>7, <1>8, <1>10, <2>1 DEF ClosedBy, AgentsKept
  <2> QED
    BY <1>3, <1>8, <1>9, <2>2 DEF EffectOf, Changed
<1>11. CASE /\ x # NoAgent /\ AgentFree(t, x) /\ alock' = [alock EXCEPT ![x] = t]
            /\ anew' = [anew EXCEPT ![x] = Fewer(anew[x])]
  <2>1. x \in Agents /\ anew[x] \in AgentRows /\ anew[x] = arow[x]
    BY <1>3, <1>11, NothingDone DEF OInv, IInv, TypeOK
  <2>2. /\ alock'[x] = t /\ anew'[x] = Fewer(anew[x])
        /\ \A a \in Agents \ {x} : anew'[a] = anew[a] /\ alock'[a] = alock[a]
    BY <1>11, <2>1 DEF OInv, IInv, TypeOK
  <2>3. /\ SameAgent(anew'[x], arow'[x])
        /\ anew'[x].current = IF arow'[x].current > 0 THEN arow'[x].current - 1 ELSE 0
    BY <1>8, <2>1, <2>2, FewerCounts DEF SameAgent
  <2>4. \A a \in Agents \ {x} : alock'[a] = t => anew'[a] = arow'[a]
    BY <1>3, <1>8, <2>2, NothingDone DEF AgentFree
  <2>5. x = crow'[c].owner
    BY <1>4, <1>8
  <2>6. CountsLess(t, x)'
    BY <2>2, <2>3 DEF CountsLess, SameAgent
  <2>7. ClosedBy(t, c)'
    <3>1. AgentsKept(t, {crow[c].owner})'
      BY <2>4, <2>5 DEF AgentsKept
    <3>2. CountsLess(t, crow[c].owner)'
      BY <2>5, <2>6 DEF CountsLess
    <3> QED
      BY <1>6, <1>7, <1>8, <2>5, <3>1, <3>2 DEF ClosedBy
  <2> QED
    BY <1>3, <1>8, <1>9, <2>7 DEF EffectOf, Changed
<1> QED
  BY <1>3, <1>4, <1>10, <1>11 DEF CloseConversation

LEMMA TransferEffect ==
  ASSUME OInv, NEW t \in Backends, EffectOf(t), TransferToAgent(t) \/ TransferToGroup(t)
  PROVE  EffectOf(t)'
<1>1. /\ step[t] = "work" /\ step'[t] = "move" /\ anew' = anew /\ arow' = arow
  BY GoesTo DEF TransferToAgent, TransferToGroup, ConvWork, At, rows, newest, Steps
<1>2. Writes(t)
  BY TransferKeeps DEF OInv
<1>3. \A a \in Agents : alock'[a] = t => AgentFree(t, a)
  BY <1>2 DEF Writes, AgentFree
<1>4. AgentsKept(t, {})'
  BY <1>1, <1>3, NothingDone DEF AgentsKept
<1> QED
  BY <1>1, <1>4 DEF EffectOf

LEMMA MoveEffect ==
  ASSUME OInv, NEW t \in Backends, EffectOf(t), MoveConversation(t)
  PROVE  EffectOf(t)'
<1>1. HoldsBy(t) /\ KnownBy(t) /\ step[t] = "move"
  BY DEF OInv, IInv, Holds, Books, Known, MoveConversation
<1>2. PICK c \in Convs, b \in Agents :
        /\ c = call[t].conv /\ b = call[t].agent /\ clock[c] = t /\ alock[b] = t
        /\ IsOpen(cnew[c]) /\ anew[b].live /\ ~anew[b].disabled
  BY <1>1 DEF HoldsBy, KnownBy, AgentOps
<1>3. /\ cnew[c] = crow[c] /\ cnew[c] \in ConvRows /\ anew[b] = arow[b] /\ anew[b] \in AgentRows
  BY <1>1, <1>2, NothingDone DEF AgentFree, ConvFree, OInv, IInv, TypeOK
<1>4. PICK x \in Agents \cup {NoAgent} : x = crow[c].owner
  BY <1>3 DEF ConvRows
<1>5. /\ crow' = crow /\ arow' = arow /\ clock' = clock /\ call' = call /\ step'[t] = "commit"
  BY GoesTo DEF MoveConversation, rows, Steps
<1>6. CASE anew' = anew /\ cnew' = cnew /\ alock' = alock
  <2>1. /\ AgentsKept(t, {})' /\ ConvsKept(t, {c})' /\ SameOwner(cnew'[c], crow'[c])
    BY <1>1, <1>2, <1>5, <1>6, NothingDone
    DEF AgentsKept, ConvsKept, AgentFree, ConvFree, SameOwner
  <2> QED
    BY <1>2, <1>5, <2>1 DEF EffectOf, Changed, SameOwner
<1>7. CASE /\ x # b /\ cnew' = [cnew EXCEPT ![c] = [cnew[c] EXCEPT !.status = "assigned", !.owner = b]]
           /\ \/ x = NoAgent /\ anew' = [anew EXCEPT ![b] = More(anew[b])] /\ alock' = alock
              \/ /\ x # NoAgent /\ AgentFree(t, x)
                 /\ anew' = [anew EXCEPT ![x] = Fewer(anew[x]), ![b] = More(anew[b])]
                 /\ alock' = [alock EXCEPT ![x] = t]
  <2>1. PICK new : new = [cnew[c] EXCEPT !.status = "assigned", !.owner = b]
    OBVIOUS
  <2>2. new.status = "assigned" /\ new.owner = b
    BY <1>3, <2>1 DEF ConvRows
  <2>3. cnew'[c] = new /\ \A d \in Convs \ {c} : cnew'[d] = cnew[d]
    BY <1>7, <2>1 DEF OInv, IInv, TypeOK
  <2>4. ConvsKept(t, {c})'
    BY <1>1, <1>5, <2>3, NothingDone DEF ConvsKept, ConvFree, SameOwner
  <2>5. NoAgent \notin Agents
    BY AgentsAssumption
  <2>6. /\ anew'[b] = More(anew[b]) /\ alock'[b] = t
        /\ x \in Agents => /\ anew'[x] = Fewer(anew[x]) /\ alock'[x] = t /\ AgentFree(t, x)
                           /\ anew[x] \in AgentRows
        /\ \A a \in Agents \ {b, x} : anew'[a] = anew[a] /\ alock'[a] = alock[a]
    BY <1>2, <1>7, <2>5 DEF OInv, IInv, TypeOK
  <2>7. CountsMore(t, b)'
    <3>1. SameAgent(anew'[b], arow'[b]) /\ anew'[b].current = arow'[b].current + 1
      BY <1>3, <1>5, <2>6, MoreCounts DEF SameAgent
    <3> QED
      BY <2>6, <3>1 DEF CountsMore, SameAgent
  <2>8. x \in Agents => CountsLess(t, x)'
    <3>1. x \in Agents => anew[x] = arow[x]
      BY <1>1, <2>6, NothingDone
    <3>2. x \in Agents =>
            /\ SameAgent(anew'[x], arow'[x])
            /\ anew'[x].current = IF arow'[x].current > 0 THEN arow'[x].current - 1 ELSE 0
      BY <1>5, <2>6, <3>1, FewerCounts DEF SameAgent
    <3> QED
      BY <2>6, <3>2 DEF CountsLess, SameAgent
  <2>9. \A a \in Agents \ {b, x} : alock'[a] = t => anew'[a] = arow'[a]
    BY <1>1, <1>5, <2>6, NothingDone DEF AgentFree
  <2>10. x = crow'[c].owner
    BY <1>4, <1>5
  <2>11. MovedTo(t, c, b)'
    <3>1. AgentsKept(t, {b, crow[c].owner})'
      BY <2>9, <2>10 DEF AgentsKept
    <3>2. crow'[c].owner # NoAgent => CountsLess(t, crow[c].owner)'
      BY <1>4, <2>8, <2>10 DEF CountsLess
    <3>3. IsOpen(crow[c])'
      BY <1>2, <1>3, <1>5 DEF IsOpen
    <3> QED
      BY <1>2, <1>3, <1>5, <1>7, <2>2, <2>3, <2>7, <2>10, <3>1, <3>2, <3>3 DEF MovedTo
  <2> QED
    BY <1>2, <1>5, <2>4, <2>11 DEF EffectOf, Changed
<1> QED
  BY <1>2, <1>3, <1>4, <1>6, <1>7, AgentsAssumption DEF MoveConversation, SetConvRow, newest

\* What dispatch does to the rows.
LEMMA AssignRows ==
  ASSUME OInv, NEW t \in Backends, NEW c \in Convs, NEW S, AssignConversation(t, c, S)
  PROVE  /\ \A d \in Convs \ {c} : cnew'[d] = cnew[d]
         /\ \/ /\ cnew'[c].owner = NoAgent /\ cnew'[c].status \in S \cup {"ai_serving"}
               /\ anew' = anew /\ alock' = alock
            \/ \E y \in Candidates(t) :
                 /\ cnew'[c].owner = y /\ cnew'[c].status = "assigned" /\ alock'[y] = t
                 /\ SameAgent(anew'[y], anew[y]) /\ anew'[y].current = anew[y].current + 1
                 /\ \A b \in Agents \ {y} : anew'[b] = anew[b] /\ alock'[b] = alock[b]
<1>1. cnew[c] \in ConvRows /\ cnew \in [Convs -> ConvRows]
  BY DEF OInv, IInv, TypeOK
<1>2. ASSUME NEW s, NEW o
      PROVE  /\ [cnew[c] EXCEPT !.status = s, !.owner = o].status = s
             /\ [cnew[c] EXCEPT !.status = s, !.owner = o].owner = o
  BY <1>1 DEF ConvRows
<1>3. CASE /\ \E s \in S \cup {"ai_serving"} :
                cnew' = [cnew EXCEPT ![c] = [@ EXCEPT !.status = s, !.owner = NoAgent]]
           /\ UNCHANGED <<anew, alock>>
  <2>1. PICK s \in S \cup {"ai_serving"} :
          cnew' = [cnew EXCEPT ![c] = [cnew[c] EXCEPT !.status = s, !.owner = NoAgent]]
    BY <1>3
  <2>2. PICK new : new = [cnew[c] EXCEPT !.status = s, !.owner = NoAgent]
    OBVIOUS
  <2>3. new.status = s /\ new.owner = NoAgent
    BY <1>2, <2>2
  <2>4. cnew'[c] = new /\ \A d \in Convs \ {c} : cnew'[d] = cnew[d]
    BY <1>1, <2>1, <2>2
  <2> QED
    BY <1>3, <2>3, <2>4
<1>4. CASE \E y \in Candidates(t) :
             /\ alock' = [alock EXCEPT ![y] = t]
             /\ anew' = [anew EXCEPT ![y] = More(@)]
             /\ cnew' = [cnew EXCEPT ![c] = [@ EXCEPT !.status = "assigned", !.owner = y]]
  <2>1. PICK y \in Candidates(t) :
             /\ alock' = [alock EXCEPT ![y] = t]
             /\ anew' = [anew EXCEPT ![y] = More(anew[y])]
             /\ cnew' = [cnew EXCEPT ![c] = [cnew[c] EXCEPT !.status = "assigned", !.owner = y]]
    BY <1>4
  <2>2. PICK new : new = [cnew[c] EXCEPT !.status = "assigned", !.owner = y]
    OBVIOUS
  <2>3. new.status = "assigned" /\ new.owner = y
    BY <1>2, <2>2
  <2>4. cnew'[c] = new /\ \A d \in Convs \ {c} : cnew'[d] = cnew[d]
    BY <1>1, <2>1, <2>2
  <2>5. y \in Agents /\ anew[y] \in AgentRows
    BY DEF Candidates, OInv, IInv, TypeOK
  <2>6. /\ anew'[y] = More(anew[y]) /\ alock'[y] = t
        /\ \A b \in Agents \ {y} : anew'[b] = anew[b] /\ alock'[b] = alock[b]
    BY <2>1, <2>5 DEF OInv, IInv, TypeOK
  <2>7. SameAgent(anew'[y], anew[y]) /\ anew'[y].current = anew[y].current + 1
    BY <2>5, <2>6, MoreCounts DEF SameAgent
  <2> QED
    BY <2>3, <2>4, <2>6, <2>7
<1> QED
  BY <1>3, <1>4 DEF AssignConversation

LEMMA AssignEffect ==
  ASSUME OInv, NEW t \in Backends, EffectOf(t), Assign(t)
  PROVE  EffectOf(t)'
<1>0. PICK c0 : c0 = call[t].conv
  OBVIOUS
<1>1. PICK S : /\ S = IF call[t].op = "create" THEN LeftTo("waiting") ELSE {"human_requested"}
               /\ AssignConversation(t, c0, S)
  BY <1>0 DEF Assign
<1>2. /\ step[t] = "assign" /\ crow' = crow /\ arow' = arow /\ clock' = clock /\ call' = call
      /\ step'[t] = "commit"
  BY GoesTo DEF Assign, rows, Steps
<1>3. HoldsBy(t) /\ Unassigned(t)
  BY <1>2 DEF OInv, IInv, Holds, EffectOf
<1>4. PICK c \in Convs : c = c0 /\ c = call[t].conv /\ clock[c] = t
  BY <1>0, <1>2, <1>3 DEF HoldsBy
<1>5. /\ AgentsKept(t, {}) /\ ConvsKept(t, {c})
      /\ crow[c].status # "closed" /\ crow[c].owner = NoAgent
      /\ call[t].op = "create" => crow[c].status = "none"
  BY <1>3, <1>4 DEF Unassigned
<1>6. /\ \A s \in S \cup {"ai_serving"} :
           /\ s \in {"waiting", "human_requested", "ai_serving"}
           /\ s = "waiting" => crow[c].status = "none"
  BY <1>1, <1>5 DEF LeftTo
<1>7. /\ \A d \in Convs \ {c} : cnew'[d] = cnew[d]
      /\ \/ /\ cnew'[c].owner = NoAgent /\ cnew'[c].status \in S \cup {"ai_serving"}
            /\ anew' = anew /\ alock' = alock
         \/ \E y \in Candidates(t) :
              /\ cnew'[c].owner = y /\ cnew'[c].status = "assigned" /\ alock'[y] = t
              /\ SameAgent(anew'[y], anew[y]) /\ anew'[y].current = anew[y].current + 1
              /\ \A b \in Agents \ {y} : anew'[b] = anew[b] /\ alock'[b] = alock[b]
  BY <1>1, <1>4, AssignRows
<1>8. ConvsKept(t, {c})'
  BY <1>2, <1>5, <1>7 DEF ConvsKept, SameOwner
<1>9. CASE /\ cnew'[c].owner = NoAgent /\ cnew'[c].status \in S \cup {"ai_serving"}
           /\ anew' = anew /\ alock' = alock
  <2>1. Progressed(t, c)'
    BY <1>2, <1>5, <1>6, <1>9 DEF Progressed, AgentsKept
  <2> QED
    BY <1>2, <1>4, <1>8, <2>1 DEF EffectOf, Changed
<1>10. ASSUME NEW y \in Candidates(t),
              cnew'[c].owner = y, cnew'[c].status = "assigned", alock'[y] = t,
              SameAgent(anew'[y], anew[y]), anew'[y].current = anew[y].current + 1,
              \A b \in Agents \ {y} : anew'[b] = anew[b] /\ alock'[b] = alock[b]
       PROVE  EffectOf(t)'
  <2>1. /\ y \in Agents /\ AgentFree(t, y) /\ anew[y].live /\ ~anew[y].disabled
        /\ anew[y].status = "online" /\ anew[y].current < anew[y].max
    BY CandidatesServe
  <2>2. anew[y] = arow[y]
    BY <1>5, <2>1 DEF AgentsKept, AgentFree, OInv, IInv, TypeOK
  <2>3. CountsMore(t, y)' /\ CanTake(arow[y])'
    BY <1>2, <1>10, <2>1, <2>2 DEF CountsMore, CanTake, SameAgent
  <2>4. AgentsKept(t, {y})'
    BY <1>2, <1>5, <1>10 DEF AgentsKept
  <2>5. DispatchedTo(t, c, y)'
    BY <1>2, <1>5, <1>10, <2>3, <2>4 DEF DispatchedTo
  <2> QED
    BY <1>2, <1>4, <1>8, <2>1, <2>5 DEF EffectOf, Changed
<1> QED
  BY <1>7, <1>9, <1>10

-----------------------------------------------------------------------------
(* What a transaction does to an agent *)

\* It locks the row it starts with, as nobody has written it.
LEMMA LocksEffect ==
  ASSUME OInv, NEW t \in Backends, LockAgent(t) \/ LockConversation(t)
  PROVE  EffectOf(t)'
<1>1. /\ step'[t] = "work" /\ anew' = anew /\ arow' = arow
  BY GoesTo DEF LockAgent, LockConversation, Steps, rows, newest
<1>2. \A a \in Agents : alock[a] # t
  BY DEF LockAgent, LockConversation, OInv, IInv, Holds, HoldsBy, Outside
<1>3. Writes(t)
  BY LocksKeep DEF OInv
<1>4. \A a \in Agents : alock'[a] = t => alock[a] = Free
  BY <1>2, <1>3 DEF Writes
<1>5. AgentsKept(t, {})'
  BY <1>1, <1>4 DEF AgentsKept, OInv, IInv, TypeOK
<1> QED
  BY <1>1, <1>5 DEF EffectOf

\* At work on an agent, t has found its row as it is committed.
LEMMA AgentFound ==
  ASSUME OInv, NEW t \in Backends, EffectOf(t), NEW op \in AgentOps, AgentWork(t, op)
  PROVE  \E a \in Agents :
           /\ a = call[t].agent /\ call[t].op = op /\ alock[a] = t
           /\ arow[a] = anew[a] /\ arow[a] \in AgentRows /\ arow[a].live
           /\ \A b \in Agents : alock[b] = t => anew[b] = arow[b]
           /\ \A c \in Convs : clock[c] # t
<1>1. At(t, "work", op) /\ anew[call[t].agent].live /\ step[t] = "work"
  BY DEF AgentWork, At
<1>2. /\ call[t].op = op /\ call[t].agent \in Agents /\ alock[call[t].agent] = t
      /\ anew[call[t].agent] \in AgentRows /\ \A c \in Convs : clock[c] # t
  BY <1>1, AtAgentWork DEF OInv
<1>3. \A b \in Agents : alock[b] = t => anew[b] = arow[b]
  BY <1>1, NothingDone DEF AgentFree
<1> QED
  BY <1>1, <1>2, <1>3

\* It writes that row and moves no conversation.
LEMMA AgentEdited ==
  ASSUME OInv, NEW t \in Backends, EffectOf(t), NEW op \in AgentOps, AgentWork(t, op),
         NEW new, SetAgentRow(t, new), Goto(t, "commit"),
         UNCHANGED <<rows, cnew, locks, call, counters>>,
         new.live, new.disabled = anew[call[t].agent].disabled,
         new.current = anew[call[t].agent].current,
         new.disabled /\ new.status = "online" => anew[call[t].agent].status = "online"
  PROVE  EffectOf(t)'
<1>1. PICK a \in Agents :
           /\ a = call[t].agent /\ call[t].op = op /\ alock[a] = t
           /\ arow[a] = anew[a] /\ arow[a] \in AgentRows /\ arow[a].live
           /\ \A b \in Agents : alock[b] = t => anew[b] = arow[b]
           /\ \A c \in Convs : clock[c] # t
  BY AgentFound
<1>2. anew'[a] = new /\ \A b \in Agents \ {a} : anew'[b] = anew[b]
  BY <1>1 DEF SetAgentRow, OInv, IInv, TypeOK
<1>3. /\ arow' = arow /\ alock' = alock /\ clock' = clock /\ call' = call
      /\ step'[t] = "commit"
  BY GoesTo DEF rows, locks, Steps
<1>4. AgentsKept(t, {a})' /\ ConvsKept(t, {})'
  BY <1>1, <1>2, <1>3 DEF AgentsKept, ConvsKept
<1>5. Edited(t)'
  BY <1>1, <1>2, <1>3, <1>4 DEF Edited
<1> QED
  BY <1>3, <1>5 DEF EffectOf

\* It takes the agent out of service and goes on to the loop.
LEMMA AgentLeaves ==
  ASSUME OInv, NEW t \in Backends, EffectOf(t),
         NEW op \in {"set_status", "disable_agent", "delete_agent"}, AgentWork(t, op),
         NEW new, SetAgentRow(t, new), Goto(t, "release"),
         UNCHANGED <<rows, cnew, locks, call, counters>>,
         new.live, new.status = "offline", new.current = 0,
         new.max = anew[call[t].agent].max,
         op = "disable_agent" => new.disabled,
         op # "disable_agent" => new.disabled = anew[call[t].agent].disabled
  PROVE  EffectOf(t)'
<1>0. op \in AgentOps
  BY DEF AgentOps
<1>1. PICK a \in Agents :
           /\ a = call[t].agent /\ call[t].op = op /\ alock[a] = t
           /\ arow[a] = anew[a] /\ arow[a] \in AgentRows /\ arow[a].live
           /\ \A b \in Agents : alock[b] = t => anew[b] = arow[b]
           /\ \A c \in Convs : clock[c] # t
  BY <1>0, AgentFound
<1>2. anew'[a] = new /\ \A b \in Agents \ {a} : anew'[b] = anew[b]
  BY <1>1 DEF SetAgentRow, OInv, IInv, TypeOK
<1>3. /\ arow' = arow /\ alock' = alock /\ clock' = clock /\ call' = call
      /\ step'[t] = "release"
  BY GoesTo DEF rows, locks, Steps
<1>4. ASSUME NEW b \in Agents \ {a}, alock'[b] = t
      PROVE  /\ anew'[b] = arow'[b] /\ Given(t, b)' = {}
             /\ anew'[b].current = arow'[b].current + Cardinality(Given(t, b)')
  <2>1. anew'[b] = arow'[b] /\ arow'[b] \in AgentRows
    BY <1>1, <1>2, <1>3, <1>4 DEF OInv, IInv, TypeOK
  <2>2. Given(t, b)' = {}
    BY <1>1, <1>3 DEF Given
  <2> QED
    BY <2>1, <2>2, AgentFields, NoneCount
<1>5. \A b \in Agents \ {a} : Receiver(t, b)'
  BY <1>4 DEF Receiver, SameAgent
<1>6. Locked(t)' = {}
  BY <1>1, <1>3 DEF Locked
<1>7. Handing(t)'
  BY <1>1, <1>3, <1>5, <1>6 DEF Handing
<1>8. Gone(t)'
  BY <1>1, <1>2, <1>3 DEF Gone
<1> QED
  BY <1>3, <1>7, <1>8 DEF EffectOf

\* It brings the agent into service and goes on to the queue.
LEMMA AgentComes ==
  ASSUME OInv, NEW t \in Backends, EffectOf(t), AgentWork(t, "set_status"),
         NEW new, SetAgentRow(t, new), Goto(t, "pick_up"),
         UNCHANGED <<rows, cnew, locks, call, counters>>,
         new.live, new.status = "online", ~new.disabled, ~anew[call[t].agent].disabled,
         new.current = anew[call[t].agent].current, new.max = anew[call[t].agent].max
  PROVE  EffectOf(t)'
<1>0. "set_status" \in AgentOps
  BY DEF AgentOps
<1>1. PICK a \in Agents :
           /\ a = call[t].agent /\ alock[a] = t
           /\ arow[a] = anew[a] /\ arow[a] \in AgentRows /\ arow[a].live
           /\ \A b \in Agents : alock[b] = t => anew[b] = arow[b]
           /\ \A c \in Convs : clock[c] # t
  BY <1>0, AgentFound
<1>2. anew'[a] = new /\ \A b \in Agents \ {a} : anew'[b] = anew[b]
  BY <1>1 DEF SetAgentRow, OInv, IInv, TypeOK
<1>3. /\ arow' = arow /\ alock' = alock /\ clock' = clock /\ call' = call
      /\ step'[t] = "pick_up"
  BY GoesTo DEF rows, locks, Steps
<1>4. Locked(t)' = {}
  BY <1>1, <1>3 DEF Locked
<1>5. anew'[a].current = arow'[a].current + Cardinality(Locked(t)')
  BY <1>1, <1>2, <1>3, <1>4, AgentFields, NoneCount
<1>6. AgentsKept(t, {a})'
  BY <1>1, <1>2, <1>3 DEF AgentsKept
<1>7. TookUp(t)'
  BY <1>1, <1>2, <1>3, <1>4, <1>5, <1>6 DEF TookUp
<1> QED
  BY <1>3, <1>7 DEF EffectOf

LEMMA AgentsEffect ==
  ASSUME OInv, NEW t \in Backends, EffectOf(t),
         \/ SetBusy(t) \/ SetOffline(t) \/ SetOnline(t) \/ UpdateAgent(t)
         \/ DisableAgent(t) \/ DeleteAgent(t)
  PROVE  EffectOf(t)'
<1>0. \A op \in AgentOps : AgentWork(t, op) =>
        /\ anew[call[t].agent] \in AgentRows /\ anew[call[t].agent].live
        /\ CallOK(call[t]) /\ call[t].op = op
  BY AtAgentWork DEF AgentWork, OInv
<1>1. CASE SetBusy(t)
  <2>1. AgentWork(t, "set_status") /\ "set_status" \in AgentOps
    BY <1>1 DEF SetBusy, AgentOps
  <2>2. PICK r \in AgentRows : r = anew[call[t].agent] /\ r.live
    BY <1>0, <2>1
  <2>3. PICK new : new = [r EXCEPT !.status = "busy"]
    OBVIOUS
  <2>4. new.live /\ new.disabled = r.disabled /\ new.current = r.current /\ new.status = "busy"
    BY <2>2, <2>3 DEF AgentRows
  <2>5. SetAgentRow(t, new) /\ Goto(t, "commit")
          /\ UNCHANGED <<rows, cnew, locks, call, counters>>
    BY <1>1, <2>2, <2>3 DEF SetBusy
  <2> QED
    BY <2>1, <2>2, <2>4, <2>5, AgentEdited
<1>2. CASE SetOffline(t)
  <2>1. AgentWork(t, "set_status") /\ "set_status" \in AgentOps
    BY <1>2 DEF SetOffline, AgentOps
  <2>2. PICK r \in AgentRows : r = anew[call[t].agent] /\ r.live
    BY <1>0, <2>1
  <2>3. PICK new : new = [r EXCEPT !.status = "offline", !.current = 0]
    OBVIOUS
  <2>4. /\ new.live /\ new.disabled = r.disabled /\ new.current = 0 /\ new.status = "offline"
        /\ new.max = r.max
    BY <2>2, <2>3 DEF AgentRows
  <2>5. SetAgentRow(t, new) /\ Goto(t, "release")
          /\ UNCHANGED <<rows, cnew, locks, call, counters>>
    BY <1>2, <2>2, <2>3 DEF SetOffline
  <2> QED
    BY <2>1, <2>2, <2>4, <2>5, AgentLeaves
<1>3. CASE SetOnline(t)
  <2>1. AgentWork(t, "set_status") /\ "set_status" \in AgentOps /\ ~anew[call[t].agent].disabled
    BY <1>3 DEF SetOnline, AgentOps
  <2>2. PICK r \in AgentRows : r = anew[call[t].agent] /\ r.live /\ ~r.disabled
    BY <1>0, <2>1
  <2>3. PICK new : new = [r EXCEPT !.status = "online"]
    OBVIOUS
  <2>4. /\ new.live /\ ~new.disabled /\ new.current = r.current /\ new.status = "online"
        /\ new.max = r.max
    BY <2>2, <2>3 DEF AgentRows
  <2>5. SetAgentRow(t, new) /\ Goto(t, "pick_up")
          /\ UNCHANGED <<rows, cnew, locks, call, counters>>
    BY <1>3, <2>2, <2>3 DEF SetOnline
  <2> QED
    BY <2>1, <2>2, <2>4, <2>5, AgentComes
<1>4. CASE UpdateAgent(t)
  <2>1. /\ AgentWork(t, "update_agent") /\ "update_agent" \in AgentOps
        /\ ~(anew[call[t].agent].disabled /\ call[t].word = "online")
    BY <1>4 DEF UpdateAgent, AgentOps
  <2>2. PICK r \in AgentRows : r = anew[call[t].agent] /\ r.live
    BY <1>0, <2>1
  <2>3. PICK new : new = [r EXCEPT !.max = IF call[t].num = NoLimit THEN @ ELSE call[t].num,
                                   !.status = IF call[t].word = "" THEN @ ELSE call[t].word]
    OBVIOUS
  <2>4. /\ new.live /\ new.disabled = r.disabled /\ new.current = r.current
        /\ new.status = IF call[t].word = "" THEN r.status ELSE call[t].word
    BY <2>2, <2>3 DEF AgentRows
  <2>5. SetAgentRow(t, new) /\ Goto(t, "commit")
          /\ UNCHANGED <<rows, cnew, locks, call, counters>>
    BY <1>4, <2>2, <2>3 DEF UpdateAgent
  <2>6. new.disabled /\ new.status = "online" => r.status = "online"
    BY <2>1, <2>2, <2>4
  <2> QED
    BY <2>1, <2>2, <2>4, <2>5, <2>6, AgentEdited
<1>5. CASE DisableAgent(t)
  <2>1. AgentWork(t, "disable_agent") /\ "disable_agent" \in AgentOps
    BY <1>5 DEF DisableAgent, AgentOps
  <2>2. PICK r \in AgentRows : r = anew[call[t].agent] /\ r.live
    BY <1>0, <2>1
  <2>3. PICK new : new = [r EXCEPT !.status = "offline", !.current = 0, !.disabled = TRUE]
    OBVIOUS
  <2>4. /\ new.live /\ new.disabled /\ new.current = 0 /\ new.status = "offline"
        /\ new.max = r.max
    BY <2>2, <2>3 DEF AgentRows
  <2>5. SetAgentRow(t, new) /\ Goto(t, "release")
          /\ UNCHANGED <<rows, cnew, locks, call, counters>>
    BY <1>5, <2>2, <2>3 DEF DisableAgent
  <2> QED
    BY <2>1, <2>2, <2>4, <2>5, AgentLeaves
<1>6. CASE DeleteAgent(t)
  <2>1. AgentWork(t, "delete_agent") /\ "delete_agent" \in AgentOps
    BY <1>6 DEF DeleteAgent, AgentOps
  <2>2. PICK r \in AgentRows : r = anew[call[t].agent] /\ r.live
    BY <1>0, <2>1
  <2>3. PICK new : new = [r EXCEPT !.status = "offline", !.current = 0]
    OBVIOUS
  <2>4. /\ new.live /\ new.disabled = r.disabled /\ new.current = 0 /\ new.status = "offline"
        /\ new.max = r.max
    BY <2>2, <2>3 DEF AgentRows
  <2>5. SetAgentRow(t, new) /\ Goto(t, "release")
          /\ UNCHANGED <<rows, cnew, locks, call, counters>>
    BY <1>6, <2>2, <2>3 DEF DeleteAgent
  <2> QED
    BY <2>1, <2>2, <2>4, <2>5, AgentLeaves
<1> QED
  BY <1>1, <1>2, <1>3, <1>4, <1>5, <1>6

-----------------------------------------------------------------------------
(* What a release loop does *)

\* A conversation that t has locked and that is still the agent's is as committed.
LEMMA StillTheirs ==
  ASSUME NEW t, NEW a \in Agents, NEW c, Passed(t, a, c), cnew[c].owner = a
  PROVE  SameOwner(cnew[c], crow[c])
BY AgentsAssumption DEF Passed

LEMMA LockServedEffect ==
  ASSUME OInv, NEW t \in Backends, EffectOf(t), LockServed(t)
  PROVE  EffectOf(t)'
<1>1. /\ arow' = arow /\ crow' = crow /\ anew' = anew /\ cnew' = cnew /\ alock' = alock
      /\ call' = call /\ step' = step /\ step[t] = "release"
  BY DEF LockServed, rows, newest
<1>2. IInv' /\ Writes(t)
  BY LoopKeeps DEF OInv
<1>3. Handing(t) /\ Gone(t)
  BY <1>1 DEF EffectOf
<1>4. PICK a \in Agents : a = call[t].agent /\ alock[a] = t /\ arow[a].live
  BY <1>3 DEF Handing
<1>5. \A c \in Convs : clock'[c] = t => crow[c].owner = a
  BY <1>1, <1>2, <1>4 DEF IInv, Holds, HoldsBy
<1>6. \A c \in Convs : \/ clock'[c] = clock[c]
                       \/ clock[c] = Free /\ clock'[c] = t /\ cnew[c] = crow[c]
  BY <1>2 DEF Writes, OInv, IInv, TypeOK
<1>7. ASSUME NEW c \in Convs, clock'[c] = t PROVE Passed(t, a, c)'
  <2>1. CASE clock'[c] = clock[c]
    <3>1. Passed(t, a, c)
      BY <1>3, <1>4, <1>7, <2>1 DEF Handing, Locked
    <3> QED
      BY <1>1, <3>1 DEF Passed, SameOwner, IsOpen
  <2>2. CASE cnew[c] = crow[c]
    BY <1>1, <2>2 DEF Passed, SameOwner
  <2> QED
    BY <1>6, <2>1, <2>2
<1>8. ASSUME NEW b \in Agents \ {a} PROVE Receiver(t, b)'
  <2>1. Given(t, b)' = {c \in Convs : clock'[c] = t /\ IsOpen(crow[c]) /\ cnew[c].owner = b}
    BY <1>1 DEF Given, IsOpen
  <2>2. ASSUME NEW c \in Convs, cnew[c].owner = b
        PROVE  clock'[c] = t <=> clock[c] = t
    <3>1. CASE clock[c] = Free /\ clock'[c] = t /\ cnew[c] = crow[c]
      BY <1>5, <1>8, <2>2, <3>1
    <3> QED
      BY <1>6, <3>1
  <2>3. Given(t, b)' = Given(t, b)
    BY <2>1, <2>2 DEF Given
  <2>4. Receiver(t, b)
    BY <1>3, <1>4 DEF Handing
  <2> QED
    BY <1>1, <2>3, <2>4 DEF Receiver, SameAgent, CanTake
<1>9. Handing(t)'
  BY <1>1, <1>4, <1>5, <1>7, <1>8 DEF Handing, Locked
<1>10. Gone(t)'
  BY <1>1, <1>3 DEF Gone
<1> QED
  BY <1>1, <1>9, <1>10 DEF EffectOf

\* One of the agent's conversations is dispatched.
LEMMA ReleaseOneEffect ==
  ASSUME OInv, NEW t \in Backends, EffectOf(t), ReleaseOne(t)
  PROVE  EffectOf(t)'
<1>1. /\ arow' = arow /\ crow' = crow /\ clock' = clock /\ call' = call /\ step' = step
      /\ step[t] = "release"
  BY DEF ReleaseOne, rows
<1>2. Handing(t) /\ Gone(t)
  BY <1>1 DEF EffectOf
<1>3. PICK a \in Agents : a = call[t].agent /\ alock[a] = t /\ arow[a].live
  BY <1>2 DEF Handing
<1>4. PICK c \in Served(t, a) : clock[c] = t /\ AssignConversation(t, c, LeftTo("waiting"))
  BY <1>3 DEF ReleaseOne
<1>5. c \in Convs /\ IsOpen(cnew[c]) /\ cnew[c].owner = a
  BY <1>3, <1>4, ServedIs DEF NewServing, Serves
<1>6. crow[c].owner = a /\ IsOpen(crow[c])
  <2>1. crow[c].owner = a /\ Passed(t, a, c)
    BY <1>2, <1>3, <1>4, <1>5 DEF Handing, Locked
  <2>2. SameOwner(cnew[c], crow[c])
    BY <1>5, <2>1, StillTheirs
  <2> QED
    BY <1>5, <2>1, <2>2 DEF SameOwner, IsOpen
<1>7. PICK S : S = LeftTo("waiting") /\ S \cup {"ai_serving"} \subseteq {"waiting", "ai_serving"}
  BY DEF LeftTo
<1>8. /\ \A d \in Convs \ {c} : cnew'[d] = cnew[d]
      /\ \/ /\ cnew'[c].owner = NoAgent /\ cnew'[c].status \in S \cup {"ai_serving"}
            /\ anew' = anew /\ alock' = alock
         \/ \E y \in Candidates(t) :
              /\ cnew'[c].owner = y /\ cnew'[c].status = "assigned" /\ alock'[y] = t
              /\ SameAgent(anew'[y], anew[y]) /\ anew'[y].current = anew[y].current + 1
              /\ \A b \in Agents \ {y} : anew'[b] = anew[b] /\ alock'[b] = alock[b]
  BY <1>4, <1>5, <1>7, AssignRows
<1>9. \A b : Given(t, b)' = {d \in Convs : clock[d] = t /\ IsOpen(crow[d]) /\ cnew'[d].owner = b}
  BY <1>1 DEF Given, IsOpen
<1>10. \A b \in Agents \ {a} : c \notin Given(t, b) /\ Given(t, b) \in SUBSET Convs
  BY <1>5 DEF Given
<1>11. ASSUME \A b \in Agents : alock[b] = t => alock'[b] = t, NEW d \in Locked(t) \ {c}
       PROVE  crow'[d].owner = a /\ Passed(t, a, d)'
  <2>1. crow[d].owner = a /\ Passed(t, a, d) /\ cnew'[d] = cnew[d]
    BY <1>2, <1>3, <1>8, <1>11 DEF Handing, Locked
  <2> QED
    BY <1>1, <1>11, <2>1 DEF Passed, IsOpen, SameOwner
<1>12. CASE /\ cnew'[c].owner = NoAgent /\ cnew'[c].status \in S \cup {"ai_serving"}
            /\ anew' = anew /\ alock' = alock
  <2>1. Passed(t, a, c)'
    BY <1>1, <1>6, <1>7, <1>12 DEF Passed, IsOpen
  <2>2. ASSUME NEW b \in Agents \ {a} PROVE Receiver(t, b)'
    <3>1. Given(t, b)' = Given(t, b)
      BY <1>5, <1>8, <1>9, <1>12, AgentsAssumption DEF Given
    <3>2. Receiver(t, b)
      BY <1>2, <1>3 DEF Handing
    <3> QED
      BY <1>1, <1>12, <3>1, <3>2 DEF Receiver, SameAgent, CanTake
  <2>3. Locked(t)' = Locked(t)
    BY <1>1 DEF Locked
  <2>4. Handing(t)'
    BY <1>1, <1>3, <1>6, <1>11, <1>12, <2>1, <2>2, <2>3 DEF Handing
  <2>5. Gone(t)'
    BY <1>1, <1>2, <1>12 DEF Gone
  <2> QED
    BY <1>1, <2>4, <2>5 DEF EffectOf
<1>13. ASSUME NEW y \in Candidates(t),
              cnew'[c].owner = y, cnew'[c].status = "assigned", alock'[y] = t,
              SameAgent(anew'[y], anew[y]), anew'[y].current = anew[y].current + 1,
              \A b \in Agents \ {y} : anew'[b] = anew[b] /\ alock'[b] = alock[b]
       PROVE  EffectOf(t)'
  <2>1. /\ y \in Agents /\ AgentFree(t, y) /\ anew[y].live /\ ~anew[y].disabled
        /\ anew[y].status = "online" /\ anew[y].current < anew[y].max
    BY CandidatesServe
  <2>2. y # a
    BY <1>2, <1>3, <2>1 DEF Gone
  <2>3. Passed(t, a, c)'
    BY <1>1, <1>6, <1>13, <2>1, <2>2 DEF Passed, IsOpen
  <2>4. ASSUME NEW b \in Agents \ {a, y} PROVE Receiver(t, b)'
    <3>1. Given(t, b)' = Given(t, b)
      BY <1>5, <1>8, <1>9, <1>13, <2>4 DEF Given
    <3>2. Receiver(t, b) /\ anew'[b] = anew[b] /\ alock'[b] = alock[b]
      BY <1>2, <1>3, <1>13 DEF Handing
    <3> QED
      BY <1>1, <3>1, <3>2 DEF Receiver, SameAgent, CanTake
  <2>5. Receiver(t, y)'
    <3>1. Given(t, y)' = Given(t, y) \cup {c}
      BY <1>4, <1>5, <1>6, <1>8, <1>9, <1>13 DEF Given
    <3>2. PICK G \in SUBSET Convs : G = Given(t, y) /\ c \notin G
      BY <1>10, <2>1, <2>2
    <3>3. Cardinality(G \cup {c}) = Cardinality(G) + 1 /\ Cardinality(G) \in Nat
      BY <1>5, <3>2, OneMore, ConvSetFinite
    <3>4. /\ SameAgent(anew[y], arow[y])
          /\ anew[y].current = arow[y].current + Cardinality(G)
      <4>1. CASE alock[y] = t
        BY <1>2, <1>3, <2>1, <2>2, <3>2, <4>1 DEF Handing, Receiver
      <4>2. CASE alock[y] # t
        <5>1. anew[y] = arow[y] /\ arow[y] \in AgentRows
          BY <2>1, <4>2 DEF AgentFree, OInv, IInv, TypeOK
        <5>2. ASSUME NEW d \in G PROVE FALSE
          <6>1. d \in Locked(t) /\ cnew[d].owner = y
            BY <3>2, <5>2 DEF Given, Locked
          <6>2. crow[d].owner = a /\ Passed(t, a, d)
            BY <1>2, <1>3, <6>1 DEF Handing
          <6> QED
            BY <2>1, <2>2, <4>2, <6>1, <6>2, AgentsAssumption DEF Passed, SameOwner
        <5>3. G = {}
          BY <5>2
        <5> QED
          BY <5>1, <5>3, AgentFields, NoneCount DEF SameAgent
      <4> QED
        BY <4>1, <4>2
    <3>5. anew[y] \in AgentRows /\ arow[y] \in AgentRows
      BY <2>1 DEF OInv, IInv, TypeOK
    <3>6. /\ arow[y].current \in Nat /\ anew[y].current \in Nat
          /\ arow[y].max \in Nat /\ anew[y].max = arow[y].max
      BY <3>4, <3>5, AgentFields DEF SameAgent
    <3>7. CanTake(arow[y])
      BY <2>1, <3>3, <3>4, <3>6 DEF CanTake, SameAgent
    <3>8. SameAgent(anew'[y], arow[y])
      BY <1>13, <3>4 DEF SameAgent
    <3>9. /\ anew'[y].current = arow[y].current + Cardinality(G \cup {c})
          /\ anew'[y].current <= arow[y].max
      BY <1>13, <2>1, <3>3, <3>4, <3>6
    <3> QED
      BY <1>1, <3>1, <3>2, <3>7, <3>8, <3>9 DEF Receiver, SameAgent, CanTake
  <2>6. Locked(t)' = Locked(t)
    BY <1>1 DEF Locked
  <2>7. \A b \in Agents : alock[b] = t => alock'[b] = t
    BY <1>13
  <2>8. alock'[a] = t /\ anew'[a] = anew[a]
    BY <1>3, <1>13, <2>2
  <2>9. Handing(t)'
    BY <1>1, <1>3, <1>6, <1>11, <2>3, <2>4, <2>5, <2>6, <2>7, <2>8 DEF Handing
  <2>10. Gone(t)'
    BY <1>1, <1>2, <1>3, <2>8 DEF Gone
  <2> QED
    BY <1>1, <2>9, <2>10 DEF EffectOf
<1> QED
  BY <1>8, <1>12, <1>13

\* A closed conversation is no longer the deleted agent's.
LEMMA ClearClosedEffect ==
  ASSUME OInv, NEW t \in Backends, EffectOf(t), ClearClosed(t)
  PROVE  EffectOf(t)'
<1>1. /\ arow' = arow /\ crow' = crow /\ anew' = anew /\ alock' = alock /\ call' = call
      /\ step' = step /\ step[t] = "release" /\ call[t].op = "delete_agent"
  BY DEF ClearClosed, At, rows
<1>2. Handing(t) /\ Gone(t)
  BY <1>1 DEF EffectOf
<1>3. PICK a \in Agents : a = call[t].agent /\ alock[a] = t /\ arow[a].live
  BY <1>2 DEF Handing
<1>4. PICK c \in Convs :
        /\ ConvSeen(t, c).status = "closed" /\ ConvSeen(t, c).owner = a /\ ConvFree(t, c)
        /\ clock' = [clock EXCEPT ![c] = t]
        /\ cnew' = [cnew EXCEPT ![c] = [cnew[c] EXCEPT !.owner = NoAgent]]
  BY <1>3 DEF ClearClosed, ClosedOf
<1>5. cnew[c].status = "closed" /\ cnew[c].owner = a /\ cnew[c] \in ConvRows
  BY <1>4, SeesNewest DEF OInv, IInv, TypeOK
<1>6. crow[c].status = "closed" /\ crow[c].owner = a
  <2>1. CASE clock[c] = t
    <3>1. Passed(t, a, c)
      BY <1>2, <1>3, <2>1 DEF Handing, Locked
    <3>2. SameOwner(cnew[c], crow[c])
      BY <1>5, <3>1, StillTheirs
    <3> QED
      BY <1>5, <3>2 DEF SameOwner
  <2>2. CASE clock[c] # t
    BY <1>4, <1>5, <2>2 DEF ConvFree, OInv, IInv, TypeOK
  <2> QED
    BY <2>1, <2>2
<1>7. PICK new : new = [cnew[c] EXCEPT !.owner = NoAgent]
  OBVIOUS
<1>8. new.status = "closed" /\ new.owner = NoAgent
  BY <1>5, <1>7 DEF ConvRows
<1>9. /\ clock'[c] = t /\ cnew'[c] = new
      /\ \A d \in Convs \ {c} : clock'[d] = clock[d] /\ cnew'[d] = cnew[d]
  BY <1>4, <1>7 DEF OInv, IInv, TypeOK
<1>10. Passed(t, a, c)'
  BY <1>1, <1>6, <1>8, <1>9 DEF Passed
<1>11. ASSUME NEW d \in Convs \ {c}, clock'[d] = t
       PROVE  crow'[d].owner = a /\ Passed(t, a, d)'
  <2>1. crow[d].owner = a /\ Passed(t, a, d) /\ cnew'[d] = cnew[d]
    BY <1>2, <1>3, <1>9, <1>11 DEF Handing, Locked
  <2> QED
    BY <1>1, <2>1 DEF Passed, SameOwner, IsOpen
<1>12. ASSUME NEW b \in Agents \ {a} PROVE Receiver(t, b)'
  <2>1. ~IsOpen(crow[c])
    BY <1>6 DEF IsOpen
  <2>2. Given(t, b)' = {d \in Convs : clock'[d] = t /\ IsOpen(crow[d]) /\ cnew'[d].owner = b}
    BY <1>1 DEF Given, IsOpen
  <2>3. Given(t, b)' = Given(t, b)
    BY <1>9, <2>1, <2>2 DEF Given
  <2>4. Receiver(t, b)
    BY <1>2, <1>3 DEF Handing
  <2> QED
    BY <1>1, <2>3, <2>4 DEF Receiver, SameAgent, CanTake
<1>13. Handing(t)'
  <2>1. \A d \in Convs : clock'[d] = t => crow'[d].owner = a /\ Passed(t, a, d)'
    BY <1>1, <1>6, <1>10, <1>11
  <2> QED
    BY <1>1, <1>3, <1>12, <2>1 DEF Handing, Locked
<1>14. Gone(t)'
  BY <1>1, <1>2 DEF Gone
<1> QED
  BY <1>1, <1>13, <1>14 DEF EffectOf

\* The loop is over.
LEMMA ReleasedEffect ==
  ASSUME OInv, NEW t \in Backends, EffectOf(t), Released(t)
  PROVE  EffectOf(t)'
<1>1. /\ arow' = arow /\ crow' = crow /\ cnew' = cnew /\ alock' = alock /\ clock' = clock
      /\ call' = call /\ step[t] = "release" /\ step'[t] = "commit"
  BY GoesTo DEF Released, rows, locks, Steps
<1>2. Handing(t) /\ Gone(t)
  BY <1>1 DEF EffectOf
<1>3. PICK a \in Agents : a = call[t].agent /\ alock[a] = t /\ arow[a].live
  BY <1>2 DEF Handing
<1>4. Served(t, a) = {} /\ \A c \in Convs : ~Serves(cnew[c], a)
  BY <1>3, ServedIs DEF Released, NewServing
<1>5. ASSUME NEW c \in Convs, Serves(crow[c], a)
      PROVE  clock[c] = t /\ cnew[c].owner # a
  <2>1. clock[c] = t
    BY <1>3, <1>4, <1>5 DEF OInv, Books, UnderLock
  <2>2. Passed(t, a, c)
    BY <1>2, <1>3, <2>1 DEF Handing, Locked
  <2>3. SameOwner(cnew[c], crow[c]) => Serves(cnew[c], a)
    BY <1>5 DEF SameOwner, Serves, IsOpen
  <2> QED
    BY <1>4, <2>1, <2>2, <2>3, StillTheirs
<1>6. \A b \in Agents \ {a} : anew'[b] = anew[b]
  BY <1>3 DEF Released, OInv, IInv, TypeOK
<1>7. ASSUME NEW b \in Agents \ {a} PROVE Receiver(t, b)'
  <2>1. Given(t, b)' = Given(t, b)
    BY <1>1 DEF Given
  <2>2. Receiver(t, b) /\ anew'[b] = anew[b]
    BY <1>2, <1>3, <1>6 DEF Handing
  <2> QED
    BY <1>1, <2>1, <2>2 DEF Receiver, SameAgent, CanTake
<1>8. ASSUME NEW c \in Locked(t) PROVE crow'[c].owner = a /\ Passed(t, a, c)'
  <2>1. crow[c].owner = a /\ Passed(t, a, c)
    BY <1>2, <1>3, <1>8 DEF Handing
  <2> QED
    BY <1>1, <2>1 DEF Passed, SameOwner, IsOpen
<1>9. Locked(t)' = Locked(t)
  BY <1>1 DEF Locked
<1>10. Handing(t)'
  BY <1>1, <1>3, <1>7, <1>8, <1>9 DEF Handing
<1>11. \A c \in Convs : Serves(crow[c], a)' => clock'[c] = t /\ cnew'[c].owner # a
  BY <1>1, <1>5 DEF Serves, IsOpen
<1>12. CASE call[t].op # "delete_agent"
  <2>1. anew' = anew
    BY <1>12 DEF Released
  <2>2. Gone(t)'
    BY <1>1, <1>2, <2>1 DEF Gone
  <2>3. HandedOut(t)'
    BY <1>1, <1>3, <1>10, <1>11, <1>12, <2>2 DEF HandedOut
  <2> QED
    BY <1>1, <2>3 DEF EffectOf
<1>13. CASE call[t].op = "delete_agent"
  <2>1. anew'[a] = NoAgentRow /\ ClosedOf(t, a) = {}
    BY <1>3, <1>13 DEF Released, OInv, IInv, TypeOK
  <2>2. \A c \in Convs : ConvSeen(t, c) \in ConvRows /\ RowOK(ConvSeen(t, c))
    BY DEF ConvSeen, OInv, IInv, TypeOK, Books, RowsOK
  <2>3. \A c \in Convs : ConvSeen(t, c).owner # a
    BY <1>3, <1>4, <2>1, <2>2, AgentsAssumption DEF Served, ClosedOf, IsOpen, RowOK
  <2>4. \A c \in Convs : crow[c].owner = a => clock[c] = t /\ cnew[c].owner # a
    BY <2>3 DEF ConvSeen
  <2>5. HandedOut(t)'
    BY <1>1, <1>3, <1>10, <1>11, <1>13, <2>1, <2>4 DEF HandedOut
  <2> QED
    BY <1>1, <2>5 DEF EffectOf
<1> QED
  BY <1>12, <1>13

\* The queue: one more conversation, or the end of it.
LEMMA PickUpEffect ==
  ASSUME OInv, NEW t \in Backends, EffectOf(t), PickUpOne(t) \/ PickedUp(t)
  PROVE  EffectOf(t)'
<1>1. /\ arow' = arow /\ crow' = crow /\ alock' = alock /\ call' = call /\ step[t] = "pick_up"
  BY DEF PickUpOne, PickedUp, rows, locks
<1>2. TookUp(t)
  BY <1>1 DEF EffectOf
<1>3. PICK a \in Agents :
        /\ a = call[t].agent /\ alock[a] = t
        /\ \A b \in Agents \ {a} : alock[b] = t => anew[b] = arow[b]
  BY <1>2 DEF TookUp, AgentsKept
<1>4. CASE PickUpOne(t)
  <2>1. PICK c \in Convs :
          /\ ConvFree(t, c) /\ Waits(ConvSeen(t, c)) /\ clock' = [clock EXCEPT ![c] = t]
          /\ cnew' = [cnew EXCEPT ![c] = [cnew[c] EXCEPT !.status = "assigned", !.owner = a]]
    BY <1>3, <1>4 DEF PickUpOne, Pickable, Waits
  <2>2. cnew[c] \in ConvRows /\ Waits(cnew[c])
    BY <2>1, SeesNewest DEF OInv, IInv, TypeOK
  <2>3. clock[c] # t
    BY <1>2, <2>2 DEF TookUp, Locked, Waits
  <2>4. cnew[c] = crow[c]
    BY <2>1, <2>3 DEF ConvFree, OInv, IInv, TypeOK
  <2>5. PICK new : new = [cnew[c] EXCEPT !.status = "assigned", !.owner = a]
    OBVIOUS
  <2>6. new.status = "assigned" /\ new.owner = a
    BY <2>2, <2>5 DEF ConvRows
  <2>7. /\ clock'[c] = t /\ cnew'[c] = new
        /\ \A d \in Convs \ {c} : clock'[d] = clock[d] /\ cnew'[d] = cnew[d]
    BY <2>1, <2>5 DEF OInv, IInv, TypeOK
  <2>8. PICK L \in SUBSET Convs : L = Locked(t) /\ c \notin L
    <3>1. Locked(t) \in SUBSET Convs /\ c \notin Locked(t)
      BY <2>3 DEF Locked
    <3> QED
      BY <3>1
  <2>9. Locked(t)' = L \cup {c}
    BY <2>7, <2>8 DEF Locked
  <2>10. Cardinality(L \cup {c}) = Cardinality(L) + 1
    BY <2>8, OneMore
  <2>11. /\ anew[a] \in AgentRows /\ anew'[a] = More(anew[a]) /\ anew[a].current < anew[a].max
         /\ \A b \in Agents \ {a} : anew'[b] = anew[b]
    BY <1>3, <1>4 DEF PickUpOne, OInv, IInv, TypeOK
  <2>12. /\ anew'[a].live = anew[a].live /\ anew'[a].disabled = anew[a].disabled
         /\ anew'[a].max = anew[a].max /\ anew'[a].status = anew[a].status
         /\ anew'[a].current = anew[a].current + 1
    BY <2>11, MoreCounts
  <2>13. /\ arow[a].live /\ ~arow[a].disabled
         /\ anew[a].live /\ ~anew[a].disabled /\ anew[a].max = arow[a].max
         /\ anew[a].status = "online"
         /\ anew[a].current = arow[a].current + Cardinality(L)
         /\ \A d \in L : Waits(crow[d]) /\ cnew[d].status = "assigned" /\ cnew[d].owner = a
    BY <1>2, <1>3, <2>8 DEF TookUp
  <2>14. /\ anew[a].current \in Nat /\ anew[a].max \in Nat /\ arow[a].current \in Nat
         /\ Cardinality(L) \in Nat
    BY <1>3, <2>8, <2>11, AgentFields, ConvSetFinite DEF OInv, IInv, TypeOK
  <2>15. /\ anew'[a].current = arow'[a].current + Cardinality(L \cup {c})
         /\ anew'[a].current <= arow'[a].max
    BY <1>1, <2>10, <2>11, <2>12, <2>13, <2>14
  <2>16. \A d \in L \cup {c} :
           crow[d].status \in {"waiting", "human_requested"}
           /\ cnew'[d].status = "assigned" /\ cnew'[d].owner = a
    BY <2>2, <2>4, <2>6, <2>7, <2>8, <2>13 DEF Waits
  <2>17. AgentsKept(t, {a})'
    BY <1>1, <1>3, <2>11 DEF AgentsKept
  <2>18. TookUp(t)'
    BY <1>1, <1>3, <2>9, <2>12, <2>13, <2>15, <2>16, <2>17 DEF TookUp, Waits
  <2>19. step' = step
    BY <1>4 DEF PickUpOne
  <2> QED
    BY <1>1, <2>18, <2>19 DEF EffectOf
<1>5. CASE PickedUp(t)
  <2>1. anew' = anew /\ cnew' = cnew /\ clock' = clock /\ step'[t] = "commit"
    BY <1>5, GoesTo DEF PickedUp, newest, locks, Steps
  <2>2. Locked(t)' = Locked(t)
    BY <2>1 DEF Locked
  <2>3. TookUp(t)'
    BY <1>1, <1>2, <2>1, <2>2 DEF TookUp, AgentsKept, Waits
  <2> QED
    BY <2>1, <2>3 DEF EffectOf
<1> QED
  BY <1>4, <1>5

-----------------------------------------------------------------------------
(* What every step does *)

LEMMA GoingOnEffect ==
  ASSUME OInv, NEW t \in Backends, EffectOf(t), AgentStep(t) \/ ConvStep(t)
  PROVE  EffectOf(t)'
<1>1. CASE AgentStep(t)
  BY <1>1, LocksEffect, AgentsEffect, LockServedEffect, ReleaseOneEffect, ClearClosedEffect,
     ReleasedEffect, PickUpEffect DEF AgentStep
<1>2. CASE ConvStep(t)
  BY <1>2, LocksEffect, VisitorMessageEffect, AgentMessageEffect, PlainChangesEffect,
     CloseEffect, TransferEffect, MoveEffect, AssignEffect DEF ConvStep
<1> QED
  BY <1>1, <1>2

\* A transaction begins with nothing done.
LEMMA BeginEffects ==
  ASSUME OInv, Effects, NEW t \in Backends, NEW k \in Requests, Begin(t, k)
  PROVE  Effects'
<1>1. /\ Goto(t, FirstStep(k.op)) /\ call' = [call EXCEPT ![t] = k]
      /\ UNCHANGED <<rows, newest, locks>>
  BY DEF Begin
<1>2. FirstStep(k.op) \in Steps /\ FirstStep(k.op) \in {"lock_agent", "lock_conv"}
  BY DEF FirstStep, Steps
<1>3. step'[t] \in {"lock_agent", "lock_conv"} /\ \A u \in Backends \ {t} : step'[u] = step[u]
  BY <1>1, <1>2, StepsAre DEF OInv
<1>4. EffectOf(t)'
  BY <1>3 DEF EffectOf
<1>5. ASSUME NEW u \in Backends \ {t} PROVE EffectOf(u)'
  <2>1. call'[u] = call[u]
    BY <1>1 DEF OInv, IInv, TypeOK
  <2>2. Undisturbed(u)
    BY <1>1, <1>3, <2>1 DEF Undisturbed, rows, newest, locks
  <2> QED
    BY <2>2, EffectUndisturbed DEF Effects
<1> QED
  BY <1>4, <1>5 DEF Effects

\* A new conversation is nobody's, and nobody sees it.
LEMMA BeginCreateEffects ==
  ASSUME OInv, Effects, NEW t \in Backends, BeginCreate(t)
  PROVE  Effects'
<1>1. PICK c \in Convs : c = lastID + 1 /\ c > lastID
  BY BoundAssumption DEF BeginCreate, OInv, IInv, TypeOK, Convs
<1>2. /\ step[t] = "idle" /\ Goto(t, "assign") /\ "assign" \in Steps
      /\ clock' = [clock EXCEPT ![c] = t] /\ cnew' = [cnew EXCEPT ![c] = NewConvRow]
      /\ call' = [call EXCEPT ![t] = CreateCall(c)]
      /\ arow' = arow /\ crow' = crow /\ anew' = anew /\ alock' = alock
  BY <1>1 DEF BeginCreate, rows, Steps
<1>3. clock[c] = Free /\ crow[c].status = "none" /\ crow[c].owner = NoAgent
  BY <1>1 DEF OInv, IInv, Unused, Books, RowsOK, RowOK
<1>4. \A d \in Convs \ {c} : clock'[d] = clock[d] /\ cnew'[d] = cnew[d]
  BY <1>1, <1>2 DEF OInv, IInv, TypeOK
<1>5. clock'[c] = t
  BY <1>1, <1>2 DEF OInv, IInv, TypeOK
<1>6. /\ step'[t] = "assign" /\ \A u \in Backends \ {t} : step'[u] = step[u]
      /\ call'[t] = CreateCall(c) /\ \A u \in Backends \ {t} : call'[u] = call[u]
  BY <1>2, StepsAre DEF OInv, IInv, TypeOK
<1>7. EffectOf(t)'
  <2>1. (\A a \in Agents : alock[a] # t) /\ (\A d \in Convs : clock[d] # t)
    BY <1>2, IdleHolds DEF OInv
  <2>2. call'[t].conv = c
    BY <1>6, CreateCallTyped
  <2>3. Unassigned(t)'
    BY <1>2, <1>3, <1>4, <2>1, <2>2 DEF Unassigned, AgentsKept, ConvsKept
  <2> QED
    BY <1>6, <2>3 DEF EffectOf
<1>8. ASSUME NEW u \in Backends \ {t} PROVE EffectOf(u)'
  <2>1. u # Free
    BY BackendsAssumption
  <2>2. \A d \in Convs : /\ clock'[d] = u <=> clock[d] = u
                         /\ clock[d] = u => cnew'[d] = cnew[d]
    BY <1>3, <1>4, <1>5, <2>1
  <2>3. Undisturbed(u)
    BY <1>2, <1>6, <2>2 DEF Undisturbed
  <2> QED
    BY <2>3, EffectUndisturbed DEF Effects
<1> QED
  BY <1>7, <1>8 DEF Effects

\* Its end leaves nothing to say of it.
LEMMA EndEffects ==
  ASSUME OInv, Effects, NEW t \in Backends, Commit(t) \/ Rollback(t)
  PROVE  Effects'
<1>1. Goto(t, "idle") /\ "idle" \in Steps /\ call' = call
  BY DEF Commit, Rollback, Steps
<1>2. step'[t] = "idle" /\ \A u \in Backends \ {t} : step'[u] = step[u]
  BY <1>1, StepsAre DEF OInv
<1>3. /\ \A a \in Agents : IF alock[a] = t THEN alock'[a] = Free /\ anew'[a] = arow'[a]
                           ELSE alock'[a] = alock[a] /\ arow'[a] = arow[a] /\ anew'[a] = anew[a]
      /\ \A c \in Convs : IF clock[c] = t THEN clock'[c] = Free /\ cnew'[c] = crow'[c]
                          ELSE clock'[c] = clock[c] /\ crow'[c] = crow[c] /\ cnew'[c] = cnew[c]
      /\ \A c \in Convs : clock[c] = t => crow'[c] \in {crow[c], cnew[c]}
  <2>1. CASE Commit(t)
    BY <2>1 DEF Commit, newest
  <2>2. CASE Rollback(t)
    BY <2>2 DEF Rollback, rows
  <2> QED
    BY <2>1, <2>2
<1>4. Ends(t)
  BY <1>1, <1>2, <1>3 DEF Ends
<1>5. EffectOf(t)'
  BY <1>2 DEF EffectOf
<1>6. \A u \in Backends \ {t} : EffectOf(u)'
  BY <1>3, <1>4, EndUndisturbs, EffectUndisturbed DEF Effects
<1> QED
  BY <1>5, <1>6 DEF Effects

LEMMA CreateAgentEffects ==
  ASSUME OInv, Effects, NEW a \in Agents, NEW m \in Limits, CreateAgent(a, m)
  PROVE  Effects'
<1>1. /\ alock[a] = Free /\ crow' = crow /\ cnew' = cnew /\ alock' = alock /\ clock' = clock
      /\ call' = call /\ step' = step
      /\ \A b \in Agents \ {a} : arow'[b] = arow[b] /\ anew'[b] = anew[b]
  BY DEF CreateAgent, locks, OInv, IInv, TypeOK
<1>2. ASSUME NEW u \in Backends PROVE Undisturbed(u)
  <2>1. u # Free
    BY BackendsAssumption
  <2> QED
    BY <1>1, <2>1 DEF Undisturbed
<1> QED
  BY <1>2, EffectUndisturbed DEF Effects

LEMMA InitEffects == Init => Effects
BY DEF Init, Effects, EffectOf

LEMMA StepEffects == OInv /\ Effects /\ [Next]_vars => Effects'
<1> SUFFICES ASSUME OInv, Effects, [Next]_vars PROVE Effects'
  OBVIOUS
<1>1. CASE \E t \in Backends, k \in Requests : Begin(t, k)
  BY <1>1, BeginEffects
<1>2. CASE \E t \in Backends : BeginCreate(t)
  BY <1>2, BeginCreateEffects
<1>3. ASSUME NEW t \in Backends, AgentStep(t) \/ ConvStep(t)
      PROVE  Effects'
  <2>1. Writes(t)
    BY <1>3, GoingOnWrites DEF OInv
  <2>2. EffectOf(t)'
    BY <1>3, GoingOnEffect DEF Effects
  <2>3. \A u \in Backends \ {t} : EffectOf(u)'
    BY <2>1, WritesUndisturb, EffectUndisturbed DEF Effects
  <2> QED
    BY <2>2, <2>3 DEF Effects
<1>4. ASSUME NEW t \in Backends,
             Refuse(t) \/ Commit(t) \/ TimeOut(t) \/ DeadlockVictim(t)
      PROVE  Effects'
  BY <1>4, EndEffects DEF Refuse, TimeOut, DeadlockVictim
<1>5. CASE \E a \in Agents, m \in Limits : CreateAgent(a, m)
  BY <1>5, CreateAgentEffects
<1>6. CASE UNCHANGED vars
  <2>1. \A u \in Backends : Undisturbed(u)
    BY <1>6 DEF vars, Undisturbed
  <2> QED
    BY <2>1, EffectUndisturbed DEF Effects
<1> QED
  BY <1>1, <1>2, <1>3, <1>4, <1>5, <1>6 DEF Next, Proceed

\* What each transaction under way has done to its rows, at every moment of every run.
THEOREM EffectsKept == Spec => []Effects
<1> QED
  BY InitEffects, StepEffects, BooksKept, PTL DEF Spec

-----------------------------------------------------------------------------
\* Steps that commit nothing leave what Ownership speaks of.
LEMMA RowsStutter ==
  ASSUME arow' = arow, crow' = crow
  PROVE  UNCHANGED Store!vars
BY DEF Store!vars

LEMMA StepRefines ==
  ASSUME OInv, OInv', Effects, [Next]_vars
  PROVE  Store!Next \/ UNCHANGED Store!vars
<1>1. TypeOK /\ TypeOK'
  BY DEF OInv, IInv
<1>2. CASE \E t \in Backends : (\E k \in Requests : Begin(t, k)) \/ BeginCreate(t)
  BY <1>2, RowsStutter DEF Begin, BeginCreate, rows
<1>3. ASSUME NEW t \in Backends, AgentStep(t) \/ ConvStep(t)
      PROVE  UNCHANGED Store!vars
  BY <1>3, GoingOnWrites, RowsStutter DEF OInv, Writes
<1>4. ASSUME NEW t \in Backends, Refuse(t) \/ TimeOut(t) \/ DeadlockVictim(t)
      PROVE  UNCHANGED Store!vars
  BY <1>4, RowsStutter DEF Refuse, TimeOut, DeadlockVictim, Rollback, rows
<1>5. ASSUME NEW t \in Backends, Commit(t)
      PROVE  Store!Next \/ UNCHANGED Store!vars
  BY <1>1, <1>5, CommitRefines DEF Effects
<1>6. CASE \E a \in Agents, m \in Limits : CreateAgent(a, m)
  BY <1>1, <1>6, CreateAgentRefines
<1>7. CASE UNCHANGED vars
  BY <1>7, RowsStutter DEF vars
<1> QED
  BY <1>2, <1>3, <1>4, <1>5, <1>6, <1>7 DEF Next, Proceed

\* The store behaves as if every call ran alone: however the statements of transactions
\* interleave, whichever are rolled back and whichever row locks a dispatch passes over,
\* what becomes visible at a commit is one step of module Ownership, or nothing.
THEOREM PgImplementsOwnership == Spec => ActsAtOnce
<1>1. OInv /\ OInv' /\ Effects /\ [Next]_vars => [Store!Next]_(Store!vars)
  BY StepRefines
<1> QED
  BY <1>1, BooksKept, EffectsKept, PTL DEF Spec, ActsAtOnce

=============================================================================
