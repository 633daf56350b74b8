------------------------- MODULE PgOwnershipProofs -------------------------
(***************************************************************************)
(* Who serves whom in module PgDispatch, for any agents, conversations,    *)
(* calls and number of backends: the counters, the agents of conversations *)
(* and the unread counters are right at every commit.                      *)
(*                                                                         *)
(* The argument: the newest versions of the rows keep the same books as    *)
(* the committed ones, but for the agent a release loop has under way, and *)
(* a conversation enters or leaves an agent's only under the lock of the   *)
(* agent's row.  So whatever transaction ends, committed or rolled back,   *)
(* takes away or leaves whole entries of these books.                      *)
(***************************************************************************)
EXTENDS PgDispatchProofs, FiniteSetTheorems

Serves(row, a) == IsOpen(row) /\ row.owner = a
Waits(row) == row.status \in {"waiting", "human_requested"}

\* The messages of the visitor after the last answer.
UnansweredIn(log) ==
  {i \in DOMAIN log : /\ log[i].from = "visitor"
                      /\ \A j \in (i + 1)..Len(log) : log[j].from \notin {"agent", "ai"}}

RowOK(row) ==
  /\ row.status = "none" \/ Waits(row) => row.owner = NoAgent
  /\ row.status = "assigned" => row.owner # NoAgent
  /\ row.unread <= Cardinality(UnansweredIn(row.log))

RowsOK == \A c \in Convs : RowOK(crow[c]) /\ RowOK(cnew[c])

\* The open conversations of a, transactions under way included.
NewServing(a) == {c \in Convs : Serves(cnew[c], a)}

\* A conversation comes to an agent and leaves it under the lock of the agent's row.
UnderLock ==
  \A c \in Convs, a \in Agents :
    /\ ~(Serves(cnew[c], a) <=> Serves(crow[c], a)) => alock[a] = clock[c]
    /\ cnew[c].owner = a /\ crow[c].owner # a => alock[a] = clock[c]

\* The owners are registered, also when only one of the two rows' changes is kept.
OwnersLive ==
  \A c \in Convs, a \in Agents :
    /\ crow[c].owner = a => arow[a].live
    /\ cnew[c].owner = a => anew[a].live
    /\ crow[c].owner = a /\ clock[c] # alock[a] => anew[a].live

\* A release loop hands out the conversations of a.
Releasing(a) == \E t \in Backends : step[t] = "release" /\ call[t].agent = a

\* t is about to commit the closing of a closed conversation.
Recloses(t) ==
  /\ t \in Backends /\ At(t, "commit", "close")
  /\ crow[call[t].conv].status = "closed" /\ crow[call[t].conv].owner # NoAgent

NewUnserved(a) == anew[a].disabled /\ ~Releasing(a) => NewServing(a) = {}

DisabledServeNobody ==
  \A a \in Agents : (arow[a].disabled => Serving(a) = {}) /\ NewUnserved(a)

NewCounted(a) ==
  /\ anew[a].current <= Cardinality(NewServing(a))
  /\ ~reclosed /\ ~Releasing(a) /\ ~Recloses(alock[a]) =>
       anew[a].current = Cardinality(NewServing(a))

Counted == CounterCorrect /\ \A a \in Agents : NewCounted(a)

\* What transaction t has found or done where it is.
KnownBy(t) ==
  LET k == call[t]
  IN /\ step[t] \in {"work", "move"} => \A c \in Convs : clock[c] = t => cnew[c] = crow[c]
     /\ step[t] = "assign" => Waits(cnew[k.conv])
     /\ step[t] = "move" =>
          IsOpen(cnew[k.conv]) /\ anew[k.agent].live /\ ~anew[k.agent].disabled
     /\ step[t] = "pick_up" => anew[k.agent].live /\ ~anew[k.agent].disabled
     /\ step[t] = "release" =>
          /\ anew[k.agent].live /\ anew[k.agent].current = 0
          /\ anew[k.agent].status = "offline"
     /\ At(t, "commit", "close") => k.conv \in Convs /\ clock[k.conv] = t

Known == \A t \in Backends : KnownBy(t)

Books == RowsOK /\ UnderLock /\ OwnersLive /\ DisabledServeNobody /\ Counted /\ Known

OInv == IInv /\ Books

-----------------------------------------------------------------------------
(* Sets of conversations *)

LEMMA ConvSetFinite ==
  ASSUME NEW S \in SUBSET Convs
  PROVE  IsFiniteSet(S) /\ Cardinality(S) \in Nat
<1>1. IsFiniteSet(Convs)
  BY FS_Interval, BoundAssumption DEF Convs
<1>2. IsFiniteSet(S)
  BY <1>1, FS_Subset
<1> QED
  BY <1>2, FS_CardinalityType

LEMMA OneMore ==
  ASSUME NEW S \in SUBSET Convs, NEW c \in Convs, c \notin S
  PROVE  Cardinality(S \cup {c}) = Cardinality(S) + 1
BY ConvSetFinite, FS_AddElement

LEMMA OneLess ==
  ASSUME NEW S \in SUBSET Convs, NEW c \in S
  PROVE  Cardinality(S \ {c}) = Cardinality(S) - 1
BY ConvSetFinite, FS_RemoveElement

LEMMA NoneCount == Cardinality({}) = 0
BY FS_EmptySet

\* Fewer counts one less, and nothing less than nothing.
LEMMA FewerCounts ==
  ASSUME NEW row \in AgentRows
  PROVE  /\ Fewer(row).current = IF row.current > 0 THEN row.current - 1 ELSE 0
         /\ Fewer(row).live = row.live /\ Fewer(row).disabled = row.disabled
         /\ Fewer(row).status = row.status /\ Fewer(row).max = row.max
BY DEF AgentRows, Fewer

LEMMA MoreCounts ==
  ASSUME NEW row \in AgentRows
  PROVE  /\ More(row).current = row.current + 1
         /\ More(row).live = row.live /\ More(row).disabled = row.disabled
         /\ More(row).status = row.status /\ More(row).max = row.max
BY DEF AgentRows, More

-----------------------------------------------------------------------------
(* A step of a transaction that goes on *)

LEMMA KeepsUnderLock ==
  ASSUME OInv, NEW t \in Backends, Writes(t),
         \A c \in Convs, a \in Agents :
           /\ ~(Serves(cnew'[c], a) <=> Serves(cnew[c], a)) => alock'[a] = t
           /\ cnew'[c].owner = a /\ cnew[c].owner # a => alock'[a] = t
  PROVE  UnderLock'
<1> SUFFICES ASSUME NEW c \in Convs, NEW a \in Agents
             PROVE  /\ ~(Serves(cnew'[c], a) <=> Serves(crow[c], a)) => alock'[a] = clock'[c]
                    /\ cnew'[c].owner = a /\ crow[c].owner # a => alock'[a] = clock'[c]
  <2>1. crow' = crow
    BY DEF Writes
  <2> QED
    BY <2>1 DEF UnderLock, Serves, IsOpen
<1>1. cnew[c] # crow[c] /\ alock[a] = clock[c] => alock'[a] = clock'[c]
  BY DEF OInv, IInv, TypeOK, Writes
<1>2. cnew'[c] # cnew[c] => clock'[c] = t
  BY DEF Writes
<1>3. ~(Serves(cnew[c], a) <=> Serves(crow[c], a)) => alock[a] = clock[c] /\ cnew[c] # crow[c]
  BY DEF OInv, Books, UnderLock
<1>4. cnew[c].owner = a /\ crow[c].owner # a => alock[a] = clock[c] /\ cnew[c] # crow[c]
  BY DEF OInv, Books, UnderLock
<1> QED
  BY <1>1, <1>2, <1>3, <1>4

LEMMA KeepsOwnersLive ==
  ASSUME OInv, NEW t \in Backends, Writes(t),
         \A a \in Agents : anew[a].live => anew'[a].live,
         \A c \in Convs, a \in Agents :
           cnew'[c].owner = a /\ cnew[c].owner # a => anew'[a].live
  PROVE  OwnersLive'
<1> SUFFICES ASSUME NEW c \in Convs, NEW a \in Agents
             PROVE  /\ crow[c].owner = a => arow[a].live
                    /\ cnew'[c].owner = a => anew'[a].live
                    /\ crow[c].owner = a /\ clock'[c] # alock'[a] => anew'[a].live
  BY DEF OwnersLive, Writes
<1>1. /\ crow[c].owner = a => arow[a].live
      /\ cnew[c].owner = a => anew[a].live
      /\ crow[c].owner = a /\ clock[c] # alock[a] => anew[a].live
  BY DEF OInv, Books, OwnersLive
<1>2. clock'[c] # alock'[a] => clock[c] # alock[a] \/ anew[a] = arow[a]
  BY DEF OInv, IInv, TypeOK, Writes
<1> QED
  BY <1>1, <1>2

\* What u knows is about its own rows.
LEMMA SameKnown ==
  ASSUME OInv, NEW u \in Backends, call'[u] = call[u], step'[u] = step[u],
         \A a \in Agents : alock[a] = u => anew'[a] = anew[a],
         \A c \in Convs : clock[c] = u => clock'[c] = u /\ crow'[c] = crow[c] /\ cnew'[c] = cnew[c],
         \A c \in Convs : clock'[c] = u => clock[c] = u
  PROVE  KnownBy(u)'
<1>1. HoldsBy(u) /\ KnownBy(u)
  BY DEF OInv, Books, Known, IInv, Holds
<1>2. step[u] \in {"work", "move"} => \A c \in Convs : clock'[c] = u => cnew'[c] = crow'[c]
  BY <1>1 DEF KnownBy
<1>3. step[u] = "assign" => cnew'[call[u].conv] = cnew[call[u].conv]
  BY <1>1 DEF HoldsBy
<1>4. step[u] = "move" => /\ cnew'[call[u].conv] = cnew[call[u].conv]
                          /\ anew'[call[u].agent] = anew[call[u].agent]
  BY <1>1 DEF HoldsBy, AgentOps
<1>5. step[u] \in {"pick_up", "release"} => anew'[call[u].agent] = anew[call[u].agent]
  BY <1>1 DEF HoldsBy
<1>6. At(u, "commit", "close") => call[u].conv \in Convs /\ clock'[call[u].conv] = u
  BY <1>1 DEF KnownBy
<1> QED
  BY <1>1, <1>2, <1>3, <1>4, <1>5, <1>6 DEF KnownBy, At, Waits, IsOpen

LEMMA KeepsKnown ==
  ASSUME OInv, NEW t \in Backends, Writes(t), KnownBy(t)'
  PROVE  Known'
<1> SUFFICES ASSUME NEW u \in Backends \ {t} PROVE KnownBy(u)'
  BY DEF Known
<1>1. u # Free
  BY BackendsAssumption
<1>2. call'[u] = call[u] /\ step'[u] = step[u]
  BY DEF Writes
<1>3. \A a \in Agents : alock[a] = u => anew'[a] = anew[a]
  BY <1>1 DEF Writes
<1>4. \A c \in Convs : clock[c] = u => clock'[c] = u /\ crow'[c] = crow[c] /\ cnew'[c] = cnew[c]
  BY <1>1 DEF Writes
<1>5. \A c \in Convs : clock'[c] = u => clock[c] = u
  BY <1>1 DEF Writes
<1> QED
  BY <1>2, <1>3, <1>4, <1>5, SameKnown

\* A row of the next state is right if it is right now.
LEMMA RowsAfter ==
  /\ \A c \in Convs : RowOK(crow[c])' <=> RowOK(crow'[c])
  /\ \A c \in Convs : RowOK(cnew[c])' <=> RowOK(cnew'[c])
<1>1. \A c \in Convs : RowOK(crow[c])' <=> RowOK(crow'[c])
  BY DEF RowOK, Waits, UnansweredIn
<1>2. \A c \in Convs : RowOK(cnew[c])' <=> RowOK(cnew'[c])
  BY DEF RowOK, Waits, UnansweredIn
<1> QED
  BY <1>1, <1>2

\* What nobody under way changes stays as it is.
LEMMA KeepsCommitted ==
  ASSUME OInv, NEW t, Writes(t)
  PROVE  /\ CounterCorrect'
         /\ \A a \in Agents : arow'[a].disabled => Serving(a)' = {}
         /\ \A c \in Convs : RowOK(crow[c])'
<1>1. arow' = arow /\ crow' = crow /\ reclosed' = reclosed
  BY DEF Writes
<1>2. \A a \in Agents : Serving(a)' = Serving(a)
  BY <1>1 DEF Serving, IsOpen
<1>3. CounterCorrect'
  BY <1>1, <1>2 DEF OInv, Books, Counted, CounterCorrect
<1>4. \A a \in Agents : arow'[a].disabled => Serving(a)' = {}
  BY <1>1, <1>2 DEF OInv, Books, DisabledServeNobody
<1>5. \A c \in Convs : RowOK(crow[c])'
  BY <1>1, RowsAfter DEF OInv, Books, RowsOK
<1> QED
  BY <1>3, <1>4, <1>5

\* The newest versions after a step.
LEMMA NewAfter ==
  /\ \A a \in Agents : NewServing(a)' = {c \in Convs : Serves(cnew'[c], a)}
  /\ \A c \in Convs : RowOK(cnew[c])' <=> RowOK(cnew'[c])
<1>1. \A a \in Agents : NewServing(a)' = {c \in Convs : Serves(cnew'[c], a)}
  BY DEF NewServing, Serves, IsOpen
<1>2. \A c \in Convs : RowOK(cnew[c])' <=> RowOK(cnew'[c])
  BY RowsAfter
<1> QED
  BY <1>1, <1>2

LEMMA KeepsUnserved ==
  ASSUME OInv, NEW t \in Backends, Writes(t), NEW a \in Agents,
         \A c \in Convs : Serves(cnew'[c], a) /\ ~Serves(cnew[c], a) => ~anew'[a].disabled,
         anew'[a].disabled => anew[a].disabled \/ Releasing(a)',
         Releasing(a) => Releasing(a)' \/ NewServing(a)' = {}
  PROVE  NewUnserved(a)'
<1> SUFFICES ASSUME anew'[a].disabled, ~Releasing(a)', NewServing(a)' # {} PROVE FALSE
  BY DEF NewUnserved
<1>1. PICK c \in Convs : Serves(cnew[c], a)'
  BY DEF NewServing
<1>2. Serves(cnew'[c], a)
  BY <1>1 DEF Serves, IsOpen
<1>3. c \in NewServing(a)
  BY <1>2 DEF NewServing
<1>4. NewUnserved(a)
  BY DEF OInv, Books, DisabledServeNobody
<1> QED
  BY <1>3, <1>4 DEF NewUnserved

\* A step of t before its commit: whoever closes twice goes on doing so.
LEMMA StillRecloses ==
  ASSUME OInv, NEW t \in Backends, Writes(t), step[t] # "commit", NEW a \in Agents,
         Recloses(alock[a])
  PROVE  Recloses(alock[a])'
<1>1. alock[a] \in Backends \ {t} /\ alock[a] # Free
  BY BackendsAssumption DEF Recloses, At
<1>2. alock'[a] = alock[a]
  BY <1>1 DEF Writes
<1>3. step'[alock[a]] = step[alock[a]] /\ call'[alock[a]] = call[alock[a]] /\ crow' = crow
  BY <1>1 DEF Writes
<1> QED
  BY <1>2, <1>3 DEF Recloses, At

LEMMA CountStays ==
  ASSUME OInv, NEW t \in Backends, Writes(t), step[t] # "commit", NEW a \in Agents,
         NewServing(a)' = NewServing(a), anew'[a].current = anew[a].current,
         Releasing(a) => Releasing(a)'
  PROVE  NewCounted(a)'
<1>1. NewCounted(a) /\ reclosed' = reclosed
  BY DEF OInv, Books, Counted, Writes
<1> QED
  BY <1>1, StillRecloses DEF NewCounted

LEMMA CountGains ==
  ASSUME OInv, NEW t \in Backends, Writes(t), step[t] # "commit", NEW a \in Agents,
         NEW c \in Convs, c \notin NewServing(a), NewServing(a)' = NewServing(a) \cup {c},
         anew'[a].current = anew[a].current + 1, Releasing(a) => Releasing(a)'
  PROVE  NewCounted(a)'
<1>1. NewCounted(a) /\ reclosed' = reclosed
  BY DEF OInv, Books, Counted, Writes
<1>2. NewServing(a) \in SUBSET Convs
  BY DEF NewServing
<1>3. Cardinality(NewServing(a)') = Cardinality(NewServing(a)) + 1
  BY <1>2, OneMore
<1>4. Cardinality(NewServing(a)) \in Nat /\ anew[a].current \in Nat
  BY <1>2, ConvSetFinite DEF OInv, IInv, TypeOK, AgentRows
<1> QED
  BY <1>1, <1>3, <1>4, StillRecloses DEF NewCounted

LEMMA CountLoses ==
  ASSUME OInv, NEW t \in Backends, Writes(t), step[t] # "commit", NEW a \in Agents,
         NEW c \in NewServing(a), NewServing(a)' = NewServing(a) \ {c},
         anew'[a].current = IF anew[a].current > 0 THEN anew[a].current - 1 ELSE 0,
         Releasing(a) => Releasing(a)'
  PROVE  NewCounted(a)'
<1>1. NewCounted(a) /\ reclosed' = reclosed
  BY DEF OInv, Books, Counted, Writes
<1>2. NewServing(a) \in SUBSET Convs
  BY DEF NewServing
<1>3. Cardinality(NewServing(a)') = Cardinality(NewServing(a)) - 1
  BY <1>2, OneLess
<1>4. /\ Cardinality(NewServing(a)) \in Nat /\ anew[a].current \in Nat
      /\ Cardinality(NewServing(a) \ {c}) \in Nat
  BY <1>2, ConvSetFinite DEF OInv, IInv, TypeOK, AgentRows
<1> QED
  BY <1>1, <1>3, <1>4, StillRecloses DEF NewCounted

\* An agent that counts nothing is being released, or serves nobody.
LEMMA CountsNothing ==
  ASSUME NEW a \in Agents, anew'[a].current = 0, NewServing(a)' \in SUBSET Convs,
         Releasing(a)' \/ NewServing(a)' = {}
  PROVE  NewCounted(a)'
<1>1. Cardinality(NewServing(a)') \in Nat
  BY ConvSetFinite
<1> QED
  BY <1>1, NoneCount DEF NewCounted

\* A closed conversation is closed again: one less is counted, nothing is served less.
LEMMA CountsAgain ==
  ASSUME OInv, NEW t \in Backends, NEW a \in Agents, NewServing(a)' = NewServing(a),
         anew'[a].current = IF anew[a].current > 0 THEN anew[a].current - 1 ELSE 0,
         alock'[a] = t, Recloses(t)'
  PROVE  NewCounted(a)'
<1>1. NewCounted(a)
  BY DEF OInv, Books, Counted
<1>2. Cardinality(NewServing(a)) \in Nat /\ anew[a].current \in Nat
  BY ConvSetFinite DEF OInv, IInv, TypeOK, AgentRows, NewServing
<1> QED
  BY <1>1, <1>2 DEF NewCounted, Recloses

\* No conversation changes hands and no counter is touched.
LEMMA StaysKeeps ==
  ASSUME OInv, NEW t \in Backends, Writes(t), step[t] # "commit",
         \A c \in Convs, a \in Agents : Serves(cnew'[c], a) <=> Serves(cnew[c], a),
         \A c \in Convs, a \in Agents : cnew'[c].owner = a => cnew[c].owner = a,
         \A c \in Convs : cnew'[c] = cnew[c] \/ RowOK(cnew'[c]),
         \A a \in Agents : /\ anew'[a].live = anew[a].live
                           /\ anew'[a].disabled = anew[a].disabled
                           /\ anew'[a].current = anew[a].current,
         \A a \in Agents : Releasing(a) => Releasing(a)',
         KnownBy(t)'
  PROVE  Books'
<1>1. \A a \in Agents : NewServing(a)' = NewServing(a)
  BY DEF NewServing, Serves, IsOpen
<1>2. UnderLock'
  BY KeepsUnderLock
<1>3. OwnersLive'
  BY KeepsOwnersLive
<1>4. \A a \in Agents : NewUnserved(a)'
  BY KeepsUnserved
<1>5. \A a \in Agents : NewCounted(a)'
  BY <1>1, CountStays
<1>6. \A c \in Convs : RowOK(cnew[c])'
  BY NewAfter DEF OInv, Books, RowsOK
<1> QED
  BY <1>2, <1>3, <1>4, <1>5, <1>6, KeepsKnown, KeepsCommitted
  DEF Books, RowsOK, DisabledServeNobody, Counted

\* One conversation goes from x to y, either of which may be nobody, and is counted.
LEMMA MovesKeeps ==
  ASSUME OInv, NEW t \in Backends, Writes(t), step[t] # "commit", NEW c \in Convs,
         NEW x \in Agents \cup {NoAgent}, NEW y \in Agents \cup {NoAgent},
         x = y => x = NoAgent,
         \A a \in Agents : Serves(cnew[c], a) <=> a = x,
         \A a \in Agents : Serves(cnew'[c], a) <=> a = y,
         \A d \in Convs \ {c} : cnew'[d] = cnew[d],
         cnew'[c].owner \in {cnew[c].owner, y, NoAgent}, RowOK(cnew'[c]),
         \A a \in Agents : anew'[a].live = anew[a].live /\ anew'[a].disabled = anew[a].disabled,
         \A a \in Agents \ {x, y} : anew'[a].current = anew[a].current,
         x \in Agents =>
           /\ alock'[x] = t
           /\ \/ anew'[x].current = IF anew[x].current > 0 THEN anew[x].current - 1 ELSE 0
              \/ anew'[x].current = 0 /\ Releasing(x)',
         y \in Agents =>
           /\ alock'[y] = t /\ anew'[y].current = anew[y].current + 1
           /\ anew'[y].live /\ ~anew'[y].disabled,
         \A a \in Agents : Releasing(a) => Releasing(a)',
         KnownBy(t)'
  PROVE  Books'
<1>1. \A a \in Agents : NewServing(a) \in SUBSET Convs /\ NewServing(a)' \in SUBSET Convs
  BY DEF NewServing
<1>2. \A a \in Agents \ {x, y} : NewServing(a)' = NewServing(a)
  BY DEF NewServing, Serves, IsOpen
<1>0. \A a \in Agents : /\ NewServing(a)' = {d \in Convs : Serves(cnew'[d], a)}
                        /\ NewServing(a) = {d \in Convs : Serves(cnew[d], a)}
  BY NewAfter DEF NewServing
<1>3. x \in Agents => c \in NewServing(x) /\ NewServing(x)' = NewServing(x) \ {c}
  BY <1>0, AgentsAssumption
<1>4. y \in Agents => c \notin NewServing(y) /\ NewServing(y)' = NewServing(y) \cup {c}
  BY <1>0, AgentsAssumption
<1>5. \A d \in Convs, a \in Agents :
        /\ ~(Serves(cnew'[d], a) <=> Serves(cnew[d], a)) => d = c /\ a \in {x, y}
        /\ Serves(cnew'[d], a) /\ ~Serves(cnew[d], a) => d = c /\ a = y
        /\ cnew'[d].owner = a /\ cnew[d].owner # a => d = c /\ a = y
  BY AgentsAssumption
<1>6. UnderLock'
  BY <1>5, KeepsUnderLock
<1>7. OwnersLive'
  BY <1>5, KeepsOwnersLive
<1>8. \A a \in Agents : NewUnserved(a)'
  BY <1>5, KeepsUnserved
<1>9. \A a \in Agents \ {x, y} : NewCounted(a)'
  BY <1>2, CountStays
<1>10. x \in Agents => NewCounted(x)'
  BY <1>1, <1>3, CountLoses, CountsNothing
<1>11. y \in Agents => NewCounted(y)'
  BY <1>4, CountGains
<1>12. \A d \in Convs : RowOK(cnew[d])'
  BY NewAfter DEF OInv, Books, RowsOK
<1> QED
  BY <1>6, <1>7, <1>8, <1>9, <1>10, <1>11, <1>12, KeepsKnown, KeepsCommitted
  DEF Books, RowsOK, DisabledServeNobody, Counted

LEMMA StillReleasing ==
  ASSUME NEW t \in Backends, Writes(t), step[t] = "release" => step'[t] = "release" /\ call'[t] = call[t]
  PROVE  \A a \in Agents : Releasing(a) => Releasing(a)'
BY DEF Releasing, Writes

\* A transaction about to commit anything but a closing has nothing left to know.
LEMMA CommitKnows ==
  ASSUME NEW t, step'[t] = "commit", call'[t].op # "close"
  PROVE  KnownBy(t)'
BY DEF KnownBy, At

\* Where t does not end its transaction it goes on.
LEMMA GoesTo ==
  ASSUME OInv, NEW t \in Backends, NEW s \in Steps, Goto(t, s)
  PROVE  step'[t] = s
BY StepsAre DEF OInv

\* No row is written.
LEMMA NothingWritten ==
  ASSUME OInv, NEW t \in Backends, Writes(t), step[t] \notin {"commit", "release"},
         anew' = anew, cnew' = cnew, KnownBy(t)'
  PROVE  Books'
BY StillReleasing, StaysKeeps

-----------------------------------------------------------------------------
(* Messages *)

\* The row of a conversation is written; whose it is and whether it is open stays.
LEMMA RowWritten ==
  ASSUME OInv, NEW t \in Backends, Writes(t), NEW op \in Ops \ AgentOps, op # "close",
         At(t, "work", op), NEW new \in ConvRows, SetConvRow(t, new), RowOK(new),
         IsOpen(new) <=> IsOpen(cnew[call[t].conv]),
         new.owner = cnew[call[t].conv].owner \/ (new.owner = NoAgent /\ ~IsOpen(new)),
         \/ Goto(t, "commit")
         \/ Goto(t, "assign") /\ Waits(new),
         anew' = anew, call' = call
  PROVE  Books'
<1> DEFINE c == call[t].conv
           row == cnew[c]
<1>1. /\ c \in Convs /\ clock[c] = t /\ row \in ConvRows /\ call[t].op = op
      /\ step[t] = "work"
  BY AtConvWork DEF OInv, At
<1>2. cnew' = [cnew EXCEPT ![c] = new] /\ cnew \in [Convs -> ConvRows]
  BY DEF SetConvRow, OInv, IInv, TypeOK
<1>3. cnew'[c] = new /\ \A d \in Convs \ {c} : cnew'[d] = cnew[d]
  BY <1>1, <1>2
<1>4. \A a \in Agents : Serves(new, a) <=> Serves(row, a)
  BY AgentsAssumption DEF Serves
<1>5. \A d \in Convs, a \in Agents : /\ Serves(cnew'[d], a) <=> Serves(cnew[d], a)
                                     /\ cnew'[d].owner = a => cnew[d].owner = a
  BY <1>3, <1>4, AgentsAssumption
<1>6. KnownBy(t)'
  <2>1. "commit" \in Steps /\ "assign" \in Steps
    BY DEF Steps
  <2>2. CASE Goto(t, "commit")
    BY <1>1, <2>1, <2>2, GoesTo, CommitKnows
  <2>3. CASE Goto(t, "assign") /\ Waits(new)
    <3>1. step'[t] = "assign" /\ call'[t] = call[t]
      BY <2>1, <2>3, GoesTo
    <3> QED
      BY <1>3, <2>3, <3>1 DEF KnownBy, At, Waits
  <2> QED
    BY <2>2, <2>3
<1>7. \A a \in Agents : Releasing(a) => Releasing(a)'
  BY <1>1, StillReleasing
<1> QED
  BY <1>1, <1>3, <1>5, <1>6, <1>7, StaysKeeps

LEMMA UnansweredFinite ==
  ASSUME NEW log \in Seq(Entries)
  PROVE  IsFiniteSet(UnansweredIn(log)) /\ Cardinality(UnansweredIn(log)) \in Nat
<1>1. IsFiniteSet(1..Len(log))
  BY FS_Interval
<1>2. UnansweredIn(log) \subseteq 1..Len(log)
  BY DEF UnansweredIn
<1> QED
  BY <1>1, <1>2, FS_Subset, FS_CardinalityType

\* A message of the visitor waits for an answer with those before; a revocation is
\* none.
LEMMA UnansweredAfter ==
  ASSUME NEW log \in Seq(Entries), NEW e \in Entries
  PROVE  /\ e.from = "visitor" =>
              /\ UnansweredIn(Append(log, e)) = UnansweredIn(log) \cup {Len(log) + 1}
              /\ Len(log) + 1 \notin UnansweredIn(log)
         /\ e.from = "revoked" => UnansweredIn(Append(log, e)) = UnansweredIn(log)
<1> DEFINE n == Len(log)
           new == Append(log, e)
<1>1. n \in Nat /\ Len(new) = n + 1 /\ DOMAIN log = 1..n /\ DOMAIN new = 1..(n + 1)
  OBVIOUS
<1>2. new[n + 1] = e /\ \A i \in 1..n : new[i] = log[i]
  OBVIOUS
<1> HIDE DEF n, new
<1>3. ASSUME NEW i \in 1..n
      PROVE  (\A j \in (i + 1)..(n + 1) : new[j].from \notin {"agent", "ai"}) <=>
               /\ \A j \in (i + 1)..n : log[j].from \notin {"agent", "ai"}
               /\ e.from \notin {"agent", "ai"}
  <2>1. \A j \in (i + 1)..(n + 1) : j = n + 1 \/ j \in (i + 1)..n
    BY <1>1
  <2>2. n + 1 \in (i + 1)..(n + 1) /\ \A j \in (i + 1)..n : j \in (i + 1)..(n + 1) /\ j \in 1..n
    BY <1>1
  <2> QED
    BY <1>2, <2>1, <2>2
<1>4. \A j \in (n + 2)..(n + 1) : FALSE
  BY <1>1
<1>5. UnansweredIn(log) = {i \in 1..n : /\ log[i].from = "visitor"
                                        /\ \A j \in (i + 1)..n : log[j].from \notin {"agent", "ai"}}
  BY <1>1 DEF UnansweredIn, n
<1>6. UnansweredIn(new) = {i \in 1..(n + 1) :
                             /\ new[i].from = "visitor"
                             /\ \A j \in (i + 1)..(n + 1) : new[j].from \notin {"agent", "ai"}}
  BY <1>1 DEF UnansweredIn
<1>7. \A i \in 1..n : e.from \notin {"agent", "ai"} => (i \in UnansweredIn(new) <=> i \in UnansweredIn(log))
  BY <1>1, <1>2, <1>3, <1>5, <1>6
<1>8. n + 1 \in UnansweredIn(new) <=> e.from = "visitor"
  <2>1. n + 1 \in 1..(n + 1) /\ (n + 1) + 1 = n + 2
    BY <1>1
  <2> QED
    BY <1>2, <1>4, <1>6, <2>1
<1>9. UnansweredIn(new) \subseteq 1..(n + 1) /\ UnansweredIn(log) \subseteq 1..n
        /\ n + 1 \notin 1..n /\ \A i \in 1..(n + 1) : i \in 1..n \/ i = n + 1
  BY <1>1, <1>5, <1>6
<1> QED
  BY <1>7, <1>8, <1>9 DEF n, new

\* What is written into the conversation keeps its row right.
LEMMA LogRowOK ==
  ASSUME NEW row \in ConvRows, RowOK(row), NEW e \in Entries
  PROVE  /\ Touched(row, e).status = row.status /\ Touched(row, e).owner = row.owner
         /\ RowOK(Touched(row, e))
         /\ e.from = "revoked" => RowOK([row EXCEPT !.log = Append(@, e)])
<1>1. row.log \in Seq(Entries) /\ row.unread \in Nat
  BY DEF ConvRows
<1>2. /\ Touched(row, e).status = row.status /\ Touched(row, e).owner = row.owner
      /\ Touched(row, e).log = Append(row.log, e)
      /\ Touched(row, e).unread = IF e.from = "visitor" THEN row.unread + 1 ELSE 0
  BY DEF ConvRows, Touched
<1>3. Append(row.log, e) \in Seq(Entries)
  BY <1>1
<1>4. /\ Cardinality(UnansweredIn(row.log)) \in Nat
      /\ Cardinality(UnansweredIn(Append(row.log, e))) \in Nat
  BY <1>1, <1>3, UnansweredFinite
<1>5. e.from = "visitor" =>
        Cardinality(UnansweredIn(Append(row.log, e))) = Cardinality(UnansweredIn(row.log)) + 1
  BY <1>1, UnansweredFinite, UnansweredAfter, FS_AddElement
<1>6. RowOK(Touched(row, e))
  BY <1>1, <1>2, <1>4, <1>5 DEF RowOK, Waits
<1>7. e.from = "revoked" => RowOK([row EXCEPT !.log = Append(@, e)])
  <2>1. PICK new : new = [row EXCEPT !.log = Append(@, e)]
    OBVIOUS
  <2>2. new.status = row.status /\ new.owner = row.owner /\ new.unread = row.unread
          /\ new.log = Append(row.log, e)
    BY <2>1 DEF ConvRows
  <2> QED
    BY <1>1, <2>1, <2>2, UnansweredAfter DEF RowOK, Waits
<1> QED
  BY <1>2, <1>6, <1>7

\* So does a status that goes with the agent.
LEMMA StatusRowOK ==
  ASSUME NEW row \in ConvRows, RowOK(row), NEW s,
         s \in {"none", "waiting", "human_requested"} => row.owner = NoAgent,
         s = "assigned" => row.owner # NoAgent
  PROVE  /\ RowOK([row EXCEPT !.status = s])
         /\ [row EXCEPT !.status = s].owner = row.owner
         /\ [row EXCEPT !.status = s].status = s
<1>1. PICK new : new = [row EXCEPT !.status = s]
  OBVIOUS
<1>2. new.status = s /\ new.owner = row.owner /\ new.unread = row.unread /\ new.log = row.log
  BY <1>1 DEF ConvRows
<1>3. RowOK(new)
  BY <1>2 DEF RowOK, Waits
<1> QED
  BY <1>1, <1>2, <1>3

\* At work on a conversation, t has found its row right.
LEMMA RowFound ==
  ASSUME OInv, NEW t \in Backends, NEW op \in Ops \ AgentOps, At(t, "work", op)
  PROVE  /\ call[t].conv \in Convs /\ clock[call[t].conv] = t /\ call[t].op = op
         /\ cnew[call[t].conv] \in ConvRows /\ RowOK(cnew[call[t].conv])
         /\ call[t] \in Calls /\ CallOK(call[t])
         /\ step[t] = "work" /\ cnew[call[t].conv] = crow[call[t].conv]
<1>1. /\ call[t].conv \in Convs /\ clock[call[t].conv] = t /\ call[t].op = op
      /\ cnew[call[t].conv] \in ConvRows /\ call[t] \in Calls /\ CallOK(call[t])
  BY AtConvWork DEF OInv
<1>2. step[t] = "work" /\ KnownBy(t)
  BY DEF At, OInv, Books, Known
<1> QED
  BY <1>1, <1>2 DEF OInv, Books, RowsOK, KnownBy

LEMMA VisitorMessageBooks ==
  ASSUME OInv, NEW t \in Backends, VisitorMessage(t)
  PROVE  Books'
<1> DEFINE row == cnew[call[t].conv]
           e == Entry("visitor", NoAgent, call[t].num, 0)
<1>1. At(t, "work", "visitor_message") /\ "visitor_message" \in Ops \ AgentOps /\ IsOpen(row)
  BY DEF VisitorMessage, ConvWork, Ops, ConvOps, MessageOps, AgentOps
<1>2. Writes(t)
  BY VisitorMessageKeeps DEF OInv
<1>3. /\ row \in ConvRows /\ RowOK(row) /\ step[t] = "work" /\ call[t].op = "visitor_message"
      /\ call[t].num \in ClientIDs \cup {NoID}
  BY <1>1, RowFound DEF CallOK
<1>4. e \in Entries
  BY <1>3, EntryTyped
<1>5. PICK touched \in ConvRows : touched = Touched(row, e)
  BY <1>3, <1>4, LogTyped
<1>6. touched.status = row.status /\ touched.owner = row.owner /\ RowOK(touched)
  BY <1>3, <1>4, <1>5, LogRowOK
<1>7. anew' = anew /\ call' = call
  BY DEF VisitorMessage
<1>8. "commit" \in Steps /\ "visitor_message" # "close"
  BY DEF Steps
<1>9. ASSUME NEW s \in ConversationStatuses \ {"none", "closed"},
             s \in {"waiting", "human_requested"} => row.owner = NoAgent,
             s = "assigned" => row.owner # NoAgent,
             SetConvRow(t, [Touched(row, e) EXCEPT !.status = s]),
             Goto(t, "commit") \/ (Goto(t, "assign") /\ s = "human_requested")
      PROVE  Books'
  <2>1. PICK new \in ConvRows : new = [touched EXCEPT !.status = s]
    BY ConvRowTyped
  <2>2. RowOK(new) /\ new.owner = row.owner /\ new.status = s
    BY <1>6, <1>9, <2>1, StatusRowOK
  <2>3. IsOpen(new) /\ (s = "human_requested" => Waits(new))
    BY <2>2 DEF IsOpen, Waits
  <2>4. SetConvRow(t, new)
    BY <1>5, <1>9, <2>1
  <2> QED
    BY <1>1, <1>2, <1>7, <1>8, <1>9, <2>2, <2>3, <2>4, RowWritten
<1>10. CASE Goto(t, "commit") /\ UNCHANGED cnew
  BY <1>2, <1>3, <1>7, <1>8, <1>10, GoesTo, CommitKnows, NothingWritten
<1>11. CASE \E s \in AfterText(row) :
              SetConvRow(t, [Touched(row, e) EXCEPT !.status = s]) /\ Goto(t, "commit")
  <2>1. PICK s \in AfterText(row) :
          SetConvRow(t, [Touched(row, e) EXCEPT !.status = s]) /\ Goto(t, "commit")
    BY <1>11
  <2>2. row.status \in ConversationStatuses
    BY <1>3 DEF ConvRows
  <2>3. s = row.status \/ s = "ai_serving"
    BY DEF AfterText, LeftTo
  <2>4. s \in ConversationStatuses \ {"none", "closed"}
    BY <1>1, <2>2, <2>3 DEF IsOpen, ConversationStatuses
  <2> QED
    BY <1>3, <1>9, <2>1, <2>3, <2>4 DEF RowOK, Waits
<1>12. CASE /\ row.owner # NoAgent /\ Goto(t, "commit")
            /\ SetConvRow(t, [Touched(row, e) EXCEPT !.status = "assigned"])
  BY <1>9, <1>12 DEF ConversationStatuses
<1>13. CASE /\ row.owner = NoAgent /\ Goto(t, "assign")
            /\ SetConvRow(t, [Touched(row, e) EXCEPT !.status = "human_requested"])
  BY <1>9, <1>13 DEF ConversationStatuses
<1> QED
  BY <1>10, <1>11, <1>12, <1>13 DEF VisitorMessage

LEMMA AgentMessageBooks ==
  ASSUME OInv, NEW t \in Backends, AgentMessage(t)
  PROVE  Books'
<1> DEFINE row == cnew[call[t].conv]
           e == Entry("agent", call[t].agent, call[t].num, 0)
           s == IF row.status \in {"ai_serving", "human_requested"} THEN "assigned" ELSE row.status
<1>1. At(t, "work", "agent_message") /\ "agent_message" \in Ops \ AgentOps /\ IsOpen(row)
  BY DEF AgentMessage, ConvWork, Ops, ConvOps, MessageOps, AgentOps
<1>2. Writes(t)
  BY AgentMessageKeeps DEF OInv
<1>3. /\ row \in ConvRows /\ RowOK(row) /\ step[t] = "work" /\ call[t].op = "agent_message"
      /\ call[t].num \in ClientIDs \cup {NoID} /\ call[t].agent \in Agents \cup {NoAgent}
      /\ call[t].agent # NoAgent
  <2>1. /\ row \in ConvRows /\ RowOK(row) /\ step[t] = "work" /\ call[t].op = "agent_message"
        /\ call[t] \in Calls /\ CallOK(call[t])
    BY <1>1, RowFound
  <2>2. call[t].num \in ClientIDs \cup {NoID} /\ call[t].agent # NoAgent
    BY <2>1 DEF CallOK
  <2>3. call[t].agent \in Agents \cup {NoAgent}
    BY <2>1 DEF Calls
  <2> QED
    BY <2>1, <2>2, <2>3
<1>4. e \in Entries
  BY <1>3, EntryTyped
<1>5. PICK touched \in ConvRows : touched = Touched(row, e)
  BY <1>3, <1>4, LogTyped
<1>6. touched.status = row.status /\ touched.owner = row.owner /\ RowOK(touched)
  BY <1>3, <1>4, <1>5, LogRowOK
<1>7. /\ anew' = anew /\ call' = call /\ Goto(t, "commit") /\ row.owner = call[t].agent
      /\ "commit" \in Steps
  BY DEF AgentMessage, Steps
<1>8. CASE UNCHANGED cnew
  BY <1>2, <1>3, <1>7, <1>8, GoesTo, CommitKnows, NothingWritten
<1>9. CASE SetConvRow(t, [Touched(row, e) EXCEPT
             !.status = IF @ \in {"ai_serving", "human_requested"} THEN "assigned" ELSE @])
  <2>1. s \in ConversationStatuses /\ s \notin {"none", "closed", "waiting", "human_requested"}
    BY <1>1, <1>3, <1>7 DEF ConvRows, IsOpen, ConversationStatuses, RowOK, Waits
  <2>2. PICK new \in ConvRows : new = [touched EXCEPT !.status = s]
    BY <2>1, ConvRowTyped
  <2>3. SetConvRow(t, new)
    BY <1>5, <1>6, <1>9, <2>2
  <2>4. RowOK(new) /\ new.owner = row.owner /\ new.status = s
    BY <1>3, <1>6, <1>7, <2>1, <2>2, StatusRowOK
  <2>5. IsOpen(new)
    BY <2>1, <2>4 DEF IsOpen
  <2> QED
    BY <1>1, <1>2, <1>7, <2>3, <2>4, <2>5, RowWritten
<1> QED
  BY <1>8, <1>9 DEF AgentMessage

LEMMA AIMessageBooks ==
  ASSUME OInv, NEW t \in Backends, AIMessage(t)
  PROVE  Books'
<1> DEFINE row == cnew[call[t].conv]
           e == Entry("ai", NoAgent, NoID, 0)
<1>1. At(t, "work", "ai_message") /\ "ai_message" \in Ops \ AgentOps /\ IsOpen(row)
  BY DEF AIMessage, ConvWork, Ops, ConvOps, MessageOps, AgentOps
<1>2. Writes(t)
  BY ConvsKeep DEF OInv
<1>3. row \in ConvRows /\ RowOK(row)
  BY <1>1, RowFound
<1>4. e \in Entries
  BY EntryTyped
<1>5. PICK touched \in ConvRows : touched = Touched(row, e)
  BY <1>3, <1>4, LogTyped
<1>6. touched.owner = row.owner /\ RowOK(touched)
  BY <1>3, <1>4, <1>5, LogRowOK
<1>7. PICK new \in ConvRows : new = [touched EXCEPT !.status = "ai_serving"]
  BY ConvRowTyped DEF ConversationStatuses
<1>8. RowOK(new) /\ new.owner = row.owner /\ new.status = "ai_serving"
  BY <1>6, <1>7, StatusRowOK
<1>9. IsOpen(new)
  BY <1>8 DEF IsOpen
<1>10. SetConvRow(t, new) /\ anew' = anew /\ call' = call /\ Goto(t, "commit")
  BY <1>5, <1>7 DEF AIMessage
<1> QED
  BY <1>1, <1>2, <1>8, <1>9, <1>10, RowWritten

LEMMA MarkReadBooks ==
  ASSUME OInv, NEW t \in Backends, MarkRead(t)
  PROVE  Books'
<1> DEFINE row == cnew[call[t].conv]
<1>1. At(t, "work", "mark_read") /\ "mark_read" \in Ops \ AgentOps
  BY DEF MarkRead, ConvWork, Ops, ConvOps, MessageOps, AgentOps
<1>2. Writes(t)
  BY ConvsKeep DEF OInv
<1>3. row \in ConvRows /\ RowOK(row)
  BY <1>1, RowFound
<1>4. PICK new \in ConvRows : new = [row EXCEPT !.unread = 0]
  BY <1>3 DEF ConvRows
<1>5. /\ new.status = row.status /\ new.owner = row.owner
      /\ new.log = row.log /\ new.unread = 0
  BY <1>3, <1>4 DEF ConvRows
<1>6. row.log \in Seq(Entries)
  BY <1>3 DEF ConvRows
<1>7. RowOK(new)
  BY <1>3, <1>5, <1>6, UnansweredFinite DEF RowOK, Waits
<1>8. IsOpen(new) <=> IsOpen(row)
  BY <1>5 DEF IsOpen
<1>9. SetConvRow(t, new) /\ anew' = anew /\ call' = call /\ Goto(t, "commit")
  BY <1>4 DEF MarkRead
<1> QED
  BY <1>1, <1>2, <1>5, <1>7, <1>8, <1>9, RowWritten

LEMMA RevokeBooks ==
  ASSUME OInv, NEW t \in Backends, RevokeMessage(t)
  PROVE  Books'
<1> DEFINE row == cnew[call[t].conv]
           e == Entry("revoked", NoAgent, NoID, call[t].num)
<1>1. At(t, "work", "revoke") /\ "revoke" \in Ops \ AgentOps
  BY DEF RevokeMessage, ConvWork, Ops, ConvOps, MessageOps, AgentOps
<1>2. Writes(t)
  BY RevokeKeeps DEF OInv
<1>3. /\ row \in ConvRows /\ RowOK(row) /\ call[t].num \in Nat /\ step[t] = "work"
      /\ call[t].op = "revoke"
  BY <1>1, RowFound DEF Calls
<1>4. e \in Entries /\ e.from = "revoked"
  BY <1>3, EntryTyped DEF Entry
<1>5. anew' = anew /\ call' = call /\ Goto(t, "commit") /\ "commit" \in Steps
  BY DEF RevokeMessage, Steps
<1>6. CASE UNCHANGED cnew
  BY <1>2, <1>3, <1>5, <1>6, GoesTo, CommitKnows, NothingWritten
<1>7. CASE SetConvRow(t, [row EXCEPT !.log = Append(@, e)])
  <2>1. PICK new \in ConvRows : new = [row EXCEPT !.log = Append(@, e)]
    BY <1>3, <1>4, LogTyped
  <2>2. RowOK(new)
    BY <1>3, <1>4, <2>1, LogRowOK
  <2>3. new.status = row.status /\ new.owner = row.owner
    BY <1>3, <2>1 DEF ConvRows
  <2>4. IsOpen(new) <=> IsOpen(row)
    BY <2>3 DEF IsOpen
  <2> QED
    BY <1>1, <1>2, <1>5, <1>7, <2>1, <2>2, <2>3, <2>4, RowWritten
<1> QED
  BY <1>6, <1>7 DEF RevokeMessage

LEMMA EscalateBooks ==
  ASSUME OInv, NEW t \in Backends, Escalate(t)
  PROVE  Books'
<1> DEFINE row == cnew[call[t].conv]
<1>1. At(t, "work", "escalate") /\ "escalate" \in Ops \ AgentOps /\ row.status = "assigned"
  BY DEF Escalate, ConvWork, Unanswered, Ops, ConvOps, MessageOps, AgentOps
<1>2. Writes(t)
  BY ConvsKeep DEF OInv
<1>3. row \in ConvRows /\ RowOK(row)
  BY <1>1, RowFound
<1>4. PICK new \in ConvRows : new = [row EXCEPT !.status = "ai_serving"]
  BY <1>3, ConvRowTyped DEF ConversationStatuses
<1>5. RowOK(new) /\ new.owner = row.owner /\ new.status = "ai_serving"
  BY <1>3, <1>4, StatusRowOK
<1>6. IsOpen(new) /\ IsOpen(row)
  BY <1>1, <1>5 DEF IsOpen
<1>7. SetConvRow(t, new) /\ anew' = anew /\ call' = call /\ Goto(t, "commit")
  BY <1>4 DEF Escalate
<1> QED
  BY <1>1, <1>2, <1>5, <1>6, <1>7, RowWritten

LEMMA DeleteBooks ==
  ASSUME OInv, NEW t \in Backends, DeleteConversation(t)
  PROVE  Books'
<1>1. At(t, "work", "delete_conversation") /\ "delete_conversation" \in Ops \ AgentOps
  BY DEF DeleteConversation, ConvWork, Ops, ConvOps, MessageOps, AgentOps
<1>2. Writes(t)
  BY ConvsKeep DEF OInv
<1>3. /\ NoConvRow \in ConvRows /\ NoConvRow.owner = NoAgent /\ NoConvRow.status = "none"
      /\ NoConvRow.unread = 0 /\ NoConvRow.log = << >>
  BY NoRowsTyped DEF NoConvRow
<1>4. RowOK(NoConvRow)
  BY <1>3, UnansweredFinite DEF RowOK, Waits, ConvRows
<1>5. ~IsOpen(NoConvRow) /\ ~IsOpen(cnew[call[t].conv])
  BY <1>3 DEF DeleteConversation, IsOpen
<1>6. SetConvRow(t, NoConvRow) /\ anew' = anew /\ call' = call /\ Goto(t, "commit")
  BY DEF DeleteConversation
<1> QED
  BY <1>1, <1>2, <1>3, <1>4, <1>5, <1>6, RowWritten

-----------------------------------------------------------------------------
(* Dispatching *)

\* A transaction sees the newest version of a row it may lock.
LEMMA SeesNewest ==
  ASSUME OInv, NEW t \in Backends
  PROVE  /\ \A a \in Agents : AgentFree(t, a) => AgentSeen(t, a) = anew[a]
         /\ \A c \in Convs : ConvFree(t, c) => ConvSeen(t, c) = cnew[c]
BY DEF OInv, IInv, TypeOK, AgentFree, ConvFree, AgentSeen, ConvSeen

LEMMA CandidatesServe ==
  ASSUME OInv, NEW t \in Backends, NEW a \in Candidates(t)
  PROVE  /\ a \in Agents /\ AgentFree(t, a) /\ anew[a].live /\ ~anew[a].disabled
         /\ anew[a].status = "online" /\ anew[a].current < anew[a].max
BY SeesNewest DEF Candidates

\* The row of a conversation gets agent y.
LEMMA GivenRowOK ==
  ASSUME NEW row \in ConvRows, RowOK(row), NEW y \in Agents
  PROVE  /\ RowOK([row EXCEPT !.status = "assigned", !.owner = y])
         /\ [row EXCEPT !.status = "assigned", !.owner = y].owner = y
         /\ IsOpen([row EXCEPT !.status = "assigned", !.owner = y])
<1>1. PICK new : new = [row EXCEPT !.status = "assigned", !.owner = y]
  OBVIOUS
<1>2. new.status = "assigned" /\ new.owner = y /\ new.unread = row.unread /\ new.log = row.log
  BY <1>1 DEF ConvRows
<1>3. RowOK(new) /\ IsOpen(new)
  BY <1>2, AgentsAssumption DEF RowOK, Waits, IsOpen
<1> QED
  BY <1>1, <1>2, <1>3

\* Dispatch gives c to nobody, or to an agent that can serve and counts it.
LEMMA AssignGives ==
  ASSUME OInv, NEW t \in Backends, NEW c \in Convs, NEW S,
         S \subseteq {"waiting", "human_requested", "ai_serving"}, AssignConversation(t, c, S)
  PROVE  /\ RowOK(cnew'[c]) /\ IsOpen(cnew'[c])
         /\ \A d \in Convs \ {c} : cnew'[d] = cnew[d]
         /\ \/ cnew'[c].owner = NoAgent /\ anew' = anew /\ alock' = alock
            \/ \E y \in Candidates(t) :
                 /\ cnew'[c].owner = y /\ alock' = [alock EXCEPT ![y] = t]
                 /\ anew' = [anew EXCEPT ![y] = More(anew[y])]
<1>1. cnew[c] \in ConvRows /\ RowOK(cnew[c]) /\ cnew \in [Convs -> ConvRows]
  BY DEF OInv, IInv, TypeOK, Books, RowsOK
<1>2. CASE /\ \E s \in S \cup {"ai_serving"} :
                cnew' = [cnew EXCEPT ![c] = [@ EXCEPT !.status = s, !.owner = NoAgent]]
           /\ UNCHANGED <<anew, alock>>
  <2>1. PICK s \in S \cup {"ai_serving"} :
          cnew' = [cnew EXCEPT ![c] = [cnew[c] EXCEPT !.status = s, !.owner = NoAgent]]
    BY <1>2
  <2>2. cnew'[c] = [cnew[c] EXCEPT !.status = s, !.owner = NoAgent]
          /\ \A d \in Convs \ {c} : cnew'[d] = cnew[d]
    BY <1>1, <2>1
  <2>3. PICK new : new = [cnew[c] EXCEPT !.status = s, !.owner = NoAgent]
    OBVIOUS
  <2>4. s \in {"waiting", "human_requested", "ai_serving"}
    BY <2>1
  <2>5. /\ new.status = s /\ new.owner = NoAgent
        /\ new.unread = cnew[c].unread /\ new.log = cnew[c].log
    BY <1>1, <2>3 DEF ConvRows
  <2>6. RowOK(new) /\ IsOpen(new)
    BY <1>1, <2>4, <2>5 DEF RowOK, Waits, IsOpen
  <2> QED
    BY <1>2, <2>2, <2>3, <2>5, <2>6
<1>3. CASE \E y \in Candidates(t) :
             /\ alock' = [alock EXCEPT ![y] = t]
             /\ anew' = [anew EXCEPT ![y] = More(@)]
             /\ cnew' = [cnew EXCEPT ![c] = [@ EXCEPT !.status = "assigned", !.owner = y]]
  <2>1. PICK y \in Candidates(t) :
             /\ alock' = [alock EXCEPT ![y] = t]
             /\ anew' = [anew EXCEPT ![y] = More(anew[y])]
             /\ cnew' = [cnew EXCEPT ![c] = [cnew[c] EXCEPT !.status = "assigned", !.owner = y]]
    BY <1>3
  <2>2. y \in Agents /\ y # NoAgent
    BY AgentsAssumption DEF Candidates
  <2>3. cnew'[c] = [cnew[c] EXCEPT !.status = "assigned", !.owner = y]
          /\ \A d \in Convs \ {c} : cnew'[d] = cnew[d]
    BY <1>1, <2>1
  <2>4. PICK new : new = [cnew[c] EXCEPT !.status = "assigned", !.owner = y]
    OBVIOUS
  <2>5. RowOK(new) /\ new.owner = y /\ IsOpen(new)
    BY <1>1, <2>2, <2>4, GivenRowOK
  <2> QED
    BY <2>1, <2>3, <2>4, <2>5
<1> QED
  BY <1>2, <1>3 DEF AssignConversation

\* So a step that dispatches c, the conversation of x or nobody's, keeps the books.
LEMMA DispatchBooks ==
  ASSUME OInv, NEW t \in Backends, Writes(t), step[t] # "commit",
         NEW c \in Convs, NEW x \in Agents \cup {NoAgent},
         \A a \in Agents : Serves(cnew[c], a) <=> a = x,
         x \in Agents =>
           alock[x] = t /\ anew[x].current = 0 /\ anew[x].status = "offline" /\ Releasing(x)',
         NEW S, S \subseteq {"waiting", "human_requested", "ai_serving"},
         AssignConversation(t, c, S),
         \A a \in Agents : Releasing(a) => Releasing(a)', KnownBy(t)'
  PROVE  Books'
<1>1. /\ RowOK(cnew'[c]) /\ IsOpen(cnew'[c])
      /\ \A d \in Convs \ {c} : cnew'[d] = cnew[d]
  BY AssignGives
<1>2. \A a \in Agents : anew[a] \in AgentRows
  BY DEF OInv, IInv, TypeOK
<1>3. x \in Agents => alock'[x] = t
  BY BackendsAssumption DEF Writes
<1>4. CASE cnew'[c].owner = NoAgent /\ anew' = anew /\ alock' = alock
  <2>1. \A a \in Agents : Serves(cnew'[c], a) <=> a = NoAgent
    BY <1>4, AgentsAssumption DEF Serves
  <2>2. NoAgent \in Agents \cup {NoAgent} /\ NoAgent \notin Agents
    BY AgentsAssumption
  <2> QED
    BY <1>1, <1>3, <1>4, <2>1, <2>2, MovesKeeps
<1>5. CASE \E y \in Candidates(t) :
             /\ cnew'[c].owner = y /\ alock' = [alock EXCEPT ![y] = t]
             /\ anew' = [anew EXCEPT ![y] = More(anew[y])]
  <2>1. PICK y \in Candidates(t) :
             /\ cnew'[c].owner = y /\ alock' = [alock EXCEPT ![y] = t]
             /\ anew' = [anew EXCEPT ![y] = More(anew[y])]
    BY <1>5
  <2>2. /\ y \in Agents /\ anew[y].live /\ ~anew[y].disabled /\ anew[y].status = "online"
        /\ y # NoAgent
    BY CandidatesServe, AgentsAssumption
  <2>3. x # y
    BY <2>2
  <2>4. anew'[y] = More(anew[y]) /\ \A a \in Agents \ {y} : anew'[a] = anew[a]
    BY <2>1, <2>2 DEF OInv, IInv, TypeOK
  <2>5. /\ anew'[y].current = anew[y].current + 1
        /\ anew'[y].live = anew[y].live /\ anew'[y].disabled = anew[y].disabled
    BY <1>2, <2>2, <2>4, MoreCounts
  <2>6. \A a \in Agents : Serves(cnew'[c], a) <=> a = y
    BY <1>1, <2>1 DEF Serves
  <2>7. alock'[y] = t
    BY <2>1, <2>2 DEF OInv, IInv, TypeOK
  <2>8. \A a \in Agents : anew'[a].live = anew[a].live /\ anew'[a].disabled = anew[a].disabled
    BY <2>4, <2>5
  <2>9. \A a \in Agents \ {x, y} : anew'[a].current = anew[a].current
    BY <2>4
  <2>10. x \in Agents => alock'[x] = t /\ anew'[x].current = 0 /\ Releasing(x)'
    BY <1>3, <2>3, <2>4
  <2>11. anew'[y].live /\ ~anew'[y].disabled
    BY <2>2, <2>5
  <2> QED
    BY <1>1, <2>1, <2>2, <2>3, <2>5, <2>6, <2>7, <2>8, <2>9, <2>10, <2>11, MovesKeeps
<1> QED
  BY <1>4, <1>5, AssignGives

LEMMA AssignBooks ==
  ASSUME OInv, NEW t \in Backends, Assign(t)
  PROVE  Books'
<1> DEFINE c == call[t].conv
           S == IF call[t].op = "create" THEN LeftTo("waiting") ELSE {"human_requested"}
<1>1. /\ step[t] = "assign" /\ Goto(t, "commit") /\ UNCHANGED <<rows, clock, call, counters>>
      /\ AssignConversation(t, c, S)
  BY DEF Assign
<1>2. Writes(t)
  BY AssignKeeps DEF OInv
<1>3. HoldsBy(t) /\ KnownBy(t)
  BY DEF OInv, IInv, Holds, Books, Known
<1>4. c \in Convs /\ clock[c] = t /\ Waits(cnew[c])
  BY <1>1, <1>3 DEF HoldsBy, KnownBy
<1>5. cnew[c].owner = NoAgent
  BY <1>4 DEF OInv, Books, RowsOK, RowOK
<1>6. \A a \in Agents : Serves(cnew[c], a) <=> a = NoAgent
  BY <1>5, AgentsAssumption DEF Serves
<1>7. S \subseteq {"waiting", "human_requested", "ai_serving"}
  BY DEF LeftTo
<1>8. "commit" \in Steps
  BY DEF Steps
<1>9. KnownBy(t)'
  <2>1. step'[t] = "commit" /\ call' = call /\ clock' = clock
    BY <1>1, <1>8, GoesTo
  <2> QED
    BY <1>4, <2>1 DEF KnownBy, At
<1>10. \A a \in Agents : Releasing(a) => Releasing(a)'
  BY <1>1, <1>2, StillReleasing
<1>11. NoAgent \in Agents \cup {NoAgent} /\ NoAgent \notin Agents
  BY AgentsAssumption
<1> HIDE DEF S
<1> QED
  BY <1>1, <1>2, <1>4, <1>6, <1>7, <1>9, <1>10, <1>11, DispatchBooks

-----------------------------------------------------------------------------
(* Agents *)

\* At work on an agent, t writes its row; whether it serves and what it counts stays.
LEMMA AgentWritten ==
  ASSUME OInv, NEW t \in Backends, Writes(t), NEW op \in AgentOps, At(t, "work", op),
         NEW new \in AgentRows, SetAgentRow(t, new),
         new.live = anew[call[t].agent].live, new.disabled = anew[call[t].agent].disabled,
         new.current = anew[call[t].agent].current,
         NEW s \in Steps, Goto(t, s), s = "commit" \/ (s = "pick_up" /\ new.live /\ ~new.disabled),
         cnew' = cnew, call' = call
  PROVE  Books'
<1>1. call[t].agent \in Agents /\ call[t].op = op /\ step[t] = "work"
  BY AtAgentWork DEF OInv, At
<1>2. anew'[call[t].agent] = new /\ \A a \in Agents \ {call[t].agent} : anew'[a] = anew[a]
  BY <1>1 DEF SetAgentRow, OInv, IInv, TypeOK
<1>3. \A a \in Agents : /\ anew'[a].live = anew[a].live
                        /\ anew'[a].disabled = anew[a].disabled
                        /\ anew'[a].current = anew[a].current
  BY <1>2
<1>4. step'[t] = s
  BY GoesTo
<1>5. KnownBy(t)'
  BY <1>1, <1>2, <1>4 DEF KnownBy, At, AgentOps
<1>6. \A a \in Agents : Releasing(a) => Releasing(a)'
  BY <1>1, StillReleasing
<1> QED
  BY <1>1, <1>3, <1>5, <1>6, StaysKeeps

\* It sends the agent into the release loop, with nothing counted.
LEMMA ReleaseBegun ==
  ASSUME OInv, NEW t \in Backends, Writes(t), NEW op \in AgentOps, At(t, "work", op),
         NEW new \in AgentRows, SetAgentRow(t, new),
         new.live, anew[call[t].agent].live, new.current = 0, new.status = "offline",
         Goto(t, "release"), cnew' = cnew, call' = call
  PROVE  Books'
<1> DEFINE b == call[t].agent
<1>1. b \in Agents /\ call[t].op = op /\ step[t] = "work" /\ "release" \in Steps
  BY AtAgentWork DEF OInv, At, Steps
<1>2. anew'[b] = new /\ \A a \in Agents \ {b} : anew'[a] = anew[a]
  BY <1>1 DEF SetAgentRow, OInv, IInv, TypeOK
<1>3. step'[t] = "release"
  BY <1>1, GoesTo
<1>4. Releasing(b)'
  BY <1>3 DEF Releasing
<1>5. \A a \in Agents : Releasing(a) => Releasing(a)'
  BY <1>1, StillReleasing
<1>6. UnderLock'
  BY KeepsUnderLock
<1>7. OwnersLive'
  BY <1>2, KeepsOwnersLive
<1>8. \A a \in Agents : NewUnserved(a)'
  BY <1>2, <1>4, <1>5, KeepsUnserved
<1>9. \A a \in Agents : NewServing(a)' = NewServing(a) /\ NewServing(a) \in SUBSET Convs
  BY DEF NewServing
<1>10. NewCounted(b)'
  BY <1>1, <1>2, <1>4, <1>9, CountsNothing
<1>11. \A a \in Agents \ {b} : NewCounted(a)'
  BY <1>1, <1>2, <1>5, <1>9, CountStays
<1>12. \A c \in Convs : RowOK(cnew[c])'
  BY NewAfter DEF OInv, Books, RowsOK
<1>13. KnownBy(t)'
  BY <1>2, <1>3 DEF KnownBy, At
<1> QED
  BY <1>6, <1>7, <1>8, <1>10, <1>11, <1>12, <1>13, KeepsKnown, KeepsCommitted
  DEF Books, RowsOK, DisabledServeNobody, Counted

LEMMA AgentsBooks ==
  ASSUME OInv, NEW t \in Backends,
         \/ SetBusy(t) \/ SetOffline(t) \/ SetOnline(t) \/ UpdateAgent(t)
         \/ DisableAgent(t) \/ DeleteAgent(t)
  PROVE  Books'
<1> DEFINE row == anew[call[t].agent]
<1>0. {"online", "busy", "offline"} = AgentStatuses /\ {"commit", "pick_up"} \subseteq Steps
  BY DEF AgentStatuses, Steps
<1>1. Writes(t)
  BY AgentsKeep DEF OInv
<1>2. ASSUME NEW op \in AgentOps, AgentWork(t, op)
      PROVE  row \in AgentRows /\ row.live /\ At(t, "work", op)
             /\ call[t] \in Calls /\ CallOK(call[t]) /\ call[t].op = op
  BY <1>2, AtAgentWork DEF AgentWork, OInv
<1>3. CASE SetBusy(t)
  <2>1. AgentWork(t, "set_status") /\ "set_status" \in AgentOps
    BY <1>3 DEF SetBusy, AgentOps
  <2>2. PICK r \in AgentRows : r = row
    BY <1>2, <2>1
  <2>3. PICK new \in AgentRows : new = [r EXCEPT !.status = "busy"]
    BY <1>0 DEF AgentRows
  <2>4. new.live = r.live /\ new.disabled = r.disabled /\ new.current = r.current
    BY <2>3 DEF AgentRows
  <2> QED
    BY <1>0, <1>1, <1>2, <1>3, <2>1, <2>2, <2>3, <2>4, AgentWritten DEF SetBusy
<1>4. CASE SetOffline(t)
  <2>1. AgentWork(t, "set_status") /\ "set_status" \in AgentOps
    BY <1>4 DEF SetOffline, AgentOps
  <2>2. PICK r \in AgentRows : r = row /\ r.live
    BY <1>2, <2>1
  <2>3. PICK new \in AgentRows : new = [r EXCEPT !.status = "offline", !.current = 0]
    BY <1>0 DEF AgentRows
  <2>4. new.live /\ new.current = 0 /\ new.status = "offline"
    BY <2>2, <2>3 DEF AgentRows
  <2> QED
    BY <1>1, <1>2, <1>4, <2>1, <2>2, <2>3, <2>4, ReleaseBegun DEF SetOffline
<1>5. CASE SetOnline(t)
  <2>1. AgentWork(t, "set_status") /\ "set_status" \in AgentOps /\ ~row.disabled
    BY <1>5 DEF SetOnline, AgentOps
  <2>2. PICK r \in AgentRows : r = row /\ r.live /\ ~r.disabled
    BY <1>2, <2>1
  <2>3. PICK new \in AgentRows : new = [r EXCEPT !.status = "online"]
    BY <1>0 DEF AgentRows
  <2>4. new.live = r.live /\ new.disabled = r.disabled /\ new.current = r.current
    BY <2>3 DEF AgentRows
  <2> QED
    BY <1>0, <1>1, <1>2, <1>5, <2>1, <2>2, <2>3, <2>4, AgentWritten DEF SetOnline
<1>6. CASE UpdateAgent(t)
  <2>1. AgentWork(t, "update_agent") /\ "update_agent" \in AgentOps
    BY <1>6 DEF UpdateAgent, AgentOps
  <2>2. call[t].word \in AgentStatuses \cup {""} /\ call[t].num \in Limits \cup {NoLimit}
    BY <1>2, <2>1 DEF CallOK
  <2>3. PICK r \in AgentRows : r = row
    BY <1>2, <2>1
  <2>4. PICK new \in AgentRows :
          new = [r EXCEPT !.max = IF call[t].num = NoLimit THEN @ ELSE call[t].num,
                          !.status = IF call[t].word = "" THEN @ ELSE call[t].word]
    BY <2>2 DEF AgentRows
  <2>5. new.live = r.live /\ new.disabled = r.disabled /\ new.current = r.current
    BY <2>4 DEF AgentRows
  <2>6. SetAgentRow(t, new) /\ Goto(t, "commit") /\ cnew' = cnew /\ call' = call
    BY <1>6, <2>3, <2>4 DEF UpdateAgent
  <2> QED
    BY <1>0, <1>1, <1>2, <2>1, <2>3, <2>5, <2>6, AgentWritten
<1>7. CASE DisableAgent(t)
  <2>1. AgentWork(t, "disable_agent") /\ "disable_agent" \in AgentOps
    BY <1>7 DEF DisableAgent, AgentOps
  <2>2. PICK r \in AgentRows : r = row /\ r.live
    BY <1>2, <2>1
  <2>3. PICK new \in AgentRows :
          new = [r EXCEPT !.status = "offline", !.current = 0, !.disabled = TRUE]
    BY <1>0 DEF AgentRows
  <2>4. new.live /\ new.current = 0 /\ new.status = "offline"
    BY <2>2, <2>3 DEF AgentRows
  <2> QED
    BY <1>1, <1>2, <1>7, <2>1, <2>2, <2>3, <2>4, ReleaseBegun DEF DisableAgent
<1>8. CASE DeleteAgent(t)
  <2>1. AgentWork(t, "delete_agent") /\ "delete_agent" \in AgentOps
    BY <1>8 DEF DeleteAgent, AgentOps
  <2>2. PICK r \in AgentRows : r = row /\ r.live
    BY <1>2, <2>1
  <2>3. PICK new \in AgentRows : new = [r EXCEPT !.status = "offline", !.current = 0]
    BY <1>0 DEF AgentRows
  <2>4. new.live /\ new.current = 0 /\ new.status = "offline"
    BY <2>2, <2>3 DEF AgentRows
  <2> QED
    BY <1>1, <1>2, <1>8, <2>1, <2>2, <2>3, <2>4, ReleaseBegun DEF DeleteAgent
<1> QED
  BY <1>3, <1>4, <1>5, <1>6, <1>7, <1>8

-----------------------------------------------------------------------------
(* The release loop and the queue *)

\* In the loop t finds its agent gone, with nothing counted.
LEMMA ReleaseFound ==
  ASSUME OInv, NEW t \in Backends, step[t] = "release"
  PROVE  /\ call[t].op \in AgentOps /\ call[t].agent \in Agents /\ alock[call[t].agent] = t
         /\ anew[call[t].agent].live /\ anew[call[t].agent].current = 0
         /\ anew[call[t].agent].status = "offline" /\ Releasing(call[t].agent)
<1>1. KnownBy(t)
  BY DEF OInv, Books, Known
<1> QED
  BY <1>1, AtRelease DEF OInv, KnownBy, Releasing

\* What it sees of the agent's conversations is what they are.
LEMMA ServedIs ==
  ASSUME OInv, NEW t \in Backends, NEW a \in Agents, alock[a] = t
  PROVE  Served(t, a) = NewServing(a)
<1>1. \A c \in Convs : clock[c] # t => (Serves(cnew[c], a) <=> Serves(crow[c], a))
  BY DEF OInv, Books, UnderLock
<1>2. Served(t, a) = {c \in Convs : Serves(ConvSeen(t, c), a)}
  BY DEF Served, Serves
<1>3. \A c \in Convs : Serves(ConvSeen(t, c), a) <=> Serves(cnew[c], a)
  BY <1>1 DEF ConvSeen
<1> QED
  BY <1>2, <1>3 DEF NewServing

LEMMA LockServedBooks ==
  ASSUME OInv, NEW t \in Backends, LockServed(t)
  PROVE  Books'
<1>1. Writes(t)
  BY LoopKeeps DEF OInv
<1>2. step[t] = "release" /\ anew' = anew /\ cnew' = cnew /\ call' = call /\ step' = step
  BY DEF LockServed, newest
<1>3. KnownBy(t)'
  BY <1>2, ReleaseFound DEF KnownBy, At
<1>4. \A a \in Agents : Releasing(a) => Releasing(a)'
  BY <1>1, <1>2, StillReleasing
<1> QED
  BY <1>1, <1>2, <1>3, <1>4, StaysKeeps

LEMMA ReleaseOneBooks ==
  ASSUME OInv, NEW t \in Backends, ReleaseOne(t)
  PROVE  Books'
<1> DEFINE x == call[t].agent
<1>1. Writes(t)
  BY LoopKeeps DEF OInv
<1>2. step[t] = "release" /\ call' = call /\ step' = step
  BY DEF ReleaseOne
<1>3. /\ x \in Agents /\ alock[x] = t /\ anew[x].current = 0
      /\ anew[x].status = "offline" /\ anew[x].live
  BY <1>2, ReleaseFound
<1>4. PICK c \in Served(t, x) : AssignConversation(t, c, LeftTo("waiting"))
  BY DEF ReleaseOne
<1>5. c \in Convs /\ IsOpen(cnew[c]) /\ cnew[c].owner = x
  BY <1>3, <1>4, ServedIs DEF NewServing, Serves
<1>6. \A a \in Agents : Serves(cnew[c], a) <=> a = x
  BY <1>5 DEF Serves
<1>7. LeftTo("waiting") \subseteq {"waiting", "human_requested", "ai_serving"}
  BY DEF LeftTo
<1>8. \A a \in Agents : Releasing(a) => Releasing(a)'
  BY <1>1, <1>2, StillReleasing
<1>9. Releasing(x)'
  BY <1>2, <1>3, <1>8 DEF Releasing
<1>10. anew'[x] = anew[x]
  <2>1. x \notin Candidates(t)
    BY <1>3, CandidatesServe
  <2>2. anew' = anew \/ \E y \in Candidates(t) : anew' = [anew EXCEPT ![y] = More(anew[y])]
    BY <1>4, <1>5, <1>7, AssignGives
  <2> QED
    BY <1>3, <2>1, <2>2 DEF OInv, IInv, TypeOK
<1>11. KnownBy(t)'
  BY <1>2, <1>3, <1>10 DEF KnownBy, At
<1> QED
  BY <1>1, <1>2, <1>3, <1>4, <1>5, <1>6, <1>7, <1>8, <1>9, <1>11, DispatchBooks

LEMMA ClearClosedBooks ==
  ASSUME OInv, NEW t \in Backends, ClearClosed(t)
  PROVE  Books'
<1>1. Writes(t)
  BY LoopKeeps DEF OInv
<1>2. step[t] = "release" /\ anew' = anew /\ call' = call /\ step' = step
  BY DEF ClearClosed, At
<1>3. PICK c \in Convs : /\ ConvSeen(t, c).status = "closed" /\ ConvFree(t, c)
                         /\ cnew' = [cnew EXCEPT ![c] = [cnew[c] EXCEPT !.owner = NoAgent]]
  BY DEF ClearClosed, ClosedOf
<1>4. cnew[c] \in ConvRows /\ RowOK(cnew[c]) /\ cnew[c].status = "closed"
  BY <1>3, SeesNewest DEF OInv, IInv, TypeOK, Books, RowsOK
<1>5. PICK new : new = [cnew[c] EXCEPT !.owner = NoAgent]
  OBVIOUS
<1>6. /\ new.status = "closed" /\ new.owner = NoAgent
      /\ new.unread = cnew[c].unread /\ new.log = cnew[c].log
  BY <1>4, <1>5 DEF ConvRows
<1>7. RowOK(new) /\ ~IsOpen(new) /\ ~IsOpen(cnew[c])
  BY <1>4, <1>6 DEF RowOK, Waits, IsOpen
<1>8. cnew'[c] = new /\ \A d \in Convs \ {c} : cnew'[d] = cnew[d]
  BY <1>3, <1>5 DEF OInv, IInv, TypeOK
<1>9. \A d \in Convs, a \in Agents : /\ Serves(cnew'[d], a) <=> Serves(cnew[d], a)
                                     /\ cnew'[d].owner = a => cnew[d].owner = a
  BY <1>6, <1>7, <1>8, AgentsAssumption DEF Serves
<1>10. KnownBy(t)'
  BY <1>2, ReleaseFound DEF KnownBy, At
<1>11. \A a \in Agents : Releasing(a) => Releasing(a)'
  BY <1>1, <1>2, StillReleasing
<1> QED
  BY <1>1, <1>2, <1>7, <1>8, <1>9, <1>10, <1>11, StaysKeeps

\* The loop is over when nobody is served; a deleted agent has no conversation at all.
LEMMA ReleasedBooks ==
  ASSUME OInv, NEW t \in Backends, Released(t)
  PROVE  Books'
<1>0. PICK b \in Agents : b = call[t].agent
  BY ReleaseFound DEF Released
<1>1. Writes(t)
  BY LoopKeeps DEF OInv
<1>2. /\ step[t] = "release" /\ Goto(t, "commit") /\ call' = call /\ cnew' = cnew
      /\ Served(t, b) = {} /\ "commit" \in Steps
  BY <1>0 DEF Released, Steps
<1>3. /\ alock[b] = t /\ anew[b].current = 0 /\ anew[b].live
      /\ call[t].op \in AgentOps
  BY <1>0, <1>2, ReleaseFound
<1>4. \A a \in Agents : NewServing(a)' = NewServing(a) /\ NewServing(a) \in SUBSET Convs
  BY <1>2 DEF NewServing
<1>5. NewServing(b)' = {}
  BY <1>2, <1>3, <1>4, ServedIs
<1>6. \A a \in Agents \ {b} : Releasing(a) => Releasing(a)'
  <2> SUFFICES ASSUME NEW a \in Agents \ {b}, NEW u \in Backends,
                      step[u] = "release", call[u].agent = a
               PROVE  Releasing(a)'
    BY DEF Releasing
  <2>1. u # t
    BY <1>0
  <2> QED
    BY <1>1, <2>1 DEF Writes, Releasing
<1>7. \A a \in Agents \ {b} : anew'[a] = anew[a]
  BY <1>0 DEF Released, OInv, IInv, TypeOK
<1>8. anew'[b] = anew[b] \/ (anew'[b] = NoAgentRow /\ call[t].op = "delete_agent")
  BY <1>0 DEF Released, OInv, IInv, TypeOK
<1>9. UnderLock'
  BY <1>1, <1>2, KeepsUnderLock
<1>10. OwnersLive'
  <2>1. CASE anew' = anew
    BY <1>1, <1>2, <2>1, KeepsOwnersLive
  <2>2. CASE call[t].op = "delete_agent"
    <3>1. ClosedOf(t, b) = {}
      BY <1>0, <2>2 DEF Released
    <3>2. \A c \in Convs : ConvSeen(t, c) \in ConvRows /\ RowOK(ConvSeen(t, c))
      BY DEF ConvSeen, OInv, IInv, TypeOK, Books, RowsOK
    <3>3. \A c \in Convs : ConvSeen(t, c).owner # b
      BY <1>2, <1>3, <3>1, <3>2, AgentsAssumption DEF Served, ClosedOf, IsOpen, RowOK
    <3>4. \A c \in Convs : clock[c] # t /\ cnew[c].owner = b => crow[c].owner = b
      BY <1>3 DEF OInv, Books, UnderLock
    <3>5. \A c \in Convs : cnew[c].owner # b /\ (clock[c] # t => crow[c].owner # b)
      BY <3>3, <3>4 DEF ConvSeen
    <3>6. /\ arow' = arow /\ crow' = crow /\ alock'[b] = t
          /\ \A c \in Convs : clock'[c] = clock[c] /\ cnew'[c] = cnew[c]
          /\ \A a \in Agents : alock'[a] = alock[a]
      BY <1>2, <1>3 DEF Released, rows, locks
    <3>7. \A c \in Convs, a \in Agents \ {b} :
            /\ crow'[c].owner = a => arow'[a].live
            /\ cnew'[c].owner = a => anew'[a].live
            /\ crow'[c].owner = a /\ clock'[c] # alock'[a] => anew'[a].live
      BY <1>7, <3>6 DEF OInv, Books, OwnersLive
    <3>8. \A c \in Convs : /\ crow'[c].owner = b => arow'[b].live
                           /\ cnew'[c].owner # b
                           /\ crow'[c].owner = b => clock'[c] = alock'[b]
      BY <1>3, <3>5, <3>6 DEF OInv, Books, OwnersLive
    <3> QED
      BY <3>7, <3>8 DEF OwnersLive
  <2> QED
    BY <2>1, <2>2 DEF Released
<1>11. \A a \in Agents \ {b} : NewUnserved(a)'
  BY <1>1, <1>2, <1>6, <1>7, KeepsUnserved
<1>12. NewUnserved(b)'
  BY <1>5 DEF NewUnserved
<1>13. \A a \in Agents \ {b} : NewCounted(a)'
  BY <1>1, <1>2, <1>4, <1>6, <1>7, CountStays
<1>14. NewCounted(b)'
  <2>1. anew'[b].current = 0
    BY <1>3, <1>8 DEF NoAgentRow
  <2>2. NewServing(b)' \in SUBSET Convs
    BY <1>5
  <2> QED
    BY <1>3, <1>5, <2>1, <2>2, CountsNothing
<1>15. \A c \in Convs : RowOK(cnew[c])'
  BY <1>2, NewAfter DEF OInv, Books, RowsOK
<1>16. KnownBy(t)'
  BY <1>2, <1>3, GoesTo, CommitKnows DEF AgentOps
<1>17. \A a \in Agents : NewUnserved(a)' /\ NewCounted(a)'
  BY <1>11, <1>12, <1>13, <1>14
<1> QED
  BY <1>1, <1>9, <1>10, <1>15, <1>16, <1>17, KeepsKnown, KeepsCommitted
  DEF Books, RowsOK, DisabledServeNobody, Counted

LEMMA PickUpBooks ==
  ASSUME OInv, NEW t \in Backends, PickUpOne(t) \/ PickedUp(t)
  PROVE  Books'
<1> DEFINE a == call[t].agent
<1>1. Writes(t)
  BY PickUpKeeps DEF OInv
<1>2. step[t] = "pick_up" /\ call' = call
  BY DEF PickUpOne, PickedUp
<1>3. HoldsBy(t) /\ KnownBy(t)
  BY DEF OInv, IInv, Holds, Books, Known
<1>4. /\ call[t].op \in AgentOps /\ a \in Agents /\ alock[a] = t
      /\ anew[a].live /\ ~anew[a].disabled /\ anew[a] \in AgentRows
  BY <1>2, <1>3 DEF HoldsBy, KnownBy, OInv, IInv, TypeOK
<1>5. \A b \in Agents : Releasing(b) => Releasing(b)'
  BY <1>1, <1>2, StillReleasing
<1>6. CASE PickUpOne(t)
  <2>1. PICK c \in Convs :
          /\ ConvFree(t, c) /\ Waits(ConvSeen(t, c))
          /\ cnew' = [cnew EXCEPT ![c] = [cnew[c] EXCEPT !.status = "assigned", !.owner = a]]
    BY <1>6 DEF PickUpOne, Pickable, Waits
  <2>2. cnew[c] \in ConvRows /\ RowOK(cnew[c]) /\ Waits(cnew[c])
    BY <2>1, SeesNewest DEF OInv, IInv, TypeOK, Books, RowsOK
  <2>3. PICK new : new = [cnew[c] EXCEPT !.status = "assigned", !.owner = a]
    OBVIOUS
  <2>4. RowOK(new) /\ new.owner = a /\ IsOpen(new)
    BY <1>4, <2>2, <2>3, GivenRowOK
  <2>5. cnew'[c] = new /\ \A d \in Convs \ {c} : cnew'[d] = cnew[d]
    BY <2>1, <2>3 DEF OInv, IInv, TypeOK
  <2>6. anew'[a] = More(anew[a]) /\ \A b \in Agents \ {a} : anew'[b] = anew[b]
    BY <1>4, <1>6 DEF PickUpOne, OInv, IInv, TypeOK
  <2>7. /\ anew'[a].current = anew[a].current + 1
        /\ anew'[a].live = anew[a].live /\ anew'[a].disabled = anew[a].disabled
    BY <1>4, <2>6, MoreCounts
  <2>8. \A b \in Agents : Serves(new, b) <=> b = a
    BY <2>4 DEF Serves
  <2>9. cnew[c].owner = NoAgent
    BY <2>2 DEF RowOK
  <2>10. \A b \in Agents : Serves(cnew[c], b) <=> b = NoAgent
    BY <2>9, AgentsAssumption DEF Serves
  <2>11. step' = step /\ alock' = alock
    BY <1>6 DEF PickUpOne
  <2>12. KnownBy(t)'
    BY <1>2, <1>4, <2>7, <2>11 DEF KnownBy, At
  <2>13. NoAgent \in Agents \cup {NoAgent} /\ NoAgent \notin Agents
    BY AgentsAssumption
  <2>14. \A b \in Agents : anew'[b].live = anew[b].live /\ anew'[b].disabled = anew[b].disabled
    BY <2>6, <2>7
  <2>15. \A b \in Agents \ {NoAgent, a} : anew'[b].current = anew[b].current
    BY <2>6
  <2>16. /\ alock'[a] = t /\ anew'[a].live /\ ~anew'[a].disabled
    BY <1>4, <2>7, <2>11
  <2> QED
    BY <1>1, <1>2, <1>4, <1>5, <2>4, <2>5, <2>7, <2>8, <2>10, <2>12, <2>13, <2>14, <2>15, <2>16,
       MovesKeeps
<1>7. CASE PickedUp(t)
  <2>1. Goto(t, "commit") /\ anew' = anew /\ cnew' = cnew /\ "commit" \in Steps
    BY <1>7 DEF PickedUp, newest, Steps
  <2>2. KnownBy(t)'
    BY <1>2, <1>4, <2>1, GoesTo, CommitKnows DEF AgentOps
  <2> QED
    BY <1>1, <1>2, <2>1, <2>2, NothingWritten
<1> QED
  BY <1>6, <1>7

-----------------------------------------------------------------------------
(* Locking, closing, transferring *)

LEMMA LocksBooks ==
  ASSUME OInv, NEW t \in Backends, LockAgent(t) \/ LockConversation(t)
  PROVE  Books'
<1>1. Writes(t)
  BY LocksKeep DEF OInv
<1>2. /\ step[t] \in {"lock_agent", "lock_conv"} /\ Goto(t, "work") /\ "work" \in Steps
      /\ anew' = anew /\ cnew' = cnew /\ crow' = crow /\ call' = call
  BY DEF LockAgent, LockConversation, rows, newest, Steps
<1>3. \A c \in Convs : clock[c] # t
  BY <1>2 DEF OInv, IInv, Holds, HoldsBy, Outside
<1>4. \A c \in Convs : clock'[c] = t => cnew[c] = crow[c]
  <2>1. \A c \in Convs : clock'[c] = clock[c] \/ clock[c] = Free
    BY <1>1 DEF Writes
  <2> QED
    BY <1>3, <2>1 DEF OInv, IInv, TypeOK
<1>5. step'[t] = "work"
  BY <1>2, GoesTo
<1>6. KnownBy(t)'
  BY <1>2, <1>4, <1>5 DEF KnownBy, At
<1> QED
  BY <1>1, <1>2, <1>6, NothingWritten

LEMMA TransferBooks ==
  ASSUME OInv, NEW t \in Backends, TransferToAgent(t) \/ TransferToGroup(t)
  PROVE  Books'
<1>1. At(t, "work", "transfer") /\ "transfer" \in Ops \ AgentOps
  BY DEF TransferToAgent, TransferToGroup, ConvWork, Ops, ConvOps, MessageOps, AgentOps
<1>2. Writes(t)
  BY TransferKeeps DEF OInv
<1>3. /\ call[t] \in Calls /\ call[t].conv \in Convs /\ step[t] = "work" /\ KnownBy(t)
  BY <1>1, RowFound DEF OInv, Books, Known
<1>4. /\ Goto(t, "move") /\ "move" \in Steps /\ IsOpen(cnew[call[t].conv])
      /\ anew' = anew /\ cnew' = cnew /\ crow' = crow /\ clock' = clock
  BY DEF TransferToAgent, TransferToGroup, rows, newest, Steps
<1>5. step'[t] = "move"
  BY <1>4, GoesTo
<1>6. \A c \in Convs : clock'[c] = t => cnew'[c] = crow'[c]
  BY <1>3, <1>4 DEF KnownBy
<1>7. /\ call'[t].conv = call[t].conv
      /\ anew[call'[t].agent].live /\ ~anew[call'[t].agent].disabled
  <2>1. CASE TransferToAgent(t)
    <3>1. call[t].agent \in Agents /\ call' = call
      BY <1>3, <2>1 DEF TransferToAgent, Calls
    <3> QED
      BY <2>1, <3>1, SeesNewest DEF TransferToAgent, CanBeTarget
  <2>2. CASE TransferToGroup(t)
    <3>1. PICK a \in Candidates(t) : call' = [call EXCEPT ![t] = [call[t] EXCEPT !.agent = a]]
      BY <2>2 DEF TransferToGroup
    <3>2. PICK k : k = [call[t] EXCEPT !.agent = a]
      OBVIOUS
    <3>3. k.agent = a /\ k.conv = call[t].conv
      BY <1>3, <3>2 DEF Calls
    <3>4. call'[t] = k
      BY <3>1, <3>2 DEF OInv, IInv, TypeOK
    <3> QED
      BY <3>3, <3>4, CandidatesServe
  <2> QED
    BY <2>1, <2>2
<1>8. KnownBy(t)'
  BY <1>4, <1>5, <1>6, <1>7 DEF KnownBy, At, IsOpen
<1> QED
  BY <1>2, <1>3, <1>4, <1>8, NothingWritten

LEMMA CloseBooks ==
  ASSUME OInv, NEW t \in Backends, CloseConversation(t)
  PROVE  Books'
<1> DEFINE c == call[t].conv
           row == cnew[c]
<1>1. At(t, "work", "close") /\ "close" \in Ops \ AgentOps /\ row.status # "none"
  BY DEF CloseConversation, ConvWork, Ops, ConvOps, MessageOps, AgentOps
<1>2. Writes(t)
  BY CloseKeeps DEF OInv
<1>3. /\ c \in Convs /\ clock[c] = t /\ call[t].op = "close" /\ row \in ConvRows
      /\ RowOK(row) /\ step[t] = "work" /\ row = crow[c] /\ row.owner \in Agents \cup {NoAgent}
  BY <1>1, RowFound DEF ConvRows
<1>0. PICK x \in Agents \cup {NoAgent} : x = row.owner
  BY <1>3
<1>4. PICK new : new = [row EXCEPT !.status = "closed"]
  OBVIOUS
<1>5. RowOK(new) /\ new.owner = x /\ new.status = "closed" /\ ~IsOpen(new)
  BY <1>0, <1>3, <1>4, StatusRowOK DEF IsOpen
<1>6. cnew' = [cnew EXCEPT ![c] = new] /\ clock' = clock /\ call' = call /\ crow' = crow
        /\ Goto(t, "commit") /\ "commit" \in Steps
  BY <1>4 DEF CloseConversation, SetConvRow, rows, Steps
<1>7. cnew'[c] = new /\ \A d \in Convs \ {c} : cnew'[d] = cnew[d]
  BY <1>3, <1>6 DEF OInv, IInv, TypeOK
<1>8. step'[t] = "commit"
  BY <1>6, GoesTo
<1>9. KnownBy(t)'
  BY <1>3, <1>6, <1>8 DEF KnownBy, At
<1>10. \A a \in Agents : Releasing(a) => Releasing(a)'
  BY <1>2, <1>3, StillReleasing
<1>11. \A a \in Agents : ~Serves(new, a)
  BY <1>5 DEF Serves
<1>12. NoAgent \in Agents \cup {NoAgent} /\ NoAgent \notin Agents
  BY AgentsAssumption
<1>13. CASE x = NoAgent /\ anew' = anew
  <2>1. \A a \in Agents : ~Serves(row, a)
    BY <1>0, <1>12, <1>13 DEF Serves
  <2>2. \A d \in Convs, a \in Agents : /\ Serves(cnew'[d], a) <=> Serves(cnew[d], a)
                                       /\ cnew'[d].owner = a => cnew[d].owner = a
    BY <1>0, <1>5, <1>7, <1>11, <2>1
  <2> QED
    BY <1>2, <1>3, <1>5, <1>7, <1>9, <1>10, <1>13, <2>2, StaysKeeps
<1>14. CASE /\ x # NoAgent /\ alock' = [alock EXCEPT ![x] = t]
            /\ anew' = [anew EXCEPT ![x] = Fewer(anew[x])]
  <2>1. x \in Agents /\ anew[x] \in AgentRows
    BY <1>3, <1>14 DEF OInv, IInv, TypeOK
  <2>2. /\ alock'[x] = t /\ anew'[x] = Fewer(anew[x])
        /\ \A a \in Agents \ {x} : anew'[a] = anew[a]
    BY <1>14, <2>1 DEF OInv, IInv, TypeOK
  <2>3. /\ anew'[x].current = IF anew[x].current > 0 THEN anew[x].current - 1 ELSE 0
        /\ anew'[x].live = anew[x].live /\ anew'[x].disabled = anew[x].disabled
    BY <2>1, <2>2, FewerCounts
  <2>4. \A a \in Agents : anew'[a].live = anew[a].live /\ anew'[a].disabled = anew[a].disabled
    BY <2>2, <2>3
  <2>5. CASE IsOpen(row)
    <3>1. \A a \in Agents : Serves(row, a) <=> a = x
      BY <1>0, <2>5 DEF Serves
    <3>2. \A a \in Agents : Serves(new, a) <=> a = NoAgent
      BY <1>11, <1>12
    <3>3. \A a \in Agents \ {x, NoAgent} : anew'[a].current = anew[a].current
      BY <2>2
    <3>4. cnew'[c].owner \in {cnew[c].owner, NoAgent} /\ x # NoAgent /\ step[t] # "commit"
      BY <1>0, <1>3, <1>5, <1>7, <1>14
    <3> QED
      BY <1>2, <1>3, <1>5, <1>7, <1>9, <1>10, <1>12, <2>1, <2>2, <2>3, <2>4, <3>1, <3>2, <3>3,
         <3>4, MovesKeeps
  <2>6. CASE ~IsOpen(row)
    <3>1. Recloses(t)'
      <4>1. crow[c].status = "closed" /\ crow[c].owner # NoAgent
        BY <1>0, <1>1, <1>3, <1>14, <2>6 DEF IsOpen
      <4> QED
        BY <1>3, <1>6, <1>8, <4>1 DEF Recloses, At
    <3>2. \A d \in Convs, a \in Agents : /\ Serves(cnew'[d], a) <=> Serves(cnew[d], a)
                                         /\ cnew'[d].owner = a => cnew[d].owner = a
      BY <1>0, <1>5, <1>7, <1>11, <2>6 DEF Serves
    <3>3. \A a \in Agents : NewServing(a)' = NewServing(a)
      BY <3>2, NewAfter DEF NewServing
    <3>4. NewCounted(x)'
      BY <2>1, <2>2, <2>3, <3>1, <3>3, CountsAgain
    <3>5. \A a \in Agents \ {x} : NewCounted(a)'
      BY <1>2, <1>3, <1>10, <2>2, <3>3, CountStays
    <3>6. UnderLock'
      BY <1>2, <3>2, KeepsUnderLock
    <3>7. OwnersLive'
      BY <1>2, <2>4, <3>2, KeepsOwnersLive
    <3>8. \A a \in Agents : NewUnserved(a)'
      BY <1>2, <1>10, <2>4, <3>2, KeepsUnserved
    <3>9. \A d \in Convs : RowOK(cnew[d])'
      BY <1>5, <1>7, NewAfter DEF OInv, Books, RowsOK
    <3>10. \A a \in Agents : NewUnserved(a)' /\ NewCounted(a)'
      BY <3>4, <3>5, <3>8
    <3> QED
      BY <1>2, <1>9, <3>6, <3>7, <3>9, <3>10, KeepsKnown, KeepsCommitted
      DEF Books, RowsOK, DisabledServeNobody, Counted
  <2> QED
    BY <2>5, <2>6
<1> QED
  BY <1>0, <1>13, <1>14 DEF CloseConversation

LEMMA MoveBooks ==
  ASSUME OInv, NEW t \in Backends, MoveConversation(t)
  PROVE  Books'
<1> DEFINE c == call[t].conv
           y == call[t].agent
           row == cnew[c]
           x == row.owner
<1>1. Writes(t)
  BY MoveKeeps DEF OInv
<1>2. step[t] = "move" /\ Goto(t, "commit") /\ "commit" \in Steps /\ call' = call
  BY DEF MoveConversation, Steps
<1>3. HoldsBy(t) /\ KnownBy(t)
  BY DEF OInv, IInv, Holds, Books, Known
<1>4. /\ call[t].op = "transfer" /\ c \in Convs /\ y \in Agents /\ alock[y] = t
      /\ IsOpen(row) /\ anew[y].live /\ ~anew[y].disabled
  BY <1>2, <1>3 DEF HoldsBy, KnownBy, AgentOps
<1>5. row \in ConvRows /\ RowOK(row) /\ x \in Agents \cup {NoAgent} /\ anew[y] \in AgentRows
  BY <1>4 DEF OInv, IInv, TypeOK, Books, RowsOK, ConvRows
<1>6. step'[t] = "commit"
  BY <1>2, GoesTo
<1>7. KnownBy(t)'
  BY <1>2, <1>4, <1>6, CommitKnows
<1>8. \A a \in Agents : Releasing(a) => Releasing(a)'
  BY <1>1, <1>2, StillReleasing
<1>9. CASE UNCHANGED <<newest, alock>>
  BY <1>1, <1>2, <1>7, <1>9, NothingWritten DEF newest
<1>10. CASE /\ x # y /\ SetConvRow(t, [row EXCEPT !.status = "assigned", !.owner = y])
            /\ \/ x = NoAgent /\ anew' = [anew EXCEPT ![y] = More(anew[y])] /\ alock' = alock
               \/ /\ x # NoAgent
                  /\ anew' = [anew EXCEPT ![x] = Fewer(anew[x]), ![y] = More(anew[y])]
                  /\ alock' = [alock EXCEPT ![x] = t]
  <2>1. PICK new : new = [row EXCEPT !.status = "assigned", !.owner = y]
    OBVIOUS
  <2>2. RowOK(new) /\ new.owner = y /\ IsOpen(new)
    BY <1>4, <1>5, <2>1, GivenRowOK
  <2>3. cnew'[c] = new /\ \A d \in Convs \ {c} : cnew'[d] = cnew[d]
    BY <1>4, <1>10, <2>1 DEF SetConvRow, OInv, IInv, TypeOK
  <2>4. /\ anew'[y] = More(anew[y]) /\ alock'[y] = t
        /\ x \in Agents => anew'[x] = Fewer(anew[x]) /\ alock'[x] = t /\ anew[x] \in AgentRows
        /\ \A a \in Agents \ {x, y} : anew'[a] = anew[a]
    <3>1. anew \in [Agents -> AgentRows] /\ DOMAIN alock = Agents
      BY DEF OInv, IInv, TypeOK
    <3>2. y \in Agents /\ alock[y] = t /\ x # y /\ NoAgent \notin Agents
      BY <1>4, <1>10, AgentsAssumption
    <3>3. CASE x = NoAgent
      <4>1. anew' = [anew EXCEPT ![y] = More(anew[y])] /\ alock' = alock
        BY <1>10, <3>3
      <4> HIDE DEF x, y
      <4> QED
        BY <3>1, <3>2, <3>3, <4>1
    <3>4. CASE x # NoAgent
      <4>1. /\ anew' = [anew EXCEPT ![x] = Fewer(anew[x]), ![y] = More(anew[y])]
            /\ alock' = [alock EXCEPT ![x] = t] /\ x \in Agents
        BY <1>5, <1>10, <3>4
      <4> HIDE DEF x, y
      <4> QED
        BY <3>1, <3>2, <4>1
    <3> QED
      BY <3>3, <3>4
  <2>5. /\ anew'[y].current = anew[y].current + 1
        /\ anew'[y].live = anew[y].live /\ anew'[y].disabled = anew[y].disabled
    BY <1>5, <2>4, MoreCounts
  <2>6. x \in Agents =>
          /\ anew'[x].current = IF anew[x].current > 0 THEN anew[x].current - 1 ELSE 0
          /\ anew'[x].live = anew[x].live /\ anew'[x].disabled = anew[x].disabled
    BY <2>4, FewerCounts
  <2>7. \A a \in Agents : anew'[a].live = anew[a].live /\ anew'[a].disabled = anew[a].disabled
    BY <2>4, <2>5, <2>6
  <2>8. \A a \in Agents : Serves(row, a) <=> a = x
    BY <1>4 DEF Serves
  <2>9. \A a \in Agents : Serves(new, a) <=> a = y
    BY <2>2 DEF Serves
  <2>10. \A a \in Agents \ {x, y} : anew'[a].current = anew[a].current
    BY <2>4
  <2>11. anew'[y].live /\ ~anew'[y].disabled /\ x # y /\ y \in Agents \cup {NoAgent}
    BY <1>4, <1>10, <2>5
  <2>12. step[t] # "commit"
    BY <1>2
  <2>13. /\ cnew'[c].owner \in {cnew[c].owner, y, NoAgent} /\ RowOK(cnew'[c])
         /\ \A a \in Agents : Serves(cnew'[c], a) <=> a = y
         /\ \A d \in Convs \ {c} : cnew'[d] = cnew[d]
    BY <2>2, <2>3, <2>9
  <2>14. x \in Agents =>
           /\ alock'[x] = t
           /\ anew'[x].current = IF anew[x].current > 0 THEN anew[x].current - 1 ELSE 0
    BY <2>4, <2>6
  <2>15. /\ alock'[y] = t /\ anew'[y].current = anew[y].current + 1
         /\ anew'[y].live /\ ~anew'[y].disabled
    BY <2>4, <2>5, <2>11
  <2>16. c \in Convs /\ x \in Agents \cup {NoAgent} /\ y \in Agents \cup {NoAgent} /\ x # y
    BY <1>4, <1>5, <2>11
  <2> HIDE DEF row, y
  <2> QED
    BY <1>1, <1>7, <1>8, <2>7, <2>8, <2>10, <2>12, <2>13, <2>14, <2>15, <2>16, MovesKeeps DEF row
<1> QED
  BY <1>9, <1>10, <1>4, AgentsAssumption DEF MoveConversation

\* So does all that a transaction does by itself before its end.
LEMMA GoingOnBooks ==
  ASSUME OInv, NEW t \in Backends, AgentStep(t) \/ ConvStep(t)
  PROVE  Books'
<1>1. CASE AgentStep(t)
  BY <1>1, LocksBooks, AgentsBooks, LockServedBooks, ReleaseOneBooks, ClearClosedBooks,
     ReleasedBooks, PickUpBooks DEF AgentStep
<1>2. CASE ConvStep(t)
  BY <1>2, LocksBooks, VisitorMessageBooks, AgentMessageBooks, AIMessageBooks, MarkReadBooks,
     RevokeBooks, EscalateBooks, CloseBooks, DeleteBooks, TransferBooks, MoveBooks, AssignBooks
  DEF ConvStep
<1> QED
  BY <1>1, <1>2

-----------------------------------------------------------------------------
(* Beginning *)

LEMMA SameRows ==
  ASSUME OInv, crow' = crow, cnew' = cnew, alock' = alock, clock' = clock
  PROVE  RowsOK' /\ UnderLock'
<1>1. \A c \in Convs : RowOK(crow[c])' /\ RowOK(cnew[c])'
  <2>1. \A c \in Convs : RowOK(crow[c])'
    BY RowsAfter DEF OInv, Books, RowsOK
  <2>2. \A c \in Convs : RowOK(cnew[c])'
    BY NewAfter DEF OInv, Books, RowsOK
  <2> QED
    BY <2>1, <2>2
<1>2. UnderLock'
  BY DEF OInv, Books, UnderLock, Serves, IsOpen
<1> QED
  BY <1>1, <1>2 DEF RowsOK

\* The rows stay; t comes to where it knows nothing yet.
LEMMA SameBooks ==
  ASSUME OInv, NEW t \in Backends, step[t] \in {"idle"}, step'[t] \in {"lock_agent", "lock_conv"},
         \A u \in Backends \ {t} : call'[u] = call[u] /\ step'[u] = step[u],
         UNCHANGED <<rows, newest, locks, reclosed>>
  PROVE  Books'
<1>1. /\ arow' = arow /\ crow' = crow /\ anew' = anew /\ cnew' = cnew
      /\ alock' = alock /\ clock' = clock /\ reclosed' = reclosed
  BY DEF rows, newest, locks
<1>2. \A a \in Agents : Releasing(a)' <=> Releasing(a)
  BY DEF Releasing
<1>3. \A u \in Backends : Recloses(u)' <=> Recloses(u)
  BY <1>1 DEF Recloses, At
<1>4. \A a \in Agents : Recloses(alock[a])' <=> Recloses(alock[a])
  BY <1>1, <1>3, BackendsAssumption DEF Recloses
<1>5. \A a \in Agents : NewServing(a)' = NewServing(a) /\ Serving(a)' = Serving(a)
  BY <1>1 DEF NewServing, Serving
<1>6. RowsOK' /\ UnderLock' /\ OwnersLive'
  BY <1>1, SameRows DEF OInv, Books, OwnersLive
<1>7. DisabledServeNobody'
  BY <1>1, <1>2, <1>5 DEF OInv, Books, DisabledServeNobody, NewUnserved
<1>8. Counted'
  BY <1>1, <1>2, <1>4, <1>5 DEF OInv, Books, Counted, CounterCorrect, NewCounted
<1>9. \A u \in Backends \ {t} : KnownBy(u)'
  BY <1>1, SameKnown
<1>10. KnownBy(t)'
  BY DEF KnownBy, At
<1> QED
  BY <1>6, <1>7, <1>8, <1>9, <1>10 DEF Books, Known

LEMMA BeginBooks ==
  ASSUME OInv, NEW t \in Backends, NEW k \in Requests, Begin(t, k)
  PROVE  Books'
<1>1. /\ step[t] = "idle" /\ Goto(t, FirstStep(k.op)) /\ call' = [call EXCEPT ![t] = k]
      /\ UNCHANGED <<rows, newest, locks, reclosed>>
  BY DEF Begin
<1>2. FirstStep(k.op) \in Steps /\ FirstStep(k.op) \in {"lock_agent", "lock_conv"}
  BY DEF FirstStep, Steps
<1>3. /\ step'[t] = FirstStep(k.op)
      /\ \A u \in Backends \ {t} : step'[u] = step[u]
  BY <1>1, <1>2, StepsAre DEF OInv
<1>4. \A u \in Backends \ {t} : call'[u] = call[u]
  BY <1>1 DEF OInv, IInv, TypeOK
<1> QED
  BY <1>1, <1>2, <1>3, <1>4, SameBooks

LEMMA BeginCreateBooks ==
  ASSUME OInv, NEW t \in Backends, BeginCreate(t)
  PROVE  Books'
<1> DEFINE c == lastID + 1
<1>1. /\ step[t] = "idle" /\ Goto(t, "assign") /\ "assign" \in Steps /\ lastID < MaxConversations
      /\ clock' = [clock EXCEPT ![c] = t] /\ cnew' = [cnew EXCEPT ![c] = NewConvRow]
      /\ call' = [call EXCEPT ![t] = CreateCall(c)]
      /\ arow' = arow /\ crow' = crow /\ anew' = anew /\ alock' = alock /\ reclosed' = reclosed
  BY DEF BeginCreate, rows, Steps
<1>2. c \in Convs /\ c > lastID
  BY <1>1, BoundAssumption DEF OInv, IInv, TypeOK, Convs
<1>3. clock[c] = Free /\ crow[c].status = "none" /\ cnew[c] = crow[c]
  BY <1>2 DEF OInv, IInv, TypeOK, Unused
<1>4. crow[c].owner = NoAgent
  BY <1>2, <1>3 DEF OInv, Books, RowsOK, RowOK
<1> HIDE DEF c
<1>5. /\ clock'[c] = t /\ cnew'[c] = NewConvRow
      /\ \A d \in Convs \ {c} : clock'[d] = clock[d] /\ cnew'[d] = cnew[d]
  BY <1>1, <1>2 DEF OInv, IInv, TypeOK
<1>6. /\ step'[t] = "assign" /\ \A u \in Backends \ {t} : step'[u] = step[u]
      /\ call'[t] = CreateCall(c) /\ \A u \in Backends \ {t} : call'[u] = call[u]
  BY <1>1, StepsAre DEF OInv, IInv, TypeOK
<1>7. /\ NewConvRow \in ConvRows /\ NewConvRow.status = "waiting" /\ NewConvRow.owner = NoAgent
      /\ NewConvRow.unread = 0 /\ NewConvRow.log = << >>
  BY NoRowsTyped DEF NewConvRow
<1>8. RowOK(NewConvRow)
  BY <1>7, UnansweredFinite DEF RowOK, Waits, ConvRows
<1>9. \A a \in Agents : ~Serves(NewConvRow, a) /\ ~Serves(cnew[c], a) /\ ~Serves(crow[c], a)
  BY <1>3, <1>4, <1>7, AgentsAssumption DEF Serves
<1>10. \A d \in Convs, a \in Agents : Serves(cnew'[d], a) <=> Serves(cnew[d], a)
  BY <1>5, <1>9
<1>11. \A a \in Agents : NewServing(a)' = NewServing(a) /\ Serving(a)' = Serving(a)
  BY <1>1, <1>10, NewAfter DEF NewServing, Serving
<1>12. RowsOK'
  <2>1. \A d \in Convs : RowOK(cnew[d])'
    BY <1>5, <1>8, NewAfter DEF OInv, Books, RowsOK
  <2>2. \A d \in Convs : RowOK(crow[d])'
    BY <1>1, RowsAfter DEF OInv, Books, RowsOK
  <2> QED
    BY <2>1, <2>2 DEF RowsOK
<1>13. UnderLock'
  <2>1. \A d \in Convs \ {c}, a \in Agents :
          /\ ~(Serves(cnew'[d], a) <=> Serves(crow[d], a)) => alock[a] = clock'[d]
          /\ cnew'[d].owner = a /\ crow[d].owner # a => alock[a] = clock'[d]
    BY <1>5 DEF OInv, Books, UnderLock
  <2>2. \A a \in Agents : ~Serves(cnew'[c], a) /\ ~Serves(crow[c], a) /\ cnew'[c].owner # a
    BY <1>5, <1>7, <1>9, AgentsAssumption
  <2> QED
    BY <1>1, <2>1, <2>2 DEF UnderLock, Serves, IsOpen
<1>14. OwnersLive'
  <2>1. \A d \in Convs \ {c}, a \in Agents :
          /\ crow[d].owner = a => arow[a].live
          /\ cnew'[d].owner = a => anew[a].live
          /\ crow[d].owner = a /\ clock'[d] # alock[a] => anew[a].live
    BY <1>5 DEF OInv, Books, OwnersLive
  <2>2. \A a \in Agents : crow[c].owner # a /\ cnew'[c].owner # a
    BY <1>4, <1>5, <1>7, AgentsAssumption
  <2> QED
    BY <1>1, <2>1, <2>2 DEF OwnersLive
<1>15. \A a \in Agents : Releasing(a)' <=> Releasing(a)
  BY <1>1, <1>6 DEF Releasing
<1>16. \A a \in Agents : Recloses(alock[a])' <=> Recloses(alock[a])
  <2> TAKE a \in Agents
  <2>1. alock'[a] = alock[a] /\ alock[a] # t
    BY <1>1, IdleHolds DEF OInv
  <2>2. CASE alock[a] \in Backends
    <3>1. step'[alock[a]] = step[alock[a]] /\ call'[alock[a]] = call[alock[a]]
      BY <1>6, <2>1, <2>2
    <3> QED
      BY <1>1, <2>1, <3>1 DEF Recloses, At
  <2> QED
    BY <2>1, <2>2 DEF Recloses
<1>17. DisabledServeNobody'
  BY <1>1, <1>11, <1>15 DEF OInv, Books, DisabledServeNobody, NewUnserved
<1>18. Counted'
  BY <1>1, <1>11, <1>15, <1>16 DEF OInv, Books, Counted, CounterCorrect, NewCounted
<1>19. \A u \in Backends \ {t} : KnownBy(u)'
  <2> TAKE u \in Backends \ {t}
  <2>1. u # Free
    BY BackendsAssumption
  <2>2. /\ \A d \in Convs : clock[d] = u => /\ clock'[d] = u /\ crow'[d] = crow[d]
                                           /\ cnew'[d] = cnew[d]
        /\ \A d \in Convs : clock'[d] = u => clock[d] = u
    BY <1>1, <1>3, <1>5, <2>1
  <2>3. \A a \in Agents : alock[a] = u => anew'[a] = anew[a]
    BY <1>1
  <2> QED
    BY <1>6, <2>2, <2>3, SameKnown
<1>20. KnownBy(t)'
  <2>1. CreateCall(c).conv = c
    BY DEF CreateCall
  <2> QED
    BY <1>5, <1>6, <1>7, <2>1 DEF KnownBy, At, Waits
<1> QED
  BY <1>12, <1>13, <1>14, <1>17, <1>18, <1>19, <1>20 DEF Books, Known

LEMMA CreateAgentBooks ==
  ASSUME OInv, NEW b \in Agents, NEW m \in Limits, CreateAgent(b, m)
  PROVE  Books'
<1>1. PICK row \in AgentRows : row = [NoAgentRow EXCEPT !.live = TRUE, !.max = m]
  BY NoRowsTyped DEF AgentRows
<1>2. row.live /\ ~row.disabled /\ row.current = 0
  BY <1>1 DEF NoAgentRow
<1>3. /\ ~arow[b].live /\ alock[b] = Free
      /\ arow' = [arow EXCEPT ![b] = row] /\ anew' = [anew EXCEPT ![b] = row]
      /\ crow' = crow /\ cnew' = cnew /\ alock' = alock /\ clock' = clock /\ call' = call
      /\ step' = step /\ reclosed' = reclosed
  BY <1>1 DEF CreateAgent, locks, counters
<1>4. /\ arow'[b] = row /\ anew'[b] = row /\ anew[b] = arow[b]
      /\ \A a \in Agents \ {b} : arow'[a] = arow[a] /\ anew'[a] = anew[a]
  BY <1>3 DEF OInv, IInv, TypeOK
<1>5. \A c \in Convs : crow[c].owner # b /\ cnew[c].owner # b
  BY <1>3, <1>4 DEF OInv, Books, OwnersLive
<1>6. NewServing(b)' = {} /\ Serving(b)' = {}
  BY <1>3, <1>5 DEF NewServing, Serving, Serves
<1>7. \A a \in Agents : NewServing(a)' = NewServing(a) /\ Serving(a)' = Serving(a)
  BY <1>3 DEF NewServing, Serving
<1>8. RowsOK' /\ UnderLock'
  BY <1>3, SameRows
<1>9. OwnersLive'
  <2>1. \A c \in Convs, a \in Agents \ {b} :
          /\ crow[c].owner = a => arow'[a].live
          /\ cnew[c].owner = a => anew'[a].live
          /\ crow[c].owner = a /\ clock[c] # alock[a] => anew'[a].live
    BY <1>4 DEF OInv, Books, OwnersLive
  <2> QED
    BY <1>2, <1>3, <1>4, <2>1 DEF OwnersLive
<1>10. \A a \in Agents : (Releasing(a)' <=> Releasing(a)) /\ (Recloses(alock[a])' <=> Recloses(alock[a]))
  BY <1>3 DEF Releasing, Recloses, At
<1>11. DisabledServeNobody'
  BY <1>2, <1>4, <1>7, <1>10 DEF OInv, Books, DisabledServeNobody, NewUnserved
<1>12. Counted'
  <2>1. CounterCorrect'
    BY <1>2, <1>3, <1>4, <1>6, <1>7, NoneCount DEF OInv, Books, Counted, CounterCorrect
  <2>2. \A a \in Agents \ {b} : NewCounted(a)'
    BY <1>3, <1>4, <1>7, <1>10 DEF OInv, Books, Counted, NewCounted
  <2>3. NewCounted(b)'
    BY <1>2, <1>4, <1>6, NoneCount DEF NewCounted
  <2> QED
    BY <2>1, <2>2, <2>3 DEF Counted
<1>13. Known'
  <2> SUFFICES ASSUME NEW u \in Backends PROVE KnownBy(u)'
    BY DEF Known
  <2>1. \A a \in Agents : alock[a] = u => anew'[a] = anew[a]
    BY <1>3, <1>4, BackendsAssumption
  <2> QED
    BY <1>3, <2>1, SameKnown
<1> QED
  BY <1>8, <1>9, <1>11, <1>12, <1>13 DEF Books

-----------------------------------------------------------------------------
(* Ending *)

\* Transaction t ends: its rows are the committed ones again, the others' stay.
Ends(t) ==
  /\ call' = call /\ step'[t] = "idle" /\ \A u \in Backends \ {t} : step'[u] = step[u]
  /\ \A a \in Agents :
       IF alock[a] = t THEN alock'[a] = Free /\ anew'[a] = arow'[a]
       ELSE alock'[a] = alock[a] /\ arow'[a] = arow[a] /\ anew'[a] = anew[a]
  /\ \A c \in Convs :
       IF clock[c] = t THEN clock'[c] = Free /\ cnew'[c] = crow'[c]
       ELSE clock'[c] = clock[c] /\ crow'[c] = crow[c] /\ cnew'[c] = cnew[c]

\* Whose conversations they are: t had locked the agents whose conversations it changed.
LEMMA EndServes ==
  ASSUME OInv, NEW t \in Backends, Ends(t), NEW a \in Agents,
         \A c \in Convs : clock[c] = t => crow'[c] \in {crow[c], cnew[c]}
  PROVE  /\ alock[a] = t => NewServing(a)' = Serving(a)'
         /\ alock[a] # t => NewServing(a)' = NewServing(a) /\ Serving(a)' = Serving(a)
<1>1. \A c \in Convs : ~(Serves(cnew[c], a) <=> Serves(crow[c], a)) => alock[a] = clock[c]
  BY DEF OInv, Books, UnderLock
<1>2. /\ NewServing(a)' = {c \in Convs : Serves(cnew'[c], a)}
      /\ Serving(a)' = {c \in Convs : Serves(crow'[c], a)}
      /\ NewServing(a) = {c \in Convs : Serves(cnew[c], a)}
      /\ Serving(a) = {c \in Convs : Serves(crow[c], a)}
  BY NewAfter DEF Serving, NewServing, Serves, IsOpen
<1>3. ASSUME alock[a] = t
      PROVE  \A c \in Convs : Serves(cnew'[c], a) <=> Serves(crow'[c], a)
  BY <1>1, <1>3 DEF Ends
<1>4. alock[a] = t => NewServing(a)' = Serving(a)'
  BY <1>2, <1>3
<1>5. ASSUME alock[a] # t PROVE NewServing(a)' = NewServing(a)
  <2>1. \A c \in Convs : Serves(cnew'[c], a) <=> Serves(cnew[c], a)
    BY <1>1, <1>5 DEF Ends
  <2> QED
    BY <1>2, <2>1
<1>6. ASSUME alock[a] # t PROVE Serving(a)' = Serving(a)
  <2>1. \A c \in Convs : Serves(crow'[c], a) <=> Serves(crow[c], a)
    BY <1>1, <1>6 DEF Ends
  <2> QED
    BY <1>2, <2>1
<1> QED
  BY <1>4, <1>5, <1>6

\* And the committed ones: all that t has done, or nothing.
LEMMA EndServing ==
  ASSUME OInv, NEW t \in Backends, Ends(t), NEW a \in Agents, alock[a] = t
  PROVE  /\ (\A c \in Convs : clock[c] = t => crow'[c] = cnew[c]) => Serving(a)' = NewServing(a)
         /\ (\A c \in Convs : clock[c] = t => crow'[c] = crow[c]) => Serving(a)' = Serving(a)
<1>1. \A c \in Convs : ~(Serves(cnew[c], a) <=> Serves(crow[c], a)) => alock[a] = clock[c]
  BY DEF OInv, Books, UnderLock
<1>2. /\ Serving(a)' = {c \in Convs : Serves(crow'[c], a)}
      /\ NewServing(a) = {c \in Convs : Serves(cnew[c], a)}
      /\ Serving(a) = {c \in Convs : Serves(crow[c], a)}
  BY DEF Serving, NewServing, Serves, IsOpen
<1>3. ASSUME \A c \in Convs : clock[c] = t => crow'[c] = cnew[c]
      PROVE  \A c \in Convs : Serves(crow'[c], a) <=> Serves(cnew[c], a)
  BY <1>1, <1>3 DEF Ends
<1>4. ASSUME \A c \in Convs : clock[c] = t => crow'[c] = crow[c]
      PROVE  \A c \in Convs : Serves(crow'[c], a) <=> Serves(crow[c], a)
  BY <1>4 DEF Ends
<1> QED
  BY <1>2, <1>3, <1>4

LEMMA EndRows ==
  ASSUME OInv, NEW t \in Backends, Ends(t),
         \A c \in Convs : clock[c] = t => crow'[c] \in {crow[c], cnew[c]}
  PROVE  RowsOK' /\ UnderLock' /\ Known'
<1>1. RowsOK'
  <2>1. \A c \in Convs : RowOK(crow'[c]) /\ RowOK(cnew'[c])
    BY DEF Ends, OInv, Books, RowsOK
  <2>2. \A c \in Convs : RowOK(crow[c])' /\ RowOK(cnew[c])'
    BY <2>1 DEF RowOK, Waits, UnansweredIn
  <2> QED
    BY <2>2 DEF RowsOK
<1>2. UnderLock'
  <2> SUFFICES ASSUME NEW c \in Convs, NEW a \in Agents
               PROVE  /\ ~(Serves(cnew'[c], a) <=> Serves(crow'[c], a)) => alock'[a] = clock'[c]
                      /\ cnew'[c].owner = a /\ crow'[c].owner # a => alock'[a] = clock'[c]
    BY DEF UnderLock, Serves, IsOpen
  <2>1. /\ ~(Serves(cnew[c], a) <=> Serves(crow[c], a)) => alock[a] = clock[c]
        /\ cnew[c].owner = a /\ crow[c].owner # a => alock[a] = clock[c]
    BY DEF OInv, Books, UnderLock
  <2> QED
    BY <2>1 DEF Ends
<1>3. Known'
  <2>1. KnownBy(t)'
    BY DEF Ends, KnownBy, At
  <2>2. ASSUME NEW u \in Backends \ {t} PROVE KnownBy(u)'
    <3>1. u # Free
      BY BackendsAssumption
    <3> QED
      BY <3>1, SameKnown DEF Ends
  <2> QED
    BY <2>1, <2>2 DEF Known
<1> QED
  BY <1>1, <1>2, <1>3

\* Others go on with what they were at.
LEMMA EndOthers ==
  ASSUME OInv, NEW t \in Backends, Ends(t), NEW a \in Agents, alock[a] # t
  PROVE  /\ Releasing(a) => Releasing(a)'
         /\ Recloses(alock[a]) => Recloses(alock[a])'
<1>1. Releasing(a) => Releasing(a)'
  <2> SUFFICES ASSUME NEW u \in Backends, step[u] = "release", call[u].agent = a
               PROVE  Releasing(a)'
    BY DEF Releasing
  <2>1. u # t
    BY ReleaseFound
  <2> QED
    BY <2>1 DEF Ends, Releasing
<1>2. Recloses(alock[a]) => Recloses(alock[a])'
  <2> SUFFICES ASSUME Recloses(alock[a]) PROVE Recloses(alock[a])'
    OBVIOUS
  <2>1. PICK u \in Backends \ {t} : u = alock[a]
    BY DEF Recloses
  <2>2. clock[call[u].conv] = u /\ call[u].conv \in Convs /\ At(u, "commit", "close")
    BY <2>1 DEF Recloses, OInv, Books, Known, KnownBy
  <2>3. crow'[call[u].conv] = crow[call[u].conv] /\ alock'[a] = u
    BY <2>1, <2>2 DEF Ends
  <2>4. step'[u] = step[u] /\ call'[u] = call[u]
    BY <2>1 DEF Ends
  <2> QED
    BY <2>1, <2>2, <2>3, <2>4 DEF Recloses, At
<1> QED
  BY <1>1, <1>2

\* A backend about to commit or roll back releases nobody any more.
LEMMA CommitReleases ==
  ASSUME OInv, NEW t \in Backends, step[t] = "commit", NEW a \in Agents, alock[a] = t
  PROVE  ~Releasing(a)
BY ReleaseFound DEF Releasing

LEMMA CommitBooks ==
  ASSUME OInv, NEW t \in Backends, Commit(t)
  PROVE  Books'
<1>1. step[t] = "commit" /\ Goto(t, "idle") /\ "idle" \in Steps /\ anew' = anew /\ cnew' = cnew
        /\ call' = call
  BY DEF Commit, newest, Steps
<1>2. Ends(t)
  <2>1. /\ \A a \in Agents : IF alock[a] = t THEN alock'[a] = Free /\ anew'[a] = arow'[a]
                             ELSE alock'[a] = alock[a] /\ arow'[a] = arow[a] /\ anew'[a] = anew[a]
        /\ \A c \in Convs : IF clock[c] = t THEN clock'[c] = Free /\ cnew'[c] = crow'[c]
                            ELSE clock'[c] = clock[c] /\ crow'[c] = crow[c] /\ cnew'[c] = cnew[c]
    BY <1>1 DEF Commit
  <2>2. step'[t] = "idle" /\ \A u \in Backends \ {t} : step'[u] = step[u]
    BY <1>1, StepsAre DEF OInv
  <2> QED
    BY <1>1, <2>1, <2>2 DEF Ends
<1>3. /\ \A c \in Convs : clock[c] = t => crow'[c] = cnew[c]
      /\ \A a \in Agents : alock[a] = t => arow'[a] = anew[a]
  BY DEF Commit
<1>4. RowsOK' /\ UnderLock' /\ Known'
  BY <1>2, <1>3, EndRows
<1>5. ~reclosed' => ~reclosed /\ ~Recloses(t)
  BY DEF Commit, Recloses, At
<1>6. \A a \in Agents : alock[a] = t => Serving(a)' = NewServing(a) /\ NewServing(a)' = NewServing(a)
  BY <1>2, <1>3, EndServes, EndServing
<1>7. \A a \in Agents : alock[a] # t => NewServing(a)' = NewServing(a) /\ Serving(a)' = Serving(a)
  BY <1>2, <1>3, EndServes
<1>8. \A a \in Agents : alock[a] = t => ~Releasing(a)
  BY <1>1, CommitReleases
<1>9. OwnersLive'
  <2> SUFFICES ASSUME NEW c \in Convs, NEW a \in Agents
               PROVE  /\ crow'[c].owner = a => arow'[a].live
                      /\ cnew'[c].owner = a => anew'[a].live
                      /\ crow'[c].owner = a /\ clock'[c] # alock'[a] => anew'[a].live
    BY DEF OwnersLive
  <2>1. /\ crow[c].owner = a => arow[a].live
        /\ cnew[c].owner = a => anew[a].live
        /\ crow[c].owner = a /\ clock[c] # alock[a] => anew[a].live
    BY DEF OInv, Books, OwnersLive
  <2>2. cnew[c].owner = a /\ crow[c].owner # a => alock[a] = clock[c]
    BY DEF OInv, Books, UnderLock
  <2> QED
    BY <1>1, <1>2, <1>3, <2>1, <2>2 DEF Ends
<1>10. DisabledServeNobody'
  <2> SUFFICES ASSUME NEW a \in Agents
               PROVE  (arow'[a].disabled => Serving(a)' = {}) /\ NewUnserved(a)'
    BY DEF DisabledServeNobody
  <2>1. (arow[a].disabled => Serving(a) = {}) /\ NewUnserved(a)
    BY DEF OInv, Books, DisabledServeNobody
  <2>2. CASE alock[a] = t
    BY <1>1, <1>3, <1>6, <1>8, <2>1, <2>2 DEF NewUnserved
  <2>3. CASE alock[a] # t
    BY <1>1, <1>2, <1>7, <2>1, <2>3, EndOthers DEF NewUnserved, Ends
  <2> QED
    BY <2>2, <2>3
<1>11. Counted'
  <2> SUFFICES ASSUME NEW a \in Agents
               PROVE  /\ arow'[a].current <= Cardinality(Serving(a)')
                      /\ ~reclosed' => arow'[a].current = Cardinality(Serving(a)')
                      /\ NewCounted(a)'
    BY DEF Counted, CounterCorrect
  <2>1. /\ arow[a].current <= Cardinality(Serving(a))
        /\ ~reclosed => arow[a].current = Cardinality(Serving(a))
        /\ NewCounted(a)
    BY DEF OInv, Books, Counted, CounterCorrect
  <2>2. CASE alock[a] = t
    BY <1>1, <1>3, <1>5, <1>6, <1>8, <2>1, <2>2 DEF NewCounted
  <2>3. CASE alock[a] # t
    BY <1>1, <1>2, <1>5, <1>7, <2>1, <2>3, EndOthers DEF NewCounted, Ends
  <2> QED
    BY <2>2, <2>3
<1> QED
  BY <1>4, <1>9, <1>10, <1>11 DEF Books

LEMMA RollbackBooks ==
  ASSUME OInv, NEW t \in Backends, Rollback(t)
  PROVE  Books'
<1>1. /\ Goto(t, "idle") /\ "idle" \in Steps /\ arow' = arow /\ crow' = crow
      /\ call' = call /\ reclosed' = reclosed
  BY DEF Rollback, rows, counters, Steps
<1>2. Ends(t)
  <2>1. /\ \A a \in Agents : IF alock[a] = t THEN alock'[a] = Free /\ anew'[a] = arow'[a]
                             ELSE alock'[a] = alock[a] /\ arow'[a] = arow[a] /\ anew'[a] = anew[a]
        /\ \A c \in Convs : IF clock[c] = t THEN clock'[c] = Free /\ cnew'[c] = crow'[c]
                            ELSE clock'[c] = clock[c] /\ crow'[c] = crow[c] /\ cnew'[c] = cnew[c]
    BY <1>1 DEF Rollback
  <2>2. step'[t] = "idle" /\ \A u \in Backends \ {t} : step'[u] = step[u]
    BY <1>1, StepsAre DEF OInv
  <2> QED
    BY <1>1, <2>1, <2>2 DEF Ends
<1>3. RowsOK' /\ UnderLock' /\ Known'
  BY <1>1, <1>2, EndRows
<1>4. \A a \in Agents : Serving(a)' = Serving(a)
  BY <1>1 DEF Serving
<1>5. \A a \in Agents : alock[a] = t => NewServing(a)' = Serving(a) /\ anew'[a] = arow[a]
  BY <1>1, <1>2, <1>4, EndServes DEF Ends
<1>6. \A a \in Agents : alock[a] # t => NewServing(a)' = NewServing(a) /\ anew'[a] = anew[a]
  BY <1>1, <1>2, EndServes DEF Ends
<1>7. OwnersLive'
  <2> SUFFICES ASSUME NEW c \in Convs, NEW a \in Agents
               PROVE  /\ crow'[c].owner = a => arow'[a].live
                      /\ cnew'[c].owner = a => anew'[a].live
                      /\ crow'[c].owner = a /\ clock'[c] # alock'[a] => anew'[a].live
    BY DEF OwnersLive
  <2>1. /\ crow[c].owner = a => arow[a].live
        /\ cnew[c].owner = a => anew[a].live
        /\ crow[c].owner = a /\ clock[c] # alock[a] => anew[a].live
    BY DEF OInv, Books, OwnersLive
  <2>2. cnew[c].owner = a /\ crow[c].owner # a => alock[a] = clock[c]
    BY DEF OInv, Books, UnderLock
  <2> QED
    BY <1>1, <1>2, <2>1, <2>2 DEF Ends
<1>8. DisabledServeNobody'
  <2> SUFFICES ASSUME NEW a \in Agents
               PROVE  (arow'[a].disabled => Serving(a)' = {}) /\ NewUnserved(a)'
    BY DEF DisabledServeNobody
  <2>1. (arow[a].disabled => Serving(a) = {}) /\ NewUnserved(a)
    BY DEF OInv, Books, DisabledServeNobody
  <2>2. CASE alock[a] = t
    BY <1>1, <1>4, <1>5, <2>1, <2>2 DEF NewUnserved
  <2>3. CASE alock[a] # t
    BY <1>1, <1>2, <1>4, <1>6, <2>1, <2>3, EndOthers DEF NewUnserved
  <2> QED
    BY <2>2, <2>3
<1>9. Counted'
  <2> SUFFICES ASSUME NEW a \in Agents
               PROVE  /\ arow'[a].current <= Cardinality(Serving(a)')
                      /\ ~reclosed' => arow'[a].current = Cardinality(Serving(a)')
                      /\ NewCounted(a)'
    BY DEF Counted, CounterCorrect
  <2>1. /\ arow[a].current <= Cardinality(Serving(a))
        /\ ~reclosed => arow[a].current = Cardinality(Serving(a))
        /\ NewCounted(a)
    BY DEF OInv, Books, Counted, CounterCorrect
  <2>2. CASE alock[a] = t
    BY <1>1, <1>4, <1>5, <2>1, <2>2 DEF NewCounted
  <2>3. CASE alock[a] # t
    BY <1>1, <1>2, <1>4, <1>6, <2>1, <2>3, EndOthers DEF NewCounted, Ends
  <2> QED
    BY <2>2, <2>3
<1> QED
  BY <1>3, <1>7, <1>8, <1>9 DEF Books

-----------------------------------------------------------------------------
(* The invariant *)

LEMMA InitBooks == Init => OInv
<1> SUFFICES ASSUME Init PROVE Books
  BY InitOK DEF OInv
<1>1. \A c \in Convs : crow[c] = NoConvRow /\ cnew[c] = NoConvRow
  BY DEF Init
<1>2. \A a \in Agents : arow[a] = NoAgentRow /\ anew[a] = NoAgentRow
  BY DEF Init
<1>3. /\ NoConvRow \in ConvRows /\ NoConvRow.owner = NoAgent /\ NoConvRow.status = "none"
      /\ NoConvRow.unread = 0 /\ NoConvRow.log = << >>
  BY NoRowsTyped DEF NoConvRow
<1>4. RowOK(NoConvRow)
  BY <1>3, UnansweredFinite DEF RowOK, Waits, ConvRows
<1>5. \A c \in Convs, a \in Agents : crow[c].owner # a /\ cnew[c].owner # a
  BY <1>1, <1>3, AgentsAssumption
<1>6. \A a \in Agents : NewServing(a) = {} /\ Serving(a) = {}
  BY <1>5 DEF NewServing, Serving, Serves
<1>7. RowsOK
  BY <1>1, <1>4 DEF RowsOK
<1>8. UnderLock /\ OwnersLive
  BY <1>5 DEF UnderLock, OwnersLive, Serves
<1>9. DisabledServeNobody
  BY <1>6 DEF DisabledServeNobody, NewUnserved
<1>10. \A a \in Agents : arow[a].current = 0 /\ anew[a].current = 0
  BY <1>2 DEF NoAgentRow
<1>11. Counted
  <2>1. \A a \in Agents : Cardinality(NewServing(a)) = 0 /\ Cardinality(Serving(a)) = 0
    BY <1>6, NoneCount
  <2> QED
    BY <1>10, <2>1 DEF Counted, CounterCorrect, NewCounted
<1>12. Known
  BY DEF Init, Known, KnownBy, At
<1> QED
  BY <1>7, <1>8, <1>9, <1>11, <1>12 DEF Books

LEMMA StepBooks == OInv /\ [Next]_vars => OInv'
<1> SUFFICES ASSUME OInv, [Next]_vars PROVE Books'
  BY StepOK DEF OInv
<1>1. CASE \E t \in Backends, k \in Requests : Begin(t, k)
  BY <1>1, BeginBooks
<1>2. CASE \E t \in Backends : BeginCreate(t)
  BY <1>2, BeginCreateBooks
<1>3. CASE \E t \in Backends : Proceed(t)
  BY <1>3, GoingOnBooks, RollbackBooks, CommitBooks DEF Proceed, Refuse
<1>4. CASE \E t \in Backends : TimeOut(t) \/ DeadlockVictim(t)
  BY <1>4, RollbackBooks DEF TimeOut, DeadlockVictim
<1>5. CASE \E a \in Agents, m \in Limits : CreateAgent(a, m)
  BY <1>5, CreateAgentBooks
<1>6. CASE UNCHANGED vars
  <2>1. /\ arow' = arow /\ crow' = crow /\ anew' = anew /\ cnew' = cnew /\ call' = call
        /\ step' = step /\ alock' = alock /\ clock' = clock /\ reclosed' = reclosed
    BY <1>6 DEF vars
  <2>2. RowsOK' /\ UnderLock' /\ OwnersLive'
    BY <2>1, SameRows DEF OInv, Books, OwnersLive
  <2>3. \A a \in Agents : /\ NewServing(a)' = NewServing(a) /\ Serving(a)' = Serving(a)
                          /\ Releasing(a)' <=> Releasing(a)
                          /\ Recloses(alock[a])' <=> Recloses(alock[a])
    BY <2>1 DEF NewServing, Serving, Releasing, Recloses, At
  <2>4. DisabledServeNobody'
    BY <2>1, <2>3 DEF OInv, Books, DisabledServeNobody, NewUnserved
  <2>5. Counted'
    BY <2>1, <2>3 DEF OInv, Books, Counted, CounterCorrect, NewCounted
  <2>6. \A u \in Backends : KnownBy(u)'
    BY <2>1, SameKnown
  <2> QED
    BY <2>2, <2>4, <2>5, <2>6 DEF Books, Known
<1> QED
  BY <1>1, <1>2, <1>3, <1>4, <1>5, <1>6 DEF Next

\* At every moment of every run the newest versions of the rows keep the books of the
\* committed ones, the release loops under way accounted for.
THEOREM BooksKept == Spec => []OInv
<1> QED
  BY InitBooks, StepBooks, PTL DEF Spec

\* current_conversations never exceeds an agent's open conversations and is their number
\* until a conversation is closed twice, however many backends count the same agents at
\* once and whichever of their transactions are rolled back.
THEOREM CountersRight == Spec => []CounterCorrect
<1>1. OInv => CounterCorrect
  BY DEF OInv, Books, Counted
<1> QED
  BY <1>1, BooksKept, PTL

\* A conversation's agent is registered and not disabled while it is open, and an assigned
\* conversation has one: deleting or disabling an agent never passes a dispatch or a
\* transfer to it that began before.
THEOREM OwnersRight == Spec => []OwnersCanServe
<1>1. OInv => OwnersCanServe
  <2> SUFFICES ASSUME OInv PROVE OwnersCanServe
    OBVIOUS
  <2>1. \A c \in Convs : crow[c].owner \in Agents \cup {NoAgent}
    BY DEF OInv, IInv, TypeOK, ConvRows
  <2> QED
    BY <2>1 DEF OInv, Books, RowsOK, RowOK, OwnersLive, DisabledServeNobody, OwnersCanServe
<1> QED
  BY <1>1, BooksKept, PTL

\* unread_count counts messages nobody has answered, and no others, whatever answers,
\* revocations and visitors' messages the backends write at once.
THEOREM UnreadRight == Spec => []UnreadIsUnanswered
<1>1. OInv => UnreadIsUnanswered
  BY DEF OInv, Books, RowsOK, RowOK, UnansweredIn, UnreadIsUnanswered
<1> QED
  BY <1>1, BooksKept, PTL

=============================================================================
