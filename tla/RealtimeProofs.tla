--------------------------- MODULE RealtimeProofs --------------------------
(***************************************************************************)
(* Module Realtime keeps its types, leaves closed channels alone and tells *)
(* clients why they are disconnected, for any number of nodes, workers,    *)
(* clients and events and any capacity of the channels.                    *)
(***************************************************************************)
EXTENDS Realtime, SequenceTheorems, TLAPS

USE NodeAssumption, ClientAssumption, GoroutineAssumption, BufferAssumption,
    SendsAssumption, EventsAssumption DEF Goroutines, Reply, Positions

----------------------------------------------------------------------------
\* Sending puts at most one event into c's channel, and never too many.
LEMMA SendTyped ==
  ASSUME TypeOK, NEW c \in Clients, NEW e \in Positions \cup {Reply}, Send(c, e)
  PROVE  /\ queue' \in [Clients -> Seq(Positions \cup {Reply})]
         /\ \A d \in Clients : Len(queue'[d]) <= SendBuffer
         /\ lost' \in [Clients -> SUBSET (Positions \cup {Reply})]
<1>1. queue[c] \in Seq(Positions \cup {Reply}) /\ Len(queue[c]) \in Nat
  BY DEF TypeOK
<1>2. /\ Append(queue[c], e) \in Seq(Positions \cup {Reply})
      /\ Len(Append(queue[c], e)) = Len(queue[c]) + 1
  BY <1>1
<1>3. queue' \in [Clients -> Seq(Positions \cup {Reply})]
  BY <1>2 DEF Send, TypeOK
<1>4. \A d \in Clients : Len(queue'[d]) <= SendBuffer
  BY <1>1, <1>2 DEF Send, TypeOK
<1>5. lost' \in [Clients -> SUBSET (Positions \cup {Reply})]
  BY DEF Send, TypeOK
<1> QED
  BY <1>3, <1>4, <1>5

\* Taking the first element of a channel leaves a shorter one of the same type.
LEMMA TailTyped ==
  ASSUME NEW S, NEW q \in Seq(S), q # <<>>
  PROVE  /\ Head(q) \in S /\ Tail(q) \in Seq(S) /\ Len(Tail(q)) = Len(q) - 1
         /\ Len(q) \in Nat \ {0}
OBVIOUS

\* The elements of a sequence that grew or lost its head.
LEMMA AppendElements ==
  ASSUME NEW S, NEW q \in Seq(S), NEW e \in S
  PROVE  /\ Append(q, e) \in Seq(S)
         /\ Append(q, e)[Len(q) + 1] = e /\ Len(q) + 1 \in DOMAIN Append(q, e)
         /\ \A i \in DOMAIN q : i \in DOMAIN Append(q, e) /\ Append(q, e)[i] = q[i]
         /\ \A i \in DOMAIN Append(q, e) :
              Append(q, e)[i] = e \/ (i \in DOMAIN q /\ Append(q, e)[i] = q[i])
<1>1. /\ Append(q, e) \in Seq(S) /\ Len(Append(q, e)) = Len(q) + 1
      /\ Len(q) \in Nat /\ DOMAIN q = 1..Len(q)
      /\ DOMAIN Append(q, e) = 1..Len(Append(q, e))
      /\ Append(q, e)[Len(q) + 1] = e
      /\ \A i \in 1..Len(q) : Append(q, e)[i] = q[i]
  BY AppendProperties
<1> QED
  BY <1>1

LEMMA TailElements ==
  ASSUME NEW S, NEW q \in Seq(S), q # <<>>
  PROVE  /\ Head(q) = q[1] /\ 1 \in DOMAIN q
         /\ \A i \in DOMAIN Tail(q) : i + 1 \in DOMAIN q /\ Tail(q)[i] = q[i + 1]
         /\ \A i \in DOMAIN q \ {1} : i - 1 \in DOMAIN Tail(q) /\ Tail(q)[i - 1] = q[i]
<1>1. /\ Tail(q) \in Seq(S) /\ Len(Tail(q)) = Len(q) - 1
      /\ Len(q) \in Nat \ {0} /\ DOMAIN q = 1..Len(q)
      /\ DOMAIN Tail(q) = 1..Len(Tail(q))
  BY TailTyped
<1>2. \A i \in 1..Len(Tail(q)) : Tail(q)[i] = q[i + 1]
  BY HeadTailProperties
<1>3. \A i \in DOMAIN Tail(q) : i + 1 \in DOMAIN q /\ Tail(q)[i] = q[i + 1]
  BY <1>1, <1>2
<1>4. ASSUME NEW i \in DOMAIN q \ {1}
      PROVE  i - 1 \in DOMAIN Tail(q) /\ Tail(q)[i - 1] = q[i]
  <2>1. i - 1 \in 1..Len(Tail(q)) /\ (i - 1) + 1 = i
    BY <1>1
  <2> QED
    BY <1>1, <1>2, <2>1
<1> QED
  BY <1>1, <1>3, <1>4

LEMMA TypeInit == Init => TypeOK
BY DEF Init, TypeOK, Idle, Doing, Jobs, Phases

\* Starting an event extends emitted and the worker has it to send.
LEMMA StartTyped ==
  ASSUME TypeOK, NEW w \in Workers, NEW event \in WireEvents, Start(w, event)
  PROVE  /\ emitted' \in Seq(WireEvents) /\ Len(emitted') <= MaxEvents
         /\ job' \in [Goroutines -> Jobs]
         /\ \A g \in Goroutines :
              job'[g].stage # "idle" => job'[g].event \in DOMAIN emitted'
         /\ \A n \in Nodes : \A i \in DOMAIN wire'[n] : wire'[n][i] \in DOMAIN emitted'
         /\ UNCHANGED <<wire, inflight, unanswered>> /\ unanswered \subseteq DOMAIN emitted'
<1>1. /\ emitted' \in Seq(WireEvents) /\ Len(emitted') = Len(emitted) + 1
      /\ DOMAIN emitted' = 1..(Len(emitted) + 1) /\ DOMAIN emitted = 1..Len(emitted)
      /\ Len(emitted) \in Nat /\ Len(emitted') <= MaxEvents
  BY DEF Start, TypeOK
<1>2. Select(Len(emitted) + 1) \in Jobs
  <2>1. Len(emitted) + 1 \in Positions
    BY <1>1
  <2> QED
    BY <2>1 DEF Select, Doing, Jobs
<1>3. job' \in [Goroutines -> Jobs]
  BY <1>2 DEF Start, TypeOK
<1>4. Select(Len(emitted) + 1).event = Len(emitted) + 1
  BY DEF Select, Doing
<1>5. \A g \in Goroutines : job'[g].stage # "idle" => job'[g].event \in DOMAIN emitted'
  BY <1>1, <1>4 DEF Start, TypeOK
<1>6. \A n \in Nodes : \A i \in DOMAIN wire'[n] : wire'[n][i] \in DOMAIN emitted'
  BY <1>1 DEF Start, redisVars, TypeOK
<1>7. UNCHANGED <<wire, inflight, unanswered>> /\ unanswered \subseteq DOMAIN emitted'
  BY <1>1 DEF Start, redisVars, TypeOK
<1> QED
  BY <1>1, <1>3, <1>5, <1>6, <1>7

\* A broadcast puts its event at the end of some wires.
LEMMA BroadcastTyped ==
  ASSUME TypeOK, NEW e \in DOMAIN emitted, Broadcast(e)
  PROVE  /\ wire' \in [Nodes -> Seq(Positions)]
         /\ \A n \in Nodes : \A i \in DOMAIN wire'[n] : wire'[n][i] \in DOMAIN emitted
<1>1. PICK subscribers \in SUBSET Nodes :
        wire' = [n \in Nodes |-> IF n \in subscribers THEN Append(wire[n], e) ELSE wire[n]]
  BY DEF Broadcast
<1>2. e \in Positions
  <2>1. emitted \in Seq(WireEvents) /\ Len(emitted) <= MaxEvents
    BY DEF TypeOK
  <2> QED
    BY <2>1
<1>3. ASSUME NEW n \in Nodes
      PROVE  /\ wire'[n] \in Seq(Positions)
             /\ \A i \in DOMAIN wire'[n] : wire'[n][i] \in DOMAIN emitted
  <2>1. /\ wire[n] \in Seq(Positions)
        /\ \A i \in DOMAIN wire[n] : wire[n][i] \in DOMAIN emitted
    BY DEF TypeOK
  <2>2. /\ Append(wire[n], e) \in Seq(Positions)
        /\ \A i \in DOMAIN Append(wire[n], e) : Append(wire[n], e)[i] \in DOMAIN emitted
    BY <1>2, <2>1, AppendElements
  <2> QED
    BY <1>1, <2>1, <2>2
<1>4. wire' \in [Nodes -> Seq(Positions)]
  BY <1>1, <1>3
<1> QED
  BY <1>3, <1>4

\* A goroutine's job keeps its type while its targets shrink.
LEMMA JobTyped ==
  ASSUME TypeOK, NEW g \in Goroutines, NEW j \in Jobs,
         j.stage # "idle" => j.event \in DOMAIN emitted,
         job' = [job EXCEPT ![g] = j], emitted' = emitted
  PROVE  /\ job' \in [Goroutines -> Jobs]
         /\ \A h \in Goroutines :
              job'[h].stage # "idle" => job'[h].event \in DOMAIN emitted'
BY DEF TypeOK

LEMMA TypeStep == TypeOK /\ [Next]_vars => TypeOK'
<1> SUFFICES ASSUME TypeOK, [Next]_vars PROVE TypeOK'
  OBVIOUS
<1>0. Idle \in Jobs /\ Idle.stage = "idle"
  BY DEF Idle, Doing, Jobs
<1>1. ASSUME NEW w \in Workers, NEW a \in Accounts,
             NEW target \in Roles \cup {"admins"}, Emit(w, target, a)
      PROVE  TypeOK'
  <2> DEFINE ev == [from |-> w, target |-> target, key |-> a, name |-> "event"]
  <2>1. ev \in WireEvents /\ Start(w, ev)
    BY <1>1 DEF Emit, WireEvents
  <2>2. session' \in [Clients -> BOOLEAN]
    BY <1>1 DEF Emit, TypeOK
  <2> HIDE DEF ev
  <2> QED
    BY <2>1, <2>2, StartTyped DEF Start, TypeOK, clientVars, writerVars
<1>2. ASSUME NEW w \in Workers, NEW a \in Accounts, NEW role \in Roles,
             Revoke(w, role, a)
      PROVE  TypeOK'
  <2> DEFINE ev == [from |-> w, target |-> role, key |-> a, name |-> "session.revoked"]
  <2>1. ev \in WireEvents /\ Start(w, ev)
    BY <1>2 DEF Revoke, WireEvents
  <2>2. session' \in [Clients -> BOOLEAN]
    BY <1>2 DEF Revoke, TypeOK
  <2> HIDE DEF ev
  <2> QED
    BY <2>1, <2>2, StartTyped DEF Start, TypeOK, clientVars, writerVars
<1>3. ASSUME NEW g \in Goroutines, SelectTargets(g)
      PROVE  TypeOK'
  <2> DEFINE j == [job[g] EXCEPT !.stage = "send",
                     !.targets = {c \in Registered(HubOf(g)) : Matches(c, job[g].event)}]
  <2>0. job[g] \in Jobs
    BY DEF TypeOK
  <2>1. job' = [job EXCEPT ![g] = j] /\ job[g].stage # "idle"
    BY <1>3 DEF SelectTargets, TypeOK
  <2>2. j \in Jobs /\ j.event = job[g].event
    BY <2>0 DEF Jobs, Registered
  <2>3. j.stage # "idle" => j.event \in DOMAIN emitted
    BY <2>1, <2>2 DEF TypeOK
  <2> HIDE DEF j
  <2> QED
    BY <2>1, <2>2, <2>3, <1>3, JobTyped
    DEF SelectTargets, TypeOK, hubVars, clientVars, writerVars, redisVars
<1>4. ASSUME NEW g \in Goroutines, NEW c \in Clients, SendTo(g, c)
      PROVE  TypeOK'
  <2> DEFINE j == [job[g] EXCEPT !.targets = @ \ {c},
                     !.closing = IF Revokes(job[g].event) THEN {c} ELSE {}]
  <2>1. job[g] \in Jobs /\ job[g].event \in Positions \cup {Reply}
    BY DEF TypeOK, Jobs
  <2>2. j \in Jobs /\ j.event = job[g].event /\ j.stage = job[g].stage
    BY <2>1 DEF Jobs
  <2>3. job' = [job EXCEPT ![g] = j]
    BY <1>4 DEF SendTo, TypeOK
  <2>4. j.stage # "idle" => j.event \in DOMAIN emitted
    BY <2>2 DEF TypeOK
  <2>5. Send(c, job[g].event) /\ UNCHANGED <<emitted, hubVars, closed, writerVars, wire, inflight, unanswered>>
    BY <1>4 DEF SendTo, redisVars
  <2> HIDE DEF j
  <2>6. /\ job' \in [Goroutines -> Jobs]
        /\ \A h \in Goroutines :
             job'[h].stage # "idle" => job'[h].event \in DOMAIN emitted'
    BY <2>2, <2>3, <2>4, <2>5, JobTyped
  <2> QED
    BY <2>1, <2>5, <2>6, SendTyped DEF TypeOK, hubVars, writerVars
<1>5. ASSUME NEW g \in Goroutines, NEW c \in Clients, Close(g, c)
      PROVE  TypeOK'
  <2> DEFINE j == [job[g] EXCEPT !.closing = {}]
  <2>0. job[g] \in Jobs
    BY DEF TypeOK
  <2>1. j \in Jobs /\ j.event = job[g].event /\ j.stage = job[g].stage
    BY <2>0 DEF Jobs
  <2>2. job' = [job EXCEPT ![g] = j]
    BY <1>5 DEF Close, TypeOK
  <2>3. j.stage # "idle" => j.event \in DOMAIN emitted
    BY <2>1 DEF TypeOK
  <2>4. closed' \in [Clients -> BOOLEAN]
    BY <1>5 DEF Close, CloseSend, TypeOK
  <2>5. UNCHANGED <<emitted, hubVars, queue, lost, writerVars, wire, inflight, unanswered>>
    BY <1>5 DEF Close, redisVars
  <2> HIDE DEF j
  <2>6. /\ job' \in [Goroutines -> Jobs]
        /\ \A h \in Goroutines :
             job'[h].stage # "idle" => job'[h].event \in DOMAIN emitted'
    BY <2>1, <2>2, <2>3, <2>5, JobTyped
  <2> QED
    BY <2>4, <2>5, <2>6 DEF TypeOK, hubVars, writerVars
<1>6. ASSUME NEW w \in Workers, Publish(w)
      PROVE  TypeOK'
  <2>1. /\ job[w].event \in DOMAIN emitted /\ job[w].event \in Positions
        /\ UNCHANGED <<emitted, hubVars, clientVars, writerVars>>
    <3>1. job[w].stage # "idle" /\ UNCHANGED <<emitted, hubVars, clientVars, writerVars>>
      BY <1>6 DEF Publish, Sent
    <3>2. job[w].event \in DOMAIN emitted
      BY <3>1 DEF TypeOK
    <3>3. emitted \in Seq(WireEvents) /\ Len(emitted) <= MaxEvents
      BY DEF TypeOK
    <3> QED
      BY <3>1, <3>2, <3>3
  <2>2. /\ job' \in [Goroutines -> Jobs]
        /\ \A h \in Goroutines :
             job'[h].stage # "idle" => job'[h].event \in DOMAIN emitted'
    BY <1>0, <1>6, JobTyped DEF Publish
  <2>3. CASE Broadcast(job[w].event) /\ UNCHANGED <<inflight, unanswered>>
    <3>1. /\ wire' \in [Nodes -> Seq(Positions)]
          /\ \A n \in Nodes : \A i \in DOMAIN wire'[n] : wire'[n][i] \in DOMAIN emitted
      BY <2>1, <2>3, BroadcastTyped
    <3> QED
      BY <2>1, <2>2, <2>3, <3>1 DEF TypeOK, hubVars, clientVars, writerVars
  <2>4. CASE /\ inflight' = [inflight EXCEPT ![job[w].event] = MaxSends]
             /\ unanswered' = unanswered \cup {job[w].event}
             /\ UNCHANGED wire
    <3>1. inflight' \in [Positions -> 0..MaxSends]
      BY <2>1, <2>4 DEF TypeOK
    <3>2. /\ unanswered' \subseteq DOMAIN emitted
          /\ \A e \in Positions : inflight'[e] > 0 => e \in unanswered'
      BY <2>1, <2>4 DEF TypeOK
    <3> QED
      BY <2>1, <2>2, <2>4, <3>1, <3>2 DEF TypeOK, hubVars, clientVars, writerVars
  <2> QED
    BY <1>6, <2>3, <2>4 DEF Publish
<1>17. ASSUME NEW e \in Positions, Execute(e)
       PROVE  TypeOK'
  <2>1. e \in unanswered /\ e \in DOMAIN emitted
    BY <1>17 DEF Execute, TypeOK
  <2>2. /\ wire' \in [Nodes -> Seq(Positions)]
        /\ \A n \in Nodes : \A i \in DOMAIN wire'[n] : wire'[n][i] \in DOMAIN emitted
    BY <1>17, <2>1, BroadcastTyped DEF Execute
  <2>3. /\ inflight' \in [Positions -> 0..MaxSends]
        /\ \A f \in Positions : inflight'[f] > 0 => inflight[f] > 0
    BY <1>17 DEF Execute, TypeOK
  <2> QED
    BY <1>17, <2>2, <2>3 DEF Execute, TypeOK, hubVars, clientVars, writerVars
<1>7. ASSUME NEW n \in Nodes, Consume(n)
      PROVE  TypeOK'
  <2>1. /\ wire[n] \in Seq(Positions) /\ wire[n] # <<>>
        /\ \A i \in DOMAIN wire[n] : wire[n][i] \in DOMAIN emitted
    BY <1>7 DEF Consume, TypeOK
  <2>2. Head(wire[n]) \in Positions /\ Head(wire[n]) \in DOMAIN emitted
    BY <2>1
  <2>3. /\ Tail(wire[n]) \in Seq(Positions)
        /\ \A i \in DOMAIN Tail(wire[n]) : Tail(wire[n])[i] \in DOMAIN emitted
    <3>1. Tail(wire[n]) \in Seq(Positions)
      BY <2>1, TailTyped
    <3>2. \A i \in DOMAIN Tail(wire[n]) :
            i + 1 \in DOMAIN wire[n] /\ Tail(wire[n])[i] = wire[n][i + 1]
      BY <2>1, TailElements
    <3> QED
      BY <2>1, <3>1, <3>2
  <2>4. /\ wire' \in [Nodes -> Seq(Positions)] /\ UNCHANGED emitted
        /\ \A m \in Nodes : \A i \in DOMAIN wire'[m] : wire'[m][i] \in DOMAIN emitted'
    BY <2>3, <1>7 DEF Consume, TypeOK
  <2>5. Select(Head(wire[n])) \in Jobs /\ Select(Head(wire[n])).event = Head(wire[n])
    BY <2>2 DEF Select, Doing, Jobs
  <2> DEFINE j == IF NodeOf[emitted[Head(wire[n])].from] = n THEN Idle
                                                              ELSE Select(Head(wire[n]))
  <2>6. j \in Jobs /\ (j.stage # "idle" => j.event \in DOMAIN emitted)
    BY <1>0, <2>2, <2>5
  <2>7. job' = [job EXCEPT ![n] = j]
    BY <1>7 DEF Consume
  <2> HIDE DEF j
  <2>8. /\ job' \in [Goroutines -> Jobs]
        /\ \A h \in Goroutines :
             job'[h].stage # "idle" => job'[h].event \in DOMAIN emitted'
    BY <2>4, <2>6, <2>7, JobTyped
  <2> QED
    BY <1>7, <2>4, <2>8 DEF Consume, TypeOK, hubVars, clientVars, writerVars
<1>8. ASSUME NEW n \in Nodes, Delivered(n)
      PROVE  TypeOK'
  <2>1. /\ job' \in [Goroutines -> Jobs]
        /\ \A h \in Goroutines :
             job'[h].stage # "idle" => job'[h].event \in DOMAIN emitted'
    BY <1>0, <1>8, JobTyped DEF Delivered
  <2> QED
    BY <1>8, <2>1 DEF Delivered, TypeOK, hubVars, clientVars, writerVars, redisVars
<1>9. ASSUME NEW c \in Clients, Authorize(c) \/ UpgradeFails(c) \/ Register(c)
      PROVE  TypeOK'
  <2>1. phase' \in [Clients -> Phases]
    BY <1>9 DEF Authorize, UpgradeFails, Register, TypeOK, Phases
  <2> QED
    BY <1>9, <2>1
    DEF Authorize, UpgradeFails, Register, TypeOK, clientVars, writerVars, redisVars
<1>10. ASSUME NEW c \in Clients, Greet(c)
       PROVE  TypeOK'
  <2>1. /\ phase' \in [Clients -> Phases]
        /\ writer' \in [Clients -> {"new", "writing", "ended"}]
    BY <1>10 DEF Greet, TypeOK, Phases
  <2>2. Send(c, Reply)
    BY <1>10 DEF Greet
  <2> QED
    BY <1>10, <2>1, <2>2, SendTyped DEF Greet, TypeOK, redisVars
<1>11. ASSUME NEW c \in Clients, Receive(c)
       PROVE  TypeOK'
  <2>1. Send(c, Reply)
    BY <1>11 DEF Receive
  <2> QED
    BY <1>11, <2>1, SendTyped DEF Receive, TypeOK, hubVars, writerVars, redisVars
<1>12. ASSUME NEW c \in Clients, Unregister(c)
       PROVE  TypeOK'
  <2>1. phase' \in [Clients -> Phases] /\ closed' \in [Clients -> BOOLEAN]
    BY <1>12 DEF Unregister, CloseSend, TypeOK, Phases
  <2> QED
    BY <1>12, <2>1 DEF Unregister, TypeOK, writerVars, redisVars
<1>13. ASSUME NEW c \in Clients, Write(c)
       PROVE  TypeOK'
  <2>1. /\ queue[c] \in Seq(Positions \cup {Reply}) /\ queue[c] # <<>>
        /\ Len(queue[c]) <= SendBuffer
    BY <1>13 DEF Write, TypeOK
  <2>2. /\ queue' \in [Clients -> Seq(Positions \cup {Reply})]
        /\ \A d \in Clients : Len(queue'[d]) <= SendBuffer
    BY <1>13, <2>1, TailTyped, SMTT(30) DEF Write, TypeOK
  <2>3. Head(queue[c]) \in Positions \cup {Reply}
    BY <2>1, TailTyped
  <2>4. got' \in [Clients -> Seq(Positions)]
    BY <1>13, <2>3 DEF Write, TypeOK
  <2> QED
    BY <1>13, <2>2, <2>4 DEF Write, TypeOK, hubVars, redisVars
<1>14. ASSUME NEW c \in Clients, WriteClose(c)
       PROVE  TypeOK'
  <2>1. writer' \in [Clients -> {"new", "writing", "ended"}]
    BY <1>14 DEF WriteClose, TypeOK
  <2> QED
    BY <1>14, <2>1 DEF WriteClose, TypeOK, hubVars, clientVars, redisVars
<1>15. ASSUME NEW c \in Clients, WriteFails(c)
       PROVE  TypeOK'
  <2>1. writer' \in [Clients -> {"new", "writing", "ended"}]
    BY <1>15 DEF WriteFails, TypeOK
  <2>2. /\ queue' \in [Clients -> Seq(Positions \cup {Reply})]
        /\ \A d \in Clients : Len(queue'[d]) <= SendBuffer
        /\ lost' \in [Clients -> SUBSET (Positions \cup {Reply})]
    <3>1. CASE UNCHANGED <<queue, lost>>
      BY <3>1 DEF TypeOK
    <3>2. CASE /\ queue[c] # <<>>
               /\ queue' = [queue EXCEPT ![c] = Tail(@)]
               /\ lost' = [lost EXCEPT ![c] = @ \cup {Head(queue[c])}]
      <4>1. queue[c] \in Seq(Positions \cup {Reply}) /\ Len(queue[c]) <= SendBuffer
        BY DEF TypeOK
      <4> QED
        BY <3>2, <4>1, TailTyped DEF TypeOK
    <3> QED
      BY <1>15, <3>1, <3>2 DEF WriteFails
  <2> QED
    BY <1>15, <2>1, <2>2 DEF WriteFails, TypeOK, hubVars, redisVars
<1>16. CASE UNCHANGED vars
  BY <1>16 DEF TypeOK, vars
<1> QED
  BY <1>1, <1>2, <1>3, <1>4, <1>5, <1>6, <1>7, <1>8, <1>9, <1>10, <1>11, <1>12,
     <1>13, <1>14, <1>15, <1>16, <1>17 DEF Next, HubStep, ClientStep

\* Everything keeps its type: above all, no channel exceeds its capacity and
\* goroutines and nodes only pass on events that were sent.
THEOREM TypeCorrect == Spec => []TypeOK
<1>1. TypeOK /\ [Next]_vars => TypeOK'
  BY TypeStep
<1> QED
  BY <1>1, TypeInit, PTL DEF Spec

----------------------------------------------------------------------------
\* What a step may do to the channels: nothing, one send, or one event taken out.
Took(c) ==
  /\ queue[c] # <<>> /\ queue' = [queue EXCEPT ![c] = Tail(@)]
  /\ \/ /\ lost' = lost
        /\ got' = IF Head(queue[c]) = Reply THEN got
                  ELSE [got EXCEPT ![c] = Append(@, Head(queue[c]))]
     \/ /\ got' = got
        /\ lost' = [lost EXCEPT ![c] = @ \cup {Head(queue[c])}]

ChannelStep ==
  \/ UNCHANGED <<queue, lost, got>>
  \/ \E c \in Clients, e \in Positions \cup {Reply} : Send(c, e) /\ UNCHANGED got
  \/ \E c \in Clients : Took(c)

LEMMA StepOnChannels == TypeOK /\ [Next]_vars => ChannelStep
<1> SUFFICES ASSUME TypeOK, [Next]_vars PROVE ChannelStep
  OBVIOUS
<1>1. ASSUME NEW w \in Workers, NEW a \in Accounts,
             \/ \E target \in Roles \cup {"admins"} : Emit(w, target, a)
             \/ \E role \in Roles : Revoke(w, role, a)
      PROVE  ChannelStep
  BY <1>1 DEF Emit, Revoke, Start, ChannelStep, clientVars, writerVars
<1>2. ASSUME NEW g \in Goroutines, NEW c \in Clients, SendTo(g, c)
      PROVE  ChannelStep
  <2>1. job[g] \in Jobs
    BY DEF TypeOK
  <2>2. job[g].event \in Positions \cup {Reply}
    BY <2>1 DEF Jobs
  <2>3. Send(c, job[g].event) /\ UNCHANGED got
    BY <1>2 DEF SendTo, writerVars
  <2> QED
    BY <2>2, <2>3 DEF ChannelStep
<1>3. ASSUME NEW g \in Goroutines,
             SelectTargets(g) \/ \E c \in Clients : Close(g, c)
      PROVE  ChannelStep
  BY <1>3 DEF SelectTargets, Close, ChannelStep, clientVars, writerVars
<1>4. ASSUME \/ \E w \in Workers : Publish(w)
             \/ \E e \in Positions : Execute(e)
             \/ \E n \in Nodes : Consume(n) \/ Delivered(n)
      PROVE  ChannelStep
  BY <1>4 DEF Publish, Execute, Consume, Delivered, ChannelStep, clientVars, writerVars
<1>5. ASSUME NEW c \in Clients,
             Authorize(c) \/ UpgradeFails(c) \/ Register(c) \/ Unregister(c) \/ WriteClose(c)
      PROVE  ChannelStep
  BY <1>5 DEF Authorize, UpgradeFails, Register, Unregister, WriteClose, ChannelStep,
              clientVars, writerVars
<1>6. ASSUME NEW c \in Clients, Greet(c) \/ Receive(c)
      PROVE  ChannelStep
  <2>1. Send(c, Reply) /\ UNCHANGED got
    BY <1>6 DEF Greet, Receive, writerVars
  <2> QED
    BY <2>1 DEF ChannelStep
<1>7. ASSUME NEW c \in Clients, Write(c)
      PROVE  ChannelStep
  <2>1. Took(c)
    BY <1>7 DEF Write, Took
  <2> QED
    BY <2>1 DEF ChannelStep
<1>8. ASSUME NEW c \in Clients, WriteFails(c)
      PROVE  ChannelStep
  <2>1. Took(c) \/ UNCHANGED <<queue, lost, got>>
    BY <1>8 DEF WriteFails, Took
  <2> QED
    BY <2>1 DEF ChannelStep
<1>9. CASE UNCHANGED vars
  BY <1>9 DEF ChannelStep, vars
<1> QED
  BY <1>1, <1>2, <1>3, <1>4, <1>5, <1>6, <1>7, <1>8, <1>9
  DEF Next, HubStep, ClientStep

\* Clients stay closed and stay gone; who is closed by a step was being disconnected
\* or has left.
LEMMA StepOnClients ==
  ASSUME TypeOK, [Next]_vars, NEW c \in Clients
  PROVE  /\ closed[c] => closed'[c]
         /\ phase[c] = "gone" => phase'[c] = "gone"
         /\ closed'[c] => \/ closed[c] \/ phase'[c] = "gone"
                          \/ \E g \in Goroutines : c \in job[g].closing
<1>1. CASE UNCHANGED <<phase, closed>>
  BY <1>1
<1>2. ASSUME NEW d \in Clients, Authorize(d) \/ UpgradeFails(d) \/ Register(d) \/ Greet(d)
      PROVE  UNCHANGED closed /\ (phase[c] = "gone" => phase'[c] = "gone")
  BY <1>2 DEF Authorize, UpgradeFails, Register, Greet, clientVars, TypeOK
<1>3. ASSUME NEW d \in Clients, Unregister(d)
      PROVE  /\ closed[c] => closed'[c]
             /\ phase[c] = "gone" => phase'[c] = "gone"
             /\ closed'[c] => closed[c] \/ phase'[c] = "gone"
  BY <1>3 DEF Unregister, CloseSend, TypeOK
<1>4. ASSUME NEW g \in Goroutines, NEW d \in Clients, Close(g, d)
      PROVE  /\ UNCHANGED phase
             /\ closed[c] => closed'[c]
             /\ closed'[c] => closed[c] \/ c \in job[g].closing
  BY <1>4 DEF Close, CloseSend, TypeOK, hubVars
<1>5. \/ UNCHANGED <<phase, closed>>
      \/ \E d \in Clients : Authorize(d) \/ UpgradeFails(d) \/ Register(d) \/ Greet(d)
      \/ \E d \in Clients : Unregister(d)
      \/ \E g \in Goroutines, d \in Clients : Close(g, d)
  BY DEF Next, HubStep, ClientStep, vars, hubVars, clientVars, Emit, Revoke, Start,
         SelectTargets, SendTo, Publish, Execute, Consume, Delivered, Receive, Write,
         WriteClose, WriteFails
<1>6. CASE \E d \in Clients : Authorize(d) \/ UpgradeFails(d) \/ Register(d) \/ Greet(d)
  <2>1. UNCHANGED closed /\ (phase[c] = "gone" => phase'[c] = "gone")
    BY <1>2, <1>6
  <2> QED
    BY <2>1
<1>7. CASE \E d \in Clients : Unregister(d)
  BY <1>3, <1>7
<1>8. CASE \E g \in Goroutines, d \in Clients : Close(g, d)
  BY <1>4, <1>8
<1> QED
  BY <1>1, <1>5, <1>6, <1>7, <1>8

\* A closed client's channel only empties.
LEMMA ClosedStep ==
  ASSUME TypeOK, [Next]_vars, NEW c \in Clients, closed[c]
  PROVE  closed'[c] /\ Len(queue'[c]) <= Len(queue[c])
<1>1. closed'[c]
  BY StepOnClients
<1>2. queue[c] \in Seq(Positions \cup {Reply}) /\ Len(queue[c]) \in Nat
  BY DEF TypeOK
<1>3. ASSUME NEW d \in Clients, NEW e \in Positions \cup {Reply}, Send(d, e)
      PROVE  queue'[c] = queue[c]
  BY <1>3 DEF Send, TypeOK
<1>4. ASSUME NEW d \in Clients, Took(d)
      PROVE  Len(queue'[c]) <= Len(queue[c])
  <2>1. CASE d = c
    <3>1. queue'[c] = Tail(queue[c]) /\ queue[c] # <<>>
      BY <1>4, <2>1 DEF Took, TypeOK
    <3> QED
      BY <1>2, <3>1, TailTyped
  <2>2. CASE d # c
    BY <1>2, <1>4, <2>2 DEF Took, TypeOK
  <2> QED
    BY <2>1, <2>2
<1> QED
  BY <1>1, <1>2, <1>3, <1>4, StepOnChannels DEF ChannelStep

\* No goroutine of any node ever sends on a closed channel, so none panics.
THEOREM ClosedNeverSentTo == Spec => ClosedIsLeftAlone
<1>1. TypeOK /\ [Next]_vars =>
        [\A c \in Clients : closed[c] =>
           closed'[c] /\ Len(queue'[c]) <= Len(queue[c])]_vars
  BY ClosedStep
<1> QED
  BY <1>1, TypeCorrect, PTL DEF Spec, ClosedIsLeftAlone

----------------------------------------------------------------------------
\* Why RevokedIsTold holds: events are sent to the clients they are for, and who is
\* about to close a client has already sent it the reason.
ClosersHaveTold ==
  \A g \in Goroutines :
    /\ \A c \in job[g].targets : job[g].stage = "send" /\ Matches(c, job[g].event)
    /\ \A c \in job[g].closing : closed[c] \/ Told(c)

ToldInv == RevokedIsTold /\ ClosersHaveTold

\* Events that were sent stay what they are.
LEMMA EmittedGrows ==
  ASSUME TypeOK, [Next]_vars, NEW e \in DOMAIN emitted
  PROVE  e \in DOMAIN emitted' /\ emitted'[e] = emitted[e]
<1>1. emitted \in Seq(WireEvents)
  BY DEF TypeOK
<1>2. CASE UNCHANGED emitted
  BY <1>2
<1>3. ASSUME NEW w \in Workers, NEW event \in WireEvents, Start(w, event)
      PROVE  e \in DOMAIN emitted' /\ emitted'[e] = emitted[e]
  <2>1. emitted' = Append(emitted, event)
    BY <1>3 DEF Start
  <2> QED
    BY <1>1, <2>1, AppendElements
<1>4. ASSUME NEW w \in Workers, NEW a \in Accounts, NEW target \in Roles \cup {"admins"},
             Emit(w, target, a)
      PROVE  \E event \in WireEvents : Start(w, event)
  BY <1>4 DEF Emit, WireEvents
<1>5. ASSUME NEW w \in Workers, NEW a \in Accounts, NEW role \in Roles,
             Revoke(w, role, a)
      PROVE  \E event \in WireEvents : Start(w, event)
  BY <1>5 DEF Revoke, WireEvents
<1>6. \/ UNCHANGED emitted
      \/ \E w \in Workers, a \in Accounts :
           \/ \E target \in Roles \cup {"admins"} : Emit(w, target, a)
           \/ \E role \in Roles : Revoke(w, role, a)
  BY DEF Next, HubStep, ClientStep, vars, SelectTargets, SendTo, Close, Publish, Execute,
         Consume, Delivered, Authorize, UpgradeFails, Register, Greet, Receive, Unregister, Write,
         WriteClose, WriteFails
<1> QED
  BY <1>2, <1>3, <1>4, <1>5, <1>6

\* What a client was given stays with it.
LEMMA GivenGrows ==
  ASSUME TypeOK, [Next]_vars, NEW c \in Clients, NEW e \in Given(c), e # Reply
  PROVE  e \in Given(c)'
<1>0. /\ queue[c] \in Seq(Positions \cup {Reply}) /\ got[c] \in Seq(Positions)
      /\ e \in Positions \cup {Reply}
  BY DEF TypeOK, Given
<1>1. CASE UNCHANGED <<queue, lost, got>>
  BY <1>1 DEF Given
<1>2. ASSUME NEW d \in Clients, NEW f \in Positions \cup {Reply},
             Send(d, f), UNCHANGED got
      PROVE  e \in Given(c)'
  <2>1. CASE queue'[c] = queue[c] /\ got'[c] = got[c] /\ lost[c] \subseteq lost'[c]
    BY <2>1 DEF Given
  <2>2. CASE queue'[c] = Append(queue[c], f) /\ got'[c] = got[c] /\ lost'[c] = lost[c]
    <3>1. \A i \in DOMAIN queue[c] : i \in DOMAIN queue'[c] /\ queue'[c][i] = queue[c][i]
      BY <1>0, <2>2, AppendElements
    <3> QED
      BY <2>2, <3>1 DEF Given
  <2> QED
    BY <1>2, <2>1, <2>2 DEF Send, TypeOK
<1>3. ASSUME NEW d \in Clients, Took(d)
      PROVE  e \in Given(c)'
  <2>1. CASE d # c
    <3>1. queue'[c] = queue[c] /\ got'[c] = got[c] /\ lost'[c] = lost[c]
      BY <1>3, <2>1 DEF Took, TypeOK
    <3> QED
      BY <3>1 DEF Given
  <2>2. CASE d = c
    <3>1. /\ queue[c] # <<>> /\ queue'[c] = Tail(queue[c])
          /\ \/ lost'[c] = lost[c] /\ Head(queue[c]) = Reply /\ got'[c] = got[c]
             \/ lost'[c] = lost[c] /\ got'[c] = Append(got[c], Head(queue[c]))
                /\ Head(queue[c]) \in Positions
             \/ got'[c] = got[c] /\ lost'[c] = lost[c] \cup {Head(queue[c])}
      <4>1. queue[c] # <<>> /\ queue'[c] = Tail(queue[c])
        BY <1>3, <2>2 DEF Took, TypeOK
      <4>2. Head(queue[c]) \in Positions \cup {Reply}
        BY <1>0, <4>1, TailTyped
      <4>3. CASE lost' = lost /\ Head(queue[c]) = Reply /\ got' = got
        BY <4>1, <4>3
      <4>4. CASE lost' = lost /\ Head(queue[c]) # Reply
                 /\ got' = [got EXCEPT ![c] = Append(@, Head(queue[c]))]
        BY <4>1, <4>2, <4>4 DEF TypeOK
      <4>5. CASE got' = got /\ lost' = [lost EXCEPT ![c] = @ \cup {Head(queue[c])}]
        BY <4>1, <4>5 DEF TypeOK
      <4> QED
        BY <1>3, <2>2, <4>3, <4>4, <4>5 DEF Took
    <3>2. /\ lost[c] \subseteq lost'[c]
          /\ \A i \in DOMAIN got[c] : i \in DOMAIN got'[c] /\ got'[c][i] = got[c][i]
      BY <1>0, <3>1, AppendElements, SMTT(20)
    <3>3. Head(queue[c]) # Reply => Head(queue[c]) \in Given(c)'
      <4>1. CASE got'[c] = Append(got[c], Head(queue[c])) /\ Head(queue[c]) \in Positions
        <5>1. /\ Len(got[c]) + 1 \in DOMAIN got'[c]
              /\ got'[c][Len(got[c]) + 1] = Head(queue[c])
          BY <1>0, <4>1, AppendElements
        <5> QED
          BY <5>1 DEF Given
      <4>2. CASE lost'[c] = lost[c] \cup {Head(queue[c])}
        BY <4>2 DEF Given
      <4> QED
        BY <3>1, <4>1, <4>2
    <3>4. \A i \in DOMAIN queue[c] \ {1} :
            i - 1 \in DOMAIN queue'[c] /\ queue'[c][i - 1] = queue[c][i]
      BY <1>0, <3>1, TailElements, SMTT(20)
    <3>5. queue[c][1] = Head(queue[c])
      BY <1>0, <3>1, TailElements
    <3>6. CASE e \in {queue[c][i] : i \in DOMAIN queue[c]}
      <4>1. PICK i \in DOMAIN queue[c] : e = queue[c][i]
        BY <3>6
      <4>2. CASE i = 1
        BY <3>3, <3>5, <4>1, <4>2
      <4>3. CASE i # 1
        BY <3>4, <4>1, <4>3 DEF Given
      <4> QED
        BY <4>2, <4>3
    <3>7. CASE e \in {got[c][i] : i \in DOMAIN got[c]} \cup lost[c]
      BY <3>2, <3>7 DEF Given
    <3> QED
      BY <3>6, <3>7 DEF Given
  <2> QED
    BY <2>1, <2>2
<1> QED
  BY <1>1, <1>2, <1>3, StepOnChannels DEF ChannelStep

LEMMA ToldStays ==
  ASSUME TypeOK, [Next]_vars, NEW c \in Clients, Told(c)
  PROVE  Told(c)'
<1>1. PICK e \in DOMAIN emitted : Revokes(e) /\ Matches(c, e) /\ e \in Given(c)
  BY DEF Told
<1>2. e # Reply
  BY <1>1 DEF TypeOK
<1>3. e \in DOMAIN emitted' /\ emitted'[e] = emitted[e]
  BY EmittedGrows
<1>4. e \in Given(c)'
  BY <1>1, <1>2, GivenGrows
<1> QED
  BY <1>1, <1>3, <1>4 DEF Told, Revokes, Matches

\* The client that Disconnect has just sent the reason to has been told.
LEMMA SentIsTold ==
  ASSUME TypeOK, [Next]_vars, NEW c \in Clients, NEW e \in DOMAIN emitted,
         Revokes(e), Matches(c, e), Send(c, e)
  PROVE  closed[c] \/ Told(c)'
<1>1. /\ queue[c] \in Seq(Positions \cup {Reply}) /\ e \in Positions \cup {Reply}
      /\ emitted \in Seq(WireEvents) /\ Len(emitted) <= MaxEvents
  BY DEF TypeOK
<1>2. ASSUME ~closed[c] PROVE e \in Given(c)'
  <2>1. CASE queue'[c] = Append(queue[c], e)
    <3>1. Len(queue[c]) + 1 \in DOMAIN queue'[c] /\ queue'[c][Len(queue[c]) + 1] = e
      BY <1>1, <2>1, AppendElements
    <3> QED
      BY <3>1 DEF Given
  <2>2. CASE e \in lost'[c]
    BY <2>2 DEF Given
  <2> QED
    BY <1>2, <2>1, <2>2 DEF Send, TypeOK
<1>3. e \in DOMAIN emitted' /\ emitted'[e] = emitted[e]
  BY EmittedGrows
<1> QED
  BY <1>2, <1>3 DEF Told, Revokes, Matches

\* How one goroutine's job changes in a step.
LEMMA StepOnJob ==
  ASSUME TypeOK, [Next]_vars, NEW g \in Goroutines
  PROVE  \/ job'[g] = job[g]
         \/ job'[g].targets = {} /\ job'[g].closing = {}
         \/ SelectTargets(g)
         \/ \E c \in Clients : SendTo(g, c)
         \/ \E c \in Clients : Close(g, c)
<1> DEFINE Rests == job'[g].targets = {} /\ job'[g].closing = {}
<1>1. ASSUME NEW h \in Goroutines, NEW c \in Clients,
             SelectTargets(h) \/ SendTo(h, c) \/ Close(h, c)
      PROVE  h = g \/ job'[g] = job[g]
  BY <1>1 DEF SelectTargets, SendTo, Close, TypeOK
<1>2. ASSUME NEW w \in Workers, NEW event, Start(w, event)
      PROVE  job'[g] = job[g] \/ Rests
  BY <1>2 DEF Start, Select, Doing, TypeOK
<1>3. ASSUME NEW w \in Workers, Publish(w)
      PROVE  job'[g] = job[g] \/ Rests
  BY <1>3 DEF Publish, Idle, Doing, TypeOK
<1>4. ASSUME NEW n \in Nodes, Consume(n) \/ Delivered(n)
      PROVE  job'[g] = job[g] \/ Rests
  BY <1>4 DEF Consume, Delivered, Idle, Select, Doing, TypeOK
<1>5. ASSUME NEW h \in Goroutines, SelectTargets(h)
      PROVE  h = g \/ job'[g] = job[g]
  BY <1>5 DEF SelectTargets, TypeOK
<1>6. \/ UNCHANGED job
      \/ \E w \in Workers : (\E event : Start(w, event)) \/ Publish(w)
      \/ \E n \in Nodes : Consume(n) \/ Delivered(n)
      \/ \E h \in Goroutines : SelectTargets(h)
      \/ \E h \in Goroutines, c \in Clients : SendTo(h, c) \/ Close(h, c)
  BY DEF Next, HubStep, ClientStep, vars, Emit, Revoke, Execute, Authorize, UpgradeFails,
         Register, Greet, Receive, Unregister, Write, WriteClose, WriteFails
<1> HIDE DEF Rests
<1>7. \/ job'[g] = job[g]
      \/ Rests
      \/ SelectTargets(g)
      \/ \E c \in Clients : SendTo(g, c)
      \/ \E c \in Clients : Close(g, c)
  BY <1>1, <1>2, <1>3, <1>4, <1>5, <1>6
<1> QED
  BY <1>7 DEF Rests

LEMMA ToldInit == Init => ToldInv
BY DEF Init, ToldInv, RevokedIsTold, ClosersHaveTold, Idle, Doing

LEMMA ToldStep == TypeOK /\ ToldInv /\ [Next]_vars => ToldInv'
<1> SUFFICES ASSUME TypeOK, ToldInv, [Next]_vars PROVE ToldInv'
  OBVIOUS
<1>1. ASSUME NEW c \in Clients, closed'[c], phase'[c] # "gone"
      PROVE  Told(c)'
  <2>1. Told(c)
    BY <1>1, StepOnClients DEF ToldInv, RevokedIsTold, ClosersHaveTold
  <2> QED
    BY <2>1, ToldStays
<1>2. ASSUME NEW g \in Goroutines
      PROVE  /\ \A c \in job'[g].targets :
                  job'[g].stage = "send" /\ Matches(c, job[g].event)'
             /\ \A c \in job'[g].closing : closed'[c] \/ Told(c)'
  <2>0. /\ job[g] \in Jobs
        /\ job[g].stage # "idle" => job[g].event \in DOMAIN emitted
        /\ \A c \in job[g].targets : job[g].stage = "send" /\ Matches(c, job[g].event)
        /\ \A c \in job[g].closing : closed[c] \/ Told(c)
    BY DEF TypeOK, ToldInv, ClosersHaveTold
  <2>1. \A c \in job[g].closing : c \in Clients /\ (closed'[c] \/ Told(c)')
    BY <2>0, StepOnClients, ToldStays DEF Jobs
  <2>2. ASSUME job[g].stage # "idle", NEW c \in Clients, Matches(c, job[g].event)
        PROVE  emitted'[job[g].event] = emitted[job[g].event]
    BY <2>0, <2>2, EmittedGrows
  <2>3. \A c \in job[g].targets : c \in Clients /\ job[g].stage # "idle"
    BY <2>0 DEF Jobs
  <2>4. CASE job'[g] = job[g]
    BY <2>0, <2>1, <2>2, <2>3, <2>4 DEF Matches
  <2>5. CASE job'[g].targets = {} /\ job'[g].closing = {}
    BY <2>5
  <2>6. CASE SelectTargets(g)
    <3>1. /\ job'[g].stage = "send" /\ job'[g].event = job[g].event
          /\ job'[g].targets = {c \in Registered(HubOf(g)) : Matches(c, job[g].event)}
          /\ job'[g].closing = job[g].closing /\ UNCHANGED emitted
      BY <2>0, <2>6 DEF SelectTargets, TypeOK, Jobs
    <3> QED
      BY <2>1, <3>1 DEF Matches
  <2>7. ASSUME NEW c \in Clients, SendTo(g, c)
        PROVE  /\ \A d \in job'[g].targets :
                    job'[g].stage = "send" /\ Matches(d, job[g].event)'
               /\ \A d \in job'[g].closing : closed'[d] \/ Told(d)'
    <3>1. /\ job'[g].stage = job[g].stage /\ job'[g].event = job[g].event
          /\ job'[g].targets = job[g].targets \ {c}
          /\ job'[g].closing = IF Revokes(job[g].event) THEN {c} ELSE {}
          /\ UNCHANGED <<emitted, closed>> /\ c \in job[g].targets
          /\ Send(c, job[g].event)
      BY <2>0, <2>7 DEF SendTo, TypeOK, Jobs
    <3>2. job[g].event \in DOMAIN emitted /\ Matches(c, job[g].event)
      BY <2>0, <2>3, <3>1
    <3>3. Revokes(job[g].event) => closed'[c] \/ Told(c)'
      BY <3>1, <3>2, SentIsTold
    <3>4. \A d \in job'[g].closing : closed'[d] \/ Told(d)'
      BY <3>1, <3>3
    <3>5. \A d \in job'[g].targets :
            job'[g].stage = "send" /\ Matches(d, job[g].event)'
      BY <2>0, <3>1 DEF Matches
    <3> QED
      BY <3>4, <3>5
  <2>8. ASSUME NEW c \in Clients, Close(g, c)
        PROVE  /\ \A d \in job'[g].targets :
                    job'[g].stage = "send" /\ Matches(d, job[g].event)'
               /\ \A d \in job'[g].closing : closed'[d] \/ Told(d)'
    <3>1. /\ job'[g].stage = job[g].stage /\ job'[g].event = job[g].event
          /\ job'[g].targets = job[g].targets /\ job'[g].closing = {}
          /\ UNCHANGED emitted
      BY <2>0, <2>8 DEF Close, TypeOK, Jobs
    <3> QED
      BY <2>0, <3>1 DEF Matches
  <2> QED
    BY <2>4, <2>5, <2>6, <2>7, <2>8, StepOnJob
<1> QED
  BY <1>1, <1>2 DEF ToldInv, RevokedIsTold, ClosersHaveTold

\* A client the server disconnects has been sent the reason first, whoever else
\* sends to it or disconnects it at the same time.
THEOREM RevokedTold == Spec => []RevokedIsTold
<1>1. Init => TypeOK /\ ToldInv
  BY TypeInit, ToldInit
<1>2. TypeOK /\ ToldInv /\ [Next]_vars => (TypeOK /\ ToldInv)'
  BY TypeStep, ToldStep
<1>3. ToldInv => RevokedIsTold
  BY DEF ToldInv
<1> QED
  BY <1>1, <1>2, <1>3, PTL DEF Spec

----------------------------------------------------------------------------
(* The order of events *)

\* Of one sender's events the earlier, or f is one that may come late or again.
Before(e, f) == emitted[e].from = emitted[f].from => e < f \/ f \in unanswered

\* The events client c has got or has in its channel.
Has(c) == ({got[c][i] : i \in DOMAIN got[c]} \cup {queue[c][i] : i \in DOMAIN queue[c]})
            \ {Reply}
OnWire(n) == {wire[n][i] : i \in DOMAIN wire[n]}

Sending(g) == job[g].stage # "idle"

\* Goroutine g has yet to give its event to client c.
WillGive(g, c) ==
  \/ job[g].stage = "select" /\ HubOf(g) = NodeOf[c]
  \/ c \in job[g].targets

\* What client c has from the workers of other nodes is older than what waits for
\* it on its node's wire, that is older than what the worker is sending now, and a
\* goroutine that has yet to give c its event has given it no later one.  What a
\* worker is sending was not published yet, and is newer than all that was.
Given1(g, c) == WillGive(g, c) => \A e \in Has(c) : Before(e, job[g].event)
Wire1(c) == \A e \in Has(c), f \in OnWire(NodeOf[c]) :
              NodeOf[emitted[e].from] # NodeOf[c] => Before(e, f)
WireInOrder(n) ==
  \A i, j \in DOMAIN wire[n] : i < j => Before(wire[n][i], wire[n][j])
Relay(n) ==
  Sending(n) => /\ NodeOf[emitted[job[n].event].from] # n
                /\ \A f \in OnWire(n) : Before(job[n].event, f)
Newest(w) ==
  Sending(w) =>
    /\ emitted[job[w].event].from = w
    /\ job[w].event \notin unanswered
    /\ \A e \in unanswered : Before(e, job[w].event)
    /\ \A n \in Nodes : \A e \in OnWire(n) : Before(e, job[w].event)
    /\ \A n \in Nodes : Sending(n) => Before(job[n].event, job[w].event)
    /\ \A c \in Clients : NodeOf[c] # NodeOf[w] => \A e \in Has(c) : Before(e, job[w].event)

ChainInv ==
  /\ \A c \in Clients : Has(c) \subseteq DOMAIN emitted /\ Wire1(c)
  /\ \A g \in Goroutines, c \in Clients : Given1(g, c)
  /\ \A g \in Goroutines : \A c \in job[g].targets :
       job[g].stage = "send" /\ NodeOf[c] = HubOf(g)
  /\ \A n \in Nodes : Relay(n) /\ WireInOrder(n)
  /\ \A w \in Workers : Newest(w)

LEMMA ChainInit == Init => ChainInv
BY DEF Init, ChainInv, Has, OnWire, Wire1, Given1, WillGive, Relay, Newest, Sending, WireInOrder,
       Idle, Doing

\* Two goroutines never give one client events of the same sender.
LEMMA OneGoroutinePerSender ==
  ASSUME TypeOK, ChainInv, NEW g \in Goroutines, NEW h \in Goroutines, g # h,
         Sending(g), Sending(h), HubOf(g) = HubOf(h)
  PROVE  emitted[job[g].event].from # emitted[job[h].event].from
<1>1. ASSUME NEW k \in Goroutines, Sending(k)
      PROVE  \/ k \in Workers /\ emitted[job[k].event].from = k /\ HubOf(k) = NodeOf[k]
             \/ k \in Nodes /\ NodeOf[emitted[job[k].event].from] # k /\ HubOf(k) = k
  BY <1>1 DEF ChainInv, Newest, Relay, HubOf
<1>2. /\ \/ g \in Workers /\ emitted[job[g].event].from = g /\ HubOf(g) = NodeOf[g]
         \/ g \in Nodes /\ NodeOf[emitted[job[g].event].from] # g /\ HubOf(g) = g
      /\ \/ h \in Workers /\ emitted[job[h].event].from = h /\ HubOf(h) = NodeOf[h]
         \/ h \in Nodes /\ NodeOf[emitted[job[h].event].from] # h /\ HubOf(h) = h
  BY <1>1
<1> QED
  BY <1>2

\* A send adds its event to one client at most, taking adds nothing.
LEMMA HasAfterSend ==
  ASSUME TypeOK, NEW c \in Clients, NEW e \in Positions \cup {Reply}, Send(c, e),
         UNCHANGED got, NEW d \in Clients
  PROVE  \A x \in Has(d)' : x \in Has(d) \/ (d = c /\ x = e)
<1>1. queue[c] \in Seq(Positions \cup {Reply})
  BY DEF TypeOK
<1>2. queue'[d] = queue[d] \/ (d = c /\ queue'[d] = Append(queue[c], e))
  BY DEF Send, TypeOK
<1>3. CASE queue'[d] = queue[d]
  BY <1>3 DEF Has
<1>4. CASE d = c /\ queue'[d] = Append(queue[c], e)
  <2>1. \A i \in DOMAIN queue'[d] :
          queue'[d][i] = e \/ (i \in DOMAIN queue[d] /\ queue'[d][i] = queue[d][i])
    BY <1>1, <1>4, AppendElements
  <2> QED
    BY <1>4, <2>1 DEF Has
<1> QED
  BY <1>2, <1>3, <1>4

LEMMA HasAfterTake ==
  ASSUME TypeOK, NEW c \in Clients, Took(c), NEW d \in Clients
  PROVE  Has(d)' \subseteq Has(d)
<1>1. queue[c] \in Seq(Positions \cup {Reply}) /\ queue[c] # <<>> /\ got[c] \in Seq(Positions)
  BY DEF TypeOK, Took
<1>2. CASE d # c
  <2>1. queue'[d] = queue[d] /\ got'[d] = got[d]
    BY <1>2 DEF Took, TypeOK
  <2> QED
    BY <2>1 DEF Has
<1>3. CASE d = c
  <2>1. queue'[c] = Tail(queue[c])
    BY DEF Took, TypeOK
  <2>2. \A i \in DOMAIN queue'[c] :
          i + 1 \in DOMAIN queue[c] /\ queue'[c][i] = queue[c][i + 1]
    BY <1>1, <2>1, TailElements
  <2>3. Head(queue[c]) = queue[c][1] /\ 1 \in DOMAIN queue[c]
    BY <1>1, TailElements
  <2>4. \/ got'[c] = got[c]
        \/ got'[c] = Append(got[c], Head(queue[c])) /\ Head(queue[c]) \in Positions
    <3>1. Head(queue[c]) \in Positions \cup {Reply}
      BY <1>1, TailTyped
    <3> QED
      BY <3>1 DEF Took, TypeOK
  <2>5. \A i \in DOMAIN got'[c] :
          \/ got'[c][i] = Head(queue[c])
          \/ i \in DOMAIN got[c] /\ got'[c][i] = got[c][i]
    BY <1>1, <2>4, AppendElements
  <2> QED
    BY <1>3, <2>2, <2>3, <2>5 DEF Has
<1> QED
  BY <1>2, <1>3

\* While nothing is published and no job starts, less of the same stays in order.
LEMMA ChainKept ==
  ASSUME ChainInv, UNCHANGED <<emitted, wire, unanswered>>,
         \A c \in Clients : Has(c)' \subseteq Has(c),
         \A g \in Goroutines :
           \/ job'[g].stage = "idle" /\ job'[g].targets = {}
           \/ /\ job[g].stage # "idle"
              /\ job'[g].event = job[g].event
              /\ job'[g].stage \in {job[g].stage, "send"}
              /\ job'[g].targets \subseteq job[g].targets \cup
                   {c \in Clients : job[g].stage = "select" /\ NodeOf[c] = HubOf(g)}
              /\ job'[g].targets # {} => job'[g].stage = "send"
           \/ job'[g] = job[g]
  PROVE  ChainInv'
<1> DEFINE Same(g) == /\ job[g].stage # "idle"
                      /\ job'[g].event = job[g].event
<1>1. \A g \in Goroutines : Sending(g)' => Same(g)
  BY DEF Sending
<1>2. \A g \in Goroutines, c \in Clients : WillGive(g, c)' => WillGive(g, c)
  BY DEF WillGive, HubOf, ChainInv
<1>3. \A e, f : Before(e, f)' <=> Before(e, f)
  BY DEF Before
<1>4. \A g \in Goroutines, c \in Clients :
        WillGive(g, c)' => job'[g].event = job[g].event
  BY DEF WillGive
<1>5. \A g \in Goroutines, c \in Clients : Given1(g, c)'
  BY <1>2, <1>3, <1>4 DEF Given1, ChainInv
<1>6. \A c \in Clients : Has(c)' \subseteq DOMAIN emitted' /\ Wire1(c)'
  BY <1>3 DEF Wire1, ChainInv, OnWire
<1>7. \A g \in Goroutines : \A c \in job'[g].targets :
        job'[g].stage = "send" /\ NodeOf[c] = HubOf(g)
  BY DEF ChainInv
<1>8. ASSUME NEW n \in Nodes
      PROVE  Relay(n)' /\ WireInOrder(n)'
  <2>1. WireInOrder(n) /\ Relay(n)
    BY DEF ChainInv
  <2>2. OnWire(n)' = OnWire(n)
    BY DEF OnWire
  <2>3. Sending(n)' => Sending(n) /\ job'[n].event = job[n].event
    BY <1>1 DEF Sending
  <2>4. Relay(n)'
    BY <1>3, <2>1, <2>2, <2>3 DEF Relay
  <2>5. WireInOrder(n)'
    BY <1>3, <2>1 DEF WireInOrder
  <2> QED
    BY <2>4, <2>5
<1>9. ASSUME NEW w \in Workers
      PROVE  Newest(w)'
  <2>1. Newest(w)
    BY DEF ChainInv
  <2>2. \A n \in Nodes : OnWire(n)' = OnWire(n)
    BY DEF OnWire
  <2>3. \A g \in Goroutines : Sending(g)' => Sending(g) /\ job'[g].event = job[g].event
    BY <1>1 DEF Sending
  <2> QED
    BY <1>3, <2>1, <2>2, <2>3 DEF Newest
<1> QED
  BY <1>5, <1>6, <1>7, <1>8, <1>9 DEF ChainInv, HubOf

LEMMA ChainStart ==
  ASSUME TypeOK, ChainInv, NEW w \in Workers, NEW event \in WireEvents, event.from = w,
         Start(w, event)
  PROVE  ChainInv'
<1> DEFINE new == Len(emitted) + 1
<1>1. /\ emitted \in Seq(WireEvents) /\ DOMAIN emitted = 1..Len(emitted)
      /\ Len(emitted) \in Nat /\ emitted' = Append(emitted, event)
  BY DEF TypeOK, Start
<1>2. /\ \A e \in DOMAIN emitted : e < new /\ e \in DOMAIN emitted' /\ emitted'[e] = emitted[e]
      /\ emitted'[new] = event
  BY <1>1, AppendElements
<1>3. /\ UNCHANGED <<wire, unanswered>> /\ unanswered \subseteq DOMAIN emitted
      /\ \A c \in Clients : Has(c)' = Has(c)
      /\ \A n \in Nodes : OnWire(n)' = OnWire(n)
  BY DEF Start, clientVars, writerVars, redisVars, Has, OnWire, TypeOK
<1>4. \A g \in Goroutines : IF g = w THEN job'[g] = Select(new) ELSE job'[g] = job[g]
  BY DEF Start, TypeOK
<1>5. /\ Select(new).event = new /\ Select(new).targets = {}
      /\ Select(new).stage = "select"
  BY DEF Select, Doing
<1>6. /\ \A e, f \in DOMAIN emitted : Before(e, f)' <=> Before(e, f)
      /\ \A e \in DOMAIN emitted : e < new
      /\ new \notin unanswered
  <2>1. new \notin DOMAIN emitted
    BY <1>1
  <2> HIDE DEF new
  <2> QED
    BY <1>2, <1>3, <2>1 DEF Before
<1>7. /\ \A n \in Nodes : OnWire(n) \subseteq DOMAIN emitted
      /\ \A c \in Clients : Has(c) \subseteq DOMAIN emitted
      /\ \A g \in Goroutines : Sending(g) => job[g].event \in DOMAIN emitted
  BY DEF OnWire, TypeOK, ChainInv, Sending
<1>8. \A g \in Goroutines \ {w} : /\ job'[g] = job[g]
                                  /\ Sending(g)' <=> Sending(g)
                                  /\ \A c \in Clients : WillGive(g, c)' <=> WillGive(g, c)
  BY <1>4 DEF Sending, WillGive, HubOf
<1>9. job'[w].event = new /\ job'[w].targets = {}
  BY <1>4, <1>5
<1>10. \A n \in Nodes : n # w
  OBVIOUS
<1> HIDE DEF new
<1>11. ASSUME NEW c \in Clients
       PROVE  Has(c)' \subseteq DOMAIN emitted' /\ Wire1(c)'
  <2>1. Has(c) \subseteq DOMAIN emitted /\ Wire1(c)
    BY DEF ChainInv
  <2>2. OnWire(NodeOf[c])' = OnWire(NodeOf[c]) /\ OnWire(NodeOf[c]) \subseteq DOMAIN emitted
    BY <1>3, <1>7
  <2>3. \A e \in Has(c), f \in OnWire(NodeOf[c]) :
          /\ e \in DOMAIN emitted /\ f \in DOMAIN emitted
          /\ emitted'[e] = emitted[e]
    BY <1>2, <2>1, <2>2
  <2> QED
    BY <1>2, <1>3, <1>6, <2>1, <2>2, <2>3 DEF Wire1
<1>12. ASSUME NEW g \in Goroutines, NEW c \in Clients, WillGive(g, c)',
              NEW e \in Has(c)
       PROVE  Before(e, job[g].event)'
  <2>1. e \in DOMAIN emitted
    BY <1>7
  <2>2. CASE g = w
    BY <1>6, <1>9, <2>1, <2>2 DEF Before
  <2>3. CASE g # w
    <3>1. WillGive(g, c) /\ job'[g].event = job[g].event /\ Sending(g)
      BY <1>8, <1>12, <2>3 DEF ChainInv, WillGive, Sending
    <3>2. Before(e, job[g].event)
      BY <3>1 DEF ChainInv, Given1
    <3> QED
      BY <1>6, <1>7, <2>1, <3>1, <3>2 DEF Before
  <2> QED
    BY <2>2, <2>3
<1>13. \A g \in Goroutines, c \in Clients : Given1(g, c)'
  BY <1>3, <1>12 DEF Given1
<1>14. \A g \in Goroutines : \A c \in job'[g].targets :
         job'[g].stage = "send" /\ NodeOf[c] = HubOf(g)
  BY <1>8, <1>9 DEF ChainInv
<1>15. ASSUME NEW n \in Nodes
       PROVE  Relay(n)' /\ WireInOrder(n)'
  <2>1. Relay(n) /\ WireInOrder(n) /\ job'[n] = job[n] /\ (Sending(n)' <=> Sending(n))
    BY <1>8, <1>10 DEF ChainInv
  <2>2. Relay(n)'
    <3> SUFFICES ASSUME Sending(n)
                 PROVE  /\ NodeOf[emitted'[job[n].event].from] # n
                        /\ \A f \in OnWire(n) : Before(job[n].event, f)'
      BY <1>3, <2>1 DEF Relay, Before
    <3>1. job[n].event \in DOMAIN emitted
      BY <1>7
    <3> QED
      BY <1>2, <1>6, <1>7, <2>1, <3>1 DEF Relay, Before
  <2>3. WireInOrder(n)'
    <3>1. \A i \in DOMAIN wire[n] : wire[n][i] \in DOMAIN emitted
      BY DEF TypeOK
    <3> QED
      BY <1>3, <1>6, <2>1, <3>1 DEF WireInOrder, Before
  <2> QED
    BY <2>2, <2>3
<1>16. ASSUME NEW v \in Workers, Sending(v)'
       PROVE  /\ emitted'[job'[v].event].from = v
              /\ job'[v].event \notin unanswered
              /\ \A e \in unanswered : Before(e, job[v].event)'
              /\ \A n \in Nodes : \A e \in OnWire(n) : Before(e, job[v].event)'
              /\ \A n \in Nodes : Sending(n)' => Before(job[n].event, job[v].event)'
              /\ \A c \in Clients : NodeOf[c] # NodeOf[v] =>
                   \A e \in Has(c) : Before(e, job[v].event)'
  <2>1. \A n \in Nodes : /\ job'[n] = job[n] /\ (Sending(n)' <=> Sending(n))
                         /\ Sending(n) => job[n].event \in DOMAIN emitted
    BY <1>7, <1>8, <1>10
  <2>2. CASE v = w
    <3>1. job'[v].event = new
      BY <1>9, <2>2
    <3>2. \A e \in DOMAIN emitted : Before(e, job[v].event)'
      BY <1>6, <3>1 DEF Before
    <3>3. \A n \in Nodes : Sending(n)' => Before(job[n].event, job[v].event)'
      BY <2>1, <1>6, <3>1 DEF Before
    <3> QED
      BY <1>2, <1>3, <1>6, <1>7, <2>2, <3>1, <3>2, <3>3
  <2>3. CASE v # w
    <3>1. Newest(v) /\ Sending(v) /\ job'[v] = job[v] /\ job[v].event \in DOMAIN emitted
      BY <1>7, <1>8, <1>16, <2>3 DEF ChainInv
    <3> QED
      BY <1>2, <1>3, <1>6, <1>7, <2>1, <3>1 DEF Newest, Before
  <2> QED
    BY <2>2, <2>3
<1>17. \A v \in Workers : Newest(v)'
  BY <1>3, <1>16 DEF Newest
<1> QED
  BY <1>11, <1>13, <1>14, <1>15, <1>17 DEF ChainInv, HubOf

LEMMA ChainSend ==
  ASSUME TypeOK, ChainInv, NEW g \in Goroutines, NEW c \in Clients, SendTo(g, c)
  PROVE  ChainInv'
<1> DEFINE new == job[g].event
<1>1. /\ c \in job[g].targets /\ Sending(g) /\ NodeOf[c] = HubOf(g) /\ job[g].stage = "send"
      /\ UNCHANGED <<emitted, wire, unanswered>>
  BY DEF SendTo, ChainInv, Sending, redisVars
<1>2. new \in DOMAIN emitted /\ new \in Positions
  <2>1. new \in DOMAIN emitted
    BY <1>1 DEF TypeOK, Sending
  <2>2. emitted \in Seq(WireEvents) /\ Len(emitted) <= MaxEvents
    BY DEF TypeOK
  <2> QED
    BY <2>1, <2>2
<1>3. \A d \in Clients : \A x \in Has(d)' : x \in Has(d) \/ (d = c /\ x = new)
  BY <1>2, HasAfterSend DEF SendTo, writerVars
<1>4. job[g] \in Jobs
  BY DEF TypeOK
<1>5. /\ job'[g].stage = "send" /\ job'[g].event = new /\ job'[g].targets = job[g].targets \ {c}
      /\ \A h \in Goroutines \ {g} : job'[h] = job[h]
  BY <1>1, <1>4 DEF SendTo, TypeOK, Jobs
<1>6. \A h \in Goroutines : /\ job'[h].event = job[h].event
                            /\ Sending(h)' <=> Sending(h)
                            /\ job'[h].targets \subseteq job[h].targets
                            /\ job'[h].stage = job[h].stage
  BY <1>1, <1>5 DEF Sending
<1>7. \A e, f : Before(e, f)' <=> Before(e, f)
  BY <1>1 DEF Before
<1>8. \A n \in Nodes : OnWire(n)' = OnWire(n)
  BY <1>1 DEF OnWire
<1>9. \/ g \in Workers /\ emitted[new].from = g /\ HubOf(g) = NodeOf[g]
      \/ /\ g \in Nodes /\ HubOf(g) = g /\ NodeOf[emitted[new].from] # g
         /\ \A f \in OnWire(g) : Before(new, f)
         /\ \A w \in Workers : Sending(w) => Before(new, job[w].event)
  BY <1>1 DEF ChainInv, Newest, Relay, HubOf
<1> HIDE DEF new
<1>10. ASSUME NEW h \in Goroutines, NEW d \in Clients, WillGive(h, d)', NEW e \in Has(d)'
       PROVE  Before(e, job[h].event)
  <2>1. WillGive(h, d)
    BY <1>6, <1>10 DEF WillGive, HubOf
  <2>2. CASE e \in Has(d)
    BY <2>1, <2>2 DEF ChainInv, Given1
  <2>3. CASE d = c /\ e = new
    <3>1. h # g
      BY <1>5, <1>10, <2>3 DEF WillGive
    <3>2. Sending(h) /\ HubOf(h) = HubOf(g)
      BY <1>1, <2>1, <2>3 DEF WillGive, ChainInv, Sending
    <3>3. emitted[job[g].event].from # emitted[job[h].event].from
      BY <1>1, <3>1, <3>2, OneGoroutinePerSender
    <3> QED
      BY <2>3, <3>3 DEF Before, new
  <2> QED
    BY <1>3, <2>2, <2>3
<1>11. \A h \in Goroutines, d \in Clients : Given1(h, d)'
  BY <1>6, <1>7, <1>10 DEF Given1
<1>12. ASSUME NEW d \in Clients
       PROVE  Has(d)' \subseteq DOMAIN emitted' /\ Wire1(d)'
  <2>1. Has(d) \subseteq DOMAIN emitted /\ Wire1(d)
    BY DEF ChainInv
  <2>2. Has(d)' \subseteq DOMAIN emitted'
    BY <1>1, <1>2, <1>3, <2>1
  <2>3. ASSUME NEW e \in Has(d)', NEW f \in OnWire(NodeOf[d]),
               NodeOf[emitted[e].from] # NodeOf[d]
        PROVE  Before(e, f)
    <3>1. CASE e \in Has(d)
      BY <2>1, <2>3, <3>1 DEF Wire1
    <3>2. CASE d = c /\ e = new
      BY <1>1, <1>9, <2>3, <3>2
    <3> QED
      BY <1>3, <3>1, <3>2
  <2>4. OnWire(NodeOf[d])' = OnWire(NodeOf[d])
    BY <1>8
  <2>5. Wire1(d)'
    BY <1>1, <1>7, <2>3, <2>4 DEF Wire1
  <2> QED
    BY <2>2, <2>5
<1>13. \A h \in Goroutines : \A d \in job'[h].targets :
         job'[h].stage = "send" /\ NodeOf[d] = HubOf(h)
  BY <1>6 DEF ChainInv
<1>14. ASSUME NEW n \in Nodes
       PROVE  Relay(n)' /\ WireInOrder(n)'
  <2>1. Relay(n) /\ WireInOrder(n)
    BY DEF ChainInv
  <2>2. Relay(n)'
    BY <1>1, <1>6, <1>7, <1>8, <2>1 DEF Relay
  <2>3. WireInOrder(n)'
    BY <1>1, <1>7, <2>1 DEF WireInOrder
  <2> QED
    BY <2>2, <2>3
<1>15. ASSUME NEW w \in Workers
       PROVE  Newest(w)'
  <2>1. Newest(w)
    BY DEF ChainInv
  <2>2. ASSUME Sending(w), NEW d \in Clients, NodeOf[d] # NodeOf[w], NEW e \in Has(d)'
        PROVE  Before(e, job[w].event)
    <3>1. CASE e \in Has(d)
      BY <2>1, <2>2, <3>1 DEF Newest
    <3>2. CASE d = c /\ e = new
      <4>1. g # w
        BY <1>1, <2>2, <3>2 DEF HubOf
      <4>2. emitted[job[w].event].from = w
        BY <2>1, <2>2 DEF Newest
      <4> QED
        BY <1>9, <2>2, <3>2, <4>1, <4>2 DEF Before
    <3> QED
      BY <1>3, <3>1, <3>2
  <2> QED
    BY <1>1, <1>6, <1>7, <1>8, <2>1, <2>2 DEF Newest
<1> QED
  BY <1>11, <1>12, <1>13, <1>14, <1>15 DEF ChainInv, HubOf

\* What a broadcast adds to a node's wire, and how the wire stays in order.
LEMMA BroadcastOnWires ==
  ASSUME TypeOK, NEW e \in DOMAIN emitted, Broadcast(e), NEW n \in Nodes
  PROVE  /\ \A f \in OnWire(n)' : f \in OnWire(n) \/ f = e
         /\ WireInOrder(n) /\ (\A f \in OnWire(n) : Before(f, e)) =>
              \A i, j \in DOMAIN wire'[n] : i < j => Before(wire'[n][i], wire'[n][j])
<1>1. PICK subscribers \in SUBSET Nodes :
        wire' = [m \in Nodes |-> IF m \in subscribers THEN Append(wire[m], e) ELSE wire[m]]
  BY DEF Broadcast
<1>2. wire[n] \in Seq(Positions) /\ e \in Positions
  <2>1. emitted \in Seq(WireEvents) /\ Len(emitted) <= MaxEvents
    BY DEF TypeOK
  <2> QED
    BY <2>1 DEF TypeOK
<1>3. wire'[n] = wire[n] \/ wire'[n] = Append(wire[n], e)
  BY <1>1
<1>4. CASE wire'[n] = wire[n]
  BY <1>4 DEF OnWire, WireInOrder
<1>5. CASE wire'[n] = Append(wire[n], e)
  <2>1. /\ Len(wire[n]) \in Nat /\ DOMAIN wire[n] = 1..Len(wire[n])
        /\ DOMAIN wire'[n] = 1..(Len(wire[n]) + 1)
        /\ \A i \in DOMAIN wire[n] : wire'[n][i] = wire[n][i] /\ wire[n][i] \in OnWire(n)
        /\ wire'[n][Len(wire[n]) + 1] = e
    BY <1>2, <1>5 DEF OnWire
  <2>2. \A i \in DOMAIN wire'[n] : i \in DOMAIN wire[n] \/ wire'[n][i] = e
    BY <2>1
  <2>3. \A f \in OnWire(n)' : f \in OnWire(n) \/ f = e
    BY <2>1, <2>2 DEF OnWire
  <2>4. ASSUME WireInOrder(n), \A f \in OnWire(n) : Before(f, e),
               NEW i \in DOMAIN wire'[n], NEW j \in DOMAIN wire'[n], i < j
        PROVE  Before(wire'[n][i], wire'[n][j])
    <3>1. i \in DOMAIN wire[n]
      BY <2>1, <2>4
    <3>2. CASE j \in DOMAIN wire[n]
      BY <2>1, <2>4, <3>1, <3>2 DEF WireInOrder
    <3>3. CASE j = Len(wire[n]) + 1
      BY <2>1, <2>4, <3>1, <3>3
    <3> QED
      BY <2>1, <3>2, <3>3
  <2> QED
    BY <2>3, <2>4
<1> QED
  BY <1>3, <1>4, <1>5

LEMMA ChainPublish ==
  ASSUME TypeOK, ChainInv, NEW w \in Workers, Publish(w)
  PROVE  ChainInv'
<1> DEFINE new == job[w].event
<1>1. /\ Sending(w) /\ job[w].targets = {} /\ Newest(w)
      /\ UNCHANGED emitted /\ \A c \in Clients : Has(c)' = Has(c)
  BY DEF Publish, Sent, Sending, ChainInv, clientVars, writerVars, Has
<1>2. /\ job'[w].stage = "idle" /\ job'[w].targets = {}
      /\ \A g \in Goroutines \ {w} : job'[g] = job[g]
  BY DEF Publish, TypeOK, Idle, Doing
<1>3. new \in DOMAIN emitted
  BY <1>1 DEF TypeOK, Sending
<1>4. /\ Broadcast(new) \/ UNCHANGED wire
      /\ unanswered' = unanswered \/ unanswered' = unanswered \cup {new}
  BY DEF Publish
<1>5. \A e, f : Before(e, f) => Before(e, f)'
  BY <1>1, <1>4 DEF Before
<1>6. \A n \in Nodes : \A f \in OnWire(n)' : f \in OnWire(n) \/ f = new
  BY <1>3, <1>4, BroadcastOnWires DEF OnWire
<1>7. /\ emitted[new].from = w
      /\ \A n \in Nodes : \A e \in OnWire(n) : Before(e, new)
      /\ \A n \in Nodes : Sending(n) => Before(job[n].event, new)
      /\ \A c \in Clients : NodeOf[c] # NodeOf[w] => \A e \in Has(c) : Before(e, new)
  BY <1>1 DEF Newest
<1>8. /\ \A g \in Goroutines : Sending(g)' => Sending(g) /\ g # w /\ job'[g] = job[g]
      /\ \A g \in Goroutines, c \in Clients :
           WillGive(g, c)' => WillGive(g, c) /\ job'[g] = job[g]
  BY <1>2 DEF Sending, WillGive, HubOf
<1>9. \A v \in Workers : v # w /\ Sending(v) => ~(emitted[job[v].event].from = w)
  BY DEF ChainInv, Newest
<1> HIDE DEF new
<1>10. \A g \in Goroutines, c \in Clients : Given1(g, c)'
  BY <1>1, <1>5, <1>8 DEF Given1, ChainInv
<1>11. ASSUME NEW c \in Clients
       PROVE  Has(c)' \subseteq DOMAIN emitted' /\ Wire1(c)'
  <2>1. Has(c) \subseteq DOMAIN emitted /\ Wire1(c)
    BY DEF ChainInv
  <2>2. ASSUME NEW e \in Has(c), NEW f \in OnWire(NodeOf[c])',
               NodeOf[emitted[e].from] # NodeOf[c]
        PROVE  Before(e, f)
    <3>1. CASE f \in OnWire(NodeOf[c])
      BY <2>1, <2>2, <3>1 DEF Wire1
    <3>2. CASE f = new
      BY <1>7, <2>2, <3>2 DEF Before
    <3> QED
      BY <1>6, <3>1, <3>2
  <2>3. Wire1(c)'
    BY <1>1, <1>5, <2>2 DEF Wire1
  <2> QED
    BY <1>1, <2>1, <2>3
<1>12. \A g \in Goroutines : \A c \in job'[g].targets :
         job'[g].stage = "send" /\ NodeOf[c] = HubOf(g)
  BY <1>2 DEF ChainInv
<1>13. ASSUME NEW n \in Nodes
       PROVE  Relay(n)' /\ WireInOrder(n)'
  <2>1. Relay(n) /\ WireInOrder(n)
    BY DEF ChainInv
  <2>2. Relay(n)'
    BY <1>1, <1>5, <1>6, <1>7, <1>8, <2>1 DEF Relay
  <2>3. \A i, j \in DOMAIN wire'[n] : i < j => Before(wire'[n][i], wire'[n][j])
    BY <1>3, <1>4, <1>7, <2>1, BroadcastOnWires DEF WireInOrder
  <2> QED
    BY <1>5, <2>2, <2>3 DEF WireInOrder
<1>14. ASSUME NEW v \in Workers
       PROVE  Newest(v)'
  <2>1. Newest(v)
    BY DEF ChainInv
  <2>2. ASSUME Sending(v)'
        PROVE  Before(new, job[v].event) /\ job[v].event # new
    BY <1>7, <1>8, <1>9, <2>2 DEF Before
  <2> QED
    BY <1>1, <1>4, <1>5, <1>6, <1>8, <2>1, <2>2 DEF Newest
<1> QED
  BY <1>10, <1>11, <1>12, <1>13, <1>14 DEF ChainInv, HubOf

LEMMA ChainExecute ==
  ASSUME TypeOK, ChainInv, NEW e \in Positions, Execute(e)
  PROVE  ChainInv'
<1>1. /\ UNCHANGED <<emitted, job, unanswered>> /\ Broadcast(e)
      /\ \A c \in Clients : Has(c)' = Has(c)
  BY DEF Execute, clientVars, writerVars, Has
<1>2. e \in unanswered /\ e \in DOMAIN emitted
  BY DEF Execute, TypeOK
<1>3. /\ \A x, f : Before(x, f)' <=> Before(x, f)
      /\ \A x : Before(x, e)
      /\ \A n \in Nodes : \A f \in OnWire(n)' : f \in OnWire(n) \/ f = e
  BY <1>1, <1>2, BroadcastOnWires DEF Before
<1>4. \A g \in Goroutines, c \in Clients : Given1(g, c)'
  BY <1>1, <1>3 DEF Given1, WillGive, HubOf, ChainInv
<1>5. \A c \in Clients : Has(c)' \subseteq DOMAIN emitted' /\ Wire1(c)'
  BY <1>1, <1>3 DEF Wire1, ChainInv
<1>6. ASSUME NEW n \in Nodes
      PROVE  Relay(n)' /\ WireInOrder(n)'
  <2>1. Relay(n) /\ WireInOrder(n)
    BY DEF ChainInv
  <2>2. Relay(n)'
    BY <1>1, <1>3, <2>1 DEF Relay, Sending
  <2>3. \A i, j \in DOMAIN wire'[n] : i < j => Before(wire'[n][i], wire'[n][j])
    BY <1>1, <1>2, <1>3, <2>1, BroadcastOnWires
  <2> QED
    BY <1>3, <2>2, <2>3 DEF WireInOrder
<1>7. ASSUME NEW w \in Workers
      PROVE  Newest(w)'
  <2>1. Newest(w)
    BY DEF ChainInv
  <2> QED
    BY <1>1, <1>2, <1>3, <2>1 DEF Newest, Sending
<1> QED
  BY <1>1, <1>4, <1>5, <1>6, <1>7 DEF ChainInv, HubOf

LEMMA ChainConsume ==
  ASSUME TypeOK, ChainInv, NEW n \in Nodes, Consume(n)
  PROVE  ChainInv'
<1> DEFINE h == Head(wire[n])
<1>1. /\ wire[n] \in Seq(Positions) /\ wire[n] # <<>> /\ ~Sending(n)
      /\ UNCHANGED <<emitted, unanswered>> /\ \A c \in Clients : Has(c)' = Has(c)
  BY DEF Consume, TypeOK, Sending, Idle, Doing, clientVars, writerVars, Has
<1>2. /\ \A g \in Goroutines \ {n} : job'[g] = job[g]
      /\ \/ job'[n].stage = "idle" /\ job'[n].targets = {}
         \/ /\ job'[n].event = h /\ job'[n].targets = {}
            /\ NodeOf[emitted[h].from] # n
  BY DEF Consume, TypeOK, Idle, Select, Doing
<1>3. /\ wire'[n] = Tail(wire[n])
      /\ \A m \in Nodes \ {n} : wire'[m] = wire[m]
  BY DEF Consume, TypeOK
<1>4. /\ h = wire[n][1] /\ 1 \in DOMAIN wire[n]
      /\ \A i \in DOMAIN wire'[n] : i + 1 \in DOMAIN wire[n] /\ wire'[n][i] = wire[n][i + 1]
  BY <1>1, <1>3, TailElements
<1>5. /\ DOMAIN wire[n] \subseteq Nat /\ DOMAIN wire'[n] \subseteq Nat \ {0}
  <2>1. Tail(wire[n]) \in Seq(Positions)
    BY <1>1, TailTyped
  <2> QED
    BY <1>1, <1>3, <2>1
<1>6. h \in OnWire(n) /\ \A m \in Nodes : OnWire(m)' \subseteq OnWire(m)
  <2>1. h \in OnWire(n)
    BY <1>4 DEF OnWire
  <2>2. ASSUME NEW m \in Nodes PROVE OnWire(m)' \subseteq OnWire(m)
    <3>1. CASE m = n
      BY <1>4, <3>1 DEF OnWire
    <3>2. CASE m # n
      <4>1. wire'[m] = wire[m]
        BY <1>3, <3>2
      <4> QED
        BY <4>1 DEF OnWire
    <3> QED
      BY <3>1, <3>2
  <2> QED
    BY <2>1, <2>2
<1>7. \A f \in OnWire(n)' : Before(h, f)
  <2> SUFFICES ASSUME NEW i \in DOMAIN wire'[n]
               PROVE  Before(h, wire'[n][i])
    BY DEF OnWire
  <2>1. 1 < i + 1
    BY <1>5
  <2> QED
    BY <1>4, <2>1 DEF ChainInv, WireInOrder
<1>8. \A e, f : Before(e, f)' <=> Before(e, f)
  BY <1>1 DEF Before
<1>9. /\ \A g \in Goroutines \ {n} : /\ job'[g] = job[g]
                                     /\ Sending(g)' <=> Sending(g)
                                     /\ \A c \in Clients : WillGive(g, c)' <=> WillGive(g, c)
      /\ Sending(n)' => job'[n].event = h /\ NodeOf[emitted[h].from] # n
      /\ \A c \in Clients : WillGive(n, c)' => Sending(n)' /\ NodeOf[c] = n
      /\ \A m \in Workers : m # n
  BY <1>2 DEF Sending, WillGive, HubOf
<1> HIDE DEF h
<1>10. ASSUME NEW g \in Goroutines, NEW c \in Clients, WillGive(g, c)', NEW e \in Has(c)
       PROVE  Before(e, job'[g].event)
  <2>1. CASE g = n
    <3>1. NodeOf[c] = n /\ job'[g].event = h /\ NodeOf[emitted[h].from] # n
      BY <1>9, <1>10, <2>1
    <3> QED
      BY <1>6, <3>1 DEF ChainInv, Wire1, Before
  <2>2. CASE g # n
    BY <1>9, <1>10, <2>2 DEF ChainInv, Given1
  <2> QED
    BY <2>1, <2>2
<1>11. \A g \in Goroutines, c \in Clients : Given1(g, c)'
  BY <1>1, <1>8, <1>10 DEF Given1, Before
<1>12. \A c \in Clients : Has(c)' \subseteq DOMAIN emitted' /\ Wire1(c)'
  BY <1>1, <1>6, <1>8 DEF ChainInv, Wire1
<1>13. \A g \in Goroutines : \A c \in job'[g].targets :
         job'[g].stage = "send" /\ NodeOf[c] = HubOf(g)
  BY <1>2, <1>9 DEF ChainInv
<1>14. ASSUME NEW m \in Nodes
       PROVE  Relay(m)' /\ WireInOrder(m)'
  <2>1. Relay(m) /\ WireInOrder(m)
    BY DEF ChainInv
  <2>2. CASE m # n
    BY <1>1, <1>3, <1>6, <1>8, <1>9, <2>1, <2>2 DEF Relay, WireInOrder
  <2>3. CASE m = n
    <3>1. Relay(m)'
      BY <1>1, <1>7, <1>8, <1>9, <2>3 DEF Relay, Before
    <3>2. ASSUME NEW i \in DOMAIN wire'[n], NEW j \in DOMAIN wire'[n], i < j
          PROVE  Before(wire'[n][i], wire'[n][j])
      <4>1. i + 1 < j + 1
        BY <1>5, <3>2
      <4> QED
        BY <1>4, <2>1, <2>3, <4>1 DEF WireInOrder
    <3> QED
      BY <1>1, <2>3, <3>1, <3>2 DEF WireInOrder, Before
  <2> QED
    BY <2>2, <2>3
<1>15. ASSUME NEW w \in Workers
       PROVE  Newest(w)'
  <2>1. Newest(w) /\ job'[w] = job[w] /\ (Sending(w)' <=> Sending(w))
    BY <1>9 DEF ChainInv
  <2>2. ASSUME Sending(w), NEW m \in Nodes, Sending(m)'
        PROVE  Before(job'[m].event, job[w].event)
    <3>1. /\ \A k \in Nodes : Sending(k) => Before(job[k].event, job[w].event)
          /\ \A f \in OnWire(n) : Before(f, job[w].event)
      BY <2>1, <2>2 DEF Newest
    <3>2. CASE m = n
      BY <1>6, <1>9, <2>2, <3>1, <3>2
    <3>3. CASE m # n
      BY <1>9, <2>2, <3>1, <3>3
    <3> QED
      BY <3>2, <3>3
  <2> QED
    BY <1>1, <1>6, <1>8, <2>1, <2>2 DEF Newest, Before
<1> QED
  BY <1>11, <1>12, <1>13, <1>14, <1>15 DEF ChainInv, HubOf

LEMMA ChainStep == TypeOK /\ ChainInv /\ [Next]_vars => ChainInv'
<1> SUFFICES ASSUME TypeOK, ChainInv, [Next]_vars PROVE ChainInv'
  OBVIOUS
<1>1. ASSUME NEW w \in Workers, NEW a \in Accounts, NEW target \in Roles \cup {"admins"},
             Emit(w, target, a)
      PROVE  ChainInv'
  <2> DEFINE ev == [from |-> w, target |-> target, key |-> a, name |-> "event"]
  <2>1. ev \in WireEvents /\ ev.from = w /\ Start(w, ev)
    BY <1>1 DEF Emit, WireEvents
  <2> QED
    BY <2>1, ChainStart
<1>2. ASSUME NEW w \in Workers, NEW a \in Accounts, NEW role \in Roles, Revoke(w, role, a)
      PROVE  ChainInv'
  <2> DEFINE ev == [from |-> w, target |-> role, key |-> a, name |-> "session.revoked"]
  <2>1. ev \in WireEvents /\ ev.from = w /\ Start(w, ev)
    BY <1>2 DEF Revoke, WireEvents
  <2> QED
    BY <2>1, ChainStart
<1>3. ASSUME NEW g \in Goroutines, SelectTargets(g)
      PROVE  ChainInv'
  <2>1. /\ job[g] \in Jobs /\ job[g].stage = "select"
        /\ UNCHANGED <<emitted, wire, unanswered>>
        /\ \A c \in Clients : Has(c)' = Has(c)
    BY <1>3 DEF SelectTargets, TypeOK, clientVars, writerVars, redisVars, Has
  <2>2. /\ job'[g].stage = "send" /\ job'[g].event = job[g].event
        /\ job'[g].targets \subseteq {c \in Clients : NodeOf[c] = HubOf(g)}
        /\ \A k \in Goroutines \ {g} : job'[k] = job[k]
    BY <1>3, <2>1 DEF SelectTargets, TypeOK, Jobs, Registered
  <2> QED
    BY <2>1, <2>2, ChainKept
<1>4. ASSUME NEW g \in Goroutines, NEW c \in Clients, Close(g, c)
      PROVE  ChainInv'
  <2>1. /\ job[g] \in Jobs /\ UNCHANGED <<emitted, wire, unanswered>>
        /\ \A d \in Clients : Has(d)' = Has(d)
    BY <1>4 DEF Close, TypeOK, writerVars, redisVars, Has
  <2>2. /\ job'[g].stage = job[g].stage /\ job'[g].event = job[g].event
        /\ job'[g].targets = job[g].targets
        /\ \A k \in Goroutines \ {g} : job'[k] = job[k]
    BY <1>4, <2>1 DEF Close, TypeOK, Jobs
  <2>3. job[g].targets # {} => job[g].stage = "send"
    BY DEF ChainInv
  <2>4. job[g].stage = "idle" => job[g].targets = {}
    BY <2>3
  <2> QED
    BY <2>1, <2>2, <2>3, <2>4, ChainKept
<1>5. ASSUME NEW n \in Nodes, Delivered(n)
      PROVE  ChainInv'
  <2>1. /\ UNCHANGED <<emitted, wire, unanswered>> /\ \A d \in Clients : Has(d)' = Has(d)
        /\ job'[n].stage = "idle" /\ job'[n].targets = {}
        /\ \A k \in Goroutines \ {n} : job'[k] = job[k]
    BY <1>5 DEF Delivered, TypeOK, clientVars, writerVars, redisVars, Has, Idle, Doing
  <2> QED
    BY <2>1, ChainKept
<1>6. ASSUME NEW c \in Clients, ClientStep(c)
      PROVE  ChainInv'
  <2>1. UNCHANGED <<emitted, wire, unanswered, job>>
    BY <1>6 DEF ClientStep, Authorize, UpgradeFails, Register, Greet, Receive, Unregister,
                Write, WriteClose, WriteFails, redisVars
  <2>2. \/ UNCHANGED <<queue, got>>
        \/ Send(c, Reply) /\ UNCHANGED got
        \/ Took(c)
    BY <1>6 DEF ClientStep, Authorize, UpgradeFails, Register, Greet, Receive, Unregister,
                Write, WriteClose, WriteFails, Took, clientVars, writerVars
  <2>3. \A d \in Clients : Has(d)' \subseteq Has(d)
    <3>1. CASE UNCHANGED <<queue, got>>
      BY <3>1 DEF Has
    <3>2. CASE Send(c, Reply) /\ UNCHANGED got
      <4>1. \A d \in Clients : Reply \notin Has(d)'
        BY DEF Has
      <4> QED
        BY <3>2, <4>1, HasAfterSend
    <3>3. CASE Took(c)
      BY <3>3, HasAfterTake
    <3> QED
      BY <2>2, <3>1, <3>2, <3>3
  <2> QED
    BY <2>1, <2>3, ChainKept
<1>7. CASE UNCHANGED vars
  <2>1. UNCHANGED <<emitted, wire, unanswered, job>> /\ \A d \in Clients : Has(d)' = Has(d)
    BY <1>7 DEF vars, Has
  <2> QED
    BY <2>1, ChainKept
<1> QED
  BY <1>1, <1>2, <1>3, <1>4, <1>5, <1>6, <1>7, ChainSend, ChainPublish, ChainExecute,
     ChainConsume
  DEF Next, HubStep

\* Event f may come to client c after e.
Follows(c, e, f) == emitted[e].from = emitted[f].from => e < f \/ MayRepeat(c, f)

\* What client c got and what its channel holds, each and one after the other, is
\* in the order of sending, but for what came late or again over Redis.
InTurn(c) ==
  /\ \A i, j \in DOMAIN got[c] : i < j => Follows(c, got[c][i], got[c][j])
  /\ \A i, j \in DOMAIN queue[c] :
       i < j /\ queue[c][i] # Reply /\ queue[c][j] # Reply
         => Follows(c, queue[c][i], queue[c][j])
  /\ \A i \in DOMAIN got[c], j \in DOMAIN queue[c] :
       queue[c][j] # Reply => Follows(c, got[c][i], queue[c][j])

StreamInv == \A c \in Clients : InTurn(c)

LEMMA StreamKept ==
  ASSUME TypeOK, ChainInv, NEW d \in Clients, InTurn(d),
         got'[d] = got[d], queue'[d] = queue[d],
         \A e \in DOMAIN emitted : emitted'[e] = emitted[e],
         unanswered \subseteq unanswered'
  PROVE  InTurn(d)'
<1>1. /\ \A i \in DOMAIN got[d] : got[d][i] # Reply
      /\ Has(d) \subseteq DOMAIN emitted
  BY DEF TypeOK, ChainInv, Positions, Reply
<1>2. /\ \A i \in DOMAIN got[d] : got[d][i] \in DOMAIN emitted
      /\ \A i \in DOMAIN queue[d] : queue[d][i] # Reply => queue[d][i] \in DOMAIN emitted
  BY <1>1 DEF Has
<1>3. \A e, f \in DOMAIN emitted : Follows(d, e, f) => Follows(d, e, f)'
  BY DEF Follows, MayRepeat
<1> QED
  BY <1>2, <1>3 DEF InTurn, Follows, MayRepeat

LEMMA StreamSend ==
  ASSUME TypeOK, ChainInv, NEW c \in Clients, NEW e \in Positions \cup {Reply}, Send(c, e),
         InTurn(c), UNCHANGED <<got, emitted, unanswered>>,
         e # Reply => \A x \in Has(c) : Follows(c, x, e)
  PROVE  InTurn(c)'
<1>1. queue[c] \in Seq(Positions \cup {Reply}) /\ got[c] \in Seq(Positions)
  BY DEF TypeOK
<1>2. queue'[c] = queue[c] \/ queue'[c] = Append(queue[c], e)
  BY DEF Send, TypeOK
<1>3. CASE queue'[c] = queue[c]
  BY <1>3, StreamKept
<1>4. CASE queue'[c] = Append(queue[c], e)
  <2> DEFINE n == Len(queue[c])
  <2>1. /\ n \in Nat /\ DOMAIN queue[c] = 1..n /\ DOMAIN queue'[c] = 1..(n + 1)
        /\ \A i \in DOMAIN queue[c] : queue'[c][i] = queue[c][i]
        /\ queue'[c][n + 1] = e
    BY <1>1, <1>4
  <2> HIDE DEF n
  <2>2. ASSUME NEW i \in DOMAIN queue'[c], NEW j \in DOMAIN queue'[c], i < j,
               queue'[c][i] # Reply, queue'[c][j] # Reply
        PROVE  Follows(c, queue'[c][i], queue'[c][j])
    <3>1. i \in DOMAIN queue[c]
      BY <2>1, <2>2
    <3>2. CASE j \in DOMAIN queue[c]
      BY <2>1, <2>2, <3>1, <3>2 DEF InTurn
    <3>3. CASE j = n + 1
      <4>1. queue[c][i] \in Has(c)
        BY <2>1, <2>2, <3>1 DEF Has
      <4> QED
        BY <2>1, <2>2, <3>1, <3>3, <4>1
    <3> QED
      BY <2>1, <3>2, <3>3
  <2>3. ASSUME NEW i \in DOMAIN got[c], NEW j \in DOMAIN queue'[c], queue'[c][j] # Reply
        PROVE  Follows(c, got[c][i], queue'[c][j])
    <3>1. CASE j \in DOMAIN queue[c]
      BY <2>1, <2>3, <3>1 DEF InTurn
    <3>2. CASE j = n + 1
      <4>1. got[c][i] # Reply
        BY <1>1 DEF Positions, Reply
      <4>2. got[c][i] \in Has(c)
        BY <4>1 DEF Has
      <4> QED
        BY <2>1, <2>3, <3>2, <4>2
    <3> QED
      BY <2>1, <3>1, <3>2
  <2> QED
    BY <2>2, <2>3 DEF InTurn, Follows, MayRepeat
<1> QED
  BY <1>2, <1>3, <1>4

LEMMA StreamTake ==
  ASSUME TypeOK, ChainInv, NEW c \in Clients, Took(c), InTurn(c),
         UNCHANGED <<emitted, unanswered>>
  PROVE  InTurn(c)'
<1> DEFINE h == Head(queue[c])
<1>1. queue[c] \in Seq(Positions \cup {Reply}) /\ queue[c] # <<>> /\ got[c] \in Seq(Positions)
  BY DEF TypeOK, Took
<1>2. queue'[c] = Tail(queue[c])
  BY DEF Took, TypeOK
<1>3. /\ h = queue[c][1] /\ 1 \in DOMAIN queue[c]
      /\ \A i \in DOMAIN queue'[c] : i + 1 \in DOMAIN queue[c] /\ queue'[c][i] = queue[c][i + 1]
  BY <1>1, <1>2, TailElements
<1>4. DOMAIN queue'[c] \subseteq Nat \ {0}
  <2>1. Tail(queue[c]) \in Seq(Positions \cup {Reply})
    BY <1>1, TailTyped
  <2> QED
    BY <1>2, <2>1
<1>5. h \in Positions \cup {Reply}
  BY <1>1, TailTyped
<1>6. \/ got'[c] = got[c]
      \/ got'[c] = Append(got[c], h) /\ h \in Positions /\ h # Reply
  BY <1>5 DEF Took, TypeOK
<1> HIDE DEF h
<1>7. ASSUME NEW i \in DOMAIN queue'[c], NEW j \in DOMAIN queue'[c], i < j,
             queue'[c][i] # Reply, queue'[c][j] # Reply
      PROVE  Follows(c, queue'[c][i], queue'[c][j])
  <2>1. i + 1 < j + 1
    BY <1>4, <1>7
  <2> QED
    BY <1>3, <1>7, <2>1 DEF InTurn
<1>8. ASSUME NEW j \in DOMAIN queue'[c], queue'[c][j] # Reply, h # Reply
      PROVE  Follows(c, h, queue'[c][j])
  <2>1. 1 < j + 1
    BY <1>4
  <2> QED
    BY <1>3, <1>8, <2>1 DEF InTurn
<1>9. \A i \in DOMAIN got[c], j \in DOMAIN queue'[c] :
        queue'[c][j] # Reply => Follows(c, got[c][i], queue'[c][j])
  BY <1>3 DEF InTurn
<1>10. CASE got'[c] = got[c]
  BY <1>7, <1>9, <1>10 DEF InTurn, Follows, MayRepeat
<1>11. CASE got'[c] = Append(got[c], h) /\ h \in Positions /\ h # Reply
  <2> DEFINE n == Len(got[c])
  <2>1. /\ n \in Nat /\ DOMAIN got[c] = 1..n /\ DOMAIN got'[c] = 1..(n + 1)
        /\ \A i \in DOMAIN got[c] : got'[c][i] = got[c][i]
        /\ got'[c][n + 1] = h
    BY <1>1, <1>11
  <2> HIDE DEF n
  <2>2. ASSUME NEW i \in DOMAIN got'[c], NEW j \in DOMAIN got'[c], i < j
        PROVE  Follows(c, got'[c][i], got'[c][j])
    <3>1. i \in DOMAIN got[c]
      BY <2>1, <2>2
    <3>2. CASE j \in DOMAIN got[c]
      BY <2>1, <2>2, <3>1, <3>2 DEF InTurn
    <3>3. CASE j = n + 1
      BY <1>3, <1>11, <2>1, <3>1, <3>3 DEF InTurn
    <3> QED
      BY <2>1, <3>2, <3>3
  <2>3. ASSUME NEW i \in DOMAIN got'[c], NEW j \in DOMAIN queue'[c], queue'[c][j] # Reply
        PROVE  Follows(c, got'[c][i], queue'[c][j])
    <3>1. CASE i \in DOMAIN got[c]
      BY <1>9, <2>1, <2>3, <3>1
    <3>2. CASE i = n + 1
      BY <1>8, <1>11, <2>1, <2>3, <3>2
    <3> QED
      BY <2>1, <3>1, <3>2
  <2> QED
    BY <1>7, <2>2, <2>3 DEF InTurn, Follows, MayRepeat
<1> QED
  BY <1>6, <1>10, <1>11

LEMMA StreamStep == TypeOK /\ ChainInv /\ StreamInv /\ [Next]_vars => StreamInv'
<1> SUFFICES ASSUME TypeOK, ChainInv, StreamInv, [Next]_vars, NEW d \in Clients
             PROVE  InTurn(d)'
  BY DEF StreamInv
<1>0. InTurn(d)
  BY DEF StreamInv
<1>1. ASSUME NEW w \in Workers, NEW event \in WireEvents, Start(w, event)
      PROVE  InTurn(d)'
  <2>1. emitted \in Seq(WireEvents) /\ emitted' = Append(emitted, event)
    BY <1>1 DEF TypeOK, Start
  <2>2. \A e \in DOMAIN emitted : emitted'[e] = emitted[e]
    BY <2>1, AppendElements
  <2>3. UNCHANGED <<got, queue, unanswered>>
    BY <1>1 DEF Start, clientVars, writerVars, redisVars
  <2> QED
    BY <1>0, <2>2, <2>3, StreamKept
<1>2. ASSUME UNCHANGED <<got, queue, emitted>>, unanswered \subseteq unanswered'
      PROVE  InTurn(d)'
  BY <1>0, <1>2, StreamKept
<1>3. ASSUME NEW w \in Workers, NEW a \in Accounts, NEW target \in Roles \cup {"admins"},
             Emit(w, target, a)
      PROVE  InTurn(d)'
  <2> DEFINE ev == [from |-> w, target |-> target, key |-> a, name |-> "event"]
  <2>1. ev \in WireEvents /\ Start(w, ev)
    BY <1>3 DEF Emit, WireEvents
  <2> QED
    BY <1>1, <2>1
<1>4. ASSUME NEW w \in Workers, NEW a \in Accounts, NEW role \in Roles, Revoke(w, role, a)
      PROVE  InTurn(d)'
  <2> DEFINE ev == [from |-> w, target |-> role, key |-> a, name |-> "session.revoked"]
  <2>1. ev \in WireEvents /\ Start(w, ev)
    BY <1>4 DEF Revoke, WireEvents
  <2> QED
    BY <1>1, <2>1
<1>5. ASSUME NEW c \in Clients, NEW e \in Positions \cup {Reply}, Send(c, e),
             UNCHANGED <<got, emitted, unanswered>>, e # Reply => \A x \in Has(c) : Follows(c, x, e)
      PROVE  InTurn(d)'
  <2>1. CASE d = c
    BY <1>0, <1>5, <2>1, StreamSend
  <2>2. CASE d # c
    <3>1. queue'[d] = queue[d]
      BY <1>5, <2>2 DEF Send, TypeOK
    <3> QED
      BY <1>0, <1>5, <3>1, StreamKept
  <2> QED
    BY <2>1, <2>2
<1>6. ASSUME NEW g \in Goroutines, NEW c \in Clients, SendTo(g, c)
      PROVE  InTurn(d)'
  <2>1. /\ Send(c, job[g].event) /\ UNCHANGED <<got, emitted, unanswered>>
        /\ WillGive(g, c) /\ Sending(g) /\ NodeOf[c] = HubOf(g)
    BY <1>6 DEF SendTo, WillGive, Sending, ChainInv, writerVars, redisVars
  <2>2. job[g].event \in Positions \cup {Reply}
    BY DEF TypeOK, Jobs
  <2>3. \A x \in Has(c) : Before(x, job[g].event)
    BY <2>1 DEF ChainInv, Given1
  <2>4. job[g].event \in unanswered => MayRepeat(c, job[g].event)
    BY <2>1 DEF ChainInv, Newest, Relay, HubOf, MayRepeat
  <2>5. \A x \in Has(c) : Follows(c, x, job[g].event)
    BY <2>3, <2>4 DEF Before, Follows
  <2> QED
    BY <1>5, <2>1, <2>2, <2>5
<1>7. ASSUME NEW c \in Clients, Took(c), UNCHANGED <<emitted, unanswered>>
      PROVE  InTurn(d)'
  <2>1. CASE d = c
    BY <1>0, <1>7, <2>1, StreamTake
  <2>2. CASE d # c
    <3>1. queue'[d] = queue[d] /\ got'[d] = got[d]
      BY <1>7, <2>2 DEF Took, TypeOK
    <3> QED
      BY <1>0, <1>7, <3>1, StreamKept
  <2> QED
    BY <2>1, <2>2
<1>8. ASSUME NEW c \in Clients, ClientStep(c)
      PROVE  InTurn(d)'
  <2>1. UNCHANGED <<emitted, unanswered>>
    BY <1>8 DEF ClientStep, Authorize, UpgradeFails, Register, Greet, Receive, Unregister,
                Write, WriteClose, WriteFails, redisVars
  <2>2. \/ UNCHANGED <<queue, got>>
        \/ Send(c, Reply) /\ UNCHANGED got
        \/ Took(c)
    BY <1>8 DEF ClientStep, Authorize, UpgradeFails, Register, Greet, Receive, Unregister,
                Write, WriteClose, WriteFails, Took, clientVars, writerVars
  <2> QED
    BY <1>2, <1>5, <1>7, <2>1, <2>2
<1>9. ASSUME NEW g \in Goroutines, NEW c \in Clients, Close(g, c)
      PROVE  InTurn(d)'
  BY <1>2, <1>9 DEF Close, writerVars, redisVars
<1>10. ASSUME NEW w \in Workers, Publish(w)
       PROVE  InTurn(d)'
  BY <1>2, <1>10 DEF Publish, clientVars, writerVars
<1>11. ASSUME NEW n \in Nodes, Consume(n) \/ Delivered(n)
       PROVE  InTurn(d)'
  BY <1>2, <1>11 DEF Consume, Delivered, clientVars, writerVars, redisVars
<1>12. CASE UNCHANGED vars
  BY <1>2, <1>12 DEF vars
<1>13. ASSUME NEW g \in Goroutines, SelectTargets(g)
       PROVE  InTurn(d)'
  BY <1>2, <1>13 DEF SelectTargets, clientVars, writerVars, redisVars
<1>14. ASSUME NEW e \in Positions, Execute(e)
       PROVE  InTurn(d)'
  BY <1>2, <1>14 DEF Execute, clientVars, writerVars
<1> QED
  BY <1>3, <1>4, <1>6, <1>8, <1>9, <1>10, <1>11, <1>12, <1>13, <1>14 DEF Next, HubStep

\* An element of a concatenation is one of either part.
LEMMA ConcatElements ==
  ASSUME NEW S, NEW s \in Seq(S), NEW t \in Seq(S), NEW u, u = s \o t, NEW i \in DOMAIN u
  PROVE  /\ i \in Nat /\ Len(s) \in Nat
         /\ i <= Len(s) => i \in DOMAIN s /\ u[i] = s[i]
         /\ ~(i <= Len(s)) => i - Len(s) \in DOMAIN t /\ u[i] = t[i - Len(s)]
<1>1. /\ s \o t \in Seq(S) /\ Len(s \o t) = Len(s) + Len(t)
      /\ \A k \in 1..(Len(s) + Len(t)) :
           (s \o t)[k] = IF k <= Len(s) THEN s[k] ELSE t[k - Len(s)]
  BY ONLY s \in Seq(S), t \in Seq(S), ConcatProperties
<1>2. /\ u \in Seq(S) /\ Len(u) = Len(s) + Len(t)
      /\ \A k \in 1..(Len(s) + Len(t)) : u[k] = IF k <= Len(s) THEN s[k] ELSE t[k - Len(s)]
  BY <1>1
<1>3. /\ Len(s) \in Nat /\ Len(t) \in Nat /\ i \in 1..(Len(s) + Len(t))
      /\ DOMAIN s = 1..Len(s) /\ DOMAIN t = 1..Len(t)
  BY ONLY s \in Seq(S), t \in Seq(S), u \in Seq(S), Len(u) = Len(s) + Len(t), i \in DOMAIN u, <1>2
<1> QED
  BY ONLY <1>2, <1>3

Ordered(c, stream) ==
  \A i, j \in DOMAIN stream :
    i < j /\ stream[i] # Reply /\ stream[j] # Reply
      /\ emitted[stream[i]].from = emitted[stream[j]].from
    => stream[i] < stream[j] \/ MayRepeat(c, stream[j])

LEMMA OrderedIfFollows ==
  ASSUME NEW c, NEW stream,
         \A i, j \in DOMAIN stream :
           i < j /\ stream[i] # Reply /\ stream[j] # Reply => Follows(c, stream[i], stream[j])
  PROVE  Ordered(c, stream)
BY DEF Ordered, Follows

LEMMA StreamInTurn ==
  ASSUME TypeOK, NEW c \in Clients, InTurn(c), NEW stream, stream = got[c] \o queue[c],
         NEW i \in DOMAIN stream, NEW j \in DOMAIN stream, i < j,
         stream[i] # Reply, stream[j] # Reply
  PROVE  Follows(c, stream[i], stream[j])
<1>1. got[c] \in Seq(Positions \cup {Reply}) /\ queue[c] \in Seq(Positions \cup {Reply})
  <2>1. got[c] \in Seq(Positions) /\ queue[c] \in Seq(Positions \cup {Reply})
    BY DEF TypeOK
  <2>2. Positions \subseteq Positions \cup {Reply}
    OBVIOUS
  <2> QED
    BY ONLY <2>1, <2>2, SeqMonotonic, Zenon
<1> DEFINE n == Len(got[c])
<1>2. ASSUME NEW k \in DOMAIN stream
      PROVE  /\ k \in Nat /\ n \in Nat
             /\ k <= n => k \in DOMAIN got[c] /\ stream[k] = got[c][k]
             /\ ~(k <= n) => k - n \in DOMAIN queue[c] /\ stream[k] = queue[c][k - n]
  <2> DEFINE Elements == Positions \cup {Reply}
             front == got[c]
             back == queue[c]
  <2>1. front \in Seq(Elements) /\ back \in Seq(Elements) /\ stream = front \o back
    BY <1>1
  <2> HIDE DEF Elements, front, back
  <2>2. /\ k \in Nat /\ Len(front) \in Nat
        /\ k <= Len(front) => k \in DOMAIN front /\ stream[k] = front[k]
        /\ ~(k <= Len(front)) => k - Len(front) \in DOMAIN back /\ stream[k] = back[k - Len(front)]
    BY ONLY <1>2, <2>1, ConcatElements
  <2> QED
    BY <2>2 DEF front, back
<1> HIDE DEF n
<1>3. InTurn(c)
  OBVIOUS
<1>4. CASE j <= n
  <2>1. i <= n
    BY ONLY <1>2, <1>4, i \in DOMAIN stream, j \in DOMAIN stream, i < j
  <2> QED
    BY <1>2, <1>3, <1>4, <2>1 DEF InTurn
<1>5. CASE i <= n /\ ~(j <= n)
  BY <1>2, <1>3, <1>5 DEF InTurn
<1>6. CASE ~(i <= n)
  <2>1. ~(j <= n) /\ i - n < j - n
    BY ONLY <1>2, <1>6, i \in DOMAIN stream, j \in DOMAIN stream, i < j
  <2> QED
    BY <1>2, <1>3, <1>6, <2>1 DEF InTurn
<1> QED
  BY <1>4, <1>5, <1>6

LEMMA StreamInOrder == TypeOK /\ StreamInv => InOrder
<1> SUFFICES ASSUME TypeOK, StreamInv, NEW c \in Clients PROVE Ordered(c, got[c] \o queue[c])
  BY Zenon DEF InOrder, Ordered
<1> SUFFICES ASSUME NEW stream, stream = got[c] \o queue[c] PROVE Ordered(c, stream)
  OBVIOUS
<1> QED
  BY OrderedIfFollows, StreamInTurn DEF StreamInv

\* What one goroutine sends reaches a client in the order it was sent and never
\* twice, over the hub and over Redis, whatever is dropped on the way: realtime.go
\* sends to its own clients before it publishes, and nodes deliver only what other
\* nodes published.  The exception is an event over Redis whose PUBLISH was not
\* answered and so may have been sent again: it alone can come late or twice, and
\* the order of the others around it stands.
THEOREM EventsInOrder == Spec => []InOrder
<1>1. Init => TypeOK /\ ChainInv /\ StreamInv
  BY TypeInit, ChainInit DEF Init, StreamInv, InTurn
<1>2. TypeOK /\ ChainInv /\ StreamInv /\ [Next]_vars => (TypeOK /\ ChainInv /\ StreamInv)'
  BY TypeStep, ChainStep, StreamStep
<1> QED
  BY <1>1, <1>2, StreamInOrder, PTL DEF Spec
=============================================================================
