----------------------------- MODULE Realtime ------------------------------
(***************************************************************************)
(* The sockets of backend/internal/realtime: each node's Hub keeps the     *)
(* clients connected to it, every client has a bounded send channel that   *)
(* its writeLoop empties, and nodes pass events on over one Redis channel. *)
(* The goroutines that serve requests (Workers) revoke sessions in the     *)
(* store and send events; a consumer per node delivers what other nodes    *)
(* published.  A hub reads its clients under its lock and sends to them    *)
(* after it, one at a time, so clients come, go and are disconnected in    *)
(* between.                                                                *)
(*                                                                         *)
(* An event is known by its position in emitted.  A client stands for one  *)
(* connection; it belongs to one account and is opened with one session.   *)
(* Redis itself is external.  A PUBLISH that is answered was executed      *)
(* once, and reached any of the subscribers.  When the answer does not     *)
(* come, because the connection broke or it took too long, the client      *)
(* sends the command again, and Redis may execute each of the commands at  *)
(* any later time, or never.                                               *)
(***************************************************************************)
EXTENDS Naturals, Sequences, FiniteSets

CONSTANTS
  Nodes,        \* backend instances, with different NODE_IDs
  Workers,      \* goroutines that serve requests or socket events
  Clients,      \* connections
  Accounts,     \* agents, administrators; a visitor's is its conversation
  NodeOf,       \* the node a worker or a client belongs to
  RoleOf,       \* client.Role
  AccountOf,    \* client.AccountID
  SendBuffer,   \* capacity of a send channel: 64 in the code
  MaxSends,     \* PUBLISH commands of one event at most: go-redis' MaxRetries + 1, 4 in the code
  MaxEvents,    \* bound: events sent
  MaxUnanswered \* bound: events whose PUBLISH is not answered

Roles == {"visitor", "agent", "admin"}

ASSUME NodeAssumption == NodeOf \in [Workers \cup Clients -> Nodes]
ASSUME ClientAssumption == /\ RoleOf \in [Clients -> Roles]
                           /\ AccountOf \in [Clients -> Accounts]
ASSUME GoroutineAssumption == Workers \cap Nodes = {}
ASSUME BufferAssumption == SendBuffer \in Nat \ {0}
ASSUME SendsAssumption == MaxSends \in Nat \ {0}
ASSUME EventsAssumption == MaxEvents \in Nat

Goroutines == Workers \cup Nodes    \* a node stands for its consume loop
Reply == 0                          \* connected, pong or error: for one client
Positions == 1..MaxEvents

WireEvents == [from : Workers, target : Roles \cup {"admins"}, key : Accounts,
               name : {"event", "session.revoked"}]

VARIABLES
  emitted,      \* the events sent so far
  session,      \* session[c]: the token c is opened with is still valid
  phase,        \* how far ServeWebSocket and Run are with c
  closed,       \* client.closed
  queue,        \* client.send
  writer,       \* client.writeLoop
  got,          \* events written to c's connection
  lost,         \* events for c that met a full channel
  job,          \* what each goroutine is sending
  wire,         \* what each node has yet to consume
  inflight,     \* PUBLISH commands of an event that Redis may still execute
  unanswered    \* history: events whose first PUBLISH was not answered

hubVars == <<session, phase>>
clientVars == <<closed, queue, lost>>
writerVars == <<writer, got>>
redisVars == <<wire, inflight, unanswered>>
vars == <<emitted, session, phase, closed, queue, writer, got, lost, job,
          wire, inflight, unanswered>>

Phases == {"new", "authorized", "registered", "running", "gone"}

\* event: what is sent; targets: who has yet to get it; closing: the client
\* that Disconnect has sent it to and not closed yet.
Jobs == [stage : {"idle", "select", "send"}, event : Positions \cup {Reply},
         targets : SUBSET Clients, closing : SUBSET Clients]

Doing(stage, e) == [stage |-> stage, event |-> e, targets |-> {}, closing |-> {}]
Idle == Doing("idle", Reply)
Select(e) == Doing("select", e)

HubOf(g) == IF g \in Nodes THEN g ELSE NodeOf[g]

\* The clients in the hub's maps.
Registered(n) ==
  {c \in Clients : NodeOf[c] = n /\ phase[c] \in {"registered", "running"}}

Revokes(e) == emitted[e].name = "session.revoked"

Matches(c, e) ==
  \/ emitted[e].target = "admins" /\ RoleOf[c] = "admin"
  \/ emitted[e].target = RoleOf[c] /\ emitted[e].key = AccountOf[c]

\* Fault: a channel without a capacity.
FaultySendUnbounded(c, e) ==
  /\ queue' = IF closed[c] THEN queue ELSE [queue EXCEPT ![c] = Append(@, e)]
  /\ lost' = lost

\* Fault: closed is not looked at before the send.
FaultySendToClosed(c, e) ==
  LET room == Len(queue[c]) < SendBuffer IN
  /\ queue' = IF room THEN [queue EXCEPT ![c] = Append(@, e)] ELSE queue
  /\ lost' = IF room THEN lost ELSE [lost EXCEPT ![c] = @ \cup {e}]

\* Client.Send: nothing if c is closed, else the channel or, if it is full, a warning.
Send(c, e) ==
  LET room == Len(queue[c]) < SendBuffer IN
  /\ queue' = IF ~closed[c] /\ room THEN [queue EXCEPT ![c] = Append(@, e)] ELSE queue
  /\ lost' = IF ~closed[c] /\ ~room THEN [lost EXCEPT ![c] = @ \cup {e}] ELSE lost

CloseSend(c) == closed' = [closed EXCEPT ![c] = TRUE]

----------------------------------------------------------------------------
Init ==
  /\ emitted = <<>>
  /\ session = [c \in Clients |-> TRUE]
  /\ phase = [c \in Clients |-> "new"]
  /\ closed = [c \in Clients |-> FALSE]
  /\ queue = [c \in Clients |-> <<>>]
  /\ writer = [c \in Clients |-> "new"]
  /\ got = [c \in Clients |-> <<>>]
  /\ lost = [c \in Clients |-> {}]
  /\ job = [g \in Goroutines |-> Idle]
  /\ wire = [n \in Nodes |-> <<>>]
  /\ inflight = [e \in Positions |-> 0]
  /\ unanswered = {}

\* A worker starts to send an event of its own.
Start(w, event) ==
  /\ job[w] = Idle
  /\ Len(emitted) < MaxEvents
  /\ emitted' = Append(emitted, event)
  /\ job' = [job EXCEPT ![w] = Select(Len(emitted) + 1)]
  /\ UNCHANGED <<phase, clientVars, writerVars, redisVars>>

\* SendToVisitor, SendToAgent, BroadcastAdmins.
Emit(w, target, key) ==
  /\ target # "admin"
  /\ Start(w, [from |-> w, target |-> target, key |-> key, name |-> "event"])
  /\ UNCHANGED session

\* ResetAgentPassword, DisableAgent, DeleteAgent, ChangePassword: the store
\* drops the account's tokens, then the account is disconnected.
Revoke(w, role, a) ==
  /\ role # "visitor"
  /\ Start(w, [from |-> w, target |-> role, key |-> a, name |-> "session.revoked"])
  /\ session' = [c \in Clients |->
                  session[c] /\ ~(RoleOf[c] = role /\ AccountOf[c] = a)]

\* The hub's clients, read under its lock.
SelectTargets(g) ==
  /\ job[g].stage = "select"
  /\ job' = [job EXCEPT ![g].stage = "send",
               ![g].targets = {c \in Registered(HubOf(g)) : Matches(c, job[g].event)}]
  /\ UNCHANGED <<emitted, hubVars, clientVars, writerVars, redisVars>>

\* Fault: Disconnect closes the channel before it sends the reason.
FaultySendToClosesFirst(g, c) ==
  /\ c \in job[g].targets /\ job[g].closing = {}
  /\ IF Revokes(job[g].event) THEN CloseSend(c) /\ UNCHANGED <<queue, lost>>
                              ELSE Send(c, job[g].event) /\ UNCHANGED closed
  /\ job' = [job EXCEPT ![g].targets = @ \ {c}]
  /\ UNCHANGED <<emitted, hubVars, writerVars, redisVars>>

\* Fault: a revocation is sent like any event and nothing is closed.
FaultySendToKeeps(g, c) ==
  /\ c \in job[g].targets /\ job[g].closing = {}
  /\ Send(c, job[g].event)
  /\ job' = [job EXCEPT ![g].targets = @ \ {c}]
  /\ UNCHANGED <<emitted, hubVars, closed, writerVars, redisVars>>

\* Send, or the first half of Disconnect.
SendTo(g, c) ==
  /\ c \in job[g].targets /\ job[g].closing = {}
  /\ Send(c, job[g].event)
  /\ job' = [job EXCEPT ![g].targets = @ \ {c},
               ![g].closing = IF Revokes(job[g].event) THEN {c} ELSE {}]
  /\ UNCHANGED <<emitted, hubVars, closed, writerVars, redisVars>>

\* The second half of Disconnect.
Close(g, c) ==
  /\ c \in job[g].closing
  /\ CloseSend(c)
  /\ job' = [job EXCEPT ![g].closing = {}]
  /\ UNCHANGED <<emitted, hubVars, queue, lost, writerVars, redisVars>>

Sent(g) == job[g].stage = "send" /\ job[g].targets = {} /\ job[g].closing = {}

\* What arrives at the nodes that are subscribed: some miss it, because they are
\* reconnecting or too slow.
Broadcast(e) ==
  \E subscribers \in SUBSET Nodes :
    wire' = [n \in Nodes |-> IF n \in subscribers THEN Append(wire[n], e) ELSE wire[n]]

\* After its own clients a worker publishes to the other nodes.  A PUBLISH that
\* fails for good is logged and forgotten.
Publish(w) ==
  /\ Sent(w)
  /\ \/ Broadcast(job[w].event) /\ UNCHANGED <<inflight, unanswered>>
     \/ /\ Cardinality(unanswered) < MaxUnanswered
        /\ inflight' = [inflight EXCEPT ![job[w].event] = MaxSends]
        /\ unanswered' = unanswered \cup {job[w].event}
        /\ UNCHANGED wire
  /\ job' = [job EXCEPT ![w] = Idle]
  /\ UNCHANGED <<emitted, hubVars, clientVars, writerVars>>

\* Redis executes a command whose answer nobody read.
Execute(e) ==
  /\ inflight[e] > 0
  /\ inflight' = [inflight EXCEPT ![e] = @ - 1]
  /\ Broadcast(e)
  /\ UNCHANGED <<emitted, hubVars, clientVars, writerVars, job, unanswered>>

\* Fault: a node delivers what it published itself.
FaultyConsume(n) ==
  /\ job[n] = Idle /\ wire[n] # <<>>
  /\ wire' = [wire EXCEPT ![n] = Tail(@)]
  /\ job' = [job EXCEPT ![n] = Select(Head(wire[n]))]
  /\ UNCHANGED <<emitted, hubVars, clientVars, writerVars, inflight, unanswered>>

\* consume and Deliver; a node's own events come back to it too.
Consume(n) ==
  /\ job[n] = Idle /\ wire[n] # <<>>
  /\ wire' = [wire EXCEPT ![n] = Tail(@)]
  /\ job' = [job EXCEPT ![n] = IF NodeOf[emitted[Head(wire[n])].from] = n
                               THEN Idle ELSE Select(Head(wire[n]))]
  /\ UNCHANGED <<emitted, hubVars, clientVars, writerVars, inflight, unanswered>>

Delivered(n) ==
  /\ Sent(n)
  /\ job' = [job EXCEPT ![n] = Idle]
  /\ UNCHANGED <<emitted, hubVars, clientVars, writerVars, redisVars>>

----------------------------------------------------------------------------
\* ServeWebSocket up to the upgrade: the only time the token is looked at.
Authorize(c) ==
  /\ phase[c] = "new" /\ session[c]
  /\ phase' = [phase EXCEPT ![c] = "authorized"]
  /\ UNCHANGED <<emitted, session, clientVars, writerVars, job, redisVars>>

UpgradeFails(c) ==
  /\ phase[c] = "authorized"
  /\ phase' = [phase EXCEPT ![c] = "gone"]
  /\ UNCHANGED <<emitted, session, clientVars, writerVars, job, redisVars>>

Register(c) ==
  /\ phase[c] = "authorized"
  /\ phase' = [phase EXCEPT ![c] = "registered"]
  /\ UNCHANGED <<emitted, session, clientVars, writerVars, job, redisVars>>

\* The writer starts and the client is told that it is connected.
Greet(c) ==
  /\ phase[c] = "registered"
  /\ phase' = [phase EXCEPT ![c] = "running"]
  /\ writer' = [writer EXCEPT ![c] = "writing"]
  /\ Send(c, Reply)
  /\ UNCHANGED <<emitted, session, closed, got, job, redisVars>>

\* A message is read from the connection and answered to its sender.
Receive(c) ==
  /\ phase[c] = "running"
  /\ Send(c, Reply)
  /\ UNCHANGED <<emitted, hubVars, closed, writerVars, job, redisVars>>

\* Reading fails (the peer left, or 70 s passed without a pong): Unregister.
Unregister(c) ==
  /\ phase[c] = "running"
  /\ phase' = [phase EXCEPT ![c] = "gone"]
  /\ CloseSend(c)
  /\ UNCHANGED <<emitted, session, queue, lost, writerVars, job, redisVars>>

Write(c) ==
  /\ writer[c] = "writing" /\ queue[c] # <<>>
  /\ queue' = [queue EXCEPT ![c] = Tail(@)]
  /\ got' = IF Head(queue[c]) = Reply THEN got
            ELSE [got EXCEPT ![c] = Append(@, Head(queue[c]))]
  /\ UNCHANGED <<emitted, hubVars, closed, lost, writer, job, redisVars>>

\* The channel is closed and empty: a close frame, and the loop ends.
WriteClose(c) ==
  /\ writer[c] = "writing" /\ queue[c] = <<>> /\ closed[c]
  /\ writer' = [writer EXCEPT ![c] = "ended"]
  /\ UNCHANGED <<emitted, hubVars, clientVars, got, job, redisVars>>

\* A write or a ping fails: what was taken from the channel is gone.
WriteFails(c) ==
  /\ writer[c] = "writing"
  /\ writer' = [writer EXCEPT ![c] = "ended"]
  /\ \/ UNCHANGED <<queue, lost>>
     \/ /\ queue[c] # <<>>
        /\ queue' = [queue EXCEPT ![c] = Tail(@)]
        /\ lost' = [lost EXCEPT ![c] = @ \cup {Head(queue[c])}]
  /\ UNCHANGED <<emitted, hubVars, closed, got, job, redisVars>>

----------------------------------------------------------------------------
HubStep ==
  \/ \E w \in Workers, a \in Accounts :
       \/ \E target \in Roles \cup {"admins"} : Emit(w, target, a)
       \/ \E role \in Roles : Revoke(w, role, a)
  \/ \E g \in Goroutines :
       \/ SelectTargets(g)
       \/ \E c \in Clients : SendTo(g, c) \/ Close(g, c)
  \/ \E w \in Workers : Publish(w)
  \/ \E e \in Positions : Execute(e)
  \/ \E n \in Nodes : Consume(n) \/ Delivered(n)

ClientStep(c) ==
  \/ Authorize(c) \/ UpgradeFails(c) \/ Register(c) \/ Greet(c)
  \/ Receive(c) \/ Unregister(c) \/ Write(c) \/ WriteClose(c) \/ WriteFails(c)

Next == HubStep \/ \E c \in Clients : ClientStep(c)

Spec == Init /\ [][Next]_vars

\* Goroutines run on, a PUBLISH ends within its timeouts; Redis itself need not do
\* anything.  A connection whose writer has ended sends no pings any more, gets no
\* pongs, and reading it fails when the peer answers the close frame or after 70 s.
\* Nothing makes a peer of a healthy connection leave, and no write has to fail.
Fairness ==
  /\ \A g \in Goroutines :
       WF_vars(SelectTargets(g) \/ \E c \in Clients : SendTo(g, c) \/ Close(g, c))
  /\ \A w \in Workers : WF_vars(Publish(w))
  /\ \A n \in Nodes : WF_vars(Consume(n) \/ Delivered(n))
  /\ \A c \in Clients :
       /\ WF_vars(UpgradeFails(c) \/ Register(c))
       /\ WF_vars(Greet(c))
       /\ WF_vars(Write(c) \/ WriteClose(c) \/ WriteFails(c))
       /\ WF_vars(writer[c] = "ended" /\ Unregister(c))

FairSpec == Spec /\ Fairness

----------------------------------------------------------------------------
\* Everything has its type, a channel never holds more than its capacity, and what
\* is on its way has been sent.
TypeOK ==
  /\ emitted \in Seq(WireEvents) /\ Len(emitted) <= MaxEvents
  /\ session \in [Clients -> BOOLEAN]
  /\ phase \in [Clients -> Phases]
  /\ closed \in [Clients -> BOOLEAN]
  /\ queue \in [Clients -> Seq(Positions \cup {Reply})]
  /\ \A c \in Clients : Len(queue[c]) <= SendBuffer
  /\ writer \in [Clients -> {"new", "writing", "ended"}]
  /\ got \in [Clients -> Seq(Positions)]
  /\ lost \in [Clients -> SUBSET (Positions \cup {Reply})]
  /\ job \in [Goroutines -> Jobs]
  /\ \A g \in Goroutines : job[g].stage # "idle" => job[g].event \in DOMAIN emitted
  /\ wire \in [Nodes -> Seq(Positions)]
  /\ \A n \in Nodes : \A i \in DOMAIN wire[n] : wire[n][i] \in DOMAIN emitted
  /\ inflight \in [Positions -> 0..MaxSends]
  /\ unanswered \subseteq DOMAIN emitted
  /\ \A e \in Positions : inflight[e] > 0 => e \in unanswered

\* What may come late or again: an event over Redis whose PUBLISH was not answered.
MayRepeat(c, e) == e \in unanswered /\ NodeOf[c] # NodeOf[emitted[e].from]

\* What one goroutine sends reaches a client in the order it was sent, and never
\* twice: through the hub always, whatever is dropped, and over Redis unless the
\* later of the two is an event whose PUBLISH was not answered.
InOrder ==
  \A c \in Clients :
    LET stream == got[c] \o queue[c] IN
    \A i, j \in DOMAIN stream :
      i < j /\ stream[i] # Reply /\ stream[j] # Reply
        /\ emitted[stream[i]].from = emitted[stream[j]].from
      => stream[i] < stream[j] \/ MayRepeat(c, stream[j])

\* The events that client c was given, or would have been given with more room.
Given(c) == {got[c][i] : i \in DOMAIN got[c]} \cup {queue[c][i] : i \in DOMAIN queue[c]}
            \cup lost[c]

Told(c) ==
  \E e \in DOMAIN emitted : Revokes(e) /\ Matches(c, e) /\ e \in Given(c)

\* A client that the server closed while its connection is up has been told why,
\* unless that very event was dropped: the agent app stops reconnecting only when
\* it reads session.revoked.
RevokedIsTold ==
  \A c \in Clients : closed[c] /\ phase[c] # "gone" => Told(c)

\* Nothing is put into a send channel that was closed: in Go that would panic and
\* take the whole server down.  The hub sends to clients it read some time ago.
ClosedIsLeftAlone ==
  [][\A c \in Clients : closed[c] =>
       closed'[c] /\ Len(queue'[c]) <= Len(queue[c])]_vars

\* Revoking an account's sessions disconnects its clients that are connected to
\* the node that does it, however full their channels are and whoever sends to
\* them meanwhile.
RevocationDisconnects ==
  \A w \in Workers, c \in Clients :
    (/\ job[w].stage = "select" /\ Revokes(job[w].event) /\ Matches(c, job[w].event)
     /\ c \in Registered(HubOf(w)))
      ~> phase[c] = "gone"

\* Violated.  "改密、重置密码、禁用账号后的登录 token 撤销与在线 WebSocket 断开"
\* (backend/README.md:13): no connection outlives the session it was opened with.
NoneOutlivesItsSession ==
  \A c \in Clients : ~session[c] ~> phase[c] \in {"new", "gone"}

=============================================================================
