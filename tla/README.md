# ServiceBridge in TLA+

ServiceBridge is a customer-service system: visitors open conversations on a
web page, agents serve them from an app, an AI answers when no human does, and
administrators watch and intervene. A Go backend (`backend/`) keeps the state,
in memory or in PostgreSQL, and serves an HTTP and WebSocket API; three front
ends (`apps/`) use it. Several backends may share one database and one Redis.

This directory holds TLA+ modules translated from the Go source, TLC
configurations that check them on small instances, and TLAPS proofs of what
matters most for instances of any size.

    tlc -config Dispatch.cfg Dispatch.tla      # one of the runs below
    tlapm DispatchProofs.tla                   # the proofs

## 1. Inventory

Paths are relative to `backend/internal` unless they say otherwise.

| Component | State | Operations | Interacts with | What makes it correct |
|---|---|---|---|---|
| Memory store, ownership (`store/memory.go`) | agents (status, disabled, maximum, counter), conversations (status, owner), AI and business-hour settings | create/update/disable/delete agent, set status, create/close/delete/transfer conversation, update settings; dispatch and release inside them | called by the service and the router, one mutex | status and owner agree; the counter is the number of open conversations; dispatch respects availability and the maximum; nobody loses a conversation unasked; closed stays closed |
| Memory store, messages (`store/memory.go`) | messages, last message time, two unread counters | visitor, agent and AI messages, revocation, marking read, escalation, paging | the same | a retried message is written once; counters follow the messages; after closing only the notice of another closing is written |
| Memory store, registers | remarks, ratings, contacts, keyword rules, audit, push devices | independent writes | router | one rating per conversation |
| Postgres store, agents and conversations (`store/postgres.go`) | the same in tables | the same as transactions with row locks, on several nodes at once | PostgreSQL | what commits is what the memory store could have done; no lost update; deadlocks are resolved |
| Postgres store, sessions and passwords | accounts, tokens of admins, agents, visitors | login, auth, change/reset password, disable, delete; seeds at start | every request, WebSocket upgrade | no session outlives its revocation; a password changes only for one who knows it |
| Postgres store, settings | one row per table of settings, keyword rules | read–merge–write, seeds and repairs at start | administrators, every node that starts | what an administrator stored stays, unless two updates race or one cannot read |
| Service (`app/service.go`) | none of its own; goroutines | store operations plus events; AI replies and no-reply timers in goroutines; WebSocket events | store, hub, AI, notifier | every AI call is answered once; timers do not overtake answers |
| Hub and clients (`realtime/hub.go`) | registered sockets, bounded send queues | register, send, broadcast, disconnect | service, Redis bus | a disconnected account has no live socket; events are delivered in order or dropped as a whole |
| Redis bus (`realtime/redis_bus.go`) | subscription | publish, consume | hubs of other nodes | never back to the sender; in order and once, unless a PUBLISH goes unanswered and is sent again |
| AI client (`ai/client.go`) | none | one HTTP call with a timeout | service | always returns or fails |
| Push webhook (`notify/webhook.go`) | none | one HTTP call | service | none |
| Router (`httpx/router.go`) | none | about fifty routes, authorisation, audit | service, store | the caller may do what it asks |
| Rate limiter (`httpx/router.go`) | token buckets per key | allow | every request | never more than burst + rate × time; nobody well below it refused |
| Uploads, config, secrets, validation | files, environment | pure or I/O | router, start | not state machines |
| Front ends (`apps/*`) | socket, queued packets, shown list | connect, reconnect, queue, flush | WebSocket | nothing queued is sent twice or under another login |
| Scripts and deployment | none | shell, compose, nginx | | not modelled |

What is hard here: every operation of the memory store is atomic (one mutex), but the
*sequences* are not. The service calls the store, releases the lock, then sends events
and starts goroutines that come back seconds later to a conversation that may have
been closed, deleted, released or transferred; retries return a message in the
conversation's *present* status; each agent has a counter kept beside the
conversations it counts; and a release walks a Go map in random order, each step
depending on the last. A PUBLISH nobody answered is sent again, and a read that fails
looks like an empty one. In the Postgres store the operations themselves are cut into
statements: they lock agents and conversations in different orders, pass over rows
that others have locked, read settings outside any transaction, and check an account
in one statement and create its session in another. `PROJECT.json` lists these hazards
at their lines.

## 2. Plan

| # | Module | What | State |
|---|---|---|---|
| 1 | `Dispatch` | ownership: agents, conversations, dispatch, release, transfer, settings | done |
| 2 | `ReleaseLoop`, `PickUpLoop` | the two loops step by step, against `Dispatch`'s description of their outcome; proved in `PartsProofs` | done |
| 3 | `DispatchProofs` | type, ownership, counter, closing, dispatch and stealing theorems; `Dispatch` implements `Ownership` | done |
| 4 | `Messaging`, `MCMessaging` | messages, retries, AI goroutines, no-reply timers; extends `Dispatch` | done |
| 5 | `MessagingProofs` | `Messaging` implements `Dispatch`; theorems on messages, counters, replies and timers | done |
| 6 | `Ownership` | abstract contract of a store; refined by `Dispatch` and by `PgDispatch` | done |
| 7 | `PgDispatch`, `MCPgDispatch`, `PgDispatchProofs`, `PgOwnershipProofs`, `PgRefinementProofs` | the Postgres store's transactions: row locks in their order, `SKIP LOCKED`, deadlock, rollback, timeout and crash; deadlocks, counters and the refinement of `Ownership` proved | done |
| 8 | `Realtime`, `MCRealtime`, `RealtimeProofs` | hub, send channels, disconnection, Redis bus between nodes | done |
| 9 | `Sessions`, proved in `PartsProofs` | login against disabling, deletion, password changes and the seeds of a node that starts | done |
| 10 | `RateLimiter`, `BusinessHours`, `Paging`; `RateLimiterProofs`, `PartsProofs` | algorithms against what they promise | done |
| 11 | `Settings`, proved in `PartsProofs` | settings read, merged and written back; seeds | done |

Left for later: the apps' socket (`apps/agent-app/common/realtime.js`), which
needs the other side of `Realtime`'s wire.

## 3. Modules

How they depend on each other: `Messaging`, `ReleaseLoop` and
`PickUpLoop` extend `Dispatch`;
`Dispatch` and `PgDispatch` instantiate `Ownership` with a refinement mapping;
`MCParts` extends the modules that share no state with the rest and runs each of
them by itself. The others stand alone.

### Dispatch

State: one TLA+ variable per field that decides who serves a conversation.
`agents`, `agentStatus`, `disabled`, `maxConv` and `current` are the agent
record; `convStatus` and `owner` the conversation record, ids in the order of
`CreatedAt`; `aiEnabled`, `aiMode`, `bizEnabled` the settings. A record that is
not there holds zero values. `reclosed` is a history variable.

Actions: one per method of `MemoryStore` that writes this state, whole, because
the method runs under the store's mutex. `businessTime`, what the clock says, is
an input (`BusinessHours` says how it is computed). Two devices keep it small:

- The release loop (`SetAgentStatus(offline)`, `DisableAgent`, `DeleteAgent`)
  hands out the agent's conversations one by one in map order. `Dispatch` states
  the *outcomes*: an assignment `dest` for which `GreedyDispatch` holds.
  `ReleaseLoop` runs the loop with `Dispatch`'s own `AssignConversation`; both
  directions are checked and proved.
- The pick-up loop (`SetAgentStatus(online)`) takes conversations oldest first until
  the counter it increments itself reaches the maximum: the set `T` for which
  `OldestFirst` holds. `PickUpLoop` runs it one conversation at a time; that it ends
  where `OldestFirst` says, and that nothing else is allowed, is checked and proved.

AI messages and escalations may happen at any time in `Dispatch`; in `Messaging`
only when a goroutine the service started gets there. So whatever holds in
`Dispatch` holds in the service (theorem `MessagingImplementsDispatch`).

Agent ids are random in the code; only their order matters (ties in dispatch).
A deleted id may be created again in the model; in the code only the first agent, which
every node that starts seeds again, is.

### Ownership

What the interface `store.Store` promises of agents and conversations, whoever
implements it: each step is one call, taken in one piece. It leaves open which of
the free agents gets a conversation and whether one gets it at all, because there
the stores differ: the memory store takes the least loaded agent, the Postgres
store the least loaded one whose row nobody has locked. It does not leave open
that the agent has room, that counters move with conversations, or that an agent
that leaves keeps nothing. `ActsAtOnce`, in `Dispatch` and in `PgDispatch`, is
the refinement; in `PgDispatch` the mapping is to the *committed* rows.

### Messaging

Adds to `Dispatch` the messages of each conversation, the position of the
message `LastMessageAt` belongs to, the two unread counters, and the service's
goroutines: `jobs` (calls of `generateAIReply`) and `timers`
(`scheduleNoReplyAI`). `SendVisitorMessage` is `Service.AddVisitorMessage`: retry
or new message, automatic replies, then the goroutines it starts.
`GenerateAIReply` and `FireTimer` are the ends of the goroutines. A timer
compares times for equality, so times are message positions; two messages are
taken to have different times. Only what the keyword matching distinguishes is
left of a text (`TextKinds`), only its trimmed value and whether it was padded
of a client id (`Keys`). The notices the server writes (the welcome, transfers, the
end of service) change neither `LastMessageAt` nor a counter, and nobody answers or
revokes them, so they have no place in `messages`. Only whether the last entry is the
notice of closing is kept (`closingLast`): closing a closed conversation writes
another (`CloseWithNotice`), and anything else after it would show.

### PgDispatch

The same operations as `PostgresStore` runs them. `arow` and `crow` are the
committed rows, `anew` and `cnew` their newest versions, `alock` and `clock` who
has locked them. A transaction sees its own version of a row it has locked and
the committed version of others (`AgentSeen`, `ConvSeen`); `Commit` and
`Rollback` publish or discard all of it and free the locks. One action is a
statement together with what follows it on rows the transaction has locked by
then, because nobody can observe the difference. The loops of a release and of a
pick-up are cut row by row, since PostgreSQL locks rows one after another.

`WaitsFor` names the transactions a statement waits for, `Cycle` a set of them
that wait for each other, `DeadlockVictim` what PostgreSQL does about it.
`TimeOut` is at once the five seconds of `dbContext`, a lost connection and a
crash of the node: at any statement, all of them leave only the rollback. After a
restart a node begins as an idle backend; escalations and AI messages, whose
goroutines a crash loses, are calls that come or do not come.

Abstractions. A statement with `ORDER BY … FOR UPDATE` that has waited looks at
the row it gets again but does not sort again, and one with `SKIP LOCKED` may
find the row it chose changed and skip it; the model's choice is made on the rows
as they are when the lock is granted. Settings may be changed by any node between
two statements, so each reading of them is any of the settings in play. The
messages of a conversation are part of its row, because they are only read and
written under its lock, so a retry on another node finds what it repeats. The unique
index on messages (`backend/migrations/001_init.sql:93`) is left out.

### Realtime

Independent of the stores: the sockets. `phase[c]` says how far
`ServeWebSocket` and `Client.Run` are with connection `c`; the hub's maps are the
clients that are `registered` or `running` (`Registered`), because `Register` and
`Unregister` are the only writers of both. `closed`, `queue` and `lost` are what
`sendMu` protects in a client, `lost` recording the warnings about a full buffer;
`writer` and `got` are the write loop and what the peer has received. Each
goroutine that sends has a `job`: the event, the clients it read from the hub and
has yet to send to, and the one it has sent to and not closed yet. One step is
one critical section: the hub's read lock (`SelectTargets`), one `Client.Send`
(`SendTo`), one `closeSend` (`Close`), one publish. The consumer of each node is
such a goroutine too.

`session[c]` is the validity of the token `c` was opened with, and the revoking
methods of the store are its only writers. Redis is external: what it executes
reaches any set of nodes (`Broadcast`), so loss is always possible. A `PUBLISH` that
is answered was executed once. One that is not, because the connection broke or the
answer took too long, is sent again: `redis_bus.go` leaves go-redis its default of
three retries. Redis may then execute each of the commands at any later time or never
(`inflight`, `Execute`), so the event may arrive twice and behind later ones, and
`unanswered` remembers that. Node ids are taken to be different, as the default (host
name and start time) and the deployment file make them. What an event says is
left out. A reply to one's own client (`connected`, `pong`, `error`) takes a
place in its channel and is not recorded in `got`.

### Sessions

Accounts, tokens, and connections that each run one operation at a time, cut as
`PostgresStore` cuts them: a login reads the account (`Login`) and later inserts
the session (`CreateAuth`); what ends sessions locks the account's row, revokes
the sessions it sees, and commits later, since `DisableAgent` and `DeleteAgent`
release conversations in between. `overlaps` marks a session whose login and an
ending operation overlapped; without that clause `SessionsAreCurrent` is false,
which is what the run `late_login` shows. The memory store runs each operation
whole, a special case.

A node that starts seeds the first administrator and the first agent, at any time
(`SeedAccount`): a seed agent that was deleted is there again, with the password of
the options, and one that is there is left alone. Where such an account still has a
password in the format of an old version, it is replaced (`ReplaceOldHash`), as it
would be by an administrator but without ending sessions. Accounts keep their names;
that a seed cannot be inserted when another agent has taken its account name, and no
node starts any more, is left out.

### RateLimiter

The token buckets of the router. A handler reads the clock (`Read`) before it takes
the limiter's mutex, so readings arrive out of order and the elapsed time may be
negative. Tokens and time are counted in units that make the rate whole, and `MaxLag`
bounds how late a reading arrives. `NeverAboveRate` compares every interval with burst
+ rate × time; `RefillAssumption` says that a bucket fills up before it is dropped for
being idle. The default configuration satisfies it by far; the code does not enforce
it. `RefusedOnlyAboveRate` is exact for a reading that comes in the order of the
clock. One that comes after a later reading has got through takes tokens back for the
negative time, and may be refused although in the order of the clock both would have
passed; it then lacks at most what `MaxLag` brings. One limiter stands for both of the
router's, which share nothing.

### Paging

Reading back from the newest message, page by page, while messages are written.
The two stores compute a page differently; `StoresAgree` compares them for every
cursor that exists and every page size. For a cursor that does not exist they differ:
the memory store returns the newest page, the Postgres store an empty one.
`ByTime` is the SQL's `ORDER BY`: it says what order the rows come in, not how they
are sorted. Messages are ordered by the clocks of the nodes that wrote them, so one may
appear behind a reader's cursor; `PagesAreComplete` says that a reader who began
before still gets everything that was there, once and in order. A read that fails is
an empty page with nothing after it (`PageFails`): the error is dropped, the router
answers 200, and the reader stops with messages missing. `cutShort` marks that. What
is missing is then the oldest, without a gap.

### BusinessHours, Settings

`BusinessHours` is the test for the hours of service, over days of any length;
hours that cannot be parsed count as always open and are left out.

`Settings` is the updates that read a row, merge into it the fields they were
given and write it back, in two statements without a transaction, with the errors
of both dropped; and the seeds and repairs of a node that starts. Two fields stand
for all: `kept`, which a blank leaves as it is (API key, telephone number,
keyword), and `always`, which every update writes (switches, the greeting). At start
a node gives an empty greeting its first text again (`RestoreGreeting`), and nothing
else is taken back from an administrator. `UndoneOnlyInARace` says so of both fields
and names what it excepts: an update that another overtook writes back what it read,
and one whose read failed writes blanks. Both do lose settings.

### ReleaseLoop, PickUpLoop and the MC modules

`ReleaseLoop` and `PickUpLoop`: see `Dispatch`. `MCMessaging` fixes the settings so
that two agents fit in a run; `MCRealtime` places workers and clients on nodes;
`MCPgDispatch` gives the calls and the situations a run begins in; `MCParts` puts the
small parts into one run.

## 4. Runs

| Run | Configuration | Shows |
|---|---|---|
| `dispatch` | 2 agents, 2 conversations, maximum 1 or 2, AI on or off, human_first or always_ai | the safety and action properties of `Dispatch`, and that it implements `Ownership` |
| `messaging` | 2 agents, 1 conversation, 2 messages by people, AI replies, a client id, settings as seeded | retries, revocations, counters and escalation while the conversation changes hands |
| `goroutines` | 1 agent, 1 conversation, 2 messages, fairness, AI mode human_first, AI and business hours on or off | every AI call answered, no silence while a timer runs, nothing behind the notice of closing but another, the human keyword |
| `realtime` | 2 nodes with a worker each, one client, 2 events, capacity 1, one `PUBLISH` unanswered and sent twice, fairness | per-goroutine order and no duplicates unless a `PUBLISH` went unanswered, the reason precedes closing, revocation ends the connections the hub knows of |
| `pg` | 2 backends, 2 transactions, 2 agents, 2 conversations, seven situations, fairness | what commits is a step of `Ownership`; counters of agents and of unread messages; which operations deadlock; every transaction ends |
| `parts` | see `Parts.cfg` | the release and pick-up loops end as `Dispatch` describes; sessions, rate, pages, hours and settings |
| `outlives_session` | violated | a socket opened while its session is revoked stays |
| `overdispatch` | violated | closing twice overfills an agent |
| `human_request` | violated | a request for a human is undone by the AI |
| `padded_ids` | violated | padded client ids are written twice by the memory store |
| `stranded` | violated | a new conversation waits although an agent has room, its row being locked |
| `late_login` | violated | a login read before a disabling creates its session after it |

The bounds reach the interesting cases: with two agents a release has somebody to
dispatch to and a tie to break; with two conversations a maximum of one is exceeded by
the second, and one closed twice while the other is open; in `parts`, three of each
make the order of the release loop matter, and the pick-up loop stop before, between
and after those that wait. Two messages by people and the AI's replies to them are
enough for a retry behind another message, an answer racing a timer, a revocation of
an older message and an AI reply after any of them. The mode `manual_only`
is left out of `dispatch`: every test in the memory store treats it as `human_first`
with the AI switched off, which is in that run. For the sockets, two events of one
worker can be swapped or doubled, and with a capacity of one instead of 64 any second
event meets a full channel. Two commands of one event can frame another event, and
both can arrive; the second node, where nobody is connected in this run, misses
everything (`NobodyListensThere`), so the traffic that matters is from it to the
first, and back to the sender. At the rate limiter a tick brings half of what a
request costs, so that buckets hold parts of requests; a late reading is then refused
only after one request with a later reading, and how much it may lack in general is
theorem `RefusalsAreDue`. After `MaxEvents` events, or `MaxTransactions` transactions,
nothing is left to do, hence no deadlock check.

The run `pg` begins in seven situations (`MCPgDispatch`): each is a state that a
few calls, one after the other, lead to, and between them every call finds what it
can succeed on and what it is refused for. Two transactions are enough for a lost
update, a skipped row and a deadlock of two, and all pairs of calls are tried;
that no longer cycles of another kind exist is theorem `DeadlockOnlyThere`. In `parts`
the accounts are agents only: an administrator's account only has passwords
changed, which is one of the operations of an agent's.

Fairness in `Messaging`: weak fairness of each AI call and each timer, nothing else.
An AI call ends because the HTTP client has a timeout and a failure gets a text of its
own; a timer fires. Nobody is assumed to come online, answer or close.

Fairness in `Realtime`: goroutines that are sending go on, because no send blocks
and a publish has a timeout of two seconds; the write loop takes what is in its
channel; and a connection whose write loop has ended is left by its read loop,
because a peer answers the close frame or, without pings, sends no pong for 70
seconds. Healthy connections need not end and writes need not fail.

Fairness in `PgDispatch`: a transaction that can go on does, and PostgreSQL
aborts a transaction of a cycle that stays (`deadlock_timeout`, one second by
default, well below the store's five). Transactions are finite, so nobody waits
for ever at a row (PostgreSQL queues those who wait besides). `TimeOut` is not
fair: `TransactionsEnd` does not need it.

The six violated runs each check a sentence of the documents or the API description
that the code does not keep; `findings` in `PROJECT.json` quotes them. More
differences between documents and code are in the models and left out of the properties:

- in `always_ai` mode the human keyword leaves the conversation with the AI
  (`KeywordReachesHuman` excepts that mode);
- an AI reply asked for before the switch to `manual_only` is written after it;
- conversations that wait have no no-reply timer, although
  `客服系统边界说明.md:244` says the timing begins;
- a page of messages that cannot be read is sent with 200 as an empty last one;
- an update of settings whose read fails blanks the fields it leaves out, although
  `docs/API与WebSocket协议.md:317` says a blank API key keeps the old one, and a
  failed write is reported as done.

Each property of a passing run has a mutant: a plausible bug in one definition
(operators named `Faulty...`) that makes TLC find the property violated.

## 5. Proofs

All proofs are for any values of the constants that satisfy the named
assumptions of the module they are about. Their bounds (`MaxConversations`,
`MaxMessages`, `MaxTransactions` and so on) are any natural numbers.

`DispatchProofs`, for any finite set of agents, any limits and any number
of conversations:

- `TypeCorrect`: `Spec => []TypeOK`.
- `OwnershipCorrect`: status and owner agree, owners are registered, disabled
  agents serve nobody. The invariant is made inductive by `OwnershipInv`, which
  adds that conversations not yet created have no owner and no status.
- `CounterCorrect`: `CounterMatchesLoad`. The
  inductive invariant `CounterInv` needs ownership: a step that moves a
  conversation changes the load of exactly two agents because it has exactly one
  owner. The proof is about cardinalities of `Serving(a)`, with lemmas on adding
  and removing one conversation and on handing out a set of them.
- `OwnersServe`: `OwnersCanServe`, from ownership and types.
- `ClosedForever` and `DispatchCorrect`: the action properties `ClosedIsFinal` and
  `DispatchWithinLimits` from these invariants.
- `NobodySteals`: `NoStealing`.
- `DispatchImplementsOwnership`: every method of the memory store is one step of
  `Ownership` or none (`ActsAtOnce`), by one lemma per kind of operation. A
  method that moves several conversations takes them to one agent, or each to
  one of several, so it is one step of the abstract specification as well.

`MessagingProofs` proves `MSpec => Spec`: every step of the service with its
messages, AI calls and timers is a step of `Dispatch` or leaves it alone. The
invariant it needs is that goroutines belong to conversations. The counter and
closing theorems and `ActsAtOnce` follow for `MSpec`. Its own properties are
proved for any number of clients, message ids, messages, jobs and timers:

- `NothingFollowsClosing` (`ClosingComesLast`), `AnsweredOnce` (`AnsweredAtMostOnce`),
  `TimersSpareAnswered` (`EscalatesOnlyUnanswered`), `KeywordWorks`
  (`KeywordReachesHuman`);
- `UnreadIsRight` and `UnreadNeverAnswered`: both unread counters are those of the
  messages (`UnreadForVisitorCounts`, `UnreadForAgentIsUnanswered`);
- `MessagesTyped`: `MTypeOK`. Its bound on the length of a conversation needs that
  replies and messages of people can be paired: the AI answers each once, so it has
  written no more than people have (`TwiceTheBound`; invariant `Bounded`);
- `RetriesAreFound`: `WrittenOnce`, if no client pads its message ids with blanks
  (with blanks it is false: run `padded_ids`).

The inductive invariant `ServiceInv` joins four parts to the types. `OwnershipInv`
is that of `DispatchProofs`. `MTyped` says what the message variables hold.
`AskInv` says that a conversation that is gone or still to come has no messages,
that the last message is the newest one or none, and that what a job or a timer
was started for is a message of the visitor. `AnswerInv` says that what a job is
about to answer has no answer yet and that every answer comes after its message,
one per message. Most steps need one lemma only, which says what a step may write
and in which conversation.

`PgDispatchProofs`, for any number of agents, conversations, backends and
transactions:

- `TypeCorrect`: `TypeOK`, with its part that an uncommitted version exists only
  under a lock and a lock only in a transaction.
- `DeadlockOnlyThere`: `DeadlocksNeedClosingOrTransfer`. The inductive invariant
  `IInv` adds to the types what each transaction holds by where it is (`Holds`:
  an operation on an agent has its row from `work` on, one on a conversation has
  that, and before its first lock a transaction has none), that calls are
  well-formed (`WellCalled`) and that ids not given out have no row (`Unused`).
  From what a transaction holds and what it waits for the theorem derives that a
  cycle cannot close without a transaction that holds a conversation and waits for
  an agent it was told about, which only closing and transfers do: dispatch passes
  locked agents over.

`PgOwnershipProofs`, of the same module:

- `CountersRight` (`CounterCorrect`): counters agree with conversations at every commit,
  whichever transactions are rolled back;
- `OwnersRight` (`OwnersCanServe`): no dispatch or transfer ends at an agent that was
  deleted or disabled meanwhile;
- `UnreadRight` (`UnreadIsUnanswered`).

None of the three is inductive, because they are about committed rows only, and the
next commit may publish anything. The invariant `OInv` (`BooksKept`) joins `Books` to
`IInv`: the *newest* versions of the rows keep the same books as the committed ones.
Two cases are excepted: while a release loop is under way the counter of its agent is
already zero (`Releasing`), and a transaction about to commit the second closing of a
conversation has taken it off the counter twice (`Recloses`). That the books still
balance when some of the transactions commit and others roll back is `UnderLock`: a
conversation enters or leaves an agent's only under the lock of the agent's row, so
whoever ends takes away or leaves whole entries. `Known` says what each transaction
has found where it is. `RequestsAssumption` says that calls are those the service
makes: they name the conversation or the agent they are about, and an agent's message
its (authenticated) agent.

`PgRefinementProofs`: `PgImplementsOwnership` (`ActsAtOnce`). `EffectOf(t)` says, by
where transaction `t` is in its operation, what it has done to the rows it has
locked against their committed versions: edited one agent; handed out so many of an
agent's conversations, each receiver counting exactly those; taken up so many waiting
ones within the limit; given, closed, removed or moved one. `EffectsKept` shows that it
holds of every transaction at every moment. Steps of others leave it `Undisturbed`,
because it speaks of locked rows and of whose conversations they are, which nobody
changes without the agent's lock. At a commit `EffectOf` is what one step of
`Ownership` does, by one lemma per kind; every other step commits nothing and maps to
a stutter. The refinement says nothing of which free agent gets a conversation (see
`Ownership`) and needs no fairness.

`PartsProofs`, of six parts that stand alone:

- `TheLoopDispatches` (`LoopIsDispatch`) of `ReleaseLoop`, for any agents, maximums,
  counters and number of conversations. That the outcome is one `GreedyDispatch` allows
  is an invariant of the loop (`LoopInv`), stated of the conversations handed out so
  far: an agent the loop may choose next is one with room by that account
  (`RoomIsCandidacy`). That every outcome it allows leaves the same counters is a
  theorem about two distributions. If one gave some agent fewer than the other, it
  would have given another agent more (`NobodyHasFewer`: otherwise what each agent has
  in one could be matched with what it has in the other, and so all conversations with
  all but one), and then one of the two last picks was not the least loaded agent
  (`NobodyIsShort`).
- `TheLoopPicksUp` (`PickUpIsDispatch`) of `PickUpLoop`, for the same. By induction
  along the loop, what it has taken is what was pickable up to where it looked, its
  counter is the one it found and as many; so it stops for want of room or of
  conversations, and two sets that `OldestFirst` allows cannot differ.
- `NothingIsSkipped` (`PagesAreComplete`) of `Paging`, for any clocks, messages and
  sizes of pages. `BeforeIsAnOrder` says that (time, id) orders all messages, because
  no two have the same id; `SortedExists`, that they can then be put in order, each
  at the place that is the number of those before it; `PageFits`, what a page holds of
  that order. The invariant `PagingInv` says that the reader's cursor is the first
  message it has, and that what it does not have yet lies before the cursor; a failed
  read ends the reading and leaves this as it is.
- `PagesOfBothStores` (`StoresAgree`): with clocks that increase, the messages in order
  are the messages as written (`IncreasingIsIdentity`, by counting what lies below
  each), and both stores cut the same piece.
- `SessionsEnd` (`SessionsAreCurrent`) and `PasswordsAreKept`
  (`ChangesKnowThePassword`) of `Sessions`. The invariant adds the lock discipline (who
  has locked an account is in the part of its operation where it holds it, and marks
  only what is that account's) and that a live session that overlaps nothing has seen
  all changes. Seeds keep it, because they write only a row that no transaction has
  locked, and no session (`SeedKeeps`).
- `HoursAreKept` (`OpensAndCloses`) of `BusinessHours`, by the order of the two minutes
  and the step over midnight.
- `SettingsAreKept` (`UndoneOnlyInARace`) of `Settings`, for both fields. Its invariant
  `ReadsAreCurrent` says that a writer nobody overtook still has what is stored.

`RateLimiterProofs`: `RateIsKept` (`NeverAboveRate`) and `RefusalsAreDue`
(`RefusedOnlyAboveRate`), from `UnitsAssumption` and `RefillAssumption`. The
invariant `Paid` bounds what has passed since any reading by what the bucket has
lost since; `Kept` says that requests whose bucket is gone are so old that a
full bucket repays them. `Past` says that no request passed with a reading ahead of
the clock, and no handler waits longer than `MaxLag`: so a late reading is not further
behind those that passed, and takes back no more than that time brings.

`RealtimeProofs` proves of `Realtime`, for any nodes, workers, clients, placement
and capacity:

- `TypeCorrect`: no channel exceeds its capacity, and jobs and wires only hold
  events that were sent.
- `ClosedNeverSentTo`: the action property `ClosedIsLeftAlone`, from a lemma that
  says all a step may do to the channels (`StepOnChannels`).
- `RevokedTold`: `RevokedIsTold`. On its own it is not inductive, because closing
  comes a step after sending. `ClosersHaveTold` adds that a goroutine about to
  close a client has sent it the reason, unless somebody closed it before, and that
  targets are clients the event is for. What a client was given stays with it
  (`GivenGrows`), so having been told is never undone.
- `EventsInOrder`: `InOrder`. Of one sender's events, `ChainInv` orders everything a
  client has before what waits on its node's wire, that before what the node's
  consumer is delivering, and that before what the sender is sending now;
  `StreamInv` orders what the client has. It rests on there being one way from a
  sender to a client: its own hub, or the wire of another node, never both. Events
  whose `PUBLISH` was not answered are excepted where they come late or again
  (`MayRepeat`), and only there: they must not push another event out of its order.

Only model-checked, not proved:

- liveness (`AskedIsAnswered`, `SilenceEnds`, `RevocationDisconnects`,
  `TransactionsEnd`): the prover does not reason about fairness.

Every other property of a run that passes is also a theorem.

## 6. Not modelled

The components marked `not_modelled` in `PROJECT.json`: uploads, configuration,
encryption, CSV and audit output, the push webhook, the user interfaces, shell scripts
and deployment files are I/O and formatting without state of their own; remarks,
ratings, contacts, audit records, push devices and statistics are single writes or
reads of their own records, with no interleaving to get wrong. The apps' socket is
single-threaded JavaScript; what it may send after a reconnection is refused by the
server, where the login has changed. Message content, remarks and display names are
abstracted everywhere. The memory store loses everything in a crash, so a crash is no
action of `Dispatch`; in `PgDispatch` it is `TimeOut`.
