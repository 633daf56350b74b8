---------------------------- MODULE RateLimiter -----------------------------
(***************************************************************************)
(* The token buckets of the HTTP router (backend/internal/httpx/router.go).*)
(* A handler reads the clock before it takes the limiter's mutex, so       *)
(* readings reach a bucket out of order and the elapsed time is negative.  *)
(* Tokens and time are counted in units that make the rate whole: a        *)
(* request costs Cost, a tick brings Rate, and a bucket holds Full.        *)
(***************************************************************************)
EXTENDS Integers, Sequences, FiniteSets

CONSTANTS
  Keys,        \* client addresses, as the limiters distinguish them
  Handlers,    \* goroutines of the HTTP server
  Rate, Cost, Full,
  ManyKeys,    \* how many buckets are kept without looking for idle ones
  IdleTime,    \* ten minutes
  MaxLag,      \* how long a goroutine waits for the mutex at most
  LastTick     \* bound on the clock

ASSUME UnitsAssumption ==
  /\ Rate \in Nat /\ Cost \in Nat \ {0} /\ Full \in Nat /\ Cost <= Full
  /\ ManyKeys \in Nat /\ IdleTime \in Nat /\ MaxLag \in Nat /\ LastTick \in Nat

\* A bucket fills up in less than the time after which it is dropped.  The
\* default rates do by far (20 a second, 60 at once); configurations that do not
\* are accepted.
ASSUME RefillAssumption == Full <= Rate * (IdleTime - 2 * MaxLag)

NotReading == [key |-> "none", now |-> 0]

VARIABLES
  clock,
  reading,  \* the request a handler is about to pass through the limiter
  bucket,   \* rateClient of each key; known is FALSE when there is none
  passed    \* history: the readings of a key's requests that were let through

limiterVars == <<clock, reading, bucket, passed>>

NoBucket == [known |-> FALSE, tokens |-> 0, seenAt |-> 0]
Bucket(tokens, now) == [known |-> TRUE, tokens |-> tokens, seenAt |-> now]

Capped(n) == IF n < Full THEN n ELSE Full

-----------------------------------------------------------------------------
Tick ==
  /\ clock < LastTick
  /\ \A h \in Handlers : reading[h] # NotReading => clock - reading[h].now < MaxLag
  /\ clock' = clock + 1
  /\ UNCHANGED <<reading, bucket, passed>>

\* limiter.allow(key, time.Now()): the argument before the call.
Read(h, k) ==
  /\ reading[h] = NotReading
  /\ reading' = [reading EXCEPT ![h] = [key |-> k, now |-> clock]]
  /\ UNCHANGED <<clock, bucket, passed>>

\* Fault: the bucket is refilled without a limit.
FaultyRefilled(k, now) == bucket[k].tokens + (now - bucket[k].seenAt) * Rate

Refilled(k, now) == Capped(bucket[k].tokens + (now - bucket[k].seenAt) * Rate)

LetThrough(k, now) == passed' = [passed EXCEPT ![k] = Append(@, now)]

\* A key without a bucket gets a full one and is let through.
AllowNew(h) ==
  LET k == reading[h].key
      now == reading[h].now
  IN /\ reading[h] # NotReading
     /\ ~bucket[k].known
     /\ bucket' = [bucket EXCEPT ![k] = Bucket(Full - Cost, now)]
     /\ LetThrough(k, now)
     /\ reading' = [reading EXCEPT ![h] = NotReading]
     /\ UNCHANGED clock

\* Idle buckets are dropped when there are many, after a known key's request only.
Dropped(j, now) ==
  /\ Cardinality({i \in Keys : bucket[i].known}) > ManyKeys
  /\ bucket[j].seenAt < now - IdleTime

AllowKnown(h) ==
  LET k == reading[h].key
      now == reading[h].now
  IN /\ reading[h] # NotReading
     /\ bucket[k].known
     /\ Refilled(k, now) >= Cost
     /\ bucket' = [j \in Keys |-> IF j = k THEN Bucket(Refilled(k, now) - Cost, now)
                                  ELSE IF Dropped(j, now) THEN NoBucket ELSE bucket[j]]
     /\ LetThrough(k, now)
     /\ reading' = [reading EXCEPT ![h] = NotReading]
     /\ UNCHANGED clock

\* Fault: a refused request costs as much as one that is let through.
FaultyRefuse(h) ==
  LET k == reading[h].key
      now == reading[h].now
  IN /\ reading[h] # NotReading
     /\ bucket[k].known
     /\ Refilled(k, now) < Cost
     /\ bucket' = [bucket EXCEPT ![k] = Bucket(Refilled(k, now) - Cost, now)]
     /\ reading' = [reading EXCEPT ![h] = NotReading]
     /\ UNCHANGED <<clock, passed>>

\* Too many requests: the bucket keeps what it has.
Refuse(h) ==
  LET k == reading[h].key
      now == reading[h].now
  IN /\ reading[h] # NotReading
     /\ bucket[k].known
     /\ Refilled(k, now) < Cost
     /\ bucket' = [bucket EXCEPT ![k] = Bucket(Refilled(k, now), now)]
     /\ reading' = [reading EXCEPT ![h] = NotReading]
     /\ UNCHANGED <<clock, passed>>

LimiterInit ==
  /\ clock = 0
  /\ reading = [h \in Handlers |-> NotReading]
  /\ bucket = [k \in Keys |-> NoBucket]
  /\ passed = [k \in Keys |-> << >>]

LimiterNext ==
  \/ Tick
  \/ \E h \in Handlers : \/ \E k \in Keys : Read(h, k)
                         \/ AllowNew(h) \/ AllowKnown(h) \/ Refuse(h)

LimiterSpec == LimiterInit /\ [][LimiterNext]_limiterVars

-----------------------------------------------------------------------------
\* What request i of a key and those let through after it cost.
CostSince(k, i) == (Len(passed[k]) - i + 1) * Cost

\* Between any two of its requests a key is let through at most what a full
\* bucket and the time between them pay for: not more when readings come out of
\* order, nor when its bucket is dropped in between.
NeverAboveRate ==
  \A k \in Keys : \A i, j \in DOMAIN passed[k] :
    i <= j => (j - i + 1) * Cost <= Full + Rate * (passed[k][j] - passed[k][i])

\* A request is refused only if letting it through would break that, a request
\* refused before or a bucket dropped notwithstanding.  The exception is a reading
\* that comes late, after the request with a later one: allow takes tokens back for
\* the negative time, and refuses what in the order of the clock would have been
\* let through.  Even then the client lacks no more than MaxLag brings, and the next
\* reading in order gives it back.
RefusedOnlyAboveRate ==
  [][\A h \in Handlers :
       LET k == reading[h].key
           now == reading[h].now
       IN (reading[h] # NotReading /\ reading'[h] = NotReading /\ passed' = passed)
            => \E i \in DOMAIN passed[k] :
                 IF passed[k][i] <= now
                 THEN CostSince(k, i) + Cost > Full + Rate * (now - passed[k][i])
                 ELSE CostSince(k, i) + Cost > Full - Rate * MaxLag]_limiterVars

=============================================================================
