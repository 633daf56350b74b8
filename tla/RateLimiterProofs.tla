-------------------------- MODULE RateLimiterProofs --------------------------
(***************************************************************************)
(* The limiter keeps its rate in both directions, for any clients,         *)
(* handlers, rates and clocks: nothing above it is let through, and a      *)
(* request below it is refused only when its reading comes late, for what  *)
(* MaxLag brings at most.  A bucket's tokens are tied to the requests it   *)
(* let through by two inequalities; that they survive the bucket being     *)
(* dropped needs RefillAssumption.                                         *)
(***************************************************************************)
EXTENDS RateLimiter, TLAPS

Readings == [key : Keys \cup {"none"}, now : Nat]

Typed ==
  /\ clock \in Nat
  /\ reading \in [Handlers -> Readings]
  /\ bucket \in [Keys -> [known : BOOLEAN, tokens : Int, seenAt : Nat]]
  /\ passed \in [Keys -> Seq(Nat)]

\* A request waits for the mutex for MaxLag at most.
Fresh ==
  \A h \in Handlers : reading[h] # NotReading =>
    /\ reading[h].key \in Keys
    /\ clock - MaxLag <= reading[h].now /\ reading[h].now <= clock

\* Readings out of order take tokens, but no more than the lag is worth.
LowerBound ==
  \A k \in Keys : bucket[k].known =>
    /\ bucket[k].seenAt <= clock
    /\ bucket[k].tokens >= Rate * bucket[k].seenAt - Rate * clock
    /\ bucket[k].tokens >= 0 - Rate * MaxLag

\* The tokens and the requests let through since any of them are paid for.
Paid ==
  \A k \in Keys : \A i \in DOMAIN passed[k] :
    /\ bucket[k].known =>
         CostSince(k, i) + bucket[k].tokens
           <= Full + (Rate * bucket[k].seenAt - Rate * passed[k][i])
    /\ ~bucket[k].known =>
         CostSince(k, i) <= Rate * (clock - MaxLag) - Rate * passed[k][i]

\* Since one of them, when the bucket was last full, nothing was lost.
Kept ==
  \A k \in Keys : bucket[k].known =>
    \E i \in DOMAIN passed[k] :
      CostSince(k, i) + bucket[k].tokens
        >= Full + (Rate * bucket[k].seenAt - Rate * passed[k][i])

\* Nothing was let through at a reading still to come.
Past == \A k \in Keys : \A i \in DOMAIN passed[k] : passed[k][i] <= clock

IInv == Typed /\ Fresh /\ LowerBound /\ Paid /\ Kept /\ NeverAboveRate /\ Past

-----------------------------------------------------------------------------
LEMMA Distributes ==
  ASSUME NEW r \in Int, NEW a \in Int, NEW b \in Int
  PROVE  /\ r * (a - b) = r * a - r * b /\ (a - b) * r = r * a - r * b
         /\ r * (a + b) = r * a + r * b /\ (a + b) * r = r * a + r * b
  OBVIOUS

LEMMA Grows ==
  ASSUME NEW r \in Nat, NEW a \in Int, NEW b \in Int, a <= b
  PROVE  r * a <= r * b
  OBVIOUS

LEMMA Product ==
  ASSUME NEW r \in Int, NEW a \in Int
  PROVE  r * a \in Int /\ a * r \in Int
  OBVIOUS

LEMMA CostOfOneMore ==
  ASSUME NEW n \in Nat, NEW i \in Nat
  PROVE  (n + 1 - i + 1) * Cost = (n - i + 1) * Cost + Cost
  BY UnitsAssumption

\* What a handler's turn at the mutex may rely on.
LEMMA AtTheMutex ==
  ASSUME IInv, NEW h \in Handlers, reading[h] # NotReading
  PROVE  LET k == reading[h].key
             now == reading[h].now
         IN /\ k \in Keys /\ now \in Nat /\ clock \in Nat
            /\ clock - MaxLag <= now /\ now <= clock
            /\ Rate * now \in Int /\ Rate * clock \in Int /\ Rate * MaxLag \in Int
            /\ Rate * clock - Rate * MaxLag <= Rate * now /\ Rate * now <= Rate * clock
            /\ bucket[k].tokens \in Int /\ bucket[k].seenAt \in Nat
            /\ Rate * bucket[k].seenAt \in Int
            /\ Refilled(k, now) \in Int
            /\ Refilled(k, now) <= Full
            /\ Refilled(k, now) <= bucket[k].tokens + Rate * now - Rate * bucket[k].seenAt
            /\ \/ Refilled(k, now) = Full
               \/ Refilled(k, now) = bucket[k].tokens + Rate * now - Rate * bucket[k].seenAt
<1> DEFINE k == reading[h].key
           now == reading[h].now
<1>1. /\ k \in Keys /\ now \in Nat /\ clock \in Nat
      /\ clock - MaxLag <= now /\ now <= clock
      /\ bucket[k].tokens \in Int /\ bucket[k].seenAt \in Nat
  BY DEF IInv, Typed, Fresh, Readings
<1>2. Rate \in Nat /\ MaxLag \in Nat /\ Full \in Nat
  BY UnitsAssumption
<1>3. Rate * now \in Int /\ Rate * clock \in Int /\ Rate * MaxLag \in Int /\ Rate * bucket[k].seenAt \in Int
  BY <1>1, <1>2
<1>4. Rate * (clock - MaxLag) <= Rate * now /\ Rate * now <= Rate * clock
  BY <1>1, <1>2, Grows
<1>5. Rate * (clock - MaxLag) = Rate * clock - Rate * MaxLag
  BY <1>1, <1>2, Distributes
<1>6. (now - bucket[k].seenAt) * Rate = Rate * now - Rate * bucket[k].seenAt
  BY <1>1, <1>2, Distributes
<1>7. Refilled(k, now) = Capped(bucket[k].tokens + (Rate * now - Rate * bucket[k].seenAt))
  BY <1>6 DEF Refilled
<1>8. /\ Refilled(k, now) \in Int
      /\ Refilled(k, now) <= Full
      /\ Refilled(k, now) <= bucket[k].tokens + Rate * now - Rate * bucket[k].seenAt
      /\ \/ Refilled(k, now) = Full
         \/ Refilled(k, now) = bucket[k].tokens + Rate * now - Rate * bucket[k].seenAt
  BY <1>1, <1>2, <1>3, <1>7 DEF Capped
<1> QED
  BY <1>1, <1>3, <1>4, <1>5, <1>8

-----------------------------------------------------------------------------
LEMMA InitIInv == LimiterInit => IInv
  BY UnitsAssumption DEF LimiterInit, IInv, Typed, Fresh, LowerBound, Paid, Kept,
     NeverAboveRate, Past, NoBucket, NotReading, Readings

LEMMA TickKeeps ==
  ASSUME IInv, Tick
  PROVE  IInv'
<1>1. /\ clock \in Nat /\ clock' = clock + 1 /\ clock' \in Nat
      /\ reading' = reading /\ bucket' = bucket /\ passed' = passed
  BY DEF IInv, Typed, Tick
<1>2. Rate \in Nat /\ MaxLag \in Nat
  BY UnitsAssumption
<1>3. Rate * clock <= Rate * clock' /\ Rate * clock \in Int /\ Rate * clock' \in Int
  BY <1>1, <1>2, Grows
<1>4. /\ Rate * (clock - MaxLag) <= Rate * (clock' - MaxLag)
      /\ Rate * (clock - MaxLag) \in Int /\ Rate * (clock' - MaxLag) \in Int
  BY <1>1, <1>2, Grows
<1>5. Typed'
  BY <1>1 DEF IInv, Typed
<1>6. Fresh'
  BY <1>1, <1>2 DEF IInv, Typed, Fresh, Tick, Readings
<1>7. LowerBound'
  <2> SUFFICES ASSUME NEW k \in Keys, bucket[k].known
               PROVE  /\ bucket[k].seenAt <= clock'
                      /\ bucket[k].tokens >= Rate * bucket[k].seenAt - Rate * clock'
                      /\ bucket[k].tokens >= 0 - Rate * MaxLag
    BY <1>1 DEF LowerBound
  <2>1. bucket[k].seenAt \in Nat /\ bucket[k].tokens \in Int /\ Rate * bucket[k].seenAt \in Int
    BY <1>2 DEF IInv, Typed
  <2>2. /\ bucket[k].seenAt <= clock
        /\ bucket[k].tokens >= Rate * bucket[k].seenAt - Rate * clock
        /\ bucket[k].tokens >= 0 - Rate * MaxLag
    BY DEF IInv, LowerBound
  <2> QED
    BY <2>1, <2>2, <1>1, <1>3
<1>8. Paid'
  <2> SUFFICES ASSUME NEW k \in Keys, NEW i \in DOMAIN passed[k], ~bucket[k].known
               PROVE  CostSince(k, i) <= Rate * (clock' - MaxLag) - Rate * passed[k][i]
    BY <1>1 DEF Paid, CostSince, IInv
  <2>1. /\ i \in Nat /\ Len(passed[k]) \in Nat /\ passed[k][i] \in Nat
        /\ Rate * passed[k][i] \in Int
    BY <1>2 DEF IInv, Typed
  <2>2. CostSince(k, i) \in Int
    BY <2>1, UnitsAssumption DEF CostSince
  <2>3. CostSince(k, i) <= Rate * (clock - MaxLag) - Rate * passed[k][i]
    BY DEF IInv, Paid
  <2> QED
    BY <1>4, <2>1, <2>2, <2>3
<1>9. Kept' /\ NeverAboveRate'
  BY <1>1 DEF IInv, Kept, CostSince, NeverAboveRate
<1>10. Past'
  <2>1. \A k \in Keys : \A i \in DOMAIN passed[k] : passed[k][i] \in Nat /\ passed[k][i] <= clock
    BY DEF IInv, Typed, Past
  <2> QED
    BY <2>1, <1>1 DEF Past
<1> QED
  BY <1>5, <1>6, <1>7, <1>8, <1>9, <1>10 DEF IInv

LEMMA ReadKeeps ==
  ASSUME IInv, NEW h \in Handlers, NEW k \in Keys, Read(h, k)
  PROVE  IInv'
<1>1. Typed' /\ Fresh'
  BY UnitsAssumption DEF IInv, Read, Typed, Fresh, Readings, NotReading
<1>2. LowerBound' /\ Paid' /\ Kept' /\ NeverAboveRate' /\ Past'
  BY DEF IInv, Read, LowerBound, Paid, Kept, NeverAboveRate, Past, CostSince
<1> QED
  BY <1>1, <1>2 DEF IInv

\* The terms of the inequalities are numbers.
LEMMA Numbers ==
  ASSUME IInv, NEW k \in Keys, NEW i \in DOMAIN passed[k]
  PROVE  /\ i \in 1..Len(passed[k]) /\ Len(passed[k]) \in Nat
         /\ passed[k][i] \in Nat /\ Rate * passed[k][i] \in Int
         /\ CostSince(k, i) \in Int
<1>1. /\ i \in 1..Len(passed[k]) /\ Len(passed[k]) \in Nat /\ passed[k][i] \in Nat
      /\ Rate \in Nat /\ Cost \in Nat
  BY UnitsAssumption DEF IInv, Typed
<1>2. Rate * passed[k][i] \in Int
  BY <1>1, Product
<1>3. (Len(passed[k]) - i + 1) * Cost \in Int
  BY <1>1, Product
<1> QED
  BY <1>1, <1>2, <1>3 DEF CostSince

\* A bucket of another client: as it was, or dropped when it may be.
Undisturbed(c) ==
  \/ bucket'[c] = bucket[c]
  \/ /\ ~bucket'[c].known
     /\ \A i \in DOMAIN passed[c] :
          CostSince(c, i) <= Rate * (clock - MaxLag) - Rate * passed[c][i]

\* At reading now client k has n tokens, not more and not less than it has saved.
Covered(k, now, n) ==
  \A i \in DOMAIN passed[k] : CostSince(k, i) + n <= Full + (Rate * now - Rate * passed[k][i])
Saved(k, now, n) ==
  n = Full \/ \E i \in DOMAIN passed[k] :
                CostSince(k, i) + n >= Full + (Rate * now - Rate * passed[k][i])

\* A request of k with reading now finds n tokens in the bucket and is let through.
LEMMA LettingThrough ==
  ASSUME IInv, NEW k \in Keys, NEW now \in Nat, NEW n \in Int,
         n >= Cost, n <= Full, now <= clock, clock' = clock,
         passed' = [passed EXCEPT ![k] = Append(@, now)],
         bucket'[k] = Bucket(n - Cost, now),
         \A c \in Keys \ {k} : Undisturbed(c),
         Covered(k, now, n), Saved(k, now, n)
  PROVE  LowerBound' /\ Paid' /\ Kept' /\ NeverAboveRate' /\ Past'
<1>1. /\ passed \in [Keys -> Seq(Nat)] /\ clock \in Nat
      /\ Cost \in Nat /\ Rate \in Nat /\ Full \in Nat /\ MaxLag \in Nat
  BY UnitsAssumption DEF IInv, Typed
<1>2. /\ bucket'[k].known /\ bucket'[k].tokens = n - Cost /\ bucket'[k].seenAt = now
  BY DEF Bucket
<1>3. /\ \A c \in Keys \ {k} : passed'[c] = passed[c] /\ \A i : CostSince(c, i)' = CostSince(c, i)
      /\ passed'[k] = Append(passed[k], now)
  BY <1>1 DEF CostSince
<1>4. /\ Rate * now \in Int /\ Rate * clock \in Int /\ Rate * MaxLag \in Int
      /\ Rate * now <= Rate * clock /\ Rate * MaxLag >= 0
  <2>1. Rate * 0 <= Rate * MaxLag
    BY <1>1, Grows
  <2> QED
    BY <2>1, <1>1, Product, Grows
\* The requests of k, the new one included.
<1>5. \A i \in DOMAIN passed[k] :
        /\ i \in DOMAIN passed'[k] /\ passed'[k][i] = passed[k][i]
        /\ CostSince(k, i)' = CostSince(k, i) + Cost
  <2> TAKE i \in DOMAIN passed[k]
  <2>1. /\ i \in 1..Len(passed[k]) /\ Len(passed[k]) \in Nat /\ i \in Nat
    BY Numbers
  <2>2. i \in DOMAIN passed'[k] /\ passed'[k][i] = passed[k][i] /\ Len(passed'[k]) = Len(passed[k]) + 1
    BY <2>1, <1>1, <1>3
  <2>3. (Len(passed[k]) + 1 - i + 1) * Cost = (Len(passed[k]) - i + 1) * Cost + Cost
    BY <2>1, CostOfOneMore
  <2> QED
    BY <2>2, <2>3 DEF CostSince
<1> DEFINE last == Len(passed[k]) + 1
<1>6. /\ last \in DOMAIN passed'[k] /\ passed'[k][last] = now
      /\ DOMAIN passed'[k] = DOMAIN passed[k] \cup {last}
  BY <1>1, <1>3
<1>8. (Len(passed'[k]) - last + 1) * Cost = Cost
  <2>1. Len(passed[k]) \in Nat /\ Len(passed'[k]) = Len(passed[k]) + 1
    BY <1>1, <1>3
  <2>2. Len(passed'[k]) - last + 1 = 1 /\ 1 * Cost = Cost
    BY <2>1, <1>1
  <2> QED
    BY <2>2
<1>9. LowerBound'
  <2> SUFFICES ASSUME NEW c \in Keys, bucket'[c].known
               PROVE  /\ bucket'[c].seenAt <= clock'
                      /\ bucket'[c].tokens >= Rate * bucket'[c].seenAt - Rate * clock'
                      /\ bucket'[c].tokens >= 0 - Rate * MaxLag
    BY DEF LowerBound
  <2>1. CASE c = k
    <3>1. n - Cost >= 0 /\ n - Cost \in Int
      BY <1>1
    <3> QED
      BY <2>1, <3>1, <1>2, <1>4
  <2>2. CASE c # k
    BY <2>2 DEF IInv, LowerBound, Undisturbed
  <2> QED
    BY <2>1, <2>2
<1>10. Paid'
  <2> SUFFICES ASSUME NEW c \in Keys, NEW i \in DOMAIN passed'[c]
               PROVE  /\ bucket'[c].known =>
                           (Len(passed'[c]) - i + 1) * Cost + bucket'[c].tokens
                             <= Full + (Rate * bucket'[c].seenAt - Rate * passed'[c][i])
                      /\ ~bucket'[c].known =>
                           (Len(passed'[c]) - i + 1) * Cost
                             <= Rate * (clock' - MaxLag) - Rate * passed'[c][i]
    BY DEF Paid, CostSince
  <2>1. CASE c # k
    BY <2>1, <1>3 DEF IInv, Paid, CostSince, Undisturbed
  <2>2. CASE c = k /\ i \in DOMAIN passed[k]
    <3>1. (Len(passed'[k]) - i + 1) * Cost = CostSince(k, i) + Cost
      BY <2>2, <1>5 DEF CostSince
    <3>2. CostSince(k, i) + n <= Full + (Rate * now - Rate * passed[k][i])
      BY <2>2 DEF Covered
    <3>3. CostSince(k, i) \in Int /\ Rate * passed[k][i] \in Int
      BY <2>2, Numbers
    <3>4. CostSince(k, i) + Cost + (n - Cost) <= Full + (Rate * now - Rate * passed[k][i])
      BY <3>2, <3>3, <1>1, <1>4
    <3> QED
      BY <2>2, <3>1, <3>4, <1>2, <1>5
  <2>3. CASE c = k /\ i = last
    <3>1. Cost + (n - Cost) <= Full + (Rate * now - Rate * now)
      BY <1>1, <1>4
    <3> QED
      BY <2>3, <3>1, <1>2, <1>6, <1>8
  <2> QED
    BY <2>1, <2>2, <2>3, <1>6
<1>11. Kept'
  <2> SUFFICES ASSUME NEW c \in Keys, bucket'[c].known
               PROVE  \E i \in DOMAIN passed'[c] :
                        (Len(passed'[c]) - i + 1) * Cost + bucket'[c].tokens
                          >= Full + (Rate * bucket'[c].seenAt - Rate * passed'[c][i])
    BY DEF Kept, CostSince
  <2>1. CASE c # k
    BY <2>1, <1>3 DEF IInv, Kept, CostSince, Undisturbed
  <2>2. CASE c = k /\ n = Full
    <3>1. Cost + (n - Cost) >= Full + (Rate * now - Rate * now)
      BY <2>2, <1>1, <1>4
    <3> QED
      BY <2>2, <3>1, <1>2, <1>6, <1>8
  <2>3. CASE c = k /\ n # Full
    <3>1. PICK i \in DOMAIN passed[k] :
            CostSince(k, i) + n >= Full + (Rate * now - Rate * passed[k][i])
      BY <2>3 DEF Saved
    <3>2. (Len(passed'[k]) - i + 1) * Cost = CostSince(k, i) + Cost
      BY <1>5 DEF CostSince
    <3>3. CostSince(k, i) \in Int /\ Rate * passed[k][i] \in Int
      BY Numbers
    <3>4. CostSince(k, i) + Cost + (n - Cost) >= Full + (Rate * now - Rate * passed[k][i])
      BY <3>1, <3>3, <1>1, <1>4
    <3> QED
      BY <2>3, <3>2, <3>4, <1>2, <1>5
  <2> QED
    BY <2>1, <2>2, <2>3
<1>12. NeverAboveRate'
  <2> SUFFICES ASSUME NEW c \in Keys, NEW i \in DOMAIN passed'[c], NEW j \in DOMAIN passed'[c],
                      i <= j
               PROVE  (j - i + 1) * Cost <= Full + Rate * (passed'[c][j] - passed'[c][i])
    BY DEF NeverAboveRate
  <2>1. CASE c # k
    BY <2>1, <1>3 DEF IInv, NeverAboveRate
  <2>2. CASE c = k /\ j \in DOMAIN passed[k]
    <3>1. i \in DOMAIN passed[k]
      BY <2>2, <1>1, <1>6
    <3> QED
      BY <2>2, <3>1, <1>5 DEF IInv, NeverAboveRate
  <2>3. CASE c = k /\ j = last /\ i \in DOMAIN passed[k]
    <3>1. (j - i + 1) * Cost = CostSince(k, i) + Cost
      BY <2>3, <1>1, CostOfOneMore DEF CostSince
    <3>2. Rate * (now - passed[k][i]) = Rate * now - Rate * passed[k][i]
      BY <2>3, <1>1, Distributes, Numbers
    <3>3. CostSince(k, i) + n <= Full + (Rate * now - Rate * passed[k][i])
      BY <2>3 DEF Covered
    <3>4. CostSince(k, i) \in Int /\ Rate * passed[k][i] \in Int
      BY <2>3, Numbers
    <3>5. CostSince(k, i) + Cost <= CostSince(k, i) + n
      BY <3>4, <1>1
    <3>6. Full + (Rate * now - Rate * passed[k][i]) \in Int /\ CostSince(k, i) + n \in Int
      BY <3>4, <1>1, <1>4, SMTT(30)
    <3>7. CostSince(k, i) + Cost <= Full + (Rate * now - Rate * passed[k][i])
      BY <3>3, <3>5, <3>6, <3>4, <1>1
    <3>8. passed'[c][j] = now /\ passed'[c][i] = passed[k][i]
      BY <2>3, <1>5, <1>6
    <3> QED
      BY <3>1, <3>2, <3>7, <3>8
  <2>4. CASE c = k /\ j = last /\ i = last
    <3>1. j - i + 1 = 1 /\ passed'[c][j] - passed'[c][i] = 0
      BY <2>4, <1>1, <1>6
    <3>2. (j - i + 1) * Cost = Cost
      BY <3>1, <1>1
    <3>3. Rate * (passed'[c][j] - passed'[c][i]) = 0
      BY <3>1, <1>1
    <3>4. Cost <= Full + 0
      BY UnitsAssumption
    <3> QED
      BY <3>2, <3>3, <3>4
  <2> QED
    BY <2>1, <2>2, <2>3, <2>4, <1>6
<1>13. Past'
  <2> SUFFICES ASSUME NEW c \in Keys, NEW i \in DOMAIN passed'[c]
               PROVE  passed'[c][i] <= clock
    BY DEF Past
  <2>1. CASE c # k
    BY <2>1, <1>3 DEF IInv, Past
  <2>2. CASE c = k /\ i \in DOMAIN passed[k]
    BY <2>2, <1>5 DEF IInv, Past
  <2>3. CASE c = k /\ i = last
    BY <2>3, <1>6
  <2> QED
    BY <2>1, <2>2, <2>3, <1>6
<1> QED
  BY <1>9, <1>10, <1>11, <1>12, <1>13

LEMMA AllowNewKeeps ==
  ASSUME IInv, NEW h \in Handlers, AllowNew(h)
  PROVE  IInv'
<1>1. PICK k \in Keys, now \in Nat :
        /\ k = reading[h].key /\ now = reading[h].now /\ reading[h] # NotReading
        /\ clock - MaxLag <= now /\ now <= clock
  BY AtTheMutex DEF AllowNew
<1>2. /\ ~bucket[k].known
      /\ bucket' = [bucket EXCEPT ![k] = Bucket(Full - Cost, now)]
      /\ passed' = [passed EXCEPT ![k] = Append(@, now)]
      /\ reading' = [reading EXCEPT ![h] = NotReading]
      /\ clock' = clock
  BY <1>1 DEF AllowNew, LetThrough
<1>3. /\ Rate \in Nat /\ MaxLag \in Nat /\ Full \in Nat /\ Cost \in Nat /\ Cost <= Full
      /\ clock \in Nat
      /\ bucket \in [Keys -> [known : BOOLEAN, tokens : Int, seenAt : Nat]]
      /\ passed \in [Keys -> Seq(Nat)] /\ reading \in [Handlers -> Readings]
  BY UnitsAssumption DEF IInv, Typed
<1>4. Bucket(Full - Cost, now) \in [known : BOOLEAN, tokens : Int, seenAt : Nat]
  BY <1>3 DEF Bucket
<1>5. Typed'
  BY <1>1, <1>2, <1>3, <1>4 DEF Typed, Readings, NotReading
<1>6. Fresh'
  BY <1>2, <1>3 DEF IInv, Fresh
\* What was let through before the bucket was dropped has been paid for.
<1>7. Covered(k, now, Full)
  <2> SUFFICES ASSUME NEW i \in DOMAIN passed[k]
               PROVE  CostSince(k, i) + Full <= Full + (Rate * now - Rate * passed[k][i])
    BY DEF Covered
  <2>1. CostSince(k, i) <= Rate * (clock - MaxLag) - Rate * passed[k][i]
    BY <1>2 DEF IInv, Paid
  <2>2. Rate * (clock - MaxLag) <= Rate * now
    <3>1. clock - MaxLag \in Int /\ now \in Int /\ clock - MaxLag <= now /\ Rate \in Nat
      BY <1>1, <1>3
    <3> QED
      BY <3>1, Grows
  <2>3. Rate * (clock - MaxLag) \in Int /\ Rate * now \in Int
    BY <1>3, Product
  <2>4. CostSince(k, i) \in Int /\ Rate * passed[k][i] \in Int
    BY Numbers
  <2>5. Full \in Int
    BY <1>3
  <2> QED
    BY <2>1, <2>2, <2>3, <2>4, <2>5
<1>8. Saved(k, now, Full) /\ \A c \in Keys \ {k} : Undisturbed(c)
  BY <1>2, <1>3 DEF Saved, Undisturbed
<1>9. bucket'[k] = Bucket(Full - Cost, now)
  BY <1>2, <1>3
<1>10. Full >= Cost /\ Full <= Full /\ Full \in Int
  BY <1>3
<1>11. LowerBound' /\ Paid' /\ Kept' /\ NeverAboveRate' /\ Past'
  BY <1>1, <1>2, <1>7, <1>8, <1>9, <1>10, LettingThrough
<1> QED
  BY <1>5, <1>6, <1>11 DEF IInv

\* A known client finds min(Full, what it had and what came since).
LEMMA RefilledIs ==
  ASSUME IInv, NEW k \in Keys, NEW now \in Nat, bucket[k].known
  PROVE  /\ Refilled(k, now) \in Int /\ Refilled(k, now) <= Full
         /\ Covered(k, now, Refilled(k, now)) /\ Saved(k, now, Refilled(k, now))
         /\ \/ Refilled(k, now) = Full
            \/ Refilled(k, now) = bucket[k].tokens + (Rate * now - Rate * bucket[k].seenAt)
<1> DEFINE n == Refilled(k, now)
           raw == bucket[k].tokens + (Rate * now - Rate * bucket[k].seenAt)
<1>1. /\ bucket[k].tokens \in Int /\ bucket[k].seenAt \in Nat /\ Rate \in Nat /\ Full \in Nat
      /\ Rate * now \in Int /\ Rate * bucket[k].seenAt \in Int
  BY UnitsAssumption, Product DEF IInv, Typed
<1>2. (now - bucket[k].seenAt) * Rate = Rate * now - Rate * bucket[k].seenAt
  BY <1>1, Distributes
<1>3. n = Capped(raw)
  BY <1>2 DEF Refilled
<1>4. n \in Int /\ n <= Full /\ n <= raw /\ (n = Full \/ n = raw) /\ raw \in Int
  BY <1>1, <1>3 DEF Capped
<1> HIDE DEF n
<1>5. Covered(k, now, n)
  <2> SUFFICES ASSUME NEW i \in DOMAIN passed[k]
               PROVE  CostSince(k, i) + n <= Full + (Rate * now - Rate * passed[k][i])
    BY DEF Covered
  <2>1. CostSince(k, i) + bucket[k].tokens <= Full + (Rate * bucket[k].seenAt - Rate * passed[k][i])
    BY DEF IInv, Paid
  <2>2. CostSince(k, i) \in Int /\ Rate * passed[k][i] \in Int
    BY Numbers
  <2> QED
    BY <2>1, <2>2, <1>1, <1>4
<1>6. Saved(k, now, n)
  <2>1. CASE n = Full
    BY <2>1 DEF Saved
  <2>2. CASE n = raw
    <3>1. PICK i \in DOMAIN passed[k] :
            CostSince(k, i) + bucket[k].tokens >= Full + (Rate * bucket[k].seenAt - Rate * passed[k][i])
      BY DEF IInv, Kept
    <3>2. CostSince(k, i) + n >= Full + (Rate * now - Rate * passed[k][i])
      <4>1. CostSince(k, i) \in Int /\ Rate * passed[k][i] \in Int
        BY Numbers
      <4> QED
        BY <2>2, <3>1, <4>1, <1>1
    <3> QED
      BY <3>2 DEF Saved
  <2> QED
    BY <2>1, <2>2, <1>4
<1> QED
  BY <1>4, <1>5, <1>6 DEF n

\* A bucket is dropped only when its client could have filled it up meanwhile.
LEMMA DroppedIsPaid ==
  ASSUME IInv, NEW c \in Keys, NEW now \in Nat, now <= clock, bucket[c].known, Dropped(c, now),
         NEW i \in DOMAIN passed[c]
  PROVE  CostSince(c, i) <= Rate * (clock - MaxLag) - Rate * passed[c][i]
<1>1. /\ Rate \in Nat /\ MaxLag \in Nat /\ Full \in Nat /\ IdleTime \in Nat /\ clock \in Nat
      /\ bucket[c].tokens \in Int /\ bucket[c].seenAt \in Nat
      /\ bucket[c].seenAt < now - IdleTime
  BY UnitsAssumption DEF IInv, Typed, Dropped
<1>2. CostSince(c, i) + bucket[c].tokens <= Full + (Rate * bucket[c].seenAt - Rate * passed[c][i])
  BY DEF IInv, Paid
<1>3. bucket[c].tokens >= 0 - Rate * MaxLag
  BY DEF IInv, LowerBound
<1>4. Full <= Rate * (IdleTime - 2 * MaxLag)
  BY RefillAssumption
<1>5. /\ Rate * (IdleTime - 2 * MaxLag) + Rate * bucket[c].seenAt
           = Rate * ((IdleTime - 2 * MaxLag) + bucket[c].seenAt)
      /\ Rate * ((IdleTime - 2 * MaxLag) + bucket[c].seenAt) + Rate * MaxLag
           = Rate * (((IdleTime - 2 * MaxLag) + bucket[c].seenAt) + MaxLag)
  BY <1>1, Distributes
<1>6. ((IdleTime - 2 * MaxLag) + bucket[c].seenAt) + MaxLag <= clock - MaxLag
  BY <1>1
<1>7. Rate * (((IdleTime - 2 * MaxLag) + bucket[c].seenAt) + MaxLag) <= Rate * (clock - MaxLag)
  BY <1>1, <1>6, Grows
<1>8. /\ Rate * (IdleTime - 2 * MaxLag) \in Int /\ Rate * bucket[c].seenAt \in Int
      /\ Rate * MaxLag \in Int /\ Rate * (clock - MaxLag) \in Int
  BY <1>1, Product
<1>9. Full + Rate * bucket[c].seenAt + Rate * MaxLag <= Rate * (clock - MaxLag)
  BY <1>1, <1>4, <1>5, <1>7, <1>8
<1>10. CostSince(c, i) \in Int /\ Rate * passed[c][i] \in Int
  BY Numbers
<1> QED
  BY <1>1, <1>2, <1>3, <1>8, <1>9, <1>10

LEMMA AllowKnownKeeps ==
  ASSUME IInv, NEW h \in Handlers, AllowKnown(h)
  PROVE  IInv'
<1>1. PICK k \in Keys, now \in Nat :
        /\ k = reading[h].key /\ now = reading[h].now /\ reading[h] # NotReading
        /\ clock - MaxLag <= now /\ now <= clock
  BY AtTheMutex DEF AllowKnown
<1> DEFINE n == Refilled(k, now)
<1>2. /\ bucket[k].known /\ n >= Cost
      /\ bucket' = [j \in Keys |-> IF j = k THEN Bucket(n - Cost, now)
                                   ELSE IF Dropped(j, now) THEN NoBucket ELSE bucket[j]]
      /\ passed' = [passed EXCEPT ![k] = Append(@, now)]
      /\ reading' = [reading EXCEPT ![h] = NotReading]
      /\ clock' = clock
  BY <1>1 DEF AllowKnown, LetThrough
<1>3. n \in Int /\ n <= Full /\ Covered(k, now, n) /\ Saved(k, now, n)
  BY <1>2, RefilledIs
<1> HIDE DEF n
<1>4. /\ Cost \in Nat
      /\ bucket \in [Keys -> [known : BOOLEAN, tokens : Int, seenAt : Nat]]
      /\ passed \in [Keys -> Seq(Nat)] /\ reading \in [Handlers -> Readings]
      /\ clock \in Nat
  BY UnitsAssumption DEF IInv, Typed
<1>5. /\ Bucket(n - Cost, now) \in [known : BOOLEAN, tokens : Int, seenAt : Nat]
      /\ NoBucket \in [known : BOOLEAN, tokens : Int, seenAt : Nat] /\ ~NoBucket.known
  BY <1>3, <1>4 DEF Bucket, NoBucket
<1>6. Typed'
  BY <1>1, <1>2, <1>4, <1>5 DEF Typed, Readings, NotReading
<1>7. Fresh'
  BY <1>2, <1>4 DEF IInv, Fresh
<1>8. bucket'[k] = Bucket(n - Cost, now)
  BY <1>2
<1>9. \A c \in Keys \ {k} : Undisturbed(c)
  <2> SUFFICES ASSUME NEW c \in Keys \ {k}
               PROVE  Undisturbed(c)
    OBVIOUS
  <2>1. CASE ~Dropped(c, now) \/ ~bucket[c].known
    <3>1. CASE ~Dropped(c, now)
      BY <3>1, <1>2 DEF Undisturbed
    <3>2. CASE ~bucket[c].known /\ Dropped(c, now)
      <4>1. \A i \in DOMAIN passed[c] :
              CostSince(c, i) <= Rate * (clock - MaxLag) - Rate * passed[c][i]
        BY <3>2 DEF IInv, Paid
      <4> QED
        BY <3>2, <4>1, <1>2, <1>5 DEF Undisturbed
    <3> QED
      BY <2>1, <3>1, <3>2
  <2>2. CASE Dropped(c, now) /\ bucket[c].known
    <3>1. \A i \in DOMAIN passed[c] :
            CostSince(c, i) <= Rate * (clock - MaxLag) - Rate * passed[c][i]
      BY <2>2, <1>1, DroppedIsPaid
    <3> QED
      BY <2>2, <3>1, <1>2, <1>5 DEF Undisturbed
  <2> QED
    BY <2>1, <2>2
<1>10. LowerBound' /\ Paid' /\ Kept' /\ NeverAboveRate' /\ Past'
  BY <1>1, <1>2, <1>3, <1>8, <1>9, LettingThrough
<1> QED
  BY <1>6, <1>7, <1>10 DEF IInv

LEMMA RefuseKeeps ==
  ASSUME IInv, NEW h \in Handlers, Refuse(h)
  PROVE  IInv'
<1>1. PICK k \in Keys, now \in Nat :
        /\ k = reading[h].key /\ now = reading[h].now /\ reading[h] # NotReading
        /\ clock - MaxLag <= now /\ now <= clock
  BY AtTheMutex DEF Refuse
<1> DEFINE n == Refilled(k, now)
<1>2. /\ bucket[k].known /\ n < Cost
      /\ bucket' = [bucket EXCEPT ![k] = Bucket(n, now)]
      /\ reading' = [reading EXCEPT ![h] = NotReading]
      /\ clock' = clock /\ passed' = passed
  BY <1>1 DEF Refuse
<1>3. /\ n \in Int /\ n <= Full /\ Covered(k, now, n) /\ Saved(k, now, n)
      /\ n = Full \/ n = bucket[k].tokens + (Rate * now - Rate * bucket[k].seenAt)
  BY <1>2, RefilledIs
<1> HIDE DEF n
<1>4. /\ Cost \in Nat /\ Cost <= Full /\ Rate \in Nat /\ MaxLag \in Nat /\ Full \in Nat
      /\ bucket \in [Keys -> [known : BOOLEAN, tokens : Int, seenAt : Nat]]
      /\ passed \in [Keys -> Seq(Nat)] /\ reading \in [Handlers -> Readings]
      /\ clock \in Nat
  BY UnitsAssumption DEF IInv, Typed
<1>5. Bucket(n, now) \in [known : BOOLEAN, tokens : Int, seenAt : Nat]
  BY <1>3 DEF Bucket
<1>6. /\ bucket'[k].known /\ bucket'[k].tokens = n /\ bucket'[k].seenAt = now
      /\ \A c \in Keys \ {k} : bucket'[c] = bucket[c]
  BY <1>2, <1>4 DEF Bucket
<1>7. Typed'
  BY <1>1, <1>2, <1>4, <1>5 DEF Typed, Readings, NotReading
<1>8. Fresh'
  BY <1>2, <1>4 DEF IInv, Fresh
<1>9. /\ Rate * now \in Int /\ Rate * clock \in Int /\ Rate * MaxLag \in Int
      /\ Rate * bucket[k].seenAt \in Int
      /\ Rate * now <= Rate * clock
      /\ Rate * clock - Rate * MaxLag <= Rate * now
      /\ bucket[k].seenAt \in Nat /\ bucket[k].tokens \in Int
  <2>1. bucket[k].seenAt \in Nat /\ bucket[k].tokens \in Int
    BY <1>4
  <2>2. /\ Rate * now \in Int /\ Rate * clock \in Int /\ Rate * MaxLag \in Int
        /\ Rate * bucket[k].seenAt \in Int
    BY <2>1, <1>4, Product
  <2>3. Rate * now <= Rate * clock /\ Rate * (clock - MaxLag) <= Rate * now
    <3>1. /\ clock - MaxLag \in Int /\ now \in Int /\ clock \in Int /\ Rate \in Nat
          /\ clock - MaxLag <= now /\ now <= clock
      BY <1>1, <1>4
    <3> QED
      BY <3>1, Grows
  <2>4. Rate * (clock - MaxLag) = Rate * clock - Rate * MaxLag
    BY <1>4, Distributes
  <2> QED
    BY <2>1, <2>2, <2>3, <2>4
<1>10. LowerBound'
  <2>1. n >= Rate * now - Rate * clock
    <3>1. n = bucket[k].tokens + (Rate * now - Rate * bucket[k].seenAt)
      BY <1>2, <1>3, <1>4
    <3>2. bucket[k].tokens >= Rate * bucket[k].seenAt - Rate * clock
      BY <1>2 DEF IInv, LowerBound
    <3> QED
      BY <3>1, <3>2, <1>9
  <2>2. n >= 0 - Rate * MaxLag
    BY <2>1, <1>3, <1>9
  <2> QED
    BY <2>1, <2>2, <1>1, <1>2, <1>6 DEF IInv, LowerBound
<1>11. Paid'
  BY <1>2, <1>3, <1>6 DEF IInv, Paid, Covered, CostSince
<1>12. Saved(k, now, n) /\ n # Full
  BY <1>2, <1>3, <1>4
<1>13. Kept'
  BY <1>2, <1>6, <1>12 DEF IInv, Kept, Saved, CostSince
<1>14. NeverAboveRate' /\ Past'
  BY <1>2 DEF IInv, NeverAboveRate, Past
<1> QED
  BY <1>7, <1>8, <1>10, <1>11, <1>13, <1>14 DEF IInv

\* What a bucket has lost since any reading of the clock pays for what was let through
\* since, at every moment, with readings out of order and buckets dropped.
THEOREM Inductive == LimiterSpec => []IInv
<1>1. IInv /\ [LimiterNext]_limiterVars => IInv'
  <2> SUFFICES ASSUME IInv, [LimiterNext]_limiterVars PROVE IInv'
    OBVIOUS
  <2>1. CASE UNCHANGED limiterVars
    BY <2>1 DEF limiterVars, IInv, Typed, Fresh, LowerBound, Paid, Kept, NeverAboveRate, Past, CostSince
  <2>2. CASE LimiterNext
    BY <2>2, TickKeeps, ReadKeeps, AllowNewKeeps, AllowKnownKeeps, RefuseKeeps DEF LimiterNext
  <2> QED
    BY <2>1, <2>2
<1> QED
  BY <1>1, InitIInv, PTL DEF LimiterSpec

-----------------------------------------------------------------------------
\* Nobody gets more than a full bucket and the rate allow, whatever the order of
\* the readings and whenever buckets are dropped.
THEOREM RateIsKept == LimiterSpec => []NeverAboveRate
  BY Inductive, PTL DEF IInv

\* Nobody who could be let through without that is refused, but for a reading that
\* comes after a later one; and then no more than MaxLag brings stands between.
THEOREM RefusalsAreDue == LimiterSpec => RefusedOnlyAboveRate
<1> DEFINE A == \A h \in Handlers :
       LET k == reading[h].key
           now == reading[h].now
       IN (reading[h] # NotReading /\ reading'[h] = NotReading /\ passed' = passed)
            => \E i \in DOMAIN passed[k] :
                 IF passed[k][i] <= now
                 THEN CostSince(k, i) + Cost > Full + Rate * (now - passed[k][i])
                 ELSE CostSince(k, i) + Cost > Full - Rate * MaxLag
<1>1. IInv /\ [LimiterNext]_limiterVars => [A]_limiterVars
  <2> SUFFICES ASSUME IInv, LimiterNext, NEW h \in Handlers,
                      reading[h] # NotReading, reading'[h] = NotReading, passed' = passed
               PROVE  \E i \in DOMAIN passed[reading[h].key] :
                        IF passed[reading[h].key][i] <= reading[h].now
                        THEN CostSince(reading[h].key, i) + Cost
                               > Full + Rate * (reading[h].now - passed[reading[h].key][i])
                        ELSE CostSince(reading[h].key, i) + Cost > Full - Rate * MaxLag
    OBVIOUS
  <2>1. PICK k \in Keys, now \in Nat : k = reading[h].key /\ now = reading[h].now
    BY AtTheMutex
  <2>2. /\ reading \in [Handlers -> Readings] /\ passed \in [Keys -> Seq(Nat)]
        /\ Full \in Nat /\ Cost \in Nat /\ Cost <= Full /\ Rate \in Nat
    BY UnitsAssumption DEF IInv, Typed
  <2>3. Refuse(h)
    <3>1. ~Tick /\ \A g \in Handlers, c \in Keys : ~Read(g, c)
      BY <2>2 DEF Tick, Read, NotReading
    <3>2. \A g \in Handlers : ~AllowNew(g) /\ ~AllowKnown(g)
      <4>1. \A c \in Keys, m \in Nat : passed[c] # Append(passed[c], m)
        BY <2>2
      <4>2. \A g \in Handlers : reading[g] # NotReading => reading[g].key \in Keys /\ reading[g].now \in Nat
        BY <2>2 DEF IInv, Fresh, Readings
      <4> QED
        BY <4>1, <4>2, <2>2 DEF AllowNew, AllowKnown, LetThrough
    <3>3. PICK g \in Handlers : Refuse(g)
      BY <3>1, <3>2 DEF LimiterNext
    <3>4. g = h
      BY <3>3, <2>2 DEF Refuse
    <3> QED
      BY <3>3, <3>4
  <2>4. bucket[k].known /\ Refilled(k, now) < Cost
    BY <2>1, <2>3 DEF Refuse
  <2>5. Refilled(k, now) \in Int /\ Saved(k, now, Refilled(k, now)) /\ Refilled(k, now) # Full
    BY <2>2, <2>4, RefilledIs
  <2>6. PICK i \in DOMAIN passed[k] :
          CostSince(k, i) + Refilled(k, now) >= Full + (Rate * now - Rate * passed[k][i])
    BY <2>5 DEF Saved
  <2>7. Rate * (now - passed[k][i]) = Rate * now - Rate * passed[k][i] /\ Rate * now \in Int
    BY <2>2, Distributes, Product, Numbers
  <2>8. CostSince(k, i) + Cost > Full + Rate * (now - passed[k][i])
    <3>1. CostSince(k, i) \in Int /\ Rate * passed[k][i] \in Int
      BY Numbers
    <3>2. CostSince(k, i) + Cost > Full + (Rate * now - Rate * passed[k][i])
      BY <3>1, <2>2, <2>4, <2>5, <2>6, <2>7
    <3> QED
      BY <3>2, <2>7
\* A request let through at a later reading is ahead by MaxLag at most.
  <2>9. CostSince(k, i) + Cost > Full - Rate * MaxLag \/ passed[k][i] <= now
    <3> SUFFICES ASSUME ~(passed[k][i] <= now)
                 PROVE  CostSince(k, i) + Cost > Full - Rate * MaxLag
      OBVIOUS
    <3>1. passed[k][i] \in Nat /\ MaxLag \in Nat /\ clock \in Nat /\ CostSince(k, i) \in Int
      BY UnitsAssumption, Numbers DEF IInv, Typed
    <3>2. passed[k][i] - now <= MaxLag
      BY <2>1, <3>1 DEF IInv, Past, Fresh
    <3>3. Rate * (passed[k][i] - now) <= Rate * MaxLag
      <4>1. passed[k][i] - now \in Int /\ MaxLag \in Int
        BY <3>1
      <4> QED
        BY <4>1, <3>2, <2>2, Grows
    <3>4. /\ Rate * (passed[k][i] - now) = Rate * passed[k][i] - Rate * now
          /\ Rate * passed[k][i] \in Int /\ Rate * MaxLag \in Int
      BY <3>1, <2>2, Distributes, Product
    <3>5. CostSince(k, i) + Cost > Full + (Rate * now - Rate * passed[k][i])
      BY <2>7, <2>8
    <3>6. 0 - Rate * MaxLag <= Rate * now - Rate * passed[k][i]
      BY <2>7, <3>3, <3>4
    <3>7. Full + (Rate * now - Rate * passed[k][i]) >= Full - Rate * MaxLag
      BY <2>2, <2>7, <3>4, <3>6
    <3>8. /\ CostSince(k, i) + Cost \in Int /\ Full - Rate * MaxLag \in Int
          /\ Full + (Rate * now - Rate * passed[k][i]) \in Int
      <4>1. /\ CostSince(k, i) \in Int /\ Cost \in Int /\ Full \in Int
            /\ Rate * MaxLag \in Int /\ Rate * now \in Int /\ Rate * passed[k][i] \in Int
        BY <2>2, <2>7, <3>1, <3>4
      <4>2. \A x, y, z \in Int : x + y \in Int /\ x - y \in Int /\ x + (y - z) \in Int
        OBVIOUS
      <4> QED
        BY <4>1, <4>2, Zenon
    <3> QED
      BY <3>5, <3>7, <3>8
  <2> QED
    BY <2>1, <2>8, <2>9
<1> QED
  BY <1>1, Inductive, PTL DEF LimiterSpec, RefusedOnlyAboveRate

=============================================================================
