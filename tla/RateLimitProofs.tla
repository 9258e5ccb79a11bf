-------------------------- MODULE RateLimitProofs --------------------------
(***************************************************************************)
(* Proofs about RateLimit for every window, limit and horizon.             *)
(***************************************************************************)
EXTENDS RateLimitWindow, FiniteSetTheorems, TLAPS

(***************************************************************************)
(* Arithmetic of buckets.                                                  *)
(***************************************************************************)

\* A second is its bucket's start and the time elapsed in the bucket.
LEMMA BucketOfSecond ==
    ASSUME NEW t \in Nat, NEW w \in Nat \ {0}
    PROVE  /\ t \div w \in Nat
           /\ t % w \in 0..(w - 1)
           /\ t = w * (t \div w) + (t % w)
OBVIOUS

\* Quotient and remainder are unique.
LEMMA DivisionIsUnique ==
    ASSUME NEW w \in Nat \ {0}, NEW p \in Int, NEW q \in Int,
           NEW r \in 0..(w - 1), NEW s \in 0..(w - 1),
           w * p + r = w * q + s
    PROVE  p = q /\ r = s
<1>1. w * (p - q) = s - r
  OBVIOUS
<1>2. ASSUME p > q PROVE FALSE
  <2>1. w * (p - q) >= w
    BY <1>2
  <2> QED
    BY <1>1, <2>1
<1>3. ASSUME p < q PROVE FALSE
  <2>1. w * (q - p) >= w
    BY <1>3
  <2> QED
    BY <1>1, <2>1
<1>4. p = q
  BY <1>2, <1>3
<1> QED
  BY <1>4

\* The next second is in the same bucket, or it starts the next one.
LEMMA NextSecond ==
    ASSUME NEW t \in Nat, NEW w \in Nat \ {0}
    PROVE  \/ /\ (t + 1) \div w = t \div w
              /\ (t + 1) % w = (t % w) + 1
           \/ /\ (t + 1) \div w = (t \div w) + 1
              /\ (t + 1) % w = 0
              /\ t % w = w - 1
<1> DEFINE q == t \div w
           r == t % w
           p == (t + 1) \div w
           s == (t + 1) % w
<1>1. q \in Nat /\ r \in 0..(w - 1) /\ t = w * q + r
  BY BucketOfSecond
<1>2. p \in Nat /\ s \in 0..(w - 1) /\ t + 1 = w * p + s
  <2> DEFINE u == t + 1
  <2>1. u \in Nat
    OBVIOUS
  <2> HIDE DEF u
  <2>2. u \div w \in Nat /\ u % w \in 0..(w - 1) /\ u = w * (u \div w) + (u % w)
    BY <2>1, BucketOfSecond
  <2> QED
    BY <2>2 DEF u
<1> HIDE DEF p, q, r, s
<1>3. CASE r + 1 < w
  <2>1. r + 1 \in 0..(w - 1) /\ w * q + (r + 1) = w * p + s
    BY <1>1, <1>2, <1>3
  <2>2. q = p /\ r + 1 = s
    BY <2>1, <1>1, <1>2, DivisionIsUnique
  <2> QED
    BY <2>2 DEF p, q, r, s
<1>4. CASE r + 1 = w
  <2>1. 0 \in 0..(w - 1) /\ w * (q + 1) + 0 = w * p + s
    BY <1>1, <1>2, <1>4
  <2>2. q + 1 = p /\ 0 = s
    BY <2>1, <1>1, <1>2, DivisionIsUnique
  <2> QED
    BY <2>2, <1>1, <1>4 DEF p, q, r, s
<1> QED
  BY <1>1, <1>3, <1>4

\* A later second is not in an earlier bucket.
LEMMA BucketsAreOrdered ==
    ASSUME NEW t \in Nat, NEW u \in Nat, NEW w \in Nat \ {0}, t <= u
    PROVE  t \div w <= u \div w
<1> DEFINE q == t \div w
           r == t % w
           p == u \div w
           s == u % w
<1>1. q \in Nat /\ r \in 0..(w - 1) /\ t = w * q + r
  BY BucketOfSecond
<1>2. p \in Nat /\ s \in 0..(w - 1) /\ u = w * p + s
  BY BucketOfSecond
<1> HIDE DEF p, q, r, s
<1>3. ASSUME q > p PROVE FALSE
  <2>1. q >= p + 1
    BY <1>1, <1>2, <1>3
  <2>2. w * q >= w * (p + 1)
    BY <2>1, <1>1, <1>2
  <2> QED
    BY <2>2, <1>1, <1>2
<1>4. q <= p
  BY <1>1, <1>2, <1>3
<1> QED
  BY <1>4 DEF p, q

(***************************************************************************)
(* The clock of the limiter.                                               *)
(***************************************************************************)

\* The current bucket and the previous one are buckets of the model, and the
\* clock is where the bucket and the elapsed time say.
LEMMA Clock ==
    ASSUME now \in Window..Horizon
    PROVE  /\ cur \in Nat \ {0}
           /\ cur \in Buckets
           /\ cur - 1 \in Buckets
           /\ elapsed \in 0..(Window - 1)
           /\ reset \in 1..Window
           /\ now = Window * cur + elapsed
<1> USE LimitAssumption
<1>1. now \in Nat /\ Horizon \in Nat /\ Window \in Nat /\ Window <= now /\ now <= Horizon
  OBVIOUS
<1>2. /\ cur \in Nat
      /\ elapsed \in 0..(Window - 1)
      /\ now = Window * cur + elapsed
  BY <1>1, BucketOfSecond DEF cur, elapsed
<1>3. cur # 0
  BY <1>1, <1>2
<1>4. cur <= Horizon \div Window
  BY <1>1, BucketsAreOrdered DEF cur
<1>5. Horizon \div Window \in Nat
  BY <1>1, BucketOfSecond
<1> QED
  BY <1>2, <1>3, <1>4, <1>5 DEF Buckets, reset

\* A tick stays in the bucket, with less of it left, or starts the next one.
LEMMA TickOfClock ==
    ASSUME now \in Window..Horizon, now' = now + 1
    PROVE  \/ cur' = cur /\ reset' = reset - 1
           \/ cur' = cur + 1 /\ reset' = Window
<1>1. now \in Nat /\ Window \in Nat \ {0}
  BY LimitAssumption
<1>2. \/ /\ (now + 1) \div Window = now \div Window
         /\ (now + 1) % Window = (now % Window) + 1
      \/ /\ (now + 1) \div Window = (now \div Window) + 1
         /\ (now + 1) % Window = 0
  BY <1>1, NextSecond
<1>3. now % Window \in Int
  BY <1>1, BucketOfSecond
<1> QED
  BY <1>1, <1>2, <1>3 DEF cur, reset, elapsed

(***************************************************************************)
(* Type correctness.                                                       *)
(***************************************************************************)

\* What a counter reads is a number within the limit.
LEMMA ReadType ==
    ASSUME TypeOK, NEW b \in Buckets
    PROVE  Read(b) \in 0..Max
BY LimitAssumption DEF TypeOK, Read

\* An admitted check fits within the limit.
LEMMA AdmittedFits ==
    ASSUME NEW p \in Nat, NEW c \in Nat, NEW r \in Nat, NEW w \in Nat \ {0},
           NEW m \in Nat, p * r + c * w + w <= m * w
    PROVE  c + 1 <= m
<1>1. p * r \in Nat
  OBVIOUS
<1>2. (c + 1) * w <= m * w
  BY <1>1
<1>3. ASSUME c + 1 > m PROVE FALSE
  <2>1. c >= m
    BY <1>3
  <2>2. c * w >= m * w
    BY <2>1
  <2> QED
    BY <1>2, <2>2
<1> QED
  BY <1>3

\* What an admission writes has its type.
LEMMA AdmitType ==
    ASSUME TypeOK, Admit
    PROVE  TypeOK'
<1> USE LimitAssumption
<1> DEFINE n == Read(cur) + 1
<1>1. /\ cur \in Buckets /\ cur - 1 \in Buckets /\ reset \in 1..Window
  BY Clock DEF TypeOK
<1>2. Read(cur) \in 0..Max /\ Read(cur - 1) \in 0..Max
  BY <1>1, ReadType
<1>3. n \in 0..Max
  <2>1. Read(cur - 1) * reset + Read(cur) * Window + Window <= Max * Window
    BY DEF Admit, Admits, Estimate
  <2>2. Read(cur) + 1 <= Max
    BY <2>1, <1>1, <1>2, AdmittedFits
  <2> QED
    BY <2>2, <1>2
<1>4. Remaining(n) \in Nat
  <2> DEFINE left == (Max * Window - (Read(cur - 1) * reset + n * Window)) \div Window
  <2>1. Max * Window - (Read(cur - 1) * reset + n * Window) \in Int
    BY <1>1, <1>2, <1>3
  <2>2. left \in Int
    BY <2>1
  <2>3. Remaining(n) = IF left < 0 THEN 0 ELSE left
    BY DEF Remaining
  <2> HIDE DEF left
  <2> QED
    BY <2>2, <2>3
<1>5. now \in Nat /\ 2 * Window \in Nat
  BY DEF TypeOK
<1> QED
  BY <1>1, <1>3, <1>4, <1>5 DEF TypeOK, Admit, Decisions, CounterTtl

\* Every state of every behaviour has the declared types.
THEOREM TypeCorrect == Spec => []TypeOK
<1> USE LimitAssumption
<1>1. Init => TypeOK
  BY DEF Init, TypeOK, NoDecision, Decisions
<1>2. TypeOK /\ [Next]_vars => TypeOK'
  <2> SUFFICES ASSUME TypeOK, [Next]_vars PROVE TypeOK'
    OBVIOUS
  <2>1. CASE Deny
    <3>1. reset \in 0..Window /\ now \in Nat
      BY Clock DEF TypeOK
    <3> QED
      BY <2>1, <3>1 DEF TypeOK, Deny, Decisions
  <2>2. CASE Admit
    BY <2>2, AdmitType
  <2>3. CASE Tick
    BY <2>3 DEF TypeOK, Tick
  <2>4. CASE UNCHANGED vars
    BY <2>4 DEF TypeOK, vars
  <2> QED
    BY <2>1, <2>2, <2>3, <2>4 DEF Next, Check
<1> QED
  BY <1>1, <1>2, PTL DEF Spec

(***************************************************************************)
(* The counters.  RemembersRecent alone is not inductive: it does not say  *)
(* when the keys expire, nor that the next bucket starts empty.            *)
(***************************************************************************)

\* A counter that is still read is exact and lives to the end of the bucket
\* after its own; the buckets to come are empty.
CounterInv ==
    \A b \in Buckets :
        /\ b > cur => count[b] = 0 /\ admitted[b] = 0
        /\ b \in { cur - 1, cur } =>
             /\ count[b] = admitted[b]
             /\ count[b] > 0 => expireAt[b] >= Window * b + 2 * Window

\* The invariant says what is read.
LEMMA CountersAreExact ==
    ASSUME TypeOK, CounterInv
    PROVE  RemembersRecent
<1> USE LimitAssumption
<1> SUFFICES ASSUME NEW b \in { cur - 1, cur } PROVE Read(b) = admitted[b]
  BY DEF RemembersRecent
<1>1. /\ cur \in Nat \ {0} /\ b \in Buckets
      /\ elapsed \in 0..(Window - 1)
      /\ now = Window * cur + elapsed
  BY Clock DEF TypeOK
<1>2. count[b] = admitted[b] /\ (count[b] > 0 => expireAt[b] >= Window * b + 2 * Window)
  BY <1>1 DEF CounterInv
<1>3. now < Window * b + 2 * Window
  <2>1. CASE b = cur
    BY <1>1, <2>1
  <2>2. CASE b = cur - 1
    <3>1. Window * b = Window * cur - Window
      BY <1>1, <2>2
    <3> QED
      BY <1>1, <3>1
  <2> QED
    BY <2>1, <2>2
<1>4. count[b] \in Nat /\ expireAt[b] \in Nat
  BY <1>1 DEF TypeOK
<1>5. CASE count[b] = 0
  BY <1>2, <1>5 DEF Read
<1>6. CASE count[b] > 0
  <2>1. now \in Nat /\ Window * b + 2 * Window \in Nat
    BY <1>1 DEF TypeOK
  <2>2. now < expireAt[b]
    BY <1>2, <1>3, <1>4, <1>6, <2>1
  <2> QED
    BY <1>2, <2>2 DEF Read
<1> QED
  BY <1>4, <1>5, <1>6

\* An admission keeps the counter it raises exact, and renews its lifetime
\* only when the key is new.
LEMMA AdmitKeepsCounters ==
    ASSUME TypeOK, CounterInv, Admit
    PROVE  CounterInv'
<1> USE LimitAssumption
<1>1. /\ cur \in Nat /\ cur \in Buckets /\ elapsed \in 0..(Window - 1)
      /\ now = Window * cur + elapsed
  BY Clock DEF TypeOK
<1>2. Read(cur) = admitted[cur] /\ count[cur] = admitted[cur]
  BY <1>1, CountersAreExact DEF RemembersRecent, CounterInv
<1>3. cur' = cur
  BY DEF Admit, cur
<1>4. SUFFICES ASSUME NEW b \in Buckets
      PROVE /\ b > cur => count'[b] = 0 /\ admitted'[b] = 0
            /\ b \in { cur - 1, cur } =>
                 /\ count'[b] = admitted'[b]
                 /\ count'[b] > 0 => expireAt'[b] >= Window * b + 2 * Window
  BY <1>3 DEF CounterInv
<1>5. CASE b = cur
  <2>1. count'[b] = admitted[b] + 1 /\ admitted'[b] = admitted[b] + 1
    BY <1>1, <1>2, <1>5 DEF Admit, TypeOK
  <2>2. expireAt'[b] >= Window * b + 2 * Window
    <3>1. CASE admitted[b] = 0
      <4>1. expireAt'[b] = now + 2 * Window
        BY <1>1, <1>2, <1>5, <3>1 DEF Admit, TypeOK, CounterTtl
      <4> QED
        BY <4>1, <1>1, <1>5
    <3>2. CASE admitted[b] # 0
      <4>1. expireAt'[b] = expireAt[b]
        BY <1>1, <1>2, <1>5, <3>2 DEF Admit, TypeOK
      <4>2. count[b] > 0
        BY <1>1, <1>2, <1>5, <3>2 DEF TypeOK
      <4> QED
        BY <1>5, <4>1, <4>2 DEF CounterInv
    <3> QED
      BY <3>1, <3>2
  <2> QED
    BY <1>1, <1>5, <2>1, <2>2
<1>6. CASE b # cur
  <2>1. count'[b] = count[b] /\ admitted'[b] = admitted[b] /\ expireAt'[b] = expireAt[b]
    BY <1>1, <1>6 DEF Admit, TypeOK
  <2> QED
    BY <2>1 DEF CounterInv
<1> QED
  BY <1>5, <1>6

\* A tick turns the current bucket into the previous one and starts with an
\* empty one.
LEMMA TickKeepsCounters ==
    ASSUME TypeOK, CounterInv, Tick
    PROVE  CounterInv'
<1> USE LimitAssumption
<1>1. cur \in Nat /\ cur \in Buckets
  BY Clock DEF TypeOK
<1>2. cur' = cur \/ cur' = cur + 1
  BY TickOfClock DEF TypeOK, Tick
<1>3. SUFFICES ASSUME NEW b \in Buckets
      PROVE /\ b > cur' => count[b] = 0 /\ admitted[b] = 0
            /\ b \in { cur' - 1, cur' } =>
                 /\ count[b] = admitted[b]
                 /\ count[b] > 0 => expireAt[b] >= Window * b + 2 * Window
  BY DEF Tick, CounterInv
<1>4. b \in Int
  BY DEF Buckets
<1>5. CASE cur' = cur
  BY <1>5 DEF CounterInv
<1>6. CASE cur' = cur + 1
  BY <1>1, <1>4, <1>6 DEF CounterInv
<1> QED
  BY <1>2, <1>5, <1>6

\* The invariant of the counters holds in every state.
THEOREM CountersHold == Spec => []CounterInv
<1>1. Init => CounterInv
  BY DEF Init, CounterInv
<1>2. TypeOK /\ CounterInv /\ [Next]_vars => CounterInv'
  <2> SUFFICES ASSUME TypeOK, CounterInv, [Next]_vars PROVE CounterInv'
    OBVIOUS
  <2>1. CASE Deny \/ UNCHANGED vars
    BY <2>1 DEF CounterInv, Deny, vars, cur
  <2>2. CASE Admit
    BY <2>2, AdmitKeepsCounters
  <2>3. CASE Tick
    BY <2>3, TickKeepsCounters
  <2> QED
    BY <2>1, <2>2, <2>3 DEF Next, Check
<1> QED
  BY <1>1, <1>2, TypeCorrect, PTL DEF Spec

\* No check that still counts is forgotten.
THEOREM RemembersRecentHolds == Spec => []RemembersRecent
<1>1. TypeOK /\ CounterInv => RemembersRecent
  BY CountersAreExact
<1> QED
  BY <1>1, TypeCorrect, CountersHold, PTL

(***************************************************************************)
(* The bound.                                                              *)
(***************************************************************************)

\* The previous bucket fades and the current one is counted in full, so a
\* tick never raises the estimate; an admission raises it by one check, which
\* its guard made room for.
THEOREM WeightedBoundHolds == Spec => []WeightedBound
<1> USE LimitAssumption
<1>1. Init => WeightedBound
  <2> SUFFICES ASSUME Init PROVE WeightedBound
    OBVIOUS
  <2>1. now \in Window..Horizon
    BY DEF Init
  <2>2. cur \in Buckets /\ cur - 1 \in Buckets /\ reset \in 1..Window
    BY <2>1, Clock
  <2>3. admitted[cur] = 0 /\ admitted[cur - 1] = 0
    BY <2>2 DEF Init
  <2>4. 0 * reset = 0 /\ 0 * Window = 0 /\ Max * Window >= 0
    BY <2>2
  <2> QED
    BY <2>3, <2>4 DEF WeightedBound
<1>2. TypeOK /\ CounterInv /\ WeightedBound /\ [Next]_vars => WeightedBound'
  <2> SUFFICES ASSUME TypeOK, CounterInv, WeightedBound, [Next]_vars
               PROVE  WeightedBound'
    OBVIOUS
  <2> DEFINE p == admitted[cur - 1]
             c == admitted[cur]
  <2>1. /\ cur \in Nat \ {0} /\ cur \in Buckets /\ cur - 1 \in Buckets
        /\ reset \in 1..Window
        /\ p \in Nat /\ c \in Nat
    BY Clock DEF TypeOK
  <2>2. p * reset + c * Window <= Max * Window
    BY DEF WeightedBound
  <2>3. CASE Admit
    <3>1. Read(cur - 1) = p /\ Read(cur) = c
      BY CountersAreExact DEF RemembersRecent
    <3>2. p * reset + c * Window + Window <= Max * Window
      BY <2>3, <3>1 DEF Admit, Admits, Estimate
    <3>3. cur' = cur /\ reset' = reset
      BY <2>3 DEF Admit, cur, reset, elapsed
    <3>4. admitted'[cur] = c + 1 /\ admitted'[cur - 1] = p
      BY <2>1, <2>3 DEF Admit, TypeOK
    <3>5. (c + 1) * Window = c * Window + Window
      BY <2>1
    <3>6. p * reset + (c + 1) * Window <= Max * Window
      BY <2>1, <3>2, <3>5
    <3> QED
      BY <3>3, <3>4, <3>6 DEF WeightedBound
  <2>4. CASE Tick
    <3>1. \/ cur' = cur /\ reset' = reset - 1
          \/ cur' = cur + 1 /\ reset' = Window
      BY <2>4, TickOfClock DEF TypeOK, Tick
    <3>2. CASE cur' = cur /\ reset' = reset - 1
      <4>1. p * (reset - 1) + c * Window <= Max * Window
        BY <2>1, <2>2
      <4> QED
        BY <2>4, <3>2, <4>1 DEF WeightedBound, Tick
    <3>3. CASE cur' = cur + 1 /\ reset' = Window
      <4>1. cur + 1 \in Buckets
        <5>1. now' = now + 1 /\ now' \in Nat /\ Horizon \in Nat /\ now' <= Horizon
          BY <2>4 DEF Tick, TypeOK
        <5>2. cur' <= Horizon \div Window
          BY <5>1, BucketsAreOrdered DEF cur
        <5>3. Horizon \div Window \in Nat
          BY <5>1, BucketOfSecond
        <5> QED
          BY <2>1, <3>3, <5>2, <5>3 DEF Buckets
      <4>2. admitted[cur + 1] = 0
        BY <2>1, <4>1 DEF CounterInv
      <4>3. p * reset \in Nat
        BY <2>1
      <4>4. c * Window + 0 * Window <= Max * Window
        BY <2>1, <2>2, <4>3
      <4>5. cur' - 1 = cur
        BY <2>1, <3>3
      <4> QED
        BY <2>4, <3>3, <4>2, <4>4, <4>5 DEF WeightedBound, Tick
    <3> QED
      BY <3>1, <3>2, <3>3
  <2>5. CASE Deny \/ UNCHANGED vars
    BY <2>5 DEF WeightedBound, Deny, vars, cur, reset, elapsed
  <2> QED
    BY <2>3, <2>4, <2>5 DEF Next, Check
<1> QED
  BY <1>1, <1>2, TypeCorrect, CountersHold, PTL DEF Spec

(***************************************************************************)
(* What an answer says.                                                    *)
(***************************************************************************)

\* A quotient is positive from the divisor on.
LEMMA PositiveQuotient ==
    ASSUME NEW a \in Int, NEW w \in Nat \ {0}
    PROVE  a \div w > 0 <=> a >= w
<1> DEFINE q == a \div w
           r == a % w
<1>1. q \in Int /\ r \in 0..(w - 1) /\ a = w * q + r
  OBVIOUS
<1> HIDE DEF q, r
<1>2. ASSUME q > 0 PROVE a >= w
  <2>1. w * q >= w
    BY <1>1, <1>2
  <2> QED
    BY <1>1, <2>1
<1>3. ASSUME q <= 0 PROVE a < w
  <2>1. w * q <= 0
    BY <1>1, <1>3
  <2> QED
    BY <1>1, <2>1
<1>4. q > 0 <=> a >= w
  BY <1>1, <1>2, <1>3
<1> QED
  BY <1>4 DEF q

\* The answer of an admission is honest: the counter that it wrote is read.
LEMMA AdmitIsHonest ==
    ASSUME TypeOK, Admit
    PROVE  Admits' <=> decision'.remaining > 0
<1> USE LimitAssumption
<1> DEFINE n == Read(cur) + 1
           p == Read(cur - 1)
           room == Max * Window - (p * reset + n * Window)
<1>1. /\ cur \in Nat \ {0} /\ cur \in Buckets /\ cur - 1 \in Buckets
      /\ reset \in 1..Window
  BY Clock DEF TypeOK
<1>2. Read(cur) \in 0..Max /\ p \in 0..Max
  BY <1>1, ReadType
<1>3. cur' = cur /\ reset' = reset /\ now' = now /\ now \in Nat
  BY DEF Admit, cur, reset, elapsed, TypeOK
<1>4. count'[cur] = n /\ now < expireAt'[cur]
  <2>1. CASE n = 1
    BY <1>1, <1>3, <2>1 DEF Admit, TypeOK, CounterTtl
  <2>2. CASE n # 1
    <3>1. now < expireAt[cur]
      BY <1>2, <2>2 DEF Read
    <3> QED
      BY <1>1, <2>2, <3>1 DEF Admit, TypeOK
  <2> QED
    BY <2>1, <2>2
<1>5. count'[cur - 1] = count[cur - 1] /\ expireAt'[cur - 1] = expireAt[cur - 1]
  BY <1>1 DEF Admit, TypeOK
<1>6. Read(cur)' = n /\ Read(cur - 1)' = p
  BY <1>3, <1>4, <1>5 DEF Read
<1>7. room \in Int /\ p * reset \in Int /\ n * Window \in Int /\ Max * Window \in Int
  BY <1>1, <1>2
<1>8. Admits' <=> room >= Window
  <2>1. Admits' <=> p * reset + n * Window + Window <= Max * Window
    BY <1>3, <1>6 DEF Admits, Estimate
  <2> QED
    BY <1>7, <2>1
<1>9. decision'.remaining > 0 <=> room \div Window > 0
  <2>1. decision'.remaining = Remaining(n)
    BY DEF Admit
  <2>2. Remaining(n) = IF room \div Window < 0 THEN 0 ELSE room \div Window
    BY DEF Remaining
  <2>3. room \div Window \in Int
    BY <1>7
  <2> QED
    BY <2>1, <2>2, <2>3
<1> HIDE DEF room
<1> QED
  BY <1>7, <1>8, <1>9, PositiveQuotient

\* RemainingIsHonest needs to know that no answer is from the future: a tick
\* makes every answer one of the past.
HonestInv == decision.at <= now /\ RemainingIsHonest

\* In the second of an answer, the next check is admitted exactly when the
\* answer said that some remain.
THEOREM RemainingIsHonestHolds == Spec => []RemainingIsHonest
<1> USE LimitAssumption
<1>1. Init => HonestInv
  BY DEF Init, HonestInv, RemainingIsHonest, NoDecision
<1>2. TypeOK /\ HonestInv /\ [Next]_vars => HonestInv'
  <2> SUFFICES ASSUME TypeOK, HonestInv, [Next]_vars PROVE HonestInv'
    OBVIOUS
  <2>1. now \in Nat /\ decision.at \in Nat
    BY DEF TypeOK, Decisions
  <2>2. CASE Deny
    <3>1. Admits' = Admits
      BY <2>2 DEF Deny, Admits, Estimate, Read, cur, reset, elapsed
    <3> QED
      BY <2>1, <2>2, <3>1 DEF Deny, HonestInv, RemainingIsHonest
  <2>3. CASE Admit
    <3>1. decision'.at = now /\ now' = now
      BY <2>3 DEF Admit
    <3> QED
      BY <2>1, <2>3, <3>1, AdmitIsHonest DEF HonestInv, RemainingIsHonest
  <2>4. CASE Tick
    BY <2>1, <2>4 DEF Tick, HonestInv, RemainingIsHonest
  <2>5. CASE UNCHANGED vars
    BY <2>5 DEF vars, HonestInv, RemainingIsHonest, Admits, Estimate, Read, cur, reset, elapsed
  <2> QED
    BY <2>2, <2>3, <2>4, <2>5 DEF Next, Check
<1>3. HonestInv => RemainingIsHonest
  BY DEF HonestInv
<1> QED
  BY <1>1, <1>2, <1>3, TypeCorrect, PTL DEF Spec

\* A denial ends with its bucket, and nothing is admitted after it: otherwise
\* the last answer would not be a denial.
RetryInv ==
    ~decision.allowed =>
        \E k \in Nat : /\ decision.at + decision.reset = Window * k
                       /\ \A b \in Buckets : b >= k => admitted[b] = 0

\* The seconds of one check are enough for a full bucket to lose one.
LEMMA OneCheckFades ==
    ASSUME NEW p \in 0..Max, NEW e \in 0..(Window - 1), e >= OneCheck
    PROVE  p * (Window - e) + Window <= Max * Window
<1> USE LimitAssumption
<1>1. Window + Max - 1 \in Nat
  OBVIOUS
<1> DEFINE q == OneCheck
           r == (Window + Max - 1) % Max
<1>2. q \in Nat /\ r \in 0..(Max - 1) /\ Window + Max - 1 = Max * q + r
  <2> DEFINE t == Window + Max - 1
  <2>1. t \in Nat
    BY <1>1
  <2> HIDE DEF t
  <2>2. t \div Max \in Nat /\ t % Max \in 0..(Max - 1) /\ t = Max * (t \div Max) + (t % Max)
    BY <2>1, BucketOfSecond
  <2> QED
    BY <2>2 DEF t, OneCheck
<1> HIDE DEF q, r
<1>3. Max * q >= Window
  BY <1>2
<1>4. Max * e >= Max * q
  BY <1>2 DEF q
<1>5. p * (Window - e) <= Max * (Window - e)
  OBVIOUS
<1>6. Max * (Window - e) = Max * Window - Max * e
  OBVIOUS
<1>7. /\ Max * q \in Int /\ Max * e \in Int /\ Max * Window \in Int
      /\ p * (Window - e) \in Int /\ Max * (Window - e) \in Int
  BY <1>2
<1> QED
  BY <1>3, <1>4, <1>5, <1>6, <1>7

\* With the counters, the invariant says that a denial does not last.
LEMMA DenialEnds ==
    ASSUME TypeOK, CounterInv, RetryInv
    PROVE  RetryBound
<1> USE LimitAssumption
<1> SUFFICES ASSUME ~decision.allowed,
                    now >= decision.at + decision.reset + OneCheck
             PROVE  Admits
  BY DEF RetryBound
<1>1. PICK k \in Nat : /\ decision.at + decision.reset = Window * k
                       /\ \A b \in Buckets : b >= k => admitted[b] = 0
  BY DEF RetryInv
<1>2. /\ cur \in Nat \ {0} /\ cur \in Buckets /\ cur - 1 \in Buckets
      /\ elapsed \in 0..(Window - 1) /\ reset = Window - elapsed
      /\ now = Window * cur + elapsed
  BY Clock DEF TypeOK, reset
<1>3. OneCheck \in Nat
  <2> DEFINE t == Window + Max - 1
  <2>1. t \in Nat
    OBVIOUS
  <2> HIDE DEF t
  <2>2. t \div Max \in Nat
    BY <2>1, BucketOfSecond
  <2> QED
    BY <2>2 DEF t, OneCheck
<1>4. Window * cur + elapsed >= Window * k + OneCheck
  BY <1>1, <1>2
<1>5. cur >= k
  <2>1. ASSUME cur < k PROVE FALSE
    <3>1. Window * (cur + 1) <= Window * k
      BY <1>2, <2>1
    <3> QED
      BY <1>2, <1>3, <1>4, <3>1
  <2> QED
    BY <1>2, <2>1
<1>6. Read(cur) = 0
  BY <1>1, <1>2, <1>5, CountersAreExact DEF RemembersRecent
<1>7. Read(cur - 1) \in 0..Max
  BY <1>2, ReadType
<1>8. Read(cur - 1) * reset + Window <= Max * Window
  <2>1. CASE cur = k
    <3>1. elapsed >= OneCheck
      BY <1>2, <1>3, <1>4, <2>1
    <3> QED
      BY <1>2, <1>7, <3>1, OneCheckFades
  <2>2. CASE cur - 1 >= k
    <3>1. Read(cur - 1) = 0
      BY <1>1, <1>2, <2>2, CountersAreExact DEF RemembersRecent
    <3>2. 0 * reset = 0 /\ Window <= Max * Window
      BY <1>2
    <3> QED
      BY <3>1, <3>2
  <2> QED
    BY <1>2, <1>5, <2>1, <2>2
<1>9. Read(cur - 1) * reset \in Int /\ 0 * Window = 0
  BY <1>2, <1>7
<1> QED
  BY <1>6, <1>8, <1>9 DEF Admits, Estimate

\* After resetAfter and the time of one check, the caller that was denied is
\* admitted, if nobody was in between.
THEOREM RetryBoundHolds == Spec => []RetryBound
<1> USE LimitAssumption
<1>1. Init => RetryInv
  <2> SUFFICES ASSUME Init PROVE RetryInv
    OBVIOUS
  <2>1. 0 \in Nat /\ decision.at + decision.reset = Window * 0
    BY DEF Init, NoDecision
  <2>2. \A b \in Buckets : admitted[b] = 0
    BY DEF Init
  <2> QED
    BY <2>1, <2>2 DEF RetryInv
<1>2. TypeOK /\ CounterInv /\ RetryInv /\ [Next]_vars => RetryInv'
  <2> SUFFICES ASSUME TypeOK, CounterInv, RetryInv, [Next]_vars PROVE RetryInv'
    OBVIOUS
  <2>1. CASE Deny
    <3>1. /\ cur \in Nat /\ elapsed \in 0..(Window - 1)
          /\ reset = Window - elapsed /\ now = Window * cur + elapsed
      BY Clock DEF TypeOK, reset
    <3>2. decision'.at + decision'.reset = Window * (cur + 1)
      <4>1. decision'.at = now /\ decision'.reset = reset
        BY <2>1 DEF Deny
      <4> QED
        BY <3>1, <4>1
    <3>3. \A b \in Buckets : b >= cur + 1 => admitted'[b] = 0
      BY <2>1, <3>1 DEF Deny, CounterInv, Buckets
    <3> QED
      BY <3>1, <3>2, <3>3 DEF RetryInv
  <2>2. CASE Admit
    BY <2>2 DEF Admit, RetryInv
  <2>3. CASE Tick \/ UNCHANGED vars
    BY <2>3 DEF Tick, vars, RetryInv
  <2> QED
    BY <2>1, <2>2, <2>3 DEF Next, Check
<1>3. TypeOK /\ CounterInv /\ RetryInv => RetryBound
  BY DenialEnds
<1> QED
  BY <1>1, <1>2, <1>3, TypeCorrect, CountersHold, PTL DEF Spec

(***************************************************************************)
(* Refinement.                                                             *)
(***************************************************************************)

\* With exact counters, the script admits what the ideal window admits.
LEMMA SameAnswer ==
    ASSUME TypeOK, CounterInv
    PROVE  Ideal!Admits <=> Admits
<1>1. Read(cur - 1) = admitted[cur - 1] /\ Read(cur) = admitted[cur]
  BY CountersAreExact DEF RemembersRecent
<1> QED
  BY <1>1 DEF Admits, Estimate, Ideal!Admits, Ideal!Estimate, Ideal!cur,
              Ideal!elapsed, cur, elapsed, reset

\* RateLimit implements the sliding window that never forgets.
THEOREM ImplementsIdeal == Spec => RefinesIdeal
<1>1. Init => Ideal!Init
  BY DEF Init, Ideal!Init, NoDecision, Buckets, Ideal!Buckets
<1>2. TypeOK /\ CounterInv /\ [Next]_vars => [Ideal!Next]_(Ideal!ideal)
  <2> SUFFICES ASSUME TypeOK, CounterInv, [Next]_vars
               PROVE  Ideal!Next \/ UNCHANGED Ideal!ideal
    OBVIOUS
  <2>1. CASE Deny
    <3>1. Ideal!Admits = FALSE
      BY <2>1, SameAnswer DEF Deny, Ideal!Admits
    <3>2. decision'.allowed = FALSE
      BY <2>1 DEF Deny
    <3> QED
      BY <2>1, <3>1, <3>2 DEF Deny, Ideal!Next, Ideal!Check
  <2>2. CASE Admit
    <3>1. Ideal!Admits
      BY <2>2, SameAnswer DEF Admit
    <3>2. Ideal!cur = cur
      BY DEF Ideal!cur, cur
    <3> QED
      BY <2>2, <3>1, <3>2 DEF Admit, Ideal!Next, Ideal!Check
  <2>3. CASE Tick
    BY <2>3 DEF Tick, Ideal!Next, Ideal!Tick
  <2>4. CASE UNCHANGED vars
    BY <2>4 DEF vars, Ideal!ideal
  <2> QED
    BY <2>1, <2>2, <2>3, <2>4 DEF Next, Check
<1> QED
  BY <1>1, <1>2, TypeCorrect, CountersHold, PTL
  DEF Spec, RefinesIdeal, Ideal!Spec

(***************************************************************************)
(* Windows that start anywhere. The last Window seconds are the current    *)
(* bucket and the end of the previous one. WeightedBound weighs that       *)
(* bucket by at least 2/Window, unless its end is empty.                   *)
(***************************************************************************)
BucketOf(check) == check[1] \div Window

\* The checks of a bucket are in the log with numbers of their own, the last of
\* them being its counter.
LogInv ==
    /\ \A check \in log :
          /\ check[1] \in Window..now
          /\ check[2] \in 1..admitted[BucketOf(check)]
    /\ \A check, other \in log :
          BucketOf(check) = BucketOf(other) /\ check[2] = other[2] => check = other
    /\ log \subseteq Nat \X Nat

\* The log only watches.
LEMMA LogWatches == SpecLog => Spec
<1>1. InitLog => Init
  BY DEF InitLog
<1>2. [NextLog]_<< vars, log >> => [Next]_vars
  BY DEF NextLog
<1> QED
  BY <1>1, <1>2, PTL DEF SpecLog, Spec

\* A check changes the counter of its own bucket only.
LEMMA StepOfAdmitted ==
    ASSUME TypeOK, [Next]_vars
    PROVE  \/ admitted' = admitted /\ now' \in Nat /\ now <= now'
           \/ /\ admitted' = [admitted EXCEPT ![cur] = admitted[cur] + 1]
              /\ now' = now
<1>1. now \in Nat
  BY LimitAssumption DEF TypeOK
<1> QED
  BY <1>1 DEF Next, Check, Deny, Admit, Tick, vars

LEMMA LogHolds == SpecLog => []LogInv
<1> USE LimitAssumption
<1>1. InitLog => LogInv
  BY DEF InitLog, LogInv
<1>2. TypeOK /\ LogInv /\ [NextLog]_<< vars, log >> => LogInv'
  <2> SUFFICES ASSUME TypeOK, LogInv, [NextLog]_<< vars, log >> PROVE LogInv'
    OBVIOUS
  <2>1. cur \in Buckets /\ now \in Window..Horizon /\ now \in Nat /\ admitted \in [Buckets -> Nat]
    BY Clock DEF TypeOK
  <2>2. [Next]_vars
    BY DEF NextLog
  <2>3. CASE admitted' = admitted
    <3>1. log' = log /\ now' \in Nat /\ now <= now'
      <4>1. admitted # [admitted EXCEPT ![cur] = admitted[cur] + 1]
        BY <2>1
      <4> QED
        BY <2>2, <2>3, <4>1, StepOfAdmitted DEF NextLog, vars
    <3>2. \A check \in log : BucketOf(check)' = BucketOf(check)
      BY DEF BucketOf
    <3> QED
      BY <2>1, <2>3, <3>1, <3>2 DEF LogInv, BucketOf
  <2>4. CASE admitted' # admitted
    <3> DEFINE new == << now, admitted[cur] + 1 >>
    <3>1. /\ admitted' = [admitted EXCEPT ![cur] = admitted[cur] + 1]
          /\ now' = now /\ log' = log \cup { new }
      BY <2>1, <2>2, <2>4, StepOfAdmitted DEF NextLog, vars
    <3>2. BucketOf(new) = cur /\ new[1] = now /\ new[2] = admitted[cur] + 1
      BY DEF BucketOf, cur
    <3>3. \A b \in Buckets : admitted'[b] = IF b = cur THEN admitted[b] + 1 ELSE admitted[b]
      BY <2>1, <3>1
    <3>4. \A check \in log : BucketOf(check) \in Buckets
      <4> SUFFICES ASSUME NEW check \in log PROVE BucketOf(check) \in Buckets
        OBVIOUS
      <4>1. check[1] \in Window..now /\ check[1] \in Nat /\ Horizon \in Nat
        BY <2>1 DEF LogInv
      <4>2. check[1] \div Window \in Nat /\ check[1] \div Window <= now \div Window
        <5>1. check[1] <= now /\ Window \in Nat \ {0}
          BY <4>1
        <5>2. check[1] \div Window \in Nat
          BY <4>1, <5>1, BucketOfSecond
        <5>3. check[1] \div Window <= now \div Window
          BY <2>1, <4>1, <5>1, BucketsAreOrdered
        <5> QED
          BY <5>2, <5>3
      <4>3. now \div Window \in 0..(Horizon \div Window) /\ Horizon \div Window \in Nat
        BY <2>1, <4>1, BucketOfSecond DEF Buckets, cur
      <4> QED
        BY <4>2, <4>3 DEF BucketOf, Buckets
    <3>5. \A check \in log : check[2] \in 1..admitted[BucketOf(check)]
      BY DEF LogInv
    <3>6. \A check \in log : check[2] \in 1..admitted'[BucketOf(check)]
      BY <2>1, <3>3, <3>4, <3>5
    <3>7. \A check \in log : BucketOf(check) = BucketOf(new) => check[2] # new[2]
      BY <2>1, <3>2, <3>5
    <3>8. /\ new \in Nat \X Nat /\ new[1] \in Window..now'
          /\ new[2] \in 1..admitted'[BucketOf(new)]
      BY <2>1, <3>1, <3>2, <3>3
    <3> HIDE DEF new
    <3>9. /\ \A check \in log' : check[1] \in Window..now' /\ check[2] \in 1..admitted'[BucketOf(check)]
          /\ log' \subseteq Nat \X Nat
      BY <3>1, <3>6, <3>8 DEF LogInv
    <3>10. \A check, other \in log' :
             BucketOf(check) = BucketOf(other) /\ check[2] = other[2] => check = other
      BY <3>1, <3>7 DEF LogInv
    <3> QED
      BY <3>9, <3>10 DEF LogInv, BucketOf
  <2> QED
    BY <2>3, <2>4
<1> QED
  BY <1>1, <1>2, LogWatches, TypeCorrect, PTL DEF SpecLog

\* A bucket has no more checks in the log than its counter says.
LEMMA BucketIsCounted ==
    ASSUME TypeOK, LogInv, NEW b \in Buckets, NEW S, S \subseteq log,
           \A check \in S : BucketOf(check) = b
    PROVE  IsFiniteSet(S) /\ Cardinality(S) \in Nat /\ Cardinality(S) <= admitted[b]
<1> DEFINE number == [check \in S |-> check[2]]
<1>1. admitted[b] \in Nat
  BY DEF TypeOK
<1>2. IsFiniteSet(1..admitted[b]) /\ Cardinality(1..admitted[b]) = admitted[b]
  <2> DEFINE n == admitted[b]
  <2>1. n \in Nat
    BY <1>1
  <2> HIDE DEF n
  <2>2. IsFiniteSet(1..n) /\ Cardinality(1..n) = n
    BY <2>1, FS_Interval
  <2> QED
    BY <2>2 DEF n
<1>3. number \in Injection(S, 1..admitted[b])
  <2>1. \A check \in S : check[2] \in 1..admitted[b]
    BY DEF LogInv
  <2>2. \A check, other \in S : number[check] = number[other] => check = other
    BY DEF LogInv
  <2> QED
    BY <2>1, <2>2 DEF Injection, IsInjective
<1> QED
  BY <1>2, <1>3, FS_Injection, FS_CardinalityType

\* The last Window seconds reach back to the previous bucket, and not even so
\* far in the last second of a bucket.
LEMMA WindowIsTwoBuckets ==
    ASSUME now \in Window..Horizon, NEW t \in Nat, t <= now, t > now - Window
    PROVE  /\ t \div Window \in { cur - 1, cur }
           /\ elapsed = Window - 1 => t \div Window = cur
<1> USE LimitAssumption
<1> DEFINE b == t \div Window
           r == t % Window
<1>1. /\ now \in Nat /\ cur \in Nat /\ elapsed \in 0..(Window - 1)
      /\ now = Window * cur + elapsed
  <2>1. now \in Nat /\ Window \in Nat \ {0}
    OBVIOUS
  <2> QED
    BY <2>1, BucketOfSecond DEF cur, elapsed
<1>2. b \in Nat /\ r \in 0..(Window - 1) /\ t = Window * b + r
  BY BucketOfSecond
<1>3. b <= cur
  BY <1>1, BucketsAreOrdered DEF cur
<1> HIDE DEF b, r
<1>4. Window * (cur - b) < 2 * Window
  BY <1>1, <1>2
<1>5. ASSUME cur - b >= 2 PROVE FALSE
  <2>1. Window * (cur - b) >= Window * 2
    BY <1>1, <1>2, <1>5
  <2> QED
    BY <1>1, <1>2, <1>4, <2>1
<1>6. ASSUME elapsed = Window - 1, cur - b >= 1 PROVE FALSE
  <2>1. Window * (cur - b) >= Window
    BY <1>1, <1>2, <1>6
  <2> QED
    BY <1>1, <1>2, <1>6, <2>1
<1> QED
  BY <1>1, <1>2, <1>3, <1>5, <1>6 DEF b

\* The weighing, for p checks in the previous bucket and c in this one.
LEMMA WeighedWindow ==
    ASSUME NEW p \in 0..Max, NEW c \in Nat, NEW e \in 0..(Window - 1), e # Window - 1,
           p * (Window - e) + c * Window <= Max * Window
    PROVE  Window * (p + c) <= Max * (2 * Window - 2)
<1> USE LimitAssumption
<1>1. p * e <= Max * e
  OBVIOUS
<1>2. Max * e <= Max * (Window - 2)
  OBVIOUS
<1>3. Window * (p + c) = p * (Window - e) + p * e + c * Window
  OBVIOUS
<1>4. Max * (2 * Window - 2) = Max * Window + Max * (Window - 2)
  OBVIOUS
<1> QED
  BY <1>1, <1>2, <1>3, <1>4

\* Every Window seconds admit at most 2 - 2/Window times max checks, wherever
\* they start, and max if a window is a second (RateLimit.ts:25-27).
THEOREM SlidingBoundHolds == SpecLog => []SlidingBound
<1> USE LimitAssumption
<1>1. TypeOK /\ LogInv /\ RemembersRecent /\ WeightedBound => SlidingBound
  <2> SUFFICES ASSUME TypeOK, LogInv, RemembersRecent, WeightedBound PROVE SlidingBound
    OBVIOUS
  <2> DEFINE recent == { check \in log : check[1] > now - Window }
             here == { check \in recent : BucketOf(check) = cur }
             before == { check \in recent : BucketOf(check) = cur - 1 }
             p == admitted[cur - 1]
             c == admitted[cur]
  <2>1. /\ cur \in Buckets /\ cur - 1 \in Buckets /\ elapsed \in 0..(Window - 1)
        /\ now \in Window..Horizon /\ cur \in Int
    BY Clock, BucketOfSecond DEF TypeOK, cur, elapsed
  <2>2. p \in 0..Max /\ c \in Nat
    BY <2>1, ReadType DEF RemembersRecent, TypeOK
  <2>3. \A check \in recent : /\ BucketOf(check) \in { cur - 1, cur }
                              /\ elapsed = Window - 1 => BucketOf(check) = cur
    BY <2>1, WindowIsTwoBuckets DEF LogInv, BucketOf
  <2>4. IsFiniteSet(here) /\ Cardinality(here) \in Nat /\ Cardinality(here) <= c
    BY <2>1, BucketIsCounted
  <2>5. IsFiniteSet(before) /\ Cardinality(before) \in Nat /\ Cardinality(before) <= p
    BY <2>1, BucketIsCounted
  <2> HIDE DEF here, before
  <2>6. InLastWindow \in Nat /\ InLastWindow <= Cardinality(before) + Cardinality(here)
    <3>1. recent = before \cup here
      BY <2>3 DEF before, here
    <3>2. before \cap here \in SUBSET before
      OBVIOUS
    <3>3. IsFiniteSet(before \cap here)
      BY <2>5, <3>2, FS_Subset
    <3>4. Cardinality(before \cap here) \in Nat
      BY <3>3, FS_CardinalityType
    <3>5. /\ IsFiniteSet(before \cup here)
          /\ Cardinality(before \cup here) =
                Cardinality(before) + Cardinality(here) - Cardinality(before \cap here)
      BY <2>4, <2>5, FS_Union
    <3>6. Cardinality(before \cup here) \in Nat
      BY <3>5, FS_CardinalityType
    <3> QED
      <4>1. InLastWindow = Cardinality(before \cup here)
        BY <3>1 DEF InLastWindow
      <4> QED
        BY <2>4, <2>5, <3>4, <3>5, <3>6, <4>1
  <2>7. p * (Window - elapsed) + c * Window <= Max * Window
    BY DEF WeightedBound, reset
  <2>8. CASE elapsed = Window - 1
    <3>1. before = {}
      BY <2>1, <2>3, <2>8 DEF before
    <3>2. Cardinality(before) = 0
      BY <3>1, FS_EmptySet
    <3>3. InLastWindow <= c
      BY <2>2, <2>4, <2>6, <3>2
    <3>4. p + c * Window <= Max * Window
      BY <2>2, <2>7, <2>8
    <3>5. Window * InLastWindow <= Max * Window
      <4>1. Window * InLastWindow <= Window * c
        BY <2>2, <2>6, <3>3
      <4> QED
        BY <2>2, <2>6, <3>4, <4>1
    <3>6. Window # 1 => Max * Window <= Max * (2 * Window - 2)
      OBVIOUS
    <3> QED
      BY <2>6, <3>5, <3>6 DEF SlidingBound
  <2>9. CASE elapsed # Window - 1
    <3>1. Window * (p + c) <= Max * (2 * Window - 2)
      BY <2>1, <2>2, <2>7, <2>9, WeighedWindow
    <3>2. Window * InLastWindow <= Window * (p + c)
      BY <2>2, <2>4, <2>5, <2>6
    <3>3. Window # 1
      BY <2>1, <2>9
    <3> QED
      BY <2>2, <2>6, <3>1, <3>2, <3>3 DEF SlidingBound
  <2> QED
    BY <2>8, <2>9
<1> QED
  BY <1>1, LogWatches, LogHolds, TypeCorrect, RemembersRecentHolds, WeightedBoundHolds, PTL
=============================================================================
