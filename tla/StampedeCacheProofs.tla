------------------------ MODULE StampedeCacheProofs ------------------------
(***************************************************************************)
(* Proofs about StampedeCache for every set of calls, every lifetime and   *)
(* every set of events.                                                    *)
(***************************************************************************)
EXTENDS StampedeCache, FiniteSetTheorems, TLAPS

(***************************************************************************)
(* Type correctness.                                                       *)
(***************************************************************************)

\* The jittered sleep, in ticks: at least one, at most MaxSleep.
LEMMA SleepsAreTicks ==
    MinSleep \in Nat /\ MaxSleep \in Nat /\ MaxSleep >= 1 /\ MinSleep <= MaxSleep
BY ConstantsAssumption DEF MinSleep, MaxSleep

\* What a call itself does keeps the types.
LEMMA CallStepType ==
    ASSUME TypeOK, NEW c \in Calls, CallStep(c)
    PROVE  TypeOK'
<1> USE ConstantsAssumption, SleepsAreTicks
    DEF TypeOK, redis, Steps, CommandSteps, Go, Allow, Finish
<1>1. CASE Get(c)
  BY <1>1 DEF Get
<1>2. CASE Acquire(c)
  BY <1>2 DEF Acquire, GrantLock
<1>3. CASE GrantReply(c)
  BY <1>3 DEF GrantReply
<1>4. CASE CheckDeadline(c)
  BY <1>4 DEF CheckDeadline
<1>5. CASE Lookup(c)
  BY <1>5 DEF Lookup
<1>6. CASE Store(c)
  BY <1>6 DEF Store
<1>7. CASE Release(c)
  BY <1>7 DEF Release, CompareAndDelete
<1>8. CASE Wake(c)
  BY <1>8 DEF Wake
<1> QED
  BY <1>1, <1>2, <1>3, <1>4, <1>5, <1>6, <1>7, <1>8 DEF CallStep

\* So does what the environment does to a call.
LEMMA DisturbType ==
    ASSUME TypeOK, NEW c \in Calls, Disturb(c)
    PROVE  TypeOK'
<1> USE ConstantsAssumption, SleepsAreTicks
    DEF TypeOK, redis, Steps, CommandSteps, Go, Allow, Finish
<1>1. CASE BeginRefresh(c)
  BY <1>1 DEF BeginRefresh
<1>2. CASE RedisFails(c)
  BY <1>2 DEF RedisFails, Abandon
<1>3. CASE Resend(c)
  BY <1>3 DEF Resend, GrantLock
<1>4. CASE Interrupt(c)
  BY <1>4 DEF Interrupt, Abandon
<1>5. CASE Crash(c)
  BY <1>5 DEF Crash, Abandon
<1> QED
  BY <1>1, <1>2, <1>3, <1>4, <1>5 DEF Disturb

\* Every state of every behaviour has the declared types.
THEOREM TypeCorrect == Spec => []TypeOK
<1>1. Init => TypeOK
  <2> SUFFICES ASSUME Init PROVE TypeOK
    OBVIOUS
  <2> USE ConstantsAssumption DEF Init
  <2>1. timer \in [Calls -> 0..(MaxSleep + MaxRound + MaxFinish)]
    BY SleepsAreTicks
  <2>2. faulted \in BOOLEAN /\ orphans \subseteq CommandSteps \X Calls
    OBVIOUS
  <2> QED
    BY <2>1, <2>2 DEF TypeOK, Steps
<1>2. TypeOK /\ [Next]_vars => TypeOK'
  <2> SUFFICES ASSUME TypeOK, [Next]_vars PROVE TypeOK'
    OBVIOUS
  <2>1. ASSUME NEW c \in Calls, BeginGet(c) PROVE TypeOK'
    BY <2>1, ConstantsAssumption, SleepsAreTicks
    DEF TypeOK, BeginGet, redis, Steps, CommandSteps, Go, Allow
  <2>2. ASSUME NEW c \in Calls, CallStep(c) PROVE TypeOK'
    BY <2>2, CallStepType
  <2>3. ASSUME NEW c \in Calls, Disturb(c) PROVE TypeOK'
    BY <2>3, DisturbType
  <2>4. ASSUME NEW c \in Calls, NEW cmd \in CommandSteps, RunOrphan(cmd, c)
        PROVE  TypeOK'
    BY <2>4, ConstantsAssumption
    DEF TypeOK, RunOrphan, GrantLock, CompareAndDelete
  <2>5. CASE Write
    BY <2>5, ConstantsAssumption DEF TypeOK, Write
  <2>6. CASE Tick
    <3>1. /\ cached' \in 0..Ttl
          /\ lockOwner' \in Calls \cup {NoOwner}
          /\ lockLeft' \in 0..LockTtl
      BY <2>6, ConstantsAssumption DEF TypeOK, Tick, Countdown
    <3>2. pc' \in [Calls -> Steps]
      BY <2>6 DEF TypeOK, Tick, Steps, CommandSteps
    <3>3. /\ wait' \in [Calls -> 0..WaitTimeout]
          /\ hold' \in [Calls -> 0..MaxHold]
          /\ timer' \in [Calls -> 0..(MaxSleep + MaxRound + MaxFinish)]
      BY SleepsAreTicks, <2>6, ConstantsAssumption DEF TypeOK, Tick, Countdown
    <3>4. UNCHANGED << role, orphans >> /\ faulted' \in BOOLEAN
      BY <2>6 DEF TypeOK, Tick
    <3> QED
      BY <3>1, <3>2, <3>3, <3>4 DEF TypeOK
  <2>7. CASE UNCHANGED vars
    BY <2>7 DEF TypeOK, vars
  <2> QED
    BY <2>1, <2>2, <2>3, <2>4, <2>5, <2>6, <2>7 DEF Next
<1> QED
  BY <1>1, <1>2, PTL DEF Spec

(***************************************************************************)
(* Single flight.  SingleFlight is not inductive: it says nothing of the   *)
(* lock.  SingleFlightInv is.  While a lookup is in time, the token of its *)
(* call is at the lock key and the lock has all of its unused lifetime, so *)
(* no Tick lets it expire first; a release that arrives late carries the   *)
(* token of a call that is over, so it matches no holder's.                *)
(***************************************************************************)

\* A call's own step leaves every other holder its lock.
LEMMA CallStepKeepsLock ==
    ASSUME TypeOK, SingleFlightInv, NEW c \in Calls, CallStep(c)
    PROVE  SingleFlightInv'
<1> USE ConstantsAssumption
    DEF TypeOK, SingleFlightInv, HolderOwnsLock, OrphansAreOver, InTime, Holding,
        redis, Go, Allow, Finish
<1>1. CASE Get(c)
  BY <1>1 DEF Get
<1>2. CASE Acquire(c)
  BY <1>2 DEF Acquire, GrantLock
<1>3. CASE GrantReply(c)
  BY <1>3 DEF GrantReply
<1>4. CASE CheckDeadline(c)
  BY <1>4 DEF CheckDeadline
<1>5. CASE Lookup(c)
  BY <1>5 DEF Lookup
<1>6. CASE Store(c)
  BY <1>6 DEF Store
<1>7. CASE Release(c)
  BY <1>7 DEF Release, CompareAndDelete
<1>8. CASE Wake(c)
  BY <1>8 DEF Wake
<1> QED
  BY <1>1, <1>2, <1>3, <1>4, <1>5, <1>6, <1>7, <1>8 DEF CallStep

\* Neither does a disturbance take a holder's lock away.
LEMMA DisturbKeepsLock ==
    ASSUME TypeOK, SingleFlightInv, NEW c \in Calls, Disturb(c)
    PROVE  SingleFlightInv'
<1> USE ConstantsAssumption
    DEF TypeOK, SingleFlightInv, HolderOwnsLock, OrphansAreOver, InTime, Holding,
        CommandSteps, redis, Go, Allow, Finish
<1>1. CASE BeginRefresh(c)
  BY <1>1 DEF BeginRefresh
<1>2. CASE RedisFails(c)
  BY <1>2 DEF RedisFails, Abandon
<1>3. CASE Resend(c)
  BY <1>3 DEF Resend, GrantLock
<1>4. CASE Interrupt(c)
  BY <1>4 DEF Interrupt, Abandon
<1>5. CASE Crash(c)
  BY <1>5 DEF Crash, Abandon
<1> QED
  BY <1>1, <1>2, <1>3, <1>4, <1>5 DEF Disturb

\* An orphaned acquire finds a holder's lock taken, and an orphaned release
\* carries the token of a call that is over.
LEMMA RunOrphanKeepsLock ==
    ASSUME TypeOK, SingleFlightInv, NEW c \in Calls, NEW cmd \in CommandSteps,
           RunOrphan(cmd, c)
    PROVE  SingleFlightInv'
<1> USE DEF RunOrphan
<1>1. ~Holding(c)
  BY DEF SingleFlightInv, OrphansAreOver, Holding
<1>2. \A d \in Calls : InTime(d) => UNCHANGED << lockOwner, lockLeft >>
  BY <1>1, ConstantsAssumption
  DEF SingleFlightInv, HolderOwnsLock, InTime, GrantLock, CompareAndDelete
<1>3. HolderOwnsLock'
  BY <1>2 DEF SingleFlightInv, HolderOwnsLock, InTime, Holding
<1>4. OrphansAreOver'
  BY DEF SingleFlightInv, OrphansAreOver
<1> QED
  BY <1>3, <1>4 DEF SingleFlightInv

\* A Tick lets no lock expire under a lookup that is still in time.
LEMMA TickKeepsLock ==
    ASSUME TypeOK, SingleFlightInv, Tick
    PROVE  SingleFlightInv'
<1>1. HolderOwnsLock'
  <2> SUFFICES ASSUME NEW c \in Calls, InTime(c)'
               PROVE  /\ lockOwner' = c
                      /\ lockLeft' + MaxHold >= hold'[c] + LockTtl
    BY DEF HolderOwnsLock
  <2>1. Holding(c) /\ hold[c] > 0 /\ hold'[c] = hold[c] - 1
    BY DEF TypeOK, Tick, Countdown, InTime, Holding
  <2>2. MaxHold < hold[c] - 1 + LockTtl
    BY <2>1 DEF InTime
  <2>3. InTime(c)
    BY <2>1, <2>2, ConstantsAssumption DEF TypeOK, InTime
  <2>4. lockOwner = c /\ lockLeft + MaxHold >= hold[c] + LockTtl
    BY <2>3 DEF SingleFlightInv, HolderOwnsLock
  <2>5. lockLeft > 1
    BY <2>2, <2>4, ConstantsAssumption DEF TypeOK
  <2> QED
    BY <2>1, <2>4, <2>5, ConstantsAssumption DEF TypeOK, Tick, Countdown
<1>2. OrphansAreOver'
  BY DEF TypeOK, SingleFlightInv, OrphansAreOver, Tick
<1> QED
  BY <1>1, <1>2 DEF SingleFlightInv

\* Whoever looks up in time owns the lock, whatever happens beside it.
THEOREM LockOutlivesLookup == Spec => []SingleFlightInv
<1>1. Init => SingleFlightInv
  BY DEF Init, SingleFlightInv, HolderOwnsLock, OrphansAreOver, InTime, Holding
<1>2. TypeOK /\ SingleFlightInv /\ [Next]_vars => SingleFlightInv'
  <2> SUFFICES ASSUME TypeOK, SingleFlightInv, [Next]_vars
               PROVE  SingleFlightInv'
    OBVIOUS
  <2> USE DEF SingleFlightInv, HolderOwnsLock, OrphansAreOver, InTime, Holding
  <2>1. ASSUME NEW c \in Calls, BeginGet(c) PROVE SingleFlightInv'
    BY <2>1 DEF TypeOK, BeginGet, redis, Go, Allow
  <2>2. ASSUME NEW c \in Calls, CallStep(c) PROVE SingleFlightInv'
    BY <2>2, CallStepKeepsLock
  <2>3. ASSUME NEW c \in Calls, Disturb(c) PROVE SingleFlightInv'
    BY <2>3, DisturbKeepsLock
  <2>4. ASSUME NEW c \in Calls, NEW cmd \in CommandSteps, RunOrphan(cmd, c)
        PROVE  SingleFlightInv'
    BY <2>4, RunOrphanKeepsLock
  <2>5. CASE Write
    BY <2>5 DEF Write
  <2>6. CASE Tick
    BY <2>6, TickKeepsLock
  <2>7. CASE UNCHANGED vars
    BY <2>7 DEF vars
  <2> QED
    BY <2>1, <2>2, <2>3, <2>4, <2>5, <2>6, <2>7 DEF Next
<1> QED
  BY <1>1, <1>2, TypeCorrect, PTL DEF Spec

\* Of two calls that look up under the lock at once, one has outlasted its lock.
THEOREM SingleFlightHolds == Spec => []SingleFlight
<1>1. SingleFlightInv => SingleFlight
  BY DEF SingleFlightInv, HolderOwnsLock, SingleFlight
<1> QED
  BY <1>1, LockOutlivesLookup, PTL

\* When every lookup fits in the lock's lifetime, at most one call at a time looks
\* the key up under the lock, whatever fails.
THEOREM OneLookupAtATime ==
    ASSUME MaxHold < LockTtl
    PROVE  Spec => [](\A c, d \in Calls : Holding(c) /\ Holding(d) => c = d)
<1>1. TypeOK /\ SingleFlight => \A c, d \in Calls : Holding(c) /\ Holding(d) => c = d
  <2>1. TypeOK => \A c \in Calls : Holding(c) => InTime(c)
    BY ConstantsAssumption DEF TypeOK, InTime
  <2> QED
    BY <2>1 DEF SingleFlight
<1> QED
  BY <1>1, TypeCorrect, SingleFlightHolds, PTL

(***************************************************************************)
(* Ownership of the lock, with no assumption on how long a lookup takes.   *)
(***************************************************************************)

\* The lock leaves its owner only by expiry or by its owner's release.
THEOREM OnlyOwnerFreesLock == Spec => LockFreedOnlyByOwner
<1>1. TypeOK /\ [Next]_vars =>
        ((lockOwner \in Calls /\ lockOwner' # lockOwner) => LockFreedByOwner)
  <2> SUFFICES ASSUME TypeOK, [Next]_vars, lockOwner \in Calls,
                      lockOwner' # lockOwner
               PROVE  LockFreedByOwner
    OBVIOUS
  <2> USE ConstantsAssumption DEF LockFreedByOwner, redis
  <2>1. ASSUME NEW c \in Calls, CallStep(c) PROVE LockFreedByOwner
    <3>1. Release(c)
      BY <2>1 DEF CallStep, Get, Acquire, GrantLock, GrantReply,
                  CheckDeadline, Wake, Lookup, Store
    <3> QED
      BY <3>1 DEF TypeOK, Release, CompareAndDelete, Go
  <2>2. ASSUME NEW c \in Calls, BeginGet(c) \/ Disturb(c) PROVE FALSE
    BY <2>2 DEF BeginGet, Disturb, BeginRefresh, RedisFails, Resend,
                GrantLock, Interrupt, Crash
  <2>3. ASSUME NEW c \in Calls, NEW cmd \in CommandSteps, RunOrphan(cmd, c)
        PROVE  LockFreedByOwner
    BY <2>3 DEF RunOrphan, GrantLock, CompareAndDelete
  <2>4. CASE Write
    BY <2>4 DEF Write
  <2>5. CASE Tick
    BY <2>5 DEF Tick, Countdown
  <2>6. CASE UNCHANGED vars
    BY <2>6 DEF vars
  <2> QED
    BY <2>1, <2>2, <2>3, <2>4, <2>5, <2>6 DEF Next
<1> QED
  BY <1>1, TypeCorrect, PTL DEF Spec, LockFreedOnlyByOwner

(***************************************************************************)
(* No leaked lock.  The invariant adds what makes NoLeakedLock inductive:  *)
(* the owner knows that it holds the lock, so every way out of its lookup  *)
(* leads to the release, and no acquire arrives after its caller is gone.  *)
(***************************************************************************)

NoLeakInv ==
    /\ NoLeakedLock
    /\ ~faulted => /\ lockOwner \in Calls => role[lockOwner] = "holder"
                   /\ \A c \in Calls : << "setnx", c >> \notin orphans

\* Until the first fault every lock is on its way to a release.
LEMMA NoLeakInvHolds == Spec => []NoLeakInv
<1>1. Init => NoLeakInv
  BY ConstantsAssumption DEF Init, NoLeakInv, NoLeakedLock
<1>2. TypeOK /\ NoLeakInv /\ [Next]_vars => NoLeakInv'
  <2> SUFFICES ASSUME TypeOK, NoLeakInv, [Next]_vars PROVE NoLeakInv'
    OBVIOUS
  <2> USE ConstantsAssumption
      DEF TypeOK, NoLeakInv, NoLeakedLock, redis, Go, Finish
  <2>1. ASSUME NEW c \in Calls, BeginGet(c) PROVE NoLeakInv'
    BY <2>1 DEF BeginGet
  <2>2. ASSUME NEW c \in Calls, CallStep(c) PROVE NoLeakInv'
    <3>1. CASE Get(c)
      BY <3>1 DEF Get
    <3>2. CASE Acquire(c)
      BY <3>2 DEF Acquire, GrantLock
    <3>3. CASE GrantReply(c) \/ Lookup(c) \/ Store(c)
      BY <3>3 DEF GrantReply, Lookup, Store
    <3>4. CASE CheckDeadline(c) \/ Wake(c)
      BY <3>4 DEF CheckDeadline, Wake
    <3>5. CASE Release(c)
      BY <3>5 DEF Release, CompareAndDelete
    <3> QED
      BY <2>2, <3>1, <3>2, <3>3, <3>4, <3>5 DEF CallStep
  <2>3. ASSUME NEW c \in Calls, Disturb(c) PROVE NoLeakInv'
    <3>1. CASE RedisFails(c) \/ Resend(c) \/ Crash(c)
      BY <3>1 DEF RedisFails, Resend, Crash
    <3>2. CASE BeginRefresh(c)
      BY <3>2 DEF BeginRefresh
    <3>3. CASE Interrupt(c)
      BY <3>3 DEF Interrupt, Abandon
    <3> QED
      BY <2>3, <3>1, <3>2, <3>3 DEF Disturb
  <2>4. ASSUME NEW c \in Calls, NEW cmd \in CommandSteps, RunOrphan(cmd, c)
        PROVE  NoLeakInv'
    BY <2>4 DEF RunOrphan, CompareAndDelete
  <2>5. CASE Write \/ Tick \/ UNCHANGED vars
    BY <2>5 DEF Write, Tick, vars
  <2> QED
    BY <2>1, <2>2, <2>3, <2>4, <2>5 DEF Next
<1> QED
  BY <1>1, <1>2, TypeCorrect, PTL DEF Spec

\* Only a fault leaves a lock behind, no interrupt and no failing lookup
\* (Cache.ts:127-150).
THEOREM NoLockLeaks == Spec => []NoLeakedLock
<1>1. NoLeakInv => NoLeakedLock
  BY DEF NoLeakInv
<1> QED
  BY <1>1, NoLeakInvHolds, PTL

(***************************************************************************)
(* Patience. A waiter is denied a lock only while somebody has it. Each of *)
(* the others can hold it back for one share: the lookup, the store and    *)
(* the release, and the gap until the waiter asks again. The wait that is  *)
(* left to a waiter covers the shares that are left to the others. They    *)
(* are counted as a set, so that this holds for any number of calls.       *)
(***************************************************************************)
WaitingSteps == { "get", "setnx", "denied", "sleep" }

\* A lock that was given back finds its waiter at the end of a round, asleep or
\* in the next round.
Gap == MaxSleep + 2 * MaxRound
Share == MaxHold + MaxFinish + Gap

\* The ticks for which a call may still hold a waiter back.
Budget(c) ==
    CASE pc[c] = "idle" \/ pc[c] \in WaitingSteps                -> Share
      [] lockOwner = c /\ Holding(c)                             -> hold[c] + MaxFinish + Gap
      [] lockOwner = c /\ pc[c] \in { "store", "release" }       -> timer[c] + Gap
      [] OTHER                                                   -> 0

Turns(c) == { x \in (Calls \ {c}) \X (1..Share) : x[2] <= Budget(x[1]) }

\* The ticks that a waiter may take until it asks for a lock that is free.
Delay(c) ==
    IF lockOwner # NoOwner THEN 0
    ELSE CASE pc[c] = "denied" -> timer[c] + MaxSleep + MaxRound
           [] pc[c] = "sleep"  -> timer[c] + MaxRound
           [] OTHER            -> timer[c]

\* The last sleep and the last round may go past the deadline.
Patient(c) ==
    pc[c] \in WaitingSteps =>
        Cardinality(Turns(c)) + Delay(c) < wait[c] + MaxSleep + MaxRound

\* A step takes no longer than it may.
TimersInv ==
    \A c \in Calls :
        /\ pc[c] \in { "get", "setnx", "denied" } => timer[c] <= MaxRound
        /\ pc[c] = "sleep" => timer[c] <= MaxSleep
        /\ pc[c] \in { "store", "release" } => timer[c] <= MaxFinish

PatienceInv ==
    /\ NoLeakInv
    /\ orphans \subseteq {"store"} \X Calls
    /\ \A c \in Calls : Patient(c)

\* The wait timeout fits the shares of all others, but for the sleep that may
\* begin before the deadline and end after it.
EnoughWait == (Cardinality(Calls) - 1) * Share < WaitTimeout + MaxSleep

\* What has failed once stays so.
LEMMA FaultStays ==
    ASSUME [Next]_vars, faulted
    PROVE  faulted'
BY DEF Next, vars, BeginGet, CallStep, Get, Acquire, GrantReply, CheckDeadline, Wake,
       Lookup, Store, Release, Disturb, BeginRefresh, RedisFails, Resend, Interrupt,
       Crash, RunOrphan, Write, Tick

\* The timers are those of their steps in every reachable state.
LEMMA TimersHold == Spec => []TimersInv
<1> USE ConstantsAssumption, SleepsAreTicks
<1>1. Init => TimersInv
  BY DEF Init, TimersInv
<1>2. TypeOK /\ TimersInv /\ [Next]_vars => TimersInv'
  <2> SUFFICES ASSUME TypeOK, TimersInv, [Next]_vars PROVE TimersInv'
    OBVIOUS
  <2> USE DEF TypeOK, TimersInv, Go, Allow, Finish, redis
  <2>1. ASSUME NEW c \in Calls, BeginGet(c) PROVE TimersInv'
    BY <2>1 DEF BeginGet
  <2>2. ASSUME NEW c \in Calls, CallStep(c) PROVE TimersInv'
    <3>1. CASE Get(c) \/ Acquire(c) \/ GrantReply(c)
      BY <3>1 DEF Get, Acquire, GrantReply
    <3>2. CASE CheckDeadline(c) \/ Wake(c)
      BY <3>2 DEF CheckDeadline, Wake
    <3>3. CASE Lookup(c) \/ Store(c) \/ Release(c)
      BY <3>3 DEF Lookup, Store, Release
    <3> QED
      BY <2>2, <3>1, <3>2, <3>3 DEF CallStep
  <2>3. ASSUME NEW c \in Calls, Disturb(c) PROVE TimersInv'
    BY <2>3 DEF Disturb, BeginRefresh, RedisFails, Resend, Interrupt, Crash, CommandSteps
  <2>4. ASSUME NEW c \in Calls, NEW cmd \in CommandSteps, RunOrphan(cmd, c) PROVE TimersInv'
    BY <2>4 DEF RunOrphan
  <2>5. CASE Tick
    BY <2>5 DEF Tick, Countdown
  <2>6. CASE Write \/ UNCHANGED vars
    BY <2>6 DEF Write, vars
  <2> QED
    BY <2>1, <2>2, <2>3, <2>4, <2>5, <2>6 DEF Next
<1> QED
  BY <1>1, <1>2, TypeCorrect, PTL DEF Spec

\* The bounds are numbers of ticks.
LEMMA SharesAreTicks ==
    Gap \in Nat /\ Share \in Nat /\ Gap >= 1 /\ Gap = MaxSleep + 2 * MaxRound
    /\ Share = MaxHold + MaxFinish + Gap
BY ConstantsAssumption, SleepsAreTicks DEF Gap, Share

\* A budget is at most a whole share.
LEMMA BudgetBound ==
    ASSUME TypeOK, TimersInv, NEW c \in Calls
    PROVE  Budget(c) \in 0..Share
<1> USE ConstantsAssumption, SharesAreTicks, SleepsAreTicks DEF TypeOK
<1>1. CASE pc[c] = "idle" \/ pc[c] \in WaitingSteps
  BY <1>1 DEF Budget, Holding, WaitingSteps
<1>2. CASE Holding(c)
  BY <1>2 DEF Budget, Holding, WaitingSteps
<1>3. CASE ~Holding(c) /\ pc[c] \in { "store", "release" }
  BY <1>3 DEF Budget, TimersInv, WaitingSteps
<1>4. CASE ~Holding(c) /\ ~(pc[c] = "idle" \/ pc[c] \in WaitingSteps) /\ pc[c] \notin { "store", "release" }
  BY <1>4 DEF Budget
<1> QED
  BY <1>1, <1>2, <1>3, <1>4 DEF Holding, WaitingSteps

\* A waiter takes a gap at most until it asks again.
LEMMA DelayBound ==
    ASSUME TypeOK, TimersInv, NEW c \in Calls, pc[c] \in WaitingSteps
    PROVE  Delay(c) \in 0..Gap
BY ConstantsAssumption, SharesAreTicks, SleepsAreTicks DEF TypeOK, TimersInv, Delay, WaitingSteps

\* A set that loses a run of numbers of one call.
LEMMA RunOfNumbers ==
    ASSUME NEW S, IsFiniteSet(S), NEW T \in SUBSET S, NEW d, NEW a \in Nat, NEW b \in Nat, a <= b,
           \A k \in (a + 1)..b : << d, k >> \in S /\ << d, k >> \notin T
    PROVE  /\ IsFiniteSet(T) /\ Cardinality(S) \in Nat /\ Cardinality(T) \in Nat
           /\ Cardinality(T) + (b - a) <= Cardinality(S)
<1> DEFINE I == (a + 1)..b
           D == {d}
           R == D \X I
<1>1. IsFiniteSet(I) /\ Cardinality(I) = b - a
  <2>1. PICK m \in Int : m = a + 1
    OBVIOUS
  <2>2. IsFiniteSet(m..b) /\ Cardinality(m..b) = IF m > b THEN 0 ELSE b - m + 1
    BY FS_Interval
  <2> QED
    BY <2>1, <2>2
<1>2. IsFiniteSet(D) /\ Cardinality(D) = 1
  BY FS_Singleton
<1>3. R \subseteq S /\ T \cap R = {} /\ T \cup R \in SUBSET S
  OBVIOUS
<1> HIDE DEF I, D
<1>4. IsFiniteSet(R) /\ Cardinality(R) = b - a
  <2>1. IsFiniteSet(R) /\ Cardinality(R) = Cardinality(D) * Cardinality(I)
    BY <1>1, <1>2, FS_Product
  <2> QED
    BY <1>1, <1>2, <2>1
<1> HIDE DEF R
<1>5. IsFiniteSet(T)
  BY FS_Subset
<1>6. Cardinality(T \cup R) = Cardinality(T) + Cardinality(R) - Cardinality(T \cap R)
  BY <1>4, <1>5, FS_Union
<1>7. Cardinality(T \cap R) = 0
  BY <1>3, FS_EmptySet
<1>8. Cardinality(T \cup R) <= Cardinality(S)
  BY <1>3, FS_Subset
<1>9. Cardinality(S) \in Nat /\ Cardinality(T) \in Nat
  BY <1>5, FS_CardinalityType
<1> QED
  BY <1>4, <1>5, <1>6, <1>7, <1>8, <1>9

\* There are at most as many turns as the others have together.
LEMMA TurnsAreFinite ==
    ASSUME IsFiniteSet(Calls), NEW c \in Calls
    PROVE  /\ IsFiniteSet(Turns(c)) /\ Cardinality(Turns(c)) \in Nat
           /\ (Cardinality(Calls) - 1) * Share \in Nat
           /\ Cardinality(Turns(c)) <= (Cardinality(Calls) - 1) * Share
<1> DEFINE S == Calls \ {c}
           T == 1..Share
<1>1. IsFiniteSet(S) /\ Cardinality(S) = Cardinality(Calls) - 1 /\ Cardinality(S) \in Nat
  BY FS_RemoveElement, FS_CardinalityType
<1>2. IsFiniteSet(T) /\ Cardinality(T) = Share
  BY FS_Interval, SharesAreTicks
<1>3. Turns(c) \in SUBSET (S \X T)
  BY DEF Turns
<1> HIDE DEF S, T
<1>4. IsFiniteSet(S \X T) /\ Cardinality(S \X T) = Cardinality(S) * Cardinality(T)
  BY <1>1, <1>2, FS_Product
<1>5. IsFiniteSet(Turns(c)) /\ Cardinality(Turns(c)) <= Cardinality(S \X T)
  BY <1>3, <1>4, FS_Subset
<1>6. Cardinality(S \X T) = (Cardinality(Calls) - 1) * Share
  BY <1>1, <1>2, <1>4
<1>7. Cardinality(S \X T) \in Nat /\ Cardinality(Turns(c)) \in Nat
  BY <1>4, <1>5, FS_CardinalityType
<1> QED
  BY <1>5, <1>6, <1>7

\* What another call has left, a waiter may have to wait for.
LEMMA TurnsCover ==
    ASSUME IsFiniteSet(Calls), TypeOK, TimersInv, NEW c \in Calls, NEW d \in Calls \ {c}
    PROVE  Cardinality(Turns(c)) \in Nat /\ Budget(d) <= Cardinality(Turns(c))
<1>1. Budget(d) \in 0..Share /\ Share \in Nat
  BY BudgetBound, SharesAreTicks
<1>2. PICK S, T : S = Turns(c) /\ T = {}
  OBVIOUS
<1>3. PICK a \in Nat, b \in Nat : a = 0 /\ b = Budget(d)
  BY <1>1
<1>4. IsFiniteSet(S) /\ T \in SUBSET S /\ Cardinality(T) = 0 /\ a <= b
  BY <1>2, <1>3, TurnsAreFinite, FS_EmptySet
<1>5. \A k \in (a + 1)..b : << d, k >> \in S /\ << d, k >> \notin T
  BY <1>1, <1>2, <1>3 DEF Turns
<1>6. Cardinality(S) \in Nat /\ Cardinality(T) + (b - a) <= Cardinality(S)
  BY <1>4, <1>5, RunOfNumbers
<1> QED
  BY <1>2, <1>3, <1>4, <1>6

\* Turns that go, or stay: what a call has used up is gone for those who wait.
LEMMA TurnsPass ==
    ASSUME IsFiniteSet(Calls), TypeOK, TypeOK', TimersInv, TimersInv', NEW c \in Calls,
           \A d \in Calls \ {c} : Budget(d)' <= Budget(d)
    PROVE  /\ Cardinality(Turns(c)) \in Nat /\ Cardinality(Turns(c)') \in Nat
           /\ Cardinality(Turns(c)') <= Cardinality(Turns(c))
           /\ \A d \in Calls \ {c} :
                 Cardinality(Turns(c)') + (Budget(d) - Budget(d)') <= Cardinality(Turns(c))
<1>1. \A d \in Calls : Budget(d) \in 0..Share /\ Budget(d)' \in 0..Share
  <2>1. ASSUME NEW d \in Calls PROVE Budget(d)' \in 0..Share
    BY ConstantsAssumption, SharesAreTicks, SleepsAreTicks
    DEF TypeOK, TimersInv, Budget, Holding, WaitingSteps
  <2> QED
    BY <2>1, BudgetBound
<1>2. IsFiniteSet(Turns(c)) /\ Share \in Nat
  BY TurnsAreFinite, SharesAreTicks
<1>3. Turns(c)' \in SUBSET Turns(c)
  BY <1>1, <1>2 DEF Turns
<1>4. PICK S, T : S = Turns(c) /\ T = Turns(c)'
  OBVIOUS
<1>5. IsFiniteSet(S) /\ T \in SUBSET S /\ Cardinality(S) \in Nat /\ Cardinality(T) \in Nat
      /\ Cardinality(T) <= Cardinality(S)
  BY <1>2, <1>3, <1>4, FS_Subset, FS_CardinalityType
<1>6. ASSUME NEW d \in Calls \ {c}
      PROVE  Cardinality(T) + (Budget(d) - Budget(d)') <= Cardinality(S)
  <2>1. PICK a \in Nat, b \in Nat : a = Budget(d)' /\ b = Budget(d)
    BY <1>1, <1>2
  <2>2. a <= b /\ b <= Share
    BY <1>1, <2>1
  <2>3. \A k \in (a + 1)..b : << d, k >> \in S /\ << d, k >> \notin T
    BY <1>2, <1>4, <2>1, <2>2 DEF Turns
  <2> QED
    BY <1>5, <2>1, <2>2, <2>3, RunOfNumbers
<1> QED
  BY <1>4, <1>5, <1>6

\* A step of one call d, or none: the others wait as before, and the lock gets
\* free only when d has used up its share but for the gap.
LEMMA OthersStayPatient ==
    ASSUME IsFiniteSet(Calls), TypeOK, TypeOK', TimersInv, TimersInv',
           \A c \in Calls : Patient(c), NEW d \in Calls,
           \A c \in Calls \ {d} : /\ pc'[c] = pc[c] /\ role'[c] = role[c] /\ hold'[c] = hold[c]
                                  /\ wait'[c] = wait[c] /\ timer'[c] = timer[c],
           lockOwner' = lockOwner \/ { lockOwner, lockOwner' } = { d, NoOwner },
           Budget(d)' <= Budget(d),
           lockOwner' = NoOwner /\ lockOwner # NoOwner => Budget(d)' + Gap <= Budget(d),
           Patient(d)'
    PROVE  \A c \in Calls : Patient(c)'
<1> USE ConstantsAssumption
<1>1. \A c \in Calls \ {d} : Budget(c)' = Budget(c)
  BY DEF Budget, Holding
<1>2. /\ \A c \in Calls : Budget(c) \in 0..Share
      /\ Budget(d)' \in Int /\ Gap \in Nat /\ MaxSleep \in Nat
  <2>1. Budget(d)' \in Int
    BY SharesAreTicks DEF TypeOK, Budget
  <2> QED
    BY <2>1, BudgetBound, SharesAreTicks, SleepsAreTicks
<1>3. ASSUME NEW c \in Calls \ {d}, pc'[c] \in WaitingSteps
      PROVE  Cardinality(Turns(c)') + Delay(c)' < wait'[c] + MaxSleep + MaxRound
  <2>1. Cardinality(Turns(c)) + Delay(c) < wait[c] + MaxSleep + MaxRound /\ wait[c] \in Nat /\ wait'[c] = wait[c]
    BY <1>3 DEF Patient, TypeOK
  <2>2. /\ Cardinality(Turns(c)) \in Nat /\ Cardinality(Turns(c)') \in Nat
        /\ Cardinality(Turns(c)') <= Cardinality(Turns(c))
        /\ Cardinality(Turns(c)') + (Budget(d) - Budget(d)') <= Cardinality(Turns(c))
    <3>1. \A e \in Calls \ {c} : Budget(e)' <= Budget(e)
      BY <1>1, <1>2
    <3> QED
      BY <3>1, TurnsPass
  <2>3. /\ Delay(c) \in 0..Gap /\ Delay(c)' \in 0..Gap
        /\ Delay(c)' = 0 \/ Delay(c)' = Delay(c) \/ (lockOwner' = NoOwner /\ lockOwner # NoOwner)
    <3>1. pc'[c] = pc[c] /\ timer'[c] = timer[c]
      BY <1>3
    <3>2. Delay(c) \in 0..Gap
      BY <1>3, <3>1, DelayBound
    <3>3. CASE lockOwner' # NoOwner
      BY <1>2, <3>2, <3>3 DEF Delay
    <3>4. CASE lockOwner' = NoOwner
      <4> DEFINE free == CASE pc[c] = "denied" -> timer[c] + MaxSleep + MaxRound
                           [] pc[c] = "sleep"  -> timer[c] + MaxRound
                           [] OTHER            -> timer[c]
      <4>1. Delay(c)' = free
        BY <3>1, <3>4 DEF Delay
      <4>2. lockOwner = NoOwner => Delay(c) = free
        BY DEF Delay
      <4>3. free \in 0..Gap
        BY <1>3, <3>1, SharesAreTicks, SleepsAreTicks DEF TypeOK, TimersInv, WaitingSteps
      <4> QED
        BY <3>2, <3>4, <4>1, <4>2, <4>3
    <3> QED
      BY <3>3, <3>4
  <2> QED
    BY <1>2, <2>1, <2>2, <2>3
<1> QED
  BY <1>3 DEF Patient

\* Somebody else has the lock of a waiter, and will hold it back.
LEMMA OwnerHasTurn ==
    ASSUME IsFiniteSet(Calls), ~faulted, TypeOK, TimersInv, PatienceInv, NEW c \in Calls,
           pc[c] \in WaitingSteps, lockOwner # NoOwner
    PROVE  /\ lockOwner \in Calls \ {c}
           /\ Holding(lockOwner) \/ pc[lockOwner] \in { "store", "release" }
           /\ Budget(lockOwner) \in Nat /\ Gap <= Budget(lockOwner)
           /\ Cardinality(Turns(c)) \in Nat /\ Gap <= Cardinality(Turns(c))
<1> USE ConstantsAssumption
<1>1. /\ lockOwner \in Calls /\ role[lockOwner] = "holder"
      /\ pc[lockOwner] \in { "granted", "lookup", "store", "release" }
  BY DEF PatienceInv, NoLeakInv, NoLeakedLock, TypeOK
<1>2. PICK d \in Calls \ {c} : lockOwner = d
  BY <1>1 DEF WaitingSteps
<1>3. Holding(d) \/ pc[d] \in { "store", "release" }
  BY <1>1, <1>2 DEF Holding
<1>4. Gap <= Budget(d) /\ Budget(d) \in Nat
  <2>1. CASE Holding(d)
    BY <1>2, <2>1, SharesAreTicks DEF Budget, Holding, WaitingSteps, TypeOK
  <2>2. CASE pc[d] \in { "store", "release" }
    BY <1>2, <2>2, SharesAreTicks DEF Budget, Holding, WaitingSteps, TypeOK
  <2> QED
    BY <1>3, <2>1, <2>2
<1>5. Cardinality(Turns(c)) \in Nat /\ Budget(d) <= Cardinality(Turns(c))
  BY TurnsCover
<1> QED
  BY <1>2, <1>3, <1>4, <1>5, SharesAreTicks

\* Nobody is past its deadline when it is denied.
LEMMA DeniedHasTime ==
    ASSUME IsFiniteSet(Calls), ~faulted, TypeOK, TimersInv, PatienceInv, NEW c \in Calls, pc[c] = "denied"
    PROVE  wait[c] > 0
<1> USE ConstantsAssumption, SharesAreTicks, SleepsAreTicks
<1>1. Cardinality(Turns(c)) + Delay(c) < wait[c] + MaxSleep + MaxRound /\ wait[c] \in Nat
  BY DEF PatienceInv, Patient, WaitingSteps, TypeOK
<1>2. Cardinality(Turns(c)) \in Nat
  BY TurnsAreFinite
<1>3. CASE lockOwner = NoOwner
  <2>1. Delay(c) = timer[c] + MaxSleep + MaxRound /\ timer[c] \in Nat
    BY <1>3 DEF Delay, TypeOK
  <2> QED
    BY <1>1, <1>2, <2>1
<1>4. CASE lockOwner # NoOwner
  <2>1. Delay(c) = 0 /\ Gap <= Cardinality(Turns(c))
    <3>1. pc[c] \in WaitingSteps
      BY DEF WaitingSteps
    <3>2. Gap <= Cardinality(Turns(c))
      BY <1>4, <3>1, OwnerHasTurn
    <3> QED
      BY <1>4, <3>2 DEF Delay
  <2> QED
    BY <1>1, <1>2, <2>1
<1> QED
  BY <1>3, <1>4

\* Each step of a call leaves the patience of all.
LEMMA CallStepKeepsPatience ==
    ASSUME IsFiniteSet(Calls), ~faulted, TypeOK, TypeOK', TimersInv, TimersInv', PatienceInv,
           NEW d \in Calls, CallStep(d)
    PROVE  \A c \in Calls : Patient(c)'
<1> USE ConstantsAssumption, SharesAreTicks, SleepsAreTicks
<1>1. (\A c \in Calls : Patient(c)) /\ (lockOwner = d => role[d] = "holder")
  BY DEF PatienceInv, NoLeakInv
<1>2. /\ \A c \in Calls \ {d} : /\ pc'[c] = pc[c] /\ role'[c] = role[c] /\ hold'[c] = hold[c]
                                /\ wait'[c] = wait[c] /\ timer'[c] = timer[c]
      /\ lockOwner' = lockOwner \/ { lockOwner, lockOwner' } = { d, NoOwner }
  <2>1. CASE Get(d) \/ GrantReply(d) \/ CheckDeadline(d) \/ Wake(d) \/ Lookup(d) \/ Store(d)
    BY <2>1 DEF Get, GrantReply, CheckDeadline, Wake, Lookup, Store, Go, Allow, TypeOK, redis
  <2>2. CASE Acquire(d) \/ Release(d)
    BY <2>2 DEF Acquire, Release, GrantLock, CompareAndDelete, Go, TypeOK
  <2> QED
    BY <2>1, <2>2 DEF CallStep
<1>3. /\ Cardinality(Turns(d)) \in Nat /\ Cardinality(Turns(d)') \in Nat
      /\ Cardinality(Turns(d)') <= Cardinality(Turns(d))
  <2>1. \A c \in Calls \ {d} : Budget(c)' <= Budget(c)
    <3>1. \A c \in Calls \ {d} : lockOwner' = c <=> lockOwner = c
      BY <1>2
    <3>2. \A c \in Calls \ {d} : Budget(c)' = Budget(c)
      BY <1>2, <3>1 DEF Budget, Holding
    <3> QED
      BY <3>2, BudgetBound
  <2> QED
    BY <2>1, TurnsPass
<1>4. /\ Budget(d)' <= Budget(d)
      /\ lockOwner' = NoOwner /\ lockOwner # NoOwner => Budget(d)' + Gap <= Budget(d)
      /\ Patient(d)'
  <2>1. CASE Get(d)
    <3>1. /\ pc[d] = "get" /\ pc'[d] \in { "done", "setnx" }
          /\ UNCHANGED << lockOwner, role, wait, timer, hold >>
      BY <2>1 DEF Get, Go, TypeOK, redis
    <3>2. Budget(d)' <= Budget(d)
      BY <3>1 DEF Budget, Holding, WaitingSteps
    <3>3. CASE pc'[d] = "done"
      BY <3>1, <3>2, <3>3 DEF Patient, WaitingSteps
    <3>4. CASE pc'[d] = "setnx"
      <4>1. Delay(d)' = Delay(d) /\ Delay(d) \in Nat /\ pc[d] \in WaitingSteps
        BY <3>1, <3>4 DEF Delay, WaitingSteps, TypeOK
      <4> QED
        BY <1>1, <1>3, <3>1, <3>2, <4>1 DEF Patient, TypeOK
    <3> QED
      BY <3>1, <3>3, <3>4
  <2>2. CASE Acquire(d)
    <3>1. CASE lockOwner # NoOwner
      <4>1. /\ pc[d] = "setnx" /\ pc'[d] = "denied" /\ UNCHANGED << lockOwner, role, wait, timer, hold >>
        BY <2>2, <3>1 DEF Acquire, GrantLock, Go, TypeOK
      <4>2. Delay(d)' = 0 /\ Delay(d) = 0 /\ pc[d] \in WaitingSteps
        BY <3>1, <4>1 DEF Delay, WaitingSteps
      <4> QED
        BY <1>1, <1>3, <3>1, <4>1, <4>2 DEF Budget, Holding, Patient, WaitingSteps, TypeOK
    <3>2. CASE lockOwner = NoOwner
      <4>1. /\ pc[d] = "setnx" /\ pc'[d] = "granted" /\ role'[d] = "holder" /\ hold'[d] = MaxHold
            /\ lockOwner' = d
        BY <2>2, <3>2 DEF Acquire, GrantLock, Go, TypeOK
      <4> QED
        BY <4>1 DEF Budget, Holding, Patient, WaitingSteps
    <3> QED
      BY <3>1, <3>2
  <2>3. CASE GrantReply(d)
    <3>1. /\ pc[d] = "granted" /\ pc'[d] = "lookup" /\ UNCHANGED << lockOwner, role, wait, timer, hold >>
      BY <2>3 DEF GrantReply, Go, redis, TypeOK
    <3>2. Budget(d)' = Budget(d)
      BY <3>1 DEF Budget, Holding, WaitingSteps
    <3> QED
      BY <3>1, <3>2, BudgetBound DEF Patient, WaitingSteps
  <2>4. CASE CheckDeadline(d)
    <3>1. /\ pc[d] = "denied" /\ pc'[d] = "sleep" /\ timer'[d] = MaxSleep
          /\ UNCHANGED << lockOwner, role, wait, hold >>
      BY <2>4, DeniedHasTime DEF CheckDeadline, Go, Allow, TypeOK, redis
    <3>2. Delay(d)' <= Delay(d) /\ Delay(d) \in Nat /\ Delay(d)' \in Nat /\ pc[d] \in WaitingSteps
      BY <3>1 DEF Delay, WaitingSteps, TypeOK
    <3> QED
      BY <1>1, <1>3, <3>1, <3>2 DEF Budget, Holding, Patient, WaitingSteps, TypeOK
  <2>5. CASE Wake(d)
    <3>1. /\ pc[d] = "sleep" /\ pc'[d] = "get" /\ timer'[d] = MaxRound
          /\ UNCHANGED << lockOwner, role, wait, hold >>
      BY <2>5 DEF Wake, Go, Allow, TypeOK, redis
    <3>2. Delay(d)' <= Delay(d) /\ Delay(d) \in Nat /\ Delay(d)' \in Nat /\ pc[d] \in WaitingSteps
      BY <3>1 DEF Delay, WaitingSteps, TypeOK
    <3> QED
      BY <1>1, <1>3, <3>1, <3>2 DEF Budget, Holding, Patient, WaitingSteps, TypeOK
  <2>6. CASE Lookup(d)
    <3>1. /\ pc[d] = "lookup" /\ pc'[d] \in { "store", "release", "done" } /\ timer'[d] = MaxFinish
          /\ UNCHANGED << lockOwner, role, wait, hold >>
      BY <2>6 DEF Lookup, Go, Allow, Finish, TypeOK, redis
    <3> QED
      BY <1>1, <3>1 DEF Budget, Holding, Patient, WaitingSteps, TypeOK
  <2>7. CASE Store(d)
    <3>1. /\ pc[d] = "store" /\ pc'[d] = (IF role[d] = "holder" THEN "release" ELSE "done")
          /\ UNCHANGED << lockOwner, role, wait, timer, hold >>
      BY <2>7 DEF Store, Go, Finish, TypeOK
    <3> QED
      BY <1>1, <3>1 DEF Budget, Holding, Patient, WaitingSteps, TypeOK
  <2>8. CASE Release(d)
    <3>1. /\ pc[d] = "release" /\ pc'[d] = "done" /\ UNCHANGED << role, wait, timer, hold >>
          /\ lockOwner' = IF lockOwner = d THEN NoOwner ELSE lockOwner
      BY <2>8 DEF Release, CompareAndDelete, Go, TypeOK
    <3>2. Budget(d)' = 0 /\ (lockOwner = d => Budget(d) = timer[d] + Gap) /\ timer[d] \in Nat
      BY <3>1 DEF Budget, Holding, WaitingSteps, TypeOK
    <3> QED
      BY <3>1, <3>2, BudgetBound DEF Patient, WaitingSteps
  <2> QED
    BY <2>1, <2>2, <2>3, <2>4, <2>5, <2>6, <2>7, <2>8 DEF CallStep
<1> QED
  BY <1>1, <1>2, <1>4, OthersStayPatient

\* What the environment may do to a call without a fault does so too.
LEMMA DisturbKeepsPatience ==
    ASSUME IsFiniteSet(Calls), ~faulted, ~faulted', TypeOK, TypeOK', TimersInv, TimersInv', PatienceInv,
           NEW d \in Calls, Disturb(d)
    PROVE  orphans' \subseteq {"store"} \X Calls /\ \A c \in Calls : Patient(c)'
<1> USE ConstantsAssumption, SharesAreTicks, SleepsAreTicks
<1>1. /\ BeginRefresh(d) \/ Interrupt(d)
      /\ lockOwner = d => role[d] = "holder" /\ pc[d] \in { "granted", "lookup", "store", "release" }
  BY DEF Disturb, RedisFails, Resend, Crash, PatienceInv, NoLeakInv, NoLeakedLock
<1>2. /\ \A c \in Calls \ {d} : /\ pc'[c] = pc[c] /\ role'[c] = role[c] /\ hold'[c] = hold[c]
                                /\ wait'[c] = wait[c] /\ timer'[c] = timer[c]
      /\ lockOwner' = lockOwner
  BY <1>1 DEF BeginRefresh, Interrupt, Go, Allow, TypeOK, redis
<1>3. CASE BeginRefresh(d)
  <2>1. /\ pc[d] = "idle" /\ pc'[d] = "lookup" /\ role'[d] = "free" /\ orphans' = orphans
    BY <1>3 DEF BeginRefresh, Go, TypeOK
  <2>2. Budget(d)' <= Budget(d) /\ Patient(d)'
    BY <2>1 DEF Budget, Holding, Patient, WaitingSteps
  <2> QED
    BY <1>2, <2>1, <2>2, OthersStayPatient DEF PatienceInv
<1>4. CASE Interrupt(d)
  <2>1. /\ pc[d] \in { "get", "denied", "sleep", "granted", "lookup", "store" }
        /\ pc'[d] = (IF role[d] = "holder" THEN "release" ELSE "done")
        /\ timer'[d] = (IF pc[d] = "store" THEN timer[d] ELSE MaxFinish)
        /\ UNCHANGED << role, hold >>
    BY <1>4 DEF Interrupt, Go, Allow, Finish, TypeOK
  <2>2. Patient(d)'
    BY <2>1 DEF Patient, WaitingSteps
  <2>3. Budget(d)' <= Budget(d)
    <3>1. CASE lockOwner = d
      BY <1>1, <1>2, <2>1, <3>1 DEF Budget, Holding, WaitingSteps, TypeOK
    <3>2. CASE lockOwner # d
      BY <1>2, <2>1, <3>2, BudgetBound DEF Budget, Holding, WaitingSteps
    <3> QED
      BY <3>1, <3>2
  <2>4. orphans' \subseteq {"store"} \X Calls
    BY <1>4, <2>1 DEF Interrupt, Abandon, CommandSteps, PatienceInv
  <2> QED
    BY <1>2, <2>2, <2>3, <2>4, OthersStayPatient DEF PatienceInv
<1> QED
  BY <1>1, <1>3, <1>4

\* A tick comes off what a waiter still may wait for: off the share of the one
\* that has the lock or, when nobody has it, off the way to the next round.
LEMMA TickKeepsPatience ==
    ASSUME IsFiniteSet(Calls), ~faulted, ~faulted', TypeOK, TypeOK', TimersInv, TimersInv',
           PatienceInv, Tick
    PROVE  \A c \in Calls : Patient(c)'
<1> USE ConstantsAssumption, SharesAreTicks, SleepsAreTicks
<1>1. /\ \A c \in Calls : Holding(c) => hold[c] > 0
      /\ \A c \in Calls : Timed(c) => timer[c] > 0 /\ timer'[c] = timer[c] - 1
      /\ \A c \in Calls : ~Timed(c) => timer'[c] = timer[c]
      /\ \A c \in Calls : /\ wait'[c] = IF wait[c] > 0 THEN wait[c] - 1 ELSE 0
                          /\ hold'[c] = IF hold[c] > 0 THEN hold[c] - 1 ELSE 0
      /\ UNCHANGED << role, pc >>
      /\ lockOwner' = lockOwner \/ (lockLeft = 1 /\ lockOwner' = NoOwner)
  <2>1. \A c \in Calls : Timed(c) => timer[c] > 0
    <3>1. ~ \E c \in Calls : Timed(c) /\ timer[c] = 0
      BY Zenon DEF Tick
    <3> QED
      BY <3>1 DEF TypeOK
  <2>2. \A c \in Calls : timer'[c] = IF Timed(c) /\ timer[c] > 0 THEN timer[c] - 1 ELSE timer[c]
    BY DEF Tick, Countdown, TypeOK
  <2> QED
    BY <2>1, <2>2 DEF Tick, Countdown, TypeOK
<1>2. ASSUME NEW c \in Calls, lockOwner # c PROVE lockOwner' # c
  BY <1>1, <1>2
<1>3. ASSUME NEW c \in Calls
      PROVE  /\ Budget(c)' <= Budget(c)
             /\ lockOwner = c => Budget(c)' < Budget(c)
             /\ lockOwner = c /\ lockOwner' = NoOwner => Budget(c)' + Gap < Budget(c)
  <2>1. CASE Holding(c)
    <3>1. /\ Budget(c)  = IF lockOwner = c THEN hold[c] + MaxFinish + Gap ELSE 0
          /\ Budget(c)' = IF lockOwner' = c THEN hold'[c] + MaxFinish + Gap ELSE 0
      BY <1>1, <2>1 DEF Budget, Holding, WaitingSteps
    <3>2. hold[c] > 0 /\ hold'[c] = hold[c] - 1 /\ hold[c] \in Nat
      BY <1>1, <2>1 DEF TypeOK
    <3> QED
      BY <1>2, <3>1, <3>2
  <2>2. CASE ~Holding(c) /\ pc[c] \in { "store", "release" }
    <3>1. Timed(c) /\ timer[c] > 0 /\ timer'[c] = timer[c] - 1 /\ timer[c] \in Nat /\ ~Holding(c)'
      BY <1>1, <2>2 DEF Timed, CommandSteps, Holding, TypeOK
    <3>2. /\ Budget(c) = IF lockOwner = c THEN timer[c] + Gap ELSE 0
          /\ Budget(c)' = IF lockOwner' = c THEN timer'[c] + Gap ELSE 0
      BY <1>1, <2>2, <3>1 DEF Budget, WaitingSteps
    <3> QED
      BY <1>1, <3>1, <3>2
  <2>3. CASE ~Holding(c) /\ pc[c] \notin { "store", "release" }
    <3>1. lockOwner # c
      BY <2>3 DEF PatienceInv, NoLeakInv, NoLeakedLock, Holding
    <3>2. Budget(c)' = Budget(c)
      BY <1>1, <1>2, <2>3, <3>1 DEF Budget, Holding
    <3> QED
      BY <3>1, <3>2, BudgetBound
  <2> QED
    BY <2>1, <2>2, <2>3
<1>4. ASSUME NEW c \in Calls, pc'[c] \in WaitingSteps
      PROVE  Cardinality(Turns(c)') + Delay(c)' < wait'[c] + MaxSleep + MaxRound
  <2>1. /\ pc[c] \in WaitingSteps /\ pc'[c] = pc[c] /\ timer[c] > 0 /\ timer'[c] = timer[c] - 1
        /\ timer[c] \in Nat
    BY <1>1, <1>4 DEF Timed, CommandSteps, WaitingSteps, TypeOK
  <2>2. /\ Cardinality(Turns(c)) + Delay(c) < wait[c] + MaxSleep + MaxRound /\ wait[c] \in Nat
        /\ wait'[c] >= wait[c] - 1 /\ wait'[c] \in Nat
    BY <1>1, <2>1 DEF PatienceInv, Patient, TypeOK
  <2>3. /\ Cardinality(Turns(c)) \in Nat /\ Cardinality(Turns(c)') \in Nat
        /\ Cardinality(Turns(c)') <= Cardinality(Turns(c))
        /\ \A e \in Calls \ {c} :
              Cardinality(Turns(c)') + (Budget(e) - Budget(e)') <= Cardinality(Turns(c))
    BY <1>3, TurnsPass
  <2>4. Delay(c) \in Nat /\ Delay(c)' \in Nat /\ Delay(c)' <= Gap
    <3>1. Delay(c) \in Nat
      BY <2>1, DelayBound
    <3>2. Delay(c)' \in Nat /\ Delay(c)' <= Gap
      BY <2>1 DEF Delay, TimersInv, WaitingSteps, TypeOK
    <3> QED
      BY <3>1, <3>2
  <2>5. Cardinality(Turns(c)') + Delay(c)' + 1 <= Cardinality(Turns(c)) + Delay(c)
    <3>1. CASE lockOwner = NoOwner
      <4>1. lockOwner' = NoOwner
        BY <1>1, <3>1
      <4>2. Delay(c)' = Delay(c) - 1
        BY <2>1, <3>1, <4>1 DEF Delay, WaitingSteps
      <4> QED
        BY <2>3, <2>4, <4>2
    <3>2. CASE lockOwner # NoOwner
      <4>1. PICK e \in Calls \ {c} : lockOwner = e
        BY <2>1, <3>2, OwnerHasTurn
      <4>2. /\ Cardinality(Turns(c)') + (Budget(e) - Budget(e)') <= Cardinality(Turns(c))
            /\ Budget(e) \in Int /\ Budget(e)' \in Int
        <5>1. Budget(e)' \in Int
          BY DEF Budget, TypeOK
        <5> QED
          BY <2>3, <5>1, BudgetBound
      <4>3. CASE lockOwner' # NoOwner
        <5>1. Delay(c)' = 0 /\ Budget(e)' < Budget(e)
          BY <1>3, <4>1, <4>3 DEF Delay
        <5> QED
          BY <2>3, <2>4, <4>2, <5>1
      <4>4. CASE lockOwner' = NoOwner
        <5>1. Budget(e)' + Gap < Budget(e)
          BY <1>3, <4>1, <4>4
        <5> QED
          BY <2>3, <2>4, <4>2, <5>1
      <4> QED
        BY <4>3, <4>4
    <3> QED
      BY <3>1, <3>2
  <2> QED
    BY <2>2, <2>3, <2>4, <2>5
<1> QED
  BY <1>4 DEF Patient

\* A waiter whose timeout fits the shares of the others is served before it ends.
LEMMA PatienceHolds ==
    ASSUME IsFiniteSet(Calls), EnoughWait
    PROVE  Spec => [](~faulted => PatienceInv)
<1> USE ConstantsAssumption, SharesAreTicks, SleepsAreTicks
<1>1. Init => PatienceInv
  BY DEF Init, PatienceInv, NoLeakInv, NoLeakedLock, Patient, WaitingSteps
<1>2. /\ TypeOK /\ TypeOK' /\ TimersInv /\ TimersInv' /\ NoLeakInv'
      /\ (~faulted => PatienceInv) /\ [Next]_vars
      => (~faulted' => PatienceInv')
  <2> SUFFICES ASSUME TypeOK, TypeOK', TimersInv, TimersInv', NoLeakInv', ~faulted', ~faulted,
                      PatienceInv, [Next]_vars
               PROVE  orphans' \subseteq {"store"} \X Calls /\ \A c \in Calls : Patient(c)'
    BY FaultStays DEF PatienceInv
  <2>1. ASSUME NEW d \in Calls, BeginGet(d)
        PROVE  orphans' \subseteq {"store"} \X Calls /\ \A c \in Calls : Patient(c)'
    <3>1. /\ \A c \in Calls \ {d} : /\ pc'[c] = pc[c] /\ role'[c] = role[c] /\ hold'[c] = hold[c]
                                    /\ wait'[c] = wait[c] /\ timer'[c] = timer[c]
          /\ lockOwner' = lockOwner /\ orphans' = orphans
          /\ pc[d] = "idle" /\ pc'[d] = "get" /\ wait'[d] = WaitTimeout /\ timer'[d] = MaxRound
      BY <2>1 DEF BeginGet, Go, Allow, TypeOK, redis
    <3>2. Budget(d)' <= Budget(d)
      BY <3>1 DEF Budget, Holding, WaitingSteps
    <3>3. /\ Cardinality(Turns(d)) \in Nat /\ Cardinality(Turns(d)') \in Nat
          /\ Cardinality(Turns(d)') <= Cardinality(Turns(d))
      <4>1. \A c \in Calls \ {d} : Budget(c)' = Budget(c)
        BY <3>1 DEF Budget, Holding
      <4>2. \A c \in Calls \ {d} : Budget(c)' <= Budget(c)
        BY <4>1, BudgetBound
      <4> QED
        BY <4>2, TurnsPass
    <3>4. Cardinality(Turns(d)) < WaitTimeout + MaxSleep
      BY <3>3, TurnsAreFinite DEF EnoughWait
    <3>5. Delay(d)' \in Nat /\ Delay(d)' <= MaxRound
      BY <3>1 DEF Delay
    <3>6. Patient(d)'
      BY <3>1, <3>3, <3>4, <3>5 DEF Patient
    <3> QED
      BY <3>1, <3>2, <3>6, OthersStayPatient DEF PatienceInv
  <2>2. ASSUME NEW d \in Calls, CallStep(d)
        PROVE  orphans' \subseteq {"store"} \X Calls /\ \A c \in Calls : Patient(c)'
    <3>1. orphans' = orphans
      BY <2>2 DEF CallStep, Get, Acquire, GrantReply, CheckDeadline, Wake, Lookup, Store, Release
    <3> QED
      BY <2>2, <3>1, CallStepKeepsPatience DEF PatienceInv
  <2>3. ASSUME NEW d \in Calls, Disturb(d)
        PROVE  orphans' \subseteq {"store"} \X Calls /\ \A c \in Calls : Patient(c)'
    BY <2>3, DisturbKeepsPatience
  <2>4. ASSUME NEW d \in Calls, NEW cmd \in CommandSteps, RunOrphan(cmd, d)
        PROVE  /\ orphans' \subseteq {"store"} \X Calls
               /\ UNCHANGED << lockOwner, pc, role, wait, timer, hold >>
    BY <2>4 DEF RunOrphan, PatienceInv
  <2>5. CASE Write \/ UNCHANGED vars
    BY <2>5 DEF Write, vars, PatienceInv, Patient, Turns, Budget, Holding, Delay
  <2>6. CASE Tick
    BY <2>6, TickKeepsPatience DEF Tick, PatienceInv
  <2>7. ASSUME UNCHANGED << lockOwner, pc, role, wait, timer, hold >>
        PROVE  \A c \in Calls : Patient(c)'
    BY <2>7 DEF PatienceInv, Patient, Turns, Budget, Holding, Delay
  <2> QED
    BY <2>1, <2>2, <2>3, <2>4, <2>5, <2>6, <2>7 DEF Next
<1> QED
  BY <1>1, <1>2, TypeCorrect, TimersHold, NoLeakInvHolds, PTL DEF Spec

\* When the shares of all others fit in the wait timeout (their lookup, store and
\* release, and for each change of hands the longest sleep of the waiter and two of
\* its rounds), no waiter gives up (Cache.ts:153-176) before a command fails or
\* stalls or a process dies, for any number of calls and any lock lifetime.
THEOREM NoWaiterTimesOutHolds ==
    ASSUME IsFiniteSet(Calls), EnoughWait
    PROVE  Spec => []NoWaiterTimesOut
<1>1. /\ NoWaiterTimesOut /\ TypeOK /\ TimersInv /\ (~faulted => PatienceInv) /\ [Next]_vars
      => NoWaiterTimesOut'
  <2> SUFFICES ASSUME NoWaiterTimesOut, TypeOK, TimersInv, ~faulted, PatienceInv, [Next]_vars,
                      NEW c \in Calls
               PROVE  pc'[c] # "timeout"
    BY FaultStays DEF NoWaiterTimesOut
  <2>1. pc[c] # "timeout"
    BY DEF NoWaiterTimesOut
  <2>2. ASSUME NEW d \in Calls, CallStep(d) PROVE pc'[c] # "timeout"
    <3>1. CASE CheckDeadline(d)
      <4>1. pc[d] = "denied" /\ wait[d] > 0
        BY <3>1, DeniedHasTime DEF CheckDeadline
      <4> QED
        BY <2>1, <3>1, <4>1 DEF CheckDeadline, Go, TypeOK
    <3> QED
      BY <2>1, <2>2, <3>1 DEF CallStep, Get, Acquire, GrantReply, Wake, Lookup, Store, Release,
                              Go, Finish, TypeOK, redis
  <2>3. ASSUME NEW d \in Calls, BeginGet(d) \/ Disturb(d) PROVE pc'[c] # "timeout"
    BY <2>1, <2>3 DEF BeginGet, Disturb, BeginRefresh, RedisFails, Resend, Interrupt, Crash,
                      Go, Finish, TypeOK
  <2>4. ASSUME NEW d \in Calls, NEW cmd \in CommandSteps, RunOrphan(cmd, d) PROVE pc'[c] # "timeout"
    BY <2>1, <2>4 DEF RunOrphan
  <2>5. CASE Write \/ Tick \/ UNCHANGED vars
    BY <2>1, <2>5 DEF Write, Tick, vars, TypeOK
  <2> QED
    BY <2>2, <2>3, <2>4, <2>5 DEF Next
<1>2. Init => NoWaiterTimesOut
  BY DEF Init, NoWaiterTimesOut
<1> QED
  BY <1>1, <1>2, TypeCorrect, TimersHold, PatienceHolds, PTL DEF Spec
=============================================================================
