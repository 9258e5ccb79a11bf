--------------------------- MODULE StampedeCache ---------------------------
(***************************************************************************)
(* RedisCache.make with stampede protection (core/src/Cache.ts): one key   *)
(* of the cache, its lock key, and a set of concurrent `get` calls, each   *)
(* in a process of its own and with a token of its own (the call's name).  *)
(*                                                                         *)
(* A value is only present or absent, because the protocol never looks at  *)
(* it.  Time is counted in ticks: every deadline is kept as the ticks left *)
(* to it, so the model needs no clock.                                     *)
(***************************************************************************)
EXTENDS Integers

CONSTANTS
    Calls,        \* the concurrent calls; a call is also its lock token
    NoOwner,      \* the owner of a free lock
    LockTtl,      \* options.stampede.lockTtl
    WaitTimeout,  \* options.stampede.waitTimeout
    PollInterval, \* options.stampede.pollInterval
    OnTimeouts,   \* options.stampede.onTimeout of the callers' caches
    Ttl,          \* options.ttl
    MaxHold,      \* bound: the ticks a lock holder takes from grant to store
    MaxRound,     \* bound: the ticks a prompt Redis takes for GET and SET NX
    MaxFinish,    \* bound: those it takes for the store and the release
    Events        \* the events of the environment that may happen

EventNames == { "lookupFails", "redisFails", "resend", "crash", "interrupt",
                "stall", "set", "invalidate", "refresh" }

(* PX and EX are floored at 1, so no lock and no entry is born expired.    *)
ASSUME ConstantsAssumption ==
    /\ NoOwner \notin Calls
    /\ LockTtl \in Nat \ {0}
    /\ Ttl \in Nat \ {0}
    /\ WaitTimeout \in Nat
    /\ PollInterval \in Nat \ {0}
    /\ MaxHold \in Nat /\ MaxRound \in Nat /\ MaxFinish \in Nat
    /\ OnTimeouts \subseteq {"compute", "fail"} /\ OnTimeouts # {}
    /\ Events \subseteq EventNames

VARIABLES
    cached,     \* Redis: ticks the entry has left, 0 when there is none
    lockOwner,  \* Redis: the token stored at the lock key
    lockLeft,   \* Redis: ticks the lock has left
    pc,         \* per call: the step it is about to take
    role,       \* per call: why it may run the lookup
    wait,       \* per call: ticks left to its deadline
    timer,      \* per call: ticks its sleep or its commands may still take
    hold,       \* per call: ticks its lookup may still take under the lock
    orphans,    \* commands whose caller is gone, still on the way to Redis
    faulted     \* history: something failed, died, was resent or stalled

redis == << cached, lockOwner, lockLeft >>
vars  == << cached, lockOwner, lockLeft, pc, role, wait, timer, hold, orphans,
            faulted >>

\* A command that has been issued and not yet answered.
CommandSteps == { "get", "setnx", "store", "release" }
Steps == CommandSteps \cup
         { "idle", "granted", "denied", "sleep", "lookup", "done", "timeout" }

Ended(c) == pc[c] \in { "done", "timeout" }

\* jitterSleep: half a poll interval to one and a half.
MinSleep == PollInterval \div 2
MaxSleep == (3 * PollInterval + 1) \div 2

\* c owns the lock as far as it knows and has not finished its lookup.
Holding(c) == role[c] = "holder" /\ pc[c] \in { "granted", "lookup" }

(***************************************************************************)
(* Redis.                                                                  *)
(***************************************************************************)

GrantLockWithoutNX(c) ==            \* mutant: SET without NX
    /\ lockOwner' = c
    /\ lockLeft' = LockTtl

GrantLockWithoutPX(c) ==            \* mutant: SET without PX never expires
    /\ lockOwner = NoOwner
    /\ lockOwner' = c
    /\ lockLeft' = 0

\* SET lockKey token PX lockMs NX, on a free lock.
GrantLock(c) ==
    /\ lockOwner = NoOwner
    /\ lockOwner' = c
    /\ lockLeft' = LockTtl

DeleteAnyLock(c) ==                 \* mutant: DEL without the comparison
    /\ lockOwner' = NoOwner
    /\ lockLeft' = 0

\* releaseLua: compare and delete by token.
CompareAndDelete(c) ==
    /\ lockOwner' = IF lockOwner = c THEN NoOwner ELSE lockOwner
    /\ lockLeft'  = IF lockOwner = c THEN 0 ELSE lockLeft

(***************************************************************************)
(* A call.                                                                 *)
(***************************************************************************)

Go(c, step) == pc' = [pc EXCEPT ![c] = step]
Allow(c, ticks) == timer' = [timer EXCEPT ![c] = ticks]

FinishWithoutRelease(c) == "done"   \* mutant: acquire and use, no release

\* What acquireUseRelease runs after the lookup: the release, by a holder.
Finish(c) == IF role[c] = "holder" THEN "release" ELSE "done"

Init ==
    /\ cached = 0
    /\ lockOwner = NoOwner /\ lockLeft = 0
    /\ pc = [c \in Calls |-> "idle"]
    /\ role = [c \in Calls |-> "none"]
    /\ wait = [c \in Calls |-> 0]
    /\ timer = [c \in Calls |-> 0]
    /\ hold = [c \in Calls |-> 0]
    /\ orphans = {}
    /\ faulted = FALSE

\* handle.get: a token, a deadline, the first round.
BeginGet(c) ==
    /\ pc[c] = "idle"
    /\ Go(c, "get")
    /\ Allow(c, MaxRound)
    /\ wait' = [wait EXCEPT ![c] = WaitTimeout]
    /\ UNCHANGED << redis, role, hold, orphans, faulted >>

\* handle.refresh: lookupAndStore with no lock.
BeginRefresh(c) ==
    /\ "refresh" \in Events
    /\ pc[c] = "idle"
    /\ Go(c, "lookup")
    /\ role' = [role EXCEPT ![c] = "free"]
    /\ UNCHANGED << redis, wait, timer, hold, orphans, faulted >>

\* tryRound reads the entry: a hit ends the call, a miss goes for the lock.
Get(c) ==
    /\ pc[c] = "get"
    /\ Go(c, IF cached > 0 THEN "done" ELSE "setnx")
    /\ UNCHANGED << redis, role, wait, timer, hold, orphans, faulted >>

Acquire(c) ==
    /\ pc[c] = "setnx"
    /\ \/ /\ GrantLock(c)
          /\ Go(c, "granted")
          /\ role' = [role EXCEPT ![c] = "holder"]
          /\ hold' = [hold EXCEPT ![c] = MaxHold]
       \/ /\ lockOwner # NoOwner
          /\ Go(c, "denied")
          /\ UNCHANGED << lockOwner, lockLeft, role, hold >>
    /\ UNCHANGED << cached, wait, timer, orphans, faulted >>

\* The acquired branch goes straight to the lookup: the entry is not re-read.
GrantReply(c) ==
    /\ pc[c] = "granted"
    /\ Go(c, "lookup")
    /\ UNCHANGED << redis, role, wait, timer, hold, orphans, faulted >>

CheckDeadlineBeforeSleep(c) ==      \* mutant: gives up when the sleep would
    /\ pc[c] = "denied"             \* reach the deadline, without a last round
    /\ Go(c, IF wait[c] > MaxSleep THEN "sleep" ELSE "timeout")
    /\ Allow(c, MaxSleep)
    /\ UNCHANGED << redis, role, wait, hold, orphans, faulted >>

CheckDeadlineNever(c) ==            \* mutant: no way out at the deadline
    /\ pc[c] = "denied" /\ wait[c] > 0
    /\ Go(c, "sleep")
    /\ Allow(c, MaxSleep)
    /\ UNCHANGED << redis, role, wait, hold, orphans, faulted >>

\* The round gave nothing: sleep for another one, or give up at the deadline.
CheckDeadline(c) ==
    /\ pc[c] = "denied"
    /\ \/ /\ wait[c] > 0
          /\ Go(c, "sleep")
          /\ Allow(c, MaxSleep)
          /\ UNCHANGED role
       \/ /\ wait[c] = 0 /\ "fail" \in OnTimeouts
          /\ Go(c, "timeout")
          /\ UNCHANGED << role, timer >>
       \/ /\ wait[c] = 0 /\ "compute" \in OnTimeouts
          /\ Go(c, "lookup")
          /\ role' = [role EXCEPT ![c] = "free"]
          /\ UNCHANGED timer
    /\ UNCHANGED << redis, wait, hold, orphans, faulted >>

\* jitterSleep is over at any time from its shortest to its longest.
Wake(c) ==
    /\ pc[c] = "sleep"
    /\ timer[c] + MinSleep <= MaxSleep
    /\ Go(c, "get")
    /\ Allow(c, MaxRound)
    /\ UNCHANGED << redis, role, wait, hold, orphans, faulted >>

Lookup(c) ==
    /\ pc[c] = "lookup"
    /\ \/ Go(c, "store")
       \/ "lookupFails" \in Events /\ Go(c, Finish(c))
    /\ Allow(c, MaxFinish)
    /\ UNCHANGED << redis, role, wait, hold, orphans, faulted >>

Store(c) ==
    /\ pc[c] = "store"
    /\ cached' = Ttl
    /\ Go(c, Finish(c))
    /\ UNCHANGED << lockOwner, lockLeft, role, wait, timer, hold, orphans, faulted >>

Release(c) ==
    /\ pc[c] = "release"
    /\ CompareAndDelete(c)
    /\ Go(c, "done")
    /\ UNCHANGED << cached, role, wait, timer, hold, orphans, faulted >>

CallStep(c) ==
    \/ Get(c) \/ Acquire(c) \/ GrantReply(c) \/ CheckDeadline(c) \/ Wake(c)
    \/ Lookup(c) \/ Store(c) \/ Release(c)

(***************************************************************************)
(* What the environment does to a call.                                    *)
(***************************************************************************)

\* A write whose caller stopped waiting is lost, or reaches Redis later.
Abandon(c) ==
    \/ UNCHANGED orphans
    \/ /\ pc[c] \in CommandSteps \ {"get"}
       /\ orphans' = orphans \cup { << pc[c], c >> }

\* A connection error or a command timeout.  A failed acquire has no release,
\* even when Redis granted the lock; a failed release is ignored.
RedisFails(c) ==
    /\ "redisFails" \in Events
    /\ pc[c] \in CommandSteps \cup {"granted"}
    /\ Abandon(c)
    /\ Go(c, IF pc[c] = "store" THEN Finish(c) ELSE "done")
    /\ faulted' = TRUE
    /\ UNCHANGED << redis, role, wait, timer, hold >>

\* The driver reconnects and resends SET NX: its first run took the lock.
Resend(c) ==
    /\ "resend" \in Events
    /\ pc[c] = "setnx"
    /\ GrantLock(c)
    /\ faulted' = TRUE
    /\ UNCHANGED << cached, pc, role, wait, timer, hold, orphans >>

\* The acquire and the release are uninterruptible; the rest stops, and an
\* interrupted holder still releases.
Interrupt(c) ==
    /\ "interrupt" \in Events
    /\ pc[c] \in { "get", "denied", "sleep", "granted", "lookup", "store" }
    /\ Abandon(c)
    /\ Go(c, Finish(c))
    /\ Allow(c, IF pc[c] = "store" THEN timer[c] ELSE MaxFinish)
    /\ UNCHANGED << redis, role, wait, hold, faulted >>

Crash(c) ==
    /\ "crash" \in Events
    /\ ~Ended(c) /\ pc[c] # "idle"
    /\ Abandon(c)
    /\ Go(c, "done")
    /\ faulted' = TRUE
    /\ UNCHANGED << redis, role, wait, timer, hold >>

Disturb(c) ==
    \/ BeginRefresh(c) \/ RedisFails(c) \/ Resend(c)
    \/ Interrupt(c) \/ Crash(c)

(***************************************************************************)
(* What happens beside the calls.                                          *)
(***************************************************************************)

\* An orphaned command reaches Redis.
RunOrphan(cmd, c) ==
    /\ << cmd, c >> \in orphans
    /\ orphans' = orphans \ { << cmd, c >> }
    /\ \/ /\ cmd = "setnx"
          /\ \/ GrantLock(c)
             \/ lockOwner # NoOwner /\ UNCHANGED << lockOwner, lockLeft >>
          /\ UNCHANGED cached
       \/ /\ cmd = "store"
          /\ cached' = Ttl
          /\ UNCHANGED << lockOwner, lockLeft >>
       \/ /\ cmd = "release"
          /\ CompareAndDelete(c)
          /\ UNCHANGED cached
    /\ UNCHANGED << pc, role, wait, timer, hold, faulted >>

\* handle.set and handle.invalidate, from anywhere.
Write ==
    /\ \/ "set" \in Events /\ cached' = Ttl
       \/ "invalidate" \in Events /\ cached' = 0
    /\ UNCHANGED << lockOwner, lockLeft, pc, role, wait, timer, hold, orphans, faulted >>

CountdownPastZero(n) == n - 1       \* mutant: a counter that does not stop

\* A tick off a deadline or a lifetime: zero is "at or past it".
Countdown(n) == IF n > 0 THEN n - 1 ELSE 0

\* A call that sleeps or waits for Redis.
Timed(c) == pc[c] \in CommandSteps \cup { "denied", "sleep" }

\* Time passes.  A lookup under the lock does not outlast its bound; unless
\* something stalls, sleeps end and Redis answers in time.
Tick ==
    /\ \A c \in Calls : Holding(c) => hold[c] > 0
    /\ "stall" \in Events \/ \A c \in Calls : Timed(c) => timer[c] > 0
    /\ cached' = Countdown(cached)
    /\ lockOwner' = IF lockLeft = 1 THEN NoOwner ELSE lockOwner
    /\ lockLeft' = Countdown(lockLeft)
    /\ wait' = [c \in Calls |-> Countdown(wait[c])]
    /\ timer' = [c \in Calls |-> IF Timed(c) THEN Countdown(timer[c]) ELSE timer[c]]
    /\ hold' = [c \in Calls |-> Countdown(hold[c])]
    /\ faulted' = (faulted \/ \E c \in Calls : Timed(c) /\ timer[c] = 0)
    /\ UNCHANGED << pc, role, orphans >>

Next ==
    \/ \E c \in Calls : BeginGet(c) \/ CallStep(c) \/ Disturb(c)
    \/ \E c \in Calls, cmd \in CommandSteps : RunOrphan(cmd, c)
    \/ Write
    \/ Tick

Spec == Init /\ [][Next]_vars

\* Each fiber runs, its lookup answers, Redis answers and time passes; nothing
\* is assumed of the events or of the orphans.
Fairness == WF_vars(Tick) /\ \A c \in Calls : WF_vars(CallStep(c))

FairSpec == Spec /\ Fairness

(***************************************************************************)
(* Properties.                                                             *)
(***************************************************************************)

TypeOK ==
    /\ cached \in 0..Ttl
    /\ lockOwner \in Calls \cup {NoOwner}
    /\ lockLeft \in 0..LockTtl
    /\ pc \in [Calls -> Steps]
    /\ role \in [Calls -> {"none", "holder", "free"}]
    /\ wait \in [Calls -> 0..WaitTimeout]
    /\ timer \in [Calls -> 0..(MaxSleep + MaxRound + MaxFinish)]
    /\ hold \in [Calls -> 0..MaxHold]
    /\ orphans \subseteq CommandSteps \X Calls
    /\ faulted \in BOOLEAN

\* The lookup of c has not yet lasted as long as the lock it was granted.
InTime(c) == Holding(c) /\ MaxHold < hold[c] + LockTtl

\* Of two calls that look the key up under the lock at once, one has outlasted
\* its lock (Cache.ts:16): neither a crash, a lost reply, a resent acquire, a late
\* release nor a stalled connection lets two in while the lock is alive.
SingleFlight ==
    \A c, d \in Calls : InTime(c) /\ InTime(d) => c = d

\* Whoever looks up in time still owns the lock, and the lock has all of what it
\* has not used of its lifetime.
HolderOwnsLock ==
    \A c \in Calls : InTime(c) =>
        /\ lockOwner = c
        /\ lockLeft + MaxHold >= hold[c] + LockTtl

\* A command without a caller belongs to a call that looks nothing up any more.
OrphansAreOver ==
    \A cmd \in CommandSteps, c \in Calls :
        << cmd, c >> \in orphans => pc[c] \in { "release", "done" }

\* The inductive form of SingleFlight.
SingleFlightInv == HolderOwnsLock /\ OrphansAreOver

\* The lock expires, or a release that carries its owner's token runs.
LockFreedByOwner ==
    LET owner == lockOwner IN
    \/ lockLeft = 1 /\ lockLeft' = 0
    \/ pc[owner] = "release" /\ pc'[owner] = "done"
    \/ << "release", owner >> \in orphans /\ << "release", owner >> \notin orphans'

\* Even when a lookup outlasts its lock, nobody removes the lock of another
\* call: the lock leaves its owner by expiry or by a command carrying the
\* owner's token (Cache.ts:79-81), so a late release cannot free a new lock.
LockFreedOnlyByOwner ==
    [][(lockOwner \in Calls /\ lockOwner' # lockOwner) => LockFreedByOwner]_vars

\* Until something fails, dies, is resent or stalls, a lock is held only by a call
\* that will still run its release: an interrupt or a failed lookup leaks none
\* (Cache.ts:127-150).
NoLeakedLock ==
    ~faulted /\ lockOwner \in Calls =>
        pc[lockOwner] \in { "granted", "lookup", "store", "release" }

\* When the turns of all the calls in front of a waiter fit in its wait timeout
\* (EnoughWait of StampedeCacheProofs: lookup, store and release of each, and a
\* sleep and two rounds of the waiter for each change of hands), only a fault makes
\* it give up (Cache.ts:153-176), although holders fail, are interrupted or outlast
\* their lock and leave no value, and the entry is invalidated.
NoWaiterTimesOut == (\E c \in Calls : pc[c] = "timeout") => faulted

\* The origin is asked by at most one call while the entry is cold and then
\* cached (README.md:242-243, and the count of test/suite.ts:576).
ComputeOnce == \A c, d \in Calls : role[c] # "none" /\ role[d] # "none" => c = d

\* A lock is always given up, whatever became of its owner.
LockIsFreed == lockOwner # NoOwner ~> lockOwner = NoOwner

\* Every get ends, even when the holder it waits for has crashed.
GetEnds == \A c \in Calls : pc[c] = "get" ~> Ended(c)
=============================================================================
