---------------------------- MODULE TieredCache ----------------------------
(***************************************************************************)
(* RedisCache.makeTiered (core/src/Cache.ts:206-283): one key of a cache   *)
(* with an in-process L1 per instance over one L2 entry in Redis, above an *)
(* origin whose value changes.  A write to the cache is announced to the   *)
(* other instances by pub/sub; what is not delivered is lost.              *)
(*                                                                         *)
(* A value is the version of the origin it was read from.  L1 is Effect's  *)
(* Cache: a get that finds nothing puts a pending load into the slot, and  *)
(* the load overwrites the slot when it ends, with a value or a failure.   *)
(* Lookups are not serialised (`stampede` is off).  Time is in ticks.      *)
(***************************************************************************)
EXTENDS Integers

CONSTANTS
    Instances,   \* the processes that made the cache
    Procs,       \* fibers that call its handles
    None,        \* no entry
    Pending,     \* an L1 slot whose load is in flight
    Failed,      \* an L1 entry that holds a failure
    Ttl,         \* options.ttl
    MemTtl,      \* options.memory.ttl
    MaxHold,     \* bound: ticks from the start of a call to its last effect
    MaxCalls,    \* bound: calls of the handles that reach past L1
    MaxVersion,  \* bound: versions of the origin
    MaxInbox     \* bound: undelivered messages of an instance

Versions == 0..MaxVersion

ASSUME TieredAssumption ==
    /\ Ttl \in Nat \ {0}
    /\ MemTtl \in Nat \ {0}
    /\ MaxHold \in Nat
    /\ MaxCalls \in Nat
    /\ MaxVersion \in Nat
    /\ MaxInbox \in Nat
    /\ { None, Pending, Failed } \cap Versions = {}
    /\ None # Pending /\ None # Failed /\ Pending # Failed

VARIABLES
    origin,     \* the version the origin has now
    age,        \* history, per version: ticks since it was replaced
    l2, l2Left, \* Redis: the entry and the ticks it has left
    late,       \* per version: ticks in which a SET with no caller may run
    l1, l1Left, \* per instance: the L1 slot and the ticks it has left
    listening,  \* the instances whose subscription is up
    inbox,      \* per instance: invalidations on their way to its listener
    call,       \* per fiber: the handle it called and how far it is
    calls,      \* how many calls have begun
    announced,  \* history: the highest version a cache write announced
    excused     \* history: instances whose old entry was put when it was already
                \* old, or is there because a message was lost

redis   == << l2, l2Left, late >>
memory  == << l1, l1Left >>
bus     == << listening, inbox, excused >>
clock   == << origin, age >>
vars == << clock, redis, memory, bus, call, calls, announced >>

Ops   == { "get", "set", "invalidate", "refresh" }
Steps == { "idle", "read", "lookup", "store", "put", "del", "drop", "publish" }

Higher(a, b) == IF a > b THEN a ELSE b

\* A fiber's call: its step, its handle, the instance it runs on, the value it
\* carries and the ticks it may still take.
Idle == [step |-> "idle", op |-> "get", at |-> None, val |-> None, hold |-> 0]

Go(p, step) == call' = [call EXCEPT ![p].step = step]

GoWith(p, step, v) == call' = [call EXCEPT ![p].step = step, ![p].val = v]

End(p) == call' = [call EXCEPT ![p] = Idle]

Init ==
    /\ origin = 0 /\ age = [v \in Versions |-> 0]
    /\ l2 = None /\ l2Left = 0
    /\ late = [v \in Versions |-> 0]
    /\ l1 = [i \in Instances |-> None] /\ l1Left = [i \in Instances |-> 0]
    /\ listening = {} /\ inbox = [i \in Instances |-> 0]
    /\ call = [p \in Procs |-> Idle]
    /\ calls = 0
    /\ announced = 0 /\ excused = {}

(***************************************************************************)
(* L1.                                                                     *)
(***************************************************************************)

\* A write has announced a later version than e.
IsOld(e) == e \in Versions /\ e < announced

\* The instances whose L1 holds a version that a write has overtaken.
Overtaken == { i \in Instances : IsOld(l1[i]) }

\* The slot of i becomes e.
PutL1(i, e) ==
    /\ l1' = [l1 EXCEPT ![i] = e]
    /\ l1Left' = [l1Left EXCEPT ![i] = IF e \in Versions \cup {Failed} THEN MemTtl ELSE 0]
    /\ excused' = IF IsOld(e) THEN excused \cup {i} ELSE excused \ {i}

\* A message to the instances in S is lost.
Lose(S) == excused' = excused \cup (Overtaken \cap S)

(***************************************************************************)
(* The handles.                                                            *)
(***************************************************************************)

\* A call begins; whoever sets has the value of the origin in hand.
Begin(p, o, i, step, v) ==
    /\ call[p].step = "idle"
    /\ calls < MaxCalls /\ calls' = calls + 1
    /\ call' = [call EXCEPT ![p] =
                   [step |-> step, op |-> o, at |-> i, val |-> v, hold |-> MaxHold]]
    /\ UNCHANGED << clock, redis, listening, inbox, announced >>

\* A get that hits L1, or joins a pending load, changes nothing.
BeginGet(p, i) ==
    /\ l1[i] = None
    /\ PutL1(i, Pending)
    /\ Begin(p, "get", i, "read", None)

BeginSet(p, i) ==
    Begin(p, "set", i, "store", origin) /\ UNCHANGED << memory, excused >>

BeginInvalidate(p, i) ==
    Begin(p, "invalidate", i, "del", None) /\ UNCHANGED << memory, excused >>

BeginRefresh(p, i) ==
    Begin(p, "refresh", i, "lookup", None) /\ UNCHANGED << memory, excused >>

ReadAndTouch(p) ==                  \* mutant: GETEX, each read renews the entry
    /\ call[p].step = "read"
    /\ IF l2 = None THEN Go(p, "lookup") ELSE GoWith(p, "put", l2)
    /\ l2Left' = IF l2 = None THEN 0 ELSE Ttl
    /\ UNCHANGED << clock, l2, late, memory, bus, announced, calls >>

\* cacheAside: GET of the L2 entry.
Read(p) ==
    /\ call[p].step = "read"
    /\ IF l2 = None THEN Go(p, "lookup") ELSE GoWith(p, "put", l2)
    /\ UNCHANGED << clock, redis, memory, bus, announced, calls >>

Lookup(p) ==
    /\ call[p].step = "lookup"
    /\ GoWith(p, "store", origin)
    /\ UNCHANGED << clock, redis, memory, bus, announced, calls >>

\* SET with EX.  A set and a refresh go on to announce what they stored.
Store(p) ==
    /\ call[p].step = "store"
    /\ l2' = call[p].val /\ l2Left' = Ttl
    /\ announced' = IF call[p].op = "get" THEN announced ELSE Higher(announced, call[p].val)
    /\ Go(p, "put")
    /\ UNCHANGED << clock, late, memory, bus, calls >>

PutAndTellNobody(p) ==              \* mutant: set and refresh do not publish
    /\ call[p].step = "put"
    /\ PutL1(call[p].at, call[p].val)
    /\ End(p)
    /\ UNCHANGED << clock, redis, listening, inbox, announced, calls >>

Put(p) ==
    /\ call[p].step = "put"
    /\ PutL1(call[p].at, call[p].val)
    /\ IF call[p].op = "get" THEN End(p) ELSE Go(p, "publish")
    /\ UNCHANGED << clock, redis, listening, inbox, announced, calls >>

Delete(p) ==
    /\ call[p].step = "del"
    /\ l2' = None /\ l2Left' = 0
    /\ announced' = Higher(announced, origin)
    /\ Go(p, "drop")
    /\ UNCHANGED << clock, late, memory, bus, calls >>

DropL1(p) ==
    /\ call[p].step = "drop"
    /\ PutL1(call[p].at, None)
    /\ Go(p, "publish")
    /\ UNCHANGED << clock, redis, listening, inbox, announced, calls >>

\* PUBLISH reaches the listeners that are up, but for the caller's own.
Publish(p) ==
    LET others == Instances \ {call[p].at} IN
    /\ call[p].step = "publish"
    /\ \A i \in others \cap listening : inbox[i] < MaxInbox
    /\ inbox' = [i \in Instances |->
                    IF i \in others \cap listening THEN inbox[i] + 1 ELSE inbox[i]]
    /\ Lose(others \ listening)
    /\ End(p)
    /\ UNCHANGED << clock, redis, memory, listening, announced, calls >>

\* Whoever has not heard yet of the write that p announced.
Unaware(p) ==
    CASE call[p].step \in {"put", "drop"} /\ call[p].op # "get" -> Instances
      [] call[p].step = "publish" -> Instances \ {call[p].at}
      [] OTHER -> {}

\* A command or the lookup fails.  L1 keeps the failure of a load; a failed
\* PUBLISH is ignored; a SET that failed may still run later.
Fail(p) ==
    /\ call[p].step \in { "read", "lookup", "store", "del", "publish" }
    /\ IF call[p].op = "get" THEN GoWith(p, "put", Failed) ELSE End(p)
    /\ \/ UNCHANGED late
       \/ /\ call[p].step = "store"
          /\ late' = [late EXCEPT ![call[p].val] = Higher(@, call[p].hold + 1)]
    /\ Lose(Unaware(p))
    /\ UNCHANGED << clock, l2, l2Left, memory, listening, inbox, announced, calls >>

\* The fiber is interrupted: a load takes its slot away, a SET may run later.
Interrupt(p) ==
    /\ call[p].step # "idle"
    /\ End(p)
    /\ \/ UNCHANGED late
       \/ /\ call[p].step = "store"
          /\ late' = [late EXCEPT ![call[p].val] = Higher(@, call[p].hold + 1)]
    /\ IF call[p].op = "get"
       THEN PutL1(call[p].at, None)
       ELSE Lose(Unaware(p)) /\ UNCHANGED memory
    /\ UNCHANGED << clock, l2, l2Left, listening, inbox, announced, calls >>

(***************************************************************************)
(* The listener, and what happens beside the handles.                      *)
(***************************************************************************)

\* The listener drops the entry a message names.
Deliver(i) ==
    /\ inbox[i] > 0
    /\ inbox' = [inbox EXCEPT ![i] = @ - 1]
    /\ PutL1(i, None)
    /\ UNCHANGED << clock, redis, listening, call, announced, calls >>

\* The subscription comes up: after makeTiered, and after a retry.
Subscribe(i) ==
    /\ i \notin listening
    /\ listening' = listening \cup {i}
    /\ UNCHANGED << clock, redis, memory, inbox, excused, call, announced, calls >>

\* The subscription drops, with the messages on it.
Unsubscribe(i) ==
    /\ i \in listening
    /\ listening' = listening \ {i}
    /\ inbox' = [inbox EXCEPT ![i] = 0]
    /\ Lose(IF inbox[i] > 0 THEN {i} ELSE {})
    /\ UNCHANGED << clock, redis, memory, call, announced, calls >>

\* memory.capacity: another key takes the room of an entry.
Evict(i) ==
    /\ l1[i] \in Versions \cup {Failed}
    /\ PutL1(i, None)
    /\ UNCHANGED << clock, redis, listening, inbox, call, announced, calls >>

\* A SET whose caller is gone runs.
LateStore(v) ==
    /\ late[v] > 0
    /\ late' = [late EXCEPT ![v] = 0]
    /\ l2' = v /\ l2Left' = Ttl
    /\ UNCHANGED << clock, memory, bus, call, announced, calls >>

\* Somebody deletes the entry from Redis, or Redis evicts it.
Vanish ==
    /\ l2 # None
    /\ l2' = None /\ l2Left' = 0
    /\ UNCHANGED << clock, late, memory, bus, call, announced, calls >>

\* The origin changes.
Change ==
    /\ origin < MaxVersion
    /\ origin' = origin + 1
    /\ UNCHANGED << age, redis, memory, bus, call, announced, calls >>

CountdownPastZero(n) == n - 1       \* mutant: a counter that does not stop

\* A tick off a lifetime: zero is "over".
Countdown(n) == IF n > 0 THEN n - 1 ELSE 0

\* An answer is at most this much older than what the origin has: the time to
\* store it in L2, a life in L2, the time to load it into L1, a life in L1.
StaleBound == (Ttl - 1) + (MemTtl - 1) + 2 * MaxHold

\* Bound: an age beyond the bound is not told from another.
Older(n) == IF n > StaleBound THEN n ELSE n + 1

Tick ==
    /\ \A p \in Procs : call[p].step # "idle" => call[p].hold > 0
    /\ age' = [v \in Versions |-> IF v < origin THEN Older(age[v]) ELSE 0]
    /\ l2' = IF l2Left = 1 THEN None ELSE l2
    /\ l2Left' = Countdown(l2Left)
    /\ late' = [v \in Versions |-> Countdown(late[v])]
    /\ l1' = [i \in Instances |-> IF l1Left[i] = 1 THEN None ELSE l1[i]]
    /\ l1Left' = [i \in Instances |-> Countdown(l1Left[i])]
    /\ call' = [p \in Procs |-> [call[p] EXCEPT !.hold = Countdown(@)]]
    /\ excused' = { i \in excused : l1Left[i] # 1 }
    /\ UNCHANGED << origin, listening, inbox, announced, calls >>

Next ==
    \/ \E p \in Procs, i \in Instances :
          BeginGet(p, i) \/ BeginSet(p, i) \/ BeginInvalidate(p, i) \/ BeginRefresh(p, i)
    \/ \E p \in Procs :
          \/ Read(p) \/ Lookup(p) \/ Store(p) \/ Put(p) \/ Delete(p) \/ DropL1(p)
          \/ Publish(p) \/ Fail(p) \/ Interrupt(p)
    \/ \E i \in Instances : Deliver(i) \/ Subscribe(i) \/ Unsubscribe(i) \/ Evict(i)
    \/ \E v \in Versions : LateStore(v)
    \/ Vanish
    \/ Change
    \/ Tick

Spec == Init /\ [][Next]_vars

(***************************************************************************)
(* Properties.                                                             *)
(***************************************************************************)

\* Whoever is not idle runs on an instance, and whoever stores has a version.
FiberCalls ==
    { c \in [step : Steps, op : Ops, at : Instances \cup {None},
             val : Versions \cup { None, Failed }, hold : 0..MaxHold] :
        /\ c.step # "idle" => c.at \in Instances
        /\ c.step = "store" => c.val \in Versions }

TypeOK ==
    /\ origin \in Versions /\ age \in [Versions -> Nat]
    /\ l2 \in Versions \cup {None} /\ l2Left \in 0..Ttl
    /\ late \in [Versions -> 0..(MaxHold + 1)]
    /\ l1 \in [Instances -> Versions \cup { None, Pending, Failed }]
    /\ l1Left \in [Instances -> 0..MemTtl]
    /\ listening \subseteq Instances /\ inbox \in [Instances -> 0..MaxInbox]
    /\ call \in [Procs -> FiberCalls]
    /\ calls \in 0..MaxCalls /\ announced \in Versions
    /\ excused \subseteq Instances

\* Whatever is lost, late or interleaved, L1 serves no value that the origin
\* replaced more than StaleBound ticks ago: the two lifetimes add up, and
\* neither tier lengthens the life of what it copies from the other.
Staleness ==
    \A i \in Instances : l1[i] \in Versions => age[l1[i]] <= StaleBound

\* A fiber that looked up stores soon; one that read L2 adds a life in L2.
CarriesFresh(c) ==
    /\ c.step = "store" => age[c.val] + c.hold <= MaxHold
    /\ c.step = "put" /\ c.val \in Versions => age[c.val] + c.hold <= Ttl - 1 + 2 * MaxHold

\* The inductive form of Staleness: each tier, each value on its way and each
\* late command is within its share of the bound.
AgesAdd ==
    /\ \A v \in Versions : v >= origin => age[v] = 0
    /\ \A v \in Versions : late[v] > 0 => age[v] + late[v] <= MaxHold + 1
    /\ l2 \in Versions => l2Left > 0 /\ age[l2] + l2Left <= Ttl + MaxHold
    /\ \A p \in Procs : CarriesFresh(call[p])
    /\ \A i \in Instances : l1[i] \in Versions =>
          l1Left[i] > 0 /\ age[l1[i]] + l1Left[i] <= StaleBound + 1

\* An entry that a set, an invalidate or a refresh overtakes while it rests in
\* an L1 is dropped there, unless the message to that instance is lost: until
\* then a message is on its way, or the writer has still to send it.  The only
\* other old entries are the ones a call puts after they were overtaken.
OvertakenIsToldOrLost ==
    \A i \in Overtaken :
        i \in excused \/ inbox[i] > 0 \/ \E p \in Procs : i \in Unaware(p)
=============================================================================
