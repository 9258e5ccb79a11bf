------------------------- MODULE TieredCacheProofs -------------------------
(***************************************************************************)
(* Proofs about the tiered cache: type correctness, the bound on how old   *)
(* an answer of L1 can be, and the coverage of the invalidations, for any  *)
(* number of instances, fibers, versions and messages and all lifetimes.   *)
(***************************************************************************)
EXTENDS TieredCache, TLAPS

(***************************************************************************)
(* Types.                                                                  *)
(***************************************************************************)

\* How a fiber's call changes.
LEMMA CallTypes ==
    ASSUME call \in [Procs -> FiberCalls], NEW p \in Procs
    PROVE  /\ End(p) => call' \in [Procs -> FiberCalls]
           /\ \A s \in Steps : \A v \in Versions \cup { None, Failed } :
                /\ call[p].step # "idle"
                /\ s = "store" => v \in Versions
                /\ GoWith(p, s, v)
                => call' \in [Procs -> FiberCalls]
           /\ \A s \in Steps \ {"store"} :
                call[p].step # "idle" /\ Go(p, s) => call' \in [Procs -> FiberCalls]
<1> USE TieredAssumption
<1> DEFINE Rec == [step : Steps, op : Ops, at : Instances \cup {None},
                   val : Versions \cup { None, Failed }, hold : 0..MaxHold]
<1>0. call[p] \in Rec /\ (call[p].step # "idle" => call[p].at \in Instances)
  BY DEF FiberCalls
<1>1. Idle \in FiberCalls
  BY DEF Idle, FiberCalls, Steps, Ops
<1>2. ASSUME End(p) PROVE call' \in [Procs -> FiberCalls]
  BY <1>1, <1>2 DEF End
<1>3. ASSUME NEW s \in Steps, NEW v \in Versions \cup { None, Failed },
             call[p].step # "idle", s = "store" => v \in Versions, GoWith(p, s, v)
      PROVE  call' \in [Procs -> FiberCalls]
  <2> DEFINE new == [call[p] EXCEPT !.step = s, !.val = v]
  <2>1. new \in FiberCalls
    BY <1>0, <1>3 DEF FiberCalls
  <2>2. call' = [call EXCEPT ![p] = new]
    BY <1>3 DEF GoWith
  <2> QED
    BY <2>1, <2>2
<1>4. ASSUME NEW s \in Steps \ {"store"}, call[p].step # "idle", Go(p, s)
      PROVE  call' \in [Procs -> FiberCalls]
  <2> DEFINE new == [call[p] EXCEPT !.step = s]
  <2>1. new \in FiberCalls
    BY <1>0, <1>4 DEF FiberCalls
  <2>2. call' = [call EXCEPT ![p] = new]
    BY <1>4 DEF Go
  <2> QED
    BY <2>1, <2>2
<1> QED
  BY <1>2, <1>3, <1>4

\* So does a change of one L1 slot.
LEMMA PutType ==
    ASSUME TypeOK, NEW i \in Instances,
           NEW e \in Versions \cup { None, Pending, Failed }, PutL1(i, e)
    PROVE  /\ l1' \in [Instances -> Versions \cup { None, Pending, Failed }]
           /\ l1Left' \in [Instances -> 0..MemTtl]
           /\ excused' \subseteq Instances
BY TieredAssumption DEF TypeOK, PutL1

\* What a fiber's call is.
LEMMA CallFacts ==
    ASSUME call \in [Procs -> FiberCalls], NEW p \in Procs
    PROVE  /\ call[p].step \in Steps /\ call[p].op \in Ops
           /\ call[p].val \in Versions \cup { None, Failed }
           /\ call[p].hold \in 0..MaxHold
           /\ call[p].step # "idle" => call[p].at \in Instances
           /\ call[p].step = "store" => call[p].val \in Versions
BY DEF FiberCalls

\* Every step of a fiber keeps the types.
LEMMA FiberType ==
    ASSUME TypeOK, NEW p \in Procs,
           \/ Read(p) \/ Lookup(p) \/ Store(p) \/ Put(p) \/ Delete(p) \/ DropL1(p)
           \/ Publish(p) \/ Fail(p) \/ Interrupt(p)
    PROVE  TypeOK'
<1> USE TieredAssumption DEF TypeOK
<1>0. /\ call[p].val \in Versions \cup { None, Failed }
      /\ call[p].hold \in 0..MaxHold
      /\ call[p].step # "idle" => call[p].at \in Instances
      /\ call[p].step = "store" => call[p].val \in Versions
  BY CallFacts
<1>1. CASE Read(p)
  <2>1. call' \in [Procs -> FiberCalls]
    BY <1>1, CallTypes DEF Read, Steps
  <2> QED
    BY <1>1, <2>1 DEF Read, clock, redis, memory, bus
<1>2. CASE Lookup(p)
  <2>1. call' \in [Procs -> FiberCalls]
    BY <1>2, CallTypes DEF Lookup, Steps
  <2> QED
    BY <1>2, <2>1 DEF Lookup, clock, redis, memory, bus
<1>3. CASE Store(p)
  <2>1. call' \in [Procs -> FiberCalls]
    BY <1>3, CallTypes DEF Store, Steps
  <2>2. /\ l2' \in Versions \cup {None} /\ l2Left' \in 0..Ttl
        /\ announced' \in Versions
    BY <1>0, <1>3 DEF Store, Higher, Versions
  <2> QED
    BY <1>3, <2>1, <2>2 DEF Store, clock, memory, bus
<1>4. CASE Put(p)
  <2>1. call' \in [Procs -> FiberCalls]
    BY <1>4, CallTypes DEF Put, Steps
  <2>2. call[p].at \in Instances
    BY <1>0, <1>4 DEF Put
  <2>3. /\ l1' \in [Instances -> Versions \cup { None, Pending, Failed }]
        /\ l1Left' \in [Instances -> 0..MemTtl]
        /\ excused' \subseteq Instances
    BY <1>0, <1>4, <2>2, PutType DEF Put
  <2> QED
    BY <1>4, <2>1, <2>3 DEF Put, clock, redis
<1>5. CASE Delete(p)
  <2>1. call' \in [Procs -> FiberCalls]
    BY <1>5, CallTypes DEF Delete, Steps
  <2>2. /\ l2' \in Versions \cup {None} /\ l2Left' \in 0..Ttl
        /\ announced' \in Versions
    BY <1>5 DEF Delete, Higher, Versions
  <2> QED
    BY <1>5, <2>1, <2>2 DEF Delete, clock, memory, bus
<1>6. CASE DropL1(p)
  <2>1. call' \in [Procs -> FiberCalls]
    BY <1>6, CallTypes DEF DropL1, Steps
  <2>2. call[p].at \in Instances
    BY <1>0, <1>6 DEF DropL1
  <2>3. /\ l1' \in [Instances -> Versions \cup { None, Pending, Failed }]
        /\ l1Left' \in [Instances -> 0..MemTtl]
        /\ excused' \subseteq Instances
    BY <1>6, <2>2, PutType DEF DropL1
  <2> QED
    BY <1>6, <2>1, <2>3 DEF DropL1, clock, redis
<1>7. CASE Publish(p)
  <2>1. call' \in [Procs -> FiberCalls]
    BY <1>7, CallTypes DEF Publish
  <2>2. inbox' \in [Instances -> 0..MaxInbox] /\ excused' \subseteq Instances
    BY <1>7 DEF Publish, Lose, Overtaken
  <2> QED
    BY <1>7, <2>1, <2>2 DEF Publish, clock, redis, memory
<1>8. CASE Fail(p)
  <2>1. call' \in [Procs -> FiberCalls]
    BY <1>8, CallTypes DEF Fail, Steps
  <2>2. late' \in [Versions -> 0..(MaxHold + 1)]
    BY <1>0, <1>8 DEF Fail, Higher
  <2> QED
    BY <1>8, <2>1, <2>2 DEF Fail, Lose, Overtaken, clock, memory
<1>9. CASE Interrupt(p)
  <2>1. call' \in [Procs -> FiberCalls]
    BY <1>9, CallTypes DEF Interrupt
  <2>2. late' \in [Versions -> 0..(MaxHold + 1)]
    BY <1>0, <1>9 DEF Interrupt, Higher
  <2>3. call[p].at \in Instances
    BY <1>0, <1>9 DEF Interrupt
  <2>4. /\ l1' \in [Instances -> Versions \cup { None, Pending, Failed }]
        /\ l1Left' \in [Instances -> 0..MemTtl]
        /\ excused' \subseteq Instances
    BY <1>9, <2>3, PutType DEF Interrupt, Lose, Overtaken, memory
  <2> QED
    BY <1>9, <2>1, <2>2, <2>4 DEF Interrupt, clock
<1> QED
  BY <1>1, <1>2, <1>3, <1>4, <1>5, <1>6, <1>7, <1>8, <1>9

\* The beginning of a call keeps the types.
LEMMA BeginType ==
    ASSUME TypeOK, NEW p \in Procs, NEW i \in Instances,
           NEW o \in Ops, NEW step \in Steps, NEW v \in Versions \cup {None},
           step = "store" => v \in Versions, Begin(p, o, i, step, v)
    PROVE  call' \in [Procs -> FiberCalls] /\ calls' \in 0..MaxCalls
<1> DEFINE new == [step |-> step, op |-> o, at |-> i, val |-> v, hold |-> MaxHold]
<1>1. new \in FiberCalls
  BY TieredAssumption DEF FiberCalls
<1>2. call' = [call EXCEPT ![p] = new]
  BY DEF Begin
<1>3. calls' \in 0..MaxCalls
  BY TieredAssumption DEF Begin, TypeOK
<1> QED
  BY <1>1, <1>2, <1>3 DEF TypeOK

\* Every state of every behaviour has the declared types.
THEOREM TypeCorrect == Spec => []TypeOK
<1> USE TieredAssumption
<1>1. Init => TypeOK
  <2> SUFFICES ASSUME Init PROVE TypeOK
    OBVIOUS
  <2>1. Idle \in FiberCalls
    BY DEF Idle, FiberCalls, Steps, Ops
  <2>2. call \in [Procs -> FiberCalls]
    BY <2>1 DEF Init
  <2> QED
    BY <2>2 DEF Init, TypeOK, Versions
<1>2. TypeOK /\ [Next]_vars => TypeOK'
  <2> SUFFICES ASSUME TypeOK, [Next]_vars PROVE TypeOK'
    OBVIOUS
  <2> USE DEF TypeOK
  <2>1. ASSUME NEW p \in Procs, NEW i \in Instances,
               \/ BeginGet(p, i) \/ BeginSet(p, i)
               \/ BeginInvalidate(p, i) \/ BeginRefresh(p, i)
        PROVE  TypeOK'
    <3>1. CASE BeginGet(p, i)
      <4>1. call' \in [Procs -> FiberCalls] /\ calls' \in 0..MaxCalls
        BY <3>1, BeginType DEF BeginGet, Steps, Ops
      <4>2. /\ l1' \in [Instances -> Versions \cup { None, Pending, Failed }]
            /\ l1Left' \in [Instances -> 0..MemTtl]
            /\ excused' \subseteq Instances
        BY <3>1, PutType DEF BeginGet
      <4> QED
        BY <3>1, <4>1, <4>2 DEF BeginGet, Begin, clock, redis
    <3>2. CASE BeginSet(p, i)
      <4>1. call' \in [Procs -> FiberCalls] /\ calls' \in 0..MaxCalls
        BY <3>2, BeginType DEF BeginSet, Steps, Ops
      <4> QED
        BY <3>2, <4>1 DEF BeginSet, Begin, clock, redis, memory
    <3>3. CASE BeginInvalidate(p, i)
      <4>1. call' \in [Procs -> FiberCalls] /\ calls' \in 0..MaxCalls
        BY <3>3, BeginType DEF BeginInvalidate, Steps, Ops
      <4> QED
        BY <3>3, <4>1 DEF BeginInvalidate, Begin, clock, redis, memory
    <3>4. CASE BeginRefresh(p, i)
      <4>1. call' \in [Procs -> FiberCalls] /\ calls' \in 0..MaxCalls
        BY <3>4, BeginType DEF BeginRefresh, Steps, Ops
      <4> QED
        BY <3>4, <4>1 DEF BeginRefresh, Begin, clock, redis, memory
    <3> QED
      BY <2>1, <3>1, <3>2, <3>3, <3>4
  <2>2. ASSUME NEW i \in Instances, Deliver(i) PROVE TypeOK'
    <3>1. inbox' \in [Instances -> 0..MaxInbox]
      BY <2>2 DEF Deliver
    <3> QED
      BY <2>2, <3>1, PutType DEF Deliver, clock, redis
  <2>3. ASSUME NEW i \in Instances, Evict(i) PROVE TypeOK'
    BY <2>3, PutType DEF Evict, clock, redis
  <2>4. ASSUME NEW i \in Instances, Subscribe(i) PROVE TypeOK'
    BY <2>4 DEF Subscribe, clock, redis, memory
  <2>5. ASSUME NEW i \in Instances, Unsubscribe(i) PROVE TypeOK'
    BY <2>5 DEF Unsubscribe, Lose, Overtaken, clock, redis, memory
  <2>6. ASSUME NEW v \in Versions, LateStore(v) PROVE TypeOK'
    BY <2>6 DEF LateStore, clock, memory, bus
  <2>7. CASE Vanish
    BY <2>7 DEF Vanish, clock, memory, bus
  <2>8. CASE Change
    BY <2>8 DEF Change, redis, memory, bus, Versions
  <2>9. CASE Tick
    <3>1. call' \in [Procs -> FiberCalls]
      BY <2>9 DEF Tick, FiberCalls, Countdown
    <3>2. /\ age' \in [Versions -> Nat]
          /\ l2' \in Versions \cup {None} /\ l2Left' \in 0..Ttl
          /\ late' \in [Versions -> 0..(MaxHold + 1)]
      BY <2>9 DEF Tick, Countdown, Older
    <3>3. /\ l1' \in [Instances -> Versions \cup { None, Pending, Failed }]
          /\ l1Left' \in [Instances -> 0..MemTtl]
          /\ excused' \subseteq Instances
      BY <2>9 DEF Tick, Countdown
    <3> QED
      BY <2>9, <3>1, <3>2, <3>3 DEF Tick
  <2>10. CASE UNCHANGED vars
    BY <2>10 DEF vars, clock, redis, memory, bus
  <2> QED
    BY <2>1, <2>2, <2>3, <2>4, <2>5, <2>6, <2>7, <2>8, <2>9, <2>10, FiberType DEF Next
<1> QED
  BY <1>1, <1>2, PTL DEF Spec

(***************************************************************************)
(* How old an answer is.  Staleness alone is not inductive: a value gets   *)
(* into L1 from L2 or from a fiber, so each of them needs its own share of *)
(* the bound, counted together with the time the value may still stay      *)
(* there.  AgesAdd is that; a tick takes from the one what it adds to the  *)
(* other, and every copy moves a value from one share into the next.       *)
(***************************************************************************)

\* What a step of a fiber's call leaves alone.
LEMMA CallEffect ==
    ASSUME call \in [Procs -> FiberCalls], NEW p \in Procs
    PROVE  /\ End(p) =>
                /\ call'[p] = Idle
                /\ \A q \in Procs \ {p} : call'[q] = call[q]
           /\ \A s \in Steps : Go(p, s) =>
                /\ call'[p].step = s /\ call'[p].op = call[p].op
                /\ call'[p].at = call[p].at
                /\ call'[p].val = call[p].val /\ call'[p].hold = call[p].hold
                /\ \A q \in Procs \ {p} : call'[q] = call[q]
           /\ \A s \in Steps : \A v : GoWith(p, s, v) =>
                /\ call'[p].step = s /\ call'[p].op = call[p].op
                /\ call'[p].at = call[p].at
                /\ call'[p].val = v /\ call'[p].hold = call[p].hold
                /\ \A q \in Procs \ {p} : call'[q] = call[q]
BY DEF End, Go, GoWith, FiberCalls

\* A value put into L1 lives there for MemTtl ticks.
LEMMA PutKeepsAges ==
    ASSUME TypeOK, AgesAdd, NEW i \in Instances,
           NEW e \in Versions \cup { None, Pending, Failed }, PutL1(i, e),
           e \in Versions => age[e] <= Ttl - 1 + 2 * MaxHold, UNCHANGED age
    PROVE  \A j \in Instances : l1'[j] \in Versions =>
               l1Left'[j] > 0 /\ age'[l1'[j]] + l1Left'[j] <= StaleBound + 1
BY TieredAssumption DEF TypeOK, AgesAdd, PutL1, StaleBound

\* A step of a fiber keeps the values that others carry.
LEMMA OthersCarry ==
    ASSUME AgesAdd, NEW p \in Procs, UNCHANGED age,
           \A q \in Procs \ {p} : call'[q] = call[q], CarriesFresh(call[p])'
    PROVE  \A q \in Procs : CarriesFresh(call[q])'
BY DEF AgesAdd, CarriesFresh

\* Every step of a fiber keeps the shares.
LEMMA FiberAges ==
    ASSUME TypeOK, AgesAdd, NEW p \in Procs,
           \/ Read(p) \/ Lookup(p) \/ Store(p) \/ Put(p) \/ Delete(p) \/ DropL1(p)
           \/ Publish(p) \/ Fail(p) \/ Interrupt(p)
    PROVE  AgesAdd'
<1> USE TieredAssumption
<1>0. /\ call \in [Procs -> FiberCalls]
      /\ call[p].val \in Versions \cup { None, Failed }
      /\ call[p].hold \in 0..MaxHold
      /\ call[p].step # "idle" => call[p].at \in Instances
      /\ call[p].step = "store" => call[p].val \in Versions
      /\ CarriesFresh(call[p])
      /\ age \in [Versions -> Nat]
  BY CallFacts DEF TypeOK, AgesAdd
<1>1. CASE Read(p)
  <2>1. CarriesFresh(call[p])'
    BY <1>0, <1>1, CallEffect DEF Read, CarriesFresh, AgesAdd, TypeOK, Steps, clock
  <2>2. \A q \in Procs \ {p} : call'[q] = call[q]
    BY <1>0, <1>1, CallEffect DEF Read, Steps
  <2>3. \A q \in Procs : CarriesFresh(call[q])'
    BY <1>1, <2>1, <2>2, OthersCarry DEF Read, clock
  <2> QED
    BY <1>1, <2>3 DEF Read, AgesAdd, clock, redis, memory
<1>2. CASE Lookup(p)
  <2>0. origin \in Versions /\ age[origin] = 0
    BY DEF AgesAdd, TypeOK, Versions
  <2>1. CarriesFresh(call[p])'
    BY <1>0, <1>2, <2>0, CallEffect DEF Lookup, CarriesFresh, Steps, clock
  <2>2. \A q \in Procs \ {p} : call'[q] = call[q]
    BY <1>0, <1>2, CallEffect DEF Lookup, Steps
  <2>3. \A q \in Procs : CarriesFresh(call[q])'
    BY <1>2, <2>1, <2>2, OthersCarry DEF Lookup, clock
  <2> QED
    BY <1>2, <2>3 DEF Lookup, AgesAdd, clock, redis, memory
<1>3. CASE Store(p)
  <2>1. CarriesFresh(call[p])'
    BY <1>0, <1>3, CallEffect DEF Store, CarriesFresh, Steps, clock
  <2>2. \A q \in Procs \ {p} : call'[q] = call[q]
    BY <1>0, <1>3, CallEffect DEF Store, Steps
  <2>3. \A q \in Procs : CarriesFresh(call[q])'
    BY <1>3, <2>1, <2>2, OthersCarry DEF Store, clock
  <2>4. l2' \in Versions => l2Left' > 0 /\ age'[l2'] + l2Left' <= Ttl + MaxHold
    BY <1>0, <1>3 DEF Store, CarriesFresh, clock
  <2> QED
    BY <1>3, <2>3, <2>4 DEF Store, AgesAdd, clock, memory
<1>4. CASE Put(p)
  <2>1. CarriesFresh(call[p])'
    BY <1>0, <1>4, CallEffect DEF Put, CarriesFresh, Steps, Idle
  <2>2. \A q \in Procs \ {p} : call'[q] = call[q]
    BY <1>0, <1>4, CallEffect DEF Put, Steps
  <2>3. \A q \in Procs : CarriesFresh(call[q])'
    BY <1>4, <2>1, <2>2, OthersCarry DEF Put, clock
  <2>4. call[p].val \in Versions => age[call[p].val] <= Ttl - 1 + 2 * MaxHold
    BY <1>0, <1>4 DEF Put, CarriesFresh
  <2>5. \A j \in Instances : l1'[j] \in Versions =>
            l1Left'[j] > 0 /\ age'[l1'[j]] + l1Left'[j] <= StaleBound + 1
    BY <1>0, <1>4, <2>4, PutKeepsAges DEF Put, clock
  <2> QED
    BY <1>4, <2>3, <2>5 DEF Put, AgesAdd, clock, redis
<1>5. CASE Delete(p)
  <2>1. CarriesFresh(call[p])'
    BY <1>0, <1>5, CallEffect DEF Delete, CarriesFresh, Steps
  <2>2. \A q \in Procs \ {p} : call'[q] = call[q]
    BY <1>0, <1>5, CallEffect DEF Delete, Steps
  <2>3. \A q \in Procs : CarriesFresh(call[q])'
    BY <1>5, <2>1, <2>2, OthersCarry DEF Delete, clock
  <2> QED
    BY <1>5, <2>3 DEF Delete, AgesAdd, clock, memory
<1>6. CASE DropL1(p)
  <2>1. CarriesFresh(call[p])'
    BY <1>0, <1>6, CallEffect DEF DropL1, CarriesFresh, Steps
  <2>2. \A q \in Procs \ {p} : call'[q] = call[q]
    BY <1>0, <1>6, CallEffect DEF DropL1, Steps
  <2>3. \A q \in Procs : CarriesFresh(call[q])'
    BY <1>6, <2>1, <2>2, OthersCarry DEF DropL1, clock
  <2>4. \A j \in Instances : l1'[j] \in Versions =>
            l1Left'[j] > 0 /\ age'[l1'[j]] + l1Left'[j] <= StaleBound + 1
    BY <1>0, <1>6, PutKeepsAges DEF DropL1, clock
  <2> QED
    BY <1>6, <2>3, <2>4 DEF DropL1, AgesAdd, clock, redis
<1>7. CASE Publish(p)
  <2>1. CarriesFresh(call[p])'
    BY <1>0, <1>7, CallEffect DEF Publish, CarriesFresh, Idle
  <2>2. \A q \in Procs \ {p} : call'[q] = call[q]
    BY <1>0, <1>7, CallEffect DEF Publish
  <2>3. \A q \in Procs : CarriesFresh(call[q])'
    BY <1>7, <2>1, <2>2, OthersCarry DEF Publish, clock
  <2> QED
    BY <1>7, <2>3 DEF Publish, AgesAdd, clock, redis, memory
<1>8. CASE Fail(p)
  <2>1. CarriesFresh(call[p])'
    BY <1>0, <1>8, CallEffect DEF Fail, CarriesFresh, Idle, Steps
  <2>2. \A q \in Procs \ {p} : call'[q] = call[q]
    BY <1>0, <1>8, CallEffect DEF Fail, Steps
  <2>3. \A q \in Procs : CarriesFresh(call[q])'
    BY <1>8, <2>1, <2>2, OthersCarry DEF Fail, clock
  <2>4. \A v \in Versions : late'[v] > 0 => age'[v] + late'[v] <= MaxHold + 1
    BY <1>0, <1>8 DEF Fail, CarriesFresh, AgesAdd, TypeOK, Higher, clock
  <2> QED
    BY <1>8, <2>3, <2>4 DEF Fail, AgesAdd, clock, memory
<1>9. CASE Interrupt(p)
  <2>1. CarriesFresh(call[p])'
    BY <1>0, <1>9, CallEffect DEF Interrupt, CarriesFresh, Idle
  <2>2. \A q \in Procs \ {p} : call'[q] = call[q]
    BY <1>0, <1>9, CallEffect DEF Interrupt
  <2>3. \A q \in Procs : CarriesFresh(call[q])'
    BY <1>9, <2>1, <2>2, OthersCarry DEF Interrupt, clock
  <2>4. \A v \in Versions : late'[v] > 0 => age'[v] + late'[v] <= MaxHold + 1
    BY <1>0, <1>9 DEF Interrupt, CarriesFresh, AgesAdd, TypeOK, Higher, clock
  <2>5. \A j \in Instances : l1'[j] \in Versions =>
            l1Left'[j] > 0 /\ age'[l1'[j]] + l1Left'[j] <= StaleBound + 1
    <3>1. CASE call[p].op = "get"
      BY <1>0, <1>9, <3>1, PutKeepsAges DEF Interrupt, clock
    <3>2. CASE call[p].op # "get"
      BY <1>9, <3>2 DEF Interrupt, AgesAdd, clock, memory
    <3> QED
      BY <3>1, <3>2
  <2> QED
    BY <1>9, <2>3, <2>4, <2>5 DEF Interrupt, AgesAdd, clock
<1> QED
  BY <1>1, <1>2, <1>3, <1>4, <1>5, <1>6, <1>7, <1>8, <1>9


\* The beginning of a call carries at most the value of the origin.
LEMMA BeginCarries ==
    ASSUME TypeOK, AgesAdd, NEW p \in Procs, NEW i \in Instances, NEW o \in Ops,
           NEW step \in Steps \ {"put"}, NEW v \in Versions \cup {None},
           step = "store" => v = origin, Begin(p, o, i, step, v)
    PROVE  \A q \in Procs : CarriesFresh(call[q])'
<1>1. call \in [Procs -> FiberCalls] /\ age' = age
  BY DEF TypeOK, Begin, clock
<1>2. \A q \in Procs \ {p} : call'[q] = call[q]
  BY <1>1 DEF Begin
<1>3. origin \in Versions /\ age[origin] = 0
  BY TieredAssumption DEF AgesAdd, TypeOK, Versions
<1>4. call'[p] = [step |-> step, op |-> o, at |-> i, val |-> v, hold |-> MaxHold]
  BY <1>1 DEF Begin
<1>5. CarriesFresh(call[p])'
  BY <1>1, <1>3, <1>4, TieredAssumption DEF CarriesFresh
<1> QED
  BY <1>1, <1>2, <1>5, OthersCarry

\* Every tier and every carried value stays within its share.
THEOREM AgesAddHolds == Spec => []AgesAdd
<1> USE TieredAssumption
<1>1. Init => AgesAdd
  BY DEF Init, AgesAdd, CarriesFresh, Idle, Versions
<1>2. TypeOK /\ AgesAdd /\ [Next]_vars => AgesAdd'
  <2> SUFFICES ASSUME TypeOK, AgesAdd, [Next]_vars PROVE AgesAdd'
    OBVIOUS
  <2>1. ASSUME NEW p \in Procs, NEW i \in Instances,
               \/ BeginGet(p, i) \/ BeginSet(p, i)
               \/ BeginInvalidate(p, i) \/ BeginRefresh(p, i)
        PROVE  AgesAdd'
    <3>0. origin \in Versions
      BY DEF TypeOK
    <3>1. CASE BeginGet(p, i)
      <4>1. \A q \in Procs : CarriesFresh(call[q])'
        BY <3>1, BeginCarries DEF BeginGet, Steps, Ops
      <4>2. \A j \in Instances : l1'[j] \in Versions =>
                l1Left'[j] > 0 /\ age'[l1'[j]] + l1Left'[j] <= StaleBound + 1
        BY <3>1, PutKeepsAges DEF BeginGet, Begin, clock
      <4> QED
        BY <3>1, <4>1, <4>2 DEF BeginGet, Begin, AgesAdd, clock, redis
    <3>2. CASE BeginSet(p, i)
      <4>1. \A q \in Procs : CarriesFresh(call[q])'
        BY <3>0, <3>2, BeginCarries DEF BeginSet, Steps, Ops
      <4> QED
        BY <3>2, <4>1 DEF BeginSet, Begin, AgesAdd, clock, redis, memory
    <3>3. CASE BeginInvalidate(p, i)
      <4>1. \A q \in Procs : CarriesFresh(call[q])'
        BY <3>3, BeginCarries DEF BeginInvalidate, Steps, Ops
      <4> QED
        BY <3>3, <4>1 DEF BeginInvalidate, Begin, AgesAdd, clock, redis, memory
    <3>4. CASE BeginRefresh(p, i)
      <4>1. \A q \in Procs : CarriesFresh(call[q])'
        BY <3>4, BeginCarries DEF BeginRefresh, Steps, Ops
      <4> QED
        BY <3>4, <4>1 DEF BeginRefresh, Begin, AgesAdd, clock, redis, memory
    <3> QED
      BY <2>1, <3>1, <3>2, <3>3, <3>4
  <2>2. ASSUME NEW i \in Instances, Deliver(i) \/ Evict(i) PROVE AgesAdd'
    <3>1. PutL1(i, None) /\ UNCHANGED << clock, redis, call >>
      BY <2>2 DEF Deliver, Evict
    <3>2. \A j \in Instances : l1'[j] \in Versions =>
              l1Left'[j] > 0 /\ age'[l1'[j]] + l1Left'[j] <= StaleBound + 1
      BY <3>1, PutKeepsAges DEF clock
    <3> QED
      BY <3>1, <3>2 DEF AgesAdd, CarriesFresh, clock, redis
  <2>3. ASSUME NEW i \in Instances, Subscribe(i) \/ Unsubscribe(i) PROVE AgesAdd'
    BY <2>3 DEF Subscribe, Unsubscribe, AgesAdd, CarriesFresh, clock, redis, memory
  <2>4. ASSUME NEW v \in Versions, LateStore(v) PROVE AgesAdd'
    <3>1. l2' \in Versions => l2Left' > 0 /\ age'[l2'] + l2Left' <= Ttl + MaxHold
      BY <2>4 DEF LateStore, AgesAdd, TypeOK, clock
    <3>2. \A w \in Versions : late'[w] > 0 => age'[w] + late'[w] <= MaxHold + 1
      BY <2>4 DEF LateStore, AgesAdd, TypeOK, clock
    <3> QED
      BY <2>4, <3>1, <3>2 DEF LateStore, AgesAdd, CarriesFresh, clock, memory
  <2>5. CASE Vanish
    BY <2>5 DEF Vanish, AgesAdd, CarriesFresh, clock, memory
  <2>6. CASE Change
    <3>1. \A v \in Versions : v >= origin' => age'[v] = 0
      BY <2>6 DEF Change, AgesAdd, TypeOK, Versions
    <3> QED
      BY <2>6, <3>1 DEF Change, AgesAdd, CarriesFresh, redis, memory
  <2>7. CASE Tick
    <3>0. /\ age \in [Versions -> Nat] /\ age' \in [Versions -> Nat]
          /\ \A v \in Versions : age'[v] <= age[v] + 1
      BY <2>7 DEF Tick, Older, TypeOK, StaleBound
    <3>1. \A v \in Versions : v >= origin' => age'[v] = 0
      BY <2>7 DEF Tick, TypeOK, Versions
    <3>2. \A v \in Versions : late'[v] > 0 => age'[v] + late'[v] <= MaxHold + 1
      BY <2>7, <3>0 DEF Tick, Countdown, AgesAdd, TypeOK
    <3>3. l2' \in Versions => l2Left' > 0 /\ age'[l2'] + l2Left' <= Ttl + MaxHold
      BY <2>7, <3>0 DEF Tick, Countdown, AgesAdd, TypeOK
    <3>4. ASSUME NEW p \in Procs PROVE CarriesFresh(call[p])'
      <4>1. /\ call[p].hold \in 0..MaxHold
            /\ call[p].step = "store" => call[p].val \in Versions
        BY CallFacts DEF TypeOK
      <4>2. /\ call'[p].step = call[p].step /\ call'[p].val = call[p].val
            /\ call'[p].hold = Countdown(call[p].hold)
        BY <2>7 DEF Tick, TypeOK, FiberCalls
      <4>3. call[p].step # "idle" => call[p].hold > 0
        BY <2>7 DEF Tick
      <4>4. CarriesFresh(call[p])
        BY DEF AgesAdd
      <4> QED
        BY <3>0, <4>1, <4>2, <4>3, <4>4 DEF CarriesFresh, Countdown
    <3>5. ASSUME NEW i \in Instances, l1'[i] \in Versions
          PROVE  l1Left'[i] > 0 /\ age'[l1'[i]] + l1Left'[i] <= StaleBound + 1
      <4>1. l1Left[i] # 1 /\ l1'[i] = l1[i] /\ l1Left'[i] = Countdown(l1Left[i])
        BY <2>7, <3>5 DEF Tick, TypeOK
      <4>2. l1Left[i] > 0 /\ age[l1[i]] + l1Left[i] <= StaleBound + 1
        BY <3>5, <4>1 DEF AgesAdd
      <4> QED
        BY <3>0, <3>5, <4>1, <4>2 DEF Countdown, TypeOK, StaleBound
    <3> QED
      BY <3>1, <3>2, <3>3, <3>4, <3>5 DEF AgesAdd
  <2>8. CASE UNCHANGED vars
    BY <2>8 DEF vars, AgesAdd, CarriesFresh, clock, redis, memory
  <2> QED
    BY <2>1, <2>2, <2>3, <2>4, <2>5, <2>6, <2>7, <2>8, FiberAges DEF Next
<1> QED
  BY <1>1, <1>2, TypeCorrect, PTL DEF Spec

\* No answer of L1 is older than the bound.
THEOREM StalenessHolds == Spec => []Staleness
<1>1. TypeOK /\ AgesAdd => Staleness
  BY TieredAssumption DEF TypeOK, AgesAdd, Staleness, StaleBound
<1> QED
  BY <1>1, TypeCorrect, AgesAddHolds, PTL

(***************************************************************************)
(* Invalidations.  An entry that is overtaken has a message coming, or the *)
(* message was lost, or the entry was put too late.  Each step hands that  *)
(* on: from the writer to the inbox, from the inbox to the drop.  Besides  *)
(* the property the induction needs only that a load announces nothing.    *)
(***************************************************************************)

LoadsAnnounceNothing ==
    \A p \in Procs : call[p].op = "get" => call[p].step \notin { "del", "drop", "publish" }

\* A load never deletes, drops or publishes.
THEOREM LoadsAnnounceNothingHolds == Spec => []LoadsAnnounceNothing
<1>1. Init => LoadsAnnounceNothing
  BY DEF Init, LoadsAnnounceNothing, Idle
<1>2. TypeOK /\ LoadsAnnounceNothing /\ [Next]_vars => LoadsAnnounceNothing'
  <2> SUFFICES ASSUME TypeOK, LoadsAnnounceNothing, [Next]_vars
               PROVE  LoadsAnnounceNothing'
    OBVIOUS
  <2>0. call \in [Procs -> FiberCalls]
    BY DEF TypeOK
  <2>1. ASSUME NEW p \in Procs, NEW i \in Instances,
               \/ BeginGet(p, i) \/ BeginSet(p, i)
               \/ BeginInvalidate(p, i) \/ BeginRefresh(p, i)
        PROVE  LoadsAnnounceNothing'
    <3>1. /\ \A q \in Procs \ {p} : call'[q] = call[q]
          /\ call'[p].op = "get" => call'[p].step = "read"
      BY <2>0, <2>1 DEF BeginGet, BeginSet, BeginInvalidate, BeginRefresh, Begin
    <3> QED
      BY <3>1 DEF LoadsAnnounceNothing
  <2>2. ASSUME NEW p \in Procs,
               \/ Read(p) \/ Lookup(p) \/ Store(p) \/ Put(p) \/ Delete(p) \/ DropL1(p)
               \/ Publish(p) \/ Fail(p) \/ Interrupt(p)
        PROVE  LoadsAnnounceNothing'
    <3>1. \A q \in Procs \ {p} : call'[q] = call[q]
      BY <2>0, <2>2, CallEffect
      DEF Read, Lookup, Store, Put, Delete, DropL1, Publish, Fail, Interrupt, Steps
    <3>2. call'[p].op = "get" => call'[p].step \notin { "del", "drop", "publish" }
      <4> USE DEF Steps, Idle, LoadsAnnounceNothing
      <4>1. CASE Read(p)
        BY <2>0, <4>1, CallEffect DEF Read
      <4>2. CASE Lookup(p)
        BY <2>0, <4>2, CallEffect DEF Lookup
      <4>3. CASE Store(p)
        BY <2>0, <4>3, CallEffect DEF Store
      <4>4. CASE Put(p)
        BY <2>0, <4>4, CallEffect DEF Put
      <4>5. CASE Delete(p)
        BY <2>0, <4>5, CallEffect DEF Delete
      <4>6. CASE DropL1(p)
        BY <2>0, <4>6, CallEffect DEF DropL1
      <4>7. CASE Publish(p) \/ Interrupt(p)
        BY <2>0, <4>7, CallEffect DEF Publish, Interrupt
      <4>8. CASE Fail(p)
        BY <2>0, <4>8, CallEffect DEF Fail
      <4> QED
        BY <2>2, <4>1, <4>2, <4>3, <4>4, <4>5, <4>6, <4>7, <4>8
    <3> QED
      BY <3>1, <3>2 DEF LoadsAnnounceNothing
  <2>3. CASE UNCHANGED call
    BY <2>3 DEF LoadsAnnounceNothing
  <2>4. CASE Tick
    <3>1. \A p \in Procs : call'[p].op = call[p].op /\ call'[p].step = call[p].step
      BY <2>0, <2>4 DEF Tick, FiberCalls
    <3> QED
      BY <3>1 DEF LoadsAnnounceNothing
  <2>5. CASE \/ \E i \in Instances : Deliver(i) \/ Subscribe(i) \/ Unsubscribe(i) \/ Evict(i)
             \/ \E v \in Versions : LateStore(v)
             \/ Vanish \/ Change \/ UNCHANGED vars
    BY <2>3, <2>5
    DEF Deliver, Subscribe, Unsubscribe, Evict, LateStore, Vanish, Change, vars
  <2> QED
    BY <2>1, <2>2, <2>4, <2>5 DEF Next
<1> QED
  BY <1>1, <1>2, TypeCorrect, PTL DEF Spec

\* Why an overtaken entry of i may still be there.
Told(i) == i \in excused \/ inbox[i] > 0 \/ \E p \in Procs : i \in Unaware(p)

\* What the writers have still to tell does not depend on who else moves.
LEMMA StillUnaware ==
    ASSUME NEW p \in Procs, \A q \in Procs \ {p} : call'[q] = call[q]
    PROVE  \A q \in Procs \ {p} : Unaware(q)' = Unaware(q)
BY DEF Unaware

\* Every step of a fiber hands the message on.
LEMMA FiberTells ==
    ASSUME TypeOK, LoadsAnnounceNothing, OvertakenIsToldOrLost, NEW p \in Procs,
           \/ Read(p) \/ Lookup(p) \/ Store(p) \/ Put(p) \/ Delete(p) \/ DropL1(p)
           \/ Publish(p) \/ Fail(p) \/ Interrupt(p)
    PROVE  OvertakenIsToldOrLost'
<1>0. /\ call \in [Procs -> FiberCalls]
      /\ call[p].step \in Steps
      /\ call[p].step # "idle" => call[p].at \in Instances
      /\ l1 \in [Instances -> Versions \cup { None, Pending, Failed }]
      /\ inbox \in [Instances -> 0..MaxInbox]
  BY CallFacts DEF TypeOK
<1>1. \A q \in Procs \ {p} : call'[q] = call[q]
  BY <1>0, CallEffect
  DEF Read, Lookup, Store, Put, Delete, DropL1, Publish, Fail, Interrupt, Steps
<1>2. \A q \in Procs \ {p} : Unaware(q)' = Unaware(q)
  BY <1>1, StillUnaware
<1> SUFFICES ASSUME NEW i \in Overtaken' PROVE Told(i)'
  BY DEF OvertakenIsToldOrLost, Told
<1>3. i \in Instances /\ IsOld(l1[i])'
  BY DEF Overtaken
<1>4. i \in Overtaken => Told(i)
  BY DEF OvertakenIsToldOrLost, Told
<1>5. CASE Read(p) \/ Lookup(p)
  <2>1. Unaware(p) = {}
    BY <1>5 DEF Read, Lookup, Unaware
  <2>2. i \in Overtaken /\ UNCHANGED << excused, inbox >>
    BY <1>3, <1>5 DEF Read, Lookup, Overtaken, IsOld, memory, bus
  <2> QED
    BY <1>2, <1>4, <2>1, <2>2 DEF Told
<1>6. CASE Store(p)
  <2>1. Unaware(p) = {} /\ UNCHANGED << l1, excused, inbox >>
    BY <1>6 DEF Store, Unaware, memory, bus
  <2>2. CASE call[p].op = "get"
    <3>1. i \in Overtaken
      BY <1>3, <1>6, <2>1, <2>2 DEF Store, Overtaken, IsOld
    <3> QED
      BY <1>2, <1>4, <2>1, <3>1 DEF Told
  <2>3. CASE call[p].op # "get"
    <3>1. call'[p].step = "put" /\ call'[p].op = call[p].op
      BY <1>0, <1>6, CallEffect DEF Store, Steps
    <3>2. Unaware(p)' = Instances
      BY <2>3, <3>1 DEF Unaware
    <3> QED
      BY <1>3, <3>2 DEF Told
  <2> QED
    BY <2>2, <2>3
<1>7. CASE Put(p)
  <2>1. call[p].at \in Instances /\ UNCHANGED << announced, inbox >>
    BY <1>0, <1>7 DEF Put
  <2>2. CASE i = call[p].at
    BY <1>0, <1>3, <1>7, <2>1, <2>2 DEF Put, PutL1, IsOld, Told
  <2>3. CASE i # call[p].at
    <3>1. i \in Overtaken /\ (i \in excused => i \in excused')
      BY <1>0, <1>3, <1>7, <2>1, <2>3 DEF Put, PutL1, IsOld, Overtaken
    <3>2. CASE call[p].op = "get"
      <4>1. Unaware(p) = {}
        BY <1>7, <3>2 DEF Put, Unaware
      <4> QED
        BY <1>2, <1>4, <2>1, <3>1, <4>1 DEF Told
    <3>3. CASE call[p].op # "get"
      <4>1. call'[p].step = "publish" /\ call'[p].at = call[p].at
        BY <1>0, <1>7, <3>3, CallEffect DEF Put, Steps
      <4>2. Unaware(p)' = Instances \ {call[p].at}
        BY <4>1 DEF Unaware
      <4> QED
        BY <1>3, <2>3, <4>2 DEF Told
    <3> QED
      BY <3>2, <3>3
  <2> QED
    BY <2>2, <2>3
<1>8. CASE Delete(p)
  <2>1. call'[p].step = "drop" /\ call'[p].op = call[p].op /\ call[p].op # "get"
    BY <1>0, <1>8, CallEffect DEF Delete, Steps, LoadsAnnounceNothing
  <2>2. Unaware(p)' = Instances
    BY <2>1 DEF Unaware
  <2> QED
    BY <1>3, <2>2 DEF Told
<1>9. CASE DropL1(p)
  <2>1. call'[p].step = "publish" /\ call'[p].at = call[p].at
    BY <1>0, <1>9, CallEffect DEF DropL1, Steps
  <2>2. Unaware(p)' = Instances \ {call[p].at}
    BY <2>1 DEF Unaware
  <2>3. i # call[p].at
    BY <1>0, <1>3, <1>9, TieredAssumption DEF DropL1, PutL1, IsOld
  <2> QED
    BY <1>3, <2>2, <2>3 DEF Told
<1>10. CASE Publish(p)
  <2>1. i \in Overtaken /\ (i \in excused => i \in excused')
    BY <1>3, <1>10 DEF Publish, Overtaken, IsOld, Lose, memory
  <2>2. inbox[i] > 0 => inbox'[i] > 0
    BY <1>0, <1>3, <1>10 DEF Publish
  <2>3. Unaware(p) = Instances \ {call[p].at}
    BY <1>10 DEF Publish, Unaware
  <2>4. i # call[p].at => inbox'[i] > 0 \/ i \in excused'
    BY <1>0, <1>3, <1>10, <2>1 DEF Publish, Lose
  <2> QED
    BY <1>2, <1>4, <2>1, <2>2, <2>3, <2>4 DEF Told
<1>11. CASE Fail(p)
  <2>1. i \in Overtaken /\ UNCHANGED inbox
    BY <1>3, <1>11 DEF Fail, Overtaken, IsOld, memory
  <2>2. (i \in excused => i \in excused') /\ (i \in Unaware(p) => i \in excused')
    BY <1>11, <2>1 DEF Fail, Lose
  <2> QED
    BY <1>2, <1>4, <2>1, <2>2 DEF Told
<1>12. CASE Interrupt(p)
  <2>1. CASE call[p].op = "get"
    <3>1. Unaware(p) = {}
      BY <2>1 DEF Unaware, LoadsAnnounceNothing
    <3>2. i # call[p].at /\ UNCHANGED << announced, inbox >>
      BY <1>0, <1>3, <1>12, <2>1, TieredAssumption DEF Interrupt, PutL1, IsOld
    <3>3. i \in Overtaken /\ (i \in excused => i \in excused')
      BY <1>0, <1>3, <1>12, <2>1, <3>2 DEF Interrupt, PutL1, IsOld, Overtaken
    <3> QED
      BY <1>2, <1>4, <3>1, <3>2, <3>3 DEF Told
  <2>2. CASE call[p].op # "get"
    <3>1. i \in Overtaken /\ UNCHANGED inbox
      BY <1>3, <1>12, <2>2 DEF Interrupt, Overtaken, IsOld, memory
    <3>2. (i \in excused => i \in excused') /\ (i \in Unaware(p) => i \in excused')
      BY <1>12, <2>2, <3>1 DEF Interrupt, Lose
    <3> QED
      BY <1>2, <1>4, <3>1, <3>2 DEF Told
  <2> QED
    BY <2>1, <2>2
<1> QED
  BY <1>5, <1>6, <1>7, <1>8, <1>9, <1>10, <1>11, <1>12

\* An overtaken entry of L1 has a message coming, unless the message was lost
\* or the entry was put too late.
THEOREM OvertakenIsToldOrLostHolds == Spec => []OvertakenIsToldOrLost
<1>1. Init => OvertakenIsToldOrLost
  BY TieredAssumption DEF Init, OvertakenIsToldOrLost, Overtaken, IsOld
<1>2. TypeOK /\ LoadsAnnounceNothing /\ OvertakenIsToldOrLost /\ [Next]_vars
      => OvertakenIsToldOrLost'
  <2> SUFFICES ASSUME TypeOK, LoadsAnnounceNothing, OvertakenIsToldOrLost, [Next]_vars
               PROVE  OvertakenIsToldOrLost'
    OBVIOUS
  <2>0. /\ l1 \in [Instances -> Versions \cup { None, Pending, Failed }]
        /\ inbox \in [Instances -> 0..MaxInbox]
        /\ call \in [Procs -> FiberCalls]
    BY DEF TypeOK
  <2>1. ASSUME NEW p \in Procs, NEW i \in Instances,
               \/ BeginGet(p, i) \/ BeginSet(p, i)
               \/ BeginInvalidate(p, i) \/ BeginRefresh(p, i)
        PROVE  OvertakenIsToldOrLost'
    <3>1. /\ \A q \in Procs \ {p} : call'[q] = call[q]
          /\ call[p].step = "idle" /\ UNCHANGED << inbox, announced >>
      BY <2>0, <2>1 DEF BeginGet, BeginSet, BeginInvalidate, BeginRefresh, Begin
    <3>2. Unaware(p) = {}
      BY <3>1 DEF Unaware
    <3>3. \A j \in Overtaken' : j \in Overtaken /\ (j \in excused => j \in excused')
      BY <2>0, <2>1, <3>1, TieredAssumption
      DEF BeginGet, BeginSet, BeginInvalidate, BeginRefresh, PutL1, Overtaken,
          IsOld, memory
    <3> QED
      BY <3>1, <3>2, <3>3, StillUnaware DEF OvertakenIsToldOrLost
  <2>2. ASSUME NEW i \in Instances, Deliver(i) \/ Evict(i)
        PROVE  OvertakenIsToldOrLost'
    <3>1. PutL1(i, None) /\ UNCHANGED << call, announced >>
      BY <2>2 DEF Deliver, Evict
    <3>2. \A j \in Overtaken' :
              j \in Overtaken /\ j # i /\ (j \in excused => j \in excused')
      BY <2>0, <3>1, TieredAssumption DEF PutL1, Overtaken, IsOld
    <3>3. \A j \in Instances \ {i} : inbox'[j] = inbox[j]
      BY <2>0, <2>2 DEF Deliver, Evict
    <3> QED
      BY <3>1, <3>2, <3>3 DEF OvertakenIsToldOrLost, Unaware, Overtaken
  <2>3. ASSUME NEW i \in Instances, Unsubscribe(i) PROVE OvertakenIsToldOrLost'
    <3>1. Overtaken' = Overtaken /\ UNCHANGED call
      BY <2>3 DEF Unsubscribe, Overtaken, IsOld, memory
    <3>2. \A j \in Overtaken :
              /\ j \in excused => j \in excused'
              /\ inbox[j] > 0 => inbox'[j] > 0 \/ j \in excused'
      BY <2>0, <2>3 DEF Unsubscribe, Lose, Overtaken
    <3> QED
      BY <3>1, <3>2 DEF OvertakenIsToldOrLost, Unaware
  <2>4. CASE \/ \E i \in Instances : Subscribe(i)
             \/ \E v \in Versions : LateStore(v)
             \/ Vanish \/ Change \/ UNCHANGED vars
    <3>1. UNCHANGED << l1, announced, excused, inbox, call >>
      BY <2>4 DEF Subscribe, LateStore, Vanish, Change, vars, memory, bus
    <3> QED
      BY <3>1 DEF OvertakenIsToldOrLost, Overtaken, IsOld, Unaware
  <2>5. CASE Tick
    <3>1. /\ UNCHANGED << announced, inbox >>
          /\ \A j \in Instances : l1'[j] = IF l1Left[j] = 1 THEN None ELSE l1[j]
          /\ \A j \in Instances : l1Left[j] # 1 /\ j \in excused => j \in excused'
      BY <2>5 DEF Tick
    <3>2. \A j \in Overtaken' : j \in Overtaken /\ (j \in excused => j \in excused')
      BY <3>1, TieredAssumption DEF Overtaken, IsOld
    <3>3. \A p \in Procs : Unaware(p)' = Unaware(p)
      <4>1. \A p \in Procs : /\ call'[p].op = call[p].op
                             /\ call'[p].step = call[p].step
                             /\ call'[p].at = call[p].at
        BY <2>0, <2>5 DEF Tick, FiberCalls
      <4> QED
        BY <4>1 DEF Unaware
    <3> QED
      BY <3>1, <3>2, <3>3 DEF OvertakenIsToldOrLost
  <2> QED
    BY <2>1, <2>2, <2>3, <2>4, <2>5, FiberTells DEF Next
<1> QED
  BY <1>1, <1>2, TypeCorrect, LoadsAnnounceNothingHolds, PTL DEF Spec
=============================================================================
