# A verification project for redfx

redfx is an Effect-TS client library for Redis. `packages/core` is the library: commands, typed
cells, streams, scripts, a cache with stampede protection, a rate limiter. It is written against one
small service, `Connection`. `packages/ioredis` and `packages/bun` implement that service on two
drivers. This directory holds TLA+ modules of the parts that keep state across steps, the TLC runs
that check them on small instances, and proofs that TLAPS checks for every value of the constants.

Paths below are relative to `src/packages/` unless they start with `src/`.

## 1. Inventory

### Components and how they interact

```
 user code
    |  RedisCache.make / makeTiered     RateLimit.make      streams.read / consume     ref, setOf, ...
    |          |   releaseLua                 |  lua                  |                     |
    |          +----------- Redis.script -----+                       |                     |
    |                            |                                    |                     |
    +--------------------- RedisService (core/src/Redis.ts): one command per Effect --------+
                                 |  send / pool                       |  dedicated / subscribe
                           Connection (core/src/Connection.ts), commandTimeout
                                 |                                    |
                        ioredis or bun driver                 a connection of its own
                                 |                                    |
                                 +--------------- Redis --------------+
```

Calls are concurrent fibers of one process, or of many processes. They share no memory except the
SHA that the calls of one script remember (`Redis.script`) and the L1 of a tiered cache. Everything
else is shared through Redis, which runs one command at a time. A command can fail before it
reaches Redis, after Redis has run it, or be cut short by `commandTimeout` or an interrupt while the
driver still sends it.

| Component (source) | State | Operations | What is hard | What makes it correct |
|---|---|---|---|---|
| `RedisCache.make` (`core/src/Cache.ts`) | entry and lock key in Redis; token, deadline and position of each call | get, set, invalidate, refresh | expiry against a running lookup, lost replies, late commands, crash of a holder, deadline against a late answer | one lookup at a time under the lock; nobody frees another's lock; locks do not leak; waiters are served or leave |
| `RedisCache.makeTiered` (same file) | L1 per instance, listener fiber, pub/sub channel | get, set, invalidate, refresh, listener | loads in flight while an invalidation arrives, messages lost while reconnecting, two clocks (L1 TTL, L2 TTL) | an instance is stale for a bounded time only; no resurrected value |
| `RateLimit` (`core/src/RateLimit.ts`) | one counter with a TTL per bucket | check | expiry of counters, bucket edges, rounding at the limit | no admitted check is forgotten while it counts; the bound; honest answers |
| `Redis.script` (`core/src/Redis.ts:1028`) | SHA in the closure; script caches of the servers | run | flushes, shared SHA, lost replies, resent commands, cluster routing | no execution beyond those the driver asks for; NOSCRIPT is repaired |
| Stream reader (`core/src/Redis.ts:320`) | last id, dedicated connection | read | drop with a reply on the wire, `$` resolved at each XREAD | no gap, no repetition, progress |
| Consumer groups (`core/src/Redis.ts:354`, `:1014`) | pending entries list, cursor | readGroup, consume, ack, claimStale | lost XREADGROUP replies, failing handlers and acks, claims by two consumers | at least once; nothing is pending for ever |
| Pool and command deadline (`core/src/Connection.ts`, `core/src/Redis.ts:550`) | slots, busy connections | acquire, release, invalidate | a connection that hangs, exhaustion | a bad connection is replaced; slots come back |
| Adapters (`ioredis/src/index.ts`, `bun/src/index.ts`) | sockets, queues of the driver | send, dedicated, subscribe | resent commands, half-open connections, routing without keys | the contract that core relies on |
| Typed cells and collections (`core/src/Redis.ts:612` on) | values and TTLs in Redis | get, set, update, add, ... | read-modify-write, TTL re-stamped by a second command | TTLs survive updates |
| Reply decoding (`core/src/internal/decode.ts`) | none | decoders | RESP2 and RESP3 shapes of one reply | both shapes decode alike |
| Command builders (`core/src/RedisCommand.ts`) | none | builders | floors of durations, optional arguments | arguments Redis accepts |
| Pub/sub (`core/src/Redis.ts:313`) | subscription | subscribe, publish | delivery at most once | (a part of the tiered cache) |
| Tracing, errors, values | none | - | - | - |

The hazards of this code, each at its line and with the properties that would catch it, are the
`hazards` of `PROJECT.json`. Those without a property have a note that says why.

### What is modelled now

| Component | Modules | Status |
|---|---|---|
| `RedisCache.make` | `StampedeCache`, `MCStampede`, `StampedeCacheProofs` | modelled, checked, proved |
| `RedisCache.makeTiered` | `TieredCache`, `MCTieredCache`, `TieredCacheProofs` | modelled, checked, proved |
| `RateLimit` | `RateLimit`, `IdealWindow`, `RateLimitWindow`, `RateLimitProofs` | modelled, checked, proved |
| `Redis.script` | `Script`, `MCScript`, `ScriptProofs` | modelled, checked, proved |
| Stream reader | `StreamTail`, `MCStreamTail`, `StreamTailProofs` | modelled, checked, proved |
| Consumer groups | `ConsumerGroup`, `AtLeastOnce`, `GroupWire`, `MCConsumerGroup`, `ConsumerGroupProofs` | modelled, checked, proved |
| Pool and command deadline | `Pool`, `PoolProofs` | modelled, checked, proved |
| Typed cells and collections | `Cells`, `TypedCell`, `MCTypedCell`, `GroupWire` (log), `CellsProofs` | modelled, checked, proved |
| Reply decoding | `Replies`, used by `TypedCell` and `GroupWire` | modelled, checked, proved with them |
| Command builders | `Durations`, `Commands`, used by `TypedCell` and `GroupWire` | modelled, checked, proved with them |
| Adapters | the clients in `Pool`; dedicated connections, subscriptions and routing in the modules that meet them | partly |
| Pub/sub | what `TieredCache` needs of it: delivery to whoever listens, loss on a drop | partly |
| Tracing, errors, values | | not modelled (section 8) |

How the modules build on each other:

```
Durations <- Replies <- Commands <-+- TypedCell (also EXTENDS Cells)          <- MCTypedCell
                                   +- GroupWire (also EXTENDS ConsumerGroup)  <- MCConsumerGroup
ConsumerGroup  implements AtLeastOnce        RateLimit  implements IdealWindow
```

## 2. The modules and the code

### StampedeCache

One key of a cache with stampede protection. Without `stampede` a get is a read, a lookup and a
store with nothing between the calls, so the module is about the protected path.

* Redis: `cached` (ticks the entry has left), `lockOwner` and `lockLeft` (the lock key). `GrantLock`
  is `SET key token PX ms NX`, `CompareAndDelete` is `releaseLua`.
* A call is a fiber and its token. `pc` is the step it takes next: `get` and `setnx` are `tryRound`,
  `granted` and `denied` are the reply of SET NX, `lookup` and `store` are `lookupAndStore`,
  `release` is the release of `acquireUseRelease`, `sleep` is `jitterSleep`, `timeout` is the
  `TimeoutError` of `onTimeout: "fail"`. `role` says why it looks up: as the holder of the lock, or
  `free` (a degraded waiter, or `refresh`). `wait` counts down to the deadline. `timer` is what is
  left of a sleep, of a round of commands (GET and SET NX: `MaxRound`) or of the store and the release
  (`MaxFinish`). A sleep takes half a `PollInterval` to one and a half, as `jitterSleep` does: `Wake`
  ends it at any time between `MinSleep` and `MaxSleep`.
* `Finish` is what `acquireUseRelease` does when the use ends in any way: a holder releases.
* The environment: `RedisFails` (connection error or command timeout), `Resend` (the driver
  reconnects and sends SET NX again), `Interrupt` (the acquire and the release are
  uninterruptible), `Crash`, `Write` (set and invalidate from anywhere). A write whose caller has
  left stays in `orphans` and may reach Redis at any later time (`RunOrphan`). `Events` says which
  of these may happen, and `faulted` is history: it is set by the first of them that is a fault
  (`RedisFails`, `Resend`, `Crash`, a stall), so that a property can say what holds until then.
* `Tick` is the unit of time. Deadlines are kept as what is left of them, so there is no clock. No
  tick passes a lookup that has used up its `MaxHold`, or, unless Redis `stall`s, a sleep or a command
  whose `timer` is over: all of them may take any time up to their bounds.

Values are not modelled: the protocol never looks at them. What a late store does to a newer value
is a question `TieredCache` asks.

### TieredCache

One key, an L1 in each process, one L2 entry in Redis, and an origin whose value changes. A value is
the version of the origin it was read from.

* `origin`, and `age` (ticks since a version was replaced): what `options.lookup` reads. `l2` and
  `l2Left` are the entry in Redis; `late` holds the SETs whose caller has gone.
* `l1`, `l1Left`: Effect's `Cache`, which is a library, so its operations are external. A slot is
  empty, a pending load, a value or a failure. A get that finds an empty slot puts a pending load
  there (`BeginGet`). When the load ends it overwrites whatever the slot holds by then (`Put`), also
  after an invalidation has emptied it. A get that hits, or joins a pending load, changes nothing.
* `call` is the handle a fiber runs and how far it is. get: `read`, on a miss `lookup` and `store`,
  then `put`. set: `store`, `put`, `publish`. invalidate: `del`, `drop`, `publish`. refresh:
  `lookup`, `store`, `put`, `publish`. A set carries the value that the origin has when it begins.
* `listening` and `inbox`: the listener fiber of each instance. `Publish` reaches those whose
  subscription is up. `Deliver` drops the L1 slot. `Unsubscribe` loses the messages on the
  connection; `Subscribe` is the first subscription and each retry, and drops nothing.
* `Fail` ends a call at any command: a get leaves a failure in L1, a failed PUBLISH is ignored.
  `Interrupt` takes a pending slot away. `Vanish` is a delete by anyone or an eviction by Redis,
  `Evict` is `memory.capacity`, `Change` is a write to the origin that does not tell the cache.
* `announced` and `excused` are history: the latest version a cache write has put into Redis, and
  the instances whose old entry is explained by a lost message or by a call that put it late.

The module is about `stampede: false`. The lock serialises lookups and adds no write to either
tier. With it a get also waits and reads L2 again before it goes on, so `MaxHold`, the time a call
may take, then includes the wait for the lock.


### RateLimit, IdealWindow, RateLimitWindow

The Lua script is one atomic step, so a check is one action whoever sends it; the clock is the other
one. Everything is multiplied by the window, which keeps the arithmetic in the integers and exact.
`count` and `expireAt` are the keys; `admitted` is a history variable that never forgets.
`IdealWindow` is the promise: a sliding window counter that remembers every bucket. `RateLimit`
implements it (`RefinesIdeal`): expiry never changes an answer. `RateLimitWindow` adds the log of
the checks admitted, each by its second and its number in its bucket, for windows that start
anywhere.

### StreamTail

One `streams.read`. `lastId` is `lastIdRef`, which lives outside the retried stream. `conn` is the
dedicated connection: `down`, `idle`, `blocked` in an XREAD, or with a reply on its way. `Read` is
where Redis resolves `$`; `Timeout` is the empty reply of BLOCK; `Deliver` sets the last id and
emits the chunk; `Drop` loses the reply, and `Connect` is the retry. An entry is its position in the
stream. Each start in `Seeds` is an initial state. `begun` (the last id of the stream when the first
XREAD reached Redis) and `gap` (an entry fell where a live tail cannot see it) are history.

### Script

The calls of one script and one key share `cachedSha`. `Load` is SCRIPT LOAD: it names no key, so in
a cluster it goes to any node, while `Eval` (EVALSHA) goes to `Home`, the owner of the key.
`NoScript` is the fallback, once; every other failure ends the call (`AfterError`). `Disconnect`
loses the command or its reply. `Resend` is the client of ioredis, which reconnects and sends a
command without a reply again (`ioredis/src/index.ts:46-52`): the call does not see it, and its
script may run once more. `adapter` is chosen in the initial state; the client of bun sends nothing
again. `runs` and `resent` are history. `Flush` empties a server's script cache.

### ConsumerGroup, AtLeastOnce

One stream, one group, consumers that run `consume`, and a claimer that repeats `claimStale`,
handles what it gets and acks it. The claimer is the user's recovery loop; the library has one round
of it.

* Redis: `start` and `last` are the group (the id it was created after, the last id it has
  delivered), `owner` and `idle` its pending list. `ReadGroup` is XREADGROUP with `>`, `RunAck` is
  XACK, which asks for no owner, `Claim` is XAUTOCLAIM from `0-0`: the cursor of its reply is dropped
  (`claimStale` returns entries only), so every round starts from the front.
* A worker: `pc` is what it does (`create`, `connect`, `read`, `reply`, `handle`, `ack`, or `off`),
  `batch` is what is left of its chunk, `spent` the ticks of the handler that runs.
* `EnsureGroup` is outside the retry: when it fails the stream ends. `Drop` is inside: the reply is
  lost with its entries pending, and `Connect` goes on with `>`. `DecodeFails`, `Fail`, `AckFails`
  and `Stop` end the stream of a consumer with the rest of its chunk delivered and unhandled.
  `Begin` runs it again.
* `Poison` are the entries whose message never decodes. `handled` and `unacked` are history.
* An empty reply of BLOCK changes nothing and is a stutter.

`AtLeastOnce` is the promise: entries are handled any number of times, settled only after a handler
succeeded, and for good. `ImplementsAtLeastOnce` maps `settled` to the entries the group has
delivered and nobody has pending.

### Pool

`pooledConnection` under `timeoutConnection`, over the clients of both adapters. `adapter` and
`deadline` (is `commandTimeout` set) are chosen in the initial state.

* `link[s]` is the connection in slot `s` (with `none` and `refused` for a slot without one),
  `user[s]` the caller that holds it. `promises[s]` are the commands that wait for a reply in the
  client, `sent[s]` those on the socket, `replies[s]` the replies on their way back. The client knows
  only the order: `Receive` settles the first promise with the first reply.
* A call waits for a connection, sends one command or a pipeline, and ends with its last reply;
  bun's pipeline (`Promise.all`) ends with its first error (`FailsAtOnce`), which leaves promises.
* `Timeout` and `Interrupt` give the slot back and leave promises and commands where they are. Only
  `Invalidate`, on a `ConnectionError`, removes a connection.
* `SocketCloses`: the client of bun closes for good; the one of ioredis goes `down`, and `Reconnect`
  sends the commands without a reply again, `AbortPipeline` fails a pipeline that was answered in
  part, `Reject` and `GiveUp` are its retry limits. `Hang` is a peer that says nothing; `Detect` is
  the keepalive, or the operating system.

### Cells

One key of a `ref`, `setOf`, `sortedSet` or `hashOf`, and its lifetime. `content` maps items to
payloads; `left` is the time the key has left. A ref writes with one SET that carries the lifetime;
its `update` is a GET (`UpdateRead`) and a SET (`UpdateSet`). A collection writes (`Write`) and then
stamps the key with EXPIRE (`Stamp`). `todo` is the second command that a fiber has yet to send;
`Abandon` is when it never does. `Lose` is what a removal, a delete or an expiry does to the key and
to the fibers in between. `Spoil` is another client that writes what the schema rejects. `bare` is
history: why the key may have no lifetime.

### Durations, Commands, Replies

Pure operators. `Durations`: the roundings of `RedisCommand.ts` and `consumerBlock`, over durations
in units that are neither whole milliseconds (two units) nor whole seconds (four, scaled down).
`Commands`: the builders that branch, round or order their arguments, as sequences of words, and what
Redis reads in those words. `Replies`: every decoder of `decode.ts`, and the reply that a server gives in RESP2 and in RESP3. A DecodeError is the empty
sequence. A text that spells an integer is that of one in `Numerals`, which holds all integers that
the instance meets; `NumeralsAssumption` says that different integers have different texts, and that
none is the text of an infinity. Infinities are integers beyond the numerals, the value of the
constant `Infinity`. `ScalarFields` is the loop of `decodeInfoRecord`: the last entry of a name wins.

### TypedCell, GroupWire

The wire under two state machines, evaluated in each of their reachable states. `TypedCell` (over
`Cells`) has the methods of the service and of the cells as compositions of decoders; `GroupWire`
(over `ConsumerGroup`) those of streams, groups and the stream log. `ReadsAreTrue` and
`RepliesAreTrue` say that what a method makes of the reply is what Redis holds, in both protocols.
`CommandsSayIt` and `RequestsSayIt` say that Redis reads in the words of a command what the call
means. Members of a sorted set with equal scores may come in any order: `Orders` has all the
listings a server may give. A schema is reduced to texts that decode to themselves and one that does
not decode. `InOrder` is the order in which XPENDING lists entries. `WireAssumption` says that the
ids, counts and milliseconds a command carries are numerals, so that they have a text.

## 3. The runs

| Run | Question | Answer |
|---|---|---|
| `stampede_holds` | Under every event at once, with lookups that may outlast the lock: can two calls look up under the lock, can a call free a lock that is not its own, can a lock leak or a waiter time out without a fault, is every lock given up and does every get end? | Two calls look up only when one has outlasted its lock; no; no; yes and yes. |
| `stampede_compute_once` | Is a cold key computed once? | No (finding 1). |
| `ratelimit_holds` | Do the counters live as long as they are read? How much does any window admit? Are the answers honest? Does it implement the ideal window? | Yes; at most (2 - 2/Window) * max; yes; yes. |
| `ratelimit_across_edge` | Does any window admit at most max? | No (finding 3). |
| `tiered_holds` | Whatever is lost, late or interleaved, how old can a value in an L1 be? Does an entry that a write overtakes always have a message on its way, or a lost one? | At most `Ttl + MemTtl - 2 + 2 MaxHold` ticks after the origin replaced it; yes. |
| `stream_holds` | Across drops and timeouts, is every entry emitted once, in order, and in the end? Where does a reader start? | Yes for an explicit start; a live tail starts with the first entry added after it began unless one fell between two XREADs, and then keeps up. |
| `stream_live_tail` | Does a live tail on a connection that never drops miss nothing? | No (finding 4). |
| `script_single` | On one server, how often can a script run in one call, and can NOSCRIPT reach the caller? | Once on bun; on ioredis once more for each time the client sends its EVALSHA again; only through a flush during the call. |
| `script_cluster` | Does the fallback repair NOSCRIPT in a cluster? | No (finding 2). |
| `group_holds` | Through drops, failing handlers, lost acks, restarts and claims: is an entry settled unhandled, or handled again without need? Is everything that decodes acknowledged in the end? Do commands and replies say what they should? | No; only after a success whose ack was lost; yes; yes, in RESP2 and RESP3. |
| `pool_holds` | On either adapter, after deadlines, interrupts, failed pipelines, drops and hung peers: can a caller get another's reply, can a slot leak, can a broken connection stay, how often does a command run, does every call end? | No, no, no; once on bun, once more per fault on ioredis; yes, unless bun waits without a deadline for a peer that is gone. |
| `cell_holds` | When can a key with a configured lifetime have none? Does an add that succeeds leave its item for that long? Do the reads and commands of a cell say what they should? | Only between the two commands of a write, when the second never ran, or after `keepTtl` on a missing key; yes; yes, in RESP2 and RESP3. |

Each property of a passing run has a mutant of the code that breaks it (a SET without NX or PX, a
plain DEL for the release, a use without release, EXPIRE for one window, `est > max`, a last id that
is reset by a drop, a retry after any error, an ack before the handler, a decoder that knows one of the
protocols, promises that are forgotten with their caller, ...). The mutants stand next to the definitions they
change and are marked as such; no specification uses them.

### Bounds, and why they are enough

* Calls: two, the holder and the one that waits for it, overtakes it or frees its lock: every
  property about calls relates two of them. A chain of three holders takes three calls, and the
  theorems of section 4 are about any number. Calls run once, so the number of gets is bounded too.
* `LockTtl`, `WaitTimeout`, `Ttl`, `MaxHold` and the other times are in ticks. `PollInterval` = 2, so
  that a sleep takes one tick to three; `MaxRound` = `MaxFinish` = 1. In `stampede_holds`
  `MaxHold` = `LockTtl` = 2: a lookup may outlast its lock, and TLC then finds two holders at once
  (without `InTime` in `SingleFlight`). The wait of 4 is tight: with 3 TLC finds a waiter that times
  out without a fault. `EnoughWait`, which the theorem assumes, asks for 6 here (one turn of 8 ticks,
  less than the wait and a last sleep of 3), because it takes the worst of every step at once. All
  184,458 states are searched, and a waiter past its deadline either gives up or computes
  (`OnTimeouts`), as if the callers were configured differently.
* `Horizon` = 15 with a window of 4 is almost three buckets after any start: a check reads two. The
  window has 4 phases and max = 3 does not divide it, so the weights are not whole numbers.
* `MaxEntries` = 5, `Count` = 2: a backlog of several replies. `MaxDrops` = 2: a drop while
  recovering from a drop. The starts are `$`, 0 and 2.
* `TieredCache`: two instances and two fibers are a writer and a reader, or two writers; the third
  call is the one that fills an L1 beforehand. Two versions are the old and the new one. `Ttl` = 2
  and `MemTtl` = 1, so that the lifetimes differ; `MaxHold` = 1, so that a
  tick may pass inside a call. `MaxInbox` = 2 holds a message of each writer. The bound of
  `Staleness` is tight here: with one tick less TLC finds a value that is older.
* `MaxFlushes` = 3 with three calls: a flush before, during and after the fallback of each.
  `MaxResends` = 2: an EVALSHA that is sent again before the fallback and after it.
* The runs of the findings are as small as their counterexamples; in `stream_live_tail` nothing drops.
* `ConsumerGroup`: two consumers, three entries of which the first never decodes, `Count` =
  `ClaimCount` = 2, one fault; 124,132 states. A chunk of two is what a failing handler leaves half
  done; a claim of two is one more than the poison entries, which is tight: with `ClaimCount` = 1 TLC
  finds entries that are never acknowledged. `MinIdle` = 3 > `Count * MaxHandle` = 2 is tight too:
  with 2 the claimer takes an entry that is being handled. The group is created at `$` and at 0.
* `Pool`: one slot, two callers, two calls of one or two commands, three faults; 179,263 states. Two
  callers of one connection are who left promises behind and who meets them; three faults are a drop,
  a drop after the reconnect and an interrupt. Two slots, and three calls, passed as well and are
  left out of the run for their time.
* `Cells`: two fibers, a cell of each kind with two items, no lifetime or one and a half seconds (six
  units, which no floor keeps), a write option of one unit; 23,353 states. Scores include both
  infinities. A key with two items loses one without going away.
* `Blocks` and `Idles` are undefined and 0 to 3 units: nothing, half a millisecond, one, one and a half.

`CHECK_DEADLOCK FALSE` is set where a bound stops the system (the clock at `Horizon`; all calls of
a script over and no flush left; all calls of the pool over and no fault left). In the others time
and Redis never stop.

### Fairness

* `StampedeCache`: each call's own steps and the clock. The fiber runs, a sleep ends, the lookup
  returns, Redis answers and time passes. Nothing is assumed of failures, crashes or orphans. A crashed process
  takes no more steps because its call is over.
* `StreamTail`: the retry never gives up (`Stream.retry` with a schedule that ends only on an error
  other than `ConnectionError`), the reader sends its next XREAD, Redis answers and the reply
  arrives. Appends, timeouts and drops are not fair; drops are bounded, since a connection that
  drops for ever delivers nothing.
* `ConsumerGroup`: consumers whose stream ended are run again, the claimer claims again and again (the
  user's part, see src/README.md:200-205), Redis answers, handlers end, time passes. Appends and
  failures are not fair, and failures are bounded.
* `Pool`: strong fairness of taking a connection, because Effect's pool serves its waiters in order
  while the slot comes and goes; weak fairness of the clients, of Redis, and of a configured
  deadline. `Detect` is fair on ioredis only, whose adapter sets `keepAlive`
  (`ioredis/src/index.ts:51`); bun's client has none (src/README.md:197).

## 4. What is proved

All theorems are checked by TLAPS without any unproved leaf, for every value of the constants that
satisfies the named assumptions.

**StampedeCacheProofs.** `TypeCorrect` needs only `ConstantsAssumption`.
`SingleFlightHolds` says that of two calls that look up under the lock at once, one has outlasted
its lock. `SingleFlight` alone is not inductive, since it says nothing of the lock. The invariant
`SingleFlightInv` (`LockOutlivesLookup`) is: a call whose lookup is `InTime` has its token at the lock
key, and the lock has all of its lifetime that the lookup has not used; and a command without a caller
belongs to a call that is over or releasing, so its token matches no holder's. The theorem covers every event: crashes, lost
replies, resent acquires, late commands, stalls. `OneLookupAtATime` is what follows for a user who does
as Cache.ts:16 asks (`MaxHold < LockTtl`): at most one lookup at a time. `OnlyOwnerFreesLock` assumes
nothing either: the lock changes hands by expiry or by the owner's token.
`NoLockLeaks` says that interrupts and failing lookups leave no lock behind until the first fault (with
`NoLeakInv`: the owner is a holder, and no acquire is an orphan).
`NoWaiterTimesOutHolds` assumes what `StampedeOptions` (Cache.ts:17-19) leaves to the user:
`EnoughWait`, that the wait covers one `Share` for each other call, less the
sleep that may begin before the deadline and end after it. It says that nobody times out before the
first fault; a lookup may outlast its lock, and then holds nobody back any more. A share is a lookup (`MaxHold`), the store and the release (`MaxFinish`), and the `Gap` until
the waiter asks again: a sleep that has just begun, one and a half poll intervals, between the round
that was denied and the one that is not. Lookups may fail and callers may be interrupted. The invariant
`PatienceInv` counts by sets, so that it holds for any number of calls: `Turns` is the set of ticks for
which the others may still hold a waiter back, a whole share for each that has not had the lock
(`Budget`) and what is left of the present one; `Delay` is what the waiter needs to ask for a free lock.
Together they stay below what is left of its wait and one more sleep and round. A tick of time takes
one from both sides (`TurnsPass`): while the lock is held it takes one from the holder's budget, and
while it is free one from the delay, which the holder's budget paid for when it gave the lock back; and
a call that has had its turn never takes another. Whoever is denied has time left (`DeniedHasTime`): while
the lock is held the owner's budget is a gap at least, and once it is free the delay counts the sleep
and the round that the right side allows for.

**RateLimitProofs.** For every window and every limit of at least 1. `CounterInv` ties each counter
to the history and its expiry to the end of the next bucket. From it follow `RemembersRecentHolds`
(the two counters that a check reads are exact), and `ImplementsIdeal` (a refinement with the
identity on the clock and the history, and the same answer). `WeightedBoundHolds` is the bound the
algorithm is named for: at every second, not only at a check, the weighted estimate is within the
limit; the step that needs care is the roll of the bucket, where the full bucket becomes the
previous one. The lemmas on `\div` and `%` (`BucketOfSecond`, `NextSecond`, `BucketsAreOrdered`)
are proved from their definition.
`SlidingBoundHolds` is about windows that start anywhere. `LogInv` ties the log to the counters:
the numbers of the checks of one bucket are exactly 1 to its count, so a bucket's share of the log
is counted by its numbers (`BucketIsCounted`). A window meets two buckets at most
(`WindowIsTwoBuckets`), so what is in it is the present bucket and the end of the one before; the
last check that the present bucket admitted weighed all of that end, and `WeighedWindow` does the
arithmetic, with one lemma for each of the two places where the bucket may start.

**TieredCacheProofs.** For any number of instances, fibers and versions and any lifetimes
(`TieredAssumption`). `Staleness` is not inductive: it speaks of L1 only. `AgesAdd` gives each place
a version can be in its share of the bound: a call that has looked up has at most `MaxHold` less
what it may still take; an L2 entry at most `Ttl + MaxHold` less what it has left; a call that read
L2 at most what L2 allows and its own `MaxHold`; an L1 entry the bound less what it has left. Each
hand-over fits: an age and a time left move in opposite directions with each tick, and a copy starts
with the share its origin had left. `StalenessHolds` follows. `OvertakenIsToldOrLostHolds` says that
pub/sub is complete up to loss: no interleaving of writes, loads, deliveries and reconnects leaves a
resting L1 entry that a write has overtaken with nobody to tell it. Its invariant adds that a load
(`get`) never reaches the publishing steps.

**ScriptProofs.** `RunsInv` bounds the runs of a call by its position: before EVALSHA has answered,
each run was followed by a resend; the answer, or a failure, adds one. `ExtraRunsAreResendsHolds`
follows for any number of calls, nodes and resends, and says "once" for bun.
`NoScriptOnlyIfFlushedHolds` assumes one server (`Nodes = {Home}`): after a load the script is
there unless a flush came, so a second NOSCRIPT needs a flush during the call. `TypeCorrect` is type
correctness.

**StreamTailProofs.** For any starts, counts and numbers of drops. `TailInv` adds to the two
properties where the reader stands: `lastId` is the last id emitted or the start, an XREAD with an
id reads after it (`CursorInv`), and a live tail that missed nothing has seen all up to `begun`
(`LiveInv`). `ContiguousHolds` and `StartsWhereAskedHolds` follow; the work is in what a chunk makes
of the sequence of emitted ids (`ChunkProperties`).

**ConsumerGroupProofs.** For any consumers, options and undecodable messages. `GroupInv` is `LogInv`
(what is pending was handed out), `WorkersInv` (a worker holds only entries that were handed out,
and acknowledges one that was handled) and `AckedIsHandled`. It is inductive, and
`ImplementsAtLeastOnceHolds` is the refinement: the actions map to `AppendEntry`, `Handle`, `Settle`
or a stutter; an EnsureGroup may settle nothing because nothing is handed out yet, and a claim
settles nothing because what it takes stays pending. `RepeatedOnlyIfUnackedHolds` assumes
`Room * MaxHandle < MinIdle`, where `Room` is the larger of `Count` and `ClaimCount`. Its invariant
`RepeatInv` says that each entry a worker holds is pending for that worker, held once, and idle for
at most the worker's budget (`HeldInv`), and that a success is followed by an ack or counted
(`CountInv`). The budget grows by `MaxHandle` with each entry that is finished, so no held entry can
be stale: a claim takes entries from nobody who still works on them.

The wire of a group is proved from `GroupInv` and `WireAssumption`. `RepliesAreTrueHolds` goes decoder
by decoder: `RowsReply` and `SummaryReply` for XPENDING, `EntriesDecode` and `ReadsDecode` for the chunks
of XREADGROUP in the shapes of both protocols, `ClaimDecodes` for XAUTOCLAIM with two elements or
three, `InfoReads` for XINFO, `PageTrue` for a page of the log, which fails as a whole as soon as one
message does. The summary of XPENDING names the first and the last pending id, so it needs that a set
of entries has a listing in order (`Listed`). Induction is out of the prover's reach, but a least
counterexample is not: if some set has no listing, there is a least id `m` up to which its entries
have none (`LeastOf`), and `m` at the end of a listing of those before it gives one (`OneMore`).
`RequestsSayItHolds` reads each command from its words: the options one after the other
(`GroupRead`, `TailRead`), the keys and ids after STREAMS (`StreamsRead`, `TwoStreamsRead`), the
roundings of BLOCK and of the idle time (`BlocksAWhile`, `IdleMillis`), the mirrored bounds of
XREVRANGE (`RangesMirror`).

**CellsProofs.** For any kinds, items, payloads, lifetimes and fibers. `CellInv` adds to
`NoKeyStaysForever` that a fiber which is to stamp has its item in the key or knows that it went away
(`StampInv`). `StampedInFullHolds` also needs that EXPIRE rounds up (`LifetimeCovers`).

The wire of a cell is proved as well, for every content a key can have: any number of members and
fields, any scores, both protocols. `TypedCellAssumption` says what it needs: finitely many items, and
a text for each score and for each lifetime in seconds and milliseconds. `ReadsAreTrueHolds` goes
from the inside out: a number is read back from its text (`NumeralText`, `ScoreTexts`); a list decodes
when each element does (`AllOk`, `AllFail`); pairs are read back from the flat list of RESP2
(`FlatAndBack`) and a record from any list of its fields (`RecordListed`, `RecordReplies`); then each
kind of cell (`RefRead`, `SetContentRead`, `ZsetRead`, `HashRead`). `CommandsSayItHolds` likewise:
`PairsAsWords` for ZADD and HSET, `SetRead` for the options of SET. Both need of the state that what
a key holds is a function with the scores of the calls (`ContentInv`), the second that an EXPIRE to
come asks for a lifetime that a call or the cell has (`AskedInv`). Both are kept by every step.

**PoolProofs.** For any callers, slots and lengths of pipelines, on both adapters. `PoolInv` is the
line of each connection (promises = replies in flight, then commands on the socket), the callers with
their slots, and that a failed connection has neither a link nor a user. `AnswersAreOwnHolds`,
`SlotsBalanceHolds` and `BrokenIsRemovedHolds` are its parts. The argument is in the actions that
move the line: a pipeline is appended to both of its ends, a reply goes from the front of both, and a
reconnect sends what has no reply (`AbortPipeline` first removes what was answered in part).
For `LeftoversAreExplainedHolds`, `LeftInv` says that the last `left` promises of a taken connection
are its user's, and all before them are of calls that are over as the property says: a slot is given
out again with what its last user left, so this is kept only because no other end of a call leaves a
promise behind.
`RunsAreBoundedHolds` is about how often a command runs. `RunsInv` says that a command waits in one
place only, once (`Single`); that what is on a socket has run at most once for each fault so far,
and never on bun; that where the link is hung or down so has all that waits, because the fault that
stopped it is counted already; and that the first command of a call with a connection ran or waits.
A reconnect moves the line back to the socket, and so uses up a fault. A call that ends well has left
nothing on the line (`LeftInv`), so its first command ran.

Two properties of `RateLimit` rest on invariants of their own. `RemainingIsHonestHolds`: no answer is
from the future, and within its second the next check reads the counter the answer left. For
`RetryBoundHolds`, `RetryInv` says that a denial's `at + resetAfter` is the start of the next bucket
and nothing is admitted from there on, so the weight of the full bucket only falls
(`OneCheckFades`).

### Only model-checked

Every invariant and every action property of the passing runs is a theorem. TLC alone has shown:

* `LockIsFreed`, `GetEnds`, `AllDelivered`, `FollowsTheStream`, `EveryEntryIsAcked`, `SendEnds`:
  liveness under fairness, which the prover does not reach (it has no ENABLED).
* The counterexamples of section 5.

## 5. Findings

Disagreements between a text of the repository and its code, each with a run that shows it.

1. *A cold key may be computed twice* (`stampede_compute_once`). The acquired branch does not read
   the entry again (`core/src/Cache.ts:132`). A call that missed before the store and whose SET NX
   runs after the release computes again. src/README.md:242-245 says "once" and "strict
   single-flight".
2. *The NOSCRIPT fallback is not enough in a cluster* (`script_cluster`). SCRIPT LOAD names no key
   and may reach a node other than the one EVALSHA asks (`core/src/Redis.ts:1039`). src/README.md:146
   and :361 promise the fallback and the cluster.
3. *A burst across an edge of the window may exceed max* (`ratelimit_across_edge`).
   `core/src/RateLimit.ts:26-27` and src/README.md:289-290 say that it stays bounded by max. The code
   weighs the earlier bucket as if its checks were spread evenly (`core/src/RateLimit.ts:39`): with window 4
   and max 3, three checks in the last second of a bucket and one in the third second of the next are
   admitted, four in four seconds. `SlidingBound` is what holds.
4. *A live tail may miss an entry on a healthy connection* (`stream_live_tail`). `$` is resolved anew
   by each XREAD, so an entry added between one that timed out and the next is not read.
   `core/src/Redis.ts:335-336` says that a timeout misses nothing; src/README.md:195-196 admits a loss
   only at a reconnect. `StartsWhereAsked` has `gap` for both.

Observations that the models brought up, where a property states what does hold:

* `resetAfter` is too short as a `Retry-After`, which `core/src/RateLimit.ts:16` calls it. It is the time
  until the bucket rolls (`core/src/RateLimit.ts:40`), and the bucket that denied a caller weighs in full
  when it becomes the previous one: with window 4 and max 3, a caller denied in second 0 is told 4 and
  denied again in second 4, though nobody was in between. `RetryBound` says how much longer it takes.
* L1 may serve a value that Redis has expired, also when `memory.ttl <= ttl`, which src/README.md:280 and
  the warning at `core/src/Cache.ts:218-222` give as the remedy: an L1 entry lives for `memory.ttl` from
  its load (`core/src/Cache.ts:230`), however little its source had left. `Staleness` says what holds: the
  lifetimes add up.
* A script may run twice in one call that succeeds: ioredis sends an EVALSHA without a reply again
  (`ExtraRunsAreResends`). A rate limit check then counts twice; a release does no harm.
* A connection that hangs stays in the pool after a TimeoutError, and the next calls meet it
  (`SendEnds` says that they end).
* `ref.update` may bring a deleted key back, and with KEEPTTL a key that expired comes back for ever;
  so does any write with `keepTtl` to a missing key. `NoKeyStaysForever` names these cases.
* A handler runs again after a success whose XACK was lost (`RepeatedOnlyIfUnacked`): handlers must be
  idempotent, which at-least-once implies.
* `claimStale` with a count of n claims the same entries for ever when n messages at the front never
  decode (`EveryEntryIsAcked` needs fewer).
* A pipeline of ioredis whose first error is that of a command hides a later `ConnectionError`, so
  the connection stays in the pool (`RejectCalls`). Its client reconnects by itself, or is closed and
  removed by its next user.

## 6. What the models leave out

* The contents of values, messages and keys, except where a property is about them; Schema coding;
  tracing; the wording of errors; connecting and closing; the shutdown of the pool.
* The rounding of doubles in the rate limiter, and a server clock that steps back.
* `commandTimeout` inside the uninterruptible acquire and release (`core/src/Cache.ts:132-136`), where
  Effect may let the command go on past its deadline. `Pool` takes a deadline to end its command.
* Eviction by Redis (`maxmemory`) of locks and counters: it may drop one at any time, and no property
  of a lock or a counter survives it.
* A fault of Redis that loses acknowledged writes (a failover): the same holds.
* Trimming or deletion of the stream or the group under a reader (NOGROUP ends a consumer); an XACK
  that runs after its sender is gone; `consume` on a connection whose peer is gone without a keepalive
  (src/README.md:197), where nothing happens until the socket closes.
* A cached key named `lock:k`, which collides with the lock of `k`: listed as a hazard.
* Records with a field `__proto__`, which JavaScript objects treat specially.

## 7. Plan

Done:

1. `StampedeCache` - safety, ownership, leaks, liveness. Proved: type, single flight, ownership, leaks,
   patience.
2. `RateLimit` with `IdealWindow`. Proved: type, counters, weighted bound, honesty, retries, refinement.
3. `RateLimitWindow` - windows that start anywhere. Proved: the sliding bound.
4. `Script` - one server and a cluster, both drivers. Proved: type, runs, NOSCRIPT.
5. `StreamTail` - explicit and live starts. Proved: type, order, starts.
6. `TieredCache` - two instances over one Redis. Proved: type, staleness, invalidation up to loss.
7. `ConsumerGroup` with `AtLeastOnce`. Proved: type, refinement, repetition.
8. `Pool` - both adapters. Proved: type, answers, slots, broken connections, leftovers, runs.
9. `Cells` - lifetimes under two-command writes. Proved: type, lifetimes.
10. `Durations`, `Commands`, `Replies` - the wire of 7 and 9 in both protocols. Proved: both.

Left, in this order:

11. Two keys of one prefix, `k` and `lock:k`, over `StampedeCache`.
12. The estimate of the rate limiter in doubles, as an interval around the exact one.
13. Pub/sub on its own: several channels, and messages that do not decode.

Related questions about one component share a run, so that the list of runs stays a list of
questions.

## 8. Not modelled, and why

Tracing (`withSpan`), `RedisError` and `RespValue` are declarations. `connect`, `close`, URLs, TLS, the
encoding of arguments and the mapping of driver errors are I/O of the drivers, of which only the
outcomes matter to core, and those are the events of the modules. Builders that only put a name
before their arguments (GET, TTL, SREM, ...) have no decision to model. Decoding of pub/sub messages
is one Schema call per message.

## 9. Running

In this directory:

```
tlc -workers 2 -config StampedeHolds.cfg MCStampede.tla
tlapm StampedeCacheProofs.tla
```

`PROJECT.json` lists every run with its module and configuration, every theorem, the mutants, and
for each definition the lines of the source that it models.
