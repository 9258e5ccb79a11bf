--------------------------- MODULE ConsumerGroup ---------------------------
(***************************************************************************)
(* A consumer group over one stream: consumers that run `consume`          *)
(* (core/src/Redis.ts:1014-1023 over readGroup, :354-384), and a claimer   *)
(* that recovers what they leave pending with claimStale (:385-391).       *)
(*                                                                         *)
(* An entry is its position in the stream. The group of Redis is the last  *)
(* entry it has delivered, and for each entry the owner that has not yet   *)
(* acknowledged it, with the ticks since it was delivered.                 *)
(***************************************************************************)
EXTENDS Integers, Sequences

CONSTANTS
    Consumers,     \* names of the consumers, each run by one process
    Claimer,       \* the consumer name of the claimer
    Froms,         \* values of options.from: Live ("$"), or an id
    Poison,        \* entries whose message the schema rejects
    Count,         \* options.count of readGroup
    ClaimCount,    \* options.count of claimStale
    MinIdle,       \* options.minIdle of claimStale, in ticks
    MaxHandle,     \* ticks from the start of a handler to its ack
    MaxEntries,    \* bound: entries appended
    MaxFaults      \* bound: failures, drops, interrupts

Live == -1
Nobody == "nobody"
Workers == Consumers \cup {Claimer}
Entries == 1..MaxEntries

ASSUME GroupAssumption ==
    /\ Claimer \notin Consumers /\ Nobody \notin Workers
    /\ Froms \subseteq Nat \cup {Live}
    /\ Count \in Nat \ {0} /\ ClaimCount \in Nat \ {0}
    /\ MinIdle \in Nat \ {0} /\ MaxHandle \in Nat
    /\ MaxEntries \in Nat /\ MaxFaults \in Nat

VARIABLES
    appended,   \* Redis: the last id of the stream
    from,       \* options.from of the consumers
    start,      \* Redis: the id the group was created after, or NoGroup
    last,       \* Redis: the last-delivered id of the group
    owner,      \* Redis: who has an entry pending, or Nobody
    idle,       \* Redis: ticks since an entry was delivered, to MinIdle
    pc,         \* what each worker does
    batch,      \* the entries of its reply that it has not finished
    spent,      \* ticks its handler has run
    handled,    \* history: how often a handler of an entry succeeded
    unacked,    \* history: how often a success was followed by no ack
    faults      \* failures so far

redis == << appended, from, start, last, owner, idle >>
workers == << pc, batch, spent >>
history == << handled, unacked >>
vars == << appended, from, start, last, owner, idle, pc, batch, spent, handled, unacked, faults >>

NoGroup == -1

\* off: no stream runs. create: XGROUP CREATE is sent. connect: no dedicated
\* connection. read: XREADGROUP is sent, and blocks. reply: a reply is on its
\* way. handle: the head of the batch is decoded and handled. ack: XACK is sent.
Steps == { "off", "create", "connect", "read", "reply", "handle", "ack" }

Pending(e) == owner[e] # Nobody
Acked(e) == start # NoGroup /\ start < e /\ e <= last /\ ~Pending(e)

IdsPastEnd(a, b) == [i \in 1..(b - a + 2) |-> a + i - 1]    \* mutant: one too many

\* The ids a .. b in order.
Ids(a, b) == [i \in 1..(b - a + 1) |-> a + i - 1]

Init ==
    /\ appended = 0
    /\ from \in Froms
    /\ start = NoGroup
    /\ last = NoGroup
    /\ owner = [e \in Entries |-> Nobody]
    /\ idle = [e \in Entries |-> 0]
    /\ pc = [w \in Workers |-> "off"]
    /\ batch = [w \in Workers |-> << >>]
    /\ spent = [w \in Workers |-> 0]
    /\ handled = [e \in Entries |-> 0]
    /\ unacked = [e \in Entries |-> 0]
    /\ faults = 0

Goto(w, step, entries) ==
    /\ pc' = [pc EXCEPT ![w] = step]
    /\ batch' = [batch EXCEPT ![w] = entries]
    /\ spent' = [spent EXCEPT ![w] = 0]

Fault ==
    /\ faults < MaxFaults
    /\ faults' = faults + 1

\* XADD by anybody.
AppendEntry ==
    /\ appended < MaxEntries
    /\ appended' = appended + 1
    /\ UNCHANGED << from, start, last, owner, idle, workers, history, faults >>

(***************************************************************************)
(* A consumer.                                                             *)
(***************************************************************************)

\* The stream is run, for the first time or again.
Begin(c) ==
    /\ pc[c] = "off"
    /\ Goto(c, "create", << >>)
    /\ UNCHANGED << redis, history, faults >>

CreateGroup ==
    LET first == IF from = Live THEN appended ELSE from
    IN  IF start = NoGroup THEN start' = first /\ last' = first ELSE UNCHANGED << start, last >>

\* XGROUP CREATE key group from MKSTREAM; BUSYGROUP is benign.
EnsureGroup(c) ==
    /\ pc[c] = "create"
    /\ CreateGroup
    /\ Goto(c, "connect", << >>)
    /\ UNCHANGED << appended, from, owner, idle, history, faults >>

\* It is not retried: an error ends the stream, whether Redis ran it or not.
EnsureGroupFails(c) ==
    /\ pc[c] = "create"
    /\ CreateGroup \/ UNCHANGED << start, last >>
    /\ Goto(c, "off", << >>)
    /\ Fault
    /\ UNCHANGED << appended, from, owner, idle, history >>

\* conn.dedicated, at first and on each retry.
Connect(c) ==
    /\ pc[c] = "connect"
    /\ Goto(c, "read", << >>)
    /\ UNCHANGED << redis, history, faults >>

\* XREADGROUP ... STREAMS key >: the entries that nobody was given are pending
\* from now on. When BLOCK elapses first, the reply is empty and the next
\* XREADGROUP is sent: nothing changes.
ReadGroup(c) ==
    /\ pc[c] = "read" /\ appended > last
    /\ LET end == IF appended - last > Count THEN last + Count ELSE appended
       IN  /\ last' = end
           /\ owner' = [e \in Entries |-> IF last < e /\ e <= end THEN c ELSE owner[e]]
           /\ idle' = [e \in Entries |-> IF last < e /\ e <= end THEN 0 ELSE idle[e]]
           /\ Goto(c, "reply", Ids(last + 1, end))
    /\ UNCHANGED << appended, from, start, history, faults >>

AckBeforeHandler(w) ==              \* mutant: the entry is acknowledged on delivery
    /\ pc[w] = "reply"
    /\ owner' = [e \in Entries |-> IF e = Head(batch[w]) THEN Nobody ELSE owner[e]]
    /\ Goto(w, "handle", batch[w])
    /\ UNCHANGED << appended, from, start, last, idle, history, faults >>

\* The reply arrives as a chunk; decode errors are those of single messages.
Receive(w) ==
    /\ pc[w] = "reply"
    /\ Goto(w, "handle", batch[w])
    /\ UNCHANGED << redis, history, faults >>

\* The dedicated connection drops, with a reply on it or not: Stream.retry.
Drop(c) ==
    /\ pc[c] \in { "read", "reply" }
    /\ Goto(c, "connect", << >>)
    /\ Fault
    /\ UNCHANGED << redis, history >>

(***************************************************************************)
(* Handling, by a consumer or by the claimer.                              *)
(***************************************************************************)
\* Where a worker goes with the entries it has left.
Continue(w, entries) ==
    IF entries # << >> THEN Goto(w, "handle", entries)
    ELSE Goto(w, IF w = Claimer THEN "off" ELSE "read", << >>)

\* The message decodes and the handler succeeds.
Succeed(w) ==
    /\ pc[w] = "handle" /\ Head(batch[w]) \notin Poison
    /\ pc' = [pc EXCEPT ![w] = "ack"]
    /\ handled' = [handled EXCEPT ![Head(batch[w])] = @ + 1]
    /\ UNCHANGED << redis, batch, spent, unacked, faults >>

HandlerEndsRound(w) == Goto(w, "off", << >>)   \* mutant: the claimer gives up too

\* A decode or handler error ends the stream of a consumer, and the rest of its
\* chunk stays pending. The claimer goes on with the next entry.
HandlerFails(w) ==
    IF w = Claimer THEN Continue(w, Tail(batch[w])) ELSE Goto(w, "off", << >>)

DecodeFails(w) ==
    /\ pc[w] = "handle" /\ Head(batch[w]) \in Poison
    /\ HandlerFails(w)
    /\ UNCHANGED << redis, history, faults >>

Fail(w) ==
    /\ pc[w] = "handle" /\ Head(batch[w]) \notin Poison
    /\ HandlerFails(w)
    /\ Fault
    /\ UNCHANGED << redis, history >>

\* XACK takes an entry from whoever has it pending.
RunAck(w) == owner' = [owner EXCEPT ![Head(batch[w])] = Nobody]

Ack(w) ==
    /\ pc[w] = "ack"
    /\ RunAck(w)
    /\ Continue(w, Tail(batch[w]))
    /\ UNCHANGED << appended, from, start, last, idle, history, faults >>

\* XACK or its reply is lost, or the worker is stopped: the stream ends.
AckFails(w) ==
    /\ pc[w] = "ack"
    /\ \/ RunAck(w) /\ UNCHANGED unacked
       \/ UNCHANGED owner /\ unacked' = [unacked EXCEPT ![Head(batch[w])] = @ + 1]
    /\ Goto(w, "off", << >>)
    /\ Fault
    /\ UNCHANGED << appended, from, start, last, idle, handled >>

\* An interrupt or a crash at any other point.
Stop(w) ==
    /\ pc[w] \in { "connect", "read", "reply", "handle" }
    /\ Goto(w, "off", << >>)
    /\ Fault
    /\ UNCHANGED << redis, history >>

(***************************************************************************)
(* The claimer: claimStale, then handle and ack what it returns.           *)
(***************************************************************************)
Stale == { e \in Entries : Pending(e) /\ idle[e] >= MinIdle }

\* These are the first n of a set of entries, in order.
AreFirst(claimed, n, S) ==
    /\ \A i, j \in DOMAIN claimed : i < j => claimed[i] < claimed[j]
    /\ \A e \in S : \/ \E i \in DOMAIN claimed : claimed[i] = e
                    \/ Len(claimed) = n /\ \A i \in DOMAIN claimed : claimed[i] < e

\* XAUTOCLAIM from 0-0: the first of a set of entries change hands. The cursor
\* of the reply is dropped, so each round starts from the front.
ClaimFrom(S) ==
    /\ pc[Claimer] = "off"
    /\ \E n \in 1..ClaimCount : \E claimed \in [1..n -> S] :
          LET taken(e) == \E i \in 1..n : claimed[i] = e
          IN  /\ AreFirst(claimed, ClaimCount, S)
              /\ owner' = [e \in Entries |-> IF taken(e) THEN Claimer ELSE owner[e]]
              /\ idle' = [e \in Entries |-> IF taken(e) THEN 0 ELSE idle[e]]
              /\ Goto(Claimer, "reply", claimed)
    /\ UNCHANGED << appended, from, start, last, history, faults >>

ClaimAnything ==                    \* mutant: minIdle is ignored
    ClaimFrom({ e \in Entries : Pending(e) })

Claim == ClaimFrom(Stale)

\* A tick is longer than a command and its reply.
Tick ==
    /\ \A w \in Workers : /\ pc[w] \notin { "reply", "ack" }
                          /\ pc[w] = "handle" => spent[w] < MaxHandle
    /\ idle' = [e \in Entries |-> IF Pending(e) /\ idle[e] < MinIdle THEN idle[e] + 1 ELSE idle[e]]
    /\ spent' = [w \in Workers |-> IF pc[w] = "handle" THEN spent[w] + 1 ELSE spent[w]]
    /\ UNCHANGED << appended, from, start, last, owner, pc, batch, history, faults >>

Consume(c) == Begin(c) \/ EnsureGroup(c) \/ Connect(c) \/ ReadGroup(c)

Work(w) == Receive(w) \/ Succeed(w) \/ DecodeFails(w) \/ Ack(w)

Next ==
    \/ AppendEntry
    \/ \E c \in Consumers : Consume(c) \/ EnsureGroupFails(c) \/ Drop(c)
    \/ \E w \in Workers : Work(w) \/ Fail(w) \/ AckFails(w) \/ Stop(w)
    \/ Claim
    \/ Tick

Spec == Init /\ [][Next]_vars

\* Consumers are run again when they end and the claimer claims again and again;
\* Redis answers, handlers end and time passes. Failures may stop.
FairSpec ==
    /\ Spec
    /\ \A c \in Consumers : WF_vars(Consume(c))
    /\ \A w \in Workers : WF_vars(Work(w))
    /\ WF_vars(Claim)
    /\ WF_vars(Tick)

(***************************************************************************)
(* Properties.                                                             *)
(***************************************************************************)

TypeOK ==
    /\ appended \in 0..MaxEntries
    /\ from \in Froms
    /\ start \in Nat \cup {NoGroup}
    /\ last \in Nat \cup {NoGroup}
    /\ owner \in [Entries -> Workers \cup {Nobody}]
    /\ idle \in [Entries -> 0..MinIdle]
    /\ pc \in [Workers -> Steps]
    /\ batch \in [Workers -> Seq(Entries)]
    /\ spent \in [Workers -> 0..MaxHandle]
    /\ handled \in [Entries -> Nat]
    /\ unacked \in [Entries -> Nat]
    /\ faults \in 0..MaxFaults

\* "acks only after it succeeds (at-least-once)" (Redis.ts:718): whatever is
\* lost, drops, fails or is claimed, an entry that the group will not deliver
\* again has been handled.
Promise ==
    INSTANCE AtLeastOnce WITH
        handled <- { e \in Entries : handled[e] > 0 },
        settled <- { e \in Entries : Acked(e) }

ImplementsAtLeastOnce == Promise!Spec

\* An entry is handled once more only after a success whose ack was lost: no
\* claim, drop or restart hands out an entry that is being handled, as long as
\* minIdle covers a whole chunk, Count handlers (Redis.ts:367-378, :385).
RepeatedOnlyIfUnacked ==
    \A e \in Entries : handled[e] <= 1 + unacked[e]

\* Every entry of the group whose message decodes is acknowledged in the end,
\* if the messages that never decode are fewer than a claim takes: claimStale
\* starts from the front each time (Redis.ts:279, :387, :719-720).
EveryEntryIsAcked ==
    \A e \in Entries \ Poison :
        (start # NoGroup /\ start < e /\ e <= appended) ~> Acked(e)
=============================================================================
