----------------------------- MODULE StreamTail -----------------------------
(***************************************************************************)
(* streams.read (core/src/Redis.ts:320-353): one reader that follows a     *)
(* Redis stream with XREAD BLOCK on a dedicated connection, reconnects     *)
(* when the connection drops, and resumes from the last id it has.         *)
(*                                                                         *)
(* An entry is its position in the stream; messages are left out.          *)
(***************************************************************************)
EXTENDS Integers, Sequences

CONSTANTS
    Seeds,       \* values of options.from: Live ("$"), or an id to read after
    Count,       \* options.count: entries in a reply
    MaxEntries,  \* bound: entries appended
    MaxDrops     \* bound: times the connection drops

Live == -1       \* "$": whatever is appended from now on

ASSUME TailAssumption ==
    /\ Seeds \subseteq Nat \cup {Live}
    /\ Count \in Nat \ {0}
    /\ MaxEntries \in Nat
    /\ MaxDrops \in Nat

VARIABLES
    seed,       \* options.from of this reader
    appended,   \* Redis: the last id of the stream
    lastId,     \* lastIdRef, which outlives the connection
    conn,       \* the dedicated connection and the XREAD on it
    anchor,     \* Redis: the id the XREAD in progress reads after
    reply,      \* the last id of the reply on its way
    delivered,  \* history: the ids emitted by the Stream
    begun,      \* history: the last id when the first XREAD reached Redis
    gap,        \* history: whether a live tail may have missed an entry
    drops       \* how often the connection dropped

vars == << seed, appended, lastId, conn, anchor, reply, delivered, begun, gap, drops >>

NotBegun == -1

\* The ids a .. b in order.
Ids(a, b) == [i \in 1..(b - a + 1) |-> a + i - 1]

Init ==
    /\ seed \in Seeds
    /\ appended = 0
    /\ lastId = seed
    /\ conn = "down"
    /\ anchor = 0
    /\ reply = 0
    /\ delivered = << >>
    /\ begun = NotBegun
    /\ gap = FALSE
    /\ drops = 0

\* XADD by anybody. A live tail that has begun and has no XREAD at the server
\* does not see the entry.
Append1 ==
    /\ appended < MaxEntries
    /\ appended' = appended + 1
    /\ gap' = (gap \/ (lastId = Live /\ begun # NotBegun /\ conn \in { "down", "idle" }))
    /\ UNCHANGED << seed, lastId, conn, anchor, reply, delivered, begun, drops >>

\* conn.dedicated opens a connection, at first and on each retry.
Connect ==
    /\ conn = "down"
    /\ conn' = "idle"
    /\ UNCHANGED << seed, appended, lastId, anchor, reply, delivered, begun, gap, drops >>

ReadFromFront ==                    \* mutant: a live tail starts with the oldest entry
    /\ conn = "idle"
    /\ conn' = "blocked"
    /\ anchor' = IF lastId = Live THEN 0 ELSE lastId
    /\ begun' = IF begun = NotBegun THEN appended ELSE begun
    /\ UNCHANGED << seed, appended, lastId, reply, delivered, gap, drops >>

\* XREAD reaches Redis, which fixes what "$" means for this command.
Read ==
    /\ conn = "idle"
    /\ conn' = "blocked"
    /\ anchor' = IF lastId = Live THEN appended ELSE lastId
    /\ begun' = IF begun = NotBegun THEN appended ELSE begun
    /\ UNCHANGED << seed, appended, lastId, reply, delivered, gap, drops >>

\* Redis answers with at most Count of the entries after the anchor.
Reply ==
    /\ conn = "blocked"
    /\ appended > anchor
    /\ reply' = IF appended - anchor > Count THEN anchor + Count ELSE appended
    /\ conn' = "replied"
    /\ UNCHANGED << seed, appended, lastId, anchor, delivered, begun, gap, drops >>

ReanchorOnTimeout ==                \* mutant: an empty reply re-seeds the reader
    /\ conn = "blocked"
    /\ appended <= anchor
    /\ conn' = "idle"
    /\ lastId' = Live
    /\ UNCHANGED << seed, appended, anchor, reply, delivered, begun, gap, drops >>

\* BLOCK elapses with nothing to read: an empty chunk, and lastId stays.
Timeout ==
    /\ conn = "blocked"
    /\ appended <= anchor
    /\ conn' = "idle"
    /\ UNCHANGED << seed, appended, lastId, anchor, reply, delivered, begun, gap, drops >>

\* The reply arrives: lastId advances to its last id and the chunk is emitted.
Deliver ==
    /\ conn = "replied"
    /\ conn' = "idle"
    /\ delivered' = delivered \o Ids(anchor + 1, reply)
    /\ lastId' = reply
    /\ UNCHANGED << seed, appended, anchor, reply, begun, gap, drops >>

DropAndReseed ==                    \* mutant: lastIdRef inside the retried stream
    /\ conn # "down" /\ drops < MaxDrops
    /\ conn' = "down"
    /\ drops' = drops + 1
    /\ lastId' = seed
    /\ UNCHANGED << seed, appended, anchor, reply, delivered, begun, gap >>

\* The connection drops, with the reply on it if there is one: a live tail that
\* has emitted nothing asks for what comes after.
Drop ==
    /\ conn # "down" /\ drops < MaxDrops
    /\ conn' = "down"
    /\ drops' = drops + 1
    /\ gap' = (gap \/ (lastId = Live /\ conn \in { "blocked", "replied" } /\ appended > anchor))
    /\ UNCHANGED << seed, appended, lastId, anchor, reply, delivered, begun >>

Next ==
    \/ Append1 \/ Connect \/ Read \/ Reply \/ Timeout \/ Deliver \/ Drop

Spec == Init /\ [][Next]_vars

\* The retry never gives up and Redis answers; appends and drops may stop.
FairSpec ==
    Spec /\ WF_vars(Connect) /\ WF_vars(Read) /\ WF_vars(Reply) /\ WF_vars(Deliver)

(***************************************************************************)
(* Properties.                                                             *)
(***************************************************************************)

TypeOK ==
    /\ seed \in Seeds
    /\ appended \in 0..MaxEntries
    /\ lastId \in {seed} \cup 1..MaxEntries
    /\ conn \in { "down", "idle", "blocked", "replied" }
    /\ anchor \in Nat
    /\ reply \in Nat
    /\ delivered \in Seq(1..MaxEntries)
    /\ begun \in 0..MaxEntries \cup {NotBegun}
    /\ gap \in BOOLEAN
    /\ drops \in 0..MaxDrops

\* Whatever drops and times out, the Stream emits consecutive ids: none
\* twice, none skipped, none out of order (Redis.ts:343-344).
Contiguous ==
    \A i \in 1..(Len(delivered) - 1) : delivered[i + 1] = delivered[i] + 1

\* A reader with an explicit `from` starts with the entry after it, and a live
\* tail with the first entry "added after the read begins" (Redis.ts:84), unless
\* one was added while it had no XREAD at the server, or was on a connection
\* that dropped: "$" is resolved anew by each XREAD. Of the first of these the
\* code says that it cannot happen without a drop (LiveTailMissesNothing).
StartsWhereAsked ==
    delivered # << >> =>
        /\ seed # Live => delivered[1] = seed + 1
        /\ seed = Live => gap \/ delivered[1] = begun + 1

\* A live tail emits "only entries added after the read begins" (Redis.ts:84), and
\* as long as nothing drops misses none: "a timeout keeps it - nothing arrived
\* to miss" (Redis.ts:335-336).
LiveTailMissesNothing ==
    seed = Live /\ drops = 0 /\ delivered # << >> => delivered[1] = begun + 1

\* Every entry after an explicit `from` is emitted in the end.
AllDelivered ==
    \A e \in 1..MaxEntries :
        seed # Live /\ e > seed /\ appended >= e ~> \E i \in DOMAIN delivered : delivered[i] = e

\* Once a live tail has emitted an entry it follows the stream: whatever drops
\* and times out, every later entry is emitted in the end.
FollowsTheStream ==
    \A e \in 1..MaxEntries :
        appended >= e /\ delivered # << >> ~> \E i \in DOMAIN delivered : delivered[i] >= e
=============================================================================
