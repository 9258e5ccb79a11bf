----------------------------- MODULE GroupWire -----------------------------
(***************************************************************************)
(* A consumer group (ConsumerGroup) over the wire (Commands, Replies): the *)
(* commands that readGroup, claimStale, ack and the pages of a stream log  *)
(* send, the replies of Redis in RESP2 and in RESP3, and the messages that *)
(* come out of them (core/src/Redis.ts:316-391, :483-518, :962-1023).      *)
(***************************************************************************)
EXTENDS ConsumerGroup, Commands

CONSTANTS
    Blocks,     \* values of options.block: options of a duration
    Idles       \* values of options.minIdle: durations

\* Texts spell the ids, the counts and the milliseconds that are sent.
ASSUME WireAssumption ==
    /\ \A block \in Blocks : block # None => block = Some(block[1]) /\ block[1] \in Int
    /\ Idles \subseteq Nat
    /\ 0..MaxEntries \cup { 1, Count, ClaimCount, MinIdle } \subseteq Numerals
    /\ \A d \in Idles \cup { ConsumerBlock(block) : block \in Blocks } : WholeMillis(d) \in Numerals

Key == "p:id"
Group == "g"
Protocols == { 2, 3 }

(***************************************************************************)
(* Redis: entries and the pending list, as it reports them.                *)
(***************************************************************************)
\* A message is the text of the field "d"; a poison entry has no such field.
Fields(e) == IF e \in Poison THEN [x |-> "-"] ELSE [d |-> IntText(e)]
Raw(e) == << IntText(e), Fields(e) >>
RawEach(es) == [i \in DOMAIN es |-> Raw(es[i])]

\* Redis lists pending entries in the order of their ids.
InOrder(S) ==
    CHOOSE s \in [1..Cardinality(S) -> S] : \A i, j \in DOMAIN s : i < j => s[i] < s[j]
PendingOf(w) == { e \in Entries : owner[e] = w }
PendingRows ==
    LET es == InOrder({ e \in Entries : Pending(e) })
    IN  [i \in DOMAIN es |-> << IntText(es[i]), owner[es[i]], idle[es[i]], 1 >>]
PendingCounts ==
    LET owners == SetToSeq({ w \in Workers : PendingOf(w) # {} })
    IN  [i \in DOMAIN owners |-> << owners[i], Cardinality(PendingOf(owners[i])) >>]

(***************************************************************************)
(* The methods of the service, and the messages of a stream log.           *)
(***************************************************************************)
\* The chunk of streams.read and readGroup: the entries of all streams.
Chunk(r) ==
    LET entries(reads) == FlattenSeq([i \in DOMAIN reads |-> reads[i][2]])
    IN  Map(DecodeStreamReads(r), entries)

\* claimStale keeps the entries and drops the cursor.
ClaimStale(r) == LET entries(claim) == claim[2] IN Map(DecodeXautoclaim(r), entries)

XrangeAnswer(r) == DecodeEntries(r)
XpendingSummary(r) == DecodePendingSummary(r)
XpendingRows(r) == DecodePendingEntries(r)
XinfoStream(r) == DecodeInfoRecord(r)
XinfoGroups(r) == DecodeInfoRecordArray(r)

\* A missing "d" decodes the empty text, which fails.
DecodeMessage(fields) ==
    IF "d" \in DOMAIN fields THEN Ok(fields["d"]) ELSE Failed

\* range and revRange: one message that does not decode fails the page.
Page(r) ==
    LET typed(e) == All(<< Ok(e[1]), DecodeMessage(e[2]) >>)
        each(entries) == ForEach(entries, typed)
    IN  AndThen(XrangeAnswer(r), each)

\* The commands of readGroup, claimStale and ack, and the XREAD of streams.read.
ReadGroupCommand(c, block) ==
    XreadGroup(Group, c, << << Key, ">" >> >>, Some(Count), Some(ConsumerBlock(block)), FALSE)
ReadCommand(id, block) == Xread(<< << Key, id >> >>, Some(Count), Some(ConsumerBlock(block)))
ClaimCommand(minIdle) == Xautoclaim(Key, Group, Claimer, minIdle, None, Some(ClaimCount))
AckCommand(e) == Xack(Key, Group, << IntText(e) >>)
FromText == IF from = Live THEN "$" ELSE IntText(from)

(***************************************************************************)
(* Properties.                                                             *)
(***************************************************************************)
DeliveryIsTrue(proto) ==
    /\ Chunk(ReadsReply(proto, Key, << >>)) = Ok(<< >>)
    /\ \A w \in Workers : pc[w] = "reply" =>
          LET raws == RawEach(batch[w])
              chunk == IF w = Claimer THEN ClaimStale(AutoclaimReply(proto, "0-0", raws))
                                      ELSE Chunk(ReadsReply(proto, Key, raws))
          IN  /\ chunk = Ok(raws)
              /\ \A i \in DOMAIN raws :
                    DecodeMessage(chunk[1][i][2]) =
                        IF batch[w][i] \in Poison THEN Failed ELSE Ok(raws[i][1])

PageIsTrue(proto) ==
    LET es == Ids(1, appended)
        reply == EntriesReply(proto, RawEach(es))
    IN  /\ XrangeAnswer(reply) = Ok(RawEach(es))
        /\ Page(reply) = IF \E i \in DOMAIN es : es[i] \in Poison THEN Failed
                         ELSE Ok([i \in DOMAIN es |-> << IntText(es[i]), IntText(es[i]) >>])

PendingIsTrue ==
    LET pending == { e \in Entries : Pending(e) }
        summary == XpendingSummary(PendingSummaryReply(PendingRows, PendingCounts))[1]
    IN  /\ XpendingRows(PendingEntriesReply(PendingRows)) = Ok(PendingRows)
        /\ summary[1] = Len(PendingRows)
        /\ IF pending = {} THEN summary[2] = None /\ summary[3] = None
           ELSE \E least, most \in pending :
                   /\ \A e \in pending : least <= e /\ e <= most
                   /\ summary[2] = Some(IntText(least)) /\ summary[3] = Some(IntText(most))
        /\ summary[4] = PendingCounts

InfoIsTrue(proto) ==
    LET info == [length |-> appended, groups |-> IF start = NoGroup THEN 0 ELSE 1]
        texts == [f \in DOMAIN info |-> IntText(info[f])]
        first == IF appended = 0 THEN Nil ELSE EntriesReply(proto, RawEach(<< 1 >>)).v[1]
        reply == InfoReply(proto, info, first)
    IN  /\ XinfoStream(reply) = Ok(texts)
        /\ XinfoGroups(Arr(<< reply >>)) = Ok(<< texts >>)

\* What a consumer, the claimer, a page of the log, XPENDING and XINFO report is
\* what Redis holds, in RESP2 and in RESP3 alike: no entry, field, order or
\* count is lost, no data is the empty chunk and not an error, and only messages
\* that do not decode fail (decode.ts:207-369, Redis.ts:366, :962-1003).
RepliesAreTrue ==
    /\ PendingIsTrue
    /\ \A proto \in Protocols : DeliveryIsTrue(proto) /\ PageIsTrue(proto) /\ InfoIsTrue(proto)

\* XREADGROUP and XREAD ask for the streams they mean, for Count entries, and
\* block for a while but never for ever (BLOCK 0), whatever the option says.
ReadsSayIt(c) ==
    \A block \in Blocks :
        LET group == ReadXreadGroup(ReadGroupCommand(c, block))[1]
            tail == ReadXread(ReadCommand(IntText(appended), block))[1]
        IN  /\ tail.streams = << << Key, IntText(appended) >> >> /\ tail.count = Some(Count)
            /\ tail.block # None /\ tail.block[1] > 0
            /\ group = [group |-> Group, consumer |-> c, count |-> Some(Count),
                        block |-> tail.block, noAck |-> FALSE, streams |-> << << Key, ">" >> >>]

\* XAUTOCLAIM and XCLAIM take no entry more than a millisecond early.
ClaimsSayIt ==
    LET ids == [i \in DOMAIN PendingRows |-> PendingRows[i][1]]
    IN  \A minIdle \in Idles :
            LET all == ReadXautoclaim(ClaimCommand(minIdle))[1]
                these == ReadXclaim(Xclaim(Key, Group, Claimer, minIdle, ids))[1]
            IN  /\ all = [group |-> Group, consumer |-> Claimer, minIdle |-> these.minIdle,
                          start |-> "0-0", count |-> Some(ClaimCount)]
                /\ these.ids = ids
                /\ these.minIdle * Milli \in (minIdle - Milli + 1)..minIdle

\* Several streams: all keys go first, and each meets its own id again.
\* XREVRANGE asks for the same page as XRANGE, from the other end.
PagesSayIt ==
    LET streams == << << Key, IntText(appended) >>, << "p:other", "$" >> >>
        page == << "0", IntText(appended) >>
        up == Xrange(Key, page[1], page[2], Some(Count))
        down == Xrevrange(Key, page[1], page[2], Some(Count))
        trimmed(approx) == ReadXadd(Xadd(Key, << << "d", "1" >> >>,
                               [maxLen |-> Some(MaxEntries), approx |-> approx, id |-> None]))
        pendingArgs == [idle |-> Some(MinIdle * Milli), start |-> None, end |-> None,
                        count |-> Count, consumer |-> << Claimer >>]
    IN  /\ ReadXread(Xread(streams, None, None))[1].streams = streams
        /\ << up[3], up[4] >> = << down[4], down[3] >> /\ SubSeq(up, 5, 6) = SubSeq(down, 5, 6)
        /\ \A approx \in BOOLEAN :
              trimmed(approx) = Ok([maxLen |-> Some(MaxEntries), approx |-> approx, id |-> "*",
                                    fields |-> << << "d", "1" >> >>])
        /\ ReadXpending(XpendingExtended(Key, Group, pendingArgs)) =
              Ok([idle |-> Some(MinIdle), start |-> "-", end |-> "+",
                  count |-> Count, consumer |-> << Claimer >>])

\* Redis reads in the words of a command what the call means
\* (RedisCommand.ts:143-254, Redis.ts:308-309, :354-389).
RequestsSayIt ==
    /\ \A w \in Workers :
          /\ pc[w] = "create" =>
                ReadXgroupCreate(XgroupCreate(Key, Group, Some(FromText), TRUE)) =
                    Ok([key |-> Key, group |-> Group, from |-> FromText, mkStream |-> TRUE])
          /\ pc[w] = "read" => ReadsSayIt(w)
          /\ pc[w] = "ack" =>
                AckCommand(Head(batch[w])) = << "XACK", Key, Group, IntText(Head(batch[w])) >>
    /\ pc[Claimer] = "reply" => ClaimsSayIt
    /\ (\A w \in Workers : pc[w] = "off") => PagesSayIt
=============================================================================
