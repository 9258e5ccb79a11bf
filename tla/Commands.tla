------------------------------ MODULE Commands ------------------------------
(***************************************************************************)
(* core/src/RedisCommand.ts: from the options of a call to the arguments   *)
(* of a command, and what Redis reads in them.                             *)
(*                                                                         *)
(* A command is the sequence of its words; << >> stands for a call that    *)
(* sends nothing. What is read is a record, or Rejected.                   *)
(***************************************************************************)
EXTENDS Replies

(***************************************************************************)
(* The builders.                                                           *)
(***************************************************************************)
Optional(word, option) == IF option = None THEN << >> ELSE << word, IntText(option[1]) >>

TrimArgs(maxLen, approx) ==
    (IF approx THEN << "MAXLEN", "~" >> ELSE << "MAXLEN" >>) \o << IntText(maxLen) >>

\* ex wins over px, and px over keepTtl.
LifetimeArgs(opts) ==
    CASE opts.ex # None -> << "EX", IntText(ExpirySeconds(opts.ex[1])) >>
      [] opts.ex = None /\ opts.px # None -> << "PX", IntText(ExpiryMillis(opts.px[1])) >>
      [] opts.ex = None /\ opts.px = None /\ opts.keepTtl -> << "KEEPTTL" >>
      [] OTHER -> << >>
SetArgs(key, value, opts) == << key, value >> \o LifetimeArgs(opts)

ScoreAsNumber(n) == NumberText(n)                          \* mutant: String(Infinity)

FormatScore(n) ==
    CASE n = Infinity -> "inf" [] n = -Infinity -> "-inf" [] OTHER -> IntText(n)

HashEntriesArgs(entries) == Flat(entries)
ZaddArgs(entries) == Flat([i \in DOMAIN entries |-> << FormatScore(entries[i][1]), entries[i][2] >>])

\* A call with nothing to write sends nothing.
UnlessEmpty(words, args) == IF args = << >> THEN << >> ELSE words \o args

Set(key, value, opts) == << "SET" >> \o SetArgs(key, value, opts)
Expire(key, ttl) == << "EXPIRE", key, IntText(ExpirySeconds(ttl)) >>
Sadd(key, members) == UnlessEmpty(<< "SADD", key >>, members)
Hset(key, entries) == UnlessEmpty(<< "HSET", key >>, HashEntriesArgs(entries))
Zadd(key, entries) == UnlessEmpty(<< "ZADD", key >>, ZaddArgs(entries))
ZincrBy(key, by, member) == << "ZINCRBY", key, FormatScore(by), member >>

Xadd(key, fields, opts) ==
    << "XADD", key >>
        \o (IF opts.maxLen = None THEN << >> ELSE TrimArgs(opts.maxLen[1], opts.approx))
        \o << IF opts.id = None THEN "*" ELSE opts.id[1] >> \o HashEntriesArgs(fields)

Xrange(key, start, end, count) == << "XRANGE", key, start, end >> \o Optional("COUNT", count)

\* XREVRANGE scans down, so the higher id comes first.
Xrevrange(key, start, end, count) ==
    << "XREVRANGE", key, end, start >> \o Optional("COUNT", count)

BlockArgs(block) ==
    IF block = None THEN << >> ELSE << "BLOCK", IntText(WholeMillis(block[1])) >>

\* streams are pairs of a key and an id: all keys first, then all ids.
StreamsArgs(streams) ==
    << "STREAMS" >> \o [i \in DOMAIN streams |-> streams[i][1]]
                    \o [i \in DOMAIN streams |-> streams[i][2]]

Xread(streams, count, block) ==
    << "XREAD" >> \o Optional("COUNT", count) \o BlockArgs(block) \o StreamsArgs(streams)

XreadGroup(group, consumer, streams, count, block, noAck) ==
    << "XREADGROUP", "GROUP", group, consumer >> \o Optional("COUNT", count) \o BlockArgs(block)
        \o (IF noAck THEN << "NOACK" >> ELSE << >>) \o StreamsArgs(streams)

XgroupCreate(key, group, from, mkStream) ==
    << "XGROUP", "CREATE", key, group, IF from = None THEN "$" ELSE from[1] >>
        \o (IF mkStream THEN << "MKSTREAM" >> ELSE << >>)

Xack(key, group, ids) == UnlessEmpty(<< "XACK", key, group >>, ids)

XpendingExtended(key, group, opts) ==
    << "XPENDING", key, group >>
        \o (IF opts.idle = None THEN << >> ELSE << "IDLE", IntText(WholeMillis(opts.idle[1])) >>)
        \o << IF opts.start = None THEN "-" ELSE opts.start[1],
              IF opts.end = None THEN "+" ELSE opts.end[1], IntText(opts.count) >>
        \o opts.consumer

Xclaim(key, group, consumer, minIdle, ids) ==
    << "XCLAIM", key, group, consumer, IntText(WholeMillis(minIdle)) >> \o ids

Xautoclaim(key, group, consumer, minIdle, start, count) ==
    << "XAUTOCLAIM", key, group, consumer, IntText(WholeMillis(minIdle)),
       IF start = None THEN "0-0" ELSE start[1] >> \o Optional("COUNT", count)

(***************************************************************************)
(* What Redis reads.                                                       *)
(***************************************************************************)
Rejected == << >>

\* The value after an optional word at place i, and the place that follows.
Has(c, i, word) == i <= Len(c) /\ c[i] = word
Number(word) == TextNumber(word)
OptionAt(c, i, word) == IF Has(c, i, word) THEN Some(Number(c[i + 1])) ELSE None
After(c, i, word) == IF Has(c, i, word) THEN i + 2 ELSE i

\* SET key value [EX s | PX ms | KEEPTTL]: the lifetime in units.
Lives(n, unit) == IF n > 0 THEN Ok([ttl |-> Some(n * unit), keepTtl |-> FALSE]) ELSE Rejected
ReadSetOptions(more) ==
    CASE more = << >> -> Ok([ttl |-> None, keepTtl |-> FALSE])
      [] more = << "KEEPTTL" >> -> Ok([ttl |-> None, keepTtl |-> TRUE])
      [] Len(more) = 2 /\ more[1] = "EX" -> Lives(Number(more[2]), Second)
      [] Len(more) = 2 /\ more[1] = "PX" -> Lives(Number(more[2]), Milli)
      [] OTHER -> Rejected
ReadSet(c) == ReadSetOptions(SubSeq(c, 4, Len(c)))

\* EXPIRE key s.
ReadExpire(c) == Ok(Number(c[3]) * Second)

\* Scores: a number, or one of the spellings of infinity that Redis takes.
ReadScore(word) == IF word \in {"Infinity", "-Infinity"} THEN Failed ELSE DecodeFloat(Str(word))

\* ZADD key score member ...: << score, member >>s.
ReadZadd(c) ==
    LET words == SubSeq(c, 3, Len(c))
        pair(p) == All(<< ReadScore(p[1]), Ok(p[2]) >>)
    IN  IF words = << >> \/ Len(words) % 2 # 0 THEN Rejected ELSE ForEach(PairsOf(words), pair)

\* HSET key field value ...
ReadHset(c) ==
    LET words == SubSeq(c, 3, Len(c))
    IN  IF words = << >> \/ Len(words) % 2 # 0 THEN Rejected ELSE Ok(PairsOf(words))

\* XADD key [MAXLEN [~] n] id field value ...
ReadXadd(c) ==
    LET trims == Has(c, 3, "MAXLEN")
        approx == trims /\ c[4] = "~"
        i == IF approx THEN 6 ELSE IF trims THEN 5 ELSE 3
    IN  Ok([maxLen |-> IF trims THEN Some(Number(c[i - 1])) ELSE None, approx |-> approx,
            id |-> c[i], fields |-> PairsOf(SubSeq(c, i + 1, Len(c)))])

\* The streams of XREAD and XREADGROUP from place i on.
ReadStreams(c, i) ==
    LET n == (Len(c) - i) \div 2
    IN  [j \in 1..n |-> << c[i + j], c[i + n + j] >>]

\* XREADGROUP GROUP group consumer [COUNT n] [BLOCK ms] [NOACK] STREAMS key ... id ...
ReadXreadGroup(c) ==
    LET i == After(c, 5, "COUNT")
        j == After(c, i, "BLOCK")
        k == IF Has(c, j, "NOACK") THEN j + 1 ELSE j
    IN  IF ~Has(c, k, "STREAMS") \/ (Len(c) - k) % 2 # 0 THEN Rejected
        ELSE Ok([group |-> c[3], consumer |-> c[4], count |-> OptionAt(c, 5, "COUNT"),
                 block |-> OptionAt(c, i, "BLOCK"), noAck |-> j # k, streams |-> ReadStreams(c, k)])

\* XREAD [COUNT n] [BLOCK ms] STREAMS key ... id ...
ReadXread(c) ==
    LET i == After(c, 2, "COUNT")
        j == After(c, i, "BLOCK")
    IN  IF ~Has(c, j, "STREAMS") \/ (Len(c) - j) % 2 # 0 THEN Rejected
        ELSE Ok([count |-> OptionAt(c, 2, "COUNT"), block |-> OptionAt(c, i, "BLOCK"),
                 streams |-> ReadStreams(c, j)])

\* XGROUP CREATE key group id [MKSTREAM]
ReadXgroupCreate(c) ==
    Ok([key |-> c[3], group |-> c[4], from |-> c[5], mkStream |-> Has(c, 6, "MKSTREAM")])

\* XAUTOCLAIM key group consumer ms start [COUNT n]
ReadXautoclaim(c) ==
    Ok([group |-> c[3], consumer |-> c[4], minIdle |-> Number(c[5]), start |-> c[6],
        count |-> OptionAt(c, 7, "COUNT")])

\* XCLAIM key group consumer ms id ...
ReadXclaim(c) ==
    Ok([consumer |-> c[4], minIdle |-> Number(c[5]), ids |-> SubSeq(c, 6, Len(c))])

\* XPENDING key group [IDLE ms] start end count [consumer]
ReadXpending(c) ==
    LET i == After(c, 4, "IDLE")
    IN  Ok([idle |-> OptionAt(c, 4, "IDLE"), start |-> c[i], end |-> c[i + 1],
            count |-> Number(c[i + 2]), consumer |-> SubSeq(c, i + 3, Len(c))])
=============================================================================
