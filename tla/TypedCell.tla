----------------------------- MODULE TypedCell -----------------------------
(***************************************************************************)
(* A cell (Cells) over the wire (Commands, Replies): the commands that its *)
(* operations send, the replies that Redis gives to them in RESP2 and in   *)
(* RESP3, and the answers that the methods of the Redis service and of the *)
(* cell make of them (core/src/Redis.ts:394-476, :741-961).                *)
(***************************************************************************)
EXTENDS Cells, Commands

Key == "p:id"
Protocols == { 2, 3 }

\* Scores that have a text, and the lifetimes that a call or the cell asks for.
Scores == Numerals \cup { Infinity, -Infinity }
Lifetimes == { Own } \cup { t[1] : t \in Ttls \ {None} }

ASSUME TypedCellAssumption ==
    /\ \A k \in Kinds : IsFiniteSet(Items[k])
    /\ "zset" \in Kinds => Payloads["zset"] \subseteq Scores
    /\ \A d \in Lifetimes : ExpirySeconds(d) \in Numerals /\ ExpiryMillis(d) \in Numerals

(***************************************************************************)
(* The schema: JSON text that decodes to itself, or does not decode.       *)
(***************************************************************************)
Decode(text) == IF text = Bad THEN Failed ELSE Ok(text)
DecodeEach(texts) == ForEach(texts, Decode)
DecodeSome(option) == IF option = None THEN Ok(None) ELSE Map(Decode(option[1]), Some)

(***************************************************************************)
(* Redis: the content of the key as each command reports it.               *)
(***************************************************************************)
InOrder == SetToSeq(DOMAIN content)
Size == Len(InOrder)

\* Members of a sorted set go by score; equal scores in one order or the other.
Orders == { members \in [1..Size -> DOMAIN content] :
               \A i, j \in 1..Size : i < j =>
                   members[i] # members[j] /\ content[members[i]] <= content[members[j]] }
Scored(members) == [i \in DOMAIN members |-> << members[i], content[members[i]] >>]
Rank(members, m) == CHOOSE i \in DOMAIN members : members[i] = m

Lookup(i) == IF i \in DOMAIN content THEN Some(content[i]) ELSE None

TtlReply == Num(IF ~Exists THEN -2 ELSE IF left = NoTtl THEN -1 ELSE left \div Second)

(***************************************************************************)
(* The methods of the service: a reply is decoded by the decoder that the  *)
(* method names.                                                           *)
(***************************************************************************)
Get(r) == DecodeOptionString(r)
Hget(r) == DecodeOptionString(r)
ExistsKey(r) == DecodeBoolean(r)
Sismember(r) == DecodeBoolean(r)
Hexists(r) == DecodeBoolean(r)
Card(r) == DecodeNumber(r)
Ttl(r) == DecodeTtlSeconds(r)
Mget(r) == DecodeOptionStrings(r)
Hmget(r) == DecodeOptionStrings(r)
HgetAll(r) == DecodeRecord(r)
Hkeys(r) == DecodeStringArray(r)
Smembers(r) == DecodeStringArray(r)
Zrange(r) == DecodeStringArray(r)
ZrangeWithScores(r) == DecodeScoredMembers(r)
Zscore(r) == DecodeOptionFloat(r)
Zrank(r) == DecodeOptionNumber(r)

\* ttlState: tells a key without a lifetime from no key.
ToKeyTtl(n) == CASE n = -2 -> "Missing" [] n = -1 -> "Persistent" [] OTHER -> "Expires"
TtlState(r) == Map(DecodeNumber(r), ToKeyTtl)

(***************************************************************************)
(* The methods of the cells: one element that does not decode fails the    *)
(* read.                                                                   *)
(***************************************************************************)
RefGet(r) == AndThen(Get(r), DecodeSome)
SetMembers(r) == AndThen(Smembers(r), DecodeEach)
ZsetRange(r) == AndThen(Zrange(r), DecodeEach)

ZsetRangeWithScores(r) ==
    LET member(p) == All(<< Decode(p[1]), Ok(p[2]) >>)
        members(ps) == ForEach(ps, member)
    IN  AndThen(ZrangeWithScores(r), members)

HashGet(r) == AndThen(Hget(r), DecodeSome)

HashGetAll(r) ==
    LET all(record) ==
            LET fields == SetToSeq(DOMAIN record)
                value(f) == All(<< Ok(f), Decode(record[f]) >>)
            IN  Map(ForEach(fields, value), RecordOf)
    IN  AndThen(HgetAll(r), all)

\* ref.set hands SET either keepTtl or a lifetime.
SetOptions(opts) ==
    IF opts.keepTtl THEN [ex |-> None, px |-> None, keepTtl |-> TRUE]
    ELSE [ex |-> IF opts.ttl # None THEN opts.ttl ELSE ttl, px |-> None, keepTtl |-> FALSE]

(***************************************************************************)
(* Properties.                                                             *)
(***************************************************************************)
UnlessBad(texts, answer) == IF Bad \in texts THEN Failed ELSE Ok(answer)

LifetimeIsTrue ==
    /\ Ttl(TtlReply) = Ok(IF left = NoTtl THEN None ELSE Some(left \div Second))
    /\ TtlState(TtlReply) =
          Ok(IF left # NoTtl THEN "Expires" ELSE IF Exists THEN "Persistent" ELSE "Missing")

RefIsTrue(proto) ==
    LET value == Lookup("value")
    IN  /\ RefGet(OptionReply(value, Str)) =
              IF value = Some(Bad) THEN Failed ELSE Ok(value)
        /\ ExistsKey(FlagReply(proto, Exists)) = Ok(Exists)
        /\ Mget(Arr(<< Nil, OptionReply(value, Str) >>)) = Ok(<< None, value >>)

SetIsTrue(proto) ==
    /\ Map(SetMembers(ArrayReply(InOrder, Str)), ToSet) = UnlessBad(DOMAIN content, DOMAIN content)
    /\ Card(Num(Size)) = Ok(Size)
    /\ \A i \in Items[kind] :
          Sismember(FlagReply(proto, i \in DOMAIN content)) = Ok(i \in DOMAIN content)

ZsetIsTrue(proto, members) ==
    /\ ZsetRange(ArrayReply(members, Str)) = UnlessBad(DOMAIN content, members)
    /\ ZsetRangeWithScores(ScoredReply(proto, Scored(members))) =
          UnlessBad(DOMAIN content, Scored(members))
    /\ \A i \in Items[kind] :
          LET score(n) == ScoreReply(proto, n)
              rank == IF i \in DOMAIN content THEN Some(Rank(members, i) - 1) ELSE None
          IN  /\ Zscore(OptionReply(Lookup(i), score)) = Ok(Lookup(i))
              /\ Zrank(OptionReply(rank, Num)) = Ok(rank)

HashIsTrue(proto) ==
    LET values == [i \in DOMAIN InOrder |-> content[InOrder[i]]]
        fields == SetToSeq(Items[kind])
    IN  /\ HashGetAll(RecordReply(proto, content)) = UnlessBad(ToSet(values), content)
        /\ Map(Hkeys(ArrayReply(InOrder, Str)), ToSet) = Ok(DOMAIN content)
        /\ Hmget(Arr([i \in DOMAIN fields |-> OptionReply(Lookup(fields[i]), Str)])) =
              Ok([i \in DOMAIN fields |-> Lookup(fields[i])])
        /\ \A i \in Items[kind] :
              /\ HashGet(OptionReply(Lookup(i), Str)) =
                    IF Lookup(i) = Some(Bad) THEN Failed ELSE Ok(Lookup(i))
              /\ Hexists(FlagReply(proto, i \in DOMAIN content)) = Ok(i \in DOMAIN content)

\* Whatever the key holds, a read answers what it holds, in RESP2 and in RESP3
\* alike: no score, field or order is lost, a missing item is None, no
\* lifetime and no key are told apart, and only an element that does not
\* decode fails a read (decode.ts, Redis.ts:394-476, Redis.ts:614).
ReadsAreTrue ==
    /\ LifetimeIsTrue
    /\ \A proto \in Protocols :
          CASE kind = "ref"  -> RefIsTrue(proto)
            [] kind = "set"  -> SetIsTrue(proto)
            [] kind = "zset" -> \A members \in Orders : ZsetIsTrue(proto, members)
            [] kind = "hash" -> HashIsTrue(proto)

SetSaysIt ==
    /\ \A o \in Options :
          ReadSet(Set(Key, Bad, SetOptions(o))) =
              Ok([ttl |-> Map(Asked(o), Lifetime), keepTtl |-> o.keepTtl])
    /\ \A ex, px \in {None, Some(Own), ttl}, keep \in BOOLEAN :
          LET read == ReadSet(Set(Key, Bad, [ex |-> ex, px |-> px, keepTtl |-> keep]))
              asked == IF ex # None THEN ex ELSE px
          IN  /\ read # Rejected
              /\ asked # None => /\ read[1].ttl[1] >= asked[1]
                                 /\ read[1].ttl[1] < asked[1] + Second

ZaddSaysIt(members) ==
    LET entries == [i \in DOMAIN members |-> << content[members[i]], members[i] >>]
    IN  IF entries = << >> THEN Zadd(Key, entries) = << >>
        ELSE /\ ReadZadd(Zadd(Key, entries)) = Ok(entries)
             /\ ReadScore(ZincrBy(Key, entries[1][1], entries[1][2])[3]) = Ok(entries[1][1])

HsetSaysIt ==
    LET entries == [i \in DOMAIN InOrder |-> << InOrder[i], content[InOrder[i]] >>]
    IN  IF entries = << >> THEN Hset(Key, entries) = << >>
        ELSE ReadHset(Hset(Key, entries)) = Ok(entries)

SaddSaysIt == Sadd(Key, InOrder) = IF InOrder = << >> THEN << >> ELSE << "SADD", Key >> \o InOrder

\* Redis reads in the words of a command what the call means: scores of any
\* size, fields with their values, lifetimes of at least what was asked and less
\* than a second more; and an empty write sends nothing
\* (RedisCommand.ts:13-74, Redis.ts:422-459, :758).
CommandsSayIt ==
    /\ \A f \in Fibers : todo[f].step = "stamp" =>
          ReadExpire(Expire(Key, todo[f].asked)) = Ok(Lifetime(todo[f].asked))
    /\ CASE kind = "ref"  -> SetSaysIt
         [] kind = "set"  -> SaddSaysIt
         [] kind = "zset" -> \A members \in Orders : ZaddSaysIt(members)
         [] kind = "hash" -> HsetSaysIt
=============================================================================
