------------------------------ MODULE Replies ------------------------------
(***************************************************************************)
(* core/src/internal/decode.ts: what the library makes of a reply.         *)
(*                                                                         *)
(* A reply (RespValue) is a record with its JavaScript type `t` and its    *)
(* value `v`. RESP2 and RESP3 give different replies to one command; the   *)
(* decoders take both, and the second half of the module says which reply  *)
(* a server gives.                                                         *)
(*                                                                         *)
(* A result is << x >>, or << >> for a DecodeError.                        *)
(* A JavaScript object is its entries in order, a record a function.       *)
(***************************************************************************)
EXTENDS Durations, SequencesExt

CONSTANTS
    Numerals,   \* the integers that texts spell
    Infinity    \* a number beyond them, and with its opposite the two infinities

Nil == [t |-> "null"]
Str(s) == [t |-> "string", v |-> s]
Bytes(s) == [t |-> "bytes", v |-> s]
Num(n) == [t |-> "number", v |-> n]
Big(n) == [t |-> "bigint", v |-> n]
Bool(b) == [t |-> "boolean", v |-> b]
Arr(xs) == [t |-> "array", v |-> xs]
Obj(entries) == [t |-> "object", v |-> entries]

Ok(x) == << x >>
Failed == << >>

Map(r, F(_)) == IF r = Failed THEN Failed ELSE Ok(F(r[1]))
AndThen(r, F(_)) == IF r = Failed THEN Failed ELSE F(r[1])
All(rs) == IF \E i \in DOMAIN rs : rs[i] = Failed THEN Failed
                                               ELSE Ok([i \in DOMAIN rs |-> rs[i][1]])
ForEach(xs, F(_)) == All([i \in DOMAIN xs |-> F(xs[i])])

(***************************************************************************)
(* Numbers and their texts. NaN is one more number beyond all others.      *)
(***************************************************************************)
NaN == Infinity + 1

\* The text of an integer, in JavaScript and in Redis.
IntText(n) == ToString(n)

\* Texts that do not spell an integer.
OtherTexts == {"", "Infinity", "-Infinity", "inf", "+inf", "-inf", "nan", "~"}

ASSUME NumeralsAssumption ==
    /\ Infinity \in Nat \ {0}
    /\ Numerals \subseteq (-Infinity + 1)..(Infinity - 1)
    /\ \A n, m \in Numerals : IntText(n) = IntText(m) => n = m
    /\ \A n \in Numerals : IntText(n) \notin OtherTexts

\* String(n) of JavaScript.
NumberText(n) ==
    CASE n = Infinity  -> "Infinity"
      [] n = -Infinity -> "-Infinity"
      [] OTHER         -> IntText(n)

\* Number(s) of JavaScript: the empty text is 0, other texts are NaN.
TextNumber(s) ==
    CASE s = ""          -> 0
      [] s = "Infinity"  -> Infinity
      [] s = "-Infinity" -> -Infinity
      [] OTHER -> IF \E n \in Numerals : IntText(n) = s
                  THEN CHOOSE n \in Numerals : IntText(n) = s
                  ELSE NaN

(***************************************************************************)
(* Scalars.                                                                *)
(***************************************************************************)
AsText(v) ==
    CASE v.t \in {"string", "bytes"}  -> Some(v.v)
      [] v.t \in {"number", "bigint"} -> Some(NumberText(v.v))
      [] OTHER -> None

DecodeString(v) == AsText(v)

DecodeOptionString(v) ==
    IF v = Nil THEN Ok(None) ELSE Map(AsText(v), Some)

DecodeNumber(v) ==
    CASE v.t \in {"number", "bigint"} -> Ok(v.v)
      [] v.t = "string" -> IF v.v = "" \/ TextNumber(v.v) = NaN THEN Failed
                                                             ELSE Ok(TextNumber(v.v))
      [] OTHER -> Failed

DecodeBoolean(v) ==
    CASE v.t = "boolean" -> Ok(v.v)
      [] v.t \in {"number", "bigint"} -> Ok(v.v # 0)
      [] v.t = "string" /\ v.v \in {"1", "true"}  -> Ok(TRUE)
      [] v.t = "string" /\ v.v \in {"0", "false"} -> Ok(FALSE)
      [] OTHER -> Failed

\* -2 (no key) and -1 (no expiry) are both None.
DecodeTtlSeconds(v) ==
    LET seconds(n) == IF n < 0 THEN None ELSE Some(n) IN Map(DecodeNumber(v), seconds)

\* Redis says "inf" where JavaScript says "Infinity".
FloatOfText(s) ==
    CASE s \in {"inf", "+inf"} -> Ok(Infinity)
      [] s = "-inf" -> Ok(-Infinity)
      [] s = "nan"  -> Ok(NaN)
      [] OTHER -> IF TextNumber(s) = NaN THEN Failed ELSE Ok(TextNumber(s))
DecodeFloat(v) == IF v.t = "number" THEN Ok(v.v) ELSE AndThen(AsText(v), FloatOfText)

DecodeOptionFloat(v) == IF v = Nil THEN Ok(None) ELSE Map(DecodeFloat(v), Some)
DecodeOptionNumber(v) == IF v = Nil THEN Ok(None) ELSE Map(DecodeNumber(v), Some)

(***************************************************************************)
(* Arrays, records and scored members.                                     *)
(***************************************************************************)
DecodeArray(v) == IF v.t = "array" THEN Ok(v.v) ELSE Failed

ArrayOf(v, F(_)) == IF DecodeArray(v) = Failed THEN Failed ELSE ForEach(DecodeArray(v)[1], F)

DecodeStringArray(v) == ArrayOf(v, DecodeString)

DecodeOptionStrings(v) == ArrayOf(v, DecodeOptionString)

\* The words of a sequence of pairs one after the other, and back.
Flat(pairs) == [i \in 1..(2 * Len(pairs)) |-> pairs[(i + 1) \div 2][IF i % 2 = 1 THEN 1 ELSE 2]]
PairsOf(xs) == [i \in 1..(Len(xs) \div 2) |-> << xs[2 * i - 1], xs[2 * i] >>]

\* Entries assigned one after the other: the last one of a field stays.
RecordOf(entries) ==
    [field \in {entries[i][1] : i \in DOMAIN entries} |->
        LET last == SelectLastInSeq(entries, LAMBDA e : e[1] = field) IN entries[last][2]]

RecordFromFlat(xs) ==
    LET record(texts) == RecordOf(PairsOf(texts))
    IN  IF Len(xs) % 2 # 0 THEN Failed ELSE Map(ForEach(xs, DecodeString), record)

FlatRecordOnly(v) ==                                       \* mutant: RESP2 shape only
    CASE v = Nil       -> Ok(RecordOf(<< >>))
      [] v.t = "array" -> RecordFromFlat(v.v)
      [] OTHER         -> Failed

\* HGETALL: a flat array, or an object.
DecodeRecord(v) ==
    LET entry(e) == LET named(s) == << e[1], s >> IN Map(DecodeString(e[2]), named)
    IN  CASE v.t = "null"   -> Ok(RecordOf(<< >>))
          [] v.t = "array"  -> RecordFromFlat(v.v)
          [] v.t = "object" -> Map(ForEach(v.v, entry), RecordOf)
          [] OTHER          -> Failed

DecodePair(v, F(_), G(_)) ==
    IF v.t # "array" \/ Len(v.v) # 2 THEN Failed ELSE All(<< F(v.v[1]), G(v.v[2]) >>)

DecodeScorePair(v) == DecodePair(v, DecodeString, DecodeFloat)

\* WITHSCORES: a flat array, or pairs.
PairedScores(xs) ==
    IF xs = << >> THEN Ok(<< >>)
    ELSE IF xs[1].t = "array" THEN ForEach(xs, DecodeScorePair)
    ELSE IF Len(xs) % 2 # 0 THEN Failed
    ELSE ForEach([i \in DOMAIN PairsOf(xs) |-> Arr(PairsOf(xs)[i])], DecodeScorePair)

DecodeScoredMembers(v) == AndThen(DecodeArray(v), PairedScores)

(***************************************************************************)
(* Streams and groups. An entry is << id, fields >>.                       *)
(***************************************************************************)
DecodeEntry(v) == DecodePair(v, DecodeString, DecodeRecord)

DecodeEntries(v) == IF v = Nil THEN Ok(<< >>) ELSE ArrayOf(v, DecodeEntry)

NoDataFails(v) ==                                          \* mutant: nil is an error
    LET pair(p) == DecodePair(p, DecodeString, DecodeEntries)
        named(e) == All(<< Ok(e[1]), DecodeEntries(e[2]) >>)
    IN  CASE v.t = "array"  -> ForEach(v.v, pair)
          [] v.t = "object" -> ForEach(v.v, named)
          [] OTHER          -> Failed

\* XREAD and XREADGROUP; no data is the empty list, which the loops rely on.
DecodeStreamReads(v) ==
    LET pair(p) == DecodePair(p, DecodeString, DecodeEntries)
        named(e) == All(<< Ok(e[1]), DecodeEntries(e[2]) >>)
    IN  CASE v.t = "null"   -> Ok(<< >>)
          [] v.t = "array"  -> ForEach(v.v, pair)
          [] v.t = "object" -> ForEach(v.v, named)
          [] OTHER          -> Failed

\* << cursor, entries, deleted >>; Redis 6.2 sends no list of the deleted.
DecodeXautoclaim(v) ==
    LET deleted == IF Len(v.v) < 3 THEN Nil ELSE v.v[3]
    IN  IF v.t # "array" \/ Len(v.v) < 2 THEN Failed
        ELSE All(<< DecodeString(v.v[1]), DecodeEntries(v.v[2]),
                    IF deleted = Nil THEN Ok(<< >>) ELSE DecodeStringArray(deleted) >>)

\* << count, min id, max id, << consumer, count >>s >>.
DecodePendingSummary(v) ==
    LET consumer(p) == DecodePair(p, DecodeString, DecodeNumber)
        consumers(r) == IF r = Nil THEN Ok(<< >>) ELSE ArrayOf(r, consumer)
    IN  IF v.t # "array" \/ Len(v.v) < 4 THEN Failed
        ELSE All(<< DecodeNumber(v.v[1]), DecodeOptionString(v.v[2]),
                    DecodeOptionString(v.v[3]), consumers(v.v[4]) >>)

\* Rows of << id, consumer, idle, deliveries >>.
DecodePendingEntries(v) ==
    LET row(r) == IF r.t # "array" \/ Len(r.v) # 4 THEN Failed
                  ELSE All(<< DecodeString(r.v[1]), DecodeString(r.v[2]),
                              DecodeNumber(r.v[3]), DecodeNumber(r.v[4]) >>)
    IN  IF v = Nil THEN Ok(<< >>) ELSE ArrayOf(v, row)

ScalarText(v) ==
    IF v.t = "boolean" THEN Some(IF v.v THEN "true" ELSE "false") ELSE AsText(v)

\* Of the entries of XINFO, those with a name and a scalar; the last one of a name stays.
ScalarFields(entries) ==
    LET scalars == { i \in DOMAIN entries : /\ entries[i][1] # None
                                            /\ ScalarText(entries[i][2]) # None }
        last(field) == Max({ i \in scalars : entries[i][1] = Some(field) })
    IN  [field \in { entries[i][1][1] : i \in scalars } |-> ScalarText(entries[last(field)][2])[1]]

\* XINFO: interleaved, or named entries.
DecodeInfoRecord(v) ==
    CASE v.t = "null"   -> Ok(RecordOf(<< >>))
      [] v.t = "array"  -> LET pairs == PairsOf(v.v) IN
            Ok(ScalarFields([i \in DOMAIN pairs |-> << ScalarText(pairs[i][1]), pairs[i][2] >>]))
      [] v.t = "object" ->
            Ok(ScalarFields([i \in DOMAIN v.v |-> << Some(v.v[i][1]), v.v[i][2] >>]))
      [] OTHER          -> Failed

DecodeInfoRecordArray(v) == IF v = Nil THEN Ok(<< >>) ELSE ArrayOf(v, DecodeInfoRecord)

(***************************************************************************)
(* The replies of a server that speaks RESP `proto`.                       *)
(***************************************************************************)
OptionReply(o, F(_)) == IF o = None THEN Nil ELSE F(o[1])
FlagReply(proto, b) == IF proto = 3 THEN Bool(b) ELSE Num(IF b THEN 1 ELSE 0)
ArrayReply(xs, F(_)) == Arr([i \in DOMAIN xs |-> F(xs[i])])

ScoreText(n) == CASE n = Infinity -> "inf" [] n = -Infinity -> "-inf" [] OTHER -> IntText(n)
ScoreReply(proto, n) == IF proto = 3 THEN Num(n) ELSE Str(ScoreText(n))

\* A record in any order of its fields.
RecordReply(proto, record) ==
    LET fields == SetToSeq(DOMAIN record)
        flat == Flat([i \in DOMAIN fields |-> << fields[i], record[fields[i]] >>])
    IN  IF proto = 3 THEN Obj([i \in DOMAIN fields |-> << fields[i], Str(record[fields[i]]) >>])
                     ELSE ArrayReply(flat, Str)

\* Members with their scores, in the order of the set.
ScoredReply(proto, members) ==
    LET pair(m) == << Str(m[1]), ScoreReply(proto, m[2]) >>
        pairs == [i \in DOMAIN members |-> pair(members[i])]
    IN  IF proto = 3 THEN ArrayReply(pairs, Arr) ELSE Arr(Flat(pairs))

EntriesReply(proto, entries) ==
    LET reply(e) == Arr(<< Str(e[1]), RecordReply(proto, e[2]) >>) IN ArrayReply(entries, reply)

ReadsReply(proto, key, entries) ==
    IF entries = << >> THEN Nil
    ELSE IF proto = 3 THEN Obj(<< << key, EntriesReply(proto, entries) >> >>)
    ELSE Arr(<< Arr(<< Str(key), EntriesReply(proto, entries) >>) >>)

\* Redis 6.2 has no third element.
AutoclaimReply(proto, cursor, entries) ==
    LET reply == << Str(cursor), EntriesReply(proto, entries) >>
    IN  Arr(IF proto = 3 THEN Append(reply, Arr(<< >>)) ELSE reply)

\* rows of << id, consumer, idle, deliveries >>, in the order of the ids.
PendingEntriesReply(rows) ==
    LET reply(r) == Arr(<< Str(r[1]), Str(r[2]), Num(r[3]), Num(r[4]) >>)
    IN  ArrayReply(rows, reply)

PendingSummaryReply(rows, counts) ==
    LET count(c) == Arr(<< Str(c[1]), Str(IntText(c[2])) >>)
    IN  Arr(IF rows = << >> THEN << Num(0), Nil, Nil, Nil >>
            ELSE << Num(Len(rows)), Str(rows[1][1]), Str(rows[Len(rows)][1]),
                    ArrayReply(counts, count) >>)

\* XINFO STREAM: some counters, and the first entry nested among them.
InfoReply(proto, info, nested) ==
    LET fields == SetToSeq(DOMAIN info)
        entries == [i \in DOMAIN fields |-> << fields[i], Num(info[fields[i]]) >>]
        all == << << "first-entry", nested >> >> \o entries
    IN  IF proto = 3 THEN Obj(all)
        ELSE Arr(Flat([i \in DOMAIN all |-> << Str(all[i][1]), all[i][2] >>]))
=============================================================================
