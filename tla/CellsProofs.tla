---------------------------- MODULE CellsProofs ----------------------------
(***************************************************************************)
(* Proofs about Cells and TypedCell for every kind, every set of items and *)
(* payloads, every lifetime and any number of fibers, in both protocols.   *)
(***************************************************************************)
EXTENDS TypedCell, FiniteSetTheorems, SequenceTheorems, TLAPS

(***************************************************************************)
(* The lifetime of a key (Cells).                                          *)
(***************************************************************************)

\* A fiber that is to stamp has its item in the key, or knows that it went away.
StampInv ==
    \A f \in Fibers :
        /\ todo[f].step = "set" => kind = "ref"
        /\ todo[f].step = "stamp" =>
              kind # "ref" /\ (todo[f].gone \/ todo[f].item \in DOMAIN content)

CellInv == TypeOK /\ StampInv /\ NoKeyStaysForever

\* EX and EXPIRE round up to whole seconds, at least one.
LEMMA LifetimeCovers ==
    ASSUME NEW d \in Nat
    PROVE  Lifetime(d) \in Nat /\ Lifetime(d) > 0 /\ Lifetime(d) >= d
<1>1. (d + 4 - 1) \div 4 \in Nat /\ 4 * ((d + 4 - 1) \div 4) >= d
  OBVIOUS
<1>2. Lifetime(d) = AtLeast(1, (d + 4 - 1) \div 4) * 4
  BY DEF Lifetime, ExpirySeconds, Ceiling, Second
<1> QED
  BY <1>1, <1>2 DEF AtLeast

\* A lifetime that a write asks for is positive, and there is one if the cell
\* has one and the write does not keep what is there.
LEMMA AskedIsPositive ==
    ASSUME TypeOK, NEW opts \in Options
    PROVE  /\ Asked(opts) # None => Asked(opts)[1] \in Nat \ {0}
           /\ ttl # None /\ ~opts.keepTtl => Asked(opts) # None
           /\ opts.keepTtl => Asked(opts) = None
<1>1. opts.ttl \in {None, Some(Own)} /\ opts.keepTtl \in BOOLEAN
  BY DEF Options
<1>2. Some(Own) # None /\ Some(Own)[1] = Own
  BY DEF Some, None
<1> QED
  BY <1>1, <1>2, CellsAssumption DEF Asked, TypeOK

\* What a SET of a ref makes of the key.
LEMMA StoreRefKeeps ==
    ASSUME CellInv, kind = "ref", NEW payload, NEW opts \in Options, StoreRef(payload, opts),
           UNCHANGED << kind, ttl >>
    PROVE  /\ DOMAIN content' \subseteq Items[kind'] \cup {Bad} /\ DOMAIN content' # {}
           /\ DOMAIN content \subseteq DOMAIN content'
           /\ left' \in Nat /\ bare' \subseteq { "kept", "failed" }
           /\ NoKeyStaysForever'
<1>1. DOMAIN content' = DOMAIN content \cup {"value"}
  BY DEF StoreRef, Put
<1>2. Items[kind] = {"value"} /\ DOMAIN content \subseteq Items[kind] \cup {Bad}
  BY CellsAssumption DEF CellInv, TypeOK
<1>3. left \in Nat /\ bare \subseteq { "kept", "failed" } /\ opts.keepTtl \in BOOLEAN
  BY DEF CellInv, TypeOK, Options
<1>4. CASE opts.keepTtl
  <2>1. left' = left /\ bare' = IF Exists THEN bare ELSE {"kept"}
    BY <1>4 DEF StoreRef
  <2>2. \A f \in Fibers : todo[f].step # "stamp"
    BY DEF CellInv, StampInv
  <2>3. Exists /\ left = NoTtl /\ ttl # None => bare # {}
    BY <2>2 DEF CellInv, NoKeyStaysForever
  <2> QED
    BY <1>1, <1>2, <1>3, <2>1, <2>3 DEF NoKeyStaysForever
<1>5. CASE ~opts.keepTtl
  <2>1. bare' = {} /\ left' = IF Asked(opts) = None THEN NoTtl ELSE Lifetime(Asked(opts)[1])
    BY <1>5 DEF StoreRef
  <2>2. /\ Asked(opts) # None => Asked(opts)[1] \in Nat
        /\ ttl # None => Asked(opts) # None
    BY <1>5, AskedIsPositive DEF CellInv
  <2>3. left' \in Nat /\ (ttl # None => left' > 0)
    BY <2>1, <2>2, LifetimeCovers DEF NoTtl
  <2> QED
    BY <1>1, <1>2, <2>1, <2>3 DEF NoKeyStaysForever, NoTtl
<1> QED
  BY <1>3, <1>4, <1>5

\* Items that go away take the key along when they are the last, and each fiber
\* that is to stamp one of them knows.
LEMMA LoseKeeps ==
    ASSUME CellInv, NEW items, Lose(items), UNCHANGED << kind, ttl >>
    PROVE  CellInv'
<1>1. /\ DOMAIN content' = DOMAIN content \ items
      /\ DOMAIN content \subseteq items => left' = NoTtl /\ bare' = {}
      /\ ~(DOMAIN content \subseteq items) => left' = left /\ bare' = bare
  BY DEF Lose
<1>2. \A f \in Fibers :
         todo'[f] = IF todo[f].item \in items THEN [todo[f] EXCEPT !.gone = TRUE] ELSE todo[f]
  BY DEF Lose
<1>3. TypeOK'
  <2>1. \A f \in Fibers : todo[f] \in ToSend /\ [todo[f] EXCEPT !.gone = TRUE] \in ToSend
    BY DEF CellInv, TypeOK, ToSend
  <2>2. todo' \in [Fibers -> ToSend]
    BY <2>1 DEF Lose
  <2>3. ToSend' = ToSend
    BY DEF ToSend
  <2>4. CASE DOMAIN content \subseteq items
    BY <1>1, <2>2, <2>3, <2>4 DEF CellInv, TypeOK, NoTtl
  <2>5. CASE ~(DOMAIN content \subseteq items)
    <3>1. Exists' /\ DOMAIN content' \subseteq DOMAIN content
      BY <1>1, <2>5 DEF Exists
    <3> QED
      BY <1>1, <2>2, <2>3, <2>5, <3>1 DEF CellInv, TypeOK
  <2> QED
    BY <2>4, <2>5
<1>4. \A f \in Fibers : /\ todo'[f].step = todo[f].step /\ todo'[f].item = todo[f].item
                        /\ todo'[f].gone = (todo[f].gone \/ todo[f].item \in items)
  <2>1. \A f \in Fibers : todo[f] \in ToSend
    BY DEF CellInv, TypeOK
  <2> QED
    BY <1>2, <2>1 DEF ToSend
<1>5. StampInv'
  BY <1>1, <1>4 DEF CellInv, StampInv
<1>6. NoKeyStaysForever'
  BY <1>1, <1>4 DEF CellInv, NoKeyStaysForever, Exists
<1> QED
  BY <1>3, <1>5, <1>6 DEF CellInv

\* What a fiber is to send after a write to a collection,
LEMMA StampCommand ==
    ASSUME NEW item \in Items[kind], NEW asked \in Nat
    PROVE  /\ [Nothing EXCEPT !.step = "stamp", !.item = item, !.asked = asked] \in ToSend
           /\ [Nothing EXCEPT !.step = "stamp", !.item = item, !.asked = asked].step = "stamp"
           /\ [Nothing EXCEPT !.step = "stamp", !.item = item, !.asked = asked].item = item
BY DEF Nothing, ToSend, Steps

\* ... after a GET,
LEMMA UpdateCommand ==
    ASSUME kind = "ref", NEW p \in Payloads[kind], NEW keep \in BOOLEAN
    PROVE  /\ [Nothing EXCEPT !.step = "set", !.payload = p, !.keepTtl = keep] \in ToSend
           /\ [Nothing EXCEPT !.step = "set", !.payload = p, !.keepTtl = keep].step = "set"
BY DEF Nothing, ToSend, Steps

\* ... and when it is done.
LEMMA NothingToSend == Nothing \in ToSend /\ Nothing.step = "none"
BY DEF Nothing, ToSend, Steps

\* A write to a collection, which leaves an EXPIRE to send.
LEMMA WriteKeeps ==
    ASSUME CellInv, NEW f \in Fibers, NEW item \in Items[kind], NEW payload, NEW opts \in Options,
           Write(f, item, payload, opts)
    PROVE  CellInv'
<1> DEFINE stamp == [Nothing EXCEPT !.step = "stamp", !.item = item, !.asked = Asked(opts)[1]]
<1>1. /\ kind # "ref" /\ todo[f] = Nothing /\ UNCHANGED << kind, ttl, left >>
      /\ DOMAIN content' = DOMAIN content \cup {item}
      /\ bare' = IF Exists \/ Asked(opts) # None THEN bare ELSE {"kept"}
      /\ todo' = IF Asked(opts) = None THEN todo ELSE [todo EXCEPT ![f] = stamp]
  BY DEF Write, Put
<1>2. Asked(opts) # None => Asked(opts)[1] \in Nat
  BY AskedIsPositive DEF CellInv
<1>a. Asked(opts) # None => stamp \in ToSend /\ stamp.step = "stamp" /\ stamp.item = item
  <2>1. ASSUME NEW a \in Nat, a = Asked(opts)[1]
        PROVE  stamp \in ToSend /\ stamp.step = "stamp" /\ stamp.item = item
    <3>1. stamp = [Nothing EXCEPT !.step = "stamp", !.item = item, !.asked = a]
      BY <2>1
    <3> HIDE DEF stamp
    <3> QED
      BY <3>1, StampCommand
  <2> HIDE DEF stamp
  <2> QED
    BY <1>2, <2>1
<1> HIDE DEF stamp
<1>3. /\ todo' \in [Fibers -> ToSend]
      /\ \A g \in Fibers : g # f => todo'[g] = todo[g]
      /\ Asked(opts) = None => todo' = todo
      /\ Asked(opts) # None => todo'[f] = stamp
  BY <1>1, <1>a DEF CellInv, TypeOK
<1>4. TypeOK'
  <2>1. Exists' /\ ToSend' = ToSend
    BY <1>1 DEF Exists, ToSend
  <2> QED
    BY <1>1, <1>3, <2>1 DEF CellInv, TypeOK
<1>5. todo[f].step = "none"
  BY <1>1, NothingToSend
<1>6. StampInv'
  <2> SUFFICES ASSUME NEW g \in Fibers
               PROVE  /\ todo'[g].step = "set" => kind' = "ref"
                      /\ todo'[g].step = "stamp" =>
                            kind' # "ref" /\ (todo'[g].gone \/ todo'[g].item \in DOMAIN content')
    BY DEF StampInv
  <2>1. CASE todo'[g] = todo[g]
    BY <1>1, <2>1 DEF CellInv, StampInv
  <2>2. CASE todo'[g] = stamp /\ Asked(opts) # None
    BY <1>1, <1>a, <2>2
  <2> QED
    BY <1>3, <2>1, <2>2
<1>7. NoKeyStaysForever'
  <2>1. CASE Asked(opts) = None
    <3>1. todo' = todo
      BY <1>3, <2>1
    <3> QED
      BY <1>1, <2>1, <3>1 DEF CellInv, NoKeyStaysForever, Exists
  <2>2. CASE Asked(opts) # None
    <3>1. todo'[f].step = "stamp"
      BY <1>3, <1>a, <2>2
    <3> QED
      BY <3>1 DEF NoKeyStaysForever
  <2> QED
    BY <2>1, <2>2
<1> QED
  BY <1>4, <1>6, <1>7 DEF CellInv

\* What a fiber leaves when it has nothing more to send.
LEMMA NothingLeft ==
    ASSUME CellInv, NEW f \in Fibers, todo' = [todo EXCEPT ![f] = Nothing], UNCHANGED kind
    PROVE  /\ todo' \in [Fibers -> ToSend] /\ ToSend' = ToSend
           /\ todo'[f].step = "none"
           /\ \A g \in Fibers : g # f => todo'[g] = todo[g]
<1>1. Nothing \in ToSend /\ ToSend' = ToSend /\ Nothing.step = "none"
  BY NothingToSend DEF ToSend
<1> QED
  BY <1>1 DEF CellInv, TypeOK

\* An EXPIRE, or its loss.
LEMMA StampKeeps ==
    ASSUME CellInv, NEW f \in Fibers, Stamp(f) \/ Abandon(f)
    PROVE  CellInv'
<1>1. /\ todo' = [todo EXCEPT ![f] = Nothing] /\ UNCHANGED << kind, ttl, content >>
      /\ todo[f].asked \in Nat
  BY DEF Stamp, Abandon, CellInv, TypeOK, ToSend
<1>2. Lifetime(todo[f].asked) \in Nat /\ Lifetime(todo[f].asked) > 0
  BY <1>1, LifetimeCovers
<1>3. TypeOK'
  BY <1>1, <1>2, NothingLeft DEF Stamp, Abandon, CellInv, TypeOK, Exists
<1>4. StampInv'
  BY <1>1, NothingLeft DEF CellInv, StampInv
<1>5. NoKeyStaysForever'
  BY <1>1, <1>2, NothingLeft DEF Stamp, Abandon, CellInv, NoKeyStaysForever, Exists, NoTtl
<1> QED
  BY <1>3, <1>4, <1>5 DEF CellInv

\* A step that changes neither the fibers nor which lifetime there is to come.
LEMMA KeyKeeps ==
    ASSUME CellInv, UNCHANGED << kind, ttl, todo >>,
           DOMAIN content \subseteq DOMAIN content', DOMAIN content' \subseteq Items[kind] \cup {Bad},
           DOMAIN content' # {}, left' \in Nat, bare' \subseteq { "kept", "failed" },
           NoKeyStaysForever'
    PROVE  CellInv'
BY DEF CellInv, TypeOK, ToSend, StampInv, Exists

\* The invariant of a cell: its types, and where a lifetime may be missing.
THEOREM CellInvHolds == Spec => []CellInv
<1>1. Init => CellInv
  <2>1. Nothing \in ToSend /\ Nothing.step = "none"
    BY NothingToSend
  <2>2. DOMAIN Empty = {}
    BY DEF Empty
  <2> QED
    BY <2>1, <2>2 DEF Init, CellInv, TypeOK, StampInv, NoKeyStaysForever, Exists, NoTtl
<1>2. CellInv /\ [Next]_vars => CellInv'
  <2> SUFFICES ASSUME CellInv, [Next]_vars PROVE CellInv'
    OBVIOUS
  <2>0. left \in Nat /\ DOMAIN content \subseteq Items[kind] \cup {Bad}
        /\ bare \subseteq { "kept", "failed" }
    BY DEF CellInv, TypeOK
  <2>1. ASSUME NEW f \in Fibers, NEW p \in Payloads[kind], NEW keep \in BOOLEAN,
               UpdateRead(f, p, keep)
        PROVE  CellInv'
    <3> DEFINE new == [Nothing EXCEPT !.step = "set", !.payload = p, !.keepTtl = keep]
    <3>1. /\ kind = "ref" /\ todo[f] = Nothing /\ todo' = [todo EXCEPT ![f] = new]
          /\ UNCHANGED << kind, ttl, content, left, bare >>
      BY <2>1 DEF UpdateRead
    <3>a. new \in ToSend /\ new.step = "set"
      BY <3>1, UpdateCommand
    <3> HIDE DEF new
    <3>2. TypeOK'
      <4>1. ToSend' = ToSend
        BY <3>1 DEF ToSend
      <4> QED
        BY <3>1, <3>a, <4>1 DEF CellInv, TypeOK, Exists
    <3>3. \A g \in Fibers : todo'[g] = IF g = f THEN new ELSE todo[g]
      BY <3>1 DEF CellInv, TypeOK
    <3>4. StampInv'
      BY <3>1, <3>a, <3>3 DEF CellInv, StampInv
    <3>5. NoKeyStaysForever'
      BY <3>1, <3>a, <3>3 DEF CellInv, StampInv, NoKeyStaysForever, Exists
    <3> QED
      BY <3>2, <3>4, <3>5 DEF CellInv
  <2>2. ASSUME NEW f \in Fibers, UpdateSet(f) PROVE CellInv'
    <3> DEFINE opts == [ttl |-> None, keepTtl |-> todo[f].keepTtl]
    <3>1. /\ todo[f].step = "set" /\ kind = "ref" /\ StoreRef(todo[f].payload, opts)
          /\ todo' = [todo EXCEPT ![f] = Nothing] /\ UNCHANGED << kind, ttl >>
          /\ opts \in Options
      BY <2>2 DEF UpdateSet, CellInv, StampInv, TypeOK, ToSend, Options
    <3> HIDE DEF opts
    <3>2. /\ DOMAIN content' \subseteq Items[kind'] \cup {Bad} /\ DOMAIN content' # {}
          /\ DOMAIN content \subseteq DOMAIN content'
          /\ left' \in Nat /\ bare' \subseteq { "kept", "failed" }
          /\ NoKeyStaysForever'
      BY <3>1, StoreRefKeeps
    <3>3. TypeOK'
      BY <3>1, <3>2, NothingLeft DEF CellInv, TypeOK, Exists
    <3>4. StampInv'
      BY <3>1, <3>2, NothingLeft DEF CellInv, StampInv
    <3> QED
      BY <3>2, <3>3, <3>4 DEF CellInv
  <2>3. ASSUME NEW p \in Payloads[kind], NEW o \in Options, RefSet(p, o) PROVE CellInv'
    <3>1. kind = "ref" /\ StoreRef(p, o) /\ UNCHANGED << kind, ttl, todo >>
      BY <2>3 DEF RefSet
    <3> QED
      BY <3>1, StoreRefKeeps, KeyKeeps
  <2>4. ASSUME NEW i \in Items[kind],
               SetRemove(i) \/ ZsetRemove(i) \/ HashRemove(i)
        PROVE  CellInv'
    BY <2>4, LoseKeeps DEF SetRemove, ZsetRemove, HashRemove, RemoveItem
  <2>5. CASE Delete
    BY <2>5, LoseKeeps DEF Delete
  <2>6. CASE ExpireCall
    <3>1. /\ Exists /\ left' = Lifetime(Own) /\ bare' = {} /\ UNCHANGED << kind, ttl, content, todo >>
      BY <2>6 DEF ExpireCall
    <3>2. left' \in Nat /\ left' > 0
      BY <3>1, LifetimeCovers, CellsAssumption
    <3>3. NoKeyStaysForever'
      BY <3>1, <3>2 DEF NoKeyStaysForever, NoTtl
    <3> QED
      BY <2>0, <3>1, <3>2, <3>3, KeyKeeps DEF Exists
  <2>7. ASSUME NEW i \in Items[kind], Spoil(i) PROVE CellInv'
    <3>1. /\ DOMAIN content' = DOMAIN content \cup {i} \/ DOMAIN content' = DOMAIN content \cup {Bad}
          /\ Exists /\ UNCHANGED << kind, ttl, left, todo, bare >>
      BY <2>7 DEF Spoil, Put
    <3>2. NoKeyStaysForever'
      BY <3>1 DEF CellInv, NoKeyStaysForever, Exists
    <3> QED
      BY <2>0, <3>1, <3>2, KeyKeeps
  <2>8. CASE Tick
    <3>1. CASE left > Second
      <4>1. left' = left - Second /\ UNCHANGED << kind, ttl, content, todo, bare >>
        BY <2>8, <3>1 DEF Tick
      <4>2. left' \in Nat /\ left' # NoTtl
        BY <2>0, <3>1, <4>1 DEF Second, NoTtl
      <4>3. Exists /\ NoKeyStaysForever'
        BY <2>8, <4>1, <4>2 DEF Tick, CellInv, TypeOK, NoKeyStaysForever
      <4> QED
        BY <2>0, <4>1, <4>2, <4>3, KeyKeeps DEF Exists
    <3>2. CASE ~(left > Second)
      BY <2>8, <3>2, LoseKeeps DEF Tick
    <3> QED
      BY <3>1, <3>2
  <2>9. ASSUME NEW f \in Fibers, Call(f) PROVE CellInv'
    BY <2>1, <2>2, <2>9, WriteKeeps, StampKeeps DEF Call, SetAdd, ZsetAdd, ZsetIncrBy, HashSet
  <2>10. CASE UNCHANGED vars
    BY <2>10 DEF vars, CellInv, TypeOK, ToSend, StampInv, NoKeyStaysForever, Exists
  <2> QED
    BY <2>3, <2>4, <2>5, <2>6, <2>7, <2>8, <2>9, <2>10 DEF Next
<1> QED
  BY <1>1, <1>2, PTL DEF Spec

\* The types of the key and of the commands to come.
THEOREM TypeCorrect == Spec => []TypeOK
BY CellInvHolds, PTL DEF CellInv

\* A key without the configured lifetime is explained (Redis.ts:600-612).
THEOREM NoKeyStaysForeverHolds == Spec => []NoKeyStaysForever
BY CellInvHolds, PTL DEF CellInv

\* An add that reports success has stamped its item for what it asked for
\* (Redis.ts:603-612, RedisCommand.ts:14).
THEOREM StampedInFullHolds == Spec => StampedInFull
<1>1. CellInv /\ [Next]_vars =>
         [\A f \in Fibers : Stamp(f) =>
             todo[f].gone \/ (todo[f].item \in DOMAIN content' /\ left' >= todo[f].asked)]_vars
  <2> SUFFICES ASSUME CellInv, NEW f \in Fibers, Stamp(f), ~todo[f].gone
               PROVE  todo[f].item \in DOMAIN content' /\ left' >= todo[f].asked
    OBVIOUS
  <2>1. todo[f].item \in DOMAIN content /\ todo[f].asked \in Nat
    BY DEF Stamp, CellInv, StampInv, TypeOK, ToSend
  <2>2. left' = Lifetime(todo[f].asked) /\ content' = content
    BY <2>1 DEF Stamp, Exists
  <2> QED
    BY <2>1, <2>2, LifetimeCovers
<1> QED
  BY <1>1, CellInvHolds, PTL DEF Spec, StampedInFull

(***************************************************************************)
(* What is read of a reply and what Redis reads in a command (TypedCell).  *)
(* Texts, numbers and lists first, then the reply to each read and the     *)
(* command of each write.                                                  *)
(***************************************************************************)

\* Numbers are read back from their texts.
LEMMA NumeralText ==
    ASSUME NEW n \in Numerals
    PROVE  /\ TextNumber(IntText(n)) = n
           /\ n \in Int /\ -Infinity < n /\ n < Infinity
           /\ IntText(n) \notin OtherTexts
<1>1. n \in Int /\ -Infinity < n /\ n < Infinity
  BY NumeralsAssumption
<1> DEFINE s == IntText(n)
<1>2. s \notin OtherTexts /\ \A m \in Numerals : IntText(m) = s => m = n
  BY NumeralsAssumption
<1>3. (CHOOSE m \in Numerals : IntText(m) = s) = n
  BY <1>2
<1>4. TextNumber(s) = n
  BY <1>2, <1>3 DEF TextNumber, OtherTexts
<1> QED
  BY <1>1, <1>2, <1>4

\* Text and number replies.
LEMMA Scalars ==
    /\ \A s : AsText(Str(s)) = Some(s) /\ DecodeString(Str(s)) = Ok(s)
    /\ \A s : Str(s) # Nil /\ Str(s).t = "string" /\ Str(s).v = s
    /\ \A n : Num(n) # Nil /\ DecodeNumber(Num(n)) = Ok(n) /\ DecodeFloat(Num(n)) = Ok(n)
    /\ \A xs : Arr(xs) # Nil /\ Arr(xs).t = "array" /\ Arr(xs).v = xs
BY DEF AsText, DecodeString, DecodeNumber, DecodeFloat, Str, Num, Arr, Nil, Some, Ok

\* A flag says the same in both protocols.
LEMMA Flags ==
    ASSUME NEW b \in BOOLEAN, NEW proto \in Protocols
    PROVE  DecodeBoolean(FlagReply(proto, b)) = Ok(b)
BY DEF DecodeBoolean, FlagReply, Ok, Bool, Num, Protocols

\* Scores are read back, from a reply and from a command.
LEMMA ScoreTexts ==
    ASSUME NEW n \in Scores
    PROVE  /\ \A proto \in Protocols : DecodeFloat(ScoreReply(proto, n)) = Ok(n)
           /\ \A proto \in Protocols : ScoreReply(proto, n) # Nil /\ ScoreReply(proto, n).t # "array"
           /\ ReadScore(FormatScore(n)) = Ok(n)
<1>1. n \in Int /\ Infinity \in Nat \ {0}
  BY NumeralText, NumeralsAssumption DEF Scores
<1> DEFINE s == ScoreText(n)
<1>2. FormatScore(n) = s
  BY DEF FormatScore, ScoreText
<1>a. ASSUME NEW x PROVE DecodeFloat(Str(x)) = FloatOfText(x)
  BY Scalars DEF DecodeFloat, AndThen, Some, Failed
<1>3. s \notin {"Infinity", "-Infinity"} /\ FloatOfText(s) = Ok(n)
  <2>1. CASE n = Infinity
    <3>1. s = "inf"
      <4>1. n # -Infinity
        BY <2>1, <1>1
      <4> QED
        BY <2>1, <4>1 DEF ScoreText
    <3> QED
      BY <3>1, <2>1 DEF FloatOfText
  <2>2. CASE n = -Infinity
    <3>1. s = "-inf"
      <4>1. n # Infinity
        BY <2>2, <1>1
      <4> QED
        BY <2>2, <4>1 DEF ScoreText
    <3> QED
      BY <3>1, <2>2 DEF FloatOfText
  <2>3. CASE n \in Numerals
    <3>1. n # Infinity /\ n # -Infinity /\ n # NaN
      BY <2>3, NumeralText, <1>1 DEF NaN
    <3>2. s = IntText(n)
      BY <3>1 DEF ScoreText
    <3>3. s \notin OtherTexts /\ TextNumber(s) = n
      BY <2>3, <3>2, NumeralText
    <3> HIDE DEF s
    <3> QED
      BY <3>1, <3>3 DEF FloatOfText, OtherTexts
  <2> QED
    BY <2>1, <2>2, <2>3 DEF Scores
<1> HIDE DEF s
<1>4. ReadScore(FormatScore(n)) = Ok(n)
  BY <1>2, <1>3, <1>a DEF ReadScore
<1> QED
  BY <1>3, <1>4, <1>a, Scalars DEF ScoreReply, s, Protocols, Num, Str, Nil

\* A list of results.
LEMMA AllOk ==
    ASSUME NEW rs, NEW xs, xs = [i \in DOMAIN xs |-> xs[i]], DOMAIN rs = DOMAIN xs,
           \A i \in DOMAIN xs : rs[i] = Ok(xs[i])
    PROVE  All(rs) = Ok(xs)
<1>1. \A i \in DOMAIN rs : rs[i] # Failed /\ rs[i][1] = xs[i]
  BY DEF Ok, Failed
<1>2. [i \in DOMAIN rs |-> rs[i][1]] = [i \in DOMAIN xs |-> xs[i]]
  BY <1>1
<1> QED
  BY <1>1, <1>2 DEF All

\* One failure fails the list.
LEMMA AllFail ==
    ASSUME NEW rs, NEW i \in DOMAIN rs, rs[i] = Failed
    PROVE  All(rs) = Failed
BY DEF All

\* Lists of texts, and what the schema makes of them.
LEMMA Strings ==
    ASSUME NEW xs, xs = [i \in DOMAIN xs |-> xs[i]]
    PROVE  DecodeStringArray(ArrayReply(xs, Str)) = Ok(xs)
<1> DEFINE v == [i \in DOMAIN xs |-> Str(xs[i])]
           rs == [i \in DOMAIN v |-> DecodeString(v[i])]
<1>1. ArrayReply(xs, Str) = Arr(v)
  BY DEF ArrayReply
<1>2. DecodeArray(Arr(v)) # Failed /\ DecodeArray(Arr(v))[1] = v
  BY DEF DecodeArray, Arr, Ok, Failed
<1>3. DecodeStringArray(Arr(v)) = ForEach(v, DecodeString)
  BY <1>2 DEF DecodeStringArray, ArrayOf
<1>4. DecodeStringArray(Arr(v)) = All(rs)
  BY <1>3 DEF ForEach
<1>5. DOMAIN rs = DOMAIN xs /\ \A i \in DOMAIN xs : rs[i] = Ok(xs[i])
  BY Scalars
<1> HIDE DEF rs, v
<1> QED
  BY <1>1, <1>4, <1>5, AllOk

\* A list decodes to itself, unless the schema rejects one of its texts.
LEMMA EachDecodes ==
    ASSUME NEW xs, xs = [i \in DOMAIN xs |-> xs[i]]
    PROVE  DecodeEach(xs) = IF \E i \in DOMAIN xs : xs[i] = Bad THEN Failed ELSE Ok(xs)
<1> DEFINE rs == [i \in DOMAIN xs |-> Decode(xs[i])]
<1>1. DecodeEach(xs) = All(rs)
  BY DEF DecodeEach, ForEach
<1>2. DOMAIN rs = DOMAIN xs /\ \A i \in DOMAIN xs : rs[i] = IF xs[i] = Bad THEN Failed ELSE Ok(xs[i])
  BY DEF Decode
<1> HIDE DEF rs
<1>3. CASE \E i \in DOMAIN xs : xs[i] = Bad
  BY <1>1, <1>2, <1>3, AllFail
<1>4. CASE \A i \in DOMAIN xs : xs[i] # Bad
  BY <1>1, <1>2, <1>4, AllOk
<1> QED
  BY <1>3, <1>4

\* The elements of a finite set, each once.
LEMMA SetListed ==
    ASSUME NEW S, IsFiniteSet(S)
    PROVE  /\ Cardinality(S) \in Nat
           /\ SetToSeq(S) \in [1..Cardinality(S) -> S]
           /\ \A i, j \in 1..Cardinality(S) : SetToSeq(S)[i] = SetToSeq(S)[j] => i = j
           /\ \A x \in S : \E i \in 1..Cardinality(S) : SetToSeq(S)[i] = x
<1> DEFINE n == Cardinality(S)
<1>1. n \in Nat /\ ExistsBijection(1..n, S)
  BY FS_CardinalityType
<1>2. \E f \in [1..n -> S] : IsInjective(f)
  BY <1>1 DEF ExistsBijection, Bijection, Injection
<1>3. SetToSeq(S) \in [1..n -> S] /\ IsInjective(SetToSeq(S))
  BY <1>2 DEF SetToSeq
<1>4. SetToSeq(S) \in Injection(1..n, S)
  BY <1>3 DEF Injection
<1>5. Cardinality(1..n) = n
  BY <1>1, FS_Interval
<1>6. SetToSeq(S) \in Surjection(1..n, S)
  <2> HIDE DEF n
  <2> QED
    BY <1>4, <1>5, FS_Injection DEF n
<1> HIDE DEF n
<1>7. \A i, j \in 1..n : SetToSeq(S)[i] = SetToSeq(S)[j] => i = j
  BY <1>3 DEF IsInjective
<1>8. \A x \in S : \E i \in 1..n : SetToSeq(S)[i] = x
  BY <1>6 DEF Surjection
<1> QED
  BY <1>1, <1>3, <1>7, <1>8 DEF n

\* The length of what is indexed from 1 to n.
LEMMA Length ==
    ASSUME NEW s, NEW n \in Nat, DOMAIN s = 1..n
    PROVE  Len(s) = n
BY LenProperties

\* A record, field by field, and a list of its fields with their values.
Copy(record) == [f \in DOMAIN record |-> record[f]]

Lists(e, n, record) ==
    /\ DOMAIN e = 1..n
    /\ \A i \in 1..n : e[i][1] \in DOMAIN record /\ e[i][2] = record[e[i][1]]
    /\ \A i, j \in 1..n : e[i][1] = e[j][1] => i = j
    /\ \A f \in DOMAIN record : \E i \in 1..n : e[i][1] = f

\* A record is the same from whatever list of its fields.
LEMMA RecordListed ==
    ASSUME NEW record, NEW e, NEW n \in Nat, Lists(e, n, record)
    PROVE  RecordOf(e) = Copy(record)
<1>1. /\ DOMAIN e = 1..n
      /\ \A i \in 1..n : e[i][1] \in DOMAIN record /\ e[i][2] = record[e[i][1]]
      /\ \A i, j \in 1..n : e[i][1] = e[j][1] => i = j
      /\ \A f \in DOMAIN record : \E i \in 1..n : e[i][1] = f
  BY DEF Lists
<1>2. Len(e) = n
  BY <1>1, Length
<1>3. { e[i][1] : i \in DOMAIN e } = DOMAIN record
  <2>1. \A f \in DOMAIN record : \E i \in DOMAIN e : e[i][1] = f
    BY <1>1
  <2>2. \A i \in DOMAIN e : e[i][1] \in DOMAIN record
    BY <1>1
  <2> DEFINE names == { e[i][1] : i \in DOMAIN e }
  <2>3. \A f : f \in names <=> f \in DOMAIN record
    BY <2>1, <2>2
  <2> HIDE DEF names
  <2>4. names = DOMAIN record
    BY <2>3
  <2> QED
    BY <2>4 DEF names
<1> DEFINE at(f) == e[SelectLastInSeq(e, LAMBDA x : x[1] = f)][2]
<1>4. ASSUME NEW f \in DOMAIN record
      PROVE  at(f) = record[f]
  <2>1. PICK j \in 1..n : e[j][1] = f
    BY <1>1
  <2>a. \A i \in 1..n : e[i][1] = f <=> i = j
    BY <1>1, <2>1
  <2>2. { i \in 1..n : e[i][1] = f } = {j}
    BY <2>1, <2>a
  <2>3. Max({j}) = j
    BY <2>1 DEF Max
  <2>4. SelectLastInSeq(e, LAMBDA x : x[1] = f) = j
    BY <1>2, <2>2, <2>3 DEF SelectLastInSeq
  <2> QED
    BY <1>1, <2>1, <2>4
<1>5. RecordOf(e) = [f \in DOMAIN record |-> at(f)]
  BY <1>3 DEF RecordOf
<1> HIDE DEF at
<1>6. RecordOf(e) = [f \in DOMAIN record |-> record[f]]
  BY <1>4, <1>5
<1> QED
  BY <1>6 DEF Copy

\* Pairs, word by word and back.
LEMMA FlatWords ==
    ASSUME NEW pairs, NEW n \in Nat, DOMAIN pairs = 1..n
    PROVE  /\ Flat(pairs) = [k \in 1..(2 * n) |-> pairs[(k + 1) \div 2][IF k % 2 = 1 THEN 1 ELSE 2]]
           /\ Len(Flat(pairs)) = 2 * n
           /\ \A i \in 1..n : /\ 2 * i - 1 \in 1..(2 * n) /\ 2 * i \in 1..(2 * n)
                              /\ Flat(pairs)[2 * i - 1] = pairs[i][1]
                              /\ Flat(pairs)[2 * i] = pairs[i][2]
<1>1. Len(pairs) = n
  BY Length
<1>2. Flat(pairs) = [k \in 1..(2 * n) |-> pairs[(k + 1) \div 2][IF k % 2 = 1 THEN 1 ELSE 2]]
  BY <1>1 DEF Flat
<1>3. Len(Flat(pairs)) = 2 * n
  <2>1. 2 * n \in Nat
    OBVIOUS
  <2> QED
    BY <1>2, <2>1, Length
<1>4. ASSUME NEW i \in 1..n
      PROVE  /\ 2 * i - 1 \in 1..(2 * n) /\ 2 * i \in 1..(2 * n)
             /\ (2 * i - 1) % 2 = 1 /\ (2 * i) % 2 # 1
             /\ (2 * i - 1 + 1) \div 2 = i /\ (2 * i + 1) \div 2 = i
  OBVIOUS
<1>5. ASSUME NEW i \in 1..n
      PROVE  Flat(pairs)[2 * i - 1] = pairs[i][1] /\ Flat(pairs)[2 * i] = pairs[i][2]
  BY <1>2, <1>4
<1> QED
  BY <1>2, <1>3, <1>4, <1>5

\* A list of pairs is read back from its words.
LEMMA FlatAndBack ==
    ASSUME NEW pairs, NEW n \in Nat, pairs = [i \in 1..n |-> << pairs[i][1], pairs[i][2] >>]
    PROVE  /\ Len(Flat(pairs)) = 2 * n /\ Len(Flat(pairs)) % 2 = 0
           /\ PairsOf(Flat(pairs)) = pairs
<1>1. DOMAIN pairs = 1..n
  OBVIOUS
<1>2. /\ Len(Flat(pairs)) = 2 * n
      /\ \A i \in 1..n : Flat(pairs)[2 * i - 1] = pairs[i][1] /\ Flat(pairs)[2 * i] = pairs[i][2]
  BY <1>1, FlatWords
<1>3. (2 * n) % 2 = 0 /\ (2 * n) \div 2 = n
  OBVIOUS
<1>4. PairsOf(Flat(pairs)) = [i \in 1..n |-> << Flat(pairs)[2 * i - 1], Flat(pairs)[2 * i] >>]
  BY <1>2, <1>3 DEF PairsOf
<1>5. PairsOf(Flat(pairs)) = [i \in 1..n |-> << pairs[i][1], pairs[i][2] >>]
  BY <1>2, <1>4
<1> QED
  BY <1>2, <1>3, <1>5

\* A record is read back from either protocol.
LEMMA RecordReplies ==
    ASSUME NEW record, record = [f \in DOMAIN record |-> record[f]], IsFiniteSet(DOMAIN record),
           NEW proto \in Protocols
    PROVE  DecodeRecord(RecordReply(proto, record)) = Ok(record)
<1> DEFINE n == Cardinality(DOMAIN record)
           fields == SetToSeq(DOMAIN record)
           e == [i \in DOMAIN fields |-> << fields[i], record[fields[i]] >>]
<1>1. n \in Nat /\ fields \in [1..n -> DOMAIN record] /\ DOMAIN fields = 1..n
  BY SetListed
<1>2. RecordOf(e) = record
  <2>1. DOMAIN e = 1..n /\ \A i \in 1..n : e[i] = << fields[i], record[fields[i]] >>
    BY <1>1
  <2>2. /\ \A i, j \in 1..n : fields[i] = fields[j] => i = j
        /\ \A f \in DOMAIN record : \E i \in 1..n : fields[i] = f
    BY SetListed
  <2>3. n \in Nat /\ fields \in [1..n -> DOMAIN record]
    BY <1>1
  <2> HIDE DEF e, n, fields
  <2>4. Lists(e, n, record)
    BY <2>1, <2>2, <2>3 DEF Lists
  <2>5. RecordOf(e) = Copy(record)
    BY <2>3, <2>4, RecordListed
  <2> QED
    BY <2>5 DEF Copy
<1>3. e = [i \in 1..n |-> << e[i][1], e[i][2] >>] /\ e = [i \in DOMAIN e |-> e[i]]
  BY <1>1
<1>4. CASE proto = 3
  <2> DEFINE v == [i \in DOMAIN fields |-> << fields[i], Str(record[fields[i]]) >>]
             rs == [i \in DOMAIN v |-> Ok(<< v[i][1], record[fields[i]] >>)]
  <2>1. RecordReply(proto, record) = Obj(v)
    BY <1>4 DEF RecordReply
  <2>2. ASSUME NEW i \in DOMAIN v
        PROVE  DecodeString(v[i][2]) = Ok(record[fields[i]])
    BY Scalars
  <2>3. ForEach(v, LAMBDA x : LET named(s) == << x[1], s >> IN Map(DecodeString(x[2]), named)) = All(rs)
    BY <2>2 DEF ForEach, Map, Ok, Failed
  <2>4. DOMAIN rs = DOMAIN e /\ \A i \in DOMAIN e : rs[i] = Ok(e[i])
    OBVIOUS
  <2>5. All(rs) = Ok(e)
    <3> HIDE DEF rs, e
    <3>1. e = [i \in DOMAIN e |-> e[i]]
      BY <1>3
    <3> QED
      BY <3>1, <2>4, AllOk
  <2>6. DecodeRecord(Obj(v)) = Map(All(rs), RecordOf)
    BY <2>3 DEF DecodeRecord, Obj
  <2> HIDE DEF rs, e
  <2> QED
    BY <1>2, <2>1, <2>5, <2>6 DEF Map, Ok, Failed
<1>5. CASE proto = 2
  <2> DEFINE flat == Flat(e)
             v == [i \in DOMAIN flat |-> Str(flat[i])]
             rs == [i \in DOMAIN v |-> DecodeString(v[i])]
  <2>1. RecordReply(proto, record) = Arr(v)
    BY <1>5 DEF RecordReply, ArrayReply
  <2>2. Len(flat) = 2 * n /\ Len(flat) % 2 = 0 /\ PairsOf(flat) = e /\ DOMAIN flat = 1..(2 * n)
        /\ flat = [i \in DOMAIN flat |-> flat[i]]
    <3> HIDE DEF e, n
    <3>1. DOMAIN e = 1..n
      BY <1>3
    <3>2. Len(Flat(e)) = 2 * n /\ Len(Flat(e)) % 2 = 0 /\ PairsOf(Flat(e)) = e
      BY <1>1, <1>3, FlatAndBack
    <3>3. Flat(e) = [k \in 1..(2 * n) |-> e[(k + 1) \div 2][IF k % 2 = 1 THEN 1 ELSE 2]]
      BY <1>1, <3>1, FlatWords
    <3> QED
      BY <3>2, <3>3
  <2> HIDE DEF flat
  <2>3. Len(v) = 2 * n
    BY <1>1, <2>2, Length
  <2>4. DOMAIN rs = DOMAIN flat /\ \A i \in DOMAIN flat : rs[i] = Ok(flat[i])
    BY Scalars
  <2>5. All(rs) = Ok(flat)
    <3> HIDE DEF rs
    <3> QED
      BY <2>2, <2>4, AllOk
  <2>6. ForEach(v, DecodeString) = All(rs)
    BY DEF ForEach
  <2> HIDE DEF v, rs
  <2>7. RecordFromFlat(v) = Ok(record)
    BY <1>2, <2>2, <2>3, <2>5, <2>6 DEF RecordFromFlat, Map, Ok, Failed
  <2>8. DecodeRecord(Arr(v)) = RecordFromFlat(v)
    BY DEF DecodeRecord, Arr
  <2> QED
    BY <2>1, <2>7, <2>8
<1> QED
  BY <1>4, <1>5 DEF Protocols

\* Pairs of results.
LEMMA BothDecode ==
    /\ \A a, b : All(<< Ok(a), Ok(b) >>) = Ok(<< a, b >>)
    /\ \A b : All(<< Failed, b >>) = Failed
    /\ \A a : All(<< a, Failed >>) = Failed
<1>1. ASSUME NEW a, NEW b PROVE All(<< Ok(a), Ok(b) >>) = Ok(<< a, b >>)
  <2>1. << a, b >> = [i \in DOMAIN << a, b >> |-> << a, b >>[i]]
    OBVIOUS
  <2>2. /\ DOMAIN << Ok(a), Ok(b) >> = DOMAIN << a, b >>
        /\ \A i \in DOMAIN << a, b >> : << Ok(a), Ok(b) >>[i] = Ok(<< a, b >>[i])
    OBVIOUS
  <2> QED
    BY <2>1, <2>2, AllOk
<1>2. ASSUME NEW b PROVE All(<< Failed, b >>) = Failed
  <2>1. 1 \in DOMAIN << Failed, b >> /\ << Failed, b >>[1] = Failed
    OBVIOUS
  <2> QED
    BY <2>1, AllFail
<1>3. ASSUME NEW a PROVE All(<< a, Failed >>) = Failed
  <2>1. 2 \in DOMAIN << a, Failed >> /\ << a, Failed >>[2] = Failed
    OBVIOUS
  <2> QED
    BY <2>1, AllFail
<1> QED
  BY <1>1, <1>2, <1>3

\* Members with their scores are read back from either protocol.
LEMMA ScoredReplies ==
    ASSUME NEW members, NEW n \in Nat, members = [i \in 1..n |-> << members[i][1], members[i][2] >>],
           \A i \in 1..n : members[i][2] \in Scores,
           NEW proto \in Protocols
    PROVE  DecodeScoredMembers(ScoredReply(proto, members)) = Ok(members)
<1> DEFINE pairs == [i \in DOMAIN members |-> << Str(members[i][1]), ScoreReply(proto, members[i][2]) >>]
           rows == [i \in 1..n |-> Arr(pairs[i])]
           rs == [i \in DOMAIN rows |-> DecodeScorePair(rows[i])]
<1>1. DOMAIN members = 1..n /\ members = [i \in DOMAIN members |-> members[i]]
  OBVIOUS
<1>2. DOMAIN pairs = 1..n /\ pairs = [i \in 1..n |-> << pairs[i][1], pairs[i][2] >>]
  OBVIOUS
<1>3. ASSUME NEW i \in 1..n
      PROVE  rs[i] = Ok(members[i])
  <2>1. rs[i] = DecodePair(Arr(pairs[i]), DecodeString, DecodeFloat)
    BY DEF DecodeScorePair
  <2>2. Arr(pairs[i]).t = "array" /\ Arr(pairs[i]).v = pairs[i] /\ Len(pairs[i]) = 2
    BY Scalars
  <2>3. DecodeString(pairs[i][1]) = Ok(members[i][1]) /\ DecodeFloat(pairs[i][2]) = Ok(members[i][2])
    BY Scalars, ScoreTexts
  <2> HIDE DEF rs, pairs
  <2>4. rs[i] = All(<< DecodeString(pairs[i][1]), DecodeFloat(pairs[i][2]) >>)
    BY <2>1, <2>2 DEF DecodePair
  <2> QED
    BY <2>3, <2>4, BothDecode
<1>4. All(rs) = Ok(members) /\ ForEach(rows, DecodeScorePair) = All(rs)
  <2>1. DOMAIN rs = DOMAIN members /\ \A i \in DOMAIN members : rs[i] = Ok(members[i])
    BY <1>1, <1>3
  <2>2. ForEach(rows, DecodeScorePair) = All(rs)
    BY DEF ForEach
  <2> HIDE DEF rs
  <2> QED
    BY <1>1, <2>1, <2>2, AllOk
<1>5. ASSUME NEW xs PROVE DecodeArray(Arr(xs)) = Ok(xs)
  BY Scalars DEF DecodeArray
<1>6. CASE proto = 3
  <2>1. ScoredReply(proto, members) = Arr(rows)
    BY <1>1, <1>6 DEF ScoredReply, ArrayReply
  <2>2. n > 0 => rows # << >> /\ rows[1].t = "array"
    BY Scalars
  <2>3. n = 0 => rows = << >> /\ members = << >>
    OBVIOUS
  <2> HIDE DEF rows, rs
  <2>4. DecodeScoredMembers(Arr(rows)) = PairedScores(rows)
    BY <1>5 DEF DecodeScoredMembers, AndThen, Ok, Failed
  <2>5. PairedScores(rows) = IF rows = << >> THEN Ok(<< >>) ELSE ForEach(rows, DecodeScorePair)
    BY <2>2, <2>3 DEF PairedScores
  <2> QED
    BY <1>4, <2>1, <2>2, <2>3, <2>4, <2>5
<1>7. CASE proto = 2
  <2> DEFINE flat == Flat(pairs)
  <2>1. ScoredReply(proto, members) = Arr(flat)
    BY <1>7 DEF ScoredReply
  <2>2. Len(flat) = 2 * n /\ Len(flat) % 2 = 0 /\ PairsOf(flat) = pairs
    <3> HIDE DEF pairs
    <3> QED
      BY <1>2, FlatAndBack
  <2>3. [i \in DOMAIN PairsOf(flat) |-> Arr(PairsOf(flat)[i])] = rows
    BY <1>2, <2>2
  <2>4. n > 0 => flat # << >> /\ flat[1].t # "array"
    <3>1. ASSUME n > 0 PROVE flat[1] = pairs[1][1]
      <4> HIDE DEF pairs
      <4>1. DOMAIN pairs = 1..n /\ 1 \in 1..n /\ 2 * 1 - 1 = 1
        BY <1>2, <3>1
      <4>2. \A i \in 1..n : Flat(pairs)[2 * i - 1] = pairs[i][1]
        BY <4>1, FlatWords
      <4>3. Flat(pairs)[2 * 1 - 1] = pairs[1][1]
        BY <4>1, <4>2
      <4> QED
        BY <4>1, <4>3
    <3>2. n > 0 => pairs[1][1].t = "string"
      BY Scalars
    <3> HIDE DEF flat, pairs
    <3> QED
      BY <2>2, <3>1, <3>2
  <2>5. n = 0 => flat = << >> /\ members = << >>
    <3> HIDE DEF pairs
    <3>1. flat = [k \in 1..(2 * n) |-> pairs[(k + 1) \div 2][IF k % 2 = 1 THEN 1 ELSE 2]]
      BY <1>2, FlatWords
    <3> QED
      BY <3>1
  <2> HIDE DEF flat, rows, rs
  <2>6. DecodeScoredMembers(Arr(flat)) = PairedScores(flat)
    BY <1>5 DEF DecodeScoredMembers, AndThen, Ok, Failed
  <2>7. PairedScores(flat) = IF flat = << >> THEN Ok(<< >>) ELSE ForEach(rows, DecodeScorePair)
    <3>1. flat # << >> => flat[1].t # "array"
      BY <2>4, <2>5
    <3> QED
      BY <2>2, <2>3, <3>1 DEF PairedScores
  <2> QED
    BY <1>4, <2>1, <2>4, <2>5, <2>6, <2>7
<1> QED
  BY <1>6, <1>7 DEF Protocols

\* The content of the key in the order of a list.
LEMMA ContentListed ==
    ASSUME TypeOK
    PROVE  /\ IsFiniteSet(DOMAIN content)
           /\ Size \in Nat /\ Size = Cardinality(DOMAIN content)
           /\ InOrder \in [1..Size -> DOMAIN content] /\ DOMAIN InOrder = 1..Size
           /\ InOrder = [i \in DOMAIN InOrder |-> InOrder[i]]
           /\ \A i, j \in 1..Size : InOrder[i] = InOrder[j] => i = j
           /\ \A x \in DOMAIN content : \E i \in 1..Size : InOrder[i] = x
<1>1. IsFiniteSet(Items[kind])
  BY TypedCellAssumption DEF TypeOK
<1>2. IsFiniteSet(Items[kind] \cup {Bad})
  BY <1>1, FS_AddElement
<1>3. IsFiniteSet(DOMAIN content)
  BY <1>2, FS_Subset DEF TypeOK
<1> DEFINE n == Cardinality(DOMAIN content)
<1>4. n \in Nat /\ InOrder \in [1..n -> DOMAIN content]
  BY <1>3, SetListed DEF InOrder
<1>5. DOMAIN InOrder = 1..n
  BY <1>4
<1>6. Size = n
  <2> HIDE DEF n
  <2> QED
    BY <1>4, <1>5, Length DEF Size
<1>7. InOrder = [i \in DOMAIN InOrder |-> InOrder[i]]
  BY <1>4
<1>8. /\ \A i, j \in 1..n : InOrder[i] = InOrder[j] => i = j
      /\ \A x \in DOMAIN content : \E i \in 1..n : InOrder[i] = x
  BY <1>3, SetListed DEF InOrder
<1> QED
  BY <1>3, <1>4, <1>5, <1>6, <1>7, <1>8

\* Every lifetime is told from no lifetime and from no key.
LEMMA LifetimeRead == TypeOK => LifetimeIsTrue
<1> SUFFICES ASSUME TypeOK PROVE LifetimeIsTrue
  OBVIOUS
<1>1. left \in Nat /\ left \div 4 \in Nat /\ (Exists \/ left = NoTtl)
  BY DEF TypeOK
<1> DEFINE n == IF ~Exists THEN -2 ELSE IF left = NoTtl THEN -1 ELSE left \div Second
<1>2. TtlReply = Num(n)
  BY DEF TtlReply
<1>3. DecodeNumber(TtlReply) = Ok(n)
  BY <1>2, Scalars
<1>4. n \in Int /\ (n < 0 <=> left = NoTtl) /\ (left # NoTtl => n = left \div Second)
  BY <1>1 DEF Second
<1>5. (n = -2 <=> ~Exists) /\ (n = -1 <=> Exists /\ left = NoTtl) /\ -1 # -2
  BY <1>1 DEF Second
<1> HIDE DEF n
<1>6. Ttl(TtlReply) = Ok(IF n < 0 THEN None ELSE Some(n))
  BY <1>3 DEF Ttl, DecodeTtlSeconds, Map, Ok, Failed
<1>7. TtlState(TtlReply) = Ok(ToKeyTtl(n))
  BY <1>3 DEF TtlState, Map, Ok, Failed
<1>8. ToKeyTtl(n) = IF left # NoTtl THEN "Expires" ELSE IF Exists THEN "Persistent" ELSE "Missing"
  BY <1>1, <1>5 DEF ToKeyTtl
<1> QED
  BY <1>4, <1>6, <1>7, <1>8 DEF LifetimeIsTrue

\* An optional text.
LEMMA OptionalText ==
    /\ DecodeOptionString(Nil) = Ok(None)
    /\ \A s : DecodeOptionString(Str(s)) = Ok(Some(s))
    /\ \A i : /\ DecodeOptionString(OptionReply(Lookup(i), Str)) = Ok(Lookup(i))
              /\ DecodeSome(Lookup(i)) = IF Lookup(i) = Some(Bad) THEN Failed ELSE Ok(Lookup(i))
<1>1. DecodeOptionString(Nil) = Ok(None)
  BY DEF DecodeOptionString
<1>2. ASSUME NEW s PROVE DecodeOptionString(Str(s)) = Ok(Some(s))
  <2>1. Str(s) # Nil /\ AsText(Str(s)) = Some(s)
    BY Scalars
  <2> QED
    BY <2>1 DEF DecodeOptionString, Map, Some, Ok, Failed
<1>3. ASSUME NEW i
      PROVE  /\ DecodeOptionString(OptionReply(Lookup(i), Str)) = Ok(Lookup(i))
             /\ DecodeSome(Lookup(i)) = IF Lookup(i) = Some(Bad) THEN Failed ELSE Ok(Lookup(i))
  <2>1. CASE i \in DOMAIN content
    <3>1. Lookup(i) = Some(content[i]) /\ Lookup(i) # None /\ Lookup(i)[1] = content[i]
      BY <2>1 DEF Lookup, Some, None
    <3>2. DecodeOptionString(OptionReply(Lookup(i), Str)) = Ok(Lookup(i))
      BY <3>1, <1>2 DEF OptionReply
    <3>3. DecodeSome(Lookup(i)) = IF content[i] = Bad THEN Failed ELSE Ok(Some(content[i]))
      BY <3>1 DEF DecodeSome, Decode, Map, Ok, Failed
    <3>4. Lookup(i) = Some(Bad) <=> content[i] = Bad
      BY <3>1 DEF Some
    <3> QED
      BY <3>1, <3>2, <3>3, <3>4
  <2>2. CASE i \notin DOMAIN content
    <3>1. Lookup(i) = None /\ Lookup(i) # Some(Bad)
      BY <2>2 DEF Lookup, Some, None
    <3> QED
      BY <3>1, <1>1 DEF OptionReply, DecodeSome
  <2> QED
    BY <2>1, <2>2
<1> QED
  BY <1>1, <1>2, <1>3

\* A ref.
LEMMA RefRead ==
    ASSUME NEW proto \in Protocols
    PROVE  RefIsTrue(proto)
<1> DEFINE value == Lookup("value")
           v == << Nil, OptionReply(value, Str) >>
           rs == [i \in DOMAIN v |-> DecodeOptionString(v[i])]
<1>1. DecodeOptionString(OptionReply(value, Str)) = Ok(value)
  BY OptionalText
<1>2. RefGet(OptionReply(value, Str)) = DecodeSome(value)
  BY <1>1 DEF RefGet, Get, AndThen, Ok, Failed
<1>3. RefGet(OptionReply(value, Str)) = IF value = Some(Bad) THEN Failed ELSE Ok(value)
  BY <1>2, OptionalText
<1>4. ExistsKey(FlagReply(proto, Exists)) = Ok(Exists)
  BY Flags DEF ExistsKey, Exists
<1>5. Mget(Arr(v)) = Ok(<< None, value >>)
  <2>1. DecodeArray(Arr(v)) # Failed /\ DecodeArray(Arr(v))[1] = v
    BY Scalars DEF DecodeArray, Ok, Failed
  <2>2. Mget(Arr(v)) = All(rs)
    BY <2>1 DEF Mget, DecodeOptionStrings, ArrayOf, ForEach
  <2>3. rs = << Ok(None), Ok(value) >>
    BY <1>1, OptionalText
  <2> QED
    BY <2>2, <2>3, BothDecode
<1> QED
  BY <1>3, <1>4, <1>5 DEF RefIsTrue

\* What the schema makes of a list of all the items.
LEMMA ItemsDecode ==
    ASSUME NEW xs, NEW n \in Nat, xs \in [1..n -> DOMAIN content],
           \A x \in DOMAIN content : \E i \in 1..n : xs[i] = x
    PROVE  AndThen(DecodeStringArray(ArrayReply(xs, Str)), DecodeEach) = UnlessBad(DOMAIN content, xs)
<1>1. xs = [i \in DOMAIN xs |-> xs[i]] /\ DOMAIN xs = 1..n
  OBVIOUS
<1>2. DecodeStringArray(ArrayReply(xs, Str)) = Ok(xs)
  BY <1>1, Strings
<1>3. (\E i \in DOMAIN xs : xs[i] = Bad) <=> Bad \in DOMAIN content
  BY <1>1
<1>4. DecodeEach(xs) = UnlessBad(DOMAIN content, xs)
  BY <1>1, <1>3, EachDecodes DEF UnlessBad
<1> QED
  BY <1>2, <1>4 DEF AndThen, Ok, Failed

\* A set.
LEMMA SetContentRead ==
    ASSUME TypeOK, NEW proto \in Protocols
    PROVE  SetIsTrue(proto)
<1>1. /\ Size \in Nat /\ InOrder \in [1..Size -> DOMAIN content] /\ DOMAIN InOrder = 1..Size
      /\ \A x \in DOMAIN content : \E i \in 1..Size : InOrder[i] = x
  BY ContentListed
<1>2. SetMembers(ArrayReply(InOrder, Str)) = UnlessBad(DOMAIN content, InOrder)
  <2> HIDE DEF InOrder
  <2> QED
    BY <1>1, ItemsDecode DEF SetMembers, Smembers
<1>3. ToSet(InOrder) = DOMAIN content
  <2>1. ToSet(InOrder) = { InOrder[i] : i \in DOMAIN InOrder }
    BY DEF ToSet
  <2> QED
    BY <1>1, <2>1
<1>4. Map(SetMembers(ArrayReply(InOrder, Str)), ToSet) = UnlessBad(DOMAIN content, DOMAIN content)
  BY <1>2, <1>3 DEF Map, UnlessBad, Ok, Failed
<1>5. Card(Num(Size)) = Ok(Size)
  BY Scalars DEF Card
<1>6. ASSUME NEW i \in Items[kind]
      PROVE  Sismember(FlagReply(proto, i \in DOMAIN content)) = Ok(i \in DOMAIN content)
  <2> DEFINE b == i \in DOMAIN content
  <2>1. b \in BOOLEAN
    OBVIOUS
  <2> HIDE DEF b
  <2>2. Sismember(FlagReply(proto, b)) = Ok(b)
    BY <2>1, Flags DEF Sismember
  <2> QED
    BY <2>2 DEF b
<1> QED
  BY <1>4, <1>5, <1>6 DEF SetIsTrue

\* The members of a sorted set in the order of their scores.
LEMMA OrderListed ==
    ASSUME TypeOK, NEW members \in Orders
    PROVE  /\ Size \in Nat /\ members \in [1..Size -> DOMAIN content]
           /\ members = [i \in DOMAIN members |-> members[i]] /\ DOMAIN members = 1..Size
           /\ \A i, j \in 1..Size : members[i] = members[j] => i = j
           /\ \A x \in DOMAIN content : \E i \in 1..Size : members[i] = x
<1>1. IsFiniteSet(DOMAIN content) /\ Size \in Nat /\ Size = Cardinality(DOMAIN content)
  BY ContentListed
<1>2. members \in [1..Size -> DOMAIN content] /\ \A i, j \in 1..Size : i < j => members[i] # members[j]
  BY DEF Orders
<1>3. \A i, j \in 1..Size : members[i] = members[j] => i = j
  BY <1>1, <1>2
<1>4. members \in Injection(1..Size, DOMAIN content)
  BY <1>2, <1>3 DEF Injection, IsInjective
<1>5. Cardinality(1..Size) = Size
  BY <1>1, FS_Interval
<1>6. members \in Surjection(1..Size, DOMAIN content)
  BY <1>1, <1>4, <1>5, FS_Injection
<1>7. \A x \in DOMAIN content : \E i \in 1..Size : members[i] = x
  BY <1>6 DEF Surjection
<1>8. members = [i \in DOMAIN members |-> members[i]] /\ DOMAIN members = 1..Size
  BY <1>2
<1> QED
  BY <1>1, <1>2, <1>3, <1>7, <1>8

\* An optional score, and an optional rank.
LEMMA OptionalScore ==
    ASSUME NEW proto \in Protocols
    PROVE  /\ DecodeOptionFloat(Nil) = Ok(None) /\ DecodeOptionNumber(Nil) = Ok(None)
           /\ \A n \in Scores : DecodeOptionFloat(ScoreReply(proto, n)) = Ok(Some(n))
           /\ \A n : DecodeOptionNumber(Num(n)) = Ok(Some(n))
<1>1. DecodeOptionFloat(Nil) = Ok(None) /\ DecodeOptionNumber(Nil) = Ok(None)
  BY DEF DecodeOptionFloat, DecodeOptionNumber
<1>2. ASSUME NEW n \in Scores PROVE DecodeOptionFloat(ScoreReply(proto, n)) = Ok(Some(n))
  <2>1. ScoreReply(proto, n) # Nil /\ DecodeFloat(ScoreReply(proto, n)) = Ok(n)
    BY ScoreTexts
  <2> QED
    BY <2>1 DEF DecodeOptionFloat, Map, Ok, Failed
<1>3. ASSUME NEW n PROVE DecodeOptionNumber(Num(n)) = Ok(Some(n))
  <2>1. Num(n) # Nil /\ DecodeNumber(Num(n)) = Ok(n)
    BY Scalars
  <2> QED
    BY <2>1 DEF DecodeOptionNumber, Map, Ok, Failed
<1> QED
  BY <1>1, <1>2, <1>3

\* A sorted set.
LEMMA ZsetRead ==
    ASSUME TypeOK, \A i \in DOMAIN content : content[i] \in Scores,
           NEW proto \in Protocols, NEW members \in Orders
    PROVE  ZsetIsTrue(proto, members)
<1>1. /\ Size \in Nat /\ members \in [1..Size -> DOMAIN content] /\ DOMAIN members = 1..Size
      /\ \A x \in DOMAIN content : \E i \in 1..Size : members[i] = x
  BY OrderListed
<1>2. ZsetRange(ArrayReply(members, Str)) = UnlessBad(DOMAIN content, members)
  BY <1>1, ItemsDecode DEF ZsetRange, Zrange
<1> DEFINE scored == Scored(members)
           rs == [i \in DOMAIN scored |-> All(<< Decode(scored[i][1]), Ok(scored[i][2]) >>)]
<1>3. /\ scored = [i \in 1..Size |-> << scored[i][1], scored[i][2] >>]
      /\ scored = [i \in DOMAIN scored |-> scored[i]]
      /\ DOMAIN scored = 1..Size
      /\ \A i \in 1..Size : scored[i] = << members[i], content[members[i]] >>
  BY <1>1 DEF Scored
<1>4. \A i \in 1..Size : scored[i][2] \in Scores
  BY <1>1, <1>3
<1> HIDE DEF scored
<1>5. DecodeScoredMembers(ScoredReply(proto, scored)) = Ok(scored)
  BY <1>1, <1>3, <1>4, ScoredReplies
<1>6. ZsetRangeWithScores(ScoredReply(proto, scored)) = All(rs)
  BY <1>5 DEF ZsetRangeWithScores, ZrangeWithScores, AndThen, ForEach, Ok, Failed
<1>7. ASSUME NEW i \in 1..Size
      PROVE  rs[i] = IF members[i] = Bad THEN Failed ELSE Ok(scored[i])
  <2>1. rs[i] = All(<< Decode(members[i]), Ok(content[members[i]]) >>)
    BY <1>3
  <2> HIDE DEF rs
  <2> QED
    BY <2>1, <1>3, BothDecode DEF Decode
<1>8. DOMAIN rs = DOMAIN scored
  OBVIOUS
<1> HIDE DEF rs
<1>9. All(rs) = UnlessBad(DOMAIN content, scored)
  <2>1. CASE Bad \in DOMAIN content
    <3>1. PICK i \in 1..Size : members[i] = Bad
      BY <1>1, <2>1
    <3>2. i \in DOMAIN rs /\ rs[i] = Failed
      BY <1>3, <1>7, <1>8, <3>1
    <3> QED
      BY <2>1, <3>2, AllFail DEF UnlessBad
  <2>2. CASE Bad \notin DOMAIN content
    <3>1. ASSUME NEW i \in DOMAIN scored PROVE rs[i] = Ok(scored[i])
      <4>1. i \in 1..Size /\ members[i] # Bad
        BY <1>1, <1>3, <2>2
      <4> QED
        BY <1>7, <4>1
    <3>2. scored = [i \in DOMAIN scored |-> scored[i]]
      BY <1>3
    <3>3. All(rs) = Ok(scored)
      BY <1>8, <3>1, <3>2, AllOk
    <3> QED
      BY <2>2, <3>3 DEF UnlessBad
  <2> QED
    BY <2>1, <2>2
<1>10. ASSUME NEW i \in Items[kind]
       PROVE  LET score(n) == ScoreReply(proto, n)
                  rank == IF i \in DOMAIN content THEN Some(Rank(members, i) - 1) ELSE None
              IN  /\ Zscore(OptionReply(Lookup(i), score)) = Ok(Lookup(i))
                  /\ Zrank(OptionReply(rank, Num)) = Ok(rank)
  <2>1. CASE i \in DOMAIN content
    <3>1. Lookup(i) = Some(content[i]) /\ Lookup(i) # None /\ Lookup(i)[1] = content[i]
      BY <2>1 DEF Lookup, Some, None
    <3>2. \A n : Some(n) # None /\ Some(n)[1] = n
      BY DEF Some, None
    <3> QED
      BY <2>1, <3>1, <3>2, OptionalScore DEF OptionReply, Zscore, Zrank
  <2>2. CASE i \notin DOMAIN content
    <3>1. Lookup(i) = None
      BY <2>2 DEF Lookup
    <3> QED
      BY <2>2, <3>1, OptionalScore DEF OptionReply, Zscore, Zrank
  <2> QED
    BY <2>1, <2>2
<1> QED
  BY <1>2, <1>6, <1>9, <1>10 DEF ZsetIsTrue, scored

\* All the fields of a hash.
LEMMA HashAllRead ==
    ASSUME TypeOK, content = [i \in DOMAIN content |-> content[i]], NEW proto \in Protocols
    PROVE  HashGetAll(RecordReply(proto, content)) =
              IF \E i \in DOMAIN content : content[i] = Bad THEN Failed ELSE Ok(content)
<1>1. /\ IsFiniteSet(DOMAIN content) /\ Size \in Nat
      /\ InOrder \in [1..Size -> DOMAIN content] /\ DOMAIN InOrder = 1..Size
      /\ \A i, j \in 1..Size : InOrder[i] = InOrder[j] => i = j
      /\ \A x \in DOMAIN content : \E i \in 1..Size : InOrder[i] = x
  BY ContentListed
<1>2. HgetAll(RecordReply(proto, content)) = Ok(content)
  BY <1>1, RecordReplies DEF HgetAll
<1> DEFINE rs == [i \in DOMAIN InOrder |-> All(<< Ok(InOrder[i]), Decode(content[InOrder[i]]) >>)]
           e == [i \in DOMAIN InOrder |-> << InOrder[i], content[InOrder[i]] >>]
<1>3. HashGetAll(RecordReply(proto, content)) = Map(All(rs), RecordOf)
  BY <1>2 DEF HashGetAll, AndThen, ForEach, Ok, Failed, InOrder
<1>4. RecordOf(e) = content
  <2>1. PICK n \in Nat : n = Size
    BY <1>1
  <2>2. \A i \in 1..n : e[i] = << InOrder[i], content[InOrder[i]] >>
    BY <1>1, <2>1
  <2>3. DOMAIN e = 1..n /\ InOrder \in [1..n -> DOMAIN content]
    BY <1>1, <2>1
  <2>4. \A i, j \in 1..n : InOrder[i] = InOrder[j] => i = j
    BY <1>1, <2>1
  <2>5. \A f \in DOMAIN content : \E i \in 1..n : InOrder[i] = f
    BY <1>1, <2>1
  <2> HIDE DEF e
  <2>6. Lists(e, n, content)
    BY <2>2, <2>3, <2>4, <2>5 DEF Lists
  <2>7. RecordOf(e) = Copy(content)
    BY <2>6, RecordListed
  <2> QED
    BY <2>7 DEF Copy
<1>5. ASSUME NEW i \in 1..Size
      PROVE  rs[i] = IF content[InOrder[i]] = Bad THEN Failed ELSE Ok(e[i])
  <2>1. rs[i] = All(<< Ok(InOrder[i]), Decode(content[InOrder[i]]) >>) /\ e[i] = << InOrder[i], content[InOrder[i]] >>
    BY <1>1
  <2> HIDE DEF rs, e
  <2> QED
    BY <2>1, BothDecode DEF Decode
<1>6. DOMAIN rs = 1..Size /\ DOMAIN e = 1..Size /\ e = [i \in DOMAIN e |-> e[i]]
  BY <1>1
<1> HIDE DEF rs, e
<1>7. CASE \E f \in DOMAIN content : content[f] = Bad
  <2>1. PICK i \in 1..Size : content[InOrder[i]] = Bad
    BY <1>1, <1>7
  <2>2. All(rs) = Failed
    BY <1>5, <1>6, <2>1, AllFail
  <2> QED
    BY <1>3, <1>7, <2>2 DEF Map
<1>8. CASE \A f \in DOMAIN content : content[f] # Bad
  <2>1. ASSUME NEW i \in DOMAIN e PROVE rs[i] = Ok(e[i])
    <3>1. i \in 1..Size /\ InOrder[i] \in DOMAIN content
      BY <1>1, <1>6
    <3> QED
      BY <1>5, <1>8, <3>1
  <2>2. DOMAIN rs = DOMAIN e /\ e = [i \in DOMAIN e |-> e[i]]
    BY <1>6
  <2>3. All(rs) = Ok(e)
    BY <2>1, <2>2, AllOk
  <2> QED
    BY <1>3, <1>4, <1>8, <2>3 DEF Map, Ok, Failed
<1> QED
  BY <1>7, <1>8

\* A hash.
LEMMA HashRead ==
    ASSUME TypeOK, content = [i \in DOMAIN content |-> content[i]], NEW proto \in Protocols
    PROVE  HashIsTrue(proto)
<1>1. /\ Size \in Nat /\ InOrder \in [1..Size -> DOMAIN content] /\ DOMAIN InOrder = 1..Size
      /\ InOrder = [i \in DOMAIN InOrder |-> InOrder[i]]
      /\ \A x \in DOMAIN content : \E i \in 1..Size : InOrder[i] = x
  BY ContentListed
<1> DEFINE values == [i \in DOMAIN InOrder |-> content[InOrder[i]]]
           fields == SetToSeq(Items[kind])
<1>2. Bad \in ToSet(values) <=> \E i \in DOMAIN content : content[i] = Bad
  <2>1. ToSet(values) = { values[i] : i \in DOMAIN values }
    BY DEF ToSet
  <2>2. Bad \in ToSet(values) <=> \E i \in 1..Size : content[InOrder[i]] = Bad
    BY <1>1, <2>1
  <2> QED
    BY <1>1, <2>2
<1>3. HashGetAll(RecordReply(proto, content)) = UnlessBad(ToSet(values), content)
  <2> HIDE DEF values
  <2> QED
    BY <1>2, HashAllRead DEF UnlessBad
<1>4. Map(Hkeys(ArrayReply(InOrder, Str)), ToSet) = Ok(DOMAIN content)
  <2>1. DecodeStringArray(ArrayReply(InOrder, Str)) = Ok(InOrder)
    BY <1>1, Strings
  <2>2. ToSet(InOrder) = DOMAIN content
    <3>1. ToSet(InOrder) = { InOrder[i] : i \in DOMAIN InOrder }
      BY DEF ToSet
    <3>2. \A i \in DOMAIN InOrder : InOrder[i] \in DOMAIN content
      BY <1>1
    <3>3. \A x \in DOMAIN content : \E i \in DOMAIN InOrder : InOrder[i] = x
      BY <1>1
    <3> QED
      BY <3>1, <3>2, <3>3
  <2> QED
    BY <2>1, <2>2 DEF Hkeys, Map, Ok, Failed
<1>5. Hmget(Arr([i \in DOMAIN fields |-> OptionReply(Lookup(fields[i]), Str)])) =
         Ok([i \in DOMAIN fields |-> Lookup(fields[i])])
  <2> DEFINE v == [i \in DOMAIN fields |-> OptionReply(Lookup(fields[i]), Str)]
             rs == [i \in DOMAIN v |-> DecodeOptionString(v[i])]
             xs == [i \in DOMAIN fields |-> Lookup(fields[i])]
  <2>1. DecodeArray(Arr(v)) # Failed /\ DecodeArray(Arr(v))[1] = v
    BY Scalars DEF DecodeArray, Ok, Failed
  <2>2. Hmget(Arr(v)) = All(rs)
    BY <2>1 DEF Hmget, DecodeOptionStrings, ArrayOf, ForEach
  <2>3. DOMAIN rs = DOMAIN xs /\ \A i \in DOMAIN xs : rs[i] = Ok(xs[i])
    BY OptionalText
  <2>4. xs = [i \in DOMAIN xs |-> xs[i]]
    OBVIOUS
  <2> HIDE DEF rs, xs
  <2>5. All(rs) = Ok(xs)
    BY <2>3, <2>4, AllOk
  <2> QED
    BY <2>2, <2>5 DEF xs
<1>6. ASSUME NEW i \in Items[kind]
      PROVE  /\ HashGet(OptionReply(Lookup(i), Str)) =
                   IF Lookup(i) = Some(Bad) THEN Failed ELSE Ok(Lookup(i))
             /\ Hexists(FlagReply(proto, i \in DOMAIN content)) = Ok(i \in DOMAIN content)
  <2> DEFINE b == i \in DOMAIN content
  <2>1. b \in BOOLEAN
    OBVIOUS
  <2>2. DecodeOptionString(OptionReply(Lookup(i), Str)) = Ok(Lookup(i))
    BY OptionalText
  <2>3. HashGet(OptionReply(Lookup(i), Str)) = DecodeSome(Lookup(i))
    BY <2>2 DEF HashGet, Hget, AndThen, Ok, Failed
  <2> HIDE DEF b
  <2>4. Hexists(FlagReply(proto, b)) = Ok(b)
    BY <2>1, Flags DEF Hexists
  <2> QED
    BY <2>3, <2>4, OptionalText DEF b
<1> QED
  BY <1>3, <1>4, <1>5, <1>6 DEF HashIsTrue

\* The words after the name of a command and its key.
LEMMA WordsAfterTwo ==
    ASSUME NEW a, NEW b, NEW words, NEW n \in Nat, DOMAIN words = 1..n,
           words = [i \in DOMAIN words |-> words[i]], NEW c, c = << a, b >> \o words
    PROVE  SubSeq(c, 3, Len(c)) = words
<1>1. Len(words) = n
  BY Length
<1>2. c = [i \in 1..(n + 2) |-> IF i <= 2 THEN << a, b >>[i] ELSE words[i - 2]]
  BY <1>1
<1>3. Len(c) = n + 2
  <2>1. n + 2 \in Nat /\ DOMAIN c = 1..(n + 2)
    BY <1>2
  <2> QED
    BY <2>1, Length
<1>4. SubSeq(c, 3, n + 2) = [i \in 1..n |-> c[i + 2]]
  BY <1>2, <1>3
<1>5. \A i \in 1..n : c[i + 2] = words[i]
  BY <1>2
<1>6. SubSeq(c, 3, n + 2) = [i \in 1..n |-> words[i]]
  BY <1>4, <1>5
<1> QED
  BY <1>3, <1>6

\* Seconds and milliseconds are at least one, no less than the duration and less
\* than a second more.
LEMMA LifetimeBounds ==
    ASSUME NEW d \in Nat \ {0}
    PROVE  /\ ExpirySeconds(d) \in Nat \ {0} /\ ExpiryMillis(d) \in Nat \ {0}
           /\ d <= ExpirySeconds(d) * Second /\ ExpirySeconds(d) * Second < d + Second
           /\ d <= ExpiryMillis(d) * Milli /\ ExpiryMillis(d) * Milli < d + Second
<1>1. /\ (d + 4 - 1) \div 4 \in Nat \ {0}
      /\ d <= ((d + 4 - 1) \div 4) * 4 /\ ((d + 4 - 1) \div 4) * 4 < d + 4
  OBVIOUS
<1>2. /\ (d + 2 - 1) \div 2 \in Nat \ {0}
      /\ d <= ((d + 2 - 1) \div 2) * 2 /\ ((d + 2 - 1) \div 2) * 2 < d + 4
  OBVIOUS
<1>3. ExpirySeconds(d) = (d + 4 - 1) \div 4
  BY <1>1 DEF ExpirySeconds, AtLeast, Ceiling, Second
<1>4. ExpiryMillis(d) = (d + 2 - 1) \div 2
  BY <1>2 DEF ExpiryMillis, AtLeast, Ceiling, Milli
<1> QED
  BY <1>1, <1>2, <1>3, <1>4 DEF Second, Milli

\* No lifetime is zero.
LEMMA LifetimesArePositive ==
    ASSUME NEW d \in Lifetimes
    PROVE  d \in Nat \ {0}
BY CellsAssumption DEF Lifetimes

\* EXPIRE gives the lifetime that was asked for, in whole seconds.
LEMMA ExpireRead ==
    ASSUME NEW d \in Lifetimes
    PROVE  ReadExpire(Expire(Key, d)) = Ok(Lifetime(d))
<1>1. TextNumber(IntText(ExpirySeconds(d))) = ExpirySeconds(d)
  BY NumeralText, TypedCellAssumption
<1>2. Expire(Key, d)[3] = IntText(ExpirySeconds(d))
  BY DEF Expire
<1> QED
  BY <1>1, <1>2 DEF ReadExpire, Number, Lifetime

\* The words of a command from the fourth on.
LEMMA AfterThree ==
    ASSUME NEW all, NEW n \in Nat
    PROVE  SubSeq(all, 4, n + 3) = [i \in 1..n |-> all[i + 3]]
OBVIOUS

\* The words of SET after the value.
LEMMA WordsAfterThree ==
    ASSUME NEW a, NEW b, NEW c, NEW words, NEW n \in Nat, words = [i \in 1..n |-> words[i]],
           NEW all, all = << a >> \o (<< b, c >> \o words)
    PROVE  SubSeq(all, 4, Len(all)) = words
<1>1. Len(words) = n
  <2>1. DOMAIN words = 1..n
    OBVIOUS
  <2> QED
    BY <2>1, Length
<1>2. all = [i \in 1..(n + 3) |-> IF i <= 3 THEN << a, b, c >>[i] ELSE words[i - 3]]
  BY <1>1
<1>3. Len(all) = n + 3
  <2>1. n + 3 \in Nat /\ DOMAIN all = 1..(n + 3)
    BY <1>2
  <2> QED
    BY <2>1, Length
<1>4. SubSeq(all, 4, n + 3) = [i \in 1..n |-> all[i + 3]]
  BY AfterThree
<1>5. \A i \in 1..n : all[i + 3] = words[i]
  BY <1>2
<1>6. SubSeq(all, 4, n + 3) = [i \in 1..n |-> words[i]]
  BY <1>4, <1>5
<1> QED
  BY <1>3, <1>6

\* What Redis makes of the words of SET after the value.
LEMMA SetWords ==
    ASSUME NEW words, words \in { << >>, << "KEEPTTL" >> } \/ \E w, s : words = << w, s >>
    PROVE  ReadSet(<< "SET" >> \o (<< Key, Bad >> \o words)) = ReadSetOptions(words)
<1>1. \E n \in Nat : words = [i \in 1..n |-> words[i]]
  <2>1. << >> = [i \in 1..0 |-> << >>[i]] /\ << "KEEPTTL" >> = [i \in 1..1 |-> << "KEEPTTL" >>[i]]
    OBVIOUS
  <2>2. \A w, s : << w, s >> = [i \in 1..2 |-> << w, s >>[i]]
    OBVIOUS
  <2>3. CASE words = << >>
    BY <2>1, <2>3, 0 \in Nat
  <2>4. CASE words = << "KEEPTTL" >>
    BY <2>1, <2>4, 1 \in Nat
  <2>5. CASE \E w, s : words = << w, s >>
    BY <2>2, <2>5, 2 \in Nat
  <2> QED
    BY <2>3, <2>4, <2>5
<1>2. PICK n \in Nat : words = [i \in 1..n |-> words[i]]
  BY <1>1
<1> DEFINE all == << "SET" >> \o (<< Key, Bad >> \o words)
<1> HIDE DEF all
<1>3. SubSeq(all, 4, Len(all)) = words
  <2>1. all = << "SET" >> \o (<< Key, Bad >> \o words)
    BY DEF all
  <2> QED
    BY <1>2, <2>1, WordsAfterThree
<1>4. ReadSet(all) = ReadSetOptions(words)
  BY <1>3 DEF ReadSet
<1> QED
  BY <1>4 DEF all

\* What Redis makes of the options of SET.
LEMMA SetOptionWords ==
    /\ ReadSetOptions(<< >>) = Ok([ttl |-> None, keepTtl |-> FALSE])
    /\ ReadSetOptions(<< "KEEPTTL" >>) = Ok([ttl |-> None, keepTtl |-> TRUE])
    /\ \A n \in Numerals : n > 0 =>
          /\ ReadSetOptions(<< "EX", IntText(n) >>) = Ok([ttl |-> Some(n * Second), keepTtl |-> FALSE])
          /\ ReadSetOptions(<< "PX", IntText(n) >>) = Ok([ttl |-> Some(n * Milli), keepTtl |-> FALSE])
<1>1. /\ Len(<< >>) = 0 /\ << >> # << "KEEPTTL" >>
      /\ Len(<< "KEEPTTL" >>) = 1 /\ 1 # 2 /\ 0 # 2
  OBVIOUS
<1>2. ReadSetOptions(<< >>) = Ok([ttl |-> None, keepTtl |-> FALSE])
  BY <1>1 DEF ReadSetOptions
<1>3. ReadSetOptions(<< "KEEPTTL" >>) = Ok([ttl |-> None, keepTtl |-> TRUE])
  BY <1>1 DEF ReadSetOptions
<1>4. ASSUME NEW n \in Numerals, n > 0
      PROVE  /\ ReadSetOptions(<< "EX", IntText(n) >>) = Ok([ttl |-> Some(n * Second), keepTtl |-> FALSE])
             /\ ReadSetOptions(<< "PX", IntText(n) >>) = Ok([ttl |-> Some(n * Milli), keepTtl |-> FALSE])
  <2>1. ASSUME NEW w, NEW s
        PROVE  /\ Len(<< w, s >>) = 2 /\ << w, s >>[1] = w /\ << w, s >>[2] = s
               /\ << w, s >> # << >> /\ << w, s >> # << "KEEPTTL" >>
    OBVIOUS
  <2>2. Number(IntText(n)) = n
    BY NumeralText DEF Number
  <2>3. ASSUME NEW s PROVE ReadSetOptions(<< "EX", s >>) = Lives(Number(s), Second)
    BY <2>1 DEF ReadSetOptions
  <2>4. ASSUME NEW s PROVE ReadSetOptions(<< "PX", s >>) = Lives(Number(s), Milli)
    BY <2>1 DEF ReadSetOptions
  <2> QED
    BY <1>4, <2>2, <2>3, <2>4 DEF Lives
<1> QED
  BY <1>2, <1>3, <1>4

\* What Redis makes of a SET, by the first of its options that is given.
LEMMA SetRead ==
    ASSUME NEW ex, ex # None => \E d \in Lifetimes : ex = Some(d),
           NEW px, px # None => \E d \in Lifetimes : px = Some(d),
           NEW keep \in BOOLEAN
    PROVE  LET read == ReadSet(Set(Key, Bad, [ex |-> ex, px |-> px, keepTtl |-> keep]))
           IN  /\ \A d \in Lifetimes : ex = Some(d) =>
                     read = Ok([ttl |-> Some(Lifetime(d)), keepTtl |-> FALSE])
               /\ \A d \in Lifetimes : ex = None /\ px = Some(d) =>
                     read = Ok([ttl |-> Some(ExpiryMillis(d) * Milli), keepTtl |-> FALSE])
               /\ ex = None /\ px = None => read = Ok([ttl |-> None, keepTtl |-> keep])
<1> DEFINE opts == [ex |-> ex, px |-> px, keepTtl |-> keep]
           words == LifetimeArgs(opts)
<1>1. \A d : Some(d) # None /\ Some(d)[1] = d
  BY DEF Some, None
<1>2. \A d \in Lifetimes : ex = Some(d) => words = << "EX", IntText(ExpirySeconds(d)) >>
  BY <1>1 DEF LifetimeArgs
<1>3. \A d \in Lifetimes : ex = None /\ px = Some(d) => words = << "PX", IntText(ExpiryMillis(d)) >>
  BY <1>1 DEF LifetimeArgs
<1>4. ex = None /\ px = None => words = IF keep THEN << "KEEPTTL" >> ELSE << >>
  BY DEF LifetimeArgs
<1> HIDE DEF words
<1>5. words \in { << >>, << "KEEPTTL" >> } \/ \E w, s : words = << w, s >>
  <2>1. CASE ex # None
    BY <1>2, <2>1
  <2>2. CASE ex = None /\ px # None
    BY <1>3, <2>2
  <2>3. CASE ex = None /\ px = None
    BY <1>4, <2>3
  <2> QED
    BY <2>1, <2>2, <2>3
<1>6. Set(Key, Bad, opts) = << "SET" >> \o (<< Key, Bad >> \o words)
  BY DEF Set, SetArgs, words
<1>7. ReadSet(Set(Key, Bad, opts)) = ReadSetOptions(words)
  BY <1>5, <1>6, SetWords
<1>8. \A d \in Lifetimes : /\ ExpirySeconds(d) \in Numerals /\ ExpirySeconds(d) > 0
                           /\ ExpiryMillis(d) \in Numerals /\ ExpiryMillis(d) > 0
  BY LifetimesArePositive, LifetimeBounds, TypedCellAssumption
<1>9. ASSUME NEW d \in Lifetimes, ex = Some(d)
      PROVE  ReadSetOptions(words) = Ok([ttl |-> Some(Lifetime(d)), keepTtl |-> FALSE])
  BY <1>2, <1>8, <1>9, SetOptionWords DEF Lifetime
<1>10. ASSUME NEW d \in Lifetimes, ex = None, px = Some(d)
       PROVE  ReadSetOptions(words) = Ok([ttl |-> Some(ExpiryMillis(d) * Milli), keepTtl |-> FALSE])
  BY <1>3, <1>8, <1>10, SetOptionWords
<1>11. ASSUME ex = None, px = None
       PROVE  ReadSetOptions(words) = Ok([ttl |-> None, keepTtl |-> keep])
  BY <1>4, <1>11, SetOptionWords
<1> QED
  BY <1>7, <1>9, <1>10, <1>11

\* What Redis reads in a SET.
LEMMA SetIsSaid ==
    ASSUME TypeOK
    PROVE  SetSaysIt
<1>1. \A o \in {None, Some(Own), ttl} : o # None => \E d \in Lifetimes : o = Some(d)
  <2>1. Own \in Lifetimes
    BY DEF Lifetimes
  <2>2. ttl # None => ttl[1] \in Lifetimes /\ ttl = Some(ttl[1])
    BY CellsAssumption DEF TypeOK, Lifetimes
  <2> QED
    BY <2>1, <2>2
<1>2. ASSUME NEW o \in Options
      PROVE  ReadSet(Set(Key, Bad, SetOptions(o))) =
                Ok([ttl |-> Map(Asked(o), Lifetime), keepTtl |-> o.keepTtl])
  <2>1. o.keepTtl \in BOOLEAN /\ o.ttl \in {None, Some(Own)}
    BY DEF Options
  <2> DEFINE ex == IF o.keepTtl THEN None ELSE Asked(o)
  <2>2. SetOptions(o) = [ex |-> ex, px |-> None, keepTtl |-> o.keepTtl]
    BY <2>1 DEF SetOptions, Asked
  <2>3. ex = Asked(o) /\ ex \in {None, Some(Own), ttl} /\ (o.keepTtl => ex = None)
    BY <2>1 DEF Asked
  <2> HIDE DEF ex
  <2>4. CASE ex = None
    <3>1. Map(Asked(o), Lifetime) = None
      BY <2>3, <2>4 DEF Map, Failed, None
    <3>2. PICK keep \in BOOLEAN : keep = o.keepTtl
      BY <2>1
    <3>3. SetOptions(o) = [ex |-> None, px |-> None, keepTtl |-> keep]
      BY <2>2, <2>4, <3>2
    <3>4. ReadSet(Set(Key, Bad, [ex |-> None, px |-> None, keepTtl |-> keep])) =
             Ok([ttl |-> None, keepTtl |-> keep])
      BY SetRead
    <3> QED
      BY <3>1, <3>2, <3>3, <3>4
  <2>5. CASE ex # None
    <3>1. PICK d \in Lifetimes : ex = Some(d)
      BY <1>1, <2>3, <2>5
    <3>2. Map(Asked(o), Lifetime) = Some(Lifetime(d))
      BY <2>3, <3>1 DEF Map, Failed, Some, Ok
    <3>3. o.keepTtl = FALSE
      BY <2>1, <2>3, <2>5
    <3>4. SetOptions(o) = [ex |-> Some(d), px |-> None, keepTtl |-> FALSE]
      BY <2>2, <3>1, <3>3
    <3>5. ReadSet(Set(Key, Bad, [ex |-> Some(d), px |-> None, keepTtl |-> FALSE])) =
             Ok([ttl |-> Some(Lifetime(d)), keepTtl |-> FALSE])
      BY SetRead
    <3> QED
      BY <3>2, <3>3, <3>4, <3>5
  <2> QED
    BY <2>4, <2>5
<1>3. ASSUME NEW ex \in {None, Some(Own), ttl}, NEW px \in {None, Some(Own), ttl}, NEW keep \in BOOLEAN
      PROVE  LET read == ReadSet(Set(Key, Bad, [ex |-> ex, px |-> px, keepTtl |-> keep]))
                 asked == IF ex # None THEN ex ELSE px
             IN  /\ read # Rejected
                 /\ asked # None => /\ read[1].ttl[1] >= asked[1]
                                    /\ read[1].ttl[1] < asked[1] + Second
  <2> DEFINE read == ReadSet(Set(Key, Bad, [ex |-> ex, px |-> px, keepTtl |-> keep]))
  <2>1. (ex # None => \E d \in Lifetimes : ex = Some(d)) /\ (px # None => \E d \in Lifetimes : px = Some(d))
    BY <1>1
  <2>2. /\ \A d \in Lifetimes : ex = Some(d) =>
                     read = Ok([ttl |-> Some(Lifetime(d)), keepTtl |-> FALSE])
        /\ \A d \in Lifetimes : ex = None /\ px = Some(d) =>
                     read = Ok([ttl |-> Some(ExpiryMillis(d) * Milli), keepTtl |-> FALSE])
        /\ ex = None /\ px = None => read = Ok([ttl |-> None, keepTtl |-> keep])
    BY <2>1, SetRead
  <2> HIDE DEF read
  <2>3. \A r : Ok(r) # Rejected /\ Ok(r)[1] = r
    BY DEF Ok, Rejected
  <2>4. \A d : Some(d) # None /\ Some(d)[1] = d
    BY DEF Some, None
  <2>5. \A d \in Lifetimes : /\ d \in Nat
                             /\ Lifetime(d) >= d /\ Lifetime(d) < d + Second
                             /\ ExpiryMillis(d) * Milli >= d /\ ExpiryMillis(d) * Milli < d + Second
    <3> TAKE d \in Lifetimes
    <3>1. d \in Nat \ {0}
      BY LifetimesArePositive
    <3>2. /\ ExpirySeconds(d) \in Nat /\ ExpiryMillis(d) \in Nat
          /\ d <= ExpirySeconds(d) * Second /\ ExpirySeconds(d) * Second < d + Second
          /\ d <= ExpiryMillis(d) * Milli /\ ExpiryMillis(d) * Milli < d + Second
      BY <3>1, LifetimeBounds
    <3> QED
      BY <3>1, <3>2 DEF Lifetime, Second, Milli
  <2>6. CASE ex # None
    <3>1. PICK d \in Lifetimes : ex = Some(d)
      BY <2>1, <2>6
    <3>2. read = Ok([ttl |-> Some(Lifetime(d)), keepTtl |-> FALSE]) /\ ex[1] = d
      BY <2>2, <2>4, <3>1
    <3>3. read # Rejected /\ read[1].ttl = Some(Lifetime(d))
      BY <2>3, <3>2
    <3>4. read[1].ttl[1] = Lifetime(d)
      BY <2>4, <3>3
    <3> QED
      BY <2>5, <2>6, <3>2, <3>3, <3>4 DEF read
  <2>7. CASE ex = None /\ px # None
    <3>1. PICK d \in Lifetimes : px = Some(d)
      BY <2>1, <2>7
    <3>2. read = Ok([ttl |-> Some(ExpiryMillis(d) * Milli), keepTtl |-> FALSE]) /\ px[1] = d
      BY <2>2, <2>4, <2>7, <3>1
    <3>3. read # Rejected /\ read[1].ttl = Some(ExpiryMillis(d) * Milli)
      BY <2>3, <3>2
    <3>4. read[1].ttl[1] = ExpiryMillis(d) * Milli
      BY <2>4, <3>3
    <3> QED
      BY <2>5, <2>7, <3>2, <3>3, <3>4 DEF read
  <2>8. CASE ex = None /\ px = None
    BY <2>2, <2>3, <2>8 DEF read
  <2> QED
    BY <2>6, <2>7, <2>8
<1> QED
  BY <1>2, <1>3 DEF SetSaysIt

\* A list of pairs as the words of a command: nothing is said of an empty one.
LEMMA PairsAsWords ==
    ASSUME NEW pairs, NEW n \in Nat, pairs = [i \in 1..n |-> << pairs[i][1], pairs[i][2] >>],
           NEW a, NEW b
    PROVE  \A c : c = UnlessEmpty(<< a, b >>, Flat(pairs)) =>
              /\ n = 0 => c = << >>
              /\ n > 0 => /\ SubSeq(c, 3, Len(c)) = Flat(pairs) /\ Flat(pairs) # << >>
                          /\ Len(Flat(pairs)) % 2 = 0 /\ PairsOf(Flat(pairs)) = pairs
<1> DEFINE flat == Flat(pairs)
<1>1. DOMAIN pairs = 1..n
  OBVIOUS
<1>2. flat = [k \in 1..(2 * n) |-> pairs[(k + 1) \div 2][IF k % 2 = 1 THEN 1 ELSE 2]]
  BY <1>1, FlatWords
<1>3. Len(flat) = 2 * n /\ Len(flat) % 2 = 0 /\ PairsOf(flat) = pairs
  BY FlatAndBack
<1> HIDE DEF flat
<1>4. flat = [k \in 1..(2 * n) |-> flat[k]] /\ 2 * n \in Nat
  BY <1>2
<1>5. n = 0 => flat = << >>
  BY <1>4
<1>6. n > 0 => flat # << >>
  BY <1>3
<1>7. ASSUME NEW c, c = << a, b >> \o flat PROVE SubSeq(c, 3, Len(c)) = flat
  <2>1. PICK m \in Nat : m = 2 * n
    OBVIOUS
  <2>2. DOMAIN flat = 1..m
    BY <1>4, <2>1
  <2>3. flat = [k \in DOMAIN flat |-> flat[k]]
    BY <1>4
  <2> QED
    BY <1>7, <2>2, <2>3, WordsAfterTwo
<1>8. ASSUME NEW c, c = UnlessEmpty(<< a, b >>, Flat(pairs))
      PROVE  /\ n = 0 => c = << >>
             /\ n > 0 => SubSeq(c, 3, Len(c)) = flat
  BY <1>5, <1>6, <1>7, <1>8 DEF UnlessEmpty, flat
<1> QED
  BY <1>3, <1>6, <1>8 DEF flat

\* What Redis reads in a ZADD and a ZINCRBY.
LEMMA ZaddIsSaid ==
    ASSUME TypeOK, \A i \in DOMAIN content : content[i] \in Scores, NEW members \in Orders
    PROVE  ZaddSaysIt(members)
<1>1. Size \in Nat /\ members \in [1..Size -> DOMAIN content] /\ DOMAIN members = 1..Size
  BY OrderListed
<1> DEFINE entries == [i \in DOMAIN members |-> << content[members[i]], members[i] >>]
           pairs == [i \in DOMAIN entries |-> << FormatScore(entries[i][1]), entries[i][2] >>]
           words == Flat(pairs)
           c == Zadd(Key, entries)
           rs == [i \in DOMAIN pairs |-> All(<< ReadScore(pairs[i][1]), Ok(pairs[i][2]) >>)]
<1>2. /\ DOMAIN entries = 1..Size /\ entries = [i \in DOMAIN entries |-> entries[i]]
      /\ \A i \in 1..Size : /\ entries[i] = << entries[i][1], entries[i][2] >>
                            /\ entries[i][1] \in Scores
  BY <1>1
<1> HIDE DEF entries
<1>3. /\ DOMAIN pairs = 1..Size /\ pairs = [i \in 1..Size |-> << pairs[i][1], pairs[i][2] >>]
      /\ \A i \in 1..Size : pairs[i][1] = FormatScore(entries[i][1]) /\ pairs[i][2] = entries[i][2]
  BY <1>2
<1>4. c = UnlessEmpty(<< "ZADD", Key >>, Flat(pairs))
  BY DEF Zadd, ZaddArgs
<1> HIDE DEF pairs, c
<1>5. /\ Size = 0 => c = << >>
      /\ Size > 0 => /\ SubSeq(c, 3, Len(c)) = words /\ words # << >>
                     /\ Len(words) % 2 = 0 /\ PairsOf(words) = pairs
  <2>1. PICK n \in Nat : n = Size
    BY <1>1
  <2>2. pairs = [i \in 1..n |-> << pairs[i][1], pairs[i][2] >>]
    BY <1>3, <2>1
  <2>3. \A d : d = UnlessEmpty(<< "ZADD", Key >>, Flat(pairs)) =>
              /\ n = 0 => d = << >>
              /\ n > 0 => /\ SubSeq(d, 3, Len(d)) = Flat(pairs) /\ Flat(pairs) # << >>
                          /\ Len(Flat(pairs)) % 2 = 0 /\ PairsOf(Flat(pairs)) = pairs
    BY <2>2, PairsAsWords
  <2>4. /\ n = 0 => c = << >>
        /\ n > 0 => /\ SubSeq(c, 3, Len(c)) = words /\ words # << >>
                    /\ Len(words) % 2 = 0 /\ PairsOf(words) = pairs
    BY <1>4, <2>3, Zenon
  <2> QED
    BY <2>1, <2>4
<1>6. ASSUME NEW i \in 1..Size
      PROVE  rs[i] = Ok(entries[i]) /\ ReadScore(FormatScore(entries[i][1])) = Ok(entries[i][1])
  <2>1. ReadScore(FormatScore(entries[i][1])) = Ok(entries[i][1])
    BY <1>2, ScoreTexts
  <2>2. rs[i] = All(<< Ok(entries[i][1]), Ok(entries[i][2]) >>)
    BY <1>3, <2>1
  <2> HIDE DEF rs
  <2> QED
    BY <1>2, <2>1, <2>2, BothDecode
<1>7. All(rs) = Ok(entries)
  <2>1. DOMAIN rs = DOMAIN entries
    BY <1>2, <1>3
  <2>2. entries = [i \in DOMAIN entries |-> entries[i]]
    BY <1>2
  <2>3. \A i \in DOMAIN entries : rs[i] = Ok(entries[i])
    BY <1>2, <1>6
  <2> HIDE DEF rs
  <2> QED
    BY <2>1, <2>2, <2>3, AllOk
<1>8. Size > 0 => ReadZadd(c) = Ok(entries)
  <2>1. ASSUME Size > 0 PROVE ReadZadd(c) = ForEach(pairs, LAMBDA p : All(<< ReadScore(p[1]), Ok(p[2]) >>))
    <3> HIDE DEF words
    <3> QED
      BY <1>5, <2>1 DEF ReadZadd
  <2> QED
    BY <1>7, <2>1 DEF ForEach
<1>9. Size > 0 => ReadScore(ZincrBy(Key, entries[1][1], entries[1][2])[3]) = Ok(entries[1][1])
  <2>1. ZincrBy(Key, entries[1][1], entries[1][2])[3] = FormatScore(entries[1][1])
    BY DEF ZincrBy
  <2>2. Size > 0 => 1 \in 1..Size
    BY <1>1
  <2> QED
    BY <1>6, <2>1, <2>2
<1>10. entries = << >> <=> Size = 0
  BY <1>1, <1>2
<1>11. Size = 0 \/ Size > 0
  BY <1>1
<1> QED
  BY <1>5, <1>8, <1>9, <1>10, <1>11 DEF ZaddSaysIt, entries, c

\* What Redis reads in a HSET.
LEMMA HsetIsSaid ==
    ASSUME TypeOK
    PROVE  HsetSaysIt
<1>1. Size \in Nat /\ DOMAIN InOrder = 1..Size
  BY ContentListed
<1> DEFINE entries == [i \in DOMAIN InOrder |-> << InOrder[i], content[InOrder[i]] >>]
           words == Flat(entries)
           c == Hset(Key, entries)
<1>2. DOMAIN entries = 1..Size /\ entries = [i \in 1..Size |-> << entries[i][1], entries[i][2] >>]
  BY <1>1
<1> HIDE DEF entries
<1>3. c = UnlessEmpty(<< "HSET", Key >>, Flat(entries))
  BY DEF Hset, HashEntriesArgs
<1> HIDE DEF c
<1>4. /\ Size = 0 => c = << >>
      /\ Size > 0 => /\ SubSeq(c, 3, Len(c)) = words /\ words # << >>
                     /\ Len(words) % 2 = 0 /\ PairsOf(words) = entries
  <2>1. PICK n \in Nat : n = Size
    BY <1>1
  <2>2. entries = [i \in 1..n |-> << entries[i][1], entries[i][2] >>]
    BY <1>2, <2>1
  <2>3. \A d : d = UnlessEmpty(<< "HSET", Key >>, Flat(entries)) =>
              /\ n = 0 => d = << >>
              /\ n > 0 => /\ SubSeq(d, 3, Len(d)) = Flat(entries) /\ Flat(entries) # << >>
                          /\ Len(Flat(entries)) % 2 = 0 /\ PairsOf(Flat(entries)) = entries
    BY <2>2, PairsAsWords
  <2>4. /\ n = 0 => c = << >>
        /\ n > 0 => /\ SubSeq(c, 3, Len(c)) = words /\ words # << >>
                    /\ Len(words) % 2 = 0 /\ PairsOf(words) = entries
    BY <1>3, <2>3, Zenon
  <2> QED
    BY <2>1, <2>4
<1> HIDE DEF words
<1>5. Size > 0 => ReadHset(c) = Ok(entries)
  BY <1>4 DEF ReadHset
<1>6. entries = << >> <=> Size = 0
  BY <1>1, <1>2
<1>7. Size = 0 \/ Size > 0
  BY <1>1
<1> QED
  BY <1>4, <1>5, <1>6, <1>7 DEF HsetSaysIt, entries, c

\* What Redis reads in a SADD.
LEMMA SaddIsSaid == SaddSaysIt
BY DEF SaddSaysIt, Sadd, UnlessEmpty

(***************************************************************************)
(* What a key holds at every step.                                         *)
(***************************************************************************)

\* What a key holds is a function, of the scores that the calls give if it is a
\* sorted set.
ContentInv ==
    /\ content = [i \in DOMAIN content |-> content[i]]
    /\ kind = "zset" => \A i \in DOMAIN content : content[i] \in Payloads["zset"]

\* An EXPIRE to come asks for a lifetime that a call or the cell has.
AskedInv == \A f \in Fibers : todo[f].step = "stamp" => todo[f].asked \in Lifetimes

\* A payload of the kind keeps the content what it is.
LEMMA PutKeeps ==
    ASSUME ContentInv, NEW item, NEW payload, UNCHANGED kind,
           kind = "zset" => payload \in Payloads["zset"],
           content' = Put(item, payload)
    PROVE  ContentInv'
<1>1. content' = [i \in DOMAIN content \cup {item} |-> IF i = item THEN payload ELSE content[i]]
  BY DEF Put
<1>2. content' = [i \in DOMAIN content' |-> content'[i]]
  BY <1>1
<1>3. ASSUME kind = "zset", NEW i \in DOMAIN content' PROVE content'[i] \in Payloads["zset"]
  BY <1>1, <1>3 DEF ContentInv
<1> QED
  BY <1>2, <1>3 DEF ContentInv

\* So does the loss of items.
LEMMA LoseKeepsContent ==
    ASSUME ContentInv, NEW items, Lose(items), UNCHANGED kind
    PROVE  ContentInv'
<1>1. content' = [i \in DOMAIN content \ items |-> content[i]]
  BY DEF Lose
<1>2. content' = [i \in DOMAIN content' |-> content'[i]]
  BY <1>1
<1>3. ASSUME kind = "zset", NEW i \in DOMAIN content' PROVE content'[i] \in Payloads["zset"]
  BY <1>1, <1>3 DEF ContentInv
<1> QED
  BY <1>2, <1>3 DEF ContentInv

\* The content stays a function, whatever is written to the key or removed.
LEMMA ContentKept == CellInv /\ ContentInv /\ [Next]_vars => ContentInv'
<1> SUFFICES ASSUME CellInv, ContentInv, [Next]_vars PROVE ContentInv'
  OBVIOUS
<1>0. ASSUME UNCHANGED << kind, content >> PROVE ContentInv'
  BY <1>0 DEF ContentInv
<1>1. ASSUME NEW f \in Fibers, UpdateSet(f) PROVE ContentInv'
  <2>1. kind = "ref" /\ UNCHANGED kind /\ content' = Put("value", todo[f].payload)
    BY <1>1 DEF UpdateSet, StoreRef, CellInv, StampInv
  <2> QED
    BY <2>1, PutKeeps
<1>2. ASSUME NEW f \in Fibers, NEW i \in Items[kind], NEW p \in Payloads[kind], NEW o \in Options,
             Write(f, i, p, o)
      PROVE  ContentInv'
  BY <1>2, PutKeeps DEF Write
<1>3. ASSUME NEW p \in Payloads[kind], NEW o \in Options, RefSet(p, o) PROVE ContentInv'
  BY <1>3, PutKeeps DEF RefSet, StoreRef
<1>4. ASSUME NEW i \in Items[kind], SetRemove(i) \/ ZsetRemove(i) \/ HashRemove(i)
      PROVE  ContentInv'
  BY <1>4, LoseKeepsContent DEF SetRemove, ZsetRemove, HashRemove, RemoveItem
<1>5. CASE Delete
  BY <1>5, LoseKeepsContent DEF Delete
<1>6. ASSUME NEW i \in Items[kind], Spoil(i) PROVE ContentInv'
  <2>1. UNCHANGED kind /\ Exists
    BY <1>6 DEF Spoil
  <2>2. CASE kind \in {"ref", "hash"}
    BY <1>6, <2>1, <2>2, PutKeeps DEF Spoil
  <2>3. CASE kind \notin {"ref", "hash"}
    <3> DEFINE p == CHOOSE p \in Payloads[kind] : TRUE
    <3>1. content' = Put(Bad, p)
      BY <1>6, <2>3 DEF Spoil
    <3>2. kind = "zset" => p \in Payloads["zset"]
      BY <2>1 DEF Exists, ContentInv
    <3> HIDE DEF p
    <3> QED
      BY <2>1, <3>1, <3>2, PutKeeps
  <2> QED
    BY <2>2, <2>3
<1>7. CASE Tick
  BY <1>0, <1>7, LoseKeepsContent DEF Tick
<1>8. ASSUME NEW f \in Fibers, Call(f) PROVE ContentInv'
  <2>1. ASSUME NEW p \in Payloads[kind], NEW keep \in BOOLEAN, UpdateRead(f, p, keep)
        PROVE  ContentInv'
    BY <1>0, <2>1 DEF UpdateRead
  <2>2. ASSUME Stamp(f) \/ Abandon(f) PROVE ContentInv'
    BY <1>0, <2>2 DEF Stamp, Abandon
  <2> QED
    BY <1>1, <1>2, <1>8, <2>1, <2>2 DEF Call, SetAdd, ZsetAdd, ZsetIncrBy, HashSet
<1>9. CASE ExpireCall \/ UNCHANGED vars
  BY <1>0, <1>9 DEF ExpireCall, vars
<1> QED
  BY <1>3, <1>4, <1>5, <1>6, <1>7, <1>8, <1>9 DEF Next

\* No fiber learns of another lifetime.
LEMMA AskedKept == CellInv /\ AskedInv /\ [Next]_vars => AskedInv'
<1> SUFFICES ASSUME CellInv, AskedInv, [Next]_vars PROVE AskedInv'
  OBVIOUS
<1>0. ASSUME UNCHANGED todo PROVE AskedInv'
  BY <1>0 DEF AskedInv
<1>1. ASSUME NEW f \in Fibers, NEW c, c.step = "stamp" => c.asked \in Lifetimes,
             todo' = [todo EXCEPT ![f] = c]
      PROVE  AskedInv'
  <2>1. \A g \in Fibers : todo'[g] = IF g = f THEN c ELSE todo[g]
    BY <1>1 DEF CellInv, TypeOK
  <2> QED
    BY <1>1, <2>1 DEF AskedInv
<1>2. ASSUME NEW items, Lose(items) PROVE AskedInv'
  <2>1. ASSUME NEW g \in Fibers
        PROVE  todo'[g].step = todo[g].step /\ todo'[g].asked = todo[g].asked
    <3>1. todo[g] \in ToSend
      BY DEF CellInv, TypeOK
    <3>2. todo'[g] = IF todo[g].item \in items THEN [todo[g] EXCEPT !.gone = TRUE] ELSE todo[g]
      BY <1>2 DEF Lose
    <3> QED
      BY <3>1, <3>2 DEF ToSend
  <2> QED
    BY <2>1 DEF AskedInv
<1>3. ASSUME NEW f \in Fibers, NEW i \in Items[kind], NEW p \in Payloads[kind], NEW o \in Options,
             Write(f, i, p, o)
      PROVE  AskedInv'
  <2>1. CASE Asked(o) = None
    BY <1>0, <1>3, <2>1 DEF Write
  <2>2. CASE Asked(o) # None
    <3> DEFINE c == [Nothing EXCEPT !.step = "stamp", !.item = i, !.asked = Asked(o)[1]]
    <3>1. todo' = [todo EXCEPT ![f] = c]
      BY <1>3, <2>2 DEF Write
    <3>2. c.asked = Asked(o)[1]
      BY DEF Nothing
    <3>3. Asked(o)[1] \in Lifetimes
      <4>1. o.keepTtl \in BOOLEAN /\ o.ttl \in {None, Some(Own)} /\ ttl \in Ttls
        BY DEF Options, CellInv, TypeOK
      <4>2. Asked(o) \in {None, Some(Own), ttl}
        BY <4>1 DEF Asked
      <4>3. Some(Own)[1] = Own
        BY DEF Some
      <4> QED
        BY <2>2, <4>1, <4>2, <4>3 DEF Lifetimes
    <3> HIDE DEF c
    <3> QED
      BY <1>1, <3>1, <3>2, <3>3
  <2> QED
    BY <2>1, <2>2
<1>4. ASSUME NEW f \in Fibers, NEW p \in Payloads[kind], NEW keep \in BOOLEAN, UpdateRead(f, p, keep)
      PROVE  AskedInv'
  <2> DEFINE c == [Nothing EXCEPT !.step = "set", !.payload = p, !.keepTtl = keep]
  <2>1. todo' = [todo EXCEPT ![f] = c] /\ c.step # "stamp"
    BY <1>4 DEF UpdateRead, Nothing
  <2> HIDE DEF c
  <2> QED
    BY <1>1, <2>1
<1>5. ASSUME NEW f \in Fibers, UpdateSet(f) \/ Stamp(f) \/ Abandon(f) PROVE AskedInv'
  <2>1. todo' = [todo EXCEPT ![f] = Nothing] /\ Nothing.step # "stamp"
    BY <1>5 DEF UpdateSet, Stamp, Abandon, Nothing
  <2> QED
    BY <1>1, <2>1
<1>6. ASSUME NEW f \in Fibers, Call(f) PROVE AskedInv'
  BY <1>3, <1>4, <1>5, <1>6 DEF Call, SetAdd, ZsetAdd, ZsetIncrBy, HashSet
<1>7. ASSUME NEW i \in Items[kind], SetRemove(i) \/ ZsetRemove(i) \/ HashRemove(i) \/ Spoil(i)
      PROVE  AskedInv'
  BY <1>0, <1>2, <1>7 DEF SetRemove, ZsetRemove, HashRemove, RemoveItem, Spoil
<1>8. ASSUME NEW p \in Payloads[kind], NEW o \in Options, RefSet(p, o) PROVE AskedInv'
  BY <1>0, <1>8 DEF RefSet
<1>9. CASE Delete \/ ExpireCall \/ Tick \/ UNCHANGED vars
  BY <1>0, <1>2, <1>9 DEF Delete, ExpireCall, Tick, vars
<1> QED
  BY <1>6, <1>7, <1>8, <1>9 DEF Next

\* What a key holds, and the lifetimes that are to come.
THEOREM ContentHolds == Spec => [](CellInv /\ ContentInv /\ AskedInv)
<1>1. Init => ContentInv /\ AskedInv
  <2> SUFFICES ASSUME Init PROVE ContentInv /\ AskedInv
    OBVIOUS
  <2>1. content = [i \in {} |-> Bad] /\ \A f \in Fibers : todo[f] = Nothing
    BY DEF Init, Empty
  <2>2. content = [i \in DOMAIN content |-> content[i]] /\ DOMAIN content = {}
    BY <2>1
  <2> QED
    BY <2>1, <2>2, NothingToSend DEF ContentInv, AskedInv
<1> QED
  BY <1>1, CellInvHolds, ContentKept, AskedKept, PTL DEF Spec

\* A read answers what the key holds, in RESP2 and in RESP3 alike
\* (decode.ts, Redis.ts:394-476, Redis.ts:614).
THEOREM ReadsAreTrueHolds == Spec => []ReadsAreTrue
<1>1. CellInv /\ ContentInv => ReadsAreTrue
  <2> SUFFICES ASSUME CellInv, ContentInv PROVE ReadsAreTrue
    OBVIOUS
  <2>1. TypeOK /\ kind \in {"ref", "set", "zset", "hash"} /\ kind \in Kinds
    BY CellsAssumption DEF CellInv, TypeOK
  <2>2. CASE kind = "ref"
    BY <2>1, <2>2, LifetimeRead, RefRead DEF ReadsAreTrue
  <2>3. CASE kind = "set"
    BY <2>1, <2>3, LifetimeRead, SetContentRead DEF ReadsAreTrue
  <2>4. CASE kind = "zset"
    <3>1. \A i \in DOMAIN content : content[i] \in Scores
      BY <2>1, <2>4, TypedCellAssumption DEF ContentInv
    <3> QED
      BY <2>1, <2>4, <3>1, LifetimeRead, ZsetRead DEF ReadsAreTrue
  <2>5. CASE kind = "hash"
    <3>1. content = [i \in DOMAIN content |-> content[i]]
      BY DEF ContentInv
    <3> QED
      BY <2>1, <2>5, <3>1, LifetimeRead, HashRead DEF ReadsAreTrue
  <2> QED
    BY <2>1, <2>2, <2>3, <2>4, <2>5
<1> QED
  BY <1>1, ContentHolds, PTL

\* Redis reads in the words of a command what the call means
\* (RedisCommand.ts:13-74, Redis.ts:422-459, :758).
THEOREM CommandsSayItHolds == Spec => []CommandsSayIt
<1>1. CellInv /\ ContentInv /\ AskedInv => CommandsSayIt
  <2> SUFFICES ASSUME CellInv, ContentInv, AskedInv PROVE CommandsSayIt
    OBVIOUS
  <2>1. TypeOK /\ kind \in {"ref", "set", "zset", "hash"} /\ kind \in Kinds
    BY CellsAssumption DEF CellInv, TypeOK
  <2>2. \A f \in Fibers : todo[f].step = "stamp" =>
           ReadExpire(Expire(Key, todo[f].asked)) = Ok(Lifetime(todo[f].asked))
    BY ExpireRead DEF AskedInv
  <2>3. CASE kind = "ref"
    BY <2>1, <2>2, <2>3, SetIsSaid DEF CommandsSayIt
  <2>4. CASE kind = "set"
    BY <2>2, <2>4, SaddIsSaid DEF CommandsSayIt
  <2>5. CASE kind = "zset"
    <3>1. \A i \in DOMAIN content : content[i] \in Scores
      BY <2>1, <2>5, TypedCellAssumption DEF ContentInv
    <3> QED
      BY <2>1, <2>2, <2>5, <3>1, ZaddIsSaid DEF CommandsSayIt
  <2>6. CASE kind = "hash"
    BY <2>1, <2>2, <2>6, HsetIsSaid DEF CommandsSayIt
  <2> QED
    BY <2>1, <2>3, <2>4, <2>5, <2>6
<1> QED
  BY <1>1, ContentHolds, PTL

=============================================================================
