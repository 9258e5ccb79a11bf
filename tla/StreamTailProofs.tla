-------------------------- MODULE StreamTailProofs --------------------------
(***************************************************************************)
(* Proofs about StreamTail for every set of starts, every count and every  *)
(* number of entries and drops.                                            *)
(***************************************************************************)
EXTENDS StreamTail, SequenceTheorems, TLAPS

\* Where the reader stands: lastId is the last id emitted, or the start; an
\* XREAD with an id reads after it; a reply holds entries of the stream.
CursorInv ==
    /\ delivered = << >> => lastId = seed
    /\ delivered # << >> => lastId = delivered[Len(delivered)]
    /\ conn \in { "blocked", "replied" } /\ lastId # Live => anchor = lastId
    /\ conn = "replied" => anchor < reply /\ reply <= appended

\* What a live tail that missed nothing has seen: everything up to `begun`.
LiveInv ==
    /\ begun # NotBegun => begun <= appended
    /\ begun = NotBegun => conn \in { "down", "idle" } /\ delivered = << >>
    /\ lastId = Live /\ begun # NotBegun /\ ~gap =>
          IF conn \in { "blocked", "replied" } THEN anchor = begun ELSE appended = begun

TailInv == TypeOK /\ CursorInv /\ LiveInv /\ Contiguous /\ StartsWhereAsked

\* The ids a + 1 .. b as a sequence.
LEMMA IdsProperties ==
    ASSUME NEW a \in Nat, NEW b \in Nat, a < b
    PROVE  /\ Ids(a + 1, b) \in Seq(a + 1 .. b)
           /\ Len(Ids(a + 1, b)) = b - a
           /\ \A i \in 1..(b - a) : Ids(a + 1, b)[i] = a + i
<1>1. Ids(a + 1, b) = [i \in 1..(b - a) |-> a + i]
  <2>1. b - (a + 1) + 1 = b - a
    OBVIOUS
  <2>2. \A i \in 1..(b - a) : (a + 1) + i - 1 = a + i
    OBVIOUS
  <2> QED
    BY <2>1, <2>2 DEF Ids
<1>2. \A i \in 1..(b - a) : a + i \in a + 1 .. b
  OBVIOUS
<1>3. b - a \in Nat
  OBVIOUS
<1>4. Ids(a + 1, b) \in Seq(a + 1 .. b)
  BY <1>1, <1>2, <1>3, IsASeq
<1> QED
  BY <1>1, <1>3, <1>4, LenProperties

\* t is s with the ids a + 1 .. b behind it, all of them in 1..N.
IsExtended(N, s, a, b, t) ==
    /\ t \in Seq(1..N)
    /\ t # << >>
    /\ Len(t) = Len(s) + (b - a)
    /\ t[Len(t)] = b
    /\ \A i \in 1..Len(s) : t[i] = s[i]
    /\ \A i \in (Len(s) + 1)..Len(t) : t[i] = a + (i - Len(s))

\* What a chunk makes of the ids emitted so far.
LEMMA ChunkProperties ==
    ASSUME NEW N \in Nat, NEW s \in Seq(1..N), NEW a \in Nat, NEW b \in 1..N, a < b
    PROVE  IsExtended(N, s, a, b, s \o Ids(a + 1, b))
<1> DEFINE t == s \o Ids(a + 1, b)
<1> DEFINE c == Ids(a + 1, b)
<1>0. t = s \o c
  OBVIOUS
<1>1. c \in Seq(1..N) /\ Len(c) = b - a /\ \A i \in 1..(b - a) : c[i] = a + i
  <2>1. c \in Seq(a + 1 .. b) /\ Len(c) = b - a /\ \A i \in 1..(b - a) : c[i] = a + i
    BY IdsProperties
  <2>2. (a + 1 .. b) \subseteq 1..N
    OBVIOUS
  <2> QED
    BY <2>1, <2>2, SeqMonotonic
<1> HIDE DEF c, t
<1>2. t \in Seq(1..N) /\ Len(t) = Len(s) + (b - a) /\ Len(s) \in Nat
  <2>1. t \in Seq(1..N) /\ Len(t) = Len(s) + Len(c)
    BY <1>0, <1>1, ConcatProperties
  <2> QED
    BY <1>1, <2>1, LenProperties
<1>3. \A i \in 1..Len(s) : t[i] = s[i]
  BY <1>0, <1>1, ConcatProperties, LenProperties
<1>4. \A i \in (Len(s) + 1)..Len(t) : t[i] = a + (i - Len(s))
  <2> SUFFICES ASSUME NEW i \in (Len(s) + 1)..Len(t) PROVE t[i] = a + (i - Len(s))
    OBVIOUS
  <2>1. Len(s) \in Nat /\ i - Len(s) \in 1..(b - a)
    BY <1>2, LenProperties
  <2>2. t[i] = c[i - Len(s)]
    <3>1. \A j \in 1..(Len(s) + Len(c)) : t[j] = IF j <= Len(s) THEN s[j] ELSE c[j - Len(s)]
      <4>1. c \in Seq(1..N) /\ s \in Seq(1..N)
        BY <1>1
      <4>2. \A j \in 1..(Len(s) + Len(c)) : (s \o c)[j] = IF j <= Len(s) THEN s[j] ELSE c[j - Len(s)]
        BY <4>1, ConcatProperties
      <4> QED
        BY <1>0, <4>2, Zenon
    <3>2. i \in 1..(Len(s) + Len(c)) /\ ~(i <= Len(s))
      BY <1>1, <1>2, <2>1
    <3> QED
      BY <3>1, <3>2
  <2> QED
    BY <1>1, <2>1, <2>2
<1>5. t # << >> /\ t[Len(t)] = b
  <2>1. Len(t) \in Nat /\ Len(t) > Len(s) /\ Len(t) \in (Len(s) + 1)..Len(t)
    BY <1>2
  <2>2. t[Len(t)] = a + (Len(t) - Len(s))
    BY <1>4, <2>1
  <2>3. t # << >>
    BY <2>1, EmptySeq
  <2> QED
    BY <1>2, <2>1, <2>2, <2>3
<1>6. IsExtended(N, s, a, b, t)
  BY <1>2, <1>3, <1>4, <1>5 DEF IsExtended
<1> QED
  BY <1>6 DEF t

\* Types, and where a reader stands after any drops and timeouts.
THEOREM TailInvHolds == Spec => []TailInv
<1> USE TailAssumption DEF Live, NotBegun
<1>1. Init => TailInv
  <2> SUFFICES ASSUME Init PROVE TailInv
    OBVIOUS
  <2>1. delivered = << >> /\ Len(delivered) = 0 /\ delivered \in Seq(1..MaxEntries)
    BY EmptySeq DEF Init
  <2>2. TypeOK
    <3>1. /\ 0 \in 0..MaxEntries /\ 0 \in 0..MaxDrops /\ 0 \in Nat
          /\ FALSE \in BOOLEAN /\ NotBegun \in 0..MaxEntries \cup {NotBegun}
      OBVIOUS
    <3>2. seed \in Seeds /\ lastId \in {seed} \cup 1..MaxEntries
          /\ conn \in { "down", "idle", "blocked", "replied" }
      BY DEF Init
    <3> QED
      BY <2>1, <3>1, <3>2, Zenon DEF Init, TypeOK
  <2>3. CursorInv /\ LiveInv
    BY <2>1 DEF Init, CursorInv, LiveInv
  <2>4. Contiguous
    BY <2>1 DEF Contiguous
  <2>5. StartsWhereAsked
    BY <2>1 DEF StartsWhereAsked
  <2> QED
    BY <2>2, <2>3, <2>4, <2>5 DEF TailInv
<1>2. TailInv /\ [Next]_vars => TailInv'
  <2> SUFFICES ASSUME TailInv, [Next]_vars PROVE TailInv'
    OBVIOUS
  <2>0. /\ lastId \in Nat \cup {Live} /\ anchor \in Nat /\ reply \in Nat
        /\ appended \in 0..MaxEntries /\ MaxEntries \in Nat /\ Count \in Nat \ {0}
        /\ begun \in Nat \cup {NotBegun} /\ seed \in Nat \cup {Live}
    BY DEF TailInv, TypeOK
  <2>a. delivered' = delivered => Contiguous' /\ (begun' = begun /\ gap' = gap /\ seed' = seed =>
                                                   StartsWhereAsked')
    BY DEF TailInv, Contiguous, StartsWhereAsked
  <2>1. CASE Append1
    <3>1. TypeOK'
      BY <2>0, <2>1 DEF Append1, TailInv, TypeOK
    <3>2. CursorInv'
      BY <2>0, <2>1 DEF Append1, TailInv, CursorInv
    <3>3. LiveInv'
      <4>1. ~gap' => ~gap /\ (lastId = Live /\ begun # NotBegun => conn \notin { "down", "idle" })
        BY <2>1 DEF Append1
      <4>2. LiveInv /\ conn \in { "down", "idle", "blocked", "replied" }
        BY DEF TailInv, TypeOK
      <4> QED
        BY <2>0, <2>1, <4>1, <4>2 DEF Append1, LiveInv
    <3>4. Contiguous' /\ StartsWhereAsked'
      BY <2>1 DEF Append1, TailInv, Contiguous, StartsWhereAsked
    <3> QED
      BY <3>1, <3>2, <3>3, <3>4 DEF TailInv
  <2>2. CASE Connect
    <3>1. TypeOK' /\ CursorInv' /\ LiveInv'
      BY <2>0, <2>2 DEF Connect, TailInv, TypeOK, CursorInv, LiveInv
    <3> QED
      BY <2>2, <2>a, <3>1 DEF Connect, TailInv
  <2>3. CASE Read
    <3>1. TypeOK'
      BY <2>0, <2>3 DEF Read, TailInv, TypeOK
    <3>2. CursorInv' /\ LiveInv'
      BY <2>0, <2>3 DEF Read, TailInv, CursorInv, LiveInv
    <3>3. StartsWhereAsked'
      BY <2>0, <2>3 DEF Read, TailInv, LiveInv, StartsWhereAsked
    <3> QED
      BY <2>3, <2>a, <3>1, <3>2, <3>3 DEF Read, TailInv
  <2>4. CASE Reply
    <3>1. TypeOK'
      BY <2>0, <2>4 DEF Reply, TailInv, TypeOK
    <3>2. CursorInv' /\ LiveInv'
      BY <2>0, <2>4 DEF Reply, TailInv, CursorInv, LiveInv
    <3> QED
      BY <2>4, <2>a, <3>1, <3>2 DEF Reply, TailInv
  <2>5. CASE Timeout
    <3>1. TypeOK' /\ CursorInv'
      BY <2>0, <2>5 DEF Timeout, TailInv, TypeOK, CursorInv
    <3>2. LiveInv'
      BY <2>0, <2>5 DEF Timeout, TailInv, LiveInv
    <3> QED
      BY <2>5, <2>a, <3>1, <3>2 DEF Timeout, TailInv
  <2>6. CASE Deliver
    <3> DEFINE t == delivered \o Ids(anchor + 1, reply)
    <3>1. anchor \in Nat /\ anchor < reply /\ reply \in 1..MaxEntries /\ delivered \in Seq(1..MaxEntries)
      BY <2>0, <2>6 DEF Deliver, TailInv, TypeOK, CursorInv
    <3>2. /\ t \in Seq(1..MaxEntries) /\ t # << >>
          /\ Len(t) = Len(delivered) + (reply - anchor) /\ t[Len(t)] = reply
          /\ \A i \in 1..Len(delivered) : t[i] = delivered[i]
          /\ \A i \in (Len(delivered) + 1)..Len(t) : t[i] = anchor + (i - Len(delivered))
      <4>1. MaxEntries \in Nat
        BY <2>0
      <4>2. IsExtended(MaxEntries, delivered, anchor, reply, t)
        BY <3>1, <4>1, ChunkProperties
      <4> QED
        BY <4>2 DEF IsExtended
    <3>3. delivered' = t /\ lastId' = reply /\ conn' = "idle"
          /\ UNCHANGED << seed, appended, anchor, reply, begun, gap, drops >>
      BY <2>6 DEF Deliver
    <3>4. Len(delivered) \in Nat /\ (delivered # << >> => Len(delivered) >= 1)
          /\ (delivered = << >> => Len(delivered) = 0)
      BY <3>1, LenProperties, EmptySeq
    <3> HIDE DEF t
    <3>a. Len(t) \in Nat
      BY <3>2, LenProperties
    <3>5. TypeOK'
      BY <3>1, <3>2, <3>3 DEF TailInv, TypeOK
    <3>6. CursorInv'
      BY <3>2, <3>3 DEF CursorInv
    <3>7. LiveInv'
      BY <2>6, <3>1, <3>3 DEF Deliver, TailInv, LiveInv
    <3>8. Contiguous'
      <4> SUFFICES ASSUME NEW i \in 1..(Len(t) - 1) PROVE t[i + 1] = t[i] + 1
        BY <3>3 DEF Contiguous
      <4>0. i \in Nat /\ i >= 1 /\ i + 1 <= Len(t)
        BY <3>a
      <4>1. CASE i < Len(delivered)
        <5>1. delivered[i + 1] = delivered[i] + 1
          BY <3>4, <4>0, <4>1 DEF TailInv, Contiguous
        <5>2. i \in 1..Len(delivered) /\ i + 1 \in 1..Len(delivered)
          BY <3>4, <4>0, <4>1
        <5>3. t[i] = delivered[i] /\ t[i + 1] = delivered[i + 1]
          BY <3>2, <5>2
        <5> QED
          BY <5>1, <5>3
      <4>2. CASE i = Len(delivered)
        <5>1. t[i] = lastId /\ lastId \in Nat
          BY <3>1, <3>2, <3>4, <4>2, ElementOfSeq DEF TailInv, CursorInv
        <5>2. lastId = anchor
          BY <2>6, <5>1 DEF Deliver, TailInv, CursorInv
        <5>3. i + 1 \in (Len(delivered) + 1)..Len(t)
          BY <2>0, <3>1, <3>2, <3>4, <4>2
        <5>4. t[i + 1] = anchor + ((i + 1) - Len(delivered))
          BY <3>2, <5>3
        <5> QED
          BY <2>0, <3>4, <4>2, <5>1, <5>2, <5>4
      <4>3. CASE i > Len(delivered)
        <5>1. /\ i \in (Len(delivered) + 1)..Len(t)
              /\ i + 1 \in (Len(delivered) + 1)..Len(t)
          BY <3>4, <3>a, <4>0, <4>3
        <5>2. /\ t[i] = anchor + (i - Len(delivered))
              /\ t[i + 1] = anchor + ((i + 1) - Len(delivered))
          BY <3>2, <5>1
        <5> QED
          BY <2>0, <3>4, <5>2
      <4> QED
        BY <3>4, <4>1, <4>2, <4>3
    <3>9. StartsWhereAsked'
      <4>1. CASE delivered = << >>
        <5>1. t[1] = anchor + 1
          <6>1. Len(delivered) = 0 /\ 1 \in (Len(delivered) + 1)..Len(t)
            BY <2>0, <3>1, <3>2, <3>4, <4>1
          <6>2. t[1] = anchor + (1 - Len(delivered))
            BY <3>2, <6>1
          <6> QED
            BY <2>0, <6>1, <6>2
        <5>2. lastId = seed /\ (lastId # Live => anchor = lastId)
          BY <2>6, <4>1 DEF Deliver, TailInv, CursorInv
        <5>3. lastId = Live /\ ~gap => anchor = begun
          BY <2>6 DEF Deliver, TailInv, LiveInv
        <5> QED
          BY <3>3, <5>1, <5>2, <5>3 DEF StartsWhereAsked
      <4>2. CASE delivered # << >>
        <5>1. t[1] = delivered[1]
          BY <3>2, <3>4, <4>2
        <5> QED
          BY <3>3, <4>2, <5>1 DEF TailInv, StartsWhereAsked
      <4> QED
        BY <4>1, <4>2
    <3> QED
      BY <3>5, <3>6, <3>7, <3>8, <3>9 DEF TailInv
  <2>7. CASE Drop
    <3>1. TypeOK' /\ CursorInv'
      BY <2>0, <2>7 DEF Drop, TailInv, TypeOK, CursorInv
    <3>2. LiveInv'
      <4>1. ~gap' => ~gap /\ (lastId = Live /\ conn \in { "blocked", "replied" } => appended <= anchor)
        <5>1. ~gap' => ~gap /\ ~(lastId = Live /\ conn \in { "blocked", "replied" } /\ appended > anchor)
          BY <2>7 DEF Drop
        <5> QED
          BY <2>0, <5>1
      <4> QED
        BY <2>0, <2>7, <4>1 DEF Drop, TailInv, LiveInv
    <3>3. StartsWhereAsked'
      BY <2>7 DEF Drop, TailInv, StartsWhereAsked
    <3> QED
      BY <2>7, <2>a, <3>1, <3>2, <3>3 DEF Drop, TailInv
  <2>8. CASE UNCHANGED vars
    BY <2>8 DEF vars, TailInv, TypeOK, CursorInv, LiveInv, Contiguous, StartsWhereAsked
  <2> QED
    BY <2>1, <2>2, <2>3, <2>4, <2>5, <2>6, <2>7, <2>8 DEF Next
<1> QED
  BY <1>1, <1>2, PTL DEF Spec

\* Type correctness of the reader.
THEOREM TypeCorrect == Spec => []TypeOK
<1>1. TailInv => TypeOK
  BY DEF TailInv
<1> QED
  BY <1>1, TailInvHolds, PTL

\* Whatever drops and times out, the Stream emits consecutive ids.
THEOREM ContiguousHolds == Spec => []Contiguous
<1>1. TailInv => Contiguous
  BY DEF TailInv
<1> QED
  BY <1>1, TailInvHolds, PTL

\* The Stream starts where it was asked to, or a live tail has missed an entry
\* between two XREADs.
THEOREM StartsWhereAskedHolds == Spec => []StartsWhereAsked
<1>1. TailInv => StartsWhereAsked
  BY DEF TailInv
<1> QED
  BY <1>1, TailInvHolds, PTL
=============================================================================
