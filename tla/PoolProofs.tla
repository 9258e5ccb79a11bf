----------------------------- MODULE PoolProofs -----------------------------
(***************************************************************************)
(* Proofs about Pool for every set of callers and slots, every length of   *)
(* pipelines, and any number of calls and faults.                          *)
(***************************************************************************)
EXTENDS Pool, SequenceTheorems, TLAPS

\* The commands that a list of replies answers.
Answered(r) == [i \in DOMAIN r |-> r[i][1]]

\* The promises p are those that the replies r and the commands q on the socket
\* will settle, in this order.
Matches(p, r, q) ==
    /\ Len(p) = Len(r) + Len(q)
    /\ \A i \in 1..Len(r) : p[i] = r[i][1]
    /\ \A i \in 1..Len(q) : p[Len(r) + i] = q[i]

InLine(S, p, r, q) ==
    /\ p \in Seq(S) /\ r \in Seq(S \X BOOLEAN) /\ q \in Seq(S)
    /\ p = Answered(r) \o q

\* The callers: a call in progress has a number and commands without a reply,
\* and slots and users match.
CallerInv ==
    /\ user \in [Slots -> Callers \cup {Nobody}]
    /\ pc \in [Callers -> { "idle", "wait", "use" }]
    /\ call \in [Callers -> 0..MaxCalls]
    /\ calls \in 0..MaxCalls
    /\ left \in [Callers -> 0..MaxSize]
    /\ outcome \in [1..MaxCalls -> Outcomes]
    /\ \A c \in Callers : pc[c] # "idle" => call[c] \in 1..MaxCalls /\ left[c] \in 1..MaxSize
    /\ SlotsBalance

\* A connection: its line of promises, no reply from before it was down, and no
\* user after a ConnectionError.
SlotOK(s) ==
    /\ link[s] \in { "up", "hung" } => promises[s] = Answered(replies[s]) \o sent[s]
    /\ link[s] = "down" => replies[s] = << >>
    /\ failed[s] => link[s] = "none" /\ user[s] = Nobody

WireTypes ==
    /\ link \in [Slots -> Links]
    /\ promises \in [Slots -> Seq(Commands)]
    /\ sent \in [Slots -> Seq(Commands)]
    /\ replies \in [Slots -> Seq(Commands \X BOOLEAN)]
    /\ failed \in [Slots -> BOOLEAN]

RestTypes ==
    /\ adapter \in Adapters /\ deadline \in BOOLEAN
    /\ runs \in [Commands -> Nat]
    /\ faults \in 0..MaxFaults

PoolInv == CallerInv /\ WireTypes /\ (\A s \in Slots : SlotOK(s)) /\ RestTypes

LEMMA MaxSizeBounds == MaxSize \in Sizes /\ MaxSize \in Nat \ {0} /\ \A n \in Sizes : n <= MaxSize
BY PoolAssumption DEF MaxSize

(***************************************************************************)
(* The line of promises.                                                   *)
(***************************************************************************)
LEMMA LenOf ==
    ASSUME NEW S, NEW s \in Seq(S)
    PROVE  /\ Len(s) \in Nat /\ DOMAIN s = 1..Len(s)
           /\ s = << >> <=> Len(s) = 0
           /\ \A i \in 1..Len(s) : s[i] \in S
BY LenProperties, EmptySeq, ElementOfSeq

\* AnswersAreOwn, place by place.
LEMMA MatchesIffConcat ==
    ASSUME NEW S, NEW p \in Seq(S), NEW r \in Seq(S \X BOOLEAN), NEW q \in Seq(S)
    PROVE  p = Answered(r) \o q <=> Matches(p, r, q)
<1> DEFINE a == Answered(r)
<1>1. a \in Seq(S) /\ Len(a) = Len(r) /\ \A i \in 1..Len(r) : a[i] = r[i][1]
  <2>1. Len(r) \in Nat /\ DOMAIN r = 1..Len(r) /\ \A i \in 1..Len(r) : r[i] \in S \X BOOLEAN
    BY LenOf
  <2>2. a = [i \in 1..Len(r) |-> r[i][1]] /\ \A i \in 1..Len(r) : r[i][1] \in S
    BY <2>1 DEF Answered
  <2>3. a \in Seq(S)
    BY <2>1, <2>2, IsASeq
  <2> QED
    BY <2>1, <2>2, <2>3, LenProperties
<1> HIDE DEF a
<1>2. /\ a \o q \in Seq(S) /\ Len(a \o q) = Len(r) + Len(q)
      /\ \A i \in 1..(Len(a) + Len(q)) : (a \o q)[i] = IF i <= Len(a) THEN a[i] ELSE q[i - Len(a)]
  <2>1. a \in Seq(S) /\ q \in Seq(S)
    BY <1>1
  <2>2. /\ a \o q \in Seq(S) /\ Len(a \o q) = Len(a) + Len(q)
        /\ \A i \in 1..(Len(a) + Len(q)) : (a \o q)[i] = IF i <= Len(a) THEN a[i] ELSE q[i - Len(a)]
    BY <2>1, ConcatProperties
  <2> QED
    BY <1>1, <2>2
<1>3. Len(r) \in Nat /\ Len(q) \in Nat /\ Len(p) \in Nat
  BY LenProperties
<1>4. ASSUME p = a \o q PROVE Matches(p, r, q)
  <2>1. \A i \in 1..Len(r) : p[i] = r[i][1]
    BY <1>1, <1>2, <1>3, <1>4
  <2>2. ASSUME NEW i \in 1..Len(q) PROVE p[Len(r) + i] = q[i]
    <3>1. Len(r) + i \in 1..(Len(a) + Len(q)) /\ ~(Len(r) + i <= Len(a)) /\ (Len(r) + i) - Len(a) = i
      BY <1>1, <1>3
    <3>2. (a \o q)[Len(r) + i] = q[(Len(r) + i) - Len(a)]
      BY <1>2, <3>1
    <3> QED
      BY <1>4, <3>1, <3>2
  <2> QED
    BY <1>2, <1>4, <2>1, <2>2 DEF Matches
<1>5. ASSUME Matches(p, r, q) PROVE p = a \o q
  <2>1. Len(p) = Len(a \o q)
    BY <1>2, <1>5 DEF Matches
  <2>2. ASSUME NEW i \in 1..Len(p) PROVE p[i] = (a \o q)[i]
    <3>1. CASE i <= Len(r)
      BY <1>1, <1>2, <1>3, <1>5, <3>1 DEF Matches
    <3>2. CASE ~(i <= Len(r))
      <4>1. i - Len(r) \in 1..Len(q) /\ i = Len(r) + (i - Len(r)) /\ i \in 1..(Len(a) + Len(q))
        BY <1>1, <1>3, <1>5, <3>2 DEF Matches
      <4>2. p[Len(r) + (i - Len(r))] = q[i - Len(r)]
        BY <1>5, <4>1 DEF Matches
      <4>3. (a \o q)[i] = q[i - Len(r)]
        BY <1>1, <1>2, <3>2, <4>1
      <4> QED
        BY <4>1, <4>2, <4>3
    <3> QED
      BY <3>1, <3>2
  <2> QED
    BY <1>2, <2>1, <2>2, SeqEqual
<1> QED
  BY <1>4, <1>5 DEF a

LEMMA MatchesFromConcat ==
    ASSUME NEW S, NEW p \in Seq(S), NEW r \in Seq(S \X BOOLEAN), NEW q \in Seq(S),
           p = Answered(r) \o q
    PROVE  Matches(p, r, q)
BY MatchesIffConcat

LEMMA ConcatFromMatches ==
    ASSUME NEW S, NEW p \in Seq(S), NEW r \in Seq(S \X BOOLEAN), NEW q \in Seq(S),
           Matches(p, r, q)
    PROVE  p = Answered(r) \o q
BY MatchesIffConcat

\* A caller that takes the connection puts its commands behind both.
LEMMA TakeMatches ==
    ASSUME NEW S, NEW p \in Seq(S), NEW r \in Seq(S \X BOOLEAN), NEW q \in Seq(S), NEW c \in Seq(S),
           p = Answered(r) \o q
    PROVE  p \o c = Answered(r) \o (q \o c)
<1>1. Answered(r) \in Seq(S)
  <2>1. Len(r) \in Nat /\ DOMAIN r = 1..Len(r) /\ \A i \in 1..Len(r) : r[i][1] \in S
    BY LenOf
  <2> QED
    BY <2>1, IsASeq DEF Answered
<1>2. (Answered(r) \o q) \o c = Answered(r) \o (q \o c)
  BY <1>1, ConcatAssociative
<1> QED
  BY <1>2

\* Redis runs the first command on the socket and its reply goes behind the others.
LEMMA RunMatches ==
    ASSUME NEW S, NEW p \in Seq(S), NEW r \in Seq(S \X BOOLEAN), NEW q \in Seq(S), NEW ok \in BOOLEAN,
           q # << >>, p = Answered(r) \o q
    PROVE  p = Answered(Append(r, << Head(q), ok >>)) \o Tail(q)
<1> DEFINE h == << Head(q), ok >>
           t == Append(r, h)
<1>1. Matches(p, r, q)
  BY MatchesFromConcat
<1>2. /\ Head(q) = q[1] /\ Head(q) \in S /\ Tail(q) \in Seq(S) /\ Len(Tail(q)) = Len(q) - 1
      /\ \A i \in 1..Len(Tail(q)) : Tail(q)[i] = q[i + 1]
  BY HeadTailProperties
<1>3. h \in S \X BOOLEAN /\ h[1] = q[1]
  BY <1>2
<1> HIDE DEF h
<1>4. /\ t \in Seq(S \X BOOLEAN) /\ Len(t) = Len(r) + 1 /\ t[Len(r) + 1] = h
      /\ \A i \in 1..Len(r) : t[i] = r[i]
  BY <1>3, AppendProperties
<1> HIDE DEF t
<1>5. Len(r) \in Nat /\ Len(q) \in Nat /\ Len(q) >= 1
  BY LenOf
<1>6. Matches(p, t, Tail(q))
  <2>1. Len(p) = Len(t) + Len(Tail(q))
    BY <1>1, <1>2, <1>4, <1>5 DEF Matches
  <2>2. ASSUME NEW i \in 1..Len(t) PROVE p[i] = t[i][1]
    <3>1. CASE i = Len(r) + 1
      BY <1>1, <1>3, <1>4, <1>5, <3>1 DEF Matches
    <3>2. CASE i # Len(r) + 1
      BY <1>1, <1>4, <1>5, <3>2 DEF Matches
    <3> QED
      BY <3>1, <3>2
  <2>3. ASSUME NEW i \in 1..Len(Tail(q)) PROVE p[Len(t) + i] = Tail(q)[i]
    <3>1. i + 1 \in 1..Len(q) /\ Len(t) + i = Len(r) + (i + 1)
      BY <1>2, <1>4, <1>5
    <3>2. p[Len(r) + (i + 1)] = q[i + 1]
      BY <1>1, <3>1 DEF Matches
    <3> QED
      BY <1>2, <3>1, <3>2
  <2> QED
    BY <2>1, <2>2, <2>3 DEF Matches
<1>7. p = Answered(t) \o Tail(q)
  BY <1>2, <1>4, <1>6, ConcatFromMatches
<1> QED
  BY <1>7 DEF t, h

\* The first reply settles the first promise.
LEMMA ReceiveInLine ==
    ASSUME NEW S, NEW p, NEW r, NEW q, InLine(S, p, r, q), r # << >>
    PROVE  InLine(S, Tail(p), Tail(r), q) /\ p # << >> /\ Head(p) = Head(r)[1]
<1>0. p \in Seq(S) /\ r \in Seq(S \X BOOLEAN) /\ q \in Seq(S) /\ p = Answered(r) \o q
  BY DEF InLine
<1>1. Matches(p, r, q)
  BY <1>0, MatchesFromConcat
<1>2. /\ Head(r) = r[1] /\ Tail(r) \in Seq(S \X BOOLEAN) /\ Len(Tail(r)) = Len(r) - 1
      /\ \A i \in 1..Len(Tail(r)) : Tail(r)[i] = r[i + 1]
  BY <1>0, HeadTailProperties
<1>3. Len(r) \in Nat /\ Len(q) \in Nat /\ Len(r) >= 1 /\ Len(p) \in Nat
  BY <1>0, LenOf
<1>4. Len(p) = Len(r) + Len(q) /\ p # << >>
  BY <1>0, <1>1, <1>3, LenOf DEF Matches
<1>5. /\ Head(p) = p[1] /\ Tail(p) \in Seq(S) /\ Len(Tail(p)) = Len(p) - 1
      /\ \A i \in 1..Len(Tail(p)) : Tail(p)[i] = p[i + 1]
  BY <1>0, <1>4, HeadTailProperties
<1>6. Head(p) = Head(r)[1]
  BY <1>1, <1>2, <1>3, <1>5 DEF Matches
<1>7. Matches(Tail(p), Tail(r), q)
  <2>1. Len(Tail(p)) = Len(Tail(r)) + Len(q)
    BY <1>2, <1>3, <1>4, <1>5
  <2>2. ASSUME NEW i \in 1..Len(Tail(r)) PROVE Tail(p)[i] = Tail(r)[i][1]
    <3>1. i + 1 \in 1..Len(r) /\ i \in 1..Len(Tail(p))
      BY <1>2, <1>3, <1>4, <1>5
    <3> QED
      BY <1>1, <1>2, <1>5, <3>1 DEF Matches
  <2>3. ASSUME NEW i \in 1..Len(q) PROVE Tail(p)[Len(Tail(r)) + i] = q[i]
    <3>1. Len(Tail(r)) + i \in 1..Len(Tail(p)) /\ (Len(Tail(r)) + i) + 1 = Len(r) + i
      BY <1>2, <1>3, <1>4, <1>5
    <3>2. Tail(p)[Len(Tail(r)) + i] = p[(Len(Tail(r)) + i) + 1]
      BY <1>5, <3>1
    <3>3. p[Len(r) + i] = q[i]
      BY <1>1 DEF Matches
    <3> QED
      BY <3>1, <3>2, <3>3
  <2> QED
    BY <2>1, <2>2, <2>3 DEF Matches
<1>8. Tail(p) = Answered(Tail(r)) \o q
  BY <1>0, <1>2, <1>5, <1>7, ConcatFromMatches
<1> QED
  BY <1>0, <1>2, <1>4, <1>5, <1>6, <1>8 DEF InLine

\* A connection without replies.
LEMMA NoReplies ==
    ASSUME NEW S, NEW p \in Seq(S)
    PROVE  p = Answered(<< >>) \o p
<1>1. << >> \in Seq(S \X BOOLEAN) /\ Len(<< >>) = 0 /\ Len(p) \in Nat
  BY EmptySeq, LenProperties
<1>2. Matches(p, << >>, p)
  BY <1>1 DEF Matches
<1> QED
  BY <1>1, <1>2, ConcatFromMatches

\* The same, for a connection whose promises are in line.
LEMMA TakeInLine ==
    ASSUME NEW S, NEW p, NEW r, NEW q, NEW c \in Seq(S), InLine(S, p, r, q)
    PROVE  InLine(S, p \o c, r, q \o c)
<1>1. p \in Seq(S) /\ r \in Seq(S \X BOOLEAN) /\ q \in Seq(S) /\ p = Answered(r) \o q
  BY DEF InLine
<1>2. p \o c = Answered(r) \o (q \o c)
  BY <1>1, TakeMatches
<1>3. p \o c \in Seq(S) /\ q \o c \in Seq(S)
  BY <1>1, ConcatProperties
<1> QED
  BY <1>1, <1>2, <1>3 DEF InLine

LEMMA RunInLine ==
    ASSUME NEW S, NEW p, NEW r, NEW q, NEW ok \in BOOLEAN, InLine(S, p, r, q), q # << >>
    PROVE  InLine(S, p, Append(r, << Head(q), ok >>), Tail(q))
<1>1. p \in Seq(S) /\ r \in Seq(S \X BOOLEAN) /\ q \in Seq(S) /\ p = Answered(r) \o q
  BY DEF InLine
<1>2. p = Answered(Append(r, << Head(q), ok >>)) \o Tail(q)
  BY <1>1, RunMatches, ZenonT(40)
<1>3. Head(q) \in S /\ Tail(q) \in Seq(S)
  BY <1>1, HeadTailProperties
<1>4. << Head(q), ok >> \in S \X BOOLEAN
  BY <1>3
<1>5. Append(r, << Head(q), ok >>) \in Seq(S \X BOOLEAN)
  BY <1>1, <1>4, AppendProperties
<1> QED
  BY <1>1, <1>2, <1>3, <1>5 DEF InLine

(***************************************************************************)
(* The callers.                                                            *)
(***************************************************************************)
\* Who holds a slot, and that nobody else is touched by a release.
LEMMA UserHolds ==
    ASSUME CallerInv, NEW s \in Slots, user[s] # Nobody
    PROVE  /\ user[s] \in Callers /\ pc[user[s]] = "use"
           /\ \A t \in Slots : user[t] = user[s] <=> t = s
           /\ call[user[s]] \in 1..MaxCalls /\ left[user[s]] \in 1..MaxSize
BY DEF CallerInv, SlotsBalance

\* A call ends and gives back what it holds.
LEMMA EndKeeps ==
    ASSUME CallerInv, NEW c \in Callers, NEW how \in Outcomes, End(c, how), Release(c)
    PROVE  /\ CallerInv'
           /\ \A t \in Slots : user'[t] = IF user[t] = c THEN Nobody ELSE user[t]
<1> USE PoolAssumption, MaxSizeBounds
<1>1. /\ pc' = [pc EXCEPT ![c] = "idle"]
      /\ call' = [call EXCEPT ![c] = 0] /\ left' = [left EXCEPT ![c] = 0]
      /\ outcome' = [outcome EXCEPT ![call[c]] = how] /\ calls' = calls
      /\ user' = [t \in Slots |-> IF user[t] = c THEN Nobody ELSE user[t]]
  BY DEF End, Release
<1>2. /\ user' \in [Slots -> Callers \cup {Nobody}]
      /\ \A t \in Slots : user'[t] = IF user[t] = c THEN Nobody ELSE user[t]
  BY <1>1 DEF CallerInv
<1>3. /\ pc' \in [Callers -> { "idle", "wait", "use" }]
      /\ pc'[c] = "idle" /\ \A d \in Callers : d # c => pc'[d] = pc[d]
  BY <1>1 DEF CallerInv
<1>4. /\ call' \in [Callers -> 0..MaxCalls] /\ left' \in [Callers -> 0..MaxSize]
      /\ calls' \in 0..MaxCalls
      /\ \A d \in Callers : d # c => call'[d] = call[d] /\ left'[d] = left[d]
  BY <1>1 DEF CallerInv
<1>5. outcome' \in [1..MaxCalls -> Outcomes]
  BY <1>1 DEF CallerInv
<1>6. \A d \in Callers : pc'[d] # "idle" => call'[d] \in 1..MaxCalls /\ left'[d] \in 1..MaxSize
  BY <1>3, <1>4 DEF CallerInv
<1>7. SlotsBalance'
  <2>1. ASSUME NEW t \in Slots, user'[t] # Nobody PROVE pc'[user'[t]] = "use"
    <3>1. user'[t] = user[t] /\ user[t] # c /\ user[t] # Nobody
      BY <1>2, <2>1
    <3> QED
      BY <1>3, <3>1, UserHolds
  <2>2. ASSUME NEW d \in Callers, pc'[d] = "use"
        PROVE  \E t \in Slots : \A u \in Slots : user'[u] = d <=> u = t
    <3>1. d # c /\ pc[d] = "use" /\ d # Nobody
      BY <1>3, <2>2
    <3>2. \A u \in Slots : user'[u] = d <=> user[u] = d
      BY <1>2, <3>1
    <3> QED
      BY <3>1, <3>2 DEF CallerInv, SlotsBalance
  <2> QED
    BY <2>1, <2>2 DEF SlotsBalance
<1> QED
  BY <1>2, <1>3, <1>4, <1>5, <1>6, <1>7 DEF CallerInv

\* A call that waits for a connection holds none.
LEMMA WaitingHoldsNothing ==
    ASSUME CallerInv, NEW c \in Callers, pc[c] = "wait"
    PROVE  \A s \in Slots : user[s] # c
BY PoolAssumption DEF CallerInv, SlotsBalance

\* One reply fewer for the user of a slot.
LEMMA SettleKeeps ==
    ASSUME CallerInv, NEW s \in Slots, NEW x, NEW ok \in BOOLEAN, Settle(s, x, ok)
    PROVE  CallerInv' /\ \A t \in Slots : user[t] = Nobody => user'[t] = Nobody
<1> USE PoolAssumption, MaxSizeBounds
<1> DEFINE c == user[s]
<1>1. CASE ~Awaited(s, x)
  BY <1>1 DEF Settle, caller, CallerInv, SlotsBalance
<1>2. CASE Awaited(s, x)
  <2>1. /\ Count(c, ok, FailsAtOnce)
        /\ c \in Callers /\ pc[c] = "use" /\ call[c] \in 1..MaxCalls /\ left[c] \in 1..MaxSize
    BY <1>2, UserHolds DEF Settle, Awaited
  <2> HIDE DEF c
  <2>2. CASE \E how \in Outcomes : End(c, how) /\ Release(c)
    BY <2>1, <2>2, EndKeeps
  <2>3. CASE /\ left[c] # 1 /\ left' = [left EXCEPT ![c] = @ - 1]
             /\ outcome' = outcome \/ outcome' = [outcome EXCEPT ![call[c]] = "command"]
             /\ UNCHANGED << pc, call, calls, user >>
    <3>1. left[c] - 1 \in 1..MaxSize
      BY <2>1, <2>3
    <3>2. /\ left' \in [Callers -> 0..MaxSize]
          /\ \A d \in Callers : left'[d] = IF d = c THEN left[c] - 1 ELSE left[d]
      BY <2>1, <2>3, <3>1 DEF CallerInv
    <3>3. outcome' \in [1..MaxCalls -> Outcomes]
      BY <2>1, <2>3 DEF CallerInv, Outcomes
    <3>4. SlotsBalance'
      BY <2>3 DEF CallerInv, SlotsBalance
    <3> QED
      BY <2>1, <2>3, <3>1, <3>2, <3>3, <3>4 DEF CallerInv
  <2> QED
    BY <2>1, <2>2, <2>3 DEF Count, Outcomes
<1> QED
  BY <1>1, <1>2

\* A client that rejects what its user waits for.
LEMMA RejectCallsKeeps ==
    ASSUME CallerInv, NEW s \in Slots, RejectCalls(s)
    PROVE  /\ CallerInv' /\ user'[s] = Nobody
           /\ \A t \in Slots : user[t] = Nobody => user'[t] = Nobody
           /\ \/ UNCHANGED << link, failed >>
              \/ link' = [link EXCEPT ![s] = "none"] /\ failed' = [failed EXCEPT ![s] = TRUE]
<1> DEFINE c == user[s]
<1>1. user' = [user EXCEPT ![s] = Nobody] /\ user \in [Slots -> Callers \cup {Nobody}]
  BY DEF RejectCalls, CallerInv
<1>2. CASE c = Nobody
  <2>1. UNCHANGED << pc, call, calls, left, outcome, link, failed >> /\ user' = user
    BY <1>1, <1>2 DEF RejectCalls, caller
  <2> QED
    BY <1>2, <2>1 DEF CallerInv, SlotsBalance
<1>3. CASE c # Nobody
  <2>1. c \in Callers /\ \A t \in Slots : user[t] = c <=> t = s
    BY <1>3, UserHolds
  <2>2. Release(c)
    BY <1>1, <2>1 DEF Release
  <2>3. \/ \E how \in Outcomes : End(c, how) /\ UNCHANGED << link, failed >>
        \/ \E how \in Outcomes : /\ End(c, how)
                                 /\ link' = [link EXCEPT ![s] = "none"]
                                 /\ failed' = [failed EXCEPT ![s] = TRUE]
    <3>1. CASE outcome[call[c]] = "command"
      BY <1>3, <3>1 DEF RejectCalls, Outcomes
    <3>2. CASE outcome[call[c]] # "command"
      BY <1>3, <3>2 DEF RejectCalls, Invalidate, Outcomes
    <3> QED
      BY <3>1, <3>2
  <2> HIDE DEF c
  <2>4. CallerInv'
    BY <2>1, <2>2, <2>3, EndKeeps
  <2> QED
    BY <1>1, <2>3, <2>4
<1> QED
  BY <1>2, <1>3

\* A caller gets a free slot.
LEMMA TakeKeepsCallers ==
    ASSUME CallerInv, NEW c \in Callers, NEW s \in Slots, pc[c] = "wait", user[s] = Nobody,
           user' = [user EXCEPT ![s] = c], pc' = [pc EXCEPT ![c] = "use"],
           UNCHANGED << call, calls, left, outcome >>
    PROVE  CallerInv' /\ \A t \in Slots : user'[t] = IF t = s THEN c ELSE user[t]
<1> USE PoolAssumption
<1>1. /\ user' \in [Slots -> Callers \cup {Nobody}]
      /\ \A t \in Slots : user'[t] = IF t = s THEN c ELSE user[t]
  BY DEF CallerInv
<1>2. /\ pc' \in [Callers -> { "idle", "wait", "use" }]
      /\ \A d \in Callers : pc'[d] = IF d = c THEN "use" ELSE pc[d]
  BY DEF CallerInv
<1>3. SlotsBalance'
  <2>1. ASSUME NEW t \in Slots, user'[t] # Nobody PROVE pc'[user'[t]] = "use"
    BY <1>1, <1>2, <2>1, UserHolds
  <2>2. ASSUME NEW d \in Callers, pc'[d] = "use"
        PROVE  \E t \in Slots : \A u \in Slots : user'[u] = d <=> u = t
    <3>1. CASE d = c
      BY <1>1, <3>1, WaitingHoldsNothing
    <3>2. CASE d # c
      <4>1. pc[d] = "use" /\ d # Nobody
        BY <1>2, <2>2, <3>2
      <4>2. \A u \in Slots : user'[u] = d <=> user[u] = d
        BY <1>1, <3>2, <4>1
      <4> QED
        BY <4>1, <4>2 DEF CallerInv, SlotsBalance
    <3> QED
      BY <3>1, <3>2
  <2> QED
    BY <2>1, <2>2 DEF SlotsBalance
<1> QED
  BY <1>1, <1>2, <1>3 DEF CallerInv

\* A new call.
LEMMA BeginKeepsCallers ==
    ASSUME CallerInv, NEW c \in Callers, Begin(c)
    PROVE  CallerInv'
<1> USE PoolAssumption, MaxSizeBounds
<1>1. PICK n \in Sizes : left' = [left EXCEPT ![c] = n]
  BY DEF Begin
<1>2. /\ pc[c] = "idle" /\ calls < MaxCalls
      /\ pc' = [pc EXCEPT ![c] = "wait"] /\ calls' = calls + 1
      /\ call' = [call EXCEPT ![c] = calls + 1]
      /\ UNCHANGED << user, outcome >>
  BY DEF Begin
<1>3. n \in 1..MaxSize /\ calls + 1 \in 1..MaxCalls
  BY <1>2 DEF CallerInv
<1>4. /\ pc' \in [Callers -> { "idle", "wait", "use" }]
      /\ \A d \in Callers : pc'[d] = IF d = c THEN "wait" ELSE pc[d]
  BY <1>2 DEF CallerInv
<1>5. /\ left' \in [Callers -> 0..MaxSize] /\ call' \in [Callers -> 0..MaxCalls]
      /\ \A d \in Callers : /\ left'[d] = IF d = c THEN n ELSE left[d]
                            /\ call'[d] = IF d = c THEN calls + 1 ELSE call[d]
  BY <1>1, <1>2, <1>3 DEF CallerInv
<1>6. \A d \in Callers : pc'[d] # "idle" => call'[d] \in 1..MaxCalls /\ left'[d] \in 1..MaxSize
  BY <1>3, <1>4, <1>5 DEF CallerInv
<1>7. SlotsBalance'
  <2>1. \A d \in Callers : pc'[d] = "use" <=> pc[d] = "use"
    BY <1>2, <1>4
  <2>2. \A s \in Slots : user[s] # Nobody => user[s] \in Callers
    BY DEF CallerInv
  <2> QED
    BY <1>2, <2>1, <2>2 DEF CallerInv, SlotsBalance
<1> QED
  BY <1>2, <1>3, <1>4, <1>5, <1>6, <1>7 DEF CallerInv

(***************************************************************************)
(* The connections.                                                        *)
(***************************************************************************)
\* The slot s changes to a connection l with these promises, commands and
\* replies, has failed a call or not, and is as it should be.
Becomes(s, l, p, q, r, f) ==
    /\ l \in Links /\ p \in Seq(Commands) /\ q \in Seq(Commands)
    /\ r \in Seq(Commands \X BOOLEAN) /\ f \in BOOLEAN
    /\ link' = [link EXCEPT ![s] = l]
    /\ promises' = [promises EXCEPT ![s] = p]
    /\ sent' = [sent EXCEPT ![s] = q]
    /\ replies' = [replies EXCEPT ![s] = r]
    /\ failed' = [failed EXCEPT ![s] = f]
    /\ l \in { "up", "hung" } => p = Answered(r) \o q
    /\ l = "down" => r = << >>
    /\ f => l = "none" /\ user'[s] = Nobody

\* A step that changes one slot.
LEMMA SlotStep ==
    ASSUME PoolInv, NEW s \in Slots, NEW l, NEW p, NEW q, NEW r, NEW f,
           Becomes(s, l, p, q, r, f),
           \A t \in Slots : t # s /\ user[t] = Nobody => user'[t] = Nobody,
           CallerInv', RestTypes'
    PROVE  PoolInv'
<1> USE DEF Becomes
<1>1. WireTypes'
  BY DEF PoolInv, WireTypes
<1>2. /\ link'[s] = l /\ promises'[s] = p /\ sent'[s] = q /\ replies'[s] = r /\ failed'[s] = f
      /\ \A t \in Slots : t # s => /\ link'[t] = link[t] /\ promises'[t] = promises[t]
                                   /\ sent'[t] = sent[t] /\ replies'[t] = replies[t]
                                   /\ failed'[t] = failed[t]
  BY DEF PoolInv, WireTypes
<1>3. SlotOK(s)'
  BY <1>2 DEF SlotOK
<1>4. ASSUME NEW t \in Slots, t # s PROVE SlotOK(t)'
  BY <1>2, <1>4 DEF PoolInv, SlotOK
<1> QED
  BY <1>1, <1>3, <1>4 DEF PoolInv

\* A step that changes no slot.
LEMMA NoSlotStep ==
    ASSUME PoolInv, UNCHANGED << link, promises, sent, replies, failed >>,
           \A t \in Slots : user[t] = Nobody => user'[t] = Nobody,
           CallerInv', RestTypes'
    PROVE  PoolInv'
<1>1. WireTypes' /\ \A t \in Slots : SlotOK(t)'
  BY DEF PoolInv, WireTypes, SlotOK
<1> QED
  BY <1>1 DEF PoolInv

\* What is known of a slot, and of the parts of it that a step leaves alone.
LEMMA SlotFacts ==
    ASSUME PoolInv, NEW s \in Slots
    PROVE  /\ link[s] \in Links /\ promises[s] \in Seq(Commands) /\ sent[s] \in Seq(Commands)
           /\ replies[s] \in Seq(Commands \X BOOLEAN) /\ failed[s] \in BOOLEAN
           /\ link = [link EXCEPT ![s] = link[s]]
           /\ promises = [promises EXCEPT ![s] = promises[s]]
           /\ sent = [sent EXCEPT ![s] = sent[s]]
           /\ replies = [replies EXCEPT ![s] = replies[s]]
           /\ failed = [failed EXCEPT ![s] = failed[s]]
           /\ link[s] \in { "up", "hung" } => promises[s] = Answered(replies[s]) \o sent[s]
           /\ link[s] = "down" => replies[s] = << >>
           /\ failed[s] => link[s] = "none" /\ user[s] = Nobody
           /\ << >> \in Seq(Commands) /\ << >> \in Seq(Commands \X BOOLEAN)
BY EmptySeq DEF PoolInv, WireTypes, SlotOK

\* Nothing but Run counts a command, and faults stay within their bound.
LEMMA RestKeeps ==
    ASSUME PoolInv, UNCHANGED << adapter, deadline, runs >>, Fault \/ UNCHANGED faults
    PROVE  RestTypes'
BY PoolAssumption DEF PoolInv, RestTypes, Fault

LEMMA CallersStay ==
    ASSUME PoolInv, UNCHANGED << pc, call, calls, left, outcome, user >>
    PROVE  CallerInv'
BY DEF PoolInv, CallerInv, SlotsBalance

\* The commands of a call.
LEMMA CommandsOfCall ==
    ASSUME PoolInv, NEW c \in Callers, pc[c] # "idle"
    PROVE  CommandsOf(c) \in Seq(Commands)
<1>1. call[c] \in 1..MaxCalls /\ left[c] \in 1..MaxSize /\ MaxSize \in Nat
  BY MaxSizeBounds DEF PoolInv, CallerInv
<1>2. left[c] \in Nat /\ \A i \in 1..left[c] : << call[c], i >> \in Commands
  BY <1>1 DEF Commands
<1> QED
  BY <1>2, IsASeq DEF CommandsOf

LEMMA ConnectKeeps ==
    ASSUME PoolInv, NEW s \in Slots, Connect(s)
    PROVE  PoolInv'
<1>1. /\ UNCHANGED << adapter, deadline, runs, pc, call, calls, left, outcome, user >>
      /\ Fault \/ UNCHANGED faults
      /\ \E l \in { "up", "refused" } : link' = [link EXCEPT ![s] = l]
      /\ promises' = [promises EXCEPT ![s] = << >>] /\ sent' = [sent EXCEPT ![s] = << >>]
      /\ replies' = [replies EXCEPT ![s] = << >>] /\ failed' = [failed EXCEPT ![s] = FALSE]
  BY DEF Connect, config, caller
<1>2. RestTypes' /\ CallerInv'
  BY <1>1, RestKeeps, CallersStay
<1>3. << >> \in Seq(Commands) /\ << >> = Answered(<< >>) \o << >>
  BY EmptySeq, NoReplies
<1>4. \E l \in { "up", "refused" } : Becomes(s, l, << >>, << >>, << >>, FALSE)
  BY <1>1, <1>3, SlotFacts DEF Becomes, Links
<1> QED
  BY <1>1, <1>2, <1>4, SlotStep

LEMMA TakeKeeps ==
    ASSUME PoolInv, NEW c \in Callers, NEW s \in Slots, Take(c, s)
    PROVE  PoolInv'
<1> DEFINE p == promises[s] \o CommandsOf(c)
           q == IF link[s] \in { "up", "hung" } THEN sent[s] \o CommandsOf(c) ELSE sent[s]
<1>1. /\ UNCHANGED << adapter, deadline, runs, faults, link, replies, failed >>
      /\ UNCHANGED << call, calls, left, outcome >>
      /\ pc[c] = "wait" /\ user[s] = Nobody /\ link[s] \notin { "none", "refused" }
      /\ promises' = [promises EXCEPT ![s] = p]
      /\ sent' = IF link[s] \in { "up", "hung" } THEN [sent EXCEPT ![s] = @ \o CommandsOf(c)] ELSE sent
      /\ user' = [user EXCEPT ![s] = c] /\ pc' = [pc EXCEPT ![c] = "use"]
  BY DEF Take, config
<1>2. RestTypes' /\ CallerInv' /\ \A t \in Slots : user'[t] = IF t = s THEN c ELSE user[t]
  BY <1>1, RestKeeps, TakeKeepsCallers DEF PoolInv
<1>3. CommandsOf(c) \in Seq(Commands)
  BY <1>1, CommandsOfCall
<1>4. p \in Seq(Commands) /\ q \in Seq(Commands)
  <2>1. promises[s] \in Seq(Commands) /\ sent[s] \in Seq(Commands)
    BY SlotFacts
  <2>2. p \in Seq(Commands) /\ sent[s] \o CommandsOf(c) \in Seq(Commands)
    BY <1>3, <2>1, ConcatProperties
  <2> QED
    BY <2>1, <2>2
<1>5. sent' = [sent EXCEPT ![s] = q]
  BY <1>1, SlotFacts
<1>6. ASSUME link[s] \in { "up", "hung" } PROVE p = Answered(replies[s]) \o q
  <2>1. InLine(Commands, promises[s], replies[s], sent[s])
    BY <1>6, SlotFacts DEF InLine
  <2>2. InLine(Commands, promises[s] \o CommandsOf(c), replies[s], sent[s] \o CommandsOf(c))
    BY <1>3, <2>1, TakeInLine
  <2> QED
    BY <1>6, <2>2 DEF InLine
<1> HIDE DEF p, q
<1>7. Becomes(s, link[s], p, q, replies[s], failed[s])
  BY <1>1, <1>4, <1>5, <1>6, SlotFacts DEF Becomes
<1> QED
  BY <1>2, <1>7, SlotStep

LEMMA TakeRefusedKeeps ==
    ASSUME PoolInv, NEW c \in Callers, NEW s \in Slots, TakeRefused(c, s)
    PROVE  PoolInv'
<1>1. /\ UNCHANGED << adapter, deadline, runs, faults, promises, sent, replies, failed, user >>
      /\ link[s] = "refused" /\ link' = [link EXCEPT ![s] = "none"]
      /\ pc[c] = "wait" /\ End(c, "connection")
  BY DEF TakeRefused, config, wire
<1>2. \A t \in Slots : user[t] # c
  BY <1>1, WaitingHoldsNothing DEF PoolInv
<1>3. Release(c)
  <2>1. user = [t \in Slots |-> user[t]]
    BY DEF PoolInv, CallerInv
  <2> QED
    BY <1>1, <1>2, <2>1 DEF Release
<1>4. RestTypes' /\ CallerInv'
  BY <1>1, <1>3, RestKeeps, EndKeeps DEF PoolInv, Outcomes
<1>5. ~failed[s]
  BY <1>1, SlotFacts
<1>6. Becomes(s, "none", promises[s], sent[s], replies[s], FALSE)
  BY <1>1, <1>5, SlotFacts DEF Becomes, Links
<1> QED
  BY <1>1, <1>4, <1>6, SlotStep

LEMMA RunKeeps ==
    ASSUME PoolInv, NEW s \in Slots, Run(s)
    PROVE  PoolInv'
<1>1. PICK ok \in BOOLEAN : replies' = [replies EXCEPT ![s] = Append(@, << Head(sent[s]), ok >>)]
  BY DEF Run
<1> DEFINE r == Append(replies[s], << Head(sent[s]), ok >>)
           q == Tail(sent[s])
<1>2. /\ link[s] = "up" /\ sent[s] # << >>
      /\ runs' = [runs EXCEPT ![Head(sent[s])] = @ + 1]
      /\ replies' = [replies EXCEPT ![s] = r] /\ sent' = [sent EXCEPT ![s] = q]
      /\ UNCHANGED << adapter, deadline, faults, link, promises, failed >>
      /\ UNCHANGED << user, pc, call, calls, left, outcome >>
  BY <1>1, SlotFacts DEF Run, config, caller
<1>3. Head(sent[s]) \in Commands /\ q \in Seq(Commands)
  BY <1>2, SlotFacts, HeadTailProperties
<1>4. r \in Seq(Commands \X BOOLEAN)
  <2>1. << Head(sent[s]), ok >> \in Commands \X BOOLEAN
    BY <1>3
  <2> QED
    BY <2>1, SlotFacts, AppendProperties
<1>5. promises[s] = Answered(r) \o q
  <2>1. InLine(Commands, promises[s], replies[s], sent[s])
    BY <1>2, SlotFacts DEF InLine
  <2>2. InLine(Commands, promises[s], r, q)
    BY <1>2, <2>1, RunInLine
  <2> QED
    BY <2>2 DEF InLine
<1>6. CallerInv'
  BY <1>2, CallersStay
<1>7. RestTypes'
  <2>1. runs' \in [Commands -> Nat]
    BY <1>2, <1>3 DEF PoolInv, RestTypes
  <2> QED
    BY <1>2, <2>1 DEF PoolInv, RestTypes
<1> HIDE DEF r, q
<1>8. Becomes(s, link[s], promises[s], q, r, failed[s])
  BY <1>2, <1>3, <1>4, <1>5, SlotFacts DEF Becomes
<1> QED
  BY <1>2, <1>6, <1>7, <1>8, SlotStep

LEMMA ReceiveKeeps ==
    ASSUME PoolInv, NEW s \in Slots, Receive(s)
    PROVE  PoolInv'
<1> DEFINE p == Tail(promises[s])
           r == Tail(replies[s])
<1>1. /\ link[s] = "up" /\ replies[s] # << >>
      /\ Settle(s, Head(promises[s]), Head(replies[s])[2])
      /\ promises' = [promises EXCEPT ![s] = p] /\ replies' = [replies EXCEPT ![s] = r]
      /\ UNCHANGED << adapter, deadline, runs, faults, link, sent, failed >>
  BY SlotFacts DEF Receive, config
<1>2. p \in Seq(Commands) /\ r \in Seq(Commands \X BOOLEAN) /\ p = Answered(r) \o sent[s]
  <2>1. InLine(Commands, promises[s], replies[s], sent[s])
    BY <1>1, SlotFacts DEF InLine
  <2>2. InLine(Commands, p, r, sent[s])
    BY <1>1, <2>1, ReceiveInLine
  <2> QED
    BY <2>2 DEF InLine
<1>3. Head(replies[s])[2] \in BOOLEAN
  <2>1. Head(replies[s]) \in Commands \X BOOLEAN
    BY <1>1, SlotFacts, HeadTailProperties
  <2> QED
    BY <2>1
<1>4. CallerInv' /\ \A t \in Slots : user[t] = Nobody => user'[t] = Nobody
  BY <1>1, <1>3, SettleKeeps DEF PoolInv
<1>5. RestTypes'
  BY <1>1, RestKeeps
<1>6. ~failed[s]
  BY <1>1, SlotFacts
<1> HIDE DEF p, r
<1>7. Becomes(s, link[s], p, sent[s], r, FALSE)
  BY <1>1, <1>2, <1>6, SlotFacts DEF Becomes
<1> QED
  BY <1>4, <1>5, <1>7, SlotStep

\* A socket that closes, a peer that is gone, a client that connects again or
\* gives up: the callers learn nothing yet.
LEMMA LinkKeeps ==
    ASSUME PoolInv, NEW s \in Slots,
           Drop(s) \/ Detect(s) \/ Hang(s) \/ Reconnect(s) \/ GiveUp(s)
    PROVE  PoolInv'
<1>1. /\ UNCHANGED << adapter, deadline, runs, promises, failed >>
      /\ UNCHANGED << user, pc, call, calls, left, outcome >>
      /\ Fault \/ UNCHANGED faults
  BY DEF Drop, Detect, Hang, Reconnect, GiveUp, SocketCloses, config, caller, wire
<1>2. RestTypes' /\ CallerInv'
  BY <1>1, RestKeeps, CallersStay
<1>3. ~failed[s]
  BY SlotFacts DEF Drop, Detect, Hang, Reconnect, GiveUp
<1>4. CASE Drop(s) \/ Detect(s)
  <2>1. /\ \E l \in { "closed", "down" } : link' = [link EXCEPT ![s] = l]
        /\ sent' = [sent EXCEPT ![s] = << >>] /\ replies' = [replies EXCEPT ![s] = << >>]
    BY <1>4 DEF Drop, Detect, SocketCloses
  <2>2. \E l \in { "closed", "down" } : Becomes(s, l, promises[s], << >>, << >>, FALSE)
    BY <1>1, <1>3, <2>1, SlotFacts DEF Becomes, Links
  <2> QED
    BY <1>1, <1>2, <2>2, SlotStep
<1>5. CASE Hang(s)
  <2>1. link[s] = "up" /\ link' = [link EXCEPT ![s] = "hung"] /\ UNCHANGED << sent, replies >>
    BY <1>5 DEF Hang, wire
  <2>2. Becomes(s, "hung", promises[s], sent[s], replies[s], FALSE)
    BY <1>1, <1>3, <2>1, SlotFacts DEF Becomes, Links
  <2> QED
    BY <1>1, <1>2, <2>2, SlotStep
<1>6. CASE Reconnect(s)
  <2>1. /\ link[s] = "down" /\ link' = [link EXCEPT ![s] = "up"]
        /\ sent' = [sent EXCEPT ![s] = promises[s]] /\ replies' = replies
    BY <1>6 DEF Reconnect
  <2>2. promises[s] = Answered(replies[s]) \o promises[s]
    <3>1. replies[s] = << >> /\ promises[s] \in Seq(Commands)
      BY <2>1, SlotFacts
    <3> QED
      BY <3>1, NoReplies
  <2>3. Becomes(s, "up", promises[s], promises[s], replies[s], FALSE)
    BY <1>1, <1>3, <2>1, <2>2, SlotFacts DEF Becomes, Links
  <2> QED
    BY <1>1, <1>2, <2>3, SlotStep
<1>7. CASE GiveUp(s)
  <2>1. link' = [link EXCEPT ![s] = "closed"] /\ UNCHANGED << sent, replies >>
    BY <1>7 DEF GiveUp, wire
  <2>2. Becomes(s, "closed", promises[s], sent[s], replies[s], FALSE)
    BY <1>1, <1>3, <2>1, SlotFacts DEF Becomes, Links
  <2> QED
    BY <1>1, <1>2, <2>2, SlotStep
<1> QED
  BY <1>4, <1>5, <1>6, <1>7

\* The promises that a client rejects go, and its connection may go with them.
LEMMA RejectedKeeps ==
    ASSUME PoolInv, NEW s \in Slots, link[s] \in { "down", "closed" },
           NEW p \in Seq(Commands), promises' = [promises EXCEPT ![s] = p],
           RejectCalls(s), UNCHANGED << adapter, deadline, runs, faults, sent, replies >>
    PROVE  PoolInv'
<1>1. RestTypes'
  BY RestKeeps
<1>2. /\ CallerInv' /\ user'[s] = Nobody
      /\ \A t \in Slots : user[t] = Nobody => user'[t] = Nobody
      /\ \/ UNCHANGED << link, failed >>
         \/ link' = [link EXCEPT ![s] = "none"] /\ failed' = [failed EXCEPT ![s] = TRUE]
  BY RejectCallsKeeps DEF PoolInv
<1>3. CASE UNCHANGED << link, failed >>
  <2>1. Becomes(s, link[s], p, sent[s], replies[s], FALSE)
    BY <1>3, SlotFacts DEF Becomes
  <2> QED
    BY <1>1, <1>2, <2>1, SlotStep
<1>4. CASE link' = [link EXCEPT ![s] = "none"] /\ failed' = [failed EXCEPT ![s] = TRUE]
  <2>1. Becomes(s, "none", p, sent[s], replies[s], TRUE)
    BY <1>2, <1>4, SlotFacts DEF Becomes, Links
  <2> QED
    BY <1>1, <1>2, <2>1, SlotStep
<1> QED
  BY <1>2, <1>3, <1>4

LEMMA RejectKeeps ==
    ASSUME PoolInv, NEW s \in Slots, Reject(s) \/ AbortPipeline(s)
    PROVE  PoolInv'
<1>1. /\ link[s] \in { "down", "closed" }
      /\ UNCHANGED << adapter, deadline, runs, faults, sent, replies >>
  BY DEF Reject, AbortPipeline, config
<1>2. CASE Reject(s)
  BY <1>1, <1>2, SlotFacts, RejectedKeeps DEF Reject
<1>3. CASE AbortPipeline(s)
  <2>1. PICK n \in DOMAIN promises[s] :
           promises' = [promises EXCEPT ![s] = SubSeq(promises[s], n + 1, Len(promises[s]))]
    BY <1>3 DEF AbortPipeline
  <2> DEFINE p == SubSeq(promises[s], n + 1, Len(promises[s]))
  <2>2. p \in Seq(Commands)
    <3>1. Len(promises[s]) \in Nat /\ n \in 1..Len(promises[s])
          /\ \A i \in 1..Len(promises[s]) : promises[s][i] \in Commands
      BY SlotFacts, LenOf
    <3>2. /\ n + 1 \in Int /\ Len(promises[s]) \in Int
          /\ \A i \in (n + 1)..Len(promises[s]) : promises[s][i] \in Commands
      BY <3>1
    <3> QED
      BY <3>2, SubSeqProperties
  <2>3. promises' = [promises EXCEPT ![s] = p]
    BY <2>1
  <2> HIDE DEF p
  <2>4. RejectCalls(s) \/ UNCHANGED << pc, call, calls, left, outcome, user, link, failed >>
    BY <1>3 DEF AbortPipeline, caller
  <2>5. CASE RejectCalls(s)
    BY <1>1, <2>2, <2>3, <2>5, RejectedKeeps
  <2>6. CASE UNCHANGED << pc, call, calls, left, outcome, user, link, failed >>
    <3>1. RestTypes' /\ CallerInv'
      BY <1>1, <2>6, RestKeeps, CallersStay
    <3>2. Becomes(s, link[s], p, sent[s], replies[s], FALSE)
      BY <1>1, <2>2, <2>3, <2>6, SlotFacts DEF Becomes
    <3> QED
      BY <2>6, <3>1, <3>2, SlotStep
  <2> QED
    BY <2>4, <2>5, <2>6
<1> QED
  BY <1>2, <1>3

LEMMA LeaveKeeps ==
    ASSUME PoolInv, NEW c \in Callers, Timeout(c) \/ Interrupt(c)
    PROVE  PoolInv'
<1>1. /\ End(c, "abandoned") /\ Release(c)
      /\ UNCHANGED << adapter, deadline, runs, link, promises, sent, replies, failed >>
      /\ Fault \/ UNCHANGED faults
  BY DEF Timeout, Interrupt, Leave, config
<1>2. RestTypes' /\ CallerInv' /\ \A t \in Slots : user[t] = Nobody => user'[t] = Nobody
  BY <1>1, RestKeeps, EndKeeps DEF PoolInv, Outcomes
<1> QED
  BY <1>1, <1>2, NoSlotStep

LEMMA PoolInvInit == Init => PoolInv
<1> SUFFICES ASSUME Init PROVE PoolInv
  OBVIOUS
<1> USE PoolAssumption, MaxSizeBounds
<1>1. CallerInv
  <2>1. /\ user \in [Slots -> Callers \cup {Nobody}] /\ pc \in [Callers -> { "idle", "wait", "use" }]
        /\ call \in [Callers -> 0..MaxCalls] /\ calls \in 0..MaxCalls
        /\ left \in [Callers -> 0..MaxSize] /\ outcome \in [1..MaxCalls -> Outcomes]
    BY DEF Init, Outcomes
  <2>2. SlotsBalance
    BY DEF Init, SlotsBalance
  <2> QED
    BY <2>1, <2>2 DEF Init, CallerInv
<1>2. WireTypes
  BY EmptySeq DEF Init, WireTypes, Links
<1>3. \A s \in Slots : SlotOK(s)
  BY DEF Init, SlotOK
<1>4. RestTypes
  BY DEF Init, RestTypes
<1> QED
  BY <1>1, <1>2, <1>3, <1>4 DEF PoolInv

\* The invariant of the pool: callers and slots match, each connection's line of
\* promises is that of its replies and commands, and a connection that failed
\* a call is gone (Connection.ts:32-53, Redis.ts:551-574).
THEOREM PoolInvHolds == Spec => []PoolInv
<1>1. Init => PoolInv
  BY PoolInvInit
<1>2. PoolInv /\ [Next]_vars => PoolInv'
  <2> SUFFICES ASSUME PoolInv, [Next]_vars PROVE PoolInv'
    OBVIOUS
  <2>1. ASSUME NEW c \in Callers, CallOf(c) PROVE PoolInv'
    <3>1. CASE Begin(c)
      <4>1. /\ UNCHANGED << adapter, deadline, runs, faults, link, promises, sent, replies, failed >>
            /\ UNCHANGED user
        BY <3>1 DEF Begin, config, wire
      <4>2. CallerInv' /\ RestTypes'
        BY <3>1, <4>1, BeginKeepsCallers, RestKeeps DEF PoolInv
      <4> QED
        BY <4>1, <4>2, NoSlotStep
    <3> QED
      BY <2>1, <3>1, LeaveKeeps, TakeKeeps, TakeRefusedKeeps DEF CallOf
  <2>2. ASSUME NEW s \in Slots, Client(s) \/ World(s) PROVE PoolInv'
    BY <2>2, ConnectKeeps, ReceiveKeeps, LinkKeeps, RejectKeeps, RunKeeps DEF Client, World
  <2>3. CASE UNCHANGED vars
    BY <2>3, NoSlotStep, CallersStay, RestKeeps DEF vars
  <2> QED
    BY <2>1, <2>2, <2>3 DEF Next
<1> QED
  BY <1>1, <1>2, PTL DEF Spec

\* The types of the pool, its connections and its callers.
THEOREM TypeCorrect == Spec => []TypeOK
<1>1. PoolInv => TypeOK
  BY DEF PoolInv, CallerInv, WireTypes, RestTypes, TypeOK
<1> QED
  BY <1>1, PoolInvHolds, PTL

\* Each reply settles the command it answers (Connection.ts:40-45,
\* Redis.ts:555-571).
THEOREM AnswersAreOwnHolds == Spec => []AnswersAreOwn
<1>1. PoolInv => AnswersAreOwn
  BY DEF PoolInv, SlotOK, Answered, AnswersAreOwn
<1> QED
  BY <1>1, PoolInvHolds, PTL

\* The pool loses no slot, however calls end (Connection.ts:40-45).
THEOREM SlotsBalanceHolds == Spec => []SlotsBalance
<1>1. PoolInv => SlotsBalance
  BY DEF PoolInv, CallerInv
<1> QED
  BY <1>1, PoolInvHolds, PTL

\* A connection that failed a call is never used again (Connection.ts:31, :44).
THEOREM BrokenIsRemovedHolds == Spec => []BrokenIsRemoved
<1>1. PoolInv => BrokenIsRemoved
  BY DEF PoolInv, SlotOK, BrokenIsRemoved
<1> QED
  BY <1>1, PoolInvHolds, PTL

(***************************************************************************)
(* What is left on a connection.                                           *)
(***************************************************************************)
\* The calls that are over, and left commands as LeftoversAreExplained says.
Over ==
    { n \in 1..MaxCalls :
        /\ n <= calls /\ \A c \in Callers : call[c] # n
        /\ outcome[n] = "abandoned" \/ (outcome[n] = "command" /\ adapter = "bun") }

\* Calls have numbers of their own.
CallsInv ==
    \A c \in Callers :
        /\ call[c] <= calls
        /\ pc[c] = "idle" <=> call[c] = 0
        /\ \A d \in Callers : call[c] = call[d] /\ call[c] # 0 => c = d

\* The last k promises are those of the call n, the others of calls in S.
InTurn(p, n, k, S) ==
    /\ k <= Len(p)
    /\ \A i \in 1..Len(p) : IF i > Len(p) - k THEN p[i][1] = n ELSE p[i][1] \in S

Ours(s) == IF user[s] = Nobody THEN 0 ELSE left[user[s]]
CallAt(s) == IF user[s] = Nobody THEN 0 ELSE call[user[s]]

LineOK(s) ==
    /\ link[s] \in { "none", "refused" } => user[s] = Nobody
    /\ link[s] # "none" => InTurn(promises[s], CallAt(s), Ours(s), Over)

LeftInv == PoolInv /\ CallsInv /\ \A s \in Slots : LineOK(s)

\* What every step does to the calls: some begin with a new number, some end.
CallsMove ==
    /\ calls' \in Nat /\ calls <= calls' /\ adapter' = adapter
    /\ \A c \in Callers : call'[c] = call[c] \/ call'[c] = 0 \/ call'[c] > calls
    /\ \A n \in 1..MaxCalls : (\A c \in Callers : call[c] # n) => outcome'[n] = outcome[n]

LEMMA OverStays ==
    ASSUME PoolInv, CallsMove
    PROVE  Over \subseteq Over'
<1> SUFFICES ASSUME NEW n \in Over PROVE n \in Over'
  OBVIOUS
<1>1. calls \in Nat /\ n \in Nat /\ n # 0 /\ n <= calls /\ n \in 1..MaxCalls
  BY PoolAssumption DEF PoolInv, CallerInv, Over
<1>2. \A c \in Callers : call'[c] # n
  BY <1>1 DEF CallsMove, Over
<1>3. n <= calls' /\ outcome'[n] = outcome[n] /\ adapter' = adapter
  BY <1>1 DEF CallsMove, Over
<1> QED
  BY <1>1, <1>2, <1>3 DEF Over

\* More calls may be over.
LEMMA InTurnGrows ==
    ASSUME NEW p, NEW n, NEW k, NEW S, NEW T, S \subseteq T, InTurn(p, n, k, S)
    PROVE  InTurn(p, n, k, T)
BY DEF InTurn

\* The calls of promises are calls.
LEMMA PromisedCalls ==
    ASSUME PoolInv, NEW s \in Slots
    PROVE  /\ Len(promises[s]) \in Nat
           /\ \A i \in 1..Len(promises[s]) : promises[s][i] \in Commands /\ promises[s][i][1] \in 1..MaxCalls
<1>1. Len(promises[s]) \in Nat /\ \A i \in 1..Len(promises[s]) : promises[s][i] \in Commands
  BY SlotFacts, LenOf
<1>2. \A x \in Commands : x[1] \in 1..MaxCalls
  BY DEF Commands
<1> QED
  BY <1>1, <1>2

\* The part of a caller in a slot.
LEMMA OursIsNat ==
    ASSUME PoolInv, NEW s \in Slots
    PROVE  /\ Ours(s) \in Nat /\ CallAt(s) \in Nat
           /\ user[s] # Nobody =>
                 /\ user[s] \in Callers /\ pc[user[s]] = "use"
                 /\ Ours(s) = left[user[s]] /\ Ours(s) > 0
                 /\ CallAt(s) = call[user[s]] /\ CallAt(s) \in 1..MaxCalls
<1>1. CASE user[s] = Nobody
  BY <1>1 DEF Ours, CallAt
<1>2. CASE user[s] # Nobody
  <2>1. /\ user[s] \in Callers /\ pc[user[s]] = "use"
        /\ call[user[s]] \in 1..MaxCalls /\ left[user[s]] \in 1..MaxSize
    BY <1>2, UserHolds DEF PoolInv
  <2> QED
    BY <1>2, <2>1, MaxSizeBounds DEF Ours, CallAt
<1> QED
  BY <1>1, <1>2

\* A slot that a step leaves alone, and whose user goes on as before.
LEMMA LineStays ==
    ASSUME LeftInv, CallsMove, NEW s \in Slots, promises'[s] = promises[s],
           link'[s] = link[s] \/ (link[s] # "none" /\ link'[s] \notin { "none", "refused" }),
           Ours(s)' = Ours(s), CallAt(s)' = CallAt(s), user'[s] = user[s]
    PROVE  LineOK(s)'
<1>1. LineOK(s) /\ Over \subseteq Over'
  BY OverStays DEF LeftInv
<1>2. link'[s] # "none" => InTurn(promises[s], CallAt(s), Ours(s), Over')
  BY <1>1, InTurnGrows DEF LineOK
<1> QED
  BY <1>1, <1>2 DEF LineOK

\* A call ends.
LEMMA EndMoves ==
    ASSUME LeftInv, NEW c \in Callers, pc[c] # "idle", NEW how \in Outcomes, End(c, how),
           adapter' = adapter
    PROVE  /\ CallsMove /\ CallsInv'
           /\ call[c] \in 1..MaxCalls /\ call[c] <= calls' /\ outcome'[call[c]] = how
           /\ \A d \in Callers : call'[d] # call[c]
           /\ \A d \in Callers : d # c => call'[d] = call[d] /\ left'[d] = left[d]
<1>1. /\ pc' = [pc EXCEPT ![c] = "idle"] /\ call' = [call EXCEPT ![c] = 0]
      /\ left' = [left EXCEPT ![c] = 0] /\ outcome' = [outcome EXCEPT ![call[c]] = how]
      /\ calls' = calls
  BY DEF End
<1>2. /\ call \in [Callers -> 0..MaxCalls] /\ left \in [Callers -> 0..MaxSize]
      /\ pc \in [Callers -> { "idle", "wait", "use" }] /\ outcome \in [1..MaxCalls -> Outcomes]
      /\ calls \in Nat /\ call[c] \in 1..MaxCalls /\ MaxCalls \in Nat
  BY PoolAssumption DEF LeftInv, PoolInv, CallerInv
<1>3. /\ \A d \in Callers : call'[d] = IF d = c THEN 0 ELSE call[d]
      /\ \A d \in Callers : pc'[d] = IF d = c THEN "idle" ELSE pc[d]
      /\ \A d \in Callers : d # c => left'[d] = left[d]
      /\ \A n \in 1..MaxCalls : outcome'[n] = IF n = call[c] THEN how ELSE outcome[n]
  BY <1>1, <1>2
<1>4. CallsInv
  BY DEF LeftInv
<1>5. CallsMove
  BY <1>1, <1>2, <1>3 DEF CallsMove
<1>6. CallsInv'
  BY <1>1, <1>2, <1>3, <1>4 DEF CallsInv
<1>7. call[c] <= calls' /\ \A d \in Callers : call'[d] # call[c]
  BY <1>1, <1>2, <1>3, <1>4 DEF CallsInv
<1> QED
  BY <1>2, <1>3, <1>5, <1>6, <1>7

\* The slots of other callers do not notice.
LEMMA OthersStay ==
    ASSUME LeftInv, NEW c \in Callers, pc[c] # "idle", NEW how \in Outcomes, End(c, how),
           Release(c), adapter' = adapter, NEW s \in Slots, user[s] # c,
           promises'[s] = promises[s], link'[s] = link[s]
    PROVE  LineOK(s)'
<1>1. /\ CallsMove
      /\ \A d \in Callers : d # c => call'[d] = call[d] /\ left'[d] = left[d]
  BY EndMoves
<1>2. user'[s] = user[s]
  BY DEF Release
<1>3. user[s] # Nobody => user[s] \in Callers
  BY DEF LeftInv, PoolInv, CallerInv
<1>4. Ours(s)' = Ours(s) /\ CallAt(s)' = CallAt(s)
  BY <1>1, <1>2, <1>3 DEF Ours, CallAt
<1> QED
  BY <1>1, <1>2, <1>4, LineStays

\* A slot whose user has ended: its promises are gone, or are explained.
LEMMA UserGone ==
    ASSUME LeftInv, NEW s \in Slots, user'[s] = Nobody, NEW p, promises'[s] = p, Len(p) \in Nat,
           link'[s] # "none" => \A i \in 1..Len(p) : p[i][1] \in Over'
    PROVE  LineOK(s)'
<1>1. Ours(s)' = 0 /\ CallAt(s)' = 0
  BY DEF Ours, CallAt
<1>2. link'[s] # "none" => InTurn(p, 0, 0, Over')
  BY DEF InTurn
<1> QED
  BY <1>1, <1>2 DEF LineOK

\* A call that ends as a call that leaves commands may end.
LEMMA EndsOver ==
    ASSUME LeftInv, NEW c \in Callers, pc[c] # "idle", NEW how \in Outcomes, End(c, how),
           adapter' = adapter, how = "abandoned" \/ (how = "command" /\ adapter = "bun")
    PROVE  call[c] \in Over'
BY EndMoves DEF Over

\* The promises of a slot are of its user or over.
LEMMA OursOrOver ==
    ASSUME LeftInv, NEW s \in Slots, link[s] # "none", NEW i \in 1..Len(promises[s])
    PROVE  promises[s][i][1] = CallAt(s) \/ promises[s][i][1] \in Over
BY DEF LeftInv, LineOK, InTurn

\* A deadline, or an interrupt.
LEMMA LeaveLeft ==
    ASSUME LeftInv, NEW c \in Callers, Timeout(c) \/ Interrupt(c)
    PROVE  CallsInv' /\ \A s \in Slots : LineOK(s)'
<1>1. /\ pc[c] # "idle" /\ End(c, "abandoned") /\ Release(c)
      /\ UNCHANGED << adapter, link, promises >>
  BY DEF Timeout, Interrupt, Leave, config
<1>2. "abandoned" \in Outcomes
  BY DEF Outcomes
<1>3. CallsMove /\ CallsInv' /\ call[c] \in Over' /\ Over \subseteq Over'
  BY <1>1, <1>2, EndMoves, EndsOver, OverStays DEF LeftInv
<1>4. ASSUME NEW s \in Slots PROVE LineOK(s)'
  <2>1. CASE user[s] # c
    BY <1>1, <1>2, <2>1, OthersStay
  <2>2. CASE user[s] = c
    <3>1. user'[s] = Nobody /\ c # Nobody /\ CallAt(s) = call[c]
      BY <1>1, <2>2, PoolAssumption DEF Release, CallAt
    <3>2. link[s] # "none" => \A i \in 1..Len(promises[s]) : promises[s][i][1] \in Over'
      BY <1>3, <3>1, OursOrOver
    <3>3. Len(promises[s]) \in Nat
      BY PromisedCalls DEF LeftInv
    <3> QED
      BY <1>1, <3>1, <3>2, <3>3, UserGone
  <2> QED
    BY <2>1, <2>2
<1> QED
  BY <1>3, <1>4

\* A reply settles the first promise.
LEMMA ReceiveLeft ==
    ASSUME LeftInv, NEW s \in Slots, Receive(s)
    PROVE  CallsInv' /\ \A t \in Slots : LineOK(t)'
<1> USE PoolAssumption
<1> DEFINE p == promises[s]
           q == Tail(promises[s])
           x == Head(promises[s])
           c == user[s]
           ok == Head(replies[s])[2]
<1>1. /\ link[s] = "up" /\ replies[s] # << >> /\ Settle(s, x, ok)
      /\ promises' = [promises EXCEPT ![s] = q] /\ UNCHANGED << adapter, link >>
  BY SlotFacts DEF Receive, config, LeftInv
<1>2. p \in Seq(Commands) /\ p # << >>
  <2>1. InLine(Commands, promises[s], replies[s], sent[s])
    BY <1>1, SlotFacts DEF InLine, LeftInv
  <2> QED
    BY <1>1, <2>1, ReceiveInLine, SlotFacts DEF LeftInv
<1>3. /\ x = p[1] /\ Len(p) \in Nat /\ Len(p) >= 1 /\ Len(q) = Len(p) - 1
      /\ \A i \in 1..Len(q) : q[i] = p[i + 1]
  BY <1>2, HeadTailProperties, LenOf
<1>4. promises'[s] = q /\ \A t \in Slots : t # s => promises'[t] = promises[t]
  BY <1>1, SlotFacts DEF LeftInv, PoolInv, WireTypes
<1>5. InTurn(p, CallAt(s), Ours(s), Over) /\ Ours(s) \in Nat
  BY <1>1, OursIsNat DEF LeftInv, LineOK
<1> HIDE DEF p, q, x, ok
\* The promises that stay are ours or over.
<1>6. ASSUME NEW n, NEW k \in Nat, NEW S, InTurn(p, n, k, S), k <= Len(p) - 1
      PROVE  InTurn(q, n, k, S)
  <2>1. \A i \in 1..Len(q) : i + 1 \in 1..Len(p) /\ (i > Len(q) - k <=> i + 1 > Len(p) - k)
    BY <1>3
  <2> QED
    BY <1>3, <1>6, <2>1 DEF InTurn
<1>7. CASE ~Awaited(s, x)
  <2>1. UNCHANGED << pc, call, calls, left, outcome, user >>
    BY <1>1, <1>7 DEF Settle, caller
  <2>2. CallsMove /\ CallsInv'
    BY <1>1, <2>1 DEF CallsMove, CallsInv, LeftInv, PoolInv, CallerInv
  <2>3. \A t \in Slots : Ours(t)' = Ours(t) /\ CallAt(t)' = CallAt(t) /\ user'[t] = user[t]
    BY <2>1 DEF Ours, CallAt
  <2>4. ASSUME NEW t \in Slots, t # s PROVE LineOK(t)'
    BY <1>1, <1>4, <2>2, <2>3, <2>4, LineStays
  <2>5. Ours(s) <= Len(p) - 1
    <3>1. CASE c = Nobody
      BY <1>3, <3>1 DEF Ours
    <3>2. CASE c # Nobody
      <4>1. p[1][1] # CallAt(s)
        BY <1>3, <1>7, <3>2 DEF Awaited, CallAt
      <4>2. ~(1 > Len(p) - Ours(s))
        BY <1>3, <1>5, <4>1 DEF InTurn
      <4> QED
        BY <1>3, <1>5, <4>2
    <3> QED
      BY <3>1, <3>2
  <2>6. InTurn(q, CallAt(s), Ours(s), Over')
    BY <1>5, <1>6, <2>2, <2>5, InTurnGrows, OverStays DEF LeftInv
  <2>7. LineOK(s)'
    BY <1>1, <1>4, <2>3, <2>6 DEF LineOK
  <2> QED
    BY <2>2, <2>4, <2>7
<1>8. CASE Awaited(s, x)
  <2>1. /\ Count(c, ok, FailsAtOnce) /\ c # Nobody /\ c \in Callers /\ pc[c] # "idle"
        /\ Ours(s) = left[c] /\ Ours(s) > 0 /\ CallAt(s) = call[c] /\ call[c] = p[1][1]
        /\ CallAt(s) \in 1..MaxCalls
        /\ \A t \in Slots : user[t] = c <=> t = s
    BY <1>1, <1>3, <1>8, OursIsNat, UserHolds DEF Settle, Awaited, LeftInv, PoolInv
  \* Our promises are at the end, and the first is ours: there are no others.
  <2>2. Ours(s) = Len(p)
    <3>1. p[1][1] \notin Over
      BY <2>1 DEF Over
    <3>2. 1 > Len(p) - Ours(s)
      BY <1>3, <1>5, <3>1 DEF InTurn
    <3> QED
      BY <1>3, <1>5, <3>2 DEF InTurn
  <2>3. \A i \in 1..Len(q) : q[i][1] = call[c]
    <3>1. \A i \in 1..Len(q) : i + 1 \in 1..Len(p) /\ i + 1 > Len(p) - Ours(s)
      BY <1>3, <2>2
    <3> QED
      BY <1>3, <1>5, <2>1, <3>1 DEF InTurn
  <2> HIDE DEF c
  <2>4. CASE \E how \in Outcomes :
                /\ End(c, how) /\ Release(c)
                /\ Len(q) = 0 \/ (how = "command" /\ adapter = "bun")
    <3>1. PICK how \in Outcomes : /\ End(c, how) /\ Release(c)
                                  /\ Len(q) = 0 \/ (how = "command" /\ adapter = "bun")
      BY <2>4
    <3>2. CallsInv' /\ user'[s] = Nobody
      BY <1>1, <2>1, <3>1, EndMoves DEF Release
    <3>3. \A t \in Slots : t # s => LineOK(t)'
      BY <1>1, <1>4, <2>1, <3>1, OthersStay
    <3>4. \A i \in 1..Len(q) : q[i][1] \in Over'
      <4>1. CASE Len(q) = 0
        BY <4>1
      <4>2. CASE how = "command" /\ adapter = "bun"
        BY <1>1, <2>1, <2>3, <3>1, <4>2, EndsOver
      <4> QED
        BY <3>1, <4>1, <4>2
    <3>5. LineOK(s)'
      BY <1>3, <1>4, <3>2, <3>4, UserGone
    <3> QED
      BY <3>2, <3>3, <3>5
  <2>5. CASE /\ left[c] # 1 /\ left' = [left EXCEPT ![c] = @ - 1]
             /\ outcome' = outcome \/ outcome' = [outcome EXCEPT ![call[c]] = "command"]
             /\ UNCHANGED << pc, call, calls, user >>
    <3>1. /\ left'[c] = left[c] - 1 /\ \A d \in Callers : d # c => left'[d] = left[d]
          /\ \A n \in 1..MaxCalls : n # call[c] => outcome'[n] = outcome[n]
      BY <2>1, <2>5 DEF LeftInv, PoolInv, CallerInv
    <3>2. CallsMove /\ CallsInv'
      BY <1>1, <2>1, <2>5, <3>1 DEF CallsMove, CallsInv, LeftInv, PoolInv, CallerInv
    <3>3. ASSUME NEW t \in Slots, t # s PROVE LineOK(t)'
      <4>1. user'[t] = user[t] /\ user[t] # c /\ (user[t] # Nobody => user[t] \in Callers)
        BY <2>1, <2>5, <3>3 DEF LeftInv, PoolInv, CallerInv
      <4>2. Ours(t)' = Ours(t) /\ CallAt(t)' = CallAt(t)
        BY <2>5, <3>1, <4>1 DEF Ours, CallAt
      <4> QED
        BY <1>1, <1>4, <3>2, <3>3, <4>1, <4>2, LineStays
    <3>4. Ours(s)' = left[c] - 1 /\ CallAt(s)' = call[c] /\ user'[s] = c
      BY <2>1, <2>5, <3>1 DEF Ours, CallAt, c
    <3>5. InTurn(q, call[c], left[c] - 1, Over')
      BY <1>3, <2>1, <2>2, <2>3 DEF InTurn
    <3>6. LineOK(s)'
      BY <1>1, <1>4, <3>4, <3>5 DEF LineOK
    <3> QED
      BY <3>2, <3>3, <3>6
  <2>6. left[c] = 1 => Len(q) = 0
    <3>1. Ours(s) = left[c] /\ Len(q) = Len(p) - 1 /\ Len(p) \in Nat
      BY <1>3, <2>1
    <3>2. Len(q) = left[c] - 1
      BY <2>2, <3>1
    <3> QED
      BY <3>2
  <2> QED
    BY <2>1, <2>4, <2>5, <2>6 DEF Count, FailsAtOnce, Outcomes
<1> QED
  BY <1>7, <1>8

\* A client rejects what its user waits for, and keeps promises p of calls that
\* are over.
LEMMA RejectedLeft ==
    ASSUME LeftInv, NEW s \in Slots, RejectCalls(s), adapter' = adapter,
           NEW p, promises' = [promises EXCEPT ![s] = p], Len(p) \in Nat,
           \A i \in 1..Len(p) : p[i][1] \in Over,
           link[s] \notin { "none", "refused" }
    PROVE  CallsInv' /\ \A t \in Slots : LineOK(t)'
<1> USE PoolAssumption
<1> DEFINE c == user[s]
<1>1. /\ promises'[s] = p /\ \A t \in Slots : t # s => promises'[t] = promises[t]
      /\ user'[s] = Nobody
      /\ \A t \in Slots : t # s => link'[t] = link[t]
  <2>1. UNCHANGED link \/ link' = [link EXCEPT ![s] = "none"]
    BY RejectCallsKeeps DEF LeftInv, PoolInv
  <2> QED
    BY <2>1, RejectCallsKeeps DEF LeftInv, PoolInv, WireTypes
<1>2. CASE c = Nobody
  <2>1. UNCHANGED << pc, call, calls, left, outcome, link >>
        /\ \A t \in Slots : t # s => user'[t] = user[t]
    BY <1>2 DEF RejectCalls, caller
  <2>2. CallsMove /\ CallsInv'
    BY <2>1 DEF CallsMove, CallsInv, LeftInv, PoolInv, CallerInv
  <2>3. \A t \in Slots : t # s => Ours(t)' = Ours(t) /\ CallAt(t)' = CallAt(t)
    BY <2>1 DEF Ours, CallAt
  <2>4. \A t \in Slots : t # s => LineOK(t)'
    BY <1>1, <2>1, <2>2, <2>3, LineStays
  <2>5. \A i \in 1..Len(p) : p[i][1] \in Over'
    BY <2>2, OverStays DEF LeftInv
  <2>6. LineOK(s)'
    BY <1>1, <2>5, UserGone
  <2> QED
    BY <2>2, <2>4, <2>6
<1>3. CASE c # Nobody
  <2>1. c \in Callers /\ pc[c] # "idle" /\ \A t \in Slots : user[t] = c <=> t = s
    BY <1>3, UserHolds DEF LeftInv, PoolInv
  <2>2. PICK how \in Outcomes : End(c, how)
    BY <1>3 DEF RejectCalls, Invalidate, Outcomes
  <2>3. Release(c)
    BY <2>1 DEF Release, RejectCalls, LeftInv, PoolInv, CallerInv
  <2> HIDE DEF c
  <2>4. CallsMove /\ CallsInv'
    BY <2>1, <2>2, EndMoves
  <2>5. \A t \in Slots : t # s => LineOK(t)'
    BY <1>1, <2>1, <2>2, <2>3, OthersStay
  <2>6. \A i \in 1..Len(p) : p[i][1] \in Over'
    BY <2>4, OverStays DEF LeftInv
  <2>7. LineOK(s)'
    BY <1>1, <2>6, UserGone
  <2> QED
    BY <2>4, <2>5, <2>7
<1> QED
  BY <1>2, <1>3

\* The callers go on as before.
LEMMA SameCallers ==
    ASSUME LeftInv, UNCHANGED << adapter, pc, call, calls, left, outcome, user >>
    PROVE  /\ CallsMove /\ CallsInv'
           /\ \A s \in Slots : Ours(s)' = Ours(s) /\ CallAt(s)' = CallAt(s) /\ user'[s] = user[s]
<1>1. CallsMove /\ CallsInv'
  BY DEF CallsMove, CallsInv, LeftInv, PoolInv, CallerInv
<1> QED
  BY <1>1 DEF Ours, CallAt

\* ioredis does not send the rest of a pipeline again.
LEMMA AbortLeft ==
    ASSUME LeftInv, NEW s \in Slots, AbortPipeline(s)
    PROVE  CallsInv' /\ \A t \in Slots : LineOK(t)'
<1> DEFINE p == promises[s]
           head == Head(promises[s])
<1>1. PICK n \in DOMAIN p :
         /\ \A i \in DOMAIN p : i <= n <=> p[i][1] = head[1]
         /\ promises' = [promises EXCEPT ![s] = SubSeq(p, n + 1, Len(p))]
  BY DEF AbortPipeline
<1> DEFINE q == SubSeq(promises[s], n + 1, Len(promises[s]))
<1>2. /\ link[s] = "down" /\ p # << >> /\ adapter' = adapter
      /\ IF Awaited(s, head) THEN RejectCalls(s)
         ELSE UNCHANGED << pc, call, calls, left, outcome, user, link, failed >>
  BY DEF AbortPipeline, Incomplete, config, caller
<1>3. /\ p \in Seq(Commands) /\ Len(p) \in Nat /\ DOMAIN p = 1..Len(p) /\ head = p[1] /\ Len(p) >= 1
      /\ \A i \in 1..Len(p) : p[i] \in Commands
  <2>1. p \in Seq(Commands)
    BY SlotFacts DEF LeftInv
  <2>2. Len(p) \in Nat /\ DOMAIN p = 1..Len(p) /\ Len(p) # 0 /\ \A i \in 1..Len(p) : p[i] \in Commands
    BY <1>2, <2>1, LenOf
  <2>3. head = p[1]
    BY <1>2, <2>1, HeadTailProperties
  <2> QED
    BY <2>1, <2>2, <2>3
<1>4. /\ Len(q) = Len(p) - n /\ \A i \in 1..Len(q) : q[i] = p[n + i]
  <2>1. /\ n + 1 \in Int /\ Len(p) \in Int /\ n + 1 >= 1
        /\ \A i \in (n + 1)..Len(p) : p[i] \in Commands
    <3>1. n \in Nat /\ n >= 1 /\ Len(p) \in Nat
      BY <1>3
    <3>2. (n + 1)..Len(p) \subseteq 1..Len(p)
      BY <3>1
    <3> QED
      BY <1>3, <3>1, <3>2
  <2>2. /\ Len(q) = IF n + 1 <= Len(p) THEN Len(p) - (n + 1) + 1 ELSE 0
        /\ \A i \in 1..(Len(p) - (n + 1) + 1) : q[i] = p[(n + 1) + i - 1]
    BY <2>1, SubSeqProperties
  <2>3. Len(p) - (n + 1) + 1 = Len(p) - n /\ n <= Len(p) /\ n \in Nat
    BY <1>3
  <2>4. Len(q) = Len(p) - n
    BY <1>3, <2>2, <2>3
  <2>5. \A i \in 1..Len(q) : (n + 1) + i - 1 = n + i
    BY <1>3
  <2> QED
    BY <2>2, <2>3, <2>4, <2>5
<1>5. InTurn(p, CallAt(s), Ours(s), Over) /\ Ours(s) \in Nat
  BY <1>2, OursIsNat DEF LeftInv, LineOK
<1>6. promises' = [promises EXCEPT ![s] = q] /\ Len(q) \in Nat
  BY <1>1, <1>3, <1>4
<1> HIDE DEF p, q, head
<1>7. CASE Awaited(s, head)
  <2>1. CallAt(s) = p[1][1] /\ CallAt(s) \notin Over
    <3>1. user[s] # Nobody /\ CallAt(s) = call[user[s]] /\ user[s] \in Callers
      BY <1>7, OursIsNat DEF Awaited, LeftInv
    <3> QED
      BY <1>3, <1>7, <3>1 DEF Awaited, Over
  <2>2. Ours(s) = Len(p)
    <3>1. 1 > Len(p) - Ours(s)
      BY <1>3, <1>5, <2>1 DEF InTurn
    <3> QED
      BY <1>3, <1>5, <3>1 DEF InTurn
  <2>3. p[Len(p)][1] = head[1]
    BY <1>3, <1>5, <2>1, <2>2 DEF InTurn
  <2>4. n = Len(p)
    BY <1>1, <1>3, <2>3
  <2>5. Len(q) = 0
    BY <1>3, <1>4, <2>4
  <2>6. RejectCalls(s) /\ adapter' = adapter /\ link[s] \notin { "none", "refused" }
    BY <1>2, <1>7
  <2>7. \A i \in 1..Len(q) : q[i][1] \in Over
    BY <2>5
  <2> QED
    BY <1>6, <2>6, <2>7, RejectedLeft
<1>8. CASE ~Awaited(s, head)
  <2>1. UNCHANGED << pc, call, calls, left, outcome, user, link >>
    BY <1>2, <1>8
  <2>2. CallsMove /\ CallsInv' /\ \A t \in Slots : /\ Ours(t)' = Ours(t)
                                                   /\ CallAt(t)' = CallAt(t)
                                                   /\ user'[t] = user[t]
    BY <1>2, <2>1, SameCallers
  <2>3. promises'[s] = q /\ \A t \in Slots : t # s => promises'[t] = promises[t]
    BY <1>6 DEF LeftInv, PoolInv, WireTypes
  <2>4. \A t \in Slots : t # s => LineOK(t)'
    BY <2>1, <2>2, <2>3, LineStays
  <2>5. Ours(s) <= Len(p) - n
    <3>1. CASE user[s] = Nobody
      BY <1>3, <3>1 DEF Ours
    <3>2. CASE user[s] # Nobody
      <4>1. p[n][1] # CallAt(s)
        BY <1>1, <1>3, <1>8, <3>2 DEF Awaited, CallAt
      <4>2. ~(n > Len(p) - Ours(s))
        BY <1>3, <1>5, <4>1 DEF InTurn
      <4> QED
        BY <1>3, <1>5, <4>2
    <3> QED
      BY <3>1, <3>2
  <2>6. \A i \in 1..Len(q) : n + i \in 1..Len(p) /\ (i > Len(q) - Ours(s) <=> n + i > Len(p) - Ours(s))
    BY <1>3, <1>4, <1>5
  <2>7. InTurn(q, CallAt(s), Ours(s), Over)
    BY <1>4, <1>5, <2>5, <2>6 DEF InTurn
  <2>8. InTurn(q, CallAt(s), Ours(s), Over')
    BY <2>2, <2>7, InTurnGrows, OverStays DEF LeftInv
  <2>9. LineOK(s)'
    BY <1>2, <2>1, <2>2, <2>3, <2>8 DEF LineOK
  <2> QED
    BY <2>2, <2>4, <2>9
<1> QED
  BY <1>7, <1>8

\* A caller gets a connection, and puts its commands behind what is left there.
LEMMA TakeLeft ==
    ASSUME LeftInv, NEW c \in Callers, NEW s \in Slots, Take(c, s)
    PROVE  CallsInv' /\ \A t \in Slots : LineOK(t)'
<1> USE PoolAssumption
<1> DEFINE p == promises[s]
           m == CommandsOf(c)
           q == promises[s] \o CommandsOf(c)
<1>1. /\ pc[c] = "wait" /\ user[s] = Nobody /\ link[s] \notin { "none", "refused" }
      /\ promises' = [promises EXCEPT ![s] = q]
      /\ user' = [user EXCEPT ![s] = c] /\ pc' = [pc EXCEPT ![c] = "use"]
      /\ UNCHANGED << adapter, link, call, calls, left, outcome >>
  BY DEF Take, config
<1>2. /\ promises'[s] = q /\ \A t \in Slots : t # s => promises'[t] = promises[t]
      /\ \A t \in Slots : user'[t] = IF t = s THEN c ELSE user[t]
      /\ \A d \in Callers : pc'[d] = IF d = c THEN "use" ELSE pc[d]
  BY <1>1 DEF LeftInv, PoolInv, WireTypes, CallerInv
<1>3. CallsMove /\ CallsInv'
  BY <1>1, <1>2 DEF CallsMove, CallsInv, LeftInv, PoolInv, CallerInv
<1>4. ASSUME NEW t \in Slots, t # s PROVE LineOK(t)'
  <2>1. Ours(t)' = Ours(t) /\ CallAt(t)' = CallAt(t)
    BY <1>1, <1>2, <1>4 DEF Ours, CallAt
  <2> QED
    BY <1>1, <1>2, <1>3, <1>4, <2>1, LineStays
<1>5. p \in Seq(Commands) /\ m \in Seq(Commands) /\ left[c] \in Nat
  <2>1. p \in Seq(Commands)
    BY <1>1, SlotFacts DEF LeftInv
  <2>2. call[c] \in 1..MaxCalls /\ left[c] \in 1..MaxSize
    BY <1>1 DEF LeftInv, PoolInv, CallerInv
  <2>3. m \in Seq(Commands)
    BY <1>1, CommandsOfCall DEF LeftInv
  <2> QED
    BY <2>1, <2>2, <2>3
<1>6. Len(m) = left[c] /\ \A i \in 1..Len(m) : m[i][1] = call[c]
  <2>1. m = [i \in 1..left[c] |-> << call[c], i >>]
    BY DEF CommandsOf
  <2>2. DOMAIN m = 1..Len(m) /\ Len(m) \in Nat /\ DOMAIN m = 1..left[c]
    BY <1>5, <2>1, LenOf
  <2>3. Len(m) = left[c]
    BY <1>5, <2>2
  <2>4. \A i \in 1..left[c] : m[i] = << call[c], i >>
    BY <2>1
  <2> QED
    BY <2>3, <2>4
<1>7. /\ Len(q) = Len(p) + Len(m) /\ Len(p) \in Nat
      /\ \A i \in 1..(Len(p) + Len(m)) : q[i] = IF i <= Len(p) THEN p[i] ELSE m[i - Len(p)]
  <2>1. Len(p) \in Nat
    BY <1>5, LenOf
  <2> QED
    BY <1>5, <2>1, ConcatProperties
<1>8. \A i \in 1..Len(p) : p[i][1] \in Over
  <2>1. InTurn(p, 0, 0, Over)
    BY <1>1 DEF LeftInv, LineOK, CallAt, Ours
  <2> QED
    BY <1>7, <2>1 DEF InTurn
<1> HIDE DEF p, m, q
<1>9. InTurn(q, call[c], left[c], Over')
  <2>1. Over \subseteq Over'
    BY <1>3, OverStays DEF LeftInv
  <2>2. left[c] <= Len(q)
    BY <1>5, <1>6, <1>7
  <2>3. ASSUME NEW i \in 1..Len(q)
        PROVE  IF i > Len(q) - left[c] THEN q[i][1] = call[c] ELSE q[i][1] \in Over'
    <3>1. CASE i <= Len(p)
      <4>1. i \in 1..Len(p) /\ ~(i > Len(q) - left[c]) /\ i \in 1..(Len(p) + Len(m))
        BY <1>5, <1>6, <1>7, <3>1
      <4>2. q[i] = p[i]
        BY <1>7, <3>1, <4>1
      <4> QED
        BY <1>8, <2>1, <4>1, <4>2
    <3>2. CASE ~(i <= Len(p))
      <4>1. i - Len(p) \in 1..Len(m) /\ i > Len(q) - left[c] /\ i \in 1..(Len(p) + Len(m))
        BY <1>5, <1>6, <1>7, <3>2
      <4>2. q[i] = m[i - Len(p)]
        BY <1>7, <3>2, <4>1
      <4> QED
        BY <1>6, <4>1, <4>2
    <3> QED
      BY <3>1, <3>2
  <2> QED
    BY <2>2, <2>3 DEF InTurn
<1>10. Ours(s)' = left[c] /\ CallAt(s)' = call[c]
  BY <1>1, <1>2 DEF Ours, CallAt
<1>11. LineOK(s)'
  BY <1>1, <1>2, <1>9, <1>10 DEF LineOK
<1> QED
  BY <1>3, <1>4, <1>11

LEMMA TakeRefusedLeft ==
    ASSUME LeftInv, NEW c \in Callers, NEW s \in Slots, TakeRefused(c, s)
    PROVE  CallsInv' /\ \A t \in Slots : LineOK(t)'
<1>1. /\ link[s] = "refused" /\ link' = [link EXCEPT ![s] = "none"] /\ user[s] = Nobody
      /\ pc[c] = "wait" /\ End(c, "connection") /\ UNCHANGED << adapter, user, promises >>
  BY DEF TakeRefused, config, wire
<1>2. \A t \in Slots : user[t] # c
  BY <1>1, WaitingHoldsNothing DEF LeftInv, PoolInv
<1>3. CallsMove /\ CallsInv' /\ \A d \in Callers : d # c => call'[d] = call[d] /\ left'[d] = left[d]
  BY <1>1, EndMoves DEF Outcomes
<1>4. ASSUME NEW t \in Slots, t # s PROVE LineOK(t)'
  <2>1. link'[t] = link[t]
    BY <1>1, <1>4 DEF LeftInv, PoolInv, WireTypes
  <2>2. user[t] # Nobody => user[t] \in Callers /\ user[t] # c
    BY <1>2 DEF LeftInv, PoolInv, CallerInv
  <2>3. Ours(t)' = Ours(t) /\ CallAt(t)' = CallAt(t)
    BY <1>1, <1>3, <2>2 DEF Ours, CallAt
  <2> QED
    BY <1>1, <1>3, <2>1, <2>3, LineStays
<1>5. LineOK(s)'
  BY <1>1 DEF LineOK, LeftInv, PoolInv, WireTypes
<1> QED
  BY <1>3, <1>4, <1>5

LEMMA BeginLeft ==
    ASSUME LeftInv, NEW c \in Callers, Begin(c)
    PROVE  CallsInv' /\ \A t \in Slots : LineOK(t)'
<1>1. /\ pc[c] = "idle" /\ calls' = calls + 1
      /\ pc' = [pc EXCEPT ![c] = "wait"] /\ call' = [call EXCEPT ![c] = calls + 1]
      /\ \E n \in Sizes : left' = [left EXCEPT ![c] = n]
      /\ UNCHANGED << adapter, link, user, promises, outcome >>
  BY DEF Begin, config, wire
<1>2. /\ \A d \in Callers : call'[d] = IF d = c THEN calls + 1 ELSE call[d]
      /\ \A d \in Callers : pc'[d] = IF d = c THEN "wait" ELSE pc[d]
      /\ \A d \in Callers : d # c => left'[d] = left[d]
      /\ calls \in Nat /\ \A d \in Callers : call[d] \in Nat
  BY <1>1, PoolAssumption DEF LeftInv, PoolInv, CallerInv
<1>3. CallsMove /\ CallsInv'
  BY <1>1, <1>2 DEF CallsMove, CallsInv, LeftInv
<1>4. ASSUME NEW t \in Slots PROVE LineOK(t)'
  <2>1. user[t] # Nobody => user[t] \in Callers /\ user[t] # c
    BY <1>1, OursIsNat DEF LeftInv
  <2>2. Ours(t)' = Ours(t) /\ CallAt(t)' = CallAt(t)
    BY <1>1, <1>2, <2>1 DEF Ours, CallAt
  <2> QED
    BY <1>1, <1>3, <2>2, LineStays
<1> QED
  BY <1>3, <1>4

\* Steps of a connection that tell the callers nothing.
LEMMA QuietLeft ==
    ASSUME LeftInv, NEW s \in Slots,
           Connect(s) \/ Run(s) \/ Drop(s) \/ Detect(s) \/ Hang(s) \/ Reconnect(s) \/ GiveUp(s)
    PROVE  CallsInv' /\ \A t \in Slots : LineOK(t)'
<1>1. UNCHANGED << adapter, pc, call, calls, left, outcome, user >>
  BY DEF Connect, Run, Drop, Detect, Hang, Reconnect, GiveUp, SocketCloses, config, caller, wire
<1>2. /\ CallsMove /\ CallsInv'
      /\ \A t \in Slots : Ours(t)' = Ours(t) /\ CallAt(t)' = CallAt(t) /\ user'[t] = user[t]
  BY <1>1, SameCallers
<1>3. CASE Connect(s)
  <2>1. /\ link[s] = "none" /\ promises' = [promises EXCEPT ![s] = << >>]
        /\ link' = [link EXCEPT ![s] = "up"] \/ link' = [link EXCEPT ![s] = "refused"]
    BY <1>3 DEF Connect
  <2>2. /\ promises'[s] = << >>
        /\ \A t \in Slots : t # s => promises'[t] = promises[t] /\ link'[t] = link[t]
    BY <2>1 DEF LeftInv, PoolInv, WireTypes
  <2>3. \A t \in Slots : t # s => LineOK(t)'
    BY <1>2, <2>2, LineStays
  <2>4. user'[s] = Nobody
    BY <1>1, <2>1 DEF LeftInv, LineOK
  <2>5. Len(<< >>) = 0
    BY LenOf, EmptySeq
  <2>6. LineOK(s)'
    BY <2>2, <2>4, <2>5, UserGone
  <2> QED
    BY <1>2, <2>3, <2>6
<1>4. CASE Run(s) \/ Drop(s) \/ Detect(s) \/ Hang(s) \/ Reconnect(s) \/ GiveUp(s)
  <2>1. /\ promises' = promises /\ link[s] \in { "up", "hung", "down" }
        /\ link' = link \/ \E l \in { "closed", "down", "hung", "up" } : link' = [link EXCEPT ![s] = l]
    BY <1>4 DEF Run, Drop, Detect, Hang, Reconnect, GiveUp, SocketCloses, wire
  <2>2. \A t \in Slots : \/ link'[t] = link[t]
                         \/ link[t] # "none" /\ link'[t] \notin { "none", "refused" }
    BY <2>1 DEF LeftInv, PoolInv, WireTypes
  <2>3. \A t \in Slots : LineOK(t)'
    BY <1>2, <2>1, <2>2, LineStays
  <2> QED
    BY <1>2, <2>3
<1> QED
  BY <1>3, <1>4

THEOREM LeftInvHolds == Spec => []LeftInv
<1>1. Init => PoolInv
  BY PoolInvInit
<1>2. Init => CallsInv /\ \A s \in Slots : LineOK(s)
  <2> SUFFICES ASSUME Init PROVE CallsInv /\ \A s \in Slots : LineOK(s)
    OBVIOUS
  <2>1. calls = 0 /\ \A c \in Callers : call[c] = 0 /\ pc[c] = "idle"
    BY DEF Init
  <2>2. ASSUME NEW c \in Callers
        PROVE  /\ call[c] <= calls /\ (pc[c] = "idle" <=> call[c] = 0)
               /\ \A d \in Callers : call[c] = call[d] /\ call[c] # 0 => c = d
    <3>1. calls = 0 /\ call[c] = 0 /\ pc[c] = "idle"
      BY <2>1, <2>2
    <3> QED
      BY <3>1
  <2>3. CallsInv
    BY <2>2 DEF CallsInv
  <2> QED
    BY <2>3 DEF Init, LineOK
<1>3. LeftInv /\ PoolInv' /\ [Next]_vars => LeftInv'
  <2> SUFFICES ASSUME LeftInv, PoolInv', [Next]_vars PROVE CallsInv' /\ \A s \in Slots : LineOK(s)'
    BY DEF LeftInv
  <2>1. ASSUME NEW c \in Callers, CallOf(c) PROVE CallsInv' /\ \A s \in Slots : LineOK(s)'
    BY <2>1, BeginLeft, LeaveLeft, TakeLeft, TakeRefusedLeft DEF CallOf
  <2>2. ASSUME NEW t \in Slots, Client(t) \/ World(t) PROVE CallsInv' /\ \A s \in Slots : LineOK(s)'
    <3>1. CASE Reject(t)
      <4>1. /\ RejectCalls(t) /\ adapter' = adapter /\ promises' = [promises EXCEPT ![t] = << >>]
            /\ link[t] \notin { "none", "refused" }
        BY <3>1 DEF Reject, config
      <4>2. Len(<< >>) = 0
        BY LenOf, EmptySeq
      <4> QED
        <5>1. Len(<< >>) \in Nat /\ \A i \in 1..Len(<< >>) : << >>[i][1] \in Over
          BY <4>2
        <5> QED
          BY <4>1, <5>1, RejectedLeft
    <3> QED
      BY <2>2, <3>1, QuietLeft, ReceiveLeft, AbortLeft DEF Client, World
  <2>3. CASE UNCHANGED vars
    <3>1. UNCHANGED << adapter, pc, call, calls, left, outcome, user, promises, link >>
      BY <2>3 DEF vars
    <3> QED
      BY <3>1, SameCallers, LineStays
  <2> QED
    BY <2>1, <2>2, <2>3 DEF Next
<1>4. Spec => []PoolInv
  BY PoolInvHolds
<1>5. Init => LeftInv
  BY <1>1, <1>2 DEF LeftInv
<1> QED
  BY <1>3, <1>4, <1>5, PTL DEF Spec

\* What waits on a connection is of its user, or was left by a call that gave up
\* or by a pipeline of bun that failed (ioredis/src/index.ts:158-173,
\* bun/src/index.ts:81-91).
THEOREM LeftoversAreExplainedHolds == Spec => []LeftoversAreExplained
<1>1. LeftInv => LeftoversAreExplained
  <2> SUFFICES ASSUME LeftInv, NEW s \in Slots, link[s] # "none", NEW i \in DOMAIN promises[s]
               PROVE  \/ Awaited(s, promises[s][i])
                      \/ outcome[promises[s][i][1]] = "abandoned"
                      \/ outcome[promises[s][i][1]] = "command" /\ adapter = "bun"
    BY DEF LeftoversAreExplained
  <2>1. i \in 1..Len(promises[s]) /\ promises[s][i][1] \in 1..MaxCalls
    BY SlotFacts, LenOf, PromisedCalls DEF LeftInv
  <2>2. promises[s][i][1] = CallAt(s) \/ promises[s][i][1] \in Over
    BY <2>1, OursOrOver
  <2> QED
    BY <2>1, <2>2 DEF Awaited, CallAt, Over
<1> QED
  BY <1>1, LeftInvHolds, PTL

(***************************************************************************)
(* How often commands run.                                                 *)
(***************************************************************************)
\* How often Redis may run a command again: a drop or a hang each lets ioredis
\* send what waits once more, bun's client of a pool never does.
Again == IF adapter = "bun" THEN 0 ELSE faults

\* No command waits in two places.
Single ==
    \A s, t \in Slots : link[s] # "none" /\ link[t] # "none" =>
        \A i \in 1..Len(promises[s]), j \in 1..Len(promises[t]) :
            promises[s][i] = promises[t][j] => s = t /\ i = j

\* Redis runs no command of a call that has no connection yet.
Begun ==
    \A x \in Commands : runs[x] > 0 =>
        x[1] <= calls /\ \A c \in Callers : pc[c] = "wait" => call[c] # x[1]

\* What is on the socket may run once more, and what has a reply did run; what
\* waits while the connection is gone has paid for its next run with a fault;
\* and the first command of a call ran, or waits.
RunsOK(s) ==
    /\ link[s] = "down" => adapter # "bun"
    /\ link[s] \in { "up", "hung" } =>
          /\ \A i \in 1..Len(sent[s]) : runs[sent[s][i]] <= Again
          /\ \A i \in 1..Len(replies[s]) : runs[replies[s][i][1]] >= 1
    /\ adapter # "bun" /\ link[s] \in { "hung", "down" } =>
          \A i \in 1..Len(promises[s]) : runs[promises[s][i]] <= faults
    /\ user[s] # Nobody =>
          \/ runs[<< CallAt(s), 1 >>] >= 1
          \/ \E i \in 1..Len(promises[s]) : promises[s][i] = << CallAt(s), 1 >>

RunsInv == LeftInv /\ Single /\ Begun /\ RunsAreBounded /\ \A s \in Slots : RunsOK(s)

\* A step that runs no command, and begins or ends calls.
NoRun ==
    /\ runs' = runs /\ adapter' = adapter
    /\ faults' \in Nat /\ faults <= faults'
    /\ calls' \in Nat /\ calls <= calls'
    /\ \A c \in Callers : pc'[c] = "wait" =>
          call'[c] > calls \/ (pc[c] = "wait" /\ call'[c] = call[c])

\* A call that succeeds now has run.
OkRan == \A n \in 1..MaxCalls : outcome'[n] = "ok" => outcome[n] = "ok" \/ runs[<< n, 1 >>] >= 1

\* A slot has its user, or loses it; and a slot that a step leaves alone.
SameUser(t) == user'[t] = Nobody \/ (user'[t] = user[t] /\ CallAt(t)' = CallAt(t))
Same(t) ==
    /\ link'[t] = link[t] /\ promises'[t] = promises[t]
    /\ sent'[t] = sent[t] /\ replies'[t] = replies[t]
    /\ SameUser(t)

\* The promises of a slot lose their first ones, if any.
Shortens(t) ==
    link'[t] # "none" =>
        \E k \in Nat : \A i \in 1..Len(promises'[t]) :
            /\ link[t] # "none" /\ i + k \in 1..Len(promises[t])
            /\ promises'[t][i] = promises[t][i + k]

\* The commands of a slot, and the counts.
LEMMA RunFacts ==
    ASSUME PoolInv, NEW s \in Slots
    PROVE  /\ \A i \in 1..Len(promises[s]) : promises[s][i] \in Commands
           /\ \A i \in 1..Len(sent[s]) : sent[s][i] \in Commands
           /\ \A i \in 1..Len(replies[s]) : replies[s][i][1] \in Commands
           /\ Len(promises[s]) \in Nat /\ Len(sent[s]) \in Nat /\ Len(replies[s]) \in Nat
           /\ \A x \in Commands : runs[x] \in Nat
           /\ faults \in Nat /\ Again \in Nat
<1>1. promises[s] \in Seq(Commands) /\ sent[s] \in Seq(Commands) /\ replies[s] \in Seq(Commands \X BOOLEAN)
  BY SlotFacts
<1>2. /\ \A i \in 1..Len(promises[s]) : promises[s][i] \in Commands
      /\ \A i \in 1..Len(sent[s]) : sent[s][i] \in Commands
      /\ \A i \in 1..Len(replies[s]) : replies[s][i] \in Commands \X BOOLEAN
      /\ Len(promises[s]) \in Nat /\ Len(sent[s]) \in Nat /\ Len(replies[s]) \in Nat
  BY <1>1, LenOf
<1>3. /\ \A x \in Commands : runs[x] \in Nat
      /\ faults \in Nat /\ Again \in Nat
  BY PoolAssumption DEF PoolInv, RestTypes, Again
<1> QED
  BY <1>2, <1>3

\* No promise appears twice by going.
LEMMA SingleStays ==
    ASSUME Single, \A t \in Slots : Shortens(t)
    PROVE  Single'
<1> SUFFICES ASSUME NEW s \in Slots, NEW t \in Slots, link'[s] # "none", link'[t] # "none",
                    NEW i \in 1..Len(promises'[s]), NEW j \in 1..Len(promises'[t]),
                    promises'[s][i] = promises'[t][j]
             PROVE  s = t /\ i = j
  BY DEF Single
<1>1. PICK k \in Nat : \A m \in 1..Len(promises'[s]) :
         /\ link[s] # "none" /\ m + k \in 1..Len(promises[s])
         /\ promises'[s][m] = promises[s][m + k]
  BY DEF Shortens
<1>2. PICK l \in Nat : \A m \in 1..Len(promises'[t]) :
         /\ link[t] # "none" /\ m + l \in 1..Len(promises[t])
         /\ promises'[t][m] = promises[t][m + l]
  BY DEF Shortens
<1>3. s = t
  <2>1. /\ i + k \in 1..Len(promises[s]) /\ j + l \in 1..Len(promises[t])
        /\ promises[s][i + k] = promises[t][j + l] /\ link[s] # "none" /\ link[t] # "none"
    BY <1>1, <1>2
  <2> QED
    BY <2>1 DEF Single
<1>4. i + k = j + k
  <2>1. /\ i + k \in 1..Len(promises[s]) /\ j + k \in 1..Len(promises[s])
        /\ promises[s][i + k] = promises[s][j + k] /\ link[s] # "none"
    BY <1>1, <1>3
  <2> QED
    BY <2>1 DEF Single
<1> QED
  BY <1>3, <1>4

\* A slot that a step leaves alone stays as it should be.
LEMMA SameKeeps ==
    ASSUME RunsInv, NoRun, NEW t \in Slots, Same(t)
    PROVE  RunsOK(t)' /\ Shortens(t)
<1>1. PoolInv /\ RunsOK(t)
  BY DEF RunsInv, LeftInv
<1>2. Again \in Nat /\ Again' \in Nat /\ Again <= Again'
  BY <1>1, RunFacts DEF NoRun, Again
<1>3. link[t] \in { "up", "hung" } =>
          /\ \A i \in 1..Len(sent[t]) : runs[sent[t][i]] <= Again'
          /\ \A i \in 1..Len(replies[t]) : runs[replies[t][i][1]] >= 1
  <2>1. link[t] \in { "up", "hung" } =>
            /\ \A i \in 1..Len(sent[t]) : runs[sent[t][i]] <= Again
            /\ \A i \in 1..Len(replies[t]) : runs[replies[t][i][1]] >= 1
    BY <1>1 DEF RunsOK
  <2>2. \A i \in 1..Len(sent[t]) : runs[sent[t][i]] \in Nat
    BY <1>1, RunFacts
  <2> QED
    BY <1>2, <2>1, <2>2
<1>4. adapter # "bun" /\ link[t] \in { "hung", "down" } =>
          \A i \in 1..Len(promises[t]) : runs[promises[t][i]] <= faults'
  BY <1>1, RunFacts DEF RunsOK, NoRun
<1>5. user'[t] # Nobody =>
          \/ runs[<< CallAt(t)', 1 >>] >= 1
          \/ \E i \in 1..Len(promises[t]) : promises[t][i] = << CallAt(t)', 1 >>
  BY <1>1 DEF RunsOK, Same, SameUser
<1>6. RunsOK(t)'
  BY <1>1, <1>3, <1>4, <1>5 DEF RunsOK, Same, NoRun
<1>7. ASSUME link'[t] # "none" PROVE Shortens(t)
  <2>1. \A i \in 1..Len(promises'[t]) : /\ link[t] # "none" /\ i + 0 \in 1..Len(promises[t])
                                        /\ promises'[t][i] = promises[t][i + 0]
    BY <1>7 DEF Same
  <2> QED
    BY <2>1 DEF Shortens
<1> QED
  BY <1>6, <1>7 DEF Shortens

\* A step that runs nothing, and what is left to show of it: its own slot.
LEMMA NoRunKeeps ==
    ASSUME RunsInv, LeftInv', NoRun, OkRan,
           \A t \in Slots : Same(t) \/ (RunsOK(t)' /\ Shortens(t))
    PROVE  RunsInv'
<1>1. \A t \in Slots : RunsOK(t)' /\ Shortens(t)
  BY SameKeeps
<1>2. Single'
  BY <1>1, SingleStays DEF RunsInv
<1>3. Begun'
  <2> SUFFICES ASSUME NEW x \in Commands, runs[x] > 0
               PROVE  /\ x[1] <= calls'
                      /\ \A c \in Callers : pc'[c] = "wait" => call'[c] # x[1]
    BY DEF Begun, NoRun
  <2>1. x[1] <= calls /\ \A c \in Callers : pc[c] = "wait" => call[c] # x[1]
    BY DEF RunsInv, Begun
  <2>2. x[1] \in Nat /\ calls \in Nat
    BY PoolAssumption DEF Commands, RunsInv, LeftInv, PoolInv, CallerInv
  <2>3. \A c \in Callers : pc'[c] = "wait" => call'[c] > calls \/ (pc[c] = "wait" /\ call'[c] = call[c])
    BY DEF NoRun
  <2>4. ASSUME NEW c \in Callers, pc'[c] = "wait" PROVE call'[c] # x[1]
    BY <2>1, <2>2, <2>3, <2>4
  <2> QED
    BY <2>1, <2>2, <2>4 DEF NoRun
<1>4. RunsAreBounded'
  <2> SUFFICES ASSUME NEW x \in Commands
               PROVE  /\ runs[x] <= 1 + IF adapter = "bun" THEN 0 ELSE faults'
                      /\ x[2] = 1 /\ outcome'[x[1]] = "ok" => runs[x] >= 1
    BY DEF RunsAreBounded, NoRun
  <2>1. /\ runs[x] <= 1 + IF adapter = "bun" THEN 0 ELSE faults
        /\ x[2] = 1 /\ outcome[x[1]] = "ok" => runs[x] >= 1
    BY DEF RunsInv, RunsAreBounded
  <2>2. runs[x] \in Nat /\ faults \in Nat
    BY DEF RunsInv, LeftInv, PoolInv, RestTypes
  <2>3. x[1] \in 1..MaxCalls /\ x = << x[1], x[2] >>
    BY DEF Commands
  <2> QED
    BY <2>1, <2>2, <2>3 DEF NoRun, OkRan
<1> QED
  BY <1>1, <1>2, <1>3, <1>4 DEF RunsInv

LEMMA FaultsGrow ==
    ASSUME PoolInv, Fault \/ UNCHANGED faults
    PROVE  faults \in Nat /\ faults' \in Nat /\ faults <= faults'
BY PoolAssumption DEF PoolInv, RestTypes, Fault

\* The callers learn nothing.
LEMMA QuietCallers ==
    ASSUME RunsInv, UNCHANGED << adapter, runs, pc, call, calls, left, outcome, user >>,
           Fault \/ UNCHANGED faults
    PROVE  /\ NoRun /\ OkRan
           /\ \A t \in Slots : SameUser(t) /\ user'[t] = user[t] /\ CallAt(t)' = CallAt(t)
<1>1. calls \in Nat /\ faults' \in Nat /\ faults <= faults'
  BY PoolAssumption, FaultsGrow DEF RunsInv, LeftInv, PoolInv, CallerInv
<1> QED
  BY <1>1 DEF NoRun, OkRan, SameUser, CallAt

\* A call ends: no other call notices.
LEMMA EndCallers ==
    ASSUME LeftInv, NEW c \in Callers, pc[c] # "idle", NEW how \in Outcomes, End(c, how),
           adapter' = adapter, runs' = runs, Fault \/ UNCHANGED faults
    PROVE  /\ NoRun
           /\ \A n \in 1..MaxCalls : outcome'[n] = outcome[n] \/ (n = call[c] /\ outcome'[n] = how)
           /\ how # "ok" => OkRan
           /\ \A t \in Slots : user'[t] = Nobody \/ (user'[t] = user[t] /\ user[t] # c) => SameUser(t)
           /\ Release(c) => \A t \in Slots : SameUser(t)
<1>1. /\ pc' = [pc EXCEPT ![c] = "idle"] /\ call' = [call EXCEPT ![c] = 0]
      /\ outcome' = [outcome EXCEPT ![call[c]] = how] /\ calls' = calls
  BY DEF End
<1>2. /\ pc \in [Callers -> { "idle", "wait", "use" }] /\ call \in [Callers -> 0..MaxCalls]
      /\ outcome \in [1..MaxCalls -> Outcomes] /\ user \in [Slots -> Callers \cup {Nobody}]
      /\ calls \in Nat /\ faults' \in Nat /\ faults <= faults'
  BY PoolAssumption, FaultsGrow DEF LeftInv, PoolInv, CallerInv
<1>3. /\ \A d \in Callers : d # c => pc'[d] = pc[d] /\ call'[d] = call[d]
      /\ pc'[c] = "idle"
  BY <1>1, <1>2
<1>4. NoRun
  BY <1>1, <1>2, <1>3 DEF NoRun
<1>5. \A n \in 1..MaxCalls : outcome'[n] = outcome[n] \/ (n = call[c] /\ outcome'[n] = how)
  BY <1>1, <1>2
<1>6. ASSUME NEW t \in Slots, user'[t] = Nobody \/ (user'[t] = user[t] /\ user[t] # c)
      PROVE  SameUser(t)
  <2>1. user[t] # Nobody /\ user[t] # c => call'[user[t]] = call[user[t]]
    BY <1>2, <1>3
  <2> QED
    BY <1>6, <2>1 DEF SameUser, CallAt
<1>7. ASSUME Release(c), NEW t \in Slots PROVE SameUser(t)
  <2>1. user'[t] = IF user[t] = c THEN Nobody ELSE user[t]
    BY <1>7 DEF Release
  <2> QED
    BY <1>6, <2>1
<1>8. how # "ok" => OkRan
  BY <1>5 DEF OkRan
<1> QED
  BY <1>4, <1>5, <1>6, <1>7, <1>8

\* A connection starts with nothing on it.
LEMMA ConnectRuns ==
    ASSUME RunsInv, LeftInv', NEW s \in Slots, Connect(s)
    PROVE  RunsInv'
<1>1. /\ link[s] = "none" /\ promises' = [promises EXCEPT ![s] = << >>]
      /\ sent' = [sent EXCEPT ![s] = << >>] /\ replies' = [replies EXCEPT ![s] = << >>]
      /\ link' = [link EXCEPT ![s] = "up"] \/ link' = [link EXCEPT ![s] = "refused"]
      /\ UNCHANGED << adapter, runs, pc, call, calls, left, outcome, user >>
      /\ Fault \/ UNCHANGED faults
  BY DEF Connect, config, caller
<1>2. NoRun /\ OkRan /\ \A t \in Slots : SameUser(t) /\ user'[t] = user[t]
  BY <1>1, QuietCallers
<1>3. /\ link'[s] \in { "up", "refused" } /\ promises'[s] = << >> /\ sent'[s] = << >> /\ replies'[s] = << >>
      /\ \A t \in Slots : t # s => /\ link'[t] = link[t] /\ promises'[t] = promises[t]
                                   /\ sent'[t] = sent[t] /\ replies'[t] = replies[t]
  BY <1>1 DEF RunsInv, LeftInv, PoolInv, WireTypes
<1>4. user'[s] = Nobody /\ 1..Len(<< >>) = {}
  <2>1. Len(<< >>) = 0
    BY LenOf, EmptySeq
  <2> QED
    BY <1>1, <1>2, <2>1 DEF RunsInv, LeftInv, LineOK
<1>5. RunsOK(s)' /\ Shortens(s)
  <2>1. RunsOK(s)'
    BY <1>3, <1>4 DEF RunsOK
  <2>2. \A i \in 1..Len(promises'[s]) : /\ link[s] # "none" /\ i + 0 \in 1..Len(promises[s])
                                        /\ promises'[s][i] = promises[s][i + 0]
    BY <1>3, <1>4
  <2>3. Shortens(s)
    BY <2>2 DEF Shortens
  <2> QED
    BY <2>1, <2>3
<1>6. \A t \in Slots : t # s => Same(t)
  BY <1>2, <1>3 DEF Same
<1> QED
  BY <1>2, <1>5, <1>6, NoRunKeeps

\* A connection is lost, by a fault that lets ioredis send again what waits, or
\* is found again by one that does.
LEMMA LinkRuns ==
    ASSUME RunsInv, LeftInv', NEW s \in Slots,
           Drop(s) \/ Detect(s) \/ Hang(s) \/ Reconnect(s) \/ GiveUp(s)
    PROVE  RunsInv'
<1>1. /\ UNCHANGED << adapter, runs, promises, pc, call, calls, left, outcome, user >>
      /\ Fault \/ UNCHANGED faults
  BY DEF Drop, Detect, Hang, Reconnect, GiveUp, SocketCloses, config, caller, wire
<1>2. /\ NoRun /\ OkRan
      /\ \A t \in Slots : SameUser(t) /\ user'[t] = user[t] /\ CallAt(t)' = CallAt(t)
  BY <1>1, QuietCallers
<1>3. PoolInv /\ RunsOK(s) /\ adapter \in Adapters
  BY DEF RunsInv, LeftInv, PoolInv, RestTypes
<1>4. /\ faults \in Nat /\ \A i \in 1..Len(promises[s]) : runs[promises[s][i]] \in Nat
      /\ \A i \in 1..Len(promises[s]) : promises[s][i] \in Commands
  BY <1>3, RunFacts
<1>5. user'[s] # Nobody =>
          \/ runs[<< CallAt(s)', 1 >>] >= 1
          \/ \E i \in 1..Len(promises[s]) : promises[s][i] = << CallAt(s)', 1 >>
  BY <1>2, <1>3 DEF RunsOK
<1>6. /\ \A t \in Slots : t # s => link'[t] = link[t] /\ sent'[t] = sent[t] /\ replies'[t] = replies[t]
      /\ link[s] # "none"
  BY <1>3 DEF Drop, Detect, Hang, Reconnect, GiveUp, SocketCloses, wire, PoolInv, WireTypes
<1>7. Shortens(s)
  <2>1. \A i \in 1..Len(promises'[s]) : /\ link[s] # "none" /\ i + 0 \in 1..Len(promises[s])
                                        /\ promises'[s][i] = promises[s][i + 0]
    BY <1>1, <1>6
  <2> QED
    BY <2>1 DEF Shortens
<1>8. RunsOK(s)'
  <2>1. ASSUME Drop(s) \/ Hang(s), adapter # "bun", NEW i \in 1..Len(promises[s])
        PROVE  runs[promises[s][i]] <= faults'
    <3>1. faults' = faults + 1
      BY <2>1 DEF Drop, Hang, Fault
    <3>2. runs[promises[s][i]] <= 1 + faults
      BY <1>4, <2>1 DEF RunsInv, RunsAreBounded
    <3> QED
      BY <1>4, <3>1, <3>2
  <2>2. CASE Drop(s) \/ Detect(s)
    <3>1. link'[s] = IF adapter = "bun" THEN "closed" ELSE "down"
      BY <1>3, <2>2 DEF Drop, Detect, SocketCloses, PoolInv, WireTypes
    <3>2. adapter # "bun" => \A i \in 1..Len(promises[s]) : runs[promises[s][i]] <= faults'
      BY <1>3, <2>1, <2>2 DEF Detect, RunsOK
    <3> QED
      BY <1>1, <1>5, <3>1, <3>2 DEF RunsOK
  <2>3. CASE Hang(s)
    <3>1. link[s] = "up" /\ link'[s] = "hung" /\ sent' = sent /\ replies' = replies
      BY <1>3, <2>3 DEF Hang, wire, PoolInv, WireTypes
    <3>2. Again \in Nat /\ Again' \in Nat /\ Again <= Again'
      BY <1>2, <1>4 DEF NoRun, Again
    <3>3. \A i \in 1..Len(sent[s]) : runs[sent[s][i]] \in Nat /\ runs[sent[s][i]] <= Again
      BY <1>3, <3>1, RunFacts DEF RunsOK
    <3>4. \A i \in 1..Len(sent[s]) : runs[sent[s][i]] <= Again'
      BY <3>2, <3>3
    <3>5. \A i \in 1..Len(replies[s]) : runs[replies[s][i][1]] >= 1
      BY <1>3, <3>1 DEF RunsOK
    <3>6. adapter # "bun" => \A i \in 1..Len(promises[s]) : runs[promises[s][i]] <= faults'
      BY <2>1, <2>3
    <3> QED
      BY <1>1, <1>5, <3>1, <3>4, <3>5, <3>6 DEF RunsOK
  <2>4. CASE Reconnect(s)
    <3>1. /\ link[s] = "down" /\ link'[s] = "up" /\ sent'[s] = promises[s]
          /\ replies'[s] = << >> /\ faults' = faults
      BY <1>3, <2>4, SlotFacts DEF Reconnect, PoolInv, WireTypes
    <3>2. adapter # "bun" /\ \A i \in 1..Len(promises[s]) : runs[promises[s][i]] <= faults
      BY <1>3, <3>1 DEF RunsOK
    <3>3. Again' = faults
      BY <1>1, <3>1, <3>2 DEF Again
    <3>4. 1..Len(<< >>) = {}
      <4>1. Len(<< >>) = 0
        BY LenOf, EmptySeq
      <4> QED
        BY <4>1
    <3> QED
      BY <1>1, <1>5, <3>1, <3>2, <3>3, <3>4 DEF RunsOK
  <2>5. CASE GiveUp(s)
    <3>1. link'[s] = "closed"
      BY <1>3, <2>5 DEF GiveUp, PoolInv, WireTypes
    <3> QED
      BY <1>1, <1>5, <3>1 DEF RunsOK
  <2> QED
    BY <2>2, <2>3, <2>4, <2>5
<1>9. \A t \in Slots : t # s => Same(t)
  BY <1>1, <1>2, <1>6 DEF Same
<1> QED
  BY <1>2, <1>7, <1>8, <1>9, NoRunKeeps

\* A call begins: Redis has not run its commands.
LEMMA BeginRuns ==
    ASSUME RunsInv, LeftInv', NEW c \in Callers, Begin(c)
    PROVE  RunsInv'
<1>1. /\ pc[c] = "idle" /\ calls' = calls + 1
      /\ pc' = [pc EXCEPT ![c] = "wait"] /\ call' = [call EXCEPT ![c] = calls + 1]
      /\ UNCHANGED << adapter, runs, faults, link, user, promises, sent, replies, outcome >>
  BY DEF Begin, config, wire
<1>2. /\ \A d \in Callers : call'[d] = IF d = c THEN calls + 1 ELSE call[d]
      /\ \A d \in Callers : d # c => pc'[d] = pc[d]
      /\ calls \in Nat /\ faults \in Nat /\ PoolInv
  BY <1>1, PoolAssumption DEF RunsInv, LeftInv, PoolInv, CallerInv, RestTypes
<1>3. NoRun /\ OkRan
  BY <1>1, <1>2 DEF NoRun, OkRan
<1>4. ASSUME NEW t \in Slots PROVE Same(t)
  <2>1. user[t] # Nobody => user[t] \in Callers /\ user[t] # c
    BY <1>1, <1>2, OursIsNat
  <2> QED
    BY <1>1, <1>2, <2>1 DEF Same, SameUser, CallAt
<1> QED
  BY <1>3, <1>4, NoRunKeeps

\* A call gives up.
LEMMA LeaveRuns ==
    ASSUME RunsInv, LeftInv', NEW c \in Callers, Timeout(c) \/ Interrupt(c)
    PROVE  RunsInv'
<1>1. /\ pc[c] # "idle" /\ End(c, "abandoned") /\ Release(c)
      /\ UNCHANGED << adapter, runs, link, promises, sent, replies >>
      /\ Fault \/ UNCHANGED faults
  BY DEF Timeout, Interrupt, Leave, config
<1>2. NoRun /\ OkRan /\ \A t \in Slots : SameUser(t)
  BY <1>1, EndCallers DEF RunsInv, Outcomes
<1> QED
  BY <1>1, <1>2, NoRunKeeps DEF Same

LEMMA TakeRefusedRuns ==
    ASSUME RunsInv, LeftInv', NEW c \in Callers, NEW s \in Slots, TakeRefused(c, s)
    PROVE  RunsInv'
<1>1. /\ link[s] = "refused" /\ link' = [link EXCEPT ![s] = "none"] /\ user[s] = Nobody
      /\ pc[c] = "wait" /\ End(c, "connection")
      /\ UNCHANGED << adapter, runs, faults, user, promises, sent, replies >>
  BY DEF TakeRefused, config, wire
<1>2. \A t \in Slots : user[t] # c
  BY <1>1, WaitingHoldsNothing DEF RunsInv, LeftInv, PoolInv
<1>3. NoRun /\ OkRan /\ \A t \in Slots : SameUser(t)
  BY <1>1, <1>2, EndCallers DEF RunsInv, Outcomes
<1>4. link'[s] = "none" /\ \A t \in Slots : t # s => link'[t] = link[t]
  BY <1>1 DEF RunsInv, LeftInv, PoolInv, WireTypes
<1>5. RunsOK(s)' /\ Shortens(s)
  BY <1>1, <1>4 DEF RunsOK, Shortens
<1> QED
  BY <1>1, <1>3, <1>4, <1>5, NoRunKeeps DEF Same

\* The commands that a caller puts on a connection: none ran, and none waits.
LEMMA TakenAreNew ==
    ASSUME RunsInv, NEW c \in Callers, pc[c] = "wait", NEW x \in Commands, x[1] = call[c]
    PROVE  /\ runs[x] = 0
           /\ \A t \in Slots : link[t] # "none" =>
                 \A i \in 1..Len(promises[t]) : promises[t][i] # x
<1>1. runs[x] = 0
  BY DEF RunsInv, Begun, LeftInv, PoolInv, RestTypes
<1>2. ASSUME NEW t \in Slots, link[t] # "none", NEW i \in 1..Len(promises[t]), promises[t][i] = x
      PROVE  FALSE
  <2>1. call[c] = CallAt(t) \/ call[c] \in Over
    BY <1>2, OursOrOver DEF RunsInv
  <2>2. call[c] \notin Over /\ call[c] # 0
    BY DEF Over, RunsInv, LeftInv, PoolInv, CallerInv
  <2>3. user[t] \in Callers /\ pc[user[t]] = "use" /\ call[user[t]] = call[c]
    BY <2>1, <2>2, OursIsNat DEF CallAt, RunsInv, LeftInv
  <2> QED
    BY <2>2, <2>3 DEF RunsInv, LeftInv, CallsInv
<1> QED
  BY <1>1, <1>2

\* A caller gets a connection and writes its commands to it.
LEMMA TakeRuns ==
    ASSUME RunsInv, LeftInv', NEW c \in Callers, NEW s \in Slots, Take(c, s)
    PROVE  RunsInv'
<1> USE PoolAssumption
<1> DEFINE p == promises[s]
           m == CommandsOf(c)
           q == promises[s] \o CommandsOf(c)
           w == sent[s] \o CommandsOf(c)
<1>1. /\ pc[c] = "wait" /\ user[s] = Nobody /\ link[s] \notin { "none", "refused" }
      /\ promises' = [promises EXCEPT ![s] = q]
      /\ sent' = IF link[s] \in { "up", "hung" } THEN [sent EXCEPT ![s] = w] ELSE sent
      /\ user' = [user EXCEPT ![s] = c] /\ pc' = [pc EXCEPT ![c] = "use"]
      /\ UNCHANGED << adapter, runs, faults, link, replies, call, calls, left, outcome >>
  BY SlotFacts DEF Take, config, RunsInv, LeftInv
<1>2. /\ promises'[s] = q /\ \A t \in Slots : t # s => promises'[t] = promises[t]
      /\ sent'[s] = IF link[s] \in { "up", "hung" } THEN w ELSE sent[s]
      /\ \A t \in Slots : t # s => sent'[t] = sent[t]
      /\ \A t \in Slots : user'[t] = IF t = s THEN c ELSE user[t]
      /\ \A d \in Callers : pc'[d] = IF d = c THEN "use" ELSE pc[d]
  BY <1>1 DEF RunsInv, LeftInv, PoolInv, WireTypes, CallerInv
<1>3. /\ PoolInv /\ RunsOK(s) /\ calls \in Nat /\ faults \in Nat
      /\ call[c] \in 1..MaxCalls /\ left[c] \in 1..MaxSize /\ MaxSize \in Nat
  BY <1>1, MaxSizeBounds DEF RunsInv, LeftInv, PoolInv, CallerInv, RestTypes
<1>4. NoRun /\ OkRan
  BY <1>1, <1>2, <1>3 DEF NoRun, OkRan
<1>5. /\ m \in Seq(Commands) /\ Len(m) = left[c]
      /\ \A i \in 1..Len(m) : m[i] = << call[c], i >> /\ m[i] \in Commands /\ m[i][1] = call[c]
  <2>1. m \in Seq(Commands)
    BY <1>1, <1>3, CommandsOfCall
  <2>2. m = [i \in 1..left[c] |-> << call[c], i >>]
    BY DEF CommandsOf
  <2>3. DOMAIN m = 1..Len(m) /\ Len(m) \in Nat /\ DOMAIN m = 1..left[c]
    BY <2>1, <2>2, LenOf
  <2>4. Len(m) = left[c]
    BY <1>3, <2>3
  <2>5. \A i \in 1..Len(m) : m[i] = << call[c], i >> /\ m[i] \in Commands
    BY <2>1, <2>2, <2>4, LenOf
  <2> QED
    BY <2>1, <2>4, <2>5
<1>6. /\ Len(q) = Len(p) + Len(m) /\ Len(p) \in Nat /\ Len(m) \in Nat
      /\ \A i \in 1..(Len(p) + Len(m)) : q[i] = IF i <= Len(p) THEN p[i] ELSE m[i - Len(p)]
      /\ Len(w) = Len(sent[s]) + Len(m) /\ Len(sent[s]) \in Nat
      /\ \A i \in 1..(Len(sent[s]) + Len(m)) :
            w[i] = IF i <= Len(sent[s]) THEN sent[s][i] ELSE m[i - Len(sent[s])]
  <2>1. p \in Seq(Commands) /\ sent[s] \in Seq(Commands)
    BY <1>3, SlotFacts
  <2>2. Len(p) \in Nat /\ Len(sent[s]) \in Nat /\ Len(m) \in Nat
    BY <1>5, <2>1, LenOf
  <2>3. /\ Len(q) = Len(p) + Len(m)
        /\ \A i \in 1..(Len(p) + Len(m)) : q[i] = IF i <= Len(p) THEN p[i] ELSE m[i - Len(p)]
    <3>1. p \in Seq(Commands) /\ m \in Seq(Commands)
      BY <1>5, <2>1
    <3> QED
      BY <3>1, ConcatProperties
  <2>4. /\ Len(w) = Len(sent[s]) + Len(m)
        /\ \A i \in 1..(Len(sent[s]) + Len(m)) :
              w[i] = IF i <= Len(sent[s]) THEN sent[s][i] ELSE m[i - Len(sent[s])]
    BY <1>5, <2>1, ConcatProperties
  <2> QED
    BY <2>2, <2>3, <2>4
<1> HIDE DEF p, m, q, w
\* A place in the new line is a place in the old one, or a new command.
<1>7. /\ \A i \in 1..Len(q) : \/ i \in 1..Len(p) /\ q[i] = p[i]
                              \/ i - Len(p) \in 1..Len(m) /\ q[i] = m[i - Len(p)]
      /\ \A i \in 1..Len(w) : \/ i \in 1..Len(sent[s]) /\ w[i] = sent[s][i]
                              \/ i - Len(sent[s]) \in 1..Len(m) /\ w[i] = m[i - Len(sent[s])]
  BY <1>6
<1>8. \A i \in 1..Len(m) : runs[m[i]] = 0
  BY <1>1, <1>5, TakenAreNew
<1>9. \A t \in Slots : t # s => Same(t)
  BY <1>1, <1>2 DEF Same, SameUser, CallAt
<1>10. \A t \in Slots : t # s => RunsOK(t)'
  BY <1>4, <1>9, SameKeeps
<1>11. RunsOK(s)'
  <2>1. Again \in Nat /\ Again' = Again
    BY <1>1, <1>3, RunFacts DEF Again
  <2>2. link[s] \in { "up", "hung" } => \A i \in 1..Len(w) : runs[w[i]] <= Again
    BY <1>3, <1>7, <1>8, <2>1 DEF RunsOK
  <2>3. adapter # "bun" /\ link[s] \in { "hung", "down" } => \A i \in 1..Len(q) : runs[q[i]] <= faults
    <3>1. ASSUME adapter # "bun", link[s] \in { "hung", "down" }, NEW i \in 1..Len(p)
          PROVE  runs[p[i]] <= faults
      BY <1>3, <3>1 DEF RunsOK, p
    <3>2. \A i \in 1..Len(m) : runs[m[i]] <= faults
      BY <1>3, <1>8
    <3> QED
      BY <1>7, <3>1, <3>2
  <2>4. \E i \in 1..Len(q) : q[i] = << CallAt(s)', 1 >>
    <3>1. CallAt(s)' = call[c] /\ Len(p) + 1 \in 1..Len(q) /\ q[Len(p) + 1] = m[1] /\ 1 \in 1..Len(m)
      BY <1>1, <1>2, <1>3, <1>5, <1>6 DEF CallAt
    <3> QED
      BY <1>5, <3>1
  <2> QED
    BY <1>1, <1>2, <1>3, <2>1, <2>2, <2>3, <2>4 DEF RunsOK
<1>12. Single'
  <2> SUFFICES ASSUME NEW t \in Slots, NEW u \in Slots, link[t] # "none", link[u] # "none",
                      NEW i \in 1..Len(promises'[t]), NEW j \in 1..Len(promises'[u]),
                      promises'[t][i] = promises'[u][j]
               PROVE  t = u /\ i = j
    BY <1>1 DEF Single
  <2>1. ASSUME NEW k \in 1..Len(m), NEW v \in Slots, link[v] # "none", NEW h \in 1..Len(promises[v])
        PROVE  promises[v][h] # m[k]
    BY <1>1, <1>5, <2>1, TakenAreNew
  <2>2. CASE t # s /\ u # s
    BY <1>2, <2>2 DEF RunsInv, Single
  <2>3. ASSUME NEW v \in Slots, v # s, link[v] # "none",
               NEW h \in 1..Len(promises[v]), NEW k \in 1..Len(q), promises[v][h] = q[k]
        PROVE  FALSE
    <3>1. CASE k \in 1..Len(p) /\ q[k] = p[k]
      BY <1>1, <2>3, <3>1 DEF RunsInv, Single, p
    <3>2. CASE k - Len(p) \in 1..Len(m) /\ q[k] = m[k - Len(p)]
      BY <2>1, <2>3, <3>2
    <3> QED
      BY <1>7, <3>1, <3>2
  <2>4. CASE t = s /\ u = s
    <3>1. /\ i \in 1..Len(q) /\ j \in 1..Len(q) /\ q[i] = q[j]
      BY <1>2, <2>4
    <3>2. CASE i \in 1..Len(p) /\ q[i] = p[i] /\ j \in 1..Len(p) /\ q[j] = p[j]
      BY <1>1, <2>4, <3>1, <3>2 DEF RunsInv, Single, p
    <3>3. CASE /\ i - Len(p) \in 1..Len(m) /\ q[i] = m[i - Len(p)]
               /\ j - Len(p) \in 1..Len(m) /\ q[j] = m[j - Len(p)]
      <4>1. i - Len(p) = j - Len(p)
        <5>1. << call[c], i - Len(p) >> = << call[c], j - Len(p) >>
          BY <1>5, <3>1, <3>3
        <5> QED
          BY <5>1
      <4> QED
        BY <1>6, <2>4, <3>1, <4>1
    <3>4. ~(i \in 1..Len(p) /\ q[i] = p[i] /\ j - Len(p) \in 1..Len(m) /\ q[j] = m[j - Len(p)])
      BY <1>1, <2>1, <3>1 DEF p
    <3>5. ~(j \in 1..Len(p) /\ q[j] = p[j] /\ i - Len(p) \in 1..Len(m) /\ q[i] = m[i - Len(p)])
      BY <1>1, <2>1, <3>1 DEF p
    <3> QED
      BY <1>7, <3>1, <3>2, <3>3, <3>4, <3>5
  <2>5. ~(t = s /\ u # s)
    BY <1>2, <2>3
  <2>6. ~(t # s /\ u = s)
    BY <1>2, <2>3
  <2> QED
    BY <2>2, <2>4, <2>5, <2>6
<1>13. Begun' /\ RunsAreBounded'
  <2>1. Begun'
    BY <1>1, <1>2 DEF RunsInv, Begun
  <2>2. RunsAreBounded'
    BY <1>1 DEF RunsInv, RunsAreBounded
  <2> QED
    BY <2>1, <2>2
<1> QED
  BY <1>10, <1>11, <1>12, <1>13 DEF RunsInv

\* A reply, or a command on the socket, is that of a promise.
LEMMA InPlace ==
    ASSUME PoolInv, NEW s \in Slots, link[s] \in { "up", "hung" }
    PROVE  /\ Len(promises[s]) = Len(replies[s]) + Len(sent[s])
           /\ \A i \in 1..Len(replies[s]) : i \in 1..Len(promises[s]) /\ promises[s][i] = replies[s][i][1]
           /\ \A i \in 1..Len(sent[s]) : /\ Len(replies[s]) + i \in 1..Len(promises[s])
                                         /\ promises[s][Len(replies[s]) + i] = sent[s][i]
<1> DEFINE n == Len(promises[s])
           m == Len(replies[s])
           k == Len(sent[s])
<1>1. Matches(promises[s], replies[s], sent[s])
  BY SlotFacts, MatchesFromConcat
<1>2. m \in Nat /\ k \in Nat /\ n = m + k
  BY <1>1, RunFacts DEF Matches
<1>3. /\ \A i \in 1..m : promises[s][i] = replies[s][i][1]
      /\ \A i \in 1..k : promises[s][m + i] = sent[s][i]
  BY <1>1 DEF Matches
<1> HIDE DEF n, m, k
<1>4. (\A i \in 1..m : i \in 1..n) /\ (\A i \in 1..k : m + i \in 1..n)
  BY <1>2
<1> QED
  BY <1>2, <1>3, <1>4 DEF n, m, k

\* Redis runs the first command of a socket, which waits nowhere else.
LEMMA RunRuns ==
    ASSUME RunsInv, LeftInv', NEW s \in Slots, Run(s)
    PROVE  RunsInv'
<1> DEFINE x == Head(sent[s])
           r == replies[s]
           q == Tail(sent[s])
<1>1. PICK ok \in BOOLEAN : replies' = [replies EXCEPT ![s] = Append(r, << x, ok >>)]
  BY SlotFacts DEF Run, RunsInv, LeftInv
<1>2. /\ link[s] = "up" /\ sent[s] # << >>
      /\ runs' = [runs EXCEPT ![x] = @ + 1] /\ sent' = [sent EXCEPT ![s] = q]
      /\ UNCHANGED << adapter, faults, link, promises, user, pc, call, calls, left, outcome >>
  BY SlotFacts DEF Run, config, caller, RunsInv, LeftInv
<1>3. /\ PoolInv /\ Again \in Nat /\ Again' = Again
      /\ \A t \in Slots : RunsOK(t) /\ CallAt(t)' = CallAt(t) /\ user'[t] = user[t]
  <2>1. PoolInv
    BY DEF RunsInv, LeftInv
  <2> QED
    BY <1>2, <2>1, RunFacts DEF RunsInv, Again, CallAt
<1>4. /\ x = sent[s][1] /\ x \in Commands /\ 1 \in 1..Len(sent[s]) /\ Len(q) = Len(sent[s]) - 1
      /\ \A i \in 1..Len(q) : q[i] = sent[s][i + 1] /\ i + 1 \in 1..Len(sent[s])
  <2>1. sent[s] \in Seq(Commands)
    BY <1>3, SlotFacts
  <2>2. /\ x = sent[s][1] /\ x \in Commands /\ Len(q) = Len(sent[s]) - 1
        /\ \A i \in 1..Len(q) : q[i] = sent[s][i + 1]
    BY <1>2, <2>1, HeadTailProperties
  <2>3. Len(sent[s]) \in Nat /\ Len(sent[s]) # 0
    BY <1>2, <2>1, LenOf
  <2> QED
    BY <2>2, <2>3
<1>5. /\ r \in Seq(Commands \X BOOLEAN) /\ << x, ok >> \in Commands \X BOOLEAN /\ Len(r) \in Nat
  BY <1>3, <1>4, SlotFacts, RunFacts
<1>6. /\ Len(Append(r, << x, ok >>)) = Len(r) + 1
      /\ Append(r, << x, ok >>)[Len(r) + 1] = << x, ok >>
      /\ \A i \in 1..Len(r) : Append(r, << x, ok >>)[i] = r[i]
  BY <1>5, AppendProperties
<1>7. /\ sent'[s] = q /\ replies'[s] = Append(r, << x, ok >>)
      /\ \A t \in Slots : t # s => sent'[t] = sent[t] /\ replies'[t] = replies[t]
  BY <1>1, <1>2, <1>3 DEF PoolInv, WireTypes
<1>8. /\ Len(r) + 1 \in 1..Len(promises[s]) /\ promises[s][Len(r) + 1] = x
      /\ runs[x] <= Again
  BY <1>2, <1>3, <1>4, InPlace DEF RunsOK
<1>9. /\ runs'[x] = runs[x] + 1
      /\ \A y \in Commands : /\ runs[y] \in Nat /\ runs'[y] \in Nat /\ runs'[y] >= runs[y]
                             /\ y # x => runs'[y] = runs[y]
  <2>1. runs \in [Commands -> Nat]
    BY <1>3 DEF PoolInv, RestTypes
  <2> QED
    BY <1>2, <1>4, <2>1
<1>10. \A t \in Slots : link[t] # "none" => \A i \in 1..Len(promises[t]) :
          promises[t][i] = x => t = s /\ i = Len(r) + 1
  BY <1>2, <1>8 DEF RunsInv, Single
<1> HIDE DEF x, r, q
<1>11. ASSUME NEW t \in Slots PROVE RunsOK(t)'
  <2>1. RunsOK(t)
    BY <1>3
  <2>2. adapter # "bun" /\ link[t] \in { "hung", "down" } =>
           \A i \in 1..Len(promises[t]) : runs'[promises[t][i]] <= faults
    <3>1. ASSUME link[t] \in { "hung", "down" }, NEW i \in 1..Len(promises[t])
          PROVE  runs'[promises[t][i]] = runs[promises[t][i]]
      <4>1. promises[t][i] # x /\ promises[t][i] \in Commands
        BY <1>2, <1>3, <1>10, <3>1, RunFacts
      <4> QED
        BY <1>9, <4>1
    <3> QED
      BY <2>1, <3>1 DEF RunsOK
  <2>3. user[t] # Nobody =>
           \/ runs'[<< CallAt(t), 1 >>] >= 1
           \/ \E i \in 1..Len(promises[t]) : promises[t][i] = << CallAt(t), 1 >>
    <3>1. user[t] # Nobody => << CallAt(t), 1 >> \in Commands
      BY <1>3, OursIsNat, MaxSizeBounds DEF Commands
    <3> QED
      BY <1>9, <2>1, <3>1 DEF RunsOK
  <2>4. CASE t # s
    <3>1. ASSUME link[t] \in { "up", "hung" }, NEW i \in 1..Len(sent[t])
          PROVE  runs'[sent[t][i]] <= Again
      <4>1. sent[t][i] # x
        <5>1. /\ Len(replies[t]) + i \in 1..Len(promises[t])
              /\ promises[t][Len(replies[t]) + i] = sent[t][i]
          BY <1>3, <3>1, InPlace
        <5> QED
          BY <1>10, <2>4, <3>1, <5>1
      <4>2. sent[t][i] \in Commands
        BY <1>3, RunFacts
      <4> QED
        BY <1>9, <2>1, <3>1, <4>1, <4>2 DEF RunsOK
    <3>2. ASSUME link[t] \in { "up", "hung" }, NEW i \in 1..Len(replies[t])
          PROVE  runs'[replies[t][i][1]] >= 1
      <4>1. replies[t][i][1] \in Commands
        BY <1>3, RunFacts
      <4> QED
        BY <1>9, <2>1, <3>2, <4>1 DEF RunsOK
    <3> QED
      BY <1>2, <1>3, <1>7, <2>1, <2>2, <2>3, <2>4, <3>1, <3>2 DEF RunsOK
  <2>5. CASE t = s
    <3>1. ASSUME NEW i \in 1..Len(q) PROVE runs'[q[i]] <= Again
      <4>1. q[i] = sent[s][i + 1] /\ i + 1 \in 1..Len(sent[s]) /\ q[i] \in Commands
        BY <1>3, <1>4, RunFacts
      <4>2. q[i] # x
        <5>1. /\ Len(r) + (i + 1) \in 1..Len(promises[s])
              /\ promises[s][Len(r) + (i + 1)] = q[i]
          BY <1>2, <1>3, <4>1, InPlace DEF r
        <5> QED
          BY <1>2, <1>5, <1>10, <5>1
      <4>3. runs[q[i]] <= Again
        BY <1>2, <2>1, <2>5, <4>1 DEF RunsOK
      <4> QED
        BY <1>9, <4>1, <4>2, <4>3
    <3>2. ASSUME NEW i \in 1..(Len(r) + 1) PROVE runs'[replies'[s][i][1]] >= 1
      <4>1. CASE i = Len(r) + 1
        <5>1. replies'[s][i][1] = x
          BY <1>6, <1>7, <4>1
        <5> QED
          BY <1>4, <1>9, <5>1
      <4>2. CASE i # Len(r) + 1
        <5>1. i \in 1..Len(r) /\ replies'[s][i] = r[i]
          BY <1>5, <1>6, <1>7, <4>2
        <5>2. r[i][1] \in Commands /\ runs[r[i][1]] >= 1
          BY <1>2, <1>3, <5>1, RunFacts DEF RunsOK, r
        <5> QED
          BY <1>9, <5>1, <5>2
      <4> QED
        BY <4>1, <4>2
    <3>3. link'[s] = "up" /\ Len(replies'[s]) = Len(r) + 1
      BY <1>2, <1>6, <1>7
    <3>4. user'[s] = user[s] /\ CallAt(s)' = CallAt(s) /\ Again' = Again
      BY <1>3
    <3> QED
      BY <1>2, <1>7, <2>3, <2>5, <3>1, <3>2, <3>3, <3>4 DEF RunsOK
  <2> QED
    BY <2>4, <2>5
<1>12. Single'
  BY <1>2 DEF RunsInv, Single
<1>13. Begun'
  <2>1. x[1] <= calls /\ \A c \in Callers : pc[c] = "wait" => call[c] # x[1]
    <3>1. x[1] = CallAt(s) \/ x[1] \in Over
      BY <1>2, <1>8, OursOrOver DEF RunsInv
    <3>2. CallAt(s) <= calls
      BY <1>3, OursIsNat, PoolAssumption DEF CallAt, RunsInv, LeftInv, CallsInv, PoolInv, CallerInv
    <3>3. \A n \in Over : n <= calls
      BY DEF Over
    <3>4. \A c \in Callers : pc[c] = "wait" => call[c] # x[1]
      BY <1>2, <1>4, <1>8, TakenAreNew
    <3> QED
      BY <3>1, <3>2, <3>3, <3>4
  <2>2. ASSUME NEW y \in Commands, runs'[y] > 0
        PROVE  y[1] <= calls /\ \A c \in Callers : pc[c] = "wait" => call[c] # y[1]
    <3>1. CASE y = x
      BY <2>1, <3>1
    <3>2. CASE y # x
      BY <1>9, <2>2, <3>2 DEF RunsInv, Begun
    <3> QED
      BY <3>1, <3>2
  <2> QED
    BY <1>2, <2>2 DEF Begun
<1>14. RunsAreBounded'
  <2>1. ASSUME NEW y \in Commands
        PROVE  /\ runs'[y] <= 1 + Again
               /\ y[2] = 1 /\ outcome[y[1]] = "ok" => runs'[y] >= 1
    <3>1. runs[y] <= 1 + Again /\ (y[2] = 1 /\ outcome[y[1]] = "ok" => runs[y] >= 1)
      BY DEF RunsInv, RunsAreBounded, Again
    <3> QED
      BY <1>3, <1>4, <1>8, <1>9, <3>1
  <2> QED
    BY <1>2, <2>1 DEF RunsAreBounded, Again
<1> QED
  BY <1>11, <1>12, <1>13, <1>14 DEF RunsInv

\* A reply settles the first promise: what succeeds with it has run.
LEMMA ReceiveRuns ==
    ASSUME RunsInv, LeftInv', NEW s \in Slots, Receive(s)
    PROVE  RunsInv'
<1> USE PoolAssumption
<1> DEFINE p == promises[s]
           q == Tail(promises[s])
           r == Tail(replies[s])
           x == Head(promises[s])
           ok == Head(replies[s])[2]
           c == user[s]
<1>1. /\ link[s] = "up" /\ replies[s] # << >> /\ Settle(s, x, ok)
      /\ promises' = [promises EXCEPT ![s] = q] /\ replies' = [replies EXCEPT ![s] = r]
      /\ UNCHANGED << adapter, runs, faults, link, sent >>
  BY SlotFacts DEF Receive, config, RunsInv, LeftInv
<1>2. PoolInv /\ LeftInv /\ RunsOK(s) /\ LineOK(s)
  BY DEF RunsInv, LeftInv
<1>3. /\ p \in Seq(Commands) /\ p # << >> /\ x = p[1] /\ x \in Commands
      /\ Len(p) \in Nat /\ Len(p) >= 1 /\ Len(q) = Len(p) - 1
      /\ \A i \in 1..Len(q) : q[i] = p[i + 1]
  <2>1. InLine(Commands, promises[s], replies[s], sent[s])
    BY <1>1, <1>2, SlotFacts DEF InLine
  <2>2. p \in Seq(Commands) /\ p # << >>
    BY <1>1, <1>2, <2>1, ReceiveInLine, SlotFacts
  <2> QED
    BY <2>2, HeadTailProperties, LenOf
<1>4. /\ Len(replies[s]) \in Nat /\ Len(replies[s]) >= 1 /\ Len(r) = Len(replies[s]) - 1
      /\ \A i \in 1..Len(r) : r[i] = replies[s][i + 1] /\ i + 1 \in 1..Len(replies[s])
  <2>1. replies[s] \in Seq(Commands \X BOOLEAN)
    BY <1>2, SlotFacts
  <2>2. Len(replies[s]) \in Nat /\ Len(replies[s]) # 0
    BY <1>1, <2>1, LenOf
  <2>3. Len(r) = Len(replies[s]) - 1 /\ \A i \in 1..Len(r) : r[i] = replies[s][i + 1]
    BY <1>1, <2>1, HeadTailProperties
  <2> QED
    BY <2>2, <2>3
<1>5. /\ promises'[s] = q /\ replies'[s] = r
      /\ \A t \in Slots : t # s => promises'[t] = promises[t] /\ replies'[t] = replies[t]
  BY <1>1, <1>2 DEF PoolInv, WireTypes
\* The command that the reply answers ran.
<1>6. runs[x] >= 1 /\ runs[x] \in Nat
  <2>1. 1 \in 1..Len(replies[s]) /\ p[1] = replies[s][1][1]
    <3>1. 1 \in 1..Len(replies[s])
      BY <1>4
    <3>2. \A i \in 1..Len(replies[s]) : promises[s][i] = replies[s][i][1]
      BY <1>1, <1>2, InPlace
    <3> QED
      BY <3>1, <3>2
  <2> QED
    BY <1>1, <1>2, <1>3, <2>1, RunFacts DEF RunsOK
\* So the first command of the user ran, or still waits.
<1>7. ASSUME c # Nobody
      PROVE  \/ runs[<< CallAt(s), 1 >>] >= 1
             \/ \E i \in 1..Len(q) : q[i] = << CallAt(s), 1 >>
  <2>1. \/ runs[<< CallAt(s), 1 >>] >= 1
        \/ \E i \in 1..Len(p) : p[i] = << CallAt(s), 1 >>
    BY <1>2, <1>7 DEF RunsOK
  <2>2. ASSUME NEW i \in 1..Len(p), p[i] = << CallAt(s), 1 >>, i # 1
        PROVE  \E j \in 1..Len(q) : q[j] = << CallAt(s), 1 >>
    <3>1. i - 1 \in 1..Len(q) /\ (i - 1) + 1 = i
      BY <1>3, <2>2
    <3>2. q[i - 1] = << CallAt(s), 1 >>
      BY <1>3, <2>2, <3>1
    <3> QED
      BY <3>1, <3>2
  <2> QED
    BY <1>3, <1>6, <2>1, <2>2
<1> HIDE DEF p, q, r, x, ok, c
<1>8. NoRun /\ OkRan /\ \A t \in Slots : SameUser(t)
  <2>1. CASE ~Awaited(s, x)
    <3>1. UNCHANGED << pc, call, calls, left, outcome, user >>
      BY <1>1, <2>1 DEF Settle, caller
    <3> QED
      BY <1>1, <3>1, QuietCallers
  <2>2. CASE Awaited(s, x)
    <3>1. /\ Count(c, ok, FailsAtOnce) /\ c # Nobody /\ c \in Callers /\ pc[c] = "use"
          /\ Ours(s) = left[c] /\ CallAt(s) = call[c] /\ call[c] = p[1][1]
          /\ call[c] \in 1..MaxCalls
      BY <1>1, <1>2, <1>3, <2>2, OursIsNat DEF Settle, Awaited, c
    <3>2. CASE End(c, "command") /\ Release(c)
      BY <1>1, <1>2, <3>1, <3>2, EndCallers DEF Outcomes
    <3>3. CASE left[c] = 1 /\ End(c, "ok") /\ Release(c)
      <4>1. InTurn(p, call[c], 1, Over)
        BY <1>1, <1>2, <3>1, <3>3 DEF LineOK, p
      <4>2. call[c] \notin Over
        BY <3>1 DEF Over
      <4>3. 1 > Len(p) - 1
        BY <1>3, <3>1, <4>1, <4>2 DEF InTurn
      <4>4. 1..Len(q) = {}
        BY <1>3, <4>3
      <4>5. runs[<< call[c], 1 >>] >= 1
        BY <1>7, <3>1, <4>4
      <4>6. /\ NoRun /\ \A t \in Slots : SameUser(t)
            /\ \A n \in 1..MaxCalls : outcome'[n] = outcome[n] \/ (n = call[c] /\ outcome'[n] = "ok")
        BY <1>1, <1>2, <3>1, <3>3, EndCallers DEF Outcomes
      <4> QED
        BY <4>5, <4>6 DEF OkRan
    <3>4. CASE /\ outcome' = outcome \/ outcome' = [outcome EXCEPT ![call[c]] = "command"]
               /\ UNCHANGED << pc, call, calls, user >>
      <4>1. \A n \in 1..MaxCalls : outcome'[n] = outcome[n] \/ outcome'[n] = "command"
        BY <1>2, <3>1, <3>4 DEF PoolInv, CallerInv
      <4>2. OkRan
        BY <4>1 DEF OkRan
      <4>3. NoRun
        BY <1>1, <1>2, <3>4 DEF NoRun, PoolInv, CallerInv, RestTypes
      <4>4. \A t \in Slots : SameUser(t)
        BY <3>4 DEF SameUser, CallAt
      <4> QED
        BY <4>2, <4>3, <4>4
    <3> QED
      BY <3>1, <3>2, <3>3, <3>4 DEF Count
  <2> QED
    BY <2>1, <2>2
<1>9. RunsOK(s)'
  <2>1. \A i \in 1..Len(sent[s]) : runs[sent[s][i]] <= Again
    BY <1>1, <1>2 DEF RunsOK
  <2>2. \A i \in 1..Len(r) : runs[r[i][1]] >= 1
    BY <1>1, <1>2, <1>4 DEF RunsOK
  <2>3. user'[s] # Nobody => user'[s] = c /\ CallAt(s)' = CallAt(s)
    BY <1>8 DEF SameUser, c
  <2>4. Again' = Again
    BY <1>1 DEF Again
  <2> QED
    BY <1>1, <1>5, <1>7, <2>1, <2>2, <2>3, <2>4 DEF RunsOK
<1>10. Shortens(s)
  <2>1. \A i \in 1..Len(promises'[s]) : /\ link[s] # "none" /\ i + 1 \in 1..Len(promises[s])
                                        /\ promises'[s][i] = promises[s][i + 1]
    <3>1. \A i \in 1..Len(q) : i + 1 \in 1..Len(p)
      BY <1>3
    <3> QED
      BY <1>1, <1>3, <1>5, <3>1 DEF p
  <2> QED
    BY <2>1 DEF Shortens
<1> QED
  BY <1>1, <1>5, <1>8, <1>9, <1>10, NoRunKeeps DEF Same

\* A client that rejects what its user waits for.
LEMMA RejectCallers ==
    ASSUME RunsInv, NEW s \in Slots, RejectCalls(s), UNCHANGED << adapter, runs, faults >>
    PROVE  /\ NoRun /\ OkRan /\ user'[s] = Nobody /\ \A t \in Slots : SameUser(t)
           /\ link'[s] = link[s] \/ link'[s] = "none"
           /\ \A t \in Slots : t # s => link'[t] = link[t]
<1> DEFINE c == user[s]
<1>1. LeftInv /\ PoolInv /\ CallerInv
  BY DEF RunsInv, LeftInv, PoolInv
<1>2. user' = [user EXCEPT ![s] = Nobody] /\ user'[s] = Nobody
  BY <1>1, RejectCallsKeeps DEF RejectCalls
<1>3. /\ link'[s] = link[s] \/ link'[s] = "none"
      /\ \A t \in Slots : t # s => link'[t] = link[t]
  BY <1>1, RejectCallsKeeps DEF PoolInv, WireTypes
<1>4. CASE c = Nobody
  <2>1. UNCHANGED << pc, call, calls, left, outcome, user >>
    BY <1>1, <1>2, <1>4 DEF RejectCalls, caller, CallerInv
  <2> QED
    BY <1>2, <1>3, <2>1, QuietCallers
<1>5. CASE c # Nobody
  <2>1. c \in Callers /\ pc[c] = "use" /\ \A t \in Slots : user[t] = c <=> t = s
    BY <1>1, <1>5, UserHolds
  <2>2. \E how \in { "command", "connection" } : End(c, how)
    BY <1>5 DEF RejectCalls, Invalidate
  <2>3. Release(c)
    BY <1>1, <1>2, <2>1 DEF Release, CallerInv
  <2> HIDE DEF c
  <2>4. NoRun /\ OkRan /\ \A t \in Slots : SameUser(t)
    BY <1>1, <2>1, <2>2, <2>3, EndCallers DEF Outcomes
  <2> QED
    BY <1>2, <1>3, <2>4
<1> QED
  BY <1>4, <1>5

\* What the client rejects has run as often as it has; what it keeps stays.
LEMMA RejectRuns ==
    ASSUME RunsInv, LeftInv', NEW s \in Slots, Reject(s) \/ AbortPipeline(s)
    PROVE  RunsInv'
<1> DEFINE p == promises[s]
<1>1. /\ link[s] \in { "down", "closed" } /\ UNCHANGED << adapter, runs, faults, sent, replies >>
      /\ \/ RejectCalls(s)
         \/ AbortPipeline(s) /\ UNCHANGED << pc, call, calls, left, outcome, user, link >>
  BY DEF Reject, AbortPipeline, config, caller
<1>2. PoolInv /\ RunsOK(s)
  BY DEF RunsInv, LeftInv
<1>3. /\ NoRun /\ OkRan /\ \A t \in Slots : SameUser(t)
      /\ link'[s] = link[s] \/ link'[s] = "none"
      /\ \A t \in Slots : t # s => link'[t] = link[t]
      /\ user'[s] = Nobody \/ (AbortPipeline(s) /\ user'[s] = user[s] /\ CallAt(s)' = CallAt(s)
                               /\ ~Awaited(s, Head(p)))
  <2>1. CASE RejectCalls(s)
    BY <1>1, <2>1, RejectCallers
  <2>2. CASE AbortPipeline(s) /\ UNCHANGED << pc, call, calls, left, outcome, user, link >>
    <3>1. Awaited(s, Head(p)) => user'[s] = Nobody
      BY <1>2, <2>2 DEF AbortPipeline, RejectCalls, PoolInv, CallerInv
    <3>2. NoRun /\ OkRan /\ \A t \in Slots : SameUser(t)
      BY <1>1, <2>2, QuietCallers
    <3> QED
      BY <2>2, <3>1, <3>2 DEF CallAt
  <2> QED
    BY <1>1, <2>1, <2>2
\* The promises that stay are the last ones, and those of the user are among them.
<1>4. PICK n \in Nat :
         /\ \A i \in 1..Len(promises'[s]) : i + n \in 1..Len(p) /\ promises'[s][i] = p[i + n]
         /\ user'[s] # Nobody => \A i \in 1..Len(p) :
               p[i][1] = CallAt(s) => i - n \in 1..Len(promises'[s])
  <2>1. CASE Reject(s)
    <3>1. promises'[s] = << >>
      BY <1>2, <2>1 DEF Reject, PoolInv, WireTypes
    <3>2. Len(<< >>) = 0 /\ 1..0 = {}
      BY LenOf, EmptySeq
    <3>3. user'[s] = Nobody
      BY <1>1, <2>1, RejectCallers DEF Reject
    <3> QED
      BY <3>1, <3>2, <3>3
  <2>2. CASE AbortPipeline(s)
    <3>1. PICK n \in DOMAIN p :
             /\ \A i \in DOMAIN p : i <= n <=> p[i][1] = Head(p)[1]
             /\ promises' = [promises EXCEPT ![s] = SubSeq(p, n + 1, Len(p))]
      BY <2>2 DEF AbortPipeline
    <3> DEFINE q == SubSeq(promises[s], n + 1, Len(promises[s]))
    <3>2. /\ p \in Seq(Commands) /\ Len(p) \in Nat /\ DOMAIN p = 1..Len(p)
          /\ \A i \in 1..Len(p) : p[i] \in Commands
      BY <1>2, SlotFacts, LenOf
    <3>3. n \in Nat /\ n >= 1 /\ n <= Len(p)
      BY <3>2
    <3>4. Len(q) = Len(p) - n /\ \A i \in 1..Len(q) : q[i] = p[i + n]
      <4>1. /\ n + 1 \in Int /\ Len(p) \in Int /\ n + 1 >= 1
            /\ \A i \in (n + 1)..Len(p) : p[i] \in Commands
        <5>1. (n + 1)..Len(p) \subseteq 1..Len(p)
          BY <3>2, <3>3
        <5> QED
          BY <3>2, <3>3, <5>1
      <4>2. /\ Len(q) = IF n + 1 <= Len(p) THEN Len(p) - (n + 1) + 1 ELSE 0
            /\ \A i \in 1..(Len(p) - (n + 1) + 1) : q[i] = p[(n + 1) + i - 1]
        BY <4>1, SubSeqProperties
      <4>3. Len(p) - (n + 1) + 1 = Len(p) - n
        BY <3>2, <3>3
      <4>4. Len(q) = Len(p) - n
        BY <3>2, <3>3, <4>2, <4>3
      <4>5. \A i \in 1..Len(q) : (n + 1) + i - 1 = i + n
        BY <3>3
      <4> QED
        BY <4>2, <4>3, <4>4, <4>5
    <3>5. promises'[s] = q
      BY <1>2, <3>1 DEF PoolInv, WireTypes
    <3> HIDE DEF p, q
    <3>6. \A i \in 1..Len(q) : i + n \in 1..Len(p)
      BY <3>2, <3>3, <3>4
    <3>7. ASSUME user'[s] # Nobody, NEW i \in 1..Len(p), p[i][1] = CallAt(s)
          PROVE  i - n \in 1..Len(q)
      <4>1. p[i][1] # Head(p)[1]
        BY <1>3, <3>7 DEF Awaited, CallAt
      <4>2. ~(i <= n)
        BY <3>1, <3>2, <3>7, <4>1
      <4> QED
        BY <3>2, <3>3, <3>4, <4>2
    <3> QED
      BY <3>3, <3>4, <3>5, <3>6, <3>7
  <2> QED
    BY <2>1, <2>2
<1>5. RunsOK(s)'
  <2>1. link'[s] = "down" => adapter # "bun" /\ \A i \in 1..Len(p) : runs[p[i]] <= faults
    BY <1>1, <1>2, <1>3 DEF RunsOK
  <2>2. link'[s] = "down" => \A i \in 1..Len(promises'[s]) : runs[promises'[s][i]] <= faults
    BY <1>4, <2>1
  <2>3. ASSUME user'[s] # Nobody
        PROVE  \/ runs[<< CallAt(s)', 1 >>] >= 1
               \/ \E i \in 1..Len(promises'[s]) : promises'[s][i] = << CallAt(s)', 1 >>
    <3>1. \/ runs[<< CallAt(s), 1 >>] >= 1
          \/ \E i \in 1..Len(p) : p[i] = << CallAt(s), 1 >>
      BY <1>2, <1>3, <2>3 DEF RunsOK
    <3>2. ASSUME NEW i \in 1..Len(p), p[i] = << CallAt(s), 1 >>
          PROVE  \E j \in 1..Len(promises'[s]) : promises'[s][j] = << CallAt(s), 1 >>
      <4>1. i - n \in 1..Len(promises'[s]) /\ (i - n) + n = i
        BY <1>4, <2>3, <3>2
      <4> QED
        BY <1>4, <3>2, <4>1
    <3> QED
      BY <1>3, <2>3, <3>1, <3>2
  <2>4. link'[s] \in { "down", "closed", "none" }
    BY <1>1, <1>3
  <2> QED
    BY <1>1, <2>1, <2>2, <2>3, <2>4 DEF RunsOK
<1>6. Shortens(s)
  BY <1>1, <1>4 DEF Shortens
<1>7. \A t \in Slots : t # s => Same(t)
  <2>1. \A t \in Slots : t # s => promises'[t] = promises[t]
    BY <1>2 DEF Reject, AbortPipeline, PoolInv, WireTypes
  <2> QED
    BY <1>1, <1>3, <2>1 DEF Same
<1> QED
  BY <1>3, <1>5, <1>6, <1>7, NoRunKeeps

\* No command waits twice, and each run was paid for (ioredis/src/index.ts:46-52).
THEOREM RunsInvHolds == Spec => []RunsInv
<1>1. Init /\ LeftInv => RunsInv
  <2> SUFFICES ASSUME Init, LeftInv PROVE RunsInv
    OBVIOUS
  <2>1. /\ \A s \in Slots : link[s] = "none" /\ user[s] = Nobody
        /\ \A x \in Commands : runs[x] = 0
        /\ \A n \in 1..MaxCalls : outcome[n] = Nothing
        /\ faults = 0
    BY DEF Init
  <2>2. Single /\ Begun /\ \A s \in Slots : RunsOK(s)
    BY <2>1 DEF Single, Begun, RunsOK
  <2>3. RunsAreBounded
    BY <2>1 DEF RunsAreBounded, Commands, Nothing
  <2> QED
    BY <2>2, <2>3 DEF RunsInv
<1>2. RunsInv /\ LeftInv' /\ [Next]_vars => RunsInv'
  <2> SUFFICES ASSUME RunsInv, LeftInv', [Next]_vars PROVE RunsInv'
    OBVIOUS
  <2>1. ASSUME NEW c \in Callers, CallOf(c) PROVE RunsInv'
    BY <2>1, BeginRuns, LeaveRuns, TakeRuns, TakeRefusedRuns DEF CallOf
  <2>2. ASSUME NEW s \in Slots, Client(s) \/ World(s) PROVE RunsInv'
    BY <2>2, ConnectRuns, LinkRuns, RunRuns, ReceiveRuns, RejectRuns DEF Client, World
  <2>3. CASE UNCHANGED vars
    <3>1. UNCHANGED << adapter, runs, pc, call, calls, left, outcome, user >>
          /\ UNCHANGED << faults, link, promises, sent, replies >>
      BY <2>3 DEF vars
    <3> QED
      BY <3>1, QuietCallers, NoRunKeeps DEF Same
  <2> QED
    BY <2>1, <2>2, <2>3 DEF Next
<1> QED
  BY <1>1, <1>2, LeftInvHolds, PTL DEF Spec

\* A command runs twice only where ioredis reconnects and sends it again, once
\* more for each fault; bun's client of a pool runs none twice; and the commands
\* of a call that succeeds ran (ioredis/src/index.ts:46-52,
\* bun/src/index.ts:118-123).
THEOREM RunsAreBoundedHolds == Spec => []RunsAreBounded
<1>1. RunsInv => RunsAreBounded
  BY DEF RunsInv
<1> QED
  BY <1>1, RunsInvHolds, PTL
=============================================================================
