------------------------ MODULE ConsumerGroupProofs ------------------------
(***************************************************************************)
(* Proofs about ConsumerGroup and GroupWire for every set of consumers,    *)
(* every choice of options and of undecodable messages, and any number of  *)
(* entries and failures: its types, that it implements AtLeastOnce, what   *)
(* it handles more than once, and what its replies and its commands say in *)
(* both protocols.                                                         *)
(***************************************************************************)
EXTENDS GroupWire, FiniteSetTheorems, SequenceTheorems, WellFoundedInduction, TLAPS

\* The entries that the group has handed out.
Given == { e \in Entries : start # NoGroup /\ start < e /\ e <= last }

\* What is on the stream and in the group, and what is pending was handed out.
LogInv ==
    /\ appended \in 0..MaxEntries
    /\ from \in Froms
    /\ start \in Nat \cup {NoGroup}
    /\ last \in Nat \cup {NoGroup}
    /\ owner \in [Entries -> Workers \cup {Nobody}]
    /\ idle \in [Entries -> 0..MinIdle]
    /\ handled \in [Entries -> Nat]
    /\ unacked \in [Entries -> Nat]
    /\ faults \in 0..MaxFaults
    /\ start <= last
    /\ start = NoGroup => last = NoGroup
    /\ last <= appended \/ last = start
    /\ \A e \in Entries : Pending(e) => e \in Given

\* A worker holds entries that were handed out, has a group when it reads, and
\* is about to acknowledge only what a handler completed.
WorkersInv ==
    /\ pc \in [Workers -> Steps]
    /\ batch \in [Workers -> Seq(Given)]
    /\ spent \in [Workers -> 0..MaxHandle]
    /\ \A w \in Workers :
          /\ pc[w] \in { "reply", "handle", "ack" } => batch[w] # << >>
          /\ pc[w] \in { "connect", "read" } => start # NoGroup
          /\ pc[w] = "ack" => handled[Head(batch[w])] > 0

AckedIsHandled == \A e \in Entries : Acked(e) => handled[e] > 0

GroupInv == LogInv /\ WorkersInv /\ AckedIsHandled

\* What an action may do to the group and the history.
Grows ==
    /\ Given \subseteq Given'
    /\ start # NoGroup => start' # NoGroup
    /\ handled' \in [Entries -> Nat]
    /\ \A e \in Entries : handled[e] > 0 => handled'[e] > 0

\* A sequence of entries that were handed out.
LEMMA HeadTail ==
    ASSUME NEW S, NEW s \in Seq(S), s # << >>
    PROVE  Head(s) \in S /\ Tail(s) \in Seq(S)
BY HeadTailProperties

\* So is the empty one, over any set.
LEMMA EmptyIsSeq == ASSUME NEW S PROVE << >> \in Seq(S)
BY EmptySeq

\* The ids a .. b are a sequence over any set that holds them.
LEMMA IdsInSet ==
    ASSUME NEW a \in Nat, NEW b \in Nat, a <= b, NEW S, \A e \in a..b : e \in S
    PROVE  Ids(a, b) \in Seq(S) /\ Ids(a, b) # << >>
<1>1. b - a + 1 \in Nat /\ b - a + 1 >= 1
  OBVIOUS
<1>2. \A i \in 1..(b - a + 1) : a + i - 1 \in a..b
  OBVIOUS
<1>3. Ids(a, b) = [i \in 1..(b - a + 1) |-> a + i - 1]
  BY DEF Ids
<1>4. Ids(a, b) \in Seq(S)
  BY <1>1, <1>2, <1>3, IsASeq
<1>5. Len(Ids(a, b)) = b - a + 1
  BY <1>1, <1>3, LenProperties, <1>4
<1> QED
  BY <1>1, <1>4, <1>5, EmptySeq

\* A worker that goes anywhere but to its ack.
LEMMA GotoKeeps ==
    ASSUME WorkersInv, Grows,
           NEW w \in Workers, NEW step \in Steps \ {"ack"}, NEW entries \in Seq(Given'),
           step \in { "reply", "handle" } => entries # << >>,
           step \in { "connect", "read" } => start' # NoGroup,
           Goto(w, step, entries)
    PROVE  WorkersInv'
<1> USE GroupAssumption
<1>1. /\ pc' = [pc EXCEPT ![w] = step]
      /\ batch' = [batch EXCEPT ![w] = entries]
      /\ spent' = [spent EXCEPT ![w] = 0]
  BY DEF Goto
<1>2. batch \in [Workers -> Seq(Given)] /\ batch \in [Workers -> Seq(Given')]
  <2>1. Seq(Given) \subseteq Seq(Given')
    BY SeqMonotonic DEF Grows
  <2> QED
    BY <2>1 DEF WorkersInv
<1>3. pc' \in [Workers -> Steps] /\ spent' \in [Workers -> 0..MaxHandle]
  BY <1>1 DEF WorkersInv
<1>4. batch' \in [Workers -> Seq(Given')]
  BY <1>1, <1>2
<1>5. ASSUME NEW v \in Workers
      PROVE  /\ pc'[v] \in { "reply", "handle", "ack" } => batch'[v] # << >>
             /\ pc'[v] \in { "connect", "read" } => start' # NoGroup
             /\ pc'[v] = "ack" => handled'[Head(batch'[v])] > 0
  <2>1. CASE v = w
    BY <1>1, <1>2, <2>1 DEF WorkersInv
  <2>2. CASE v # w
    <3>1. pc'[v] = pc[v] /\ batch'[v] = batch[v]
      BY <1>1, <1>2, <2>2 DEF WorkersInv
    <3>2. pc[v] = "ack" => Head(batch[v]) \in Entries
      BY <1>2, HeadTail DEF WorkersInv, Given
    <3> QED
      BY <3>1, <3>2 DEF WorkersInv, Grows
  <2> QED
    BY <2>1, <2>2
<1> QED
  BY <1>3, <1>4, <1>5 DEF WorkersInv

\* An action that leaves the group and the handlers alone.
LEMMA Quiet ==
    ASSUME GroupInv, UNCHANGED << start, last, handled >>
    PROVE  Given' = Given /\ Grows
BY DEF GroupInv, LogInv, Given, Grows

\* A step that moves one worker and changes neither the group nor a handler.
LEMMA MoveKeeps ==
    ASSUME GroupInv, NEW w \in Workers, NEW step \in Steps \ {"ack"}, NEW entries \in Seq(Given),
           step \in { "reply", "handle" } => entries # << >>,
           step \in { "connect", "read" } => start # NoGroup,
           Goto(w, step, entries),
           UNCHANGED << redis, history >>, faults' \in 0..MaxFaults
    PROVE  GroupInv'
<1>1. Given' = Given /\ Grows
  BY Quiet DEF redis, history
<1>2. LogInv'
  BY <1>1 DEF GroupInv, LogInv, redis, history, Pending
<1>3. WorkersInv'
  BY <1>1, GotoKeeps DEF GroupInv, redis
<1>4. AckedIsHandled'
  BY DEF GroupInv, AckedIsHandled, Acked, Pending, redis, history
<1> QED
  BY <1>2, <1>3, <1>4 DEF GroupInv

\* Where a worker is that has a batch, and where it goes with the rest of it.
LEMMA BatchOf ==
    ASSUME GroupInv, NEW w \in Workers, pc[w] \in { "reply", "handle", "ack" }
    PROVE  /\ batch[w] \in Seq(Given) /\ batch[w] # << >>
           /\ Head(batch[w]) \in Given /\ Tail(batch[w]) \in Seq(Given)
           /\ start # NoGroup
<1>1. batch[w] \in Seq(Given) /\ batch[w] # << >>
  BY DEF GroupInv, WorkersInv
<1>2. Head(batch[w]) \in Given /\ Tail(batch[w]) \in Seq(Given)
  BY <1>1, HeadTail
<1> QED
  BY <1>1, <1>2 DEF Given

\* Continue is a Goto to one of three steps.
LEMMA ContinueIsGoto ==
    ASSUME NEW w \in Workers, NEW S, NEW entries \in Seq(S), Continue(w, entries)
    PROVE  \E step \in { "handle", "off", "read" } : \E rest \in Seq(S) :
              Goto(w, step, rest) /\ (step = "handle" => rest # << >>)
<1>1. CASE entries # << >>
  BY <1>1 DEF Continue
<1>2. CASE entries = << >>
  BY <1>2, EmptyIsSeq DEF Continue
<1> QED
  BY <1>1, <1>2

\* The entry at the head of a batch is acknowledged, or nothing is.
LEMMA AckKeeps ==
    ASSUME GroupInv, NEW w \in Workers, pc[w] = "ack",
           NEW step \in { "handle", "off", "read" }, NEW entries \in Seq(Given),
           step = "handle" => entries # << >>,
           Goto(w, step, entries),
           RunAck(w) \/ UNCHANGED owner,
           UNCHANGED << appended, from, start, last, idle, handled >>,
           unacked' \in [Entries -> Nat], faults' \in 0..MaxFaults
    PROVE  GroupInv'
<1>1. Given' = Given /\ Grows
  BY Quiet
<1>2. /\ Head(batch[w]) \in Given /\ start # NoGroup
      /\ handled[Head(batch[w])] > 0
  BY BatchOf DEF GroupInv, WorkersInv
<1>3. /\ owner' \in [Entries -> Workers \cup {Nobody}]
      /\ \A e \in Entries : owner'[e] = owner[e] \/ (owner'[e] = Nobody /\ e = Head(batch[w]))
  BY <1>2 DEF GroupInv, LogInv, RunAck, Given
<1>4. LogInv'
  BY <1>1, <1>3 DEF GroupInv, LogInv, Pending
<1>5. WorkersInv'
  BY <1>1, <1>2, GotoKeeps DEF GroupInv, Steps
<1>6. AckedIsHandled'
  BY <1>2, <1>3 DEF GroupInv, AckedIsHandled, Acked, Pending
<1> QED
  BY <1>4, <1>5, <1>6 DEF GroupInv

\* A group that an XGROUP CREATE makes has handed out nothing.
LEMMA CreateKeeps ==
    ASSUME GroupInv, NEW w \in Workers, NEW step \in { "connect", "off" },
           Goto(w, step, << >>),
           CreateGroup \/ (step = "off" /\ UNCHANGED << start, last >>),
           UNCHANGED << appended, from, owner, idle, handled, unacked >>,
           faults' \in 0..MaxFaults
    PROVE  GroupInv'
<1> USE GroupAssumption DEF NoGroup, Live
<1>1. \/ UNCHANGED << start, last >>
      \/ start = NoGroup /\ start' \in Nat /\ last' = start' /\ (start' = appended \/ start' = from)
  BY DEF CreateGroup, GroupInv, LogInv
<1>2. CreateGroup => start' # NoGroup
  BY DEF CreateGroup, GroupInv, LogInv
<1>3. Given' = Given /\ Grows
  BY <1>1, SMTT(20) DEF GroupInv, LogInv, Given, Grows, Entries
<1>4. LogInv'
  BY <1>1, <1>3 DEF GroupInv, LogInv, Pending
<1>5. WorkersInv'
  BY <1>2, <1>3, GotoKeeps, EmptyIsSeq DEF GroupInv, Steps
<1>6. AckedIsHandled'
  BY <1>1, SMTT(20) DEF GroupInv, LogInv, AckedIsHandled, Acked, Pending, Entries
<1> QED
  BY <1>4, <1>5, <1>6 DEF GroupInv

\* XREADGROUP hands out the entries after the last one, and nobody has
\* acknowledged them.
LEMMA ReadGroupKeeps ==
    ASSUME GroupInv, NEW c \in Consumers, ReadGroup(c)
    PROVE  GroupInv' /\ \A e \in Entries : Acked(e)' <=> Acked(e)
<1> USE GroupAssumption DEF NoGroup, Live
<1> DEFINE end == IF appended - last > Count THEN last + Count ELSE appended
<1>1. /\ start # NoGroup /\ start \in Nat /\ last \in Nat /\ appended \in 0..MaxEntries
      /\ start <= last /\ last < appended /\ c \in Workers /\ c # Nobody
  BY DEF ReadGroup, GroupInv, WorkersInv, LogInv, Workers
<1>2. end \in Nat /\ last + 1 <= end /\ end <= appended
  BY <1>1
<1>3. /\ last' = end
      /\ owner' = [e \in Entries |-> IF last < e /\ e <= end THEN c ELSE owner[e]]
      /\ idle' = [e \in Entries |-> IF last < e /\ e <= end THEN 0 ELSE idle[e]]
      /\ Goto(c, "reply", Ids(last + 1, end))
      /\ UNCHANGED << appended, from, start, handled, unacked, faults >>
  BY DEF ReadGroup, history
<1> HIDE DEF end
<1>4. Grows /\ Given' = { e \in Entries : start < e /\ e <= end }
  BY <1>1, <1>2, <1>3, SMTT(20) DEF GroupInv, LogInv, Given, Grows, Entries
<1>5. LogInv'
  <2>1. /\ owner' \in [Entries -> Workers \cup {Nobody}]
        /\ idle' \in [Entries -> 0..MinIdle]
    BY <1>1, <1>3 DEF GroupInv, LogInv
  <2>2. \A e \in Entries : owner'[e] # Nobody => e \in Given'
    BY <1>1, <1>2, <1>3, <1>4 DEF GroupInv, LogInv, Pending, Given, Entries
  <2> QED
    BY <1>1, <1>2, <1>3, <2>1, <2>2 DEF GroupInv, LogInv, Pending
<1>6. WorkersInv'
  <2>1. \A e \in (last + 1)..end : e \in Given'
    BY <1>1, <1>2, <1>4 DEF Entries
  <2>2. last + 1 \in Nat
    BY <1>1
  <2>3. Ids(last + 1, end) \in Seq(Given') /\ Ids(last + 1, end) # << >>
    BY <1>2, <2>1, <2>2, IdsInSet
  <2> QED
    BY <1>1, <1>3, <1>4, <2>3, GotoKeeps DEF GroupInv, Steps
<1>7. \A e \in Entries : Acked(e)' <=> Acked(e)
  BY <1>1, <1>2, <1>3 DEF Acked, Pending, Entries
<1>8. AckedIsHandled'
  BY <1>3, <1>7 DEF GroupInv, AckedIsHandled
<1> QED
  BY <1>5, <1>6, <1>7, <1>8 DEF GroupInv

\* A claim gives what is pending to the claimer.
LEMMA ClaimKeeps ==
    ASSUME GroupInv, Claim
    PROVE  GroupInv'
<1> USE GroupAssumption
<1>1. PICK n \in 1..ClaimCount : \E claimed \in [1..n -> Stale] :
         /\ owner' = [e \in Entries |-> IF \E i \in 1..n : claimed[i] = e THEN Claimer ELSE owner[e]]
         /\ idle' = [e \in Entries |-> IF \E i \in 1..n : claimed[i] = e THEN 0 ELSE idle[e]]
         /\ Goto(Claimer, "reply", claimed)
  BY DEF Claim, ClaimFrom
<1>2. PICK claimed \in [1..n -> Stale] :
         /\ owner' = [e \in Entries |-> IF \E i \in 1..n : claimed[i] = e THEN Claimer ELSE owner[e]]
         /\ idle' = [e \in Entries |-> IF \E i \in 1..n : claimed[i] = e THEN 0 ELSE idle[e]]
         /\ Goto(Claimer, "reply", claimed)
  BY <1>1
<1>3. UNCHANGED << appended, from, start, last, handled, unacked, faults >>
  BY DEF Claim, ClaimFrom, history
<1>4. Given' = Given /\ Grows
  BY <1>3, Quiet
<1>5. /\ owner' \in [Entries -> Workers \cup {Nobody}] /\ Claimer # Nobody /\ Claimer \in Workers
      /\ idle' \in [Entries -> 0..MinIdle]
      /\ \A e \in Entries : owner'[e] # Nobody <=> owner[e] # Nobody
  BY <1>2 DEF GroupInv, LogInv, Stale, Pending, Workers
<1>6. LogInv'
  BY <1>3, <1>4, <1>5 DEF GroupInv, LogInv, Pending
<1>7. claimed \in Seq(Given) /\ claimed # << >>
  <2>1. n \in Nat /\ n >= 1 /\ \A i \in 1..n : claimed[i] \in Given
    BY DEF GroupInv, LogInv, Stale
  <2>2. claimed = [i \in 1..n |-> claimed[i]]
    BY <1>2
  <2>3. claimed \in Seq(Given)
    BY <2>1, <2>2, IsASeq
  <2>4. Len(claimed) = n
    BY <1>2, <2>1, <2>3, LenProperties
  <2> QED
    BY <2>1, <2>3, <2>4, EmptySeq
<1>8. WorkersInv'
  BY <1>2, <1>4, <1>5, <1>7, GotoKeeps DEF GroupInv, Steps
<1>9. AckedIsHandled'
  BY <1>3, <1>5 DEF GroupInv, AckedIsHandled, Acked, Pending
<1> QED
  BY <1>6, <1>8, <1>9 DEF GroupInv

\* A success is the only step that counts one.
LEMMA SucceedKeeps ==
    ASSUME GroupInv, NEW w \in Workers, Succeed(w)
    PROVE  GroupInv' /\ Head(batch[w]) \in Given
<1>1. /\ pc[w] = "handle" /\ pc' = [pc EXCEPT ![w] = "ack"]
      /\ handled' = [handled EXCEPT ![Head(batch[w])] = @ + 1]
      /\ UNCHANGED << appended, from, start, last, owner, idle, batch, spent, unacked, faults >>
  BY DEF Succeed, redis
<1>2. Head(batch[w]) \in Given /\ Head(batch[w]) \in Entries /\ batch[w] # << >>
  BY <1>1, BatchOf DEF Given
<1>3. /\ handled' \in [Entries -> Nat] /\ handled'[Head(batch[w])] > 0
      /\ \A e \in Entries : handled[e] > 0 => handled'[e] > 0
  BY <1>1, <1>2, SMTT(20) DEF GroupInv, LogInv
<1>4. Given' = Given
  BY <1>1 DEF Given
<1>5. LogInv'
  BY <1>1, <1>3, <1>4 DEF GroupInv, LogInv, Pending
<1>6. WorkersInv'
  <2>1. /\ pc' \in [Workers -> Steps] /\ batch' \in [Workers -> Seq(Given')]
        /\ spent' \in [Workers -> 0..MaxHandle]
    BY <1>1, <1>4 DEF GroupInv, WorkersInv, Steps
  <2>2. ASSUME NEW v \in Workers
        PROVE  /\ pc'[v] \in { "reply", "handle", "ack" } => batch'[v] # << >>
               /\ pc'[v] \in { "connect", "read" } => start' # NoGroup
               /\ pc'[v] = "ack" => handled'[Head(batch'[v])] > 0
    <3>1. CASE v = w
      BY <1>1, <1>2, <1>3, <3>1 DEF GroupInv, WorkersInv
    <3>2. CASE v # w
      <4>1. pc'[v] = pc[v] /\ batch'[v] = batch[v]
        BY <1>1, <3>2 DEF GroupInv, WorkersInv
      <4>2. pc[v] = "ack" => Head(batch[v]) \in Entries
        BY BatchOf DEF Given
      <4> QED
        BY <1>1, <1>3, <4>1, <4>2 DEF GroupInv, WorkersInv
    <3> QED
      BY <3>1, <3>2
  <2> QED
    BY <2>1, <2>2 DEF WorkersInv
<1>7. AckedIsHandled'
  BY <1>1, <1>3 DEF GroupInv, AckedIsHandled, Acked, Pending
<1> QED
  BY <1>2, <1>5, <1>6, <1>7 DEF GroupInv

\* The failures of a run stay within their bound.
LEMMA FaultIsBounded ==
    ASSUME GroupInv, Fault
    PROVE  faults' \in 0..MaxFaults
BY GroupAssumption DEF GroupInv, LogInv, Fault

\* A worker whose handler failed.
LEMMA HandlerFailsKeeps ==
    ASSUME GroupInv, NEW w \in Workers, pc[w] = "handle", HandlerFails(w),
           UNCHANGED << redis, history >>, faults' \in 0..MaxFaults
    PROVE  GroupInv'
<1>1. Tail(batch[w]) \in Seq(Given) /\ start # NoGroup
  BY BatchOf
<1>2. \E step \in { "handle", "off", "read" } : \E rest \in Seq(Given) :
         Goto(w, step, rest) /\ (step = "handle" => rest # << >>)
  <2>1. CASE w = Claimer
    BY <1>1, <2>1, ContinueIsGoto DEF HandlerFails
  <2>2. CASE w # Claimer
    BY <2>2, EmptyIsSeq DEF HandlerFails
  <2> QED
    BY <2>1, <2>2
<1> QED
  BY <1>1, <1>2, MoveKeeps DEF Steps

\* Every step of a worker that is not its success.
LEMMA WorkKeeps ==
    ASSUME GroupInv, NEW w \in Workers, Receive(w) \/ DecodeFails(w) \/ Ack(w)
                                        \/ Fail(w) \/ AckFails(w) \/ Stop(w)
    PROVE  GroupInv'
<1>0. faults \in 0..MaxFaults /\ unacked \in [Entries -> Nat] /\ << >> \in Seq(Given)
  BY EmptyIsSeq DEF GroupInv, LogInv
<1>1. CASE Receive(w)
  <2>1. pc[w] = "reply" /\ Goto(w, "handle", batch[w]) /\ UNCHANGED << redis, history, faults >>
    BY <1>1 DEF Receive
  <2>2. batch[w] \in Seq(Given) /\ batch[w] # << >>
    BY <2>1, BatchOf
  <2> QED
    BY <1>0, <2>1, <2>2, MoveKeeps DEF Steps
<1>2. CASE DecodeFails(w)
  BY <1>0, <1>2, HandlerFailsKeeps DEF DecodeFails
<1>3. CASE Fail(w)
  BY <1>3, FaultIsBounded, HandlerFailsKeeps DEF Fail
<1>4. CASE Stop(w)
  <2>1. Goto(w, "off", << >>) /\ UNCHANGED << redis, history >> /\ faults' \in 0..MaxFaults
    BY <1>4, FaultIsBounded DEF Stop
  <2> QED
    BY <1>0, <2>1, MoveKeeps DEF Steps
<1>5. CASE Ack(w)
  <2>1. /\ pc[w] = "ack" /\ RunAck(w) /\ Continue(w, Tail(batch[w]))
        /\ UNCHANGED << appended, from, start, last, idle, handled, unacked, faults >>
    BY <1>5 DEF Ack, history
  <2>2. \E step \in { "handle", "off", "read" } : \E rest \in Seq(Given) :
           Goto(w, step, rest) /\ (step = "handle" => rest # << >>)
    BY <2>1, BatchOf, ContinueIsGoto
  <2> QED
    BY <1>0, <2>1, <2>2, AckKeeps
<1>6. CASE AckFails(w)
  <2>1. /\ pc[w] = "ack" /\ Goto(w, "off", << >>) /\ (RunAck(w) \/ UNCHANGED owner)
        /\ UNCHANGED << appended, from, start, last, idle, handled >>
        /\ (unacked' = unacked \/ unacked' = [unacked EXCEPT ![Head(batch[w])] = @ + 1])
        /\ faults' \in 0..MaxFaults
    BY <1>6, FaultIsBounded DEF AckFails
  <2>2. unacked' \in [Entries -> Nat]
    BY <1>0, <2>1
  <2> QED
    BY <1>0, <2>1, <2>2, AckKeeps
<1> QED
  BY <1>1, <1>2, <1>3, <1>4, <1>5, <1>6

\* Every step of a consumer.
LEMMA ConsumeKeeps ==
    ASSUME GroupInv, NEW c \in Consumers, Consume(c) \/ EnsureGroupFails(c) \/ Drop(c)
    PROVE  GroupInv'
<1>0. faults \in 0..MaxFaults /\ << >> \in Seq(Given) /\ c \in Workers
  BY EmptyIsSeq DEF GroupInv, LogInv, Workers
<1>1. CASE Begin(c)
  BY <1>0, <1>1, MoveKeeps DEF Begin, Steps
<1>2. CASE EnsureGroup(c)
  BY <1>0, <1>2, CreateKeeps DEF EnsureGroup, history
<1>3. CASE EnsureGroupFails(c)
  BY <1>0, <1>3, FaultIsBounded, CreateKeeps DEF EnsureGroupFails, history
<1>4. CASE Connect(c)
  <2>1. start # NoGroup
    BY <1>0, <1>4 DEF Connect, GroupInv, WorkersInv
  <2> QED
    BY <1>0, <1>4, <2>1, MoveKeeps DEF Connect, Steps
<1>5. CASE ReadGroup(c)
  BY <1>5, ReadGroupKeeps
<1>6. CASE Drop(c)
  <2>1. start # NoGroup
    BY <1>0, <1>6, BatchOf DEF Drop, GroupInv, WorkersInv
  <2> QED
    BY <1>0, <1>6, <2>1, FaultIsBounded, MoveKeeps DEF Drop, Steps
<1> QED
  BY <1>1, <1>2, <1>3, <1>4, <1>5, <1>6 DEF Consume

\* XADD.
LEMMA AppendKeeps ==
    ASSUME GroupInv, AppendEntry
    PROVE  GroupInv'
<1> USE GroupAssumption DEF NoGroup, Live
<1>1. /\ appended' \in 0..MaxEntries /\ appended' = appended + 1
      /\ UNCHANGED << from, start, last, owner, idle, pc, batch, spent, handled, unacked, faults >>
  BY DEF AppendEntry, GroupInv, LogInv, workers, history
<1>2. last <= appended => last <= appended'
  BY <1>1 DEF GroupInv, LogInv
<1>3. LogInv'
  BY <1>1, <1>2 DEF GroupInv, LogInv, Pending, Given
<1>4. WorkersInv' /\ AckedIsHandled'
  BY <1>1 DEF GroupInv, WorkersInv, Given, AckedIsHandled, Acked, Pending
<1> QED
  BY <1>3, <1>4 DEF GroupInv

\* A tick ages what is pending and runs the handlers.
LEMMA TickKeeps ==
    ASSUME GroupInv, Tick
    PROVE  GroupInv'
<1> USE GroupAssumption
<1>1. UNCHANGED << appended, from, start, last, owner, pc, batch, handled, unacked, faults >>
  BY DEF Tick, history
<1>2. idle' \in [Entries -> 0..MinIdle]
  <2>1. \A e \in Entries : idle[e] \in 0..MinIdle
    BY DEF GroupInv, LogInv
  <2>2. \A n \in 0..MinIdle : n < MinIdle => n + 1 \in 0..MinIdle
    OBVIOUS
  <2> QED
    BY <2>1, <2>2 DEF Tick
<1>3. spent' \in [Workers -> 0..MaxHandle]
  <2>1. \A w \in Workers : spent[w] \in 0..MaxHandle /\ (pc[w] = "handle" => spent[w] < MaxHandle)
    BY DEF GroupInv, WorkersInv, Tick
  <2>2. \A n \in 0..MaxHandle : n < MaxHandle => n + 1 \in 0..MaxHandle
    OBVIOUS
  <2> QED
    BY <2>1, <2>2 DEF Tick
<1>4. LogInv'
  BY <1>1, <1>2 DEF GroupInv, LogInv, Pending, Given
<1>5. WorkersInv' /\ AckedIsHandled'
  BY <1>1, <1>3 DEF GroupInv, WorkersInv, Given, AckedIsHandled, Acked, Pending
<1> QED
  BY <1>4, <1>5 DEF GroupInv

\* The invariant of the group and its workers: what is pending or in a batch was
\* handed out, and what is acknowledged was handled (Redis.ts:354-391, :1014-1023).
THEOREM GroupInvHolds == Spec => []GroupInv
<1>1. Init => GroupInv
  <2> SUFFICES ASSUME Init PROVE GroupInv
    OBVIOUS
  <2> USE GroupAssumption DEF NoGroup, Live
  <2>1. LogInv
    BY DEF Init, LogInv, Pending
  <2>2. WorkersInv
    BY EmptyIsSeq DEF Init, WorkersInv, Steps
  <2>3. AckedIsHandled
    BY DEF Init, AckedIsHandled, Acked
  <2> QED
    BY <2>1, <2>2, <2>3 DEF GroupInv
<1>2. GroupInv /\ [Next]_vars => GroupInv'
  <2> SUFFICES ASSUME GroupInv, [Next]_vars PROVE GroupInv'
    OBVIOUS
  <2>1. CASE AppendEntry
    BY <2>1, AppendKeeps
  <2>2. CASE \E c \in Consumers : Consume(c) \/ EnsureGroupFails(c) \/ Drop(c)
    BY <2>2, ConsumeKeeps
  <2>3. CASE \E w \in Workers : Work(w) \/ Fail(w) \/ AckFails(w) \/ Stop(w)
    BY <2>3, SucceedKeeps, WorkKeeps DEF Work
  <2>4. CASE Claim
    BY <2>4, ClaimKeeps
  <2>5. CASE Tick
    BY <2>5, TickKeeps
  <2>6. CASE UNCHANGED vars
    BY <2>6 DEF vars, GroupInv, LogInv, WorkersInv, AckedIsHandled, Acked, Pending, Given
  <2> QED
    BY <2>1, <2>2, <2>3, <2>4, <2>5, <2>6 DEF Next
<1> QED
  BY <1>1, <1>2, PTL DEF Spec

\* The invariant says the types.
LEMMA TypesFollow == GroupInv => TypeOK
<1> SUFFICES ASSUME GroupInv PROVE TypeOK
  OBVIOUS
<1>1. Seq(Given) \subseteq Seq(Entries)
  BY SeqMonotonic DEF Given
<1>2. batch \in [Workers -> Seq(Entries)]
  BY <1>1 DEF GroupInv, WorkersInv
<1> QED
  BY <1>2 DEF GroupInv, LogInv, WorkersInv, TypeOK

\* The types of the group, the workers and their histories.
THEOREM TypeCorrect == Spec => []TypeOK
BY TypesFollow, GroupInvHolds, PTL

\* What an acknowledgement adds to the acknowledged entries.
LEMMA AckSettles ==
    ASSUME GroupInv, NEW w \in Workers, pc[w] = "ack", RunAck(w) \/ UNCHANGED owner,
           UNCHANGED << appended, start, last, handled >>
    PROVE  \/ \A e \in Entries : Acked(e)' <=> Acked(e)
           \/ /\ Head(batch[w]) \in Entries /\ handled[Head(batch[w])] > 0
              /\ \A e \in Entries : Acked(e)' <=> (Acked(e) \/ e = Head(batch[w]))
<1>1. /\ Head(batch[w]) \in Given /\ handled[Head(batch[w])] > 0
      /\ owner \in [Entries -> Workers \cup {Nobody}]
  BY BatchOf DEF GroupInv, WorkersInv, LogInv
<1>2. CASE UNCHANGED owner
  BY <1>2 DEF Acked, Pending
<1>3. CASE RunAck(w)
  <2>1. \A e \in Entries : owner'[e] = IF e = Head(batch[w]) THEN Nobody ELSE owner[e]
    BY <1>1, <1>3 DEF RunAck, Given
  <2> QED
    BY <1>1, <2>1 DEF Acked, Pending, Given
<1> QED
  BY <1>2, <1>3

\* The group does what AtLeastOnce says: an entry is settled only after a
\* handler succeeded, and for good (Redis.ts:718-720, :1019-1021).
THEOREM ImplementsAtLeastOnceHolds == Spec => ImplementsAtLeastOnce
<1> DEFINE done == { e \in Entries : handled[e] > 0 }
           acked == { e \in Entries : Acked(e) }
<1>1. Init => Promise!Init
  BY DEF Init, Promise!Init, Acked
<1>2. GroupInv /\ [Next]_vars => [Promise!Next]_(Promise!vars)
  <2> SUFFICES ASSUME GroupInv, [Next]_vars PROVE [Promise!Next]_(Promise!vars)
    OBVIOUS
  <2> USE GroupAssumption DEF Promise!vars
  <2>1. CASE UNCHANGED << appended, start, last, owner, handled >>
    BY <2>1 DEF Acked, Pending
  <2>2. CASE AppendEntry
    BY <2>2 DEF AppendEntry, Promise!Next, Promise!AppendEntry, history, Acked, Pending
  <2>3. ASSUME NEW c \in Consumers, EnsureGroup(c) \/ EnsureGroupFails(c)
        PROVE  UNCHANGED Promise!vars
    <3>1. UNCHANGED << appended, owner, handled >>
          /\ (UNCHANGED << start, last >> \/ (start = NoGroup /\ last' = start'))
      BY <2>3 DEF EnsureGroup, EnsureGroupFails, CreateGroup, history
    <3>2. start = NoGroup => start' \in Int
      BY <2>3 DEF EnsureGroup, EnsureGroupFails, CreateGroup, GroupInv, LogInv, NoGroup, Live
    <3>3. \A e \in Entries : Acked(e)' <=> Acked(e)
      <4>1. CASE UNCHANGED << start, last >>
        BY <3>1, <4>1 DEF Acked, Pending
      <4>2. CASE start = NoGroup /\ last' = start'
        BY <3>2, <4>2 DEF Acked, Entries
      <4> QED
        BY <3>1, <4>1, <4>2
    <3> QED
      BY <3>1, <3>3
  <2>4. ASSUME NEW c \in Consumers, ReadGroup(c)
        PROVE  UNCHANGED Promise!vars
    <3>1. \A e \in Entries : Acked(e)' <=> Acked(e)
      BY <2>4, ReadGroupKeeps
    <3> QED
      BY <2>4, <3>1 DEF ReadGroup, history
  <2>5. ASSUME NEW w \in Workers, Succeed(w)
        PROVE  Promise!Next
    <3> DEFINE h == Head(batch[w])
    <3>1. /\ h \in Entries /\ h <= appended
      <4>1. h \in Given
        BY <2>5, SucceedKeeps
      <4>2. /\ h \in Entries /\ start < h /\ h <= last /\ start \in Int /\ last \in Int
            /\ appended \in Nat /\ (last <= appended \/ last = start)
        BY <4>1 DEF Given, GroupInv, LogInv, NoGroup
      <4> QED
        BY <4>2 DEF Entries
    <3>2. /\ UNCHANGED << appended, start, last, owner >>
          /\ handled' = [handled EXCEPT ![h] = @ + 1]
      BY <2>5 DEF Succeed, redis
    <3> HIDE DEF h
    <3>3. done' = done \cup {h}
      BY <3>1, <3>2 DEF GroupInv, LogInv
    <3>4. acked' = acked
      BY <3>2 DEF Acked, Pending
    <3>5. Promise!Handle(h)
      BY <3>1, <3>2, <3>3, <3>4 DEF Promise!Handle
    <3>6. h \in Promise!Entries
      BY <3>1 DEF Promise!Entries, Entries
    <3> QED
      BY <3>5, <3>6 DEF Promise!Next, Promise!Handle
  <2>6. ASSUME NEW w \in Workers, Ack(w) \/ AckFails(w)
        PROVE  Promise!Next \/ UNCHANGED Promise!vars
    <3> DEFINE h == Head(batch[w])
    <3>1. /\ pc[w] = "ack" /\ (RunAck(w) \/ UNCHANGED owner)
          /\ UNCHANGED << appended, start, last, handled >>
      BY <2>6 DEF Ack, AckFails, history
    <3>2. \/ \A e \in Entries : Acked(e)' <=> Acked(e)
          \/ /\ h \in Entries /\ handled[h] > 0
             /\ \A e \in Entries : Acked(e)' <=> (Acked(e) \/ e = h)
      BY <3>1, AckSettles
    <3> HIDE DEF h
    <3>3. done' = done
      BY <3>1
    <3>4. CASE \A e \in Entries : Acked(e)' <=> Acked(e)
      BY <3>1, <3>4
    <3>5. CASE /\ h \in Entries /\ handled[h] > 0
               /\ \A e \in Entries : Acked(e)' <=> (Acked(e) \/ e = h)
      <4>1. acked' = acked \cup {h}
        BY <3>5
      <4>2. Promise!Settle(h)
        BY <3>1, <3>3, <3>5, <4>1 DEF Promise!Settle
      <4> QED
        BY <3>5, <4>2 DEF Promise!Next, Promise!Entries, Entries
    <3> QED
      BY <3>2, <3>4, <3>5
  <2>7. ASSUME Claim
        PROVE  UNCHANGED Promise!vars
    <3>1. UNCHANGED << appended, start, last, handled >>
          /\ \A e \in Entries : owner'[e] # Nobody <=> owner[e] # Nobody
      BY <2>7 DEF Claim, ClaimFrom, history, Stale, Pending, Workers
    <3> QED
      BY <3>1 DEF Acked, Pending
  <2>8. CASE \E c \in Consumers : Consume(c) \/ EnsureGroupFails(c) \/ Drop(c)
    BY <2>1, <2>3, <2>4, <2>8 DEF Consume, Begin, Connect, Drop, redis, history
  <2>9. CASE \E w \in Workers : Work(w) \/ Fail(w) \/ AckFails(w) \/ Stop(w)
    BY <2>1, <2>5, <2>6, <2>9 DEF Work, Receive, DecodeFails, Fail, Stop, redis, history
  <2> QED
    BY <2>1, <2>2, <2>7, <2>8, <2>9 DEF Next, Tick, vars, history
<1> QED
  BY <1>1, <1>2, GroupInvHolds, PTL DEF Spec, ImplementsAtLeastOnce, Promise!Spec

(***************************************************************************)
(* Repetition.  RepeatedOnlyIfUnacked needs that nobody else is given an   *)
(* entry while a worker holds it: its idle time stays below minIdle, since *)
(* each handler of the chunk takes its share of it.                        *)
(***************************************************************************)

\* The most entries in a chunk.
Room == IF Count > ClaimCount THEN Count ELSE ClaimCount

\* How long the entries of a chunk may have been idle: the handlers that are
\* over, and the one that runs.
Budget(w) == (Room - Len(batch[w])) * MaxHandle + spent[w]

Holding == { "reply", "handle", "ack" }

Distinct(s) == \A i, j \in DOMAIN s : i # j => s[i] # s[j]

\* What a worker holds is its own, each entry once, and not yet stale.
Held(w) ==
    /\ Len(batch[w]) <= Room
    /\ \A i \in DOMAIN batch[w] : owner[batch[w][i]] = w /\ idle[batch[w][i]] <= Budget(w)
    /\ Distinct(batch[w])
    /\ pc[w] \notin Holding => batch[w] = << >>
    /\ pc[w] = "reply" => spent[w] = 0

HeldInv == \A w \in Workers : Held(w)

\* Somebody is about to acknowledge this entry.
Acking(e) == \E w \in Workers : pc[w] = "ack" /\ Head(batch[w]) = e

\* A success is followed by its ack, or is counted as one without.
CountInv ==
    \A e \in Entries :
        /\ handled[e] <= 1 + unacked[e]
        /\ e > last => handled[e] = 0
        /\ Pending(e) => handled[e] <= unacked[e] \/ Acking(e)

\* Room for a handler of each entry of a chunk.
LEMMA RoomType == Room \in Nat \ {0} /\ Count <= Room /\ ClaimCount <= Room /\ MaxHandle \in Nat
BY GroupAssumption DEF Room

\* The budget of a chunk with l entries left, and with one less.
LEMMA BudgetGrows ==
    ASSUME NEW l \in 1..Room, NEW s \in 0..MaxHandle
    PROVE  /\ (Room - l) * MaxHandle \in Nat
           /\ (Room - l) * MaxHandle + s <= Room * MaxHandle
           /\ (Room - l) * MaxHandle + s <= (Room - (l - 1)) * MaxHandle + 0
<1> DEFINE k == Room - l
<1>1. Room \in Nat /\ MaxHandle \in Nat /\ k \in Nat /\ Room - (l - 1) = k + 1 /\ Room >= k + 1
  BY RoomType
<1> HIDE DEF k
<1>2. k * MaxHandle \in Nat /\ (k + 1) * MaxHandle = k * MaxHandle + MaxHandle
  BY <1>1
<1>3. Room * MaxHandle >= (k + 1) * MaxHandle
  BY <1>1
<1>4. k * MaxHandle + s <= Room * MaxHandle /\ k * MaxHandle + s <= (k + 1) * MaxHandle + 0
  BY <1>1, <1>2, <1>3
<1> QED
  BY <1>1, <1>2, <1>4 DEF k

\* A batch as a sequence.
LEMMA BatchIsSeq ==
    ASSUME GroupInv, NEW w \in Workers
    PROVE  /\ batch[w] \in Seq(Entries) /\ Len(batch[w]) \in Nat
           /\ DOMAIN batch[w] = 1..Len(batch[w])
           /\ \A i \in DOMAIN batch[w] : batch[w][i] \in Given /\ batch[w][i] \in Entries
<1>1. batch[w] \in Seq(Given)
  BY DEF GroupInv, WorkersInv
<1>2. Seq(Given) \subseteq Seq(Entries)
  BY SeqMonotonic DEF Given
<1> QED
  BY <1>1, <1>2, LenProperties, ElementOfSeq DEF Given

\* An entry that a worker holds is pending, and no claim takes it.
LEMMA HeldIsNotStale ==
    ASSUME GroupInv, HeldInv, Room * MaxHandle < MinIdle,
           NEW v \in Workers, NEW i \in DOMAIN batch[v]
    PROVE  /\ batch[v][i] \in Entries /\ batch[v][i] <= last
           /\ owner[batch[v][i]] = v /\ Pending(batch[v][i])
           /\ batch[v][i] \notin Stale
<1> USE GroupAssumption
<1>1. batch[v][i] \in Given /\ batch[v][i] \in Entries /\ Len(batch[v]) >= 1
  BY BatchIsSeq
<1>2. /\ owner[batch[v][i]] = v /\ idle[batch[v][i]] <= Budget(v)
      /\ Len(batch[v]) \in 1..Room /\ spent[v] \in 0..MaxHandle
  BY <1>1, BatchIsSeq, RoomType DEF HeldInv, Held, GroupInv, WorkersInv
<1>3. Budget(v) <= Room * MaxHandle /\ Budget(v) \in Int /\ Room * MaxHandle \in Int
  <2>1. /\ (Room - Len(batch[v])) * MaxHandle \in Nat
        /\ (Room - Len(batch[v])) * MaxHandle + spent[v] <= Room * MaxHandle
    BY <1>2, BudgetGrows
  <2> QED
    BY <1>2, <2>1, RoomType, SMTT(20) DEF Budget
<1>4. idle[batch[v][i]] \in Int
  BY <1>1 DEF GroupInv, LogInv
<1>5. ~(idle[batch[v][i]] >= MinIdle)
  BY <1>2, <1>3, <1>4
<1> QED
  BY <1>1, <1>2, <1>5 DEF Stale, Pending, Given, Workers

\* Two workers hold different entries.
LEMMA HeldByOne ==
    ASSUME HeldInv, NEW v \in Workers, NEW w \in Workers, v # w,
           NEW i \in DOMAIN batch[v], NEW j \in DOMAIN batch[w]
    PROVE  batch[v][i] # batch[w][j]
BY DEF HeldInv, Held

\* A worker that a step of another leaves alone.
LEMMA HeldStays ==
    ASSUME NEW v \in Workers, Held(v),
           pc'[v] = pc[v], batch'[v] = batch[v], spent'[v] = spent[v],
           \A i \in DOMAIN batch[v] : /\ owner'[batch[v][i]] = owner[batch[v][i]]
                                      /\ idle'[batch[v][i]] = idle[batch[v][i]]
    PROVE  Held(v)'
<1>1. Budget(v)' = Budget(v)
  BY DEF Budget
<1>2. Distinct(batch[v])' = Distinct(batch[v])
  BY DEF Distinct
<1> QED
  BY <1>1, <1>2 DEF Held

\* A worker goes on with its batch, with the rest of it, or with nothing.
LEMMA HeldMove ==
    ASSUME GroupInv, HeldInv, NEW w \in Workers, NEW step \in Steps, NEW entries,
           \/ entries = << >>
           \/ entries = batch[w] /\ spent[w] = 0
           \/ entries = Tail(batch[w]) /\ batch[w] # << >>,
           step \notin Holding => entries = << >>,
           Goto(w, step, entries), idle' = idle,
           \/ owner' = owner
           \/ /\ batch[w] # << >> /\ entries \in { << >>, Tail(batch[w]) }
              /\ owner' = [owner EXCEPT ![Head(batch[w])] = Nobody]
    PROVE  HeldInv'
<1> USE GroupAssumption
<1>1. /\ pc' = [pc EXCEPT ![w] = step] /\ pc \in [Workers -> Steps]
      /\ batch' = [batch EXCEPT ![w] = entries] /\ DOMAIN batch = Workers
      /\ spent' = [spent EXCEPT ![w] = 0] /\ spent \in [Workers -> 0..MaxHandle]
      /\ owner \in [Entries -> Workers \cup {Nobody}]
  BY DEF Goto, GroupInv, WorkersInv, LogInv
<1>2. ASSUME NEW v \in Workers, v # w PROVE Held(v)'
  <2>1. pc'[v] = pc[v] /\ batch'[v] = batch[v] /\ spent'[v] = spent[v]
    BY <1>1, <1>2
  <2>2. \A i \in DOMAIN batch[v] : /\ owner'[batch[v][i]] = owner[batch[v][i]]
                                   /\ idle'[batch[v][i]] = idle[batch[v][i]]
    <3>1. CASE owner' = owner
      BY <3>1
    <3>2. CASE batch[w] # << >> /\ owner' = [owner EXCEPT ![Head(batch[w])] = Nobody]
      <4>1. Head(batch[w]) = batch[w][1] /\ 1 \in DOMAIN batch[w]
        BY <3>2, BatchIsSeq, HeadTailProperties, EmptySeq
      <4>2. \A i \in DOMAIN batch[v] : batch[v][i] # Head(batch[w]) /\ batch[v][i] \in Entries
        BY <1>2, <4>1, HeldByOne, BatchIsSeq
      <4> QED
        BY <1>1, <3>2, <4>2
    <3> QED
      BY <3>1, <3>2
  <2>3. Held(v)
    BY DEF HeldInv
  <2> QED
    BY <2>1, <2>2, <2>3, HeldStays
<1>3. Held(w)'
  <2>1. pc'[w] = step /\ batch'[w] = entries /\ spent'[w] = 0
    BY <1>1
  <2>2. Held(w)
    BY DEF HeldInv
  <2>3. CASE entries = << >>
    <3>1. Len(<< >>) = 0 /\ DOMAIN << >> = {}
      OBVIOUS
    <3> QED
      BY <2>1, <2>3, <3>1, RoomType DEF Held, Distinct
  <2>4. CASE entries = batch[w] /\ spent[w] = 0 /\ entries # << >>
    <3>1. Tail(batch[w]) # batch[w] /\ batch[w] # << >>
      <4>1. batch[w] \in Seq(Entries) /\ batch[w] # << >> /\ Len(batch[w]) \in Nat
        BY <2>4, BatchIsSeq
      <4>2. Len(Tail(batch[w])) = Len(batch[w]) - 1
        BY <4>1, HeadTailProperties
      <4>3. Len(Tail(batch[w])) # Len(batch[w])
        BY <4>1, <4>2
      <4> QED
        BY <4>1, <4>3, Zenon
    <3>2. owner' = owner
      BY <2>4, <3>1
    <3> QED
      BY <2>1, <2>2, <2>4, <3>2 DEF Held, Budget, Distinct
  <2>5. CASE entries = Tail(batch[w]) /\ batch[w] # << >>
    <3> DEFINE s == batch[w]
    <3>1. /\ s \in Seq(Entries) /\ Len(s) \in 1..Room /\ DOMAIN s = 1..Len(s)
          /\ \A i \in 1..Len(s) : s[i] \in Entries
      BY <2>2, <2>5, BatchIsSeq, EmptySeq, RoomType DEF Held
    <3>2. /\ Head(s) = s[1] /\ entries \in Seq(Entries) /\ Len(entries) = Len(s) - 1
          /\ \A i \in 1..(Len(s) - 1) : entries[i] = s[i + 1]
      BY <2>5, <3>1, HeadTailProperties
    <3>3. DOMAIN entries = 1..(Len(s) - 1)
      BY <3>2, LenProperties
    <3>4. \A i \in DOMAIN entries : i + 1 \in DOMAIN s /\ entries[i] = s[i + 1] /\ i + 1 # 1
      BY <3>1, <3>2, <3>3
    <3>5. \A i \in DOMAIN entries : owner'[entries[i]] = w
      <4> SUFFICES ASSUME NEW i \in DOMAIN entries PROVE owner'[entries[i]] = w
        OBVIOUS
      <4>1. entries[i] # Head(s) /\ owner[entries[i]] = w /\ entries[i] \in Entries
        <5>1. 1 \in DOMAIN s /\ i + 1 \in DOMAIN s /\ i + 1 # 1 /\ entries[i] = s[i + 1]
          BY <3>1, <3>4
        <5>2. s[i + 1] # s[1]
          BY <2>2, <5>1 DEF Held, Distinct
        <5> QED
          BY <2>2, <3>1, <3>2, <5>1, <5>2 DEF Held
      <4> QED
        BY <1>1, <4>1
    <3>6. \A i \in DOMAIN entries : idle'[entries[i]] <= (Room - Len(entries)) * MaxHandle + 0
      <4> SUFFICES ASSUME NEW i \in DOMAIN entries
                   PROVE  idle'[entries[i]] <= (Room - Len(entries)) * MaxHandle + 0
        OBVIOUS
      <4> DEFINE a == (Room - Len(s)) * MaxHandle + spent[w]
                 b == (Room - (Len(s) - 1)) * MaxHandle + 0
      <4>1. idle[s[i + 1]] <= a
        BY <2>2, <3>4 DEF Held, Budget
      <4>2. a <= b /\ a \in Int /\ b \in Int
        <5>1. spent[w] \in 0..MaxHandle
          BY <1>1
        <5>2. (Room - Len(s)) * MaxHandle \in Nat /\ a <= b
          BY <3>1, <5>1, BudgetGrows
        <5>3. Room - (Len(s) - 1) \in Int /\ MaxHandle \in Int
          BY <3>1, RoomType
        <5>4. (Room - (Len(s) - 1)) * MaxHandle \in Int
          BY <5>3
        <5> QED
          BY <5>1, <5>2, <5>4
      <4>3. idle[s[i + 1]] \in Int
        BY <3>1, <3>4, SMTT(20) DEF GroupInv, LogInv
      <4> HIDE DEF a, b
      <4>4. idle[s[i + 1]] <= b
        BY <4>1, <4>2, <4>3
      <4>5. idle'[entries[i]] = idle[s[i + 1]]
        BY <3>4
      <4> QED
        BY <3>2, <4>4, <4>5 DEF b
    <3>7. Distinct(entries)
      <4>1. Distinct(s)
        BY <2>2 DEF Held
      <4>2. \A i, j \in DOMAIN entries : i # j => i + 1 # j + 1
        BY <3>3
      <4> QED
        BY <3>4, <4>1, <4>2 DEF Distinct
    <3>8. Len(entries) <= Room
      BY <3>1, <3>2, RoomType
    <3> HIDE DEF s
    <3> QED
      BY <2>1, <3>5, <3>6, <3>7, <3>8 DEF Held, Budget
  <2> QED
    BY <2>3, <2>4, <2>5
<1> QED
  BY <1>2, <1>3 DEF HeldInv

\* A worker is given entries that nobody holds.
LEMMA HeldTake ==
    ASSUME GroupInv, HeldInv, NEW w \in Workers,
           NEW entries \in Seq(Entries), Len(entries) <= Room, Distinct(entries),
           owner' = [e \in Entries |->
                        IF \E i \in DOMAIN entries : entries[i] = e THEN w ELSE owner[e]],
           idle' = [e \in Entries |->
                        IF \E i \in DOMAIN entries : entries[i] = e THEN 0 ELSE idle[e]],
           \A v \in Workers \ {w} : \A i \in DOMAIN batch[v] :
              \A j \in DOMAIN entries : batch[v][i] # entries[j],
           Goto(w, "reply", entries)
    PROVE  HeldInv'
<1> USE GroupAssumption
<1>1. /\ pc' = [pc EXCEPT ![w] = "reply"] /\ pc \in [Workers -> Steps]
      /\ batch' = [batch EXCEPT ![w] = entries] /\ DOMAIN batch = Workers
      /\ spent' = [spent EXCEPT ![w] = 0] /\ spent \in [Workers -> 0..MaxHandle]
  BY DEF Goto, GroupInv, WorkersInv, LogInv
<1>2. ASSUME NEW v \in Workers, v # w PROVE Held(v)'
  <2>1. pc'[v] = pc[v] /\ batch'[v] = batch[v] /\ spent'[v] = spent[v]
    BY <1>1, <1>2
  <2>2. \A i \in DOMAIN batch[v] : /\ owner'[batch[v][i]] = owner[batch[v][i]]
                                   /\ idle'[batch[v][i]] = idle[batch[v][i]]
    BY <1>2, BatchIsSeq
  <2>3. Held(v)
    BY DEF HeldInv
  <2> QED
    BY <2>1, <2>2, <2>3, HeldStays
<1>3. Held(w)'
  <2>1. pc'[w] = "reply" /\ batch'[w] = entries /\ spent'[w] = 0
    BY <1>1
  <2>2. Len(entries) \in Nat /\ DOMAIN entries = 1..Len(entries)
        /\ \A i \in DOMAIN entries : entries[i] \in Entries
    BY LenProperties, ElementOfSeq
  <2>3. \A i \in DOMAIN entries : owner'[entries[i]] = w /\ idle'[entries[i]] = 0
    BY <2>2
  <2>4. \A i \in DOMAIN entries : 0 <= (Room - Len(entries)) * MaxHandle + 0
    <3> SUFFICES ASSUME NEW i \in DOMAIN entries
                 PROVE  0 <= (Room - Len(entries)) * MaxHandle + 0
      OBVIOUS
    <3>1. Len(entries) \in 1..Room /\ 0 \in 0..MaxHandle
      BY <2>2, RoomType
    <3>2. (Room - Len(entries)) * MaxHandle \in Nat
      BY <3>1, BudgetGrows
    <3> QED
      BY <3>2
  <2> QED
    BY <2>1, <2>3, <2>4 DEF Held, Budget, Holding
<1> QED
  BY <1>2, <1>3 DEF HeldInv

\* A tick runs the handlers of all that hold entries.
LEMMA HeldTick ==
    ASSUME GroupInv, HeldInv, Tick
    PROVE  HeldInv'
<1> USE GroupAssumption
<1> SUFFICES ASSUME NEW w \in Workers PROVE Held(w)'
  BY DEF HeldInv
<1>1. /\ UNCHANGED << pc, batch, owner >> /\ pc[w] \notin { "reply", "ack" }
      /\ spent' = [v \in Workers |-> IF pc[v] = "handle" THEN spent[v] + 1 ELSE spent[v]]
      /\ idle' = [e \in Entries |-> IF Pending(e) /\ idle[e] < MinIdle THEN idle[e] + 1 ELSE idle[e]]
  BY DEF Tick
<1>2. Held(w)
  BY DEF HeldInv
<1>3. ASSUME NEW i \in DOMAIN batch[w] PROVE idle'[batch[w][i]] <= Budget(w)'
  <2>1. pc[w] = "handle"
    <3>1. batch[w] # << >>
      BY <1>3
    <3> QED
      BY <1>1, <1>2, <3>1 DEF Held, Holding
  <2>2. batch[w][i] \in Entries /\ Len(batch[w]) \in 1..Room /\ spent[w] \in 0..MaxHandle
    BY <1>2, <1>3, BatchIsSeq, RoomType DEF Held, GroupInv, WorkersInv
  <2>3. (Room - Len(batch[w])) * MaxHandle \in Nat
    BY <2>2, BudgetGrows
  <2>4. spent'[w] = spent[w] + 1 /\ batch'[w] = batch[w]
    BY <1>1, <2>1
  <2>5. idle'[batch[w][i]] <= idle[batch[w][i]] + 1 /\ idle[batch[w][i]] \in Int
        /\ idle'[batch[w][i]] \in Int
    BY <1>1, <2>2, SMTT(20) DEF GroupInv, LogInv
  <2>6. idle[batch[w][i]] <= (Room - Len(batch[w])) * MaxHandle + spent[w]
    BY <1>2, <1>3 DEF Held, Budget
  <2> DEFINE m == (Room - Len(batch[w])) * MaxHandle
  <2>7. m \in Nat /\ idle[batch[w][i]] <= m + spent[w]
    BY <2>3, <2>6
  <2> HIDE DEF m
  <2>8. idle'[batch[w][i]] <= m + (spent[w] + 1)
    BY <2>2, <2>5, <2>7, SMTT(20)
  <2> QED
    BY <2>4, <2>8 DEF Budget, m
<1> QED
  BY <1>1, <1>2, <1>3 DEF Held, Distinct

(***************************************************************************)
(* The counts.                                                             *)
(***************************************************************************)

\* A worker that is not about to acknowledge goes anywhere.
LEMMA CountQuiet ==
    ASSUME GroupInv, CountInv, NEW w \in Workers, pc[w] # "ack",
           NEW step \in Steps, NEW entries, Goto(w, step, entries),
           UNCHANGED << handled, unacked >>,
           \A e \in Entries : e > last' => handled[e] = 0,
           \A e \in Entries : Pending(e)' => Pending(e) \/ handled[e] = 0
    PROVE  CountInv'
<1>1. /\ pc' = [pc EXCEPT ![w] = step] /\ pc \in [Workers -> Steps]
      /\ batch' = [batch EXCEPT ![w] = entries] /\ DOMAIN batch = Workers
      /\ handled \in [Entries -> Nat] /\ unacked \in [Entries -> Nat]
  BY DEF Goto, GroupInv, WorkersInv, LogInv
<1>2. ASSUME NEW e \in Entries, Acking(e) PROVE Acking(e)'
  <2>1. PICK v \in Workers : pc[v] = "ack" /\ Head(batch[v]) = e
    BY <1>2 DEF Acking
  <2>2. pc'[v] = "ack" /\ Head(batch'[v]) = e
    BY <1>1, <2>1
  <2> QED
    BY <2>2 DEF Acking
<1>3. \A e \in Entries : Pending(e)' => handled[e] <= unacked[e] \/ Acking(e)'
  BY <1>1, <1>2 DEF CountInv
<1> QED
  BY <1>3 DEF CountInv

\* A handler runs again only on an entry whose successes were all counted.
LEMMA CountSucceed ==
    ASSUME GroupInv, HeldInv, CountInv, Room * MaxHandle < MinIdle,
           NEW w \in Workers, Succeed(w)
    PROVE  CountInv'
<1>0. PICK h \in Entries : h = Head(batch[w])
  BY BatchOf DEF Succeed, Given
<1>1. /\ pc[w] = "handle" /\ pc' = [pc EXCEPT ![w] = "ack"] /\ pc \in [Workers -> Steps]
      /\ handled' = [handled EXCEPT ![h] = @ + 1]
      /\ UNCHANGED << last, owner, batch, unacked >>
      /\ handled \in [Entries -> Nat] /\ unacked \in [Entries -> Nat]
  BY <1>0 DEF Succeed, redis, GroupInv, WorkersInv, LogInv
<1>2. /\ h \in Entries /\ h <= last /\ owner[h] = w /\ Pending(h)
  <2>1. batch[w] # << >>
    BY <1>1, BatchOf
  <2>2. h = batch[w][1] /\ 1 \in DOMAIN batch[w]
    BY <1>0, <2>1, BatchIsSeq, HeadTailProperties, EmptySeq
  <2> QED
    BY <2>2, HeldIsNotStale
<1>3. ~Acking(h)
  <2> SUFFICES ASSUME NEW v \in Workers, pc[v] = "ack", Head(batch[v]) = h PROVE FALSE
    BY DEF Acking
  <2>1. batch[v] # << >>
    BY BatchOf
  <2>2. h = batch[v][1] /\ 1 \in DOMAIN batch[v]
    BY <2>1, BatchIsSeq, HeadTailProperties, EmptySeq
  <2>3. owner[h] = v
    BY <2>2, HeldIsNotStale
  <2> QED
    BY <1>1, <1>2, <2>3
<1>4. handled[h] <= unacked[h] /\ last \in Int
  BY <1>2, <1>3 DEF CountInv, GroupInv, LogInv, NoGroup
<1>5. pc'[w] = "ack" /\ Head(batch'[w]) = h
  BY <1>0, <1>1
<1>6. \A e \in Entries : Acking(e) => Acking(e)'
  BY <1>1 DEF Acking
<1>7. Acking(h)'
  BY <1>5 DEF Acking
<1>8. ASSUME NEW e \in Entries
      PROVE  /\ handled'[e] <= 1 + unacked[e]
             /\ e > last => handled'[e] = 0
             /\ Pending(e) => handled'[e] <= unacked[e] \/ Acking(e)'
  <2>1. CASE e = h
    <3>1. handled'[e] = handled[e] + 1 /\ ~(e > last)
      BY <1>1, <1>2, <1>4, <2>1 DEF Entries
    <3> QED
      BY <1>1, <1>2, <1>4, <1>7, <2>1, <3>1
  <2>2. CASE e # h
    BY <1>1, <1>6, <2>2 DEF CountInv
  <2> QED
    BY <2>1, <2>2
<1>9. \A e \in Entries : Pending(e)' = Pending(e)
  BY <1>1 DEF Pending
<1> QED
  BY <1>1, <1>8, <1>9 DEF CountInv

\* The entry at the head of a batch is settled, or its success is counted.
LEMMA CountAck ==
    ASSUME GroupInv, CountInv, NEW w \in Workers, pc[w] = "ack",
           NEW step \in Steps, NEW entries, Goto(w, step, entries),
           UNCHANGED << last, handled >>,
           \/ RunAck(w) /\ UNCHANGED unacked
           \/ UNCHANGED owner /\ unacked' = [unacked EXCEPT ![Head(batch[w])] = @ + 1]
    PROVE  CountInv'
<1> DEFINE h == Head(batch[w])
<1>1. /\ pc' = [pc EXCEPT ![w] = step] /\ pc \in [Workers -> Steps]
      /\ batch' = [batch EXCEPT ![w] = entries] /\ DOMAIN batch = Workers
      /\ handled \in [Entries -> Nat] /\ unacked \in [Entries -> Nat]
      /\ owner \in [Entries -> Workers \cup {Nobody}]
  BY DEF Goto, GroupInv, WorkersInv, LogInv
<1>2. h \in Entries
  BY BatchOf DEF Given
<1>3. ASSUME NEW e \in Entries, e # h, Acking(e) PROVE Acking(e)'
  <2>1. PICK v \in Workers : pc[v] = "ack" /\ Head(batch[v]) = e
    BY <1>3 DEF Acking
  <2>2. v # w
    BY <1>3, <2>1
  <2>3. pc'[v] = "ack" /\ Head(batch'[v]) = e
    BY <1>1, <2>1, <2>2
  <2> QED
    BY <2>3 DEF Acking
<1> HIDE DEF h
<1>4. CASE RunAck(w) /\ UNCHANGED unacked
  <2>1. \A e \in Entries : Pending(e)' <=> Pending(e) /\ e # h
    BY <1>1, <1>2, <1>4 DEF RunAck, Pending, h
  <2> QED
    BY <1>3, <1>4, <2>1 DEF CountInv
<1>5. CASE UNCHANGED owner /\ unacked' = [unacked EXCEPT ![h] = @ + 1]
  <2>1. \A e \in Entries : Pending(e)' = Pending(e)
    BY <1>5 DEF Pending
  <2>2. /\ unacked'[h] = unacked[h] + 1 /\ unacked[h] \in Nat
        /\ \A e \in Entries : e # h => unacked'[e] = unacked[e]
    BY <1>1, <1>2, <1>5
  <2>3. handled[h] <= 1 + unacked[h] /\ handled[h] \in Nat
    BY <1>1, <1>2 DEF CountInv
  <2>4. ASSUME NEW e \in Entries
        PROVE  /\ handled[e] <= 1 + unacked'[e]
               /\ e > last => handled[e] = 0
               /\ Pending(e) => handled[e] <= unacked'[e] \/ Acking(e)'
    <3>1. CASE e = h
      BY <2>2, <2>3, <3>1 DEF CountInv
    <3>2. CASE e # h
      BY <1>3, <2>2, <3>2 DEF CountInv
    <3> QED
      BY <3>1, <3>2
  <2> QED
    BY <2>1, <2>4 DEF CountInv
<1> QED
  BY <1>4, <1>5 DEF h

(***************************************************************************)
(* Both, action by action.                                                 *)
(***************************************************************************)
RepeatInv == HeldInv /\ CountInv

\* A step that moves one worker and changes neither the group nor a count.
LEMMA RepeatMove ==
    ASSUME GroupInv, RepeatInv, NEW w \in Workers, pc[w] # "ack",
           NEW step \in Steps, NEW entries,
           \/ entries = << >>
           \/ entries = batch[w] /\ spent[w] = 0
           \/ entries = Tail(batch[w]) /\ batch[w] # << >>,
           step \notin Holding => entries = << >>,
           Goto(w, step, entries), UNCHANGED << owner, idle, handled, unacked >>,
           \A e \in Entries : e > last' => handled[e] = 0
    PROVE  RepeatInv'
<1>1. HeldInv'
  BY HeldMove DEF RepeatInv
<1>2. \A e \in Entries : Pending(e)' => Pending(e) \/ handled[e] = 0
  BY DEF Pending
<1>3. CountInv'
  BY <1>2, CountQuiet DEF RepeatInv
<1> QED
  BY <1>1, <1>3 DEF RepeatInv

\* A worker whose handler failed, or that stopped.
LEMMA RepeatFails ==
    ASSUME GroupInv, RepeatInv, NEW w \in Workers,
           Receive(w) \/ DecodeFails(w) \/ Fail(w) \/ Stop(w)
    PROVE  RepeatInv'
<1> USE DEF Steps, Holding
<1>1. /\ pc[w] # "ack" /\ UNCHANGED << owner, idle, last, handled, unacked >>
      /\ \A e \in Entries : e > last' => handled[e] = 0
  BY DEF Receive, DecodeFails, Fail, Stop, redis, history, RepeatInv, CountInv
<1>2. CASE Receive(w)
  <2>1. Goto(w, "handle", batch[w]) /\ spent[w] = 0
    BY <1>2 DEF Receive, RepeatInv, HeldInv, Held
  <2> QED
    BY <1>1, <2>1, RepeatMove
<1>3. CASE Stop(w)
  BY <1>1, <1>3, RepeatMove DEF Stop
<1>4. CASE DecodeFails(w) \/ Fail(w)
  <2>1. pc[w] = "handle" /\ HandlerFails(w)
    BY <1>4 DEF DecodeFails, Fail
  <2>2. batch[w] # << >>
    BY <2>1, BatchOf
  <2>3. \E step \in Steps : \E entries \in { << >>, Tail(batch[w]) } :
           Goto(w, step, entries) /\ (step \notin Holding => entries = << >>)
    BY <2>1, <2>2 DEF HandlerFails, Continue
  <2> QED
    BY <1>1, <2>2, <2>3, RepeatMove
<1> QED
  BY <1>2, <1>3, <1>4

\* An ack, or one that failed.
LEMMA RepeatAck ==
    ASSUME GroupInv, RepeatInv, NEW w \in Workers, Ack(w) \/ AckFails(w)
    PROVE  RepeatInv'
<1> USE DEF Steps, Holding
<1>1. /\ pc[w] = "ack" /\ UNCHANGED << idle, last, handled >>
      /\ \/ RunAck(w) /\ UNCHANGED unacked
         \/ UNCHANGED owner /\ unacked' = [unacked EXCEPT ![Head(batch[w])] = @ + 1]
  BY DEF Ack, AckFails, history
<1>2. batch[w] # << >>
  BY <1>1, BatchOf
<1>3. \E step \in Steps : \E entries \in { << >>, Tail(batch[w]) } :
         Goto(w, step, entries) /\ (step \notin Holding => entries = << >>)
  BY DEF Ack, AckFails, Continue
<1>4. PICK step \in Steps, entries \in { << >>, Tail(batch[w]) } :
         Goto(w, step, entries) /\ (step \notin Holding => entries = << >>)
  BY <1>3
<1>5. HeldInv'
  BY <1>1, <1>2, <1>4, HeldMove DEF RepeatInv, RunAck
<1>6. CountInv'
  BY <1>1, <1>4, CountAck DEF RepeatInv
<1> QED
  BY <1>5, <1>6 DEF RepeatInv

\* A consumer without a batch.
LEMMA RepeatConsume ==
    ASSUME GroupInv, RepeatInv, NEW c \in Consumers,
           Begin(c) \/ EnsureGroup(c) \/ EnsureGroupFails(c) \/ Connect(c) \/ Drop(c)
    PROVE  RepeatInv'
<1> USE DEF Steps, Holding
<1>1. c \in Workers /\ pc[c] # "ack" /\ UNCHANGED << owner, idle, handled, unacked >>
  BY DEF Begin, EnsureGroup, EnsureGroupFails, Connect, Drop, redis, history, Workers
<1>2. \E step \in Steps : Goto(c, step, << >>)
  BY DEF Begin, EnsureGroup, EnsureGroupFails, Connect, Drop
<1>3. \A e \in Entries : e > last' => handled[e] = 0
  <2>1. UNCHANGED last \/ start = NoGroup
    BY DEF Begin, EnsureGroup, EnsureGroupFails, Connect, Drop, redis, CreateGroup
  <2>2. CASE UNCHANGED last
    BY <2>2 DEF RepeatInv, CountInv
  <2>3. CASE start = NoGroup
    <3>1. \A e \in Entries : e > last
      BY <2>3 DEF GroupInv, LogInv, Entries, NoGroup
    <3> QED
      BY <3>1 DEF RepeatInv, CountInv
  <2> QED
    BY <2>1, <2>2, <2>3
<1> QED
  BY <1>1, <1>2, <1>3, RepeatMove

\* The ids of a reply are distinct, and after those that were handed out.
LEMMA IdsAreDistinct ==
    ASSUME NEW a \in Nat, NEW b \in Nat, a <= b
    PROVE  /\ Len(Ids(a, b)) = b - a + 1 /\ DOMAIN Ids(a, b) = 1..(b - a + 1)
           /\ Distinct(Ids(a, b))
           /\ \A e \in Nat : (\E i \in DOMAIN Ids(a, b) : Ids(a, b)[i] = e) <=> a <= e /\ e <= b
<1>1. Ids(a, b) = [i \in 1..(b - a + 1) |-> a + i - 1] /\ b - a + 1 \in Nat
  BY DEF Ids
<1>2. DOMAIN Ids(a, b) = 1..(b - a + 1) /\ Len(Ids(a, b)) = b - a + 1
  BY <1>1
<1>3. \A i \in 1..(b - a + 1) : Ids(a, b)[i] = a + i - 1
  BY <1>1
<1>4. Distinct(Ids(a, b))
  BY <1>2, <1>3 DEF Distinct
<1>5. ASSUME NEW e \in Nat
      PROVE  (\E i \in DOMAIN Ids(a, b) : Ids(a, b)[i] = e) <=> a <= e /\ e <= b
  <2>1. ASSUME a <= e, e <= b PROVE \E i \in DOMAIN Ids(a, b) : Ids(a, b)[i] = e
    <3>1. e - a + 1 \in 1..(b - a + 1) /\ a + (e - a + 1) - 1 = e
      BY <2>1
    <3> QED
      BY <1>2, <1>3, <3>1
  <2>2. ASSUME NEW i \in DOMAIN Ids(a, b), Ids(a, b)[i] = e PROVE a <= e /\ e <= b
    BY <1>2, <1>3, <2>2
  <2> QED
    BY <2>1, <2>2
<1> QED
  BY <1>2, <1>4, <1>5

\* XREADGROUP gives out entries that nobody holds or has handled.
LEMMA RepeatRead ==
    ASSUME GroupInv, RepeatInv, Room * MaxHandle < MinIdle,
           NEW c \in Consumers, ReadGroup(c)
    PROVE  RepeatInv'
<1> USE GroupAssumption DEF NoGroup, Live
<1>1. /\ last \in Nat /\ appended \in 0..MaxEntries /\ last < appended
      /\ c \in Workers /\ pc[c] = "read"
  BY DEF ReadGroup, GroupInv, WorkersInv, LogInv, Workers
<1>2. PICK end \in Nat : end = IF appended - last > Count THEN last + Count ELSE appended
  BY <1>1
<1>3. last + 1 <= end /\ end <= appended /\ end - last <= Count /\ end \in 0..MaxEntries
  BY <1>1, <1>2
<1>4. /\ last' = end
      /\ owner' = [e \in Entries |-> IF last < e /\ e <= end THEN c ELSE owner[e]]
      /\ idle' = [e \in Entries |-> IF last < e /\ e <= end THEN 0 ELSE idle[e]]
      /\ Goto(c, "reply", Ids(last + 1, end))
      /\ UNCHANGED << handled, unacked >>
  BY <1>2 DEF ReadGroup, history
<1>5. PICK entries : entries = Ids(last + 1, end)
  OBVIOUS
<1>6. /\ Len(entries) = end - last /\ DOMAIN entries = 1..(end - last) /\ Distinct(entries)
      /\ \A e \in Nat : (\E i \in DOMAIN entries : entries[i] = e) <=> last < e /\ e <= end
  <2> DEFINE a == last + 1
  <2>1. a \in Nat /\ a <= end /\ end - a + 1 = end - last
    BY <1>1, <1>3
  <2>2. \A e \in Nat : a <= e <=> last < e
    BY <1>1
  <2>3. entries = Ids(a, end)
    BY <1>5
  <2> HIDE DEF a
  <2>4. /\ Len(Ids(a, end)) = end - a + 1 /\ DOMAIN Ids(a, end) = 1..(end - a + 1)
        /\ Distinct(Ids(a, end))
        /\ \A e \in Nat : (\E i \in DOMAIN Ids(a, end) : Ids(a, end)[i] = e) <=> a <= e /\ e <= end
    BY <2>1, IdsAreDistinct
  <2> QED
    BY <2>1, <2>2, <2>3, <2>4
<1>7. entries \in Seq(Entries) /\ Len(entries) <= Room
  <2>1. \A e \in (last + 1)..end : e \in Entries
    BY <1>1, <1>3 DEF Entries
  <2>2. last + 1 \in Nat
    BY <1>1
  <2> QED
    BY <1>3, <1>5, <1>6, <2>1, <2>2, IdsInSet, RoomType
<1>8. \A e \in Entries : (\E i \in DOMAIN entries : entries[i] = e) <=> last < e /\ e <= end
  BY <1>6 DEF Entries
<1>9. /\ owner' = [e \in Entries |->
                      IF \E i \in DOMAIN entries : entries[i] = e THEN c ELSE owner[e]]
      /\ idle' = [e \in Entries |->
                      IF \E i \in DOMAIN entries : entries[i] = e THEN 0 ELSE idle[e]]
  BY <1>4, <1>8
<1>10. \A v \in Workers \ {c} : \A i \in DOMAIN batch[v] :
          \A j \in DOMAIN entries : batch[v][i] # entries[j]
  <2> SUFFICES ASSUME NEW v \in Workers \ {c}, NEW i \in DOMAIN batch[v],
                      NEW j \in DOMAIN entries, batch[v][i] = entries[j]
               PROVE  FALSE
    OBVIOUS
  <2>1. batch[v][i] \in Entries /\ batch[v][i] <= last
    BY HeldIsNotStale DEF RepeatInv
  <2>2. last < batch[v][i]
    BY <1>8, <2>1
  <2> QED
    BY <1>1, <2>1, <2>2 DEF Entries
<1>11. HeldInv'
  <2>1. Goto(c, "reply", entries)
    BY <1>4, <1>5
  <2> QED
    BY <1>1, <1>6, <1>7, <1>9, <1>10, <2>1, HeldTake DEF RepeatInv
<1>12. CountInv'
  <2>1. \A e \in Entries : e > last' => handled[e] = 0
    BY <1>1, <1>3, <1>4 DEF RepeatInv, CountInv, Entries
  <2>2. \A e \in Entries : Pending(e)' => Pending(e) \/ handled[e] = 0
    BY <1>1, <1>4 DEF RepeatInv, CountInv, Pending, Entries
  <2>3. pc[c] # "ack" /\ "reply" \in Steps
    BY <1>1 DEF Steps
  <2> QED
    BY <1>1, <1>4, <2>1, <2>2, <2>3, CountQuiet DEF RepeatInv
<1> QED
  BY <1>11, <1>12 DEF RepeatInv

\* A claim takes stale entries, which nobody holds.
LEMMA RepeatClaim ==
    ASSUME GroupInv, RepeatInv, Room * MaxHandle < MinIdle, Claim
    PROVE  RepeatInv'
<1> USE GroupAssumption
<1>1. PICK n \in 1..ClaimCount : \E claimed \in [1..n -> Stale] :
         /\ AreFirst(claimed, ClaimCount, Stale)
         /\ owner' = [e \in Entries |-> IF \E i \in 1..n : claimed[i] = e THEN Claimer ELSE owner[e]]
         /\ idle' = [e \in Entries |-> IF \E i \in 1..n : claimed[i] = e THEN 0 ELSE idle[e]]
         /\ Goto(Claimer, "reply", claimed)
  BY DEF Claim, ClaimFrom
<1>2. PICK claimed \in [1..n -> Stale] :
         /\ AreFirst(claimed, ClaimCount, Stale)
         /\ owner' = [e \in Entries |-> IF \E i \in 1..n : claimed[i] = e THEN Claimer ELSE owner[e]]
         /\ idle' = [e \in Entries |-> IF \E i \in 1..n : claimed[i] = e THEN 0 ELSE idle[e]]
         /\ Goto(Claimer, "reply", claimed)
  BY <1>1
<1>3. /\ UNCHANGED << last, handled, unacked >> /\ pc[Claimer] = "off" /\ Claimer \in Workers
  BY DEF Claim, ClaimFrom, history, Workers
<1>4. n \in Nat /\ DOMAIN claimed = 1..n /\ \A i \in 1..n : claimed[i] \in Entries /\ claimed[i] \in Stale
  BY DEF Stale
<1>5. claimed \in Seq(Entries) /\ Len(claimed) = n
  <2>1. claimed = [i \in 1..n |-> claimed[i]]
    BY <1>2
  <2>2. claimed \in Seq(Entries)
    BY <1>4, <2>1, IsASeq
  <2> QED
    BY <1>4, <2>2, LenProperties
<1>6. Len(claimed) <= Room
  BY <1>4, <1>5, RoomType
<1>7. Distinct(claimed)
  <2>1. \A i, j \in 1..n : i < j => claimed[i] < claimed[j]
    BY <1>2, <1>4 DEF AreFirst
  <2>2. \A i \in 1..n : claimed[i] \in Int
    BY <1>4 DEF Entries
  <2>3. \A i, j \in 1..n : i # j => i < j \/ j < i
    OBVIOUS
  <2>4. \A i, j \in 1..n : i # j => claimed[i] # claimed[j]
    BY <2>1, <2>2, <2>3
  <2> QED
    BY <1>4, <2>4 DEF Distinct
<1>8. \A v \in Workers \ {Claimer} : \A i \in DOMAIN batch[v] :
         \A j \in DOMAIN claimed : batch[v][i] # claimed[j]
  BY <1>4, HeldIsNotStale DEF RepeatInv
<1>9. HeldInv'
  <2>1. /\ owner' = [e \in Entries |->
                       IF \E i \in DOMAIN claimed : claimed[i] = e THEN Claimer ELSE owner[e]]
        /\ idle' = [e \in Entries |->
                       IF \E i \in DOMAIN claimed : claimed[i] = e THEN 0 ELSE idle[e]]
    BY <1>2, <1>4
  <2> QED
    BY <1>2, <1>3, <1>5, <1>6, <1>7, <1>8, <2>1, HeldTake DEF RepeatInv
<1>10. CountInv'
  <2>1. \A e \in Entries : Pending(e)' => Pending(e) \/ handled[e] = 0
    BY <1>2, <1>4 DEF Pending, Stale
  <2>2. \A e \in Entries : e > last' => handled[e] = 0
    BY <1>3 DEF RepeatInv, CountInv
  <2>3. pc[Claimer] # "ack" /\ "reply" \in Steps
    BY <1>3 DEF Steps
  <2> QED
    BY <1>2, <1>3, <2>1, <2>2, <2>3, CountQuiet DEF RepeatInv
<1> QED
  BY <1>9, <1>10 DEF RepeatInv

\* A success.
LEMMA RepeatSucceed ==
    ASSUME GroupInv, RepeatInv, Room * MaxHandle < MinIdle, NEW w \in Workers, Succeed(w)
    PROVE  RepeatInv'
<1>1. CountInv'
  BY CountSucceed DEF RepeatInv
<1>2. /\ UNCHANGED << owner, idle, batch, spent >> /\ pc[w] = "handle"
      /\ pc' = [pc EXCEPT ![w] = "ack"] /\ pc \in [Workers -> Steps]
  BY DEF Succeed, redis, GroupInv, WorkersInv
<1>3. HeldInv'
  BY <1>2 DEF RepeatInv, HeldInv, Held, Budget, Distinct, Holding
<1> QED
  BY <1>1, <1>3 DEF RepeatInv

\* Whatever drops, fails, stops or is claimed, an entry is handled again only
\* after a success whose ack was lost, when the handlers of a whole chunk take
\* less than minIdle (Redis.ts:367-378, :385, :1019-1021).
THEOREM RepeatedOnlyIfUnackedHolds ==
    ASSUME Room * MaxHandle < MinIdle
    PROVE  Spec => []RepeatedOnlyIfUnacked
<1>1. Init => RepeatInv
  <2> SUFFICES ASSUME Init PROVE RepeatInv
    OBVIOUS
  <2>1. \A w \in Workers : pc[w] = "off" /\ batch[w] = << >> /\ spent[w] = 0
    BY DEF Init
  <2>2. Len(<< >>) = 0 /\ DOMAIN << >> = {}
    OBVIOUS
  <2>3. HeldInv
    BY <2>1, <2>2, RoomType DEF HeldInv, Held, Distinct
  <2>4. CountInv
    BY DEF Init, CountInv, Pending
  <2> QED
    BY <2>3, <2>4 DEF RepeatInv
<1>2. GroupInv /\ RepeatInv /\ [Next]_vars => RepeatInv'
  <2> SUFFICES ASSUME GroupInv, RepeatInv, [Next]_vars PROVE RepeatInv'
    OBVIOUS
  <2>1. CASE AppendEntry \/ UNCHANGED vars
    <3>1. UNCHANGED << last, owner, idle, pc, batch, spent, handled, unacked >>
      BY <2>1 DEF AppendEntry, vars, workers, history
    <3> QED
      BY <3>1 DEF RepeatInv, HeldInv, Held, Budget, CountInv, Pending, Acking
  <2>2. CASE \E c \in Consumers : Consume(c) \/ EnsureGroupFails(c) \/ Drop(c)
    BY <2>2, RepeatConsume, RepeatRead DEF Consume
  <2>3. CASE \E w \in Workers : Work(w) \/ Fail(w) \/ AckFails(w) \/ Stop(w)
    BY <2>3, RepeatSucceed, RepeatFails, RepeatAck DEF Work
  <2>4. CASE Claim
    BY <2>4, RepeatClaim
  <2>5. CASE Tick
    <3>1. HeldInv'
      BY <2>5, HeldTick DEF RepeatInv
    <3>2. UNCHANGED << last, owner, pc, batch, handled, unacked >>
      BY <2>5 DEF Tick, history
    <3>3. CountInv'
      BY <3>2 DEF RepeatInv, CountInv, Pending, Acking
    <3> QED
      BY <3>1, <3>3 DEF RepeatInv
  <2> QED
    BY <2>1, <2>2, <2>3, <2>4, <2>5 DEF Next
<1>3. RepeatInv => RepeatedOnlyIfUnacked
  BY DEF RepeatInv, CountInv, RepeatedOnlyIfUnacked
<1> QED
  BY <1>1, <1>2, <1>3, GroupInvHolds, PTL DEF Spec

(***************************************************************************)
(* The lists that Redis makes of a set of entries (GroupWire).             *)
(***************************************************************************)

\* A listing of a set of entries in the order of their ids.
IsListing(s, S) ==
    /\ s \in [1..Cardinality(S) -> S]
    /\ \A i, j \in DOMAIN s : i < j => s[i] < s[j]

\* A set of numbers has a least one.
LEMMA LeastOf ==
    ASSUME NEW T, T \subseteq Nat, T # {}
    PROVE  \E m \in T : \A k \in T : m <= k
<1>1. \E m \in T : \A k \in T : ~ (<< k, m >> \in OpToRel(<, Nat))
  BY WFMin, NatLessThanWellFounded, Zenon
<1>2. PICK m \in T : \A k \in T : << k, m >> \notin OpToRel(<, Nat)
  BY <1>1
<1>3. ASSUME NEW k \in T PROVE ~ (k < m)
  <2>1. << k, m >> \in OpToRel(<, Nat) <=> k \in Nat /\ m \in Nat /\ k < m
    BY Zenon DEF OpToRel
  <2>2. k \in Nat /\ m \in Nat
    OBVIOUS
  <2> QED
    BY <1>2, <2>1, <2>2
<1>4. \A k \in T : k \in Int
  OBVIOUS
<1>5. m \in T
  BY <1>2, Zenon
<1> QED
  BY <1>3, <1>4, <1>5

\* Entries are finitely many, at most MaxEntries.
LEMMA SomeEntries ==
    ASSUME NEW S, S \subseteq Entries
    PROVE  IsFiniteSet(S) /\ Cardinality(S) \in 0..MaxEntries
<1>1. MaxEntries \in Nat /\ IsFiniteSet(Entries) /\ Cardinality(Entries) = MaxEntries
  BY GroupAssumption, FS_Interval DEF Entries
<1>2. IsFiniteSet(S) /\ Cardinality(S) <= Cardinality(Entries)
  BY <1>1, FS_Subset
<1>3. Cardinality(S) \in Nat
  BY <1>2, FS_CardinalityType
<1> QED
  BY <1>1, <1>2, <1>3

\* One more entry, after all others of a listing.
LEMMA OneMore ==
    ASSUME NEW S, IsFiniteSet(S), S \subseteq Int, NEW m \in Int, \A e \in S : e < m,
           NEW s, IsListing(s, S)
    PROVE  \E t : IsListing(t, S \cup {m})
<1>1. PICK n \in Nat : n = Cardinality(S)
  BY FS_CardinalityType
<1>2. Cardinality(S \cup {m}) = n + 1
  <2>1. m \notin S
    OBVIOUS
  <2> QED
    BY <1>1, <2>1, FS_AddElement
<1>3. s \in [1..n -> S] /\ \A i, j \in 1..n : i < j => s[i] < s[j]
  BY <1>1 DEF IsListing
<1> DEFINE t == [i \in 1..(n + 1) |-> IF i = n + 1 THEN m ELSE s[i]]
<1>4. t \in [1..(n + 1) -> S \cup {m}]
  BY <1>3
<1>5. ASSUME NEW i \in 1..(n + 1), NEW j \in 1..(n + 1), i < j PROVE t[i] < t[j]
  <2>1. i \in 1..n /\ t[i] = s[i] /\ s[i] \in S
    BY <1>3, <1>5
  <2>2. CASE j = n + 1
    BY <2>1, <2>2
  <2>3. CASE j # n + 1
    <3>1. j \in 1..n /\ t[j] = s[j]
      BY <2>3
    <3> QED
      BY <1>3, <1>5, <2>1, <3>1
  <2> QED
    BY <2>2, <2>3
<1> HIDE DEF t
<1>6. IsListing(t, S \cup {m})
  BY <1>2, <1>4, <1>5 DEF IsListing
<1> QED
  BY <1>6

\* Every set of entries has a listing.
LEMMA ListingExists ==
    ASSUME NEW S, S \subseteq Entries
    PROVE  \E s : IsListing(s, S)
<1> DEFINE Upto(k) == { e \in S : e <= k }
           T == { k \in 0..MaxEntries : ~ \E s : IsListing(s, Upto(k)) }
<1>1. MaxEntries \in Nat /\ \A e \in S : e \in Int /\ 1 <= e /\ e <= MaxEntries
  BY GroupAssumption DEF Entries
<1>2. Upto(MaxEntries) = S
  BY <1>1
<1>3. SUFFICES T = {}
  <2>1. MaxEntries \in 0..MaxEntries
    BY <1>1
  <2>2. MaxEntries \notin T
    BY <1>3
  <2> QED
    BY <1>2, <2>1, <2>2
<1>4. SUFFICES ASSUME T # {} PROVE FALSE
  OBVIOUS
<1>5. PICK m \in T : \A k \in T : m <= k
  <2>1. T \subseteq Nat
    BY <1>1
  <2> HIDE DEF T
  <2> QED
    BY <1>4, <2>1, LeastOf
<1>6. m \in 0..MaxEntries /\ m \in Int /\ ~ \E s : IsListing(s, Upto(m))
  BY <1>1
<1>7. m # 0
  <2>1. Upto(0) = {}
    BY <1>1
  <2>2. Cardinality({}) = 0
    BY FS_EmptySet
  <2> DEFINE s == [i \in 1..0 |-> 0]
  <2>3. IsListing(s, {})
    BY <2>2 DEF IsListing
  <2> HIDE DEF s
  <2> QED
    BY <1>6, <2>1, <2>3
<1>8. m - 1 \in 0..MaxEntries /\ m - 1 \notin T
  BY <1>1, <1>5, <1>6, <1>7
<1>9. PICK s : IsListing(s, Upto(m - 1))
  BY <1>8
<1>10. CASE m \in S
  <2>1. Upto(m) = Upto(m - 1) \cup {m}
    <3>1. \A e \in S : e <= m <=> e <= m - 1 \/ e = m
      BY <1>1, <1>6
    <3> QED
      BY <1>6, <1>10, <3>1
  <2>2. Upto(m - 1) \subseteq Entries /\ Upto(m - 1) \subseteq Int /\ \A e \in Upto(m - 1) : e < m
    BY <1>1, <1>6
  <2>3. IsFiniteSet(Upto(m - 1))
    BY <2>2, SomeEntries
  <2> HIDE DEF Upto, T
  <2>4. \E t : IsListing(t, Upto(m - 1) \cup {m})
    BY <1>6, <1>9, <2>2, <2>3, OneMore
  <2> QED
    BY <1>6, <2>1, <2>4
<1>11. CASE m \notin S
  <2>1. Upto(m) = Upto(m - 1)
    BY <1>1, <1>6, <1>11
  <2> HIDE DEF Upto, T
  <2> QED
    BY <1>6, <1>9, <2>1
<1> QED
  BY <1>10, <1>11

\* Redis lists a set of entries each once and in the order of their ids.
LEMMA Listed ==
    ASSUME NEW S, S \subseteq Entries
    PROVE  /\ IsListing(InOrder(S), S)
           /\ DOMAIN InOrder(S) = 1..Cardinality(S)
           /\ \A e \in S : \E i \in 1..Cardinality(S) : InOrder(S)[i] = e
<1> DEFINE es == InOrder(S)
<1>1. IsListing(es, S)
  <2>1. PICK s : IsListing(s, S)
    BY ListingExists
  <2>2. \E x \in [1..Cardinality(S) -> S] : \A i, j \in DOMAIN x : i < j => x[i] < x[j]
    BY <2>1 DEF IsListing
  <2> QED
    BY <2>2 DEF IsListing, InOrder
<1>2. PICK n \in Nat : n = Cardinality(S) /\ IsFiniteSet(S)
  BY SomeEntries, GroupAssumption
<1> HIDE DEF es
<1>3. es \in [1..n -> S] /\ \A i, j \in 1..n : i < j => es[i] < es[j]
  BY <1>1, <1>2 DEF IsListing
<1>4. IsInjective(es)
  <2>1. S \subseteq Int
    BY DEF Entries
  <2>2. ASSUME NEW i \in 1..n, NEW j \in 1..n, es[i] = es[j] PROVE i = j
    <3>a. es[i] \in Int /\ es[j] \in Int
      BY <1>3, <2>1
    <3>1. ~ (es[i] < es[j]) /\ ~ (es[j] < es[i])
      BY <2>2, <3>a
    <3>2. ~ (i < j) /\ ~ (j < i)
      BY <1>3, <3>1
    <3> QED
      BY <3>2
  <2> QED
    BY <1>3, <2>2 DEF IsInjective
<1>5. es \in Injection(1..n, S)
  BY <1>3, <1>4 DEF Injection
<1>6. Cardinality(1..n) = n
  BY <1>2, FS_Interval
<1>7. es \in Surjection(1..n, S)
  BY <1>2, <1>5, <1>6, FS_Injection
<1> QED
  BY <1>1, <1>2, <1>3, <1>7 DEF Surjection, es

(***************************************************************************)
(* What the library reads in the replies (Replies): numbers and texts,     *)
(* lists of results, then the reply to each command.                       *)
(***************************************************************************)

\* The length of what is indexed from 1 to n.
LEMMA Length ==
    ASSUME NEW s, NEW n \in Nat, DOMAIN s = 1..n
    PROVE  Len(s) = n
BY LenProperties

\* Numbers are read back from their texts.
LEMMA NumeralText ==
    ASSUME NEW n \in Numerals
    PROVE  /\ TextNumber(IntText(n)) = n
           /\ n \in Int /\ -Infinity < n /\ n < Infinity
           /\ IntText(n) \notin OtherTexts
<1>1. n \in Int /\ -Infinity < n /\ n < Infinity
  BY NumeralsAssumption
<1> DEFINE s == IntText(n)
<1>2. s \notin OtherTexts /\ \A m \in Numerals : IntText(m) = s => m = n
  BY NumeralsAssumption
<1>3. (CHOOSE m \in Numerals : IntText(m) = s) = n
  BY <1>2
<1>4. TextNumber(s) = n
  BY <1>2, <1>3 DEF TextNumber, OtherTexts
<1> QED
  BY <1>1, <1>2, <1>4

\* Scalar replies, and arrays.
LEMMA Scalars ==
    /\ \A s : AsText(Str(s)) = Some(s) /\ DecodeString(Str(s)) = Ok(s)
    /\ \A s : Str(s) # Nil /\ DecodeOptionString(Str(s)) = Ok(Some(s))
    /\ DecodeOptionString(Nil) = Ok(None)
    /\ \A n : DecodeNumber(Num(n)) = Ok(n)
    /\ \A xs : Arr(xs) # Nil /\ Arr(xs).t = "array" /\ Arr(xs).v = xs
BY DEF AsText, DecodeString, DecodeNumber, DecodeOptionString, Map, Str, Num, Arr, Nil, Some, Ok, Failed

\* A numeral sent as a text is decoded as its number.
LEMMA NumeralReply ==
    ASSUME NEW n \in Numerals
    PROVE  DecodeNumber(Str(IntText(n))) = Ok(n)
<1>1. TextNumber(IntText(n)) = n /\ IntText(n) # ""
  BY NumeralText DEF OtherTexts
<1>2. n # NaN
  <2>1. Infinity \in Nat /\ n \in Int /\ n < Infinity
    BY NumeralText, NumeralsAssumption
  <2> QED
    BY <2>1 DEF NaN
<1> QED
  BY <1>1, <1>2 DEF DecodeNumber, Str, Ok

\* A list of results.
LEMMA AllOk ==
    ASSUME NEW rs, NEW xs, xs = [i \in DOMAIN xs |-> xs[i]], DOMAIN rs = DOMAIN xs,
           \A i \in DOMAIN xs : rs[i] = Ok(xs[i])
    PROVE  All(rs) = Ok(xs)
<1>1. \A i \in DOMAIN rs : rs[i] # Failed /\ rs[i][1] = xs[i]
  BY DEF Ok, Failed
<1>2. [i \in DOMAIN rs |-> rs[i][1]] = [i \in DOMAIN xs |-> xs[i]]
  BY <1>1
<1> QED
  BY <1>1, <1>2 DEF All

\* One failure fails the list.
LEMMA AllFail ==
    ASSUME NEW rs, NEW i \in DOMAIN rs, rs[i] = Failed
    PROVE  All(rs) = Failed
BY DEF All

\* Two results.
LEMMA TwoOk ==
    ASSUME NEW a, NEW b
    PROVE  All(<< Ok(a), Ok(b) >>) = Ok(<< a, b >>)
<1> DEFINE xs == << a, b >>
           rs == << Ok(a), Ok(b) >>
<1>1. xs = [i \in DOMAIN xs |-> xs[i]] /\ DOMAIN rs = DOMAIN xs
  OBVIOUS
<1>2. \A i \in DOMAIN xs : rs[i] = Ok(xs[i])
  OBVIOUS
<1> HIDE DEF xs, rs
<1>3. All(rs) = Ok(xs)
  BY <1>1, <1>2, AllOk
<1> QED
  BY <1>3 DEF xs, rs

\* Three results.
LEMMA ThreeOk ==
    ASSUME NEW a, NEW b, NEW c
    PROVE  All(<< Ok(a), Ok(b), Ok(c) >>) = Ok(<< a, b, c >>)
<1> DEFINE xs == << a, b, c >>
           rs == << Ok(a), Ok(b), Ok(c) >>
<1>1. xs = [i \in DOMAIN xs |-> xs[i]] /\ DOMAIN rs = DOMAIN xs
  OBVIOUS
<1>2. \A i \in DOMAIN xs : rs[i] = Ok(xs[i])
  OBVIOUS
<1> HIDE DEF xs, rs
<1>3. All(rs) = Ok(xs)
  BY <1>1, <1>2, AllOk
<1> QED
  BY <1>3 DEF xs, rs

\* Four results.
LEMMA FourOk ==
    ASSUME NEW a, NEW b, NEW c, NEW d
    PROVE  All(<< Ok(a), Ok(b), Ok(c), Ok(d) >>) = Ok(<< a, b, c, d >>)
<1> DEFINE xs == << a, b, c, d >>
           rs == << Ok(a), Ok(b), Ok(c), Ok(d) >>
<1>1. xs = [i \in DOMAIN xs |-> xs[i]] /\ DOMAIN rs = DOMAIN xs
  OBVIOUS
<1>2. \A i \in DOMAIN xs : rs[i] = Ok(xs[i])
  OBVIOUS
<1> HIDE DEF xs, rs
<1>3. All(rs) = Ok(xs)
  BY <1>1, <1>2, AllOk
<1> QED
  BY <1>3 DEF xs, rs

\* Rows of XPENDING are read as they were sent.
LEMMA RowsReply ==
    ASSUME NEW rows, NEW n \in Nat,
           rows = [i \in 1..n |-> << rows[i][1], rows[i][2], rows[i][3], rows[i][4] >>]
    PROVE  DecodePendingEntries(PendingEntriesReply(rows)) = Ok(rows)
<1> DEFINE reply(r) == Arr(<< Str(r[1]), Str(r[2]), Num(r[3]), Num(r[4]) >>)
           v == [i \in DOMAIN rows |-> reply(rows[i])]
           row(r) == IF r.t # "array" \/ Len(r.v) # 4 THEN Failed
                     ELSE All(<< DecodeString(r.v[1]), DecodeString(r.v[2]),
                                 DecodeNumber(r.v[3]), DecodeNumber(r.v[4]) >>)
           rs == [i \in DOMAIN v |-> row(v[i])]
<1>1. PendingEntriesReply(rows) = Arr(v)
  BY DEF PendingEntriesReply, ArrayReply
<1>2. DecodePendingEntries(Arr(v)) = All(rs)
  <2>1. Arr(v) # Nil /\ DecodeArray(Arr(v)) # Failed /\ DecodeArray(Arr(v))[1] = v
    BY Scalars DEF DecodeArray, Ok, Failed
  <2> QED
    BY <2>1, ZenonT(30) DEF DecodePendingEntries, ArrayOf, ForEach
<1>3. ASSUME NEW a, NEW b, NEW c, NEW d
      PROVE  row(Arr(<< Str(a), Str(b), Num(c), Num(d) >>)) = Ok(<< a, b, c, d >>)
  <2> DEFINE r == Arr(<< Str(a), Str(b), Num(c), Num(d) >>)
  <2>1. /\ r.t = "array" /\ r.v = << Str(a), Str(b), Num(c), Num(d) >> /\ Len(r.v) = 4
        /\ r.v[1] = Str(a) /\ r.v[2] = Str(b) /\ r.v[3] = Num(c) /\ r.v[4] = Num(d)
    BY Scalars
  <2>2. row(r) = All(<< Ok(a), Ok(b), Ok(c), Ok(d) >>)
    BY <2>1, Scalars
  <2> QED
    BY <2>2, FourOk
<1>4. ASSUME NEW i \in 1..n PROVE rs[i] = Ok(rows[i])
  <2>1. v[i] = reply(rows[i]) /\ rs[i] = row(v[i])
    OBVIOUS
  <2>2. rows[i] = << rows[i][1], rows[i][2], rows[i][3], rows[i][4] >>
    OBVIOUS
  <2>3. row(reply(rows[i])) = Ok(<< rows[i][1], rows[i][2], rows[i][3], rows[i][4] >>)
    BY <1>3
  <2> HIDE DEF row, reply, v, rs
  <2> QED
    BY <2>1, <2>2, <2>3
<1>5. DOMAIN rs = 1..n /\ DOMAIN rows = 1..n /\ rows = [i \in DOMAIN rows |-> rows[i]]
  OBVIOUS
<1> HIDE DEF rs, v
<1>6. All(rs) = Ok(rows)
  BY <1>4, <1>5, AllOk
<1> QED
  BY <1>1, <1>2, <1>6

\* So is the summary, with the least and the greatest id.
LEMMA SummaryReply ==
    ASSUME NEW rows, NEW n \in Nat, n > 0, DOMAIN rows = 1..n,
           NEW counts, NEW m \in Nat, counts = [i \in 1..m |-> << counts[i][1], counts[i][2] >>],
           \A i \in 1..m : counts[i][2] \in Numerals
    PROVE  DecodePendingSummary(PendingSummaryReply(rows, counts)) =
              Ok(<< n, Some(rows[1][1]), Some(rows[n][1]), counts >>)
<1> DEFINE count(c) == Arr(<< Str(c[1]), Str(IntText(c[2])) >>)
           v == [i \in DOMAIN counts |-> count(counts[i])]
           consumer(p) == DecodePair(p, DecodeString, DecodeNumber)
           rs == [i \in DOMAIN v |-> consumer(v[i])]
           all == << Num(n), Str(rows[1][1]), Str(rows[n][1]), Arr(v) >>
<1>1. PendingSummaryReply(rows, counts) = Arr(all)
  <2>1. Len(rows) = n /\ rows # << >>
    BY Length
  <2> QED
    BY <2>1 DEF PendingSummaryReply, ArrayReply
<1>2. ASSUME NEW i \in 1..m PROVE rs[i] = Ok(counts[i])
  <2>1. v[i] = Arr(<< Str(counts[i][1]), Str(IntText(counts[i][2])) >>) /\ rs[i] = consumer(v[i])
    OBVIOUS
  <2>2. /\ DecodeString(Str(counts[i][1])) = Ok(counts[i][1])
        /\ DecodeNumber(Str(IntText(counts[i][2]))) = Ok(counts[i][2])
    BY Scalars, NumeralReply
  <2>3. counts[i] = << counts[i][1], counts[i][2] >>
    OBVIOUS
  <2> DEFINE p == << Str(counts[i][1]), Str(IntText(counts[i][2])) >>
  <2>a. Len(p) = 2 /\ p[1] = Str(counts[i][1]) /\ p[2] = Str(IntText(counts[i][2]))
    OBVIOUS
  <2> HIDE DEF rs, v, p
  <2>b. consumer(Arr(p)) = All(<< Ok(counts[i][1]), Ok(counts[i][2]) >>)
    BY <2>a, <2>2, Scalars DEF DecodePair
  <2> HIDE DEF consumer
  <2>4. rs[i] = All(<< Ok(counts[i][1]), Ok(counts[i][2]) >>)
    BY <2>1, <2>b DEF p
  <2> QED
    BY <2>3, <2>4, TwoOk
<1>3. All(rs) = Ok(counts)
  <2>1. DOMAIN rs = 1..m /\ DOMAIN counts = 1..m /\ counts = [i \in DOMAIN counts |-> counts[i]]
    OBVIOUS
  <2> HIDE DEF rs
  <2> QED
    BY <1>2, <2>1, AllOk
<1>4. /\ Arr(all).t = "array" /\ Arr(all).v = all /\ Len(all) = 4
      /\ all[1] = Num(n) /\ all[2] = Str(rows[1][1]) /\ all[3] = Str(rows[n][1]) /\ all[4] = Arr(v)
  BY Scalars
<1>5. DecodePendingSummary(Arr(all)) =
         All(<< DecodeNumber(Num(n)), DecodeOptionString(Str(rows[1][1])),
                DecodeOptionString(Str(rows[n][1])), All(rs) >>)
  <2>1. Arr(v) # Nil /\ DecodeArray(Arr(v)) # Failed /\ DecodeArray(Arr(v))[1] = v
    BY Scalars DEF DecodeArray, Ok, Failed
  <2> HIDE DEF all, v
  <2> QED
    BY <1>4, <2>1 DEF DecodePendingSummary, ArrayOf, ForEach
<1> HIDE DEF all, rs, v
<1>6. DecodePendingSummary(Arr(all)) =
         All(<< Ok(n), Ok(Some(rows[1][1])), Ok(Some(rows[n][1])), Ok(counts) >>)
  BY <1>3, <1>5, Scalars
<1>7. DecodePendingSummary(Arr(all)) = Ok(<< n, Some(rows[1][1]), Some(rows[n][1]), counts >>)
  <2>1. PICK a, b : a = Some(rows[1][1]) /\ b = Some(rows[n][1])
    OBVIOUS
  <2>2. All(<< Ok(n), Ok(a), Ok(b), Ok(counts) >>) = Ok(<< n, a, b, counts >>)
    BY FourOk
  <2> QED
    BY <1>6, <2>1, <2>2
<1> QED
  BY <1>1, <1>7

\* The listing of a single field.
LEMMA OneListed == ASSUME NEW f PROVE SetToSeq({f}) = << f >>
<1>1. Cardinality({f}) = 1
  BY FS_Singleton
<1>2. << f >> \in [1..1 -> {f}] /\ IsInjective(<< f >>)
  BY DEF IsInjective
<1> DEFINE listing == CHOOSE g \in [1..1 -> {f}] : IsInjective(g)
<1>3. listing \in [1..1 -> {f}]
  BY <1>2
<1>4. SetToSeq({f}) = listing
  BY <1>1 DEF SetToSeq
<1> HIDE DEF listing
<1> QED
  BY <1>3, <1>4

\* A record of one field, from its only entry.
LEMMA OneEntry ==
    ASSUME NEW f, NEW x
    PROVE  RecordOf(<< << f, x >> >>) = [g \in {f} |-> x]
<1> DEFINE e == << << f, x >> >>
           at(g) == e[SelectLastInSeq(e, LAMBDA y : y[1] = g)][2]
<1>1. Len(e) = 1 /\ e[1] = << f, x >> /\ DOMAIN e = 1..1 /\ 1..1 = {1}
  OBVIOUS
<1>2. { e[i][1] : i \in DOMAIN e } = {f}
  BY <1>1
<1>3. at(f) = x
  <2>1. { i \in 1..1 : e[i][1] = f } = {1}
    BY <1>1
  <2>2. Max({1}) = 1
    BY DEF Max
  <2>3. SelectLastInSeq(e, LAMBDA y : y[1] = f) = 1
    BY <1>1, <2>1, <2>2 DEF SelectLastInSeq
  <2> QED
    BY <1>1, <2>3
<1>4. RecordOf(e) = [g \in {f} |-> at(g)]
  BY <1>2 DEF RecordOf
<1> HIDE DEF at
<1>5. [g \in {f} |-> at(g)] = [g \in {f} |-> x]
  BY <1>3
<1> QED
  BY <1>4, <1>5

\* A record of one field is read back from either protocol.
LEMMA OneField ==
    ASSUME NEW f, NEW x, NEW record, record = [g \in {f} |-> x], NEW proto \in Protocols
    PROVE  DecodeRecord(RecordReply(proto, record)) = Ok(record)
<1>1. SetToSeq(DOMAIN record) = << f >>
  BY OneListed
<1> DEFINE e == << << f, x >> >>
<1>2. RecordOf(e) = record
  BY OneEntry
<1>3. CASE proto = 3
  <2> DEFINE v == << << f, Str(x) >> >>
             rs == << Ok(<< f, x >>) >>
  <2>1. RecordReply(proto, record) = Obj(v)
    <3>1. /\ DOMAIN << f >> = 1..1 /\ << f >>[1] = f /\ record[f] = x
          /\ [i \in 1..1 |-> << << f >>[i], Str(record[<< f >>[i]]) >>] = v
      OBVIOUS
    <3> QED
      BY <1>1, <1>3, <3>1 DEF RecordReply
  <2>2. ForEach(v, LAMBDA y : LET named(s) == << y[1], s >> IN Map(DecodeString(y[2]), named)) =
           All(rs)
    <3>1. DecodeString(v[1][2]) = Ok(x) /\ v[1][1] = f /\ DOMAIN v = 1..1
      BY Scalars
    <3>2. ForEach(v, LAMBDA y : LET named(s) == << y[1], s >> IN Map(DecodeString(y[2]), named))
            = All([i \in 1..1 |-> Ok(<< f, x >>)])
      BY <3>1 DEF ForEach, Map, Ok, Failed
    <3>3. rs = [i \in 1..1 |-> Ok(<< f, x >>)]
      OBVIOUS
    <3> QED
      BY <3>2, <3>3
  <2>3. All(rs) = Ok(e)
    <3>1. DOMAIN rs = DOMAIN e /\ e = [i \in DOMAIN e |-> e[i]]
          /\ \A i \in DOMAIN e : rs[i] = Ok(e[i])
      OBVIOUS
    <3> HIDE DEF rs, e
    <3> QED
      BY <3>1, AllOk
  <2>4. DecodeRecord(Obj(v)) = Map(All(rs), RecordOf)
    BY <2>2 DEF DecodeRecord, Obj
  <2> HIDE DEF v, rs, e
  <2> QED
    BY <1>2, <2>1, <2>3, <2>4 DEF Map, Ok, Failed
<1>4. CASE proto = 2
  <2> DEFINE v == << Str(f), Str(x) >>
  <2>1. RecordReply(proto, record) = Arr(v)
    <3>1. Flat(e) = << f, x >>
      <4>1. Len(e) = 1 /\ e[1] = << f, x >>
        OBVIOUS
      <4>2. /\ 1..(2 * 1) = 1..2 /\ (1 + 1) \div 2 = 1 /\ (2 + 1) \div 2 = 1
            /\ 1 % 2 = 1 /\ 2 % 2 # 1
        OBVIOUS
      <4>3. Flat(e) = [i \in 1..2 |-> e[(i + 1) \div 2][IF i % 2 = 1 THEN 1 ELSE 2]]
        BY <4>1, <4>2 DEF Flat
      <4> HIDE DEF e
      <4>4. Flat(e)[1] = f /\ Flat(e)[2] = x
        BY <4>1, <4>2, <4>3
      <4> QED
        BY <4>3, <4>4
    <3>2. [i \in DOMAIN << f >> |-> << << f >>[i], record[<< f >>[i]] >>] = e
      OBVIOUS
    <3>3. [i \in DOMAIN << f, x >> |-> Str(<< f, x >>[i])] = v
      OBVIOUS
    <3> DEFINE fields == SetToSeq(DOMAIN record)
               flat == Flat([i \in DOMAIN fields |-> << fields[i], record[fields[i]] >>])
    <3>4. RecordReply(proto, record) = Arr([i \in DOMAIN flat |-> Str(flat[i])])
      BY <1>4 DEF RecordReply, ArrayReply
    <3>5. flat = << f, x >>
      <4> HIDE DEF e
      <4> QED
        BY <1>1, <3>1, <3>2
    <3> HIDE DEF flat
    <3> QED
      BY <3>3, <3>4, <3>5
  <2>2. ForEach(v, DecodeString) = Ok(<< f, x >>)
    <3>1. DOMAIN v = 1..2 /\ DecodeString(v[1]) = Ok(f) /\ DecodeString(v[2]) = Ok(x)
      BY Scalars
    <3>2. [i \in 1..2 |-> DecodeString(v[i])] = << Ok(f), Ok(x) >>
      BY <3>1
    <3>3. ForEach(v, DecodeString) = All(<< Ok(f), Ok(x) >>)
      BY <3>1, <3>2 DEF ForEach
    <3> QED
      BY <3>3, TwoOk
  <2>3. PairsOf(<< f, x >>) = e
    <3>1. Len(<< f, x >>) \div 2 = 1 /\ 2 * 1 - 1 = 1 /\ 2 * 1 = 2
      OBVIOUS
    <3>2. PairsOf(<< f, x >>) = [i \in 1..1 |-> << << f, x >>[2 * i - 1], << f, x >>[2 * i] >>]
      BY <3>1 DEF PairsOf
    <3>3. PairsOf(<< f, x >>)[1] = << f, x >>
      BY <3>1, <3>2
    <3> QED
      BY <3>2, <3>3
  <2>4. Len(v) % 2 = 0
    OBVIOUS
  <2> HIDE DEF v, e
  <2>5. RecordFromFlat(v) = Ok(record)
    BY <1>2, <2>2, <2>3, <2>4 DEF RecordFromFlat, Map, Ok, Failed
  <2>6. DecodeRecord(Arr(v)) = RecordFromFlat(v)
    BY DEF DecodeRecord, Arr
  <2> QED
    BY <2>1, <2>5, <2>6
<1> QED
  BY <1>3, <1>4 DEF Protocols

\* The entries of a reply are those of the stream.
LEMMA EntryDecodes ==
    ASSUME NEW e, NEW proto \in Protocols
    PROVE  DecodeEntry(Arr(<< Str(Raw(e)[1]), RecordReply(proto, Raw(e)[2]) >>)) = Ok(Raw(e))
<1>1. DecodeRecord(RecordReply(proto, Fields(e))) = Ok(Fields(e))
  <2>1. CASE e \in Poison
    <3>1. Fields(e) = [g \in {"x"} |-> "-"]
      BY <2>1 DEF Fields
    <3> QED
      BY <3>1, OneField
  <2>2. CASE e \notin Poison
    <3>1. Fields(e) = [g \in {"d"} |-> IntText(e)]
      BY <2>2 DEF Fields
    <3> QED
      BY <3>1, OneField
  <2> QED
    BY <2>1, <2>2
<1>2. Raw(e) = << IntText(e), Fields(e) >> /\ Raw(e)[1] = IntText(e) /\ Raw(e)[2] = Fields(e)
  BY DEF Raw
<1> DEFINE p == << Str(IntText(e)), RecordReply(proto, Fields(e)) >>
<1>3. Len(p) = 2 /\ p[1] = Str(IntText(e)) /\ p[2] = RecordReply(proto, Fields(e))
  OBVIOUS
<1> HIDE DEF p
<1>4. DecodeEntry(Arr(p)) = All(<< DecodeString(p[1]), DecodeRecord(p[2]) >>)
  BY <1>3, Scalars DEF DecodeEntry, DecodePair
<1>5. DecodeEntry(Arr(p)) = All(<< Ok(IntText(e)), Ok(Fields(e)) >>)
  BY <1>1, <1>3, <1>4, Scalars
<1>6. DecodeEntry(Arr(p)) = Ok(<< IntText(e), Fields(e) >>)
  BY <1>5, TwoOk
<1> QED
  BY <1>2, <1>6 DEF p

\* The entries of a reply, one by one.
LEMMA EntriesDecode ==
    ASSUME NEW es, NEW proto \in Protocols
    PROVE  /\ DecodeEntries(EntriesReply(proto, RawEach(es))) = Ok(RawEach(es))
           /\ EntriesReply(proto, RawEach(es)).t = "array"
           /\ EntriesReply(proto, RawEach(es)).v =
                 [i \in DOMAIN es |-> Arr(<< Str(Raw(es[i])[1]), RecordReply(proto, Raw(es[i])[2]) >>)]
<1> DEFINE raws == RawEach(es)
           v == [i \in DOMAIN es |-> Arr(<< Str(Raw(es[i])[1]), RecordReply(proto, Raw(es[i])[2]) >>)]
           rs == [i \in DOMAIN v |-> DecodeEntry(v[i])]
<1>1. raws = [i \in DOMAIN es |-> Raw(es[i])] /\ raws = [i \in DOMAIN raws |-> raws[i]]
  BY DEF RawEach
<1>2. EntriesReply(proto, raws) = Arr(v)
  BY <1>1 DEF EntriesReply, ArrayReply
<1>3. \A i \in DOMAIN raws : rs[i] = Ok(raws[i])
  BY <1>1, EntryDecodes
<1>4. All(rs) = Ok(raws)
  <2>1. DOMAIN rs = DOMAIN raws
    BY <1>1
  <2> HIDE DEF rs, raws
  <2> QED
    BY <1>1, <1>3, <2>1, AllOk
<1>5. DecodeEntries(Arr(v)) = All(rs)
  <2>1. Arr(v) # Nil /\ DecodeArray(Arr(v)) # Failed /\ DecodeArray(Arr(v))[1] = v
    BY Scalars DEF DecodeArray, Ok, Failed
  <2> QED
    BY <2>1 DEF DecodeEntries, ArrayOf, ForEach
<1>6. Arr(v).t = "array" /\ Arr(v).v = v
  BY Scalars
<1> QED
  BY <1>2, <1>4, <1>5, <1>6

\* One result.
LEMMA OneOk == ASSUME NEW a PROVE All(<< Ok(a) >>) = Ok(<< a >>)
<1> DEFINE xs == << a >>
           rs == << Ok(a) >>
<1>1. xs = [i \in DOMAIN xs |-> xs[i]] /\ DOMAIN rs = DOMAIN xs
  OBVIOUS
<1>2. \A i \in DOMAIN xs : rs[i] = Ok(xs[i])
  OBVIOUS
<1> HIDE DEF xs, rs
<1>3. All(rs) = Ok(xs)
  BY <1>1, <1>2, AllOk
<1> QED
  BY <1>3 DEF xs, rs

\* The chunk of one stream is its entries, and that of none is empty.
LEMMA Flattened ==
    ASSUME NEW xs
    PROVE  FlattenSeq(<< xs >>) = xs /\ FlattenSeq(<< >>) = << >>
<1> DEFINE seqs == << xs >>
           Def(f) == f = [i \in 1..Len(seqs) |-> IF i = 1 THEN seqs[i] ELSE f[i - 1] \o seqs[i]]
           flatten == CHOOSE f : Def(f)
<1>1. Len(seqs) = 1 /\ seqs[1] = xs
  OBVIOUS
<1>2. FlattenSeq(seqs) = flatten[1]
  BY <1>1 DEF FlattenSeq
<1>3. Def([i \in 1..1 |-> xs])
  BY <1>1
<1>4. Def(flatten)
  BY <1>3
<1> HIDE DEF flatten
<1>5. flatten[1] = xs
  BY <1>1, <1>4
<1>6. FlattenSeq(<< >>) = << >>
  BY DEF FlattenSeq
<1> QED
  BY <1>2, <1>5, <1>6

\* The entries of one stream come out of a reply to XREAD or XREADGROUP.
LEMMA ReadsDecode ==
    ASSUME NEW es, NEW proto \in Protocols, RawEach(es) # << >>
    PROVE  DecodeStreamReads(ReadsReply(proto, Key, RawEach(es))) = Ok(<< << Key, RawEach(es) >> >>)
<1> DEFINE raws == RawEach(es)
           reply == EntriesReply(proto, raws)
<1>1. DecodeEntries(reply) = Ok(raws)
  BY EntriesDecode
<1> HIDE DEF raws, reply
<1>2. All(<< Ok(Key), DecodeEntries(reply) >>) = Ok(<< Key, raws >>)
  BY <1>1, TwoOk
<1>3. CASE proto = 3
  <2> DEFINE v == << << Key, reply >> >>
             named(e) == All(<< Ok(e[1]), DecodeEntries(e[2]) >>)
  <2>1. ReadsReply(proto, Key, raws) = Obj(v)
    BY <1>3 DEF ReadsReply, raws, reply
  <2>2. DecodeStreamReads(Obj(v)) = All([i \in DOMAIN v |-> named(v[i])])
    <3>1. Obj(v).t = "object" /\ Obj(v).v = v
      BY DEF Obj
    <3> HIDE DEF v
    <3> QED
      BY <3>1 DEF DecodeStreamReads, ForEach
  <2>3. [i \in DOMAIN v |-> named(v[i])] = << Ok(<< Key, raws >>) >>
    BY <1>2
  <2> HIDE DEF v, named
  <2> QED
    BY <2>1, <2>2, <2>3, OneOk DEF raws
<1>4. CASE proto = 2
  <2> DEFINE p == << Str(Key), reply >>
             v == << Arr(p) >>
             pair(e) == DecodePair(e, DecodeString, DecodeEntries)
  <2>1. ReadsReply(proto, Key, raws) = Arr(v)
    BY <1>4 DEF ReadsReply, raws, reply
  <2>2. DecodeStreamReads(Arr(v)) = All([i \in DOMAIN v |-> pair(v[i])])
    <3>1. Arr(v).t = "array" /\ Arr(v).v = v
      BY DEF Arr
    <3> HIDE DEF v
    <3> QED
      BY <3>1 DEF DecodeStreamReads, ForEach
  <2>3. pair(Arr(p)) = Ok(<< Key, raws >>)
    <3>1. Len(p) = 2 /\ p[1] = Str(Key) /\ p[2] = reply
      OBVIOUS
    <3> HIDE DEF p
    <3> QED
      BY <1>2, <3>1, Scalars DEF DecodePair
  <2>4. [i \in DOMAIN v |-> pair(v[i])] = << Ok(<< Key, raws >>) >>
    <3> HIDE DEF pair, p
    <3> QED
      BY <2>3
  <2> HIDE DEF v, pair
  <2> QED
    BY <2>1, <2>2, <2>4, OneOk DEF raws
<1> QED
  BY <1>3, <1>4 DEF Protocols, raws

\* No data is the empty chunk.
LEMMA NoData ==
    ASSUME NEW proto \in Protocols
    PROVE  Chunk(ReadsReply(proto, Key, << >>)) = Ok(<< >>)
<1>1. ReadsReply(proto, Key, << >>) = Nil
  BY DEF ReadsReply
<1>2. DecodeStreamReads(Nil) = Ok(<< >>)
  BY DEF DecodeStreamReads, Nil
<1>3. [i \in DOMAIN << >> |-> << >>[i][2]] = << >>
  OBVIOUS
<1>4. FlattenSeq(<< >>) = << >>
  BY Flattened
<1> QED
  BY <1>1, <1>2, <1>3, <1>4 DEF Chunk, Map, Ok, Failed

\* The chunk of a read is the entries of the stream.
LEMMA ChunkDecodes ==
    ASSUME NEW es, NEW proto \in Protocols, RawEach(es) # << >>
    PROVE  Chunk(ReadsReply(proto, Key, RawEach(es))) = Ok(RawEach(es))
<1> DEFINE raws == RawEach(es)
           reads == << << Key, raws >> >>
           reply == ReadsReply(proto, Key, raws)
<1>1. DecodeStreamReads(reply) = Ok(reads)
  BY ReadsDecode
<1>2. [i \in DOMAIN reads |-> reads[i][2]] = << raws >>
  OBVIOUS
<1>3. Chunk(reply) = Ok(FlattenSeq([i \in DOMAIN reads |-> reads[i][2]]))
  <2> HIDE DEF reads, reply
  <2> QED
    BY <1>1 DEF Chunk, Map, Ok, Failed
<1> HIDE DEF raws, reads, reply
<1>4. Chunk(reply) = Ok(raws)
  BY <1>2, <1>3, Flattened
<1> QED
  BY <1>4 DEF raws, reply

\* So does what the claimer takes over.
LEMMA ClaimDecodes ==
    ASSUME NEW es, NEW proto \in Protocols
    PROVE  ClaimStale(AutoclaimReply(proto, "0-0", RawEach(es))) = Ok(RawEach(es))
<1> DEFINE raws == RawEach(es)
           entries == EntriesReply(proto, raws)
           reply == AutoclaimReply(proto, "0-0", raws)
<1>1. DecodeEntries(entries) = Ok(raws)
  BY EntriesDecode
<1>2. DecodeXautoclaim(reply) = Ok(<< "0-0", raws, << >> >>)
  <2> HIDE DEF raws, entries
  <2>1. CASE proto = 3
    <3> DEFINE v == << Str("0-0"), entries, Arr(<< >>) >>
    <3>a. Append(<< Str("0-0"), entries >>, Arr(<< >>)) = v
      <4>1. PICK a, b, c : a = Str("0-0") /\ b = entries /\ c = Arr(<< >>)
        OBVIOUS
      <4> DEFINE s == Append(<< a, b >>, c)
      <4>2. s = [i \in 1..3 |-> s[i]] /\ s[1] = a /\ s[2] = b /\ s[3] = c
        OBVIOUS
      <4> HIDE DEF s
      <4>3. [i \in 1..3 |-> s[i]] = << a, b, c >>
        BY <4>2
      <4>4. s = << a, b, c >>
        BY <4>2, <4>3
      <4> QED
        BY <4>1, <4>4 DEF s
    <3>1. reply = Arr(v)
      BY <2>1, <3>a DEF AutoclaimReply, entries, raws
    <3>2. Len(v) = 3 /\ v[1] = Str("0-0") /\ v[2] = entries /\ v[3] = Arr(<< >>)
      OBVIOUS
    <3>3. DecodeStringArray(Arr(<< >>)) = Ok(<< >>)
      <4>1. [i \in DOMAIN << >> |-> DecodeString(<< >>[i])] = << >>
        OBVIOUS
      <4>2. All(<< >>) = Ok(<< >>)
        BY DEF All
      <4>3. DecodeArray(Arr(<< >>)) # Failed /\ DecodeArray(Arr(<< >>))[1] = << >>
        BY Scalars DEF DecodeArray, Ok, Failed
      <4> QED
        BY <4>1, <4>2, <4>3 DEF DecodeStringArray, ArrayOf, ForEach
    <3> HIDE DEF v, reply
    <3>4. DecodeXautoclaim(Arr(v)) =
            All(<< DecodeString(Str("0-0")), DecodeEntries(entries), DecodeStringArray(Arr(<< >>)) >>)
      BY <3>2, Scalars DEF DecodeXautoclaim
    <3> QED
      BY <1>1, <3>1, <3>3, <3>4, Scalars, ThreeOk
  <2>2. CASE proto = 2
    <3> DEFINE v == << Str("0-0"), entries >>
    <3>1. reply = Arr(v)
      BY <2>2 DEF AutoclaimReply, entries, raws
    <3>2. Len(v) = 2 /\ v[1] = Str("0-0") /\ v[2] = entries
      OBVIOUS
    <3> HIDE DEF v, reply
    <3>4. DecodeXautoclaim(Arr(v)) =
            All(<< DecodeString(Str("0-0")), DecodeEntries(entries), Ok(<< >>) >>)
      BY <3>2, Scalars DEF DecodeXautoclaim
    <3> QED
      BY <1>1, <3>1, <3>4, Scalars, ThreeOk
  <2> QED
    BY <2>1, <2>2 DEF Protocols
<1> HIDE DEF raws, reply
<1>3. ClaimStale(reply) = Ok(<< "0-0", raws, << >> >>[2])
  BY <1>2 DEF ClaimStale, Map, Ok, Failed
<1> QED
  BY <1>3 DEF raws, reply

\* The fields of XINFO that the model tells apart, in either order.
LEMMA InfoListed ==
    ASSUME NEW S, S = {"length", "groups"}
    PROVE  \E f, g : f # g /\ S = {f, g} /\ SetToSeq(S) = << f, g >>
<1>1. Cardinality(S) = 2
  <2>1. Cardinality({"length"}) = 1 /\ IsFiniteSet({"length"})
    BY FS_Singleton
  <2>2. "groups" \notin {"length"} /\ S = {"length"} \cup {"groups"}
    OBVIOUS
  <2> QED
    BY <2>1, <2>2, FS_AddElement
<1> DEFINE listing == CHOOSE s \in [1..2 -> S] : IsInjective(s)
<1>2. << "length", "groups" >> \in [1..2 -> S] /\ IsInjective(<< "length", "groups" >>)
  BY DEF IsInjective
<1>3. listing \in [1..2 -> S] /\ IsInjective(listing)
  BY <1>2
<1>4. SetToSeq(S) = listing
  BY <1>1 DEF SetToSeq
<1> HIDE DEF listing
<1>5. listing[1] # listing[2] /\ listing[1] \in S /\ listing[2] \in S
  BY <1>3 DEF IsInjective
<1>6. listing = << listing[1], listing[2] >>
  BY <1>3
<1>7. S = {listing[1], listing[2]}
  BY <1>5
<1> QED
  BY <1>4, <1>5, <1>6, <1>7

\* Two scalars after what is none.
LEMMA TwoScalars ==
    ASSUME NEW f, NEW g, f # g, NEW x, NEW y, NEW first, NEW name,
           ScalarText(first) = None, ScalarText(x) # None, ScalarText(y) # None
    PROVE  ScalarFields(<< << Some(name), first >>, << Some(f), x >>, << Some(g), y >> >>) =
              [h \in {f, g} |-> IF h = f THEN ScalarText(x)[1] ELSE ScalarText(y)[1]]
<1> DEFINE e == << << Some(name), first >>, << Some(f), x >>, << Some(g), y >> >>
           scalars == { i \in DOMAIN e : e[i][1] # None /\ ScalarText(e[i][2]) # None }
           at(h) == ScalarText(e[Max({ i \in scalars : e[i][1] = Some(h) })][2])[1]
<1>1. /\ DOMAIN e = {1, 2, 3}
      /\ e[1][1] = Some(name) /\ e[2][1] = Some(f) /\ e[3][1] = Some(g)
      /\ e[1][2] = first /\ e[2][2] = x /\ e[3][2] = y
  OBVIOUS
<1>2. \A h : Some(h) # None /\ Some(h)[1] = h
  BY DEF Some, None
<1>3. scalars = {2, 3}
  <2> HIDE DEF e
  <2> QED
    BY <1>1, <1>2
<1>4. ScalarFields(e) = [h \in { e[i][1][1] : i \in scalars } |-> at(h)]
  BY DEF ScalarFields
<1> HIDE DEF e, scalars
<1>5. { e[i][1][1] : i \in scalars } = {f, g}
  BY <1>1, <1>2, <1>3
<1>6. Max({2}) = 2 /\ Max({3}) = 3
  BY DEF Max
<1>7. at(f) = ScalarText(x)[1]
  <2>1. Some(f) # Some(g)
    BY <1>2
  <2>2. { i \in scalars : e[i][1] = Some(f) } = {2}
    BY <1>1, <1>3, <2>1
  <2> QED
    BY <1>1, <1>6, <2>2
<1>8. at(g) = ScalarText(y)[1]
  <2>1. Some(f) # Some(g)
    BY <1>2
  <2>2. { i \in scalars : e[i][1] = Some(g) } = {3}
    BY <1>1, <1>3, <2>1
  <2> QED
    BY <1>1, <1>6, <2>2
<1> HIDE DEF at
<1>9. [h \in {f, g} |-> at(h)] =
         [h \in {f, g} |-> IF h = f THEN ScalarText(x)[1] ELSE ScalarText(y)[1]]
  BY <1>7, <1>8
<1> QED
  BY <1>4, <1>5, <1>9 DEF e

\* The words of three pairs, and the pairs of the words.
LEMMA ThreePairs ==
    ASSUME NEW a, NEW b, NEW c, NEW d, NEW e, NEW f
    PROVE  PairsOf(Flat(<< << a, b >>, << c, d >>, << e, f >> >>)) =
              << << a, b >>, << c, d >>, << e, f >> >>
<1> DEFINE pairs == << << a, b >>, << c, d >>, << e, f >> >>
           words == Flat(pairs)
<1>1. /\ Len(pairs) = 3
      /\ pairs[1] = << a, b >> /\ pairs[2] = << c, d >> /\ pairs[3] = << e, f >>
  OBVIOUS
<1>2. words = [i \in 1..6 |-> pairs[(i + 1) \div 2][IF i % 2 = 1 THEN 1 ELSE 2]]
  <2>1. 2 * 3 = 6
    OBVIOUS
  <2> HIDE DEF pairs
  <2> QED
    BY <1>1, <2>1 DEF Flat
<1>3. /\ words[1] = pairs[1][1] /\ words[2] = pairs[1][2] /\ words[3] = pairs[2][1]
      /\ words[4] = pairs[2][2] /\ words[5] = pairs[3][1] /\ words[6] = pairs[3][2]
  <2>1. /\ (1 + 1) \div 2 = 1 /\ (2 + 1) \div 2 = 1 /\ (3 + 1) \div 2 = 2
        /\ (4 + 1) \div 2 = 2 /\ (5 + 1) \div 2 = 3 /\ (6 + 1) \div 2 = 3
        /\ 1 % 2 = 1 /\ 2 % 2 # 1 /\ 3 % 2 = 1 /\ 4 % 2 # 1 /\ 5 % 2 = 1 /\ 6 % 2 # 1
    OBVIOUS
  <2> HIDE DEF pairs, words
  <2> QED
    BY <1>2, <2>1
<1>4. Len(words) = 6
  <2>1. DOMAIN words = 1..6
    BY <1>2
  <2> HIDE DEF words
  <2> QED
    BY <2>1, Length
<1> HIDE DEF pairs, words
<1>5. PairsOf(words) = [i \in 1..3 |-> << words[2 * i - 1], words[2 * i] >>]
  <2>1. 6 \div 2 = 3
    OBVIOUS
  <2> QED
    BY <1>4, <2>1 DEF PairsOf
<1>6. /\ PairsOf(words)[1] = << a, b >> /\ PairsOf(words)[2] = << c, d >>
      /\ PairsOf(words)[3] = << e, f >>
  <2>1. 2 * 1 - 1 = 1 /\ 2 * 1 = 2 /\ 2 * 2 - 1 = 3 /\ 2 * 2 = 4 /\ 2 * 3 - 1 = 5 /\ 2 * 3 = 6
    OBVIOUS
  <2> QED
    BY <1>1, <1>3, <1>5, <2>1
<1>7. PairsOf(words) = pairs
  <2>1. PairsOf(words) = [i \in 1..3 |-> PairsOf(words)[i]]
    BY <1>5
  <2>2. [i \in 1..3 |-> PairsOf(words)[i]] = << << a, b >>, << c, d >>, << e, f >> >>
    BY <1>6
  <2> QED
    BY <2>1, <2>2 DEF pairs
<1> QED
  BY <1>7 DEF words, pairs

\* Counters are read as texts, whatever else is nested among them.
LEMMA InfoReads ==
    ASSUME NEW info, DOMAIN info = {"length", "groups"},
           \A f \in DOMAIN info : info[f] \in Numerals,
           NEW first, ScalarText(first) = None, NEW proto \in Protocols
    PROVE  DecodeInfoRecord(InfoReply(proto, info, first)) =
              Ok([f \in DOMAIN info |-> IntText(info[f])])
<1>1. PICK f, g : f # g /\ DOMAIN info = {f, g} /\ SetToSeq(DOMAIN info) = << f, g >>
  BY InfoListed
<1> DEFINE x == Num(info[f])
           y == Num(info[g])
           all == << << "first-entry", first >>, << f, x >>, << g, y >> >>
           e == << << Some("first-entry"), first >>, << Some(f), x >>, << Some(g), y >> >>
           texts == [h \in DOMAIN info |-> IntText(info[h])]
<1>2. ScalarText(x) = Some(IntText(info[f])) /\ ScalarText(y) = Some(IntText(info[g]))
  <2>1. ASSUME NEW n \in Numerals PROVE ScalarText(Num(n)) = Some(IntText(n))
    <3>1. n # Infinity /\ n # -Infinity
      BY NumeralText, NumeralsAssumption
    <3>2. NumberText(n) = IntText(n)
      BY <3>1 DEF NumberText
    <3> QED
      BY <3>2 DEF ScalarText, AsText, Num
  <2> QED
    BY <1>1, <2>1
<1>3. ScalarFields(e) = texts
  <2>1. ScalarText(x) # None /\ ScalarText(y) # None /\ ScalarText(x)[1] = IntText(info[f])
        /\ ScalarText(y)[1] = IntText(info[g])
    BY <1>2 DEF Some, None
  <2> HIDE DEF x, y
  <2>2. ScalarFields(e) = [h \in {f, g} |-> IF h = f THEN ScalarText(x)[1] ELSE ScalarText(y)[1]]
    BY <1>1, <2>1, TwoScalars
  <2> HIDE DEF e
  <2> QED
    BY <1>1, <2>1, <2>2
<1>4. InfoReply(proto, info, first) =
         IF proto = 3 THEN Obj(all)
                      ELSE Arr(Flat([i \in DOMAIN all |-> << Str(all[i][1]), all[i][2] >>]))
  <2>1. [i \in DOMAIN << f, g >> |-> << << f, g >>[i], Num(info[<< f, g >>[i]]) >>] =
           << << f, x >>, << g, y >> >>
    OBVIOUS
  <2>2. ASSUME NEW a, NEW b, NEW c PROVE << a >> \o << b, c >> = << a, b, c >>
    <3> DEFINE s == << a >> \o << b, c >>
    <3>1. s = [i \in 1..3 |-> s[i]] /\ s[1] = a /\ s[2] = b /\ s[3] = c
      OBVIOUS
    <3> HIDE DEF s
    <3>2. [i \in 1..3 |-> s[i]] = << a, b, c >>
      BY <3>1
    <3> QED
      BY <3>1, <3>2 DEF s
  <2> DEFINE fields == SetToSeq(DOMAIN info)
             entries == [i \in DOMAIN fields |-> << fields[i], Num(info[fields[i]]) >>]
             whole == << << "first-entry", first >> >> \o entries
  <2>3. InfoReply(proto, info, first) =
           IF proto = 3 THEN Obj(whole)
                        ELSE Arr(Flat([i \in DOMAIN whole |-> << Str(whole[i][1]), whole[i][2] >>]))
    BY DEF InfoReply
  <2>4. entries = << << f, x >>, << g, y >> >>
    BY <1>1, <2>1
  <2> HIDE DEF entries, x, y
  <2>5. whole = all
    BY <2>2, <2>4
  <2> HIDE DEF whole, all
  <2> QED
    BY <2>3, <2>5
<1>5. CASE proto = 3
  <2>1. DecodeInfoRecord(Obj(all)) =
           Ok(ScalarFields([i \in DOMAIN all |-> << Some(all[i][1]), all[i][2] >>]))
    <3>1. Obj(all).t = "object" /\ Obj(all).v = all
      BY DEF Obj
    <3> HIDE DEF all
    <3> QED
      BY <3>1 DEF DecodeInfoRecord
  <2>2. [i \in DOMAIN all |-> << Some(all[i][1]), all[i][2] >>] = e
    <3> HIDE DEF x, y
    <3> QED
      OBVIOUS
  <2> HIDE DEF all, e
  <2> QED
    BY <1>3, <1>4, <1>5, <2>1, <2>2
<1>6. CASE proto = 2
  <2> DEFINE pairs == << << Str("first-entry"), first >>, << Str(f), x >>, << Str(g), y >> >>
             v == Flat(pairs)
  <2>1. [i \in DOMAIN all |-> << Str(all[i][1]), all[i][2] >>] = pairs
    <3> HIDE DEF x, y
    <3> QED
      OBVIOUS
  <2>2. PairsOf(v) = pairs
    <3> HIDE DEF x, y
    <3> QED
      BY ThreePairs
  <2>3. DecodeInfoRecord(Arr(v)) =
           Ok(ScalarFields([i \in DOMAIN pairs |-> << ScalarText(pairs[i][1]), pairs[i][2] >>]))
    <3>1. Arr(v).t = "array" /\ Arr(v).v = v
      BY DEF Arr
    <3> HIDE DEF pairs, v
    <3> QED
      BY <2>2, <3>1 DEF DecodeInfoRecord
  <2>4. \A s : ScalarText(Str(s)) = Some(s)
    BY DEF ScalarText, AsText, Str
  <2>5. [i \in DOMAIN pairs |-> << ScalarText(pairs[i][1]), pairs[i][2] >>] = e
    <3> HIDE DEF x, y
    <3> QED
      BY <2>4
  <2>6. proto # 3
    BY <1>6
  <2> HIDE DEF all, e, pairs
  <2> QED
    BY <1>3, <1>4, <2>1, <2>3, <2>5, <2>6
<1> QED
  BY <1>5, <1>6 DEF Protocols

\* XINFO says how long the stream is and whether it has its group.
LEMMA InfoTrue ==
    ASSUME TypeOK, NEW proto \in Protocols
    PROVE  InfoIsTrue(proto)
<1> DEFINE info == [length |-> appended, groups |-> IF start = NoGroup THEN 0 ELSE 1]
           texts == [f \in DOMAIN info |-> IntText(info[f])]
           first == IF appended = 0 THEN Nil ELSE EntriesReply(proto, RawEach(<< 1 >>)).v[1]
           reply == InfoReply(proto, info, first)
<1>1. DOMAIN info = {"length", "groups"} /\ \A f \in DOMAIN info : info[f] \in Numerals
  <2>1. appended \in Numerals /\ 0 \in Numerals /\ 1 \in Numerals
    BY WireAssumption, GroupAssumption DEF TypeOK
  <2> QED
    BY <2>1
<1>2. ScalarText(first) = None
  <2>1. ScalarText(Nil) = None /\ \A xs : ScalarText(Arr(xs)) = None
    BY DEF ScalarText, AsText, Nil, Arr
  <2>2. \E xs : EntriesReply(proto, RawEach(<< 1 >>)).v[1] = Arr(xs)
    <3> DEFINE es == << 1 >>
    <3>1. 1 \in DOMAIN es
      OBVIOUS
    <3> HIDE DEF es
    <3>2. EntriesReply(proto, RawEach(es)).v =
             [i \in DOMAIN es |-> Arr(<< Str(Raw(es[i])[1]), RecordReply(proto, Raw(es[i])[2]) >>)]
      BY EntriesDecode
    <3>3. EntriesReply(proto, RawEach(es)).v[1] =
             Arr(<< Str(Raw(es[1])[1]), RecordReply(proto, Raw(es[1])[2]) >>)
      BY <3>1, <3>2
    <3> QED
      BY <3>3 DEF es
  <2> QED
    BY <2>1, <2>2
<1> HIDE DEF info, first
<1>3. DecodeInfoRecord(reply) = Ok(texts)
  BY <1>1, <1>2, InfoReads
<1> HIDE DEF reply, texts
<1>4. DecodeInfoRecordArray(Arr(<< reply >>)) = Ok(<< texts >>)
  <2>1. Arr(<< reply >>) # Nil /\ DecodeArray(Arr(<< reply >>)) # Failed
        /\ DecodeArray(Arr(<< reply >>))[1] = << reply >>
    BY Scalars DEF DecodeArray, Ok, Failed
  <2>2. DecodeInfoRecordArray(Arr(<< reply >>)) =
           All([i \in DOMAIN << reply >> |-> DecodeInfoRecord(<< reply >>[i])])
    BY <2>1 DEF DecodeInfoRecordArray, ArrayOf, ForEach
  <2>3. [i \in DOMAIN << reply >> |-> DecodeInfoRecord(<< reply >>[i])] = << Ok(texts) >>
    BY <1>3
  <2> QED
    BY <2>2, <2>3, OneOk
<1> QED
  BY <1>3, <1>4 DEF InfoIsTrue, XinfoStream, XinfoGroups, info, texts, first, reply

\* What the entries say once decoded.
LEMMA MessageOf ==
    ASSUME NEW e
    PROVE  /\ Raw(e)[1] = IntText(e)
           /\ DecodeMessage(Raw(e)[2]) = IF e \in Poison THEN Failed ELSE Ok(IntText(e))
<1>1. Raw(e)[1] = IntText(e) /\ Raw(e)[2] = Fields(e)
  BY DEF Raw
<1>2. CASE e \in Poison
  <2>1. "d" \notin DOMAIN Fields(e)
    BY <1>2 DEF Fields
  <2> QED
    BY <1>1, <1>2, <2>1 DEF DecodeMessage
<1>3. CASE e \notin Poison
  <2>1. "d" \in DOMAIN Fields(e) /\ Fields(e)["d"] = IntText(e)
    BY <1>3 DEF Fields
  <2> QED
    BY <1>1, <1>3, <2>1 DEF DecodeMessage
<1> QED
  BY <1>2, <1>3

\* A consumer and the claimer receive the entries that Redis delivered.
LEMMA DeliveryTrue ==
    ASSUME TypeOK, \A w \in Workers : pc[w] = "reply" => batch[w] # << >>, NEW proto \in Protocols
    PROVE  DeliveryIsTrue(proto)
<1>1. Chunk(ReadsReply(proto, Key, << >>)) = Ok(<< >>)
  BY NoData
<1>2. ASSUME NEW w \in Workers, pc[w] = "reply"
      PROVE  LET raws == RawEach(batch[w])
                 chunk == IF w = Claimer THEN ClaimStale(AutoclaimReply(proto, "0-0", raws))
                                         ELSE Chunk(ReadsReply(proto, Key, raws))
             IN  /\ chunk = Ok(raws)
                 /\ \A i \in DOMAIN raws :
                       DecodeMessage(chunk[1][i][2]) =
                           IF batch[w][i] \in Poison THEN Failed ELSE Ok(raws[i][1])
  <2> DEFINE es == batch[w]
             raws == RawEach(es)
             chunk == IF w = Claimer THEN ClaimStale(AutoclaimReply(proto, "0-0", raws))
                                     ELSE Chunk(ReadsReply(proto, Key, raws))
  <2>1. DOMAIN raws = DOMAIN es /\ \A i \in DOMAIN raws : raws[i] = Raw(es[i])
    BY DEF RawEach
  <2>2. raws # << >>
    <3>1. es \in Seq(Entries) /\ es # << >>
      BY <1>2 DEF TypeOK
    <3>2. 1 \in DOMAIN es
      BY <3>1
    <3> QED
      BY <2>1, <3>2
  <2>3. chunk = Ok(raws)
    BY <2>2, ChunkDecodes, ClaimDecodes
  <2>4. chunk[1] = raws
    BY <2>3 DEF Ok
  <2>5. ASSUME NEW i \in DOMAIN raws
        PROVE  DecodeMessage(chunk[1][i][2]) = IF es[i] \in Poison THEN Failed ELSE Ok(raws[i][1])
    <3>1. chunk[1][i] = Raw(es[i]) /\ raws[i] = Raw(es[i])
      BY <2>1, <2>4
    <3> HIDE DEF raws, chunk
    <3> QED
      BY <3>1, MessageOf
  <2> QED
    BY <2>3, <2>5
<1> QED
  BY <1>1, <1>2 DEF DeliveryIsTrue

\* A page of the log is the entries in order, unless a message does not decode.
LEMMA PageTrue ==
    ASSUME NEW proto \in Protocols
    PROVE  PageIsTrue(proto)
<1> DEFINE es == Ids(1, appended)
           reply == EntriesReply(proto, RawEach(es))
           pairs == [i \in DOMAIN es |-> << IntText(es[i]), IntText(es[i]) >>]
           typed(e) == All(<< Ok(e[1]), DecodeMessage(e[2]) >>)
           raws == RawEach(es)
           rs == [i \in DOMAIN raws |-> typed(raws[i])]
<1>1. XrangeAnswer(reply) = Ok(raws)
  BY EntriesDecode DEF XrangeAnswer
<1>2. Page(reply) = All(rs)
  <2> HIDE DEF reply, raws
  <2> QED
    BY <1>1 DEF Page, AndThen, ForEach, Ok, Failed
<1>3. DOMAIN raws = DOMAIN es /\ \A i \in DOMAIN es : raws[i] = Raw(es[i])
  BY DEF RawEach
<1>4. ASSUME NEW i \in DOMAIN es
      PROVE  rs[i] = IF es[i] \in Poison THEN Failed ELSE Ok(pairs[i])
  <2>1. /\ raws[i][1] = IntText(es[i])
        /\ DecodeMessage(raws[i][2]) = IF es[i] \in Poison THEN Failed ELSE Ok(IntText(es[i]))
    <3> HIDE DEF raws
    <3> QED
      BY <1>3, MessageOf
  <2>2. rs[i] = typed(raws[i])
    BY <1>3
  <2> HIDE DEF raws, rs, es
  <2>3. CASE es[i] \in Poison
    <3>1. typed(raws[i]) = All(<< Ok(raws[i][1]), Failed >>)
      BY <2>1, <2>3
    <3>2. ASSUME NEW a PROVE All(<< a, Failed >>) = Failed
      <4>1. 2 \in DOMAIN << a, Failed >> /\ << a, Failed >>[2] = Failed
        OBVIOUS
      <4> QED
        BY <4>1, AllFail
    <3> QED
      BY <2>2, <2>3, <3>1, <3>2
  <2>4. CASE es[i] \notin Poison
    <3>1. typed(raws[i]) = All(<< Ok(IntText(es[i])), Ok(IntText(es[i])) >>)
      BY <2>1, <2>4
    <3> QED
      BY <2>2, <2>4, <3>1, TwoOk
  <2> QED
    BY <2>3, <2>4
<1>5. DOMAIN rs = DOMAIN es /\ DOMAIN pairs = DOMAIN es /\ pairs = [i \in DOMAIN pairs |-> pairs[i]]
  BY <1>3
<1> HIDE DEF rs, pairs, es, raws
<1>6. CASE \E i \in DOMAIN es : es[i] \in Poison
  <2>1. All(rs) = Failed
    BY <1>4, <1>5, <1>6, AllFail
  <2> QED
    BY <1>1, <1>2, <1>6, <2>1 DEF PageIsTrue, es, raws
<1>7. CASE \A i \in DOMAIN es : es[i] \notin Poison
  <2>1. All(rs) = Ok(pairs)
    BY <1>4, <1>5, <1>7, AllOk
  <2> QED
    BY <1>1, <1>2, <1>7, <2>1 DEF PageIsTrue, es, raws, pairs
<1> QED
  BY <1>6, <1>7

\* The elements of a finite set as a sequence.
LEMMA SetListed ==
    ASSUME NEW S, IsFiniteSet(S)
    PROVE  Cardinality(S) \in Nat /\ SetToSeq(S) \in [1..Cardinality(S) -> S]
<1> DEFINE n == Cardinality(S)
<1>1. n \in Nat /\ ExistsBijection(1..n, S)
  BY FS_CardinalityType
<1>2. \E f \in [1..n -> S] : IsInjective(f)
  BY <1>1 DEF ExistsBijection, Bijection, Injection
<1> QED
  BY <1>1, <1>2 DEF SetToSeq

\* No pending entry, or a first and a last one.
LEMMA RowsEnds ==
    ASSUME TypeOK, NEW pending, pending = { e \in Entries : Pending(e) }
    PROVE  \E n \in Nat :
              /\ n = 0 <=> pending = {}
              /\ PendingRows = [i \in 1..n |-> << PendingRows[i][1], PendingRows[i][2],
                                                  PendingRows[i][3], PendingRows[i][4] >>]
              /\ n > 0 => \E least, most \in pending :
                    /\ \A e \in pending : least <= e /\ e <= most
                    /\ PendingRows[1][1] = IntText(least) /\ PendingRows[n][1] = IntText(most)
<1> DEFINE es == InOrder(pending)
           rows == [i \in DOMAIN es |-> << IntText(es[i]), owner[es[i]], idle[es[i]], 1 >>]
<1>1. pending \subseteq Entries /\ IsFiniteSet(pending)
  BY SomeEntries
<1>2. PICK n \in Nat : n = Cardinality(pending)
  BY <1>1, FS_CardinalityType
<1>3. n = 0 <=> pending = {}
  BY <1>1, <1>2, FS_EmptySet
<1>4. PendingRows = rows
  BY DEF PendingRows
<1>5. /\ es \in [1..n -> pending] /\ \A i, j \in 1..n : i < j => es[i] < es[j]
      /\ \A e \in pending : \E i \in 1..n : es[i] = e
  BY <1>1, <1>2, Listed, ZenonT(30) DEF IsListing
<1> HIDE DEF es
<1>6. rows = [i \in 1..n |-> << rows[i][1], rows[i][2], rows[i][3], rows[i][4] >>]
  BY <1>5, SMTT(30)
<1>7. ASSUME n > 0
      PROVE  \E least, most \in pending :
                /\ \A e \in pending : least <= e /\ e <= most
                /\ rows[1][1] = IntText(least) /\ rows[n][1] = IntText(most)
  <2>1. 1 \in 1..n /\ n \in 1..n /\ es[1] \in pending /\ es[n] \in pending
    BY <1>5, <1>7
  <2>2. rows[1][1] = IntText(es[1]) /\ rows[n][1] = IntText(es[n])
    BY <1>5, <2>1
  <2>3. ASSUME NEW e \in pending PROVE es[1] <= e /\ e <= es[n]
    <3>1. PICK i \in 1..n : es[i] = e
      BY <1>5
    <3>2. e \in Int /\ es[1] \in Int /\ es[n] \in Int
      BY <1>1, <2>1 DEF Entries
    <3>3. i = 1 \/ 1 < i
      OBVIOUS
    <3>4. i = n \/ i < n
      OBVIOUS
    <3>5. es[1] <= e
      BY <1>5, <2>1, <3>1, <3>2, <3>3
    <3>6. e <= es[n]
      BY <1>5, <2>1, <3>1, <3>2, <3>4
    <3> QED
      BY <3>5, <3>6
  <2> HIDE DEF rows
  <2> QED
    BY <2>1, <2>2, <2>3
<1> HIDE DEF rows
<1>8. \E k \in Nat :
         /\ k = 0 <=> pending = {}
         /\ rows = [i \in 1..k |-> << rows[i][1], rows[i][2], rows[i][3], rows[i][4] >>]
         /\ k > 0 => \E least, most \in pending :
               /\ \A e \in pending : least <= e /\ e <= most
               /\ rows[1][1] = IntText(least) /\ rows[k][1] = IntText(most)
  <2>1. n \in Nat
    BY <1>2
  <2> QED
    BY <1>3, <1>6, <1>7, <2>1
<1> QED
  BY ONLY <1>4, <1>8

\* How many entries each of their owners has; no row, no owner.
LEMMA CountsList ==
    ASSUME TypeOK
    PROVE  /\ \E m \in Nat :
                 /\ PendingCounts = [i \in 1..m |-> << PendingCounts[i][1], PendingCounts[i][2] >>]
                 /\ \A i \in 1..m : PendingCounts[i][2] \in Numerals
           /\ (\A e \in Entries : ~Pending(e)) => PendingCounts = << >>
<1> DEFINE S == { w \in Workers : PendingOf(w) # {} }
           owners == SetToSeq(S)
           counts == [i \in DOMAIN owners |-> << owners[i], Cardinality(PendingOf(owners[i])) >>]
<1>1. PendingCounts = counts
  BY DEF PendingCounts
<1>2. IsFiniteSet(S)
  <2>1. IsFiniteSet(Entries)
    BY SomeEntries
  <2> DEFINE T == { owner[e] : e \in Entries }
  <2>2. owner \in Surjection(Entries, T)
    BY DEF TypeOK, Surjection
  <2>3. IsFiniteSet(T)
    <3> HIDE DEF T
    <3> QED
      BY <2>1, <2>2, FS_Surjection
  <2>4. S \subseteq T
    BY DEF PendingOf
  <2> HIDE DEF S, T
  <2> QED
    BY <2>3, <2>4, FS_Subset
<1> HIDE DEF S
<1>3. Cardinality(S) \in Nat /\ owners \in [1..Cardinality(S) -> S]
  BY <1>2, SetListed
<1>4. PICK m \in Nat : m = Cardinality(S)
  BY <1>3
<1> HIDE DEF owners
<1>5. DOMAIN owners = 1..m
  BY <1>3, <1>4
<1>6. counts = [i \in 1..m |-> << counts[i][1], counts[i][2] >>]
  BY <1>5
<1>7. ASSUME NEW i \in 1..m PROVE counts[i][2] \in Numerals
  <2>1. counts[i][2] = Cardinality(PendingOf(owners[i]))
    BY <1>5
  <2>2. PendingOf(owners[i]) \subseteq Entries
    BY DEF PendingOf
  <2>3. Cardinality(PendingOf(owners[i])) \in 0..MaxEntries
    BY <2>2, SomeEntries
  <2> QED
    BY <2>1, <2>3, WireAssumption
<1>8. ASSUME \A e \in Entries : ~Pending(e) PROVE counts = << >>
  <2>1. S = {}
    BY <1>8, GroupAssumption DEF S, PendingOf, Pending
  <2>2. m = 0
    BY <1>4, <2>1, FS_EmptySet
  <2> QED
    BY <1>5, <2>2
<1> HIDE DEF counts
<1> QED
  BY <1>1, <1>6, <1>7, <1>8

\* XPENDING, in both its forms, tells what is pending.
LEMMA PendingTrue ==
    ASSUME TypeOK
    PROVE  PendingIsTrue
<1> DEFINE pending == { e \in Entries : Pending(e) }
           summary == XpendingSummary(PendingSummaryReply(PendingRows, PendingCounts))[1]
           rows == PendingRows
           counts == PendingCounts
<1>1. PICK n \in Nat :
         /\ n = 0 <=> pending = {}
         /\ rows = [i \in 1..n |-> << rows[i][1], rows[i][2], rows[i][3], rows[i][4] >>]
         /\ n > 0 => \E least, most \in pending :
               /\ \A e \in pending : least <= e /\ e <= most
               /\ rows[1][1] = IntText(least) /\ rows[n][1] = IntText(most)
  <2> HIDE DEF pending
  <2>1. pending = { e \in Entries : Pending(e) }
    BY DEF pending
  <2> QED
    BY <2>1, RowsEnds
<1>2. PICK m \in Nat : /\ counts = [i \in 1..m |-> << counts[i][1], counts[i][2] >>]
                       /\ \A i \in 1..m : counts[i][2] \in Numerals
  BY CountsList
<1>3. pending = {} => counts = << >>
  BY CountsList
<1> HIDE DEF rows, counts, pending
<1>4. XpendingRows(PendingEntriesReply(rows)) = Ok(rows)
  BY <1>1, RowsReply DEF XpendingRows
<1>5. DOMAIN rows = 1..n /\ Len(rows) = n
  <2>1. DOMAIN rows = 1..n
    BY <1>1
  <2> QED
    BY <2>1, Length
<1> DEFINE read == DecodePendingSummary(PendingSummaryReply(rows, counts))
<1>6. CASE n = 0
  <2>1. rows = << >>
    BY <1>5, <1>6
  <2> DEFINE v == << Num(0), Nil, Nil, Nil >>
  <2>2. PendingSummaryReply(rows, counts) = Arr(v)
    BY <2>1 DEF PendingSummaryReply
  <2>3. Len(v) = 4 /\ v[1] = Num(0) /\ v[2] = Nil /\ v[3] = Nil /\ v[4] = Nil
    OBVIOUS
  <2> HIDE DEF v
  <2>4. DecodePendingSummary(Arr(v)) =
           All(<< DecodeNumber(Num(0)), DecodeOptionString(Nil), DecodeOptionString(Nil), Ok(<< >>) >>)
    BY <2>3, Scalars DEF DecodePendingSummary
  <2>5. read = All(<< Ok(0), Ok(None), Ok(None), Ok(<< >>) >>)
    BY <2>2, <2>4, Scalars
  <2>6. read = Ok(<< 0, None, None, << >> >>)
    BY <2>5, FourOk
  <2> QED
    BY <1>1, <1>3, <1>4, <1>5, <1>6, <2>6
       DEF PendingIsTrue, XpendingSummary, Ok, rows, counts, pending
<1>7. CASE n > 0
  <2>1. read = Ok(<< n, Some(rows[1][1]), Some(rows[n][1]), counts >>)
    BY <1>2, <1>5, <1>7, SummaryReply
  <2>2. pending # {}
    BY <1>1, <1>7
  <2>3. PICK least, most \in pending :
           /\ \A e \in pending : least <= e /\ e <= most
           /\ rows[1][1] = IntText(least) /\ rows[n][1] = IntText(most)
    BY <1>1, <1>7
  <2>4. /\ read[1][1] = n /\ read[1][2] = Some(IntText(least))
        /\ read[1][3] = Some(IntText(most)) /\ read[1][4] = counts
    BY <2>1, <2>3 DEF Ok
  <2> HIDE DEF read
  <2> QED
    BY <1>4, <1>5, <2>2, <2>3, <2>4 DEF PendingIsTrue, XpendingSummary, read, rows, counts, pending
<1> QED
  BY <1>6, <1>7

(***************************************************************************)
(* What Redis reads in the commands (Commands).                            *)
(***************************************************************************)

\* Numbers as Redis reads them.
LEMMA NumberRead == ASSUME NEW n \in Numerals PROVE Number(IntText(n)) = n
BY NumeralText DEF Number

\* A consumer blocks for at least a millisecond, and for a number that texts spell.
LEMMA BlocksAWhile ==
    ASSUME NEW block \in Blocks
    PROVE  WholeMillis(ConsumerBlock(block)) \in Numerals /\ WholeMillis(ConsumerBlock(block)) > 0
<1>1. ConsumerBlock(block) \in Int /\ ConsumerBlock(block) >= 2
  BY WireAssumption DEF ConsumerBlock, DefaultBlock, Second, Milli
<1>2. \A d \in Int : d >= 2 => d \div 2 > 0
  OBVIOUS
<1>3. WholeMillis(ConsumerBlock(block)) > 0
  BY <1>1, <1>2 DEF WholeMillis, AtLeast, Floor, Milli
<1> QED
  BY <1>3, WireAssumption

\* The options of a command, word by word.
LEMMA Options ==
    ASSUME NEW word, NEW n
    PROVE  /\ Optional(word, Some(n)) = << word, IntText(n) >>
           /\ Optional(word, None) = << >> /\ BlockArgs(None) = << >>
           /\ BlockArgs(Some(n)) = << "BLOCK", IntText(WholeMillis(n)) >>
BY DEF Optional, BlockArgs, Some, None

\* The words of a single stream.
LEMMA OneStream ==
    ASSUME NEW key, NEW id
    PROVE  StreamsArgs(<< << key, id >> >>) = << "STREAMS", key, id >>
<1> DEFINE s == << "STREAMS" >> \o << key >> \o << id >>
<1>1. /\ [i \in DOMAIN << << key, id >> >> |-> << << key, id >> >>[i][1]] = << key >>
      /\ [i \in DOMAIN << << key, id >> >> |-> << << key, id >> >>[i][2]] = << id >>
  OBVIOUS
<1>2. StreamsArgs(<< << key, id >> >>) = s
  BY <1>1 DEF StreamsArgs
<1>3. s = [i \in 1..3 |-> s[i]] /\ s[1] = "STREAMS" /\ s[2] = key /\ s[3] = id
  OBVIOUS
<1> HIDE DEF s
<1>4. [i \in 1..3 |-> s[i]] = << "STREAMS", key, id >>
  BY <1>3
<1> QED
  BY <1>2, <1>3, <1>4

\* One key and one id after STREAMS.
LEMMA StreamsRead ==
    ASSUME NEW c, NEW i \in Nat, NEW key, NEW id, Len(c) = i + 2, c[i + 1] = key, c[i + 2] = id
    PROVE  ReadStreams(c, i) = << << key, id >> >>
<1>1. (Len(c) - i) \div 2 = 1
  OBVIOUS
<1>2. ReadStreams(c, i) = [j \in 1..1 |-> << c[i + j], c[i + 1 + j] >>]
  BY <1>1 DEF ReadStreams
<1>3. ReadStreams(c, i)[1] = << key, id >>
  BY <1>2
<1> QED
  BY <1>2, <1>3

\* The words of the XREADGROUP of a consumer.
LEMMA GroupWords ==
    ASSUME NEW consumer, NEW block
    PROVE  LET c == ReadGroupCommand(consumer, block)
           IN  /\ Len(c) = 11
               /\ c[3] = Group /\ c[4] = consumer /\ c[5] = "COUNT" /\ c[6] = IntText(Count)
               /\ c[7] = "BLOCK" /\ c[8] = IntText(WholeMillis(ConsumerBlock(block)))
               /\ c[9] = "STREAMS" /\ c[10] = Key /\ c[11] = ">"
<1> DEFINE c == ReadGroupCommand(consumer, block)
<1>1. PICK n, ms : n = IntText(Count) /\ ms = IntText(WholeMillis(ConsumerBlock(block)))
  OBVIOUS
<1>2. c = << "XREADGROUP", "GROUP", Group, consumer >> \o << "COUNT", n >> \o << "BLOCK", ms >>
             \o << >> \o << "STREAMS", Key, ">" >>
  BY <1>1, Options, OneStream DEF ReadGroupCommand, XreadGroup
<1> HIDE DEF c
<1>3. /\ Len(c) = 11
      /\ c[3] = Group /\ c[4] = consumer /\ c[5] = "COUNT" /\ c[6] = n
      /\ c[7] = "BLOCK" /\ c[8] = ms /\ c[9] = "STREAMS" /\ c[10] = Key /\ c[11] = ">"
  BY <1>2
<1> QED
  BY <1>1, <1>3 DEF c

\* What Redis reads in them.
LEMMA GroupRead ==
    ASSUME NEW consumer, NEW block \in Blocks
    PROVE  ReadXreadGroup(ReadGroupCommand(consumer, block)) =
              Ok([group |-> Group, consumer |-> consumer, count |-> Some(Count),
                  block |-> Some(WholeMillis(ConsumerBlock(block))), noAck |-> FALSE,
                  streams |-> << << Key, ">" >> >>])
<1> DEFINE c == ReadGroupCommand(consumer, block)
           ms == WholeMillis(ConsumerBlock(block))
<1>1. /\ Len(c) = 11
      /\ c[3] = Group /\ c[4] = consumer /\ c[5] = "COUNT" /\ c[6] = IntText(Count)
      /\ c[7] = "BLOCK" /\ c[8] = IntText(ms) /\ c[9] = "STREAMS" /\ c[10] = Key /\ c[11] = ">"
  BY GroupWords
<1>2. Number(IntText(Count)) = Count /\ Number(IntText(ms)) = ms
  BY NumberRead, BlocksAWhile, WireAssumption
<1> HIDE DEF c, ms
<1>3. /\ Has(c, 5, "COUNT") /\ Has(c, 7, "BLOCK") /\ ~ Has(c, 9, "NOACK") /\ Has(c, 9, "STREAMS")
      /\ After(c, 5, "COUNT") = 7 /\ After(c, 7, "BLOCK") = 9
  BY <1>1 DEF Has, After
<1>4. OptionAt(c, 5, "COUNT") = Some(Count) /\ OptionAt(c, 7, "BLOCK") = Some(ms)
  BY <1>1, <1>2, <1>3 DEF OptionAt
<1>5. ReadStreams(c, 9) = << << Key, ">" >> >>
  <2>1. PICK id : id = ">"
    OBVIOUS
  <2>2. 9 \in Nat /\ Len(c) = 9 + 2 /\ c[9 + 1] = Key /\ c[9 + 2] = id
    BY <1>1, <2>1
  <2>3. ReadStreams(c, 9) = << << Key, id >> >>
    BY <2>2, StreamsRead, ZenonT(30)
  <2> QED
    BY <2>1, <2>3
<1>6. (Len(c) - 9) % 2 = 0
  BY <1>1
<1> QED
  BY <1>1, <1>3, <1>4, <1>5, <1>6 DEF ReadXreadGroup, c, ms

\* The same of the XREAD of a tail.
LEMMA TailRead ==
    ASSUME NEW id, NEW block \in Blocks
    PROVE  ReadXread(ReadCommand(id, block)) =
              Ok([count |-> Some(Count), block |-> Some(WholeMillis(ConsumerBlock(block))),
                  streams |-> << << Key, id >> >>])
<1> DEFINE c == ReadCommand(id, block)
           ms == WholeMillis(ConsumerBlock(block))
<1>1. PICK n, m : n = IntText(Count) /\ m = IntText(ms)
  OBVIOUS
<1>2. c = << "XREAD" >> \o << "COUNT", n >> \o << "BLOCK", m >> \o << "STREAMS", Key, id >>
  BY <1>1, Options, OneStream DEF ReadCommand, Xread
<1>3. Number(n) = Count /\ Number(m) = ms
  BY <1>1, NumberRead, BlocksAWhile, WireAssumption
<1> HIDE DEF c, ms
<1>4. /\ Len(c) = 8 /\ c[2] = "COUNT" /\ c[3] = n /\ c[4] = "BLOCK" /\ c[5] = m
      /\ c[6] = "STREAMS" /\ c[7] = Key /\ c[8] = id
  BY <1>2
<1>5. /\ Has(c, 2, "COUNT") /\ Has(c, 4, "BLOCK") /\ Has(c, 6, "STREAMS")
      /\ After(c, 2, "COUNT") = 4 /\ After(c, 4, "BLOCK") = 6
  BY <1>4 DEF Has, After
<1>6. OptionAt(c, 2, "COUNT") = Some(Count) /\ OptionAt(c, 4, "BLOCK") = Some(ms)
  BY <1>3, <1>4, <1>5 DEF OptionAt
<1>7. ReadStreams(c, 6) = << << Key, id >> >>
  <2>1. 6 \in Nat /\ Len(c) = 6 + 2 /\ c[6 + 1] = Key /\ c[6 + 2] = id
    BY <1>4
  <2> QED
    BY <2>1, StreamsRead, ZenonT(30)
<1>8. (Len(c) - 6) % 2 = 0
  BY <1>4
<1> QED
  BY <1>5, <1>6, <1>7, <1>8 DEF ReadXread, c, ms

\* Reads name their stream and their consumer, and block for a while.
LEMMA ReadsTrue == ASSUME NEW consumer PROVE ReadsSayIt(consumer)
<1> SUFFICES ASSUME NEW block \in Blocks
             PROVE  LET group == ReadXreadGroup(ReadGroupCommand(consumer, block))[1]
                        tail == ReadXread(ReadCommand(IntText(appended), block))[1]
                    IN  /\ tail.streams = << << Key, IntText(appended) >> >>
                        /\ tail.count = Some(Count)
                        /\ tail.block # None /\ tail.block[1] > 0
                        /\ group = [group |-> Group, consumer |-> consumer, count |-> Some(Count),
                                    block |-> tail.block, noAck |-> FALSE,
                                    streams |-> << << Key, ">" >> >>]
  BY DEF ReadsSayIt
<1> DEFINE ms == WholeMillis(ConsumerBlock(block))
           group == ReadXreadGroup(ReadGroupCommand(consumer, block))[1]
           tail == ReadXread(ReadCommand(IntText(appended), block))[1]
<1>1. tail = [count |-> Some(Count), block |-> Some(ms),
              streams |-> << << Key, IntText(appended) >> >>]
  BY TailRead DEF Ok
<1>2. group = [group |-> Group, consumer |-> consumer, count |-> Some(Count),
               block |-> Some(ms), noAck |-> FALSE, streams |-> << << Key, ">" >> >>]
  <2> DEFINE said == [group |-> Group, consumer |-> consumer, count |-> Some(Count),
                      block |-> Some(ms), noAck |-> FALSE, streams |-> << << Key, ">" >> >>]
  <2>1. ReadXreadGroup(ReadGroupCommand(consumer, block)) = Ok(said)
    BY GroupRead
  <2> HIDE DEF said
  <2>2. group = said
    BY <2>1 DEF Ok
  <2> QED
    BY <2>2 DEF said
<1>3. ms > 0
  BY BlocksAWhile
<1> HIDE DEF ms, group, tail
<1>4. /\ tail.block = Some(ms) /\ tail.count = Some(Count)
      /\ tail.streams = << << Key, IntText(appended) >> >>
  BY <1>1
<1>5. Some(ms) # None /\ Some(ms)[1] = ms
  BY DEF Some, None
<1> QED
  BY <1>2, <1>3, <1>4, <1>5 DEF group, tail

\* XGROUP CREATE asks for the group where the consumer wants it.
LEMMA CreateTrue ==
    ReadXgroupCreate(XgroupCreate(Key, Group, Some(FromText), TRUE)) =
        Ok([key |-> Key, group |-> Group, from |-> FromText, mkStream |-> TRUE])
<1> DEFINE c == XgroupCreate(Key, Group, Some(FromText), TRUE)
<1>1. Some(FromText) # None /\ Some(FromText)[1] = FromText
  BY DEF Some, None
<1>2. PICK id : id = FromText
  OBVIOUS
<1>3. c = << "XGROUP", "CREATE", Key, Group, id >> \o << "MKSTREAM" >>
  BY <1>1, <1>2 DEF XgroupCreate
<1> HIDE DEF c
<1>4. Len(c) = 6 /\ c[3] = Key /\ c[4] = Group /\ c[5] = id /\ c[6] = "MKSTREAM"
  BY <1>3
<1>5. Has(c, 6, "MKSTREAM") = TRUE
  BY <1>4 DEF Has
<1> QED
  BY <1>2, <1>4, <1>5 DEF ReadXgroupCreate, c

\* XACK acknowledges the entry that was handled.
LEMMA AckTrue ==
    ASSUME NEW e
    PROVE  AckCommand(e) = << "XACK", Key, Group, IntText(e) >>
<1>1. PICK id : id = IntText(e)
  OBVIOUS
<1> DEFINE c == << "XACK", Key, Group >> \o << id >>
<1>2. << id >> # << >>
  OBVIOUS
<1>3. AckCommand(e) = c
  BY <1>1, <1>2 DEF AckCommand, Xack, UnlessEmpty
<1>4. c = [i \in 1..4 |-> c[i]] /\ c[1] = "XACK" /\ c[2] = Key /\ c[3] = Group /\ c[4] = id
  OBVIOUS
<1> HIDE DEF c
<1>5. [i \in 1..4 |-> c[i]] = << "XACK", Key, Group, id >>
  BY <1>4
<1> QED
  BY <1>1, <1>3, <1>4, <1>5

\* A claim takes nothing a whole millisecond early.
LEMMA IdleMillis ==
    ASSUME NEW d \in Nat
    PROVE  WholeMillis(d) * Milli \in (d - Milli + 1)..d
<1>1. d \div 2 \in Nat /\ 2 * (d \div 2) \in (d - 1)..d
  OBVIOUS
<1>2. WholeMillis(d) = d \div 2
  BY <1>1 DEF WholeMillis, AtLeast, Floor, Milli
<1>3. WholeMillis(d) * Milli \in (d - 1)..d
  BY <1>1, <1>2 DEF Milli
<1> QED
  BY <1>3 DEF Milli

\* The words that follow the first five.
LEMMA WordsAfterFive ==
    ASSUME NEW a, NEW b, NEW c, NEW d, NEW e, NEW words, NEW n \in Nat,
           words = [i \in 1..n |-> words[i]], NEW all, all = << a, b, c, d, e >> \o words
    PROVE  SubSeq(all, 6, Len(all)) = words /\ all[4] = d /\ all[5] = e
<1>1. Len(words) = n
  <2>1. DOMAIN words = 1..n
    OBVIOUS
  <2> QED
    BY <2>1, Length
<1>2. all = [i \in 1..(n + 5) |-> IF i <= 5 THEN << a, b, c, d, e >>[i] ELSE words[i - 5]]
  BY <1>1
<1>3. Len(all) = n + 5
  <2>1. n + 5 \in Nat /\ DOMAIN all = 1..(n + 5)
    BY <1>2
  <2> QED
    BY <2>1, Length
<1>4. SubSeq(all, 6, n + 5) = [i \in 1..n |-> all[i + 5]]
  OBVIOUS
<1>5. \A i \in 1..n : all[i + 5] = words[i]
  BY <1>2
<1>6. SubSeq(all, 6, n + 5) = [i \in 1..n |-> words[i]]
  BY <1>4, <1>5
<1>7. all[4] = d /\ all[5] = e
  BY <1>2
<1> QED
  BY <1>3, <1>6, <1>7

\* XAUTOCLAIM and XCLAIM ask for the same idle time, of the entries they mean.
LEMMA ClaimsTrue == ASSUME TypeOK PROVE ClaimsSayIt
<1> DEFINE ids == [i \in DOMAIN PendingRows |-> PendingRows[i][1]]
<1>1. PICK n \in Nat : DOMAIN PendingRows = 1..n
  <2>1. PICK n \in Nat : PendingRows = [i \in 1..n |-> << PendingRows[i][1], PendingRows[i][2],
                                                          PendingRows[i][3], PendingRows[i][4] >>]
    BY RowsEnds
  <2> QED
    BY <2>1
<1>2. ids = [i \in 1..n |-> ids[i]]
  BY <1>1
<1> HIDE DEF ids
<1>3. ASSUME NEW minIdle \in Idles
      PROVE  LET all == ReadXautoclaim(ClaimCommand(minIdle))[1]
                 these == ReadXclaim(Xclaim(Key, Group, Claimer, minIdle, ids))[1]
             IN  /\ all = [group |-> Group, consumer |-> Claimer, minIdle |-> these.minIdle,
                           start |-> "0-0", count |-> Some(ClaimCount)]
                 /\ these.ids = ids
                 /\ these.minIdle * Milli \in (minIdle - Milli + 1)..minIdle
  <2> DEFINE all == ReadXautoclaim(ClaimCommand(minIdle))[1]
             these == ReadXclaim(Xclaim(Key, Group, Claimer, minIdle, ids))[1]
             ms == WholeMillis(minIdle)
             c == ClaimCommand(minIdle)
             d == Xclaim(Key, Group, Claimer, minIdle, ids)
  <2>1. PICK m, n1 : m = IntText(ms) /\ n1 = IntText(ClaimCount)
    OBVIOUS
  <2>2. Number(m) = ms /\ Number(n1) = ClaimCount
    BY <2>1, NumberRead, WireAssumption
  <2>3. ms * Milli \in (minIdle - Milli + 1)..minIdle
    BY IdleMillis, WireAssumption
  <2>4. c = << "XAUTOCLAIM", Key, Group, Claimer, m, "0-0" >> \o << "COUNT", n1 >>
    BY <2>1, Options DEF ClaimCommand, Xautoclaim
  <2>5. d = << "XCLAIM", Key, Group, Claimer, m >> \o ids
    BY <2>1 DEF Xclaim
  <2> HIDE DEF c, d, ms
  <2>6. /\ Len(c) = 8 /\ c[3] = Group /\ c[4] = Claimer /\ c[5] = m /\ c[6] = "0-0"
        /\ c[7] = "COUNT" /\ c[8] = n1
    BY <2>4
  <2>7. OptionAt(c, 7, "COUNT") = Some(ClaimCount)
    BY <2>2, <2>6 DEF OptionAt, Has
  <2>8. SubSeq(d, 6, Len(d)) = ids /\ d[4] = Claimer /\ d[5] = m
    BY <1>2, <2>5, WordsAfterFive
  <2>9. all = [group |-> Group, consumer |-> Claimer, minIdle |-> ms,
               start |-> "0-0", count |-> Some(ClaimCount)]
    BY <2>2, <2>6, <2>7 DEF ReadXautoclaim, Ok, c
  <2>10. these = [consumer |-> Claimer, minIdle |-> ms, ids |-> ids]
    BY <2>2, <2>8 DEF ReadXclaim, Ok, d
  <2> HIDE DEF all, these
  <2>11. these.minIdle = ms /\ these.ids = ids
    BY <2>10
  <2> QED
    BY <2>3, <2>9, <2>11 DEF all, these
<1> QED
  BY <1>3 DEF ClaimsSayIt, ids

\* The keys of several streams go first, and each meets its id again.
LEMMA TwoStreamsRead ==
    ASSUME NEW k, NEW l, NEW a, NEW b
    PROVE  ReadXread(Xread(<< << k, a >>, << l, b >> >>, None, None))[1].streams =
              << << k, a >>, << l, b >> >>
<1> DEFINE streams == << << k, a >>, << l, b >> >>
           c == Xread(streams, None, None)
<1>1. /\ [i \in DOMAIN streams |-> streams[i][1]] = << k, l >>
      /\ [i \in DOMAIN streams |-> streams[i][2]] = << a, b >>
  OBVIOUS
<1>2. StreamsArgs(streams) = << "STREAMS" >> \o << k, l >> \o << a, b >>
  <2> HIDE DEF streams
  <2> QED
    BY <1>1 DEF StreamsArgs
<1>3. c = << "XREAD" >> \o << >> \o << >> \o (<< "STREAMS" >> \o << k, l >> \o << a, b >>)
  <2> HIDE DEF streams
  <2> QED
    BY <1>2, Options DEF Xread
<1> HIDE DEF c
<1>4. Len(c) = 6 /\ c[2] = "STREAMS" /\ c[3] = k /\ c[4] = l /\ c[5] = a /\ c[6] = b
  BY <1>3
<1>5. /\ ~ Has(c, 2, "COUNT") /\ ~ Has(c, 2, "BLOCK") /\ Has(c, 2, "STREAMS")
      /\ After(c, 2, "COUNT") = 2 /\ After(c, 2, "BLOCK") = 2
  BY <1>4 DEF Has, After
<1>6. ReadStreams(c, 2) = streams
  <2>1. (Len(c) - 2) \div 2 = 2
    BY <1>4
  <2>2. ReadStreams(c, 2) = [j \in 1..2 |-> << c[2 + j], c[2 + 2 + j] >>]
    BY <2>1 DEF ReadStreams
  <2>3. ReadStreams(c, 2)[1] = << k, a >> /\ ReadStreams(c, 2)[2] = << l, b >>
    BY <1>4, <2>2
  <2>4. [j \in 1..2 |-> ReadStreams(c, 2)[j]] = << << k, a >>, << l, b >> >>
    BY <2>3
  <2> QED
    BY <2>2, <2>4
<1>7. (Len(c) - 2) % 2 = 0
  BY <1>4
<1> HIDE DEF streams
<1>8. ReadXread(c) = Ok([count |-> OptionAt(c, 2, "COUNT"), block |-> OptionAt(c, 2, "BLOCK"),
                         streams |-> streams])
  BY <1>5, <1>6, <1>7 DEF ReadXread
<1>9. ReadXread(c)[1].streams = streams
  BY <1>8 DEF Ok
<1> QED
  BY <1>9 DEF c, streams

\* XREVRANGE is XRANGE with its ends swapped.
LEMMA RangesMirror ==
    ASSUME NEW a, NEW b
    PROVE  LET up == Xrange(Key, a, b, Some(Count))
               down == Xrevrange(Key, a, b, Some(Count))
           IN  << up[3], up[4] >> = << down[4], down[3] >> /\ SubSeq(up, 5, 6) = SubSeq(down, 5, 6)
<1> DEFINE up == Xrange(Key, a, b, Some(Count))
           down == Xrevrange(Key, a, b, Some(Count))
<1>1. PICK n : n = IntText(Count)
  OBVIOUS
<1>2. /\ up = << "XRANGE", Key, a, b >> \o << "COUNT", n >>
      /\ down = << "XREVRANGE", Key, b, a >> \o << "COUNT", n >>
  BY <1>1, Options DEF Xrange, Xrevrange
<1> HIDE DEF up, down
<1>3. /\ up[3] = a /\ up[4] = b /\ up[5] = "COUNT" /\ up[6] = n
      /\ down[3] = b /\ down[4] = a /\ down[5] = "COUNT" /\ down[6] = n
  BY <1>2
<1>4. \A s : SubSeq(s, 5, 6) = [i \in 1..2 |-> s[i + 4]]
  OBVIOUS
<1>5. \A i \in 1..2 : up[i + 4] = down[i + 4]
  BY <1>3
<1> QED
  BY <1>3, <1>4, <1>5 DEF up, down

\* XADD trims the stream and adds one field.
LEMMA TrimmedRead ==
    ASSUME NEW approx \in BOOLEAN
    PROVE  ReadXadd(Xadd(Key, << << "d", "1" >> >>,
                         [maxLen |-> Some(MaxEntries), approx |-> approx, id |-> None])) =
              Ok([maxLen |-> Some(MaxEntries), approx |-> approx, id |-> "*",
                  fields |-> << << "d", "1" >> >>])
<1> DEFINE opts == [maxLen |-> Some(MaxEntries), approx |-> approx, id |-> None]
           c == Xadd(Key, << << "d", "1" >> >>, opts)
           fields == << << "d", "1" >> >>
<1>1. PICK n : n = IntText(MaxEntries)
  OBVIOUS
<1>2. MaxEntries \in Numerals
  BY WireAssumption, GroupAssumption
<1>3. Number(n) = MaxEntries /\ n # "~"
  BY <1>1, <1>2, NumberRead, NumeralText DEF OtherTexts
<1>4. HashEntriesArgs(fields) = << "d", "1" >>
  <2>1. /\ Len(fields) = 1 /\ 2 * 1 = 2 /\ (1 + 1) \div 2 = 1 /\ (2 + 1) \div 2 = 1
        /\ 1 % 2 = 1 /\ 2 % 2 # 1 /\ fields[1][1] = "d" /\ fields[1][2] = "1"
    OBVIOUS
  <2> HIDE DEF fields
  <2>2. Flat(fields) = [i \in 1..2 |-> fields[(i + 1) \div 2][IF i % 2 = 1 THEN 1 ELSE 2]]
    BY <2>1 DEF Flat
  <2>3. Flat(fields)[1] = "d" /\ Flat(fields)[2] = "1"
    BY <2>1, <2>2
  <2>4. [i \in 1..2 |-> Flat(fields)[i]] = << "d", "1" >>
    BY <2>3
  <2> QED
    BY <2>2, <2>4 DEF HashEntriesArgs
<1>5. opts.maxLen # None /\ opts.maxLen[1] = MaxEntries /\ opts.approx = approx /\ opts.id = None
  BY DEF Some, None
<1>6. c = << "XADD", Key >> \o ((IF approx THEN << "MAXLEN", "~" >> ELSE << "MAXLEN" >>) \o << n >>)
            \o << "*" >> \o << "d", "1" >>
  <2> HIDE DEF opts, fields
  <2> QED
    BY <1>1, <1>4, <1>5 DEF Xadd, TrimArgs, fields
<1> HIDE DEF c
<1>7. ASSUME NEW i \in Nat, Len(c) = i + 2, c[i + 1] = "d", c[i + 2] = "1"
      PROVE  PairsOf(SubSeq(c, i + 1, Len(c))) = fields
  <2> DEFINE s == SubSeq(c, i + 1, Len(c))
  <2>1. s = [j \in 1..2 |-> c[i + j]]
    BY <1>7
  <2>2. Len(s) = 2 /\ s[1] = "d" /\ s[2] = "1"
    BY <1>7, <2>1
  <2> HIDE DEF s
  <2>3. Len(s) \div 2 = 1 /\ 2 * 1 - 1 = 1 /\ 2 * 1 = 2
    BY <2>2
  <2>4. PairsOf(s) = [j \in 1..1 |-> << s[2 * j - 1], s[2 * j] >>]
    BY <2>3 DEF PairsOf
  <2>5. PairsOf(s)[1] = << "d", "1" >>
    BY <2>2, <2>3, <2>4
  <2>6. PairsOf(s) = fields
    BY <2>4, <2>5
  <2> QED
    BY <2>6 DEF s
<1> DEFINE said == [maxLen |-> Some(MaxEntries), approx |-> approx, id |-> "*", fields |-> fields]
<1> HIDE DEF fields
<1>8. CASE approx
  <2>1. /\ Len(c) = 8 /\ c[3] = "MAXLEN" /\ c[4] = "~" /\ c[5] = n
        /\ c[6] = "*" /\ c[7] = "d" /\ c[8] = "1"
    BY <1>6, <1>8
  <2>2. PairsOf(SubSeq(c, 7, Len(c))) = fields
    <3>1. 6 \in Nat /\ Len(c) = 6 + 2 /\ c[6 + 1] = "d" /\ c[6 + 2] = "1" /\ 6 + 1 = 7
      BY <2>1
    <3> QED
      BY <1>7, <3>1
  <2>3. Has(c, 3, "MAXLEN")
    BY <2>1 DEF Has
  <2>4. ReadXadd(c) = Ok([maxLen |-> Some(Number(c[6 - 1])), approx |-> TRUE, id |-> c[6],
                          fields |-> PairsOf(SubSeq(c, 6 + 1, Len(c)))])
    BY <2>1, <2>3 DEF ReadXadd
  <2>5. c[6 - 1] = n /\ PairsOf(SubSeq(c, 6 + 1, Len(c))) = fields
    BY <2>1, <2>2
  <2>6. approx = TRUE
    BY <1>8
  <2> QED
    BY <1>3, <2>1, <2>4, <2>5, <2>6 DEF c, fields
<1>9. CASE ~approx
  <2>1. /\ Len(c) = 7 /\ c[3] = "MAXLEN" /\ c[4] = n
        /\ c[5] = "*" /\ c[6] = "d" /\ c[7] = "1"
    BY <1>6, <1>9
  <2>2. PairsOf(SubSeq(c, 6, Len(c))) = fields
    <3>1. 5 \in Nat /\ Len(c) = 5 + 2 /\ c[5 + 1] = "d" /\ c[5 + 2] = "1" /\ 5 + 1 = 6
      BY <2>1
    <3> QED
      BY <1>7, <3>1
  <2> QED
    BY <1>3, <1>9, <2>1, <2>2 DEF ReadXadd, Has, c, fields
<1> QED
  BY <1>8, <1>9

\* XPENDING asks for the idle entries of one consumer.
LEMMA PendingAsked ==
    ReadXpending(XpendingExtended(Key, Group,
        [idle |-> Some(MinIdle * Milli), start |-> None, end |-> None,
         count |-> Count, consumer |-> << Claimer >>])) =
      Ok([idle |-> Some(MinIdle), start |-> "-", end |-> "+",
          count |-> Count, consumer |-> << Claimer >>])
<1> DEFINE opts == [idle |-> Some(MinIdle * Milli), start |-> None, end |-> None,
                    count |-> Count, consumer |-> << Claimer >>]
           c == XpendingExtended(Key, Group, opts)
<1>1. WholeMillis(MinIdle * Milli) = MinIdle
  <2>1. MinIdle \in Nat /\ (MinIdle * 2) \div 2 = MinIdle
    BY GroupAssumption
  <2> QED
    BY <2>1 DEF WholeMillis, AtLeast, Floor, Milli
<1>2. PICK m, n : m = IntText(MinIdle) /\ n = IntText(Count)
  OBVIOUS
<1>3. Number(m) = MinIdle /\ Number(n) = Count
  BY <1>2, NumberRead, WireAssumption
<1>4. /\ opts.idle # None /\ opts.idle[1] = MinIdle * Milli /\ opts.start = None
      /\ opts.end = None /\ opts.count = Count /\ opts.consumer = << Claimer >>
  BY DEF Some, None
<1> HIDE DEF opts
<1>5. c = << "XPENDING", Key, Group >> \o << "IDLE", m >> \o << "-", "+", n >> \o << Claimer >>
  BY <1>1, <1>2, <1>4 DEF XpendingExtended
<1> HIDE DEF c
<1>6. /\ Len(c) = 9 /\ c[4] = "IDLE" /\ c[5] = m /\ c[6] = "-" /\ c[7] = "+" /\ c[8] = n
      /\ c[9] = Claimer
  BY <1>5
<1>7. Has(c, 4, "IDLE") /\ After(c, 4, "IDLE") = 6 /\ OptionAt(c, 4, "IDLE") = Some(MinIdle)
  BY <1>3, <1>6 DEF Has, After, OptionAt
<1>8. SubSeq(c, 9, 9) = << Claimer >>
  <2>1. SubSeq(c, 9, 9) = [i \in 1..1 |-> c[i + 8]]
    OBVIOUS
  <2>2. SubSeq(c, 9, 9) = [i \in 1..1 |-> Claimer]
    BY <1>6, <2>1
  <2>3. \A x : [i \in 1..1 |-> x] = << x >>
    OBVIOUS
  <2> QED
    BY <2>2, <2>3
<1>9. ReadXpending(c) = Ok([idle |-> Some(MinIdle), start |-> c[6], end |-> c[6 + 1],
                            count |-> Number(c[6 + 2]), consumer |-> SubSeq(c, 6 + 3, Len(c))])
  BY <1>7 DEF ReadXpending
<1>10. c[6 + 1] = "+" /\ Number(c[6 + 2]) = Count /\ SubSeq(c, 6 + 3, Len(c)) = << Claimer >>
  BY <1>3, <1>6, <1>8
<1> QED
  BY <1>6, <1>9, <1>10 DEF c, opts

\* Pages, trims and the pending list are asked for as they are meant.
LEMMA PagesTrue == PagesSayIt
BY TwoStreamsRead, RangesMirror, TrimmedRead, PendingAsked DEF PagesSayIt

\* What a state must be for the wire to be true to it.
LEMMA WireTrue ==
    ASSUME TypeOK, \A w \in Workers : pc[w] = "reply" => batch[w] # << >>
    PROVE  RepliesAreTrue /\ RequestsSayIt
<1>1. RepliesAreTrue
  BY PendingTrue, DeliveryTrue, PageTrue, InfoTrue DEF RepliesAreTrue
<1>2. RequestsSayIt
  BY CreateTrue, ReadsTrue, AckTrue, ClaimsTrue, PagesTrue DEF RequestsSayIt
<1> QED
  BY <1>1, <1>2

\* Consumers, claimer, pages, XPENDING and XINFO report what Redis holds, in
\* RESP2 and in RESP3, in every reachable state (decode.ts:207-369,
\* Redis.ts:366, :962-1003).
THEOREM RepliesAreTrueHolds == Spec => []RepliesAreTrue
<1>1. GroupInv => RepliesAreTrue
  BY TypesFollow, WireTrue DEF GroupInv, WorkersInv
<1> QED
  BY <1>1, GroupInvHolds, PTL

\* Redis reads in every command what the call means; a blocking read blocks for a
\* while and not for ever, and a claim is not a millisecond early
\* (RedisCommand.ts:143-254, Redis.ts:308-309, :354-389).
THEOREM RequestsSayItHolds == Spec => []RequestsSayIt
<1>1. GroupInv => RequestsSayIt
  BY TypesFollow, WireTrue DEF GroupInv, WorkersInv
<1> QED
  BY <1>1, GroupInvHolds, PTL

=============================================================================
