---------------------------- MODULE ScriptProofs ----------------------------
(***************************************************************************)
(* Proofs about Script for every set of calls and of nodes.                *)
(***************************************************************************)
EXTENDS Script, TLAPS

\* What makes ExtraRunsAreResends inductive: while a call is under way, each run
\* of its script was followed by the client sending it again.
RunsInv ==
    /\ TypeOK
    /\ \A c \in Calls :
         /\ adapter = "bun" => resent[c] = 0
         /\ runs[c] <= 1 + resent[c]
         /\ pc[c] \notin { "done", "failed" } => runs[c] <= resent[c]
         /\ pc[c] = "done" => runs[c] >= 1

\* Types, and no more runs of a script than its EVALSHAs account for.
THEOREM RunsInvHolds == Spec => []RunsInv
<1> USE ScriptAssumption
<1>1. Init => RunsInv
  <2> SUFFICES ASSUME Init PROVE RunsInv
    OBVIOUS
  <2>1. TypeOK
    <3>1. cachedSha \in BOOLEAN
      BY DEF Init
    <3>2. pc \in [Calls -> { "idle", "load", "eval", "reload", "reeval",
                            "done", "noscript", "failed" }]
      BY DEF Init
    <3>3. /\ runs \in [Calls -> 0..(MaxResends + 1)]
          /\ resent \in [Calls -> 0..MaxResends]
      BY DEF Init
    <3> QED
      BY <3>1, <3>2, <3>3 DEF Init, TypeOK
  <2>2. \A c \in Calls : pc[c] = "idle" /\ runs[c] = 0 /\ resent[c] = 0
    BY DEF Init
  <2> QED
    BY <2>1, <2>2 DEF RunsInv
<1>2. RunsInv /\ [Next]_vars => RunsInv'
  <2> SUFFICES ASSUME RunsInv, [Next]_vars PROVE RunsInv'
    OBVIOUS
  <2> USE DEF RunsInv, TypeOK, Go
  <2>1. ASSUME NEW c \in Calls, Begin(c) PROVE RunsInv'
    BY <2>1 DEF Begin
  <2>2. ASSUME NEW c \in Calls, Load(c) PROVE RunsInv'
    BY <2>2 DEF Load
  <2>3. ASSUME NEW c \in Calls, Eval(c) PROVE RunsInv'
    BY <2>3 DEF Eval
  <2>4. ASSUME NEW c \in Calls, NoScript(c) PROVE RunsInv'
    BY <2>4 DEF NoScript
  <2>5. ASSUME NEW c \in Calls, Disconnect(c) PROVE RunsInv'
    BY <2>5 DEF Disconnect, Unanswered, Active, AfterError
  <2>6. ASSUME NEW c \in Calls, Resend(c) PROVE RunsInv'
    BY <2>6 DEF Resend, Unanswered, Active
  <2>7. ASSUME NEW n \in Nodes, Flush(n) PROVE RunsInv'
    BY <2>7 DEF Flush
  <2>8. CASE UNCHANGED vars
    BY <2>8 DEF vars
  <2> QED
    BY <2>1, <2>2, <2>3, <2>4, <2>5, <2>6, <2>7, <2>8 DEF Next
<1> QED
  BY <1>1, <1>2, PTL DEF Spec

\* Every state of every behaviour has the declared types.
THEOREM TypeCorrect == Spec => []TypeOK
<1>1. RunsInv => TypeOK
  BY DEF RunsInv
<1> QED
  BY <1>1, RunsInvHolds, PTL

\* A call runs its script once more only for each time the client sent it again.
THEOREM ExtraRunsAreResendsHolds == Spec => []ExtraRunsAreResends
<1>1. RunsInv => ExtraRunsAreResends
  BY ScriptAssumption DEF RunsInv, TypeOK, ExtraRunsAreResends
<1> QED
  BY <1>1, RunsInvHolds, PTL

\* What makes NoScriptOnlyIfFlushed inductive: after its reload, a call finds
\* the script on the server unless a flush came between.
ReloadInv ==
    \A c \in Calls :
        /\ pc[c] = "reeval" => Home \in loaded \/ c \in flushed
        /\ pc[c] = "noscript" => c \in flushed

\* With a single server, NOSCRIPT reaches the caller only through a flush.
THEOREM NoScriptOnlyIfFlushedHolds ==
    ASSUME Nodes = {Home}
    PROVE  Spec => []NoScriptOnlyIfFlushed
<1>1. Init => ReloadInv
  BY DEF Init, ReloadInv
<1>2. RunsInv /\ ReloadInv /\ [Next]_vars => ReloadInv'
  <2> SUFFICES ASSUME RunsInv, ReloadInv, [Next]_vars PROVE ReloadInv'
    OBVIOUS
  <2> USE DEF RunsInv, TypeOK, ReloadInv, Go
  <2>1. ASSUME NEW c \in Calls, Begin(c) PROVE ReloadInv'
    BY <2>1 DEF Begin
  <2>2. ASSUME NEW c \in Calls, Load(c) PROVE ReloadInv'
    BY <2>2 DEF Load
  <2>3. ASSUME NEW c \in Calls, Eval(c) PROVE ReloadInv'
    BY <2>3 DEF Eval
  <2>4. ASSUME NEW c \in Calls, NoScript(c) PROVE ReloadInv'
    BY <2>4 DEF NoScript
  <2>5. ASSUME NEW c \in Calls, Disconnect(c) PROVE ReloadInv'
    BY <2>5 DEF Disconnect, Unanswered, Active, AfterError
  <2>6. ASSUME NEW c \in Calls, Resend(c) PROVE ReloadInv'
    BY <2>6 DEF Resend, Unanswered, Active
  <2>7. ASSUME NEW n \in Nodes, Flush(n) PROVE ReloadInv'
    BY <2>7 DEF Flush, Active
  <2>8. CASE UNCHANGED vars
    BY <2>8 DEF vars
  <2> QED
    BY <2>1, <2>2, <2>3, <2>4, <2>5, <2>6, <2>7, <2>8 DEF Next
<1>3. ReloadInv => NoScriptOnlyIfFlushed
  BY DEF ReloadInv, NoScriptOnlyIfFlushed
<1> QED
  BY <1>1, <1>2, <1>3, RunsInvHolds, PTL DEF Spec
=============================================================================
