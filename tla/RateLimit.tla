----------------------------- MODULE RateLimit -----------------------------
(***************************************************************************)
(* RateLimit.make (core/src/RateLimit.ts): the sliding window counter of   *)
(* one identifier.  The Lua script is one atomic step of Redis, so a check *)
(* is one action, whichever client sent it; what interleaves with it is    *)
(* the clock, which expires the counters.                                  *)
(*                                                                         *)
(* The script computes with fractions of Window; the model multiplies both *)
(* sides by Window instead and stays in the integers.                      *)
(***************************************************************************)
EXTENDS Integers

CONSTANTS
    Window,   \* windowSeconds(options.window)
    Max,      \* options.max
    Horizon   \* bound: the last second the clock reaches

(* A window is floored at one second; a limiter that admits nothing is of  *)
(* no use.                                                                 *)
ASSUME LimitAssumption ==
    /\ Window \in Nat \ {0}
    /\ Max \in Nat \ {0}
    /\ Horizon \in Nat
    /\ Horizon >= 2 * Window

VARIABLES
    now,       \* TIME: seconds on the server's clock
    count,     \* per bucket: the counter at `{prefix}:{identifier}:{bucket}`
    expireAt,  \* per bucket: the second its counter expires
    admitted,  \* history, per bucket: checks admitted, whatever Redis forgets
    decision   \* history: the last answer and the second it was given

vars == << now, count, expireAt, admitted, decision >>

Buckets == 0..(Horizon \div Window)

cur     == now \div Window
elapsed == now % Window
reset   == Window - elapsed

\* GET of a counter: an expired or missing key reads as 0.
Read(b) == IF now < expireAt[b] THEN count[b] ELSE 0

UnweightedEstimate ==               \* mutant: the whole previous bucket counts
    Read(cur - 1) * Window + Read(cur) * Window

FixedWindowEstimate ==              \* mutant: the previous bucket is ignored
    Read(cur) * Window

\* est, scaled by Window.
Estimate == Read(cur - 1) * reset + Read(cur) * Window

AdmitsAtMax == Estimate <= Max * Window  \* mutant: est > max, not est + 1 > max

\* The guard of the script, scaled by Window.
Admits == Estimate + Window <= Max * Window

RemainingBefore(n) ==               \* mutant: remaining before this check
    (Max * Window - Estimate) \div Window

\* max - (p * ((w - elapsed) / w) + n), rounded down and not below 0.
Remaining(n) ==
    LET left == (Max * Window - (Read(cur - 1) * reset + n * Window)) \div Window
    IN  IF left < 0 THEN 0 ELSE left

TtlOneWindow == Window              \* mutant: EXPIRE ck, w

CounterTtl == 2 * Window

(***************************************************************************)
(* The specification.                                                      *)
(***************************************************************************)

NoDecision == [allowed |-> FALSE, remaining |-> 0, reset |-> 0, at |-> 0]

\* The clock starts in bucket 1: bucket 0 is long ago on a real clock, and
\* every bucket has a previous one.
Init ==
    /\ now \in Window..(2 * Window - 1)
    /\ count = [b \in Buckets |-> 0]
    /\ expireAt = [b \in Buckets |-> 0]
    /\ admitted = [b \in Buckets |-> 0]
    /\ decision = NoDecision

Deny ==
    /\ ~Admits
    /\ decision' = [allowed |-> FALSE, remaining |-> 0, reset |-> reset, at |-> now]
    /\ UNCHANGED << now, count, expireAt, admitted >>

\* INCR, with EXPIRE when the key is new.
Admit ==
    LET n == Read(cur) + 1 IN
    /\ Admits
    /\ count' = [count EXCEPT ![cur] = n]
    /\ expireAt' = IF n = 1 THEN [expireAt EXCEPT ![cur] = now + CounterTtl]
                            ELSE expireAt
    /\ admitted' = [admitted EXCEPT ![cur] = @ + 1]
    /\ decision' = [allowed |-> TRUE, remaining |-> Remaining(n), reset |-> reset, at |-> now]
    /\ UNCHANGED now

Check == Deny \/ Admit

Tick ==
    /\ now < Horizon
    /\ now' = now + 1
    /\ UNCHANGED << count, expireAt, admitted, decision >>

Next == Check \/ Tick

Spec == Init /\ [][Next]_vars

(***************************************************************************)
(* Properties.                                                             *)
(***************************************************************************)

Decisions == [allowed : BOOLEAN, remaining : Nat, reset : 0..Window, at : Nat]

TypeOK ==
    /\ now \in Window..Horizon
    /\ count \in [Buckets -> 0..Max]
    /\ expireAt \in [Buckets -> Nat]
    /\ admitted \in [Buckets -> Nat]
    /\ decision \in Decisions

\* No check that still counts is forgotten: both counters a decision reads
\* are exact, because EXPIRE at the first check of a bucket (RateLimit.ts:46)
\* keeps the key to the end of the following bucket.
RemembersRecent ==
    \A b \in { cur - 1, cur } : Read(b) = admitted[b]

\* At every second the weighted estimate of what was admitted is within max,
\* whether or not a check is made in that second.
WeightedBound == admitted[cur - 1] * reset + admitted[cur] * Window <= Max * Window

\* The answer's `remaining` is honest: in the second it was given, the next
\* check is admitted exactly when the answer said that some remain.
RemainingIsHonest ==
    decision.at = now => (Admits <=> decision.remaining > 0)

\* Seconds in which the weight of a full previous bucket falls by one check.
OneCheck == (Window + Max - 1) \div Max

\* A denial does not last: resetAfter and the time of one check later, the
\* same caller is admitted if nobody was in between. resetAfter alone, the "usable
\* Retry-After" of RateLimit.ts:16, is too short: the roll leaves a full bucket
\* behind.
RetryBound ==
    ~decision.allowed /\ now >= decision.at + decision.reset + OneCheck => Admits

\* The limiter decides as if its counters never expired.
Ideal == INSTANCE IdealWindow WITH allowed <- decision.allowed
RefinesIdeal == Ideal!Spec
=============================================================================
