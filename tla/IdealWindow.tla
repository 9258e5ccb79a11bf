---------------------------- MODULE IdealWindow ----------------------------
(***************************************************************************)
(* What the rate limiter promises (core/src/RateLimit.ts:25-27): a sliding *)
(* window counter that weights the previous bucket by its remaining        *)
(* overlap.  It remembers every bucket for ever; the program keeps its     *)
(* counters in keys that expire.                                           *)
(***************************************************************************)
EXTENDS Naturals

CONSTANTS
    Window,   \* seconds in a bucket
    Max,      \* checks a window may admit
    Horizon   \* bound: the last second the clock reaches

VARIABLES
    now,       \* seconds on the server's clock
    admitted,  \* checks admitted in each bucket
    allowed    \* the last answer

ideal == << now, admitted, allowed >>

Buckets == 0..(Horizon \div Window)

cur     == now \div Window
elapsed == now % Window

\* The estimate of the checks in the last Window seconds, scaled by Window.
Estimate == admitted[cur - 1] * (Window - elapsed) + admitted[cur] * Window

Admits == Estimate + Window <= Max * Window

\* The clock starts in bucket 1, so that every bucket has a previous one.
Init ==
    /\ now \in Window..(2 * Window - 1)
    /\ admitted = [b \in Buckets |-> 0]
    /\ allowed = FALSE

Check ==
    /\ allowed' = Admits
    /\ admitted' = IF Admits THEN [admitted EXCEPT ![cur] = @ + 1] ELSE admitted
    /\ UNCHANGED now

Tick ==
    /\ now < Horizon
    /\ now' = now + 1
    /\ UNCHANGED << admitted, allowed >>

Next == Check \/ Tick

Spec == Init /\ [][Next]_ideal
=============================================================================
