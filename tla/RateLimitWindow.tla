-------------------------- MODULE RateLimitWindow --------------------------
(* RateLimit with a log of its admissions, to look at windows that start   *)
(* anywhere and not only at the start of a bucket.                         *)
EXTENDS RateLimit, FiniteSets

VARIABLE log  \* history: the admitted checks, << second, number in its bucket >>

InitLog == Init /\ log = {}

NextLog ==
    /\ Next
    /\ log' = IF admitted' = admitted THEN log ELSE log \cup { << now, admitted'[cur] >> }

SpecLog == InitLog /\ [][NextLog]_<< vars, log >>

\* Checks admitted in the Window seconds that end with this one.
InLastWindow == Cardinality({ check \in log : check[1] > now - Window })

\* What the weighting bounds in any Window seconds, wherever they start:
\* 2 - 2/Window times max checks (max, if Window = 1), which are reached.
SlidingBound ==
    Window * InLastWindow <= IF Window = 1 THEN Max ELSE Max * (2 * Window - 2)

\* "the across-edge burst stays bounded by `max`" (RateLimit.ts:26-27): at most
\* Max checks are admitted in any Window seconds.
AcrossEdgeBurst == InLastWindow <= Max
=============================================================================
