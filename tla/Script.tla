------------------------------- MODULE Script -------------------------------
(***************************************************************************)
(* Redis.script (core/src/Redis.ts:1028-1058): EVALSHA with a SCRIPT LOAD  *)
(* fallback on NOSCRIPT.  The calls of one script share the SHA in memory; *)
(* the servers' script caches may be flushed at any time.                  *)
(***************************************************************************)
EXTENDS Naturals, FiniteSets

CONSTANTS
    Calls,         \* concurrent calls of one script, all with the same key
    Nodes,         \* the servers: one, or the masters of a cluster
    Home,          \* the node that owns the key's slot
    Adapters,      \* the drivers that may be in use: "ioredis", "bun"
    MaxFlushes,    \* bound: times a script cache is flushed
    MaxResends,    \* bound: times a client sends the EVALSHAs of one call again
    MayDisconnect  \* whether connections may drop

ASSUME ScriptAssumption ==
    /\ Home \in Nodes
    /\ Adapters \subseteq { "ioredis", "bun" }
    /\ MaxFlushes \in Nat /\ MaxResends \in Nat
    /\ MayDisconnect \in BOOLEAN

VARIABLES
    adapter,    \* the driver
    loaded,     \* Redis: the nodes whose script cache has the script
    cachedSha,  \* whether the closure remembers the SHA
    pc,         \* per call: the command it is about to send
    runs,       \* history, per call: how often its script ran
    resent,     \* history, per call: how often the client sent an EVALSHA of it again
    flushed,    \* history: the calls during which Home was flushed
    flushes     \* how often a cache was flushed

vars == << adapter, loaded, cachedSha, pc, runs, resent, flushed, flushes >>

Active(c) == pc[c] \in { "load", "eval", "reload", "reeval" }

Go(c, step) == pc' = [pc EXCEPT ![c] = step]

Init ==
    /\ adapter \in Adapters
    /\ loaded = {}
    /\ cachedSha = FALSE
    /\ pc = [c \in Calls |-> "idle"]
    /\ runs = [c \in Calls |-> 0]
    /\ resent = [c \in Calls |-> 0]
    /\ flushed = {}
    /\ flushes = 0

\* The call starts with EVALSHA when the SHA is known.
Begin(c) ==
    /\ pc[c] = "idle"
    /\ Go(c, IF cachedSha THEN "eval" ELSE "load")
    /\ UNCHANGED << adapter, loaded, cachedSha, runs, resent, flushed, flushes >>

\* SCRIPT LOAD has no key, so a cluster client sends it to any node.
Load(c) ==
    /\ pc[c] \in { "load", "reload" }
    /\ \E n \in Nodes : loaded' = loaded \cup {n}
    /\ cachedSha' = TRUE
    /\ Go(c, IF pc[c] = "load" THEN "eval" ELSE "reeval")
    /\ UNCHANGED << adapter, runs, resent, flushed, flushes >>

\* EVALSHA goes to the owner of the key and runs the script there.
Eval(c) ==
    /\ pc[c] \in { "eval", "reeval" }
    /\ Home \in loaded
    /\ runs' = [runs EXCEPT ![c] = @ + 1]
    /\ Go(c, "done")
    /\ UNCHANGED << adapter, loaded, cachedSha, resent, flushed, flushes >>

NoFallback(c) ==                    \* mutant: NOSCRIPT fails the call at once
    /\ pc[c] \in { "eval", "reeval" }
    /\ Home \notin loaded
    /\ Go(c, "noscript")
    /\ UNCHANGED << adapter, loaded, cachedSha, runs, resent, flushed, flushes >>

\* NOSCRIPT: the first time, forget the SHA and load; the second time, fail.
NoScript(c) ==
    /\ pc[c] \in { "eval", "reeval" }
    /\ Home \notin loaded
    /\ \/ pc[c] = "eval" /\ cachedSha' = FALSE /\ Go(c, "reload")
       \/ pc[c] = "reeval" /\ UNCHANGED cachedSha /\ Go(c, "noscript")
    /\ UNCHANGED << adapter, loaded, runs, resent, flushed, flushes >>

AlwaysRetried(c) ==                 \* mutant: any failed EVALSHA is retried
    IF pc[c] = "eval" THEN "reload" ELSE "failed"

\* Only NOSCRIPT is caught: every other error fails the call.
AfterError(c) == "failed"

\* What Redis may have done with a command whose reply does not arrive: nothing,
\* loaded the script, or run it.
Unanswered(c) ==
    \/ UNCHANGED << loaded, runs >>
    \/ /\ pc[c] \in { "load", "reload" }
       /\ \E n \in Nodes : loaded' = loaded \cup {n}
       /\ UNCHANGED runs
    \/ /\ pc[c] \in { "eval", "reeval" } /\ Home \in loaded
       /\ runs' = [runs EXCEPT ![c] = @ + 1]
       /\ UNCHANGED loaded

\* A ConnectionError, or a TimeoutError: the command was lost, or its reply was.
Disconnect(c) ==
    /\ MayDisconnect
    /\ Active(c)
    /\ Unanswered(c)
    /\ Go(c, AfterError(c))
    /\ UNCHANGED << adapter, cachedSha, resent, flushed, flushes >>

\* ioredis reconnects and sends the command that has no reply again; the call
\* does not see it.
Resend(c) ==
    /\ MayDisconnect
    /\ adapter = "ioredis"
    /\ Active(c)
    /\ Unanswered(c)
    /\ \/ pc[c] \in { "load", "reload" } /\ UNCHANGED resent
       \/ /\ pc[c] \in { "eval", "reeval" } /\ resent[c] < MaxResends
          /\ resent' = [resent EXCEPT ![c] = @ + 1]
    /\ UNCHANGED << adapter, cachedSha, pc, flushed, flushes >>

\* SCRIPT FLUSH, a restart or a failover empties a node's script cache.
Flush(n) ==
    /\ flushes < MaxFlushes
    /\ flushes' = flushes + 1
    /\ loaded' = loaded \ {n}
    /\ flushed' = IF n = Home THEN flushed \cup { c \in Calls : Active(c) } ELSE flushed
    /\ UNCHANGED << adapter, cachedSha, pc, runs, resent >>

Next ==
    \/ \E c \in Calls : Begin(c) \/ Load(c) \/ Eval(c) \/ NoScript(c)
                         \/ Disconnect(c) \/ Resend(c)
    \/ \E n \in Nodes : Flush(n)

Spec == Init /\ [][Next]_vars

(***************************************************************************)
(* Properties.                                                             *)
(***************************************************************************)

TypeOK ==
    /\ adapter \in Adapters
    /\ loaded \subseteq Nodes
    /\ cachedSha \in BOOLEAN
    /\ pc \in [Calls -> { "idle", "load", "eval", "reload", "reeval",
                          "done", "noscript", "failed" }]
    /\ runs \in [Calls -> 0..(MaxResends + 1)]
    /\ resent \in [Calls -> 0..MaxResends]
    /\ flushed \subseteq Calls
    /\ flushes \in 0..MaxFlushes

\* A script runs twice in one call only because the client sent its EVALSHA
\* again: neither the fallback nor a failure the call sees runs it once more, and
\* under bun, which sends nothing again, a rate limit or a lock release counts
\* at most once. A call that is answered ran its script, and one that fails with
\* NOSCRIPT ran it at most as often as its EVALSHAs were sent again.
ExtraRunsAreResends ==
    \A c \in Calls :
        /\ runs[c] <= 1 + resent[c]
        /\ adapter = "bun" => runs[c] <= 1
        /\ pc[c] = "done" => runs[c] >= 1
        /\ pc[c] = "noscript" => runs[c] <= resent[c]

\* On a single server a call fails with NOSCRIPT only when the cache was
\* flushed while the call was running: whatever was flushed before, and
\* whatever the other calls do to the shared SHA, the fallback repairs it.
NoScriptOnlyIfFlushed ==
    \A c \in Calls : pc[c] = "noscript" => c \in flushed

\* "EVALSHA with an automatic SCRIPT LOAD fallback on NOSCRIPT" (README.md:146):
\* a script cache that nobody flushes makes no call fail.
FallbackSuffices ==
    flushes = 0 => \A c \in Calls : pc[c] # "noscript"
=============================================================================
