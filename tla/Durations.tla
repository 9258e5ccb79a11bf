----------------------------- MODULE Durations -----------------------------
(***************************************************************************)
(* Options, and the durations of core/src/RedisCommand.ts:13-23 and        *)
(* core/src/Redis.ts:304-309.                                              *)
(*                                                                         *)
(* An option is << x >>, or << >> when it is undefined. A duration is in   *)
(* units, so that some are not whole milliseconds or seconds.              *)
(***************************************************************************)
EXTENDS Integers

Some(x) == << x >>
None == << >>

Milli == 2                \* units in a millisecond
Second == 4               \* units in a second, scaled down

AtLeast(low, n) == IF n < low THEN low ELSE n
Ceiling(d, unit) == (d + unit - 1) \div unit
Floor(d, unit) == d \div unit

FlooredSeconds(d) == AtLeast(1, Floor(d, Second))          \* mutant: floor for ceil

\* Whole seconds of EX and EXPIRE. EX 0 is an error, EXPIRE key 0 deletes the key.
ExpirySeconds(d) == AtLeast(1, Ceiling(d, Second))
ExpiryMillis(d) == AtLeast(1, Ceiling(d, Milli))

\* BLOCK, IDLE and min-idle, where 0 is valid.
WholeMillis(d) == AtLeast(0, Floor(d, Milli))

DefaultBlock == 5 * Second

BlockUnlessZero(block) ==                                  \* mutant: 0.5 ms blocks for ever
    IF block # None /\ block[1] > 0 THEN block[1] ELSE DefaultBlock

\* Never block for ever: less than a millisecond is the default.
ConsumerBlock(block) ==
    IF block # None /\ block[1] >= Milli THEN block[1] ELSE DefaultBlock
=============================================================================
