-------------------------- MODULE MCConsumerGroup --------------------------
(* ConsumerGroup and its wire with both starts, and durations around the   *)
(* millisecond and its half.                                               *)
EXTENDS GroupWire

SomeNumerals == -20..60
LiveAndZero == { Live, 0 }
SomeBlocks == { None } \cup { Some(d) : d \in 0..3 }
SomeIdles == 0..3
=============================================================================
