---------------------------- MODULE MCStreamTail ----------------------------
(* StreamTail with the starts that a reader may ask for.                   *)
EXTENDS StreamTail

\* "$", the whole stream, and an id in the middle of it.
LiveAndIds == { Live, 0, 2 }

OnlyLive == { Live }
=============================================================================
