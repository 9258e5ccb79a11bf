---------------------------- MODULE MCTypedCell ----------------------------
(* A cell of each kind with a few items.                                   *)
EXTENDS TypedCell

CellItems == [ref |-> {"value"}, set |-> {"a", "b"}, zset |-> {"a", "b"}, hash |-> {"f", "g"}]

CellPayloads == [ref |-> {"1", "2", Bad}, set |-> {"-"},
                 zset |-> {1, Infinity, -Infinity}, hash |-> {"1", "2", Bad}]

SomeNumerals == -20..60

\* No lifetime, and one and a half seconds.
SomeTtls == { None, Some(6) }
=============================================================================
