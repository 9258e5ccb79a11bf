---------------------------- MODULE AtLeastOnce ----------------------------
(***************************************************************************)
(* What consume promises (core/src/Redis.ts:1014-1022): an entry is        *)
(* handled any number of times, settled only after a handler succeeded,    *)
(* and settled for good.                                                   *)
(***************************************************************************)
EXTENDS Integers

CONSTANT MaxEntries     \* bound: entries appended

VARIABLES
    appended,   \* the last entry of the stream
    handled,    \* entries that a handler has completed
    settled     \* entries that will not be delivered again

vars == << appended, handled, settled >>

Entries == 1..MaxEntries

Init ==
    /\ appended = 0
    /\ handled = {}
    /\ settled = {}

AppendEntry ==
    /\ appended < MaxEntries
    /\ appended' = appended + 1
    /\ UNCHANGED << handled, settled >>

Handle(e) ==
    /\ e <= appended
    /\ handled' = handled \cup {e}
    /\ UNCHANGED << appended, settled >>

Settle(e) ==
    /\ e \in handled
    /\ settled' = settled \cup {e}
    /\ UNCHANGED << appended, handled >>

Next == AppendEntry \/ \E e \in Entries : Handle(e) \/ Settle(e)

Spec == Init /\ [][Next]_vars
=============================================================================
