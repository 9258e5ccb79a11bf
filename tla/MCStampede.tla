----------------------------- MODULE MCStampede -----------------------------
(* StampedeCache on a small set of calls, with all events or none.         *)
EXTENDS StampedeCache

AllEvents == EventNames

NoEvents == {}
=============================================================================
