--------------------------- MODULE MCPageWriteback ---------------------------
(* Instances of PageWriteback for TLC. *)
EXTENDS PageWriteback, TLC

CONSTANTS u1, u2, u3

(* A world is fresh, or has a log from before it had pages. *)
LegacyTxns == {{}} \cup {{[seq |-> 1, units |-> U]} : U \in SUBSET Units}
NoLegacy == {{}}
Stepped == [soft |-> 1, mid |-> 2, hard |-> 3]
Wide == [soft |-> 9, mid |-> 9, hard |-> 9]
==============================================================================
