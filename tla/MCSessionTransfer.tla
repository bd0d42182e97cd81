-------------------------- MODULE MCSessionTransfer --------------------------
(* Instances of SessionTransfer for TLC. *)
EXTENDS SessionInvariant, TLC

CONSTANTS g1, g2, s1, s2

(* A connection, and a Scene, are only compared with each other. *)
Symmetric == Permutations(Gates) \cup Permutations(Scenes)

(* Bounds: more than one crossing or fault, and heat, are for a character that  *)
(* has seen one connection only and has at most one effect to save; once it has *)
(* seen two, an effect goes with a crossing or a fault, not with both.          *)
Alone == (\E g \in Gates : conn[g].st = "new") /\ Cardinality(acked) <= 1
Few ==
  /\ emitted = {} /\ crossings <= 1 /\ faults <= 1
  /\ acked = {} \/ (Cardinality(acked) = 1 /\ crossings + faults <= 1)
AloneOrFew == Alone \/ Few
==============================================================================
