------------------------------ MODULE MCGateLink ------------------------------
(* Instance of GateLink for TLC. *)
EXTENDS LinkInvariant
=============================================================================
