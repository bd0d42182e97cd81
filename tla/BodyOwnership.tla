---------------------------- MODULE BodyOwnership ----------------------------
(***************************************************************************)
(* What the durable body of a character promises, whatever its sessions,   *)
(* Scenes and connections do: the right to write it only moves to newer    *)
(* sessions, and nothing it has absorbed is ever taken back.               *)
(***************************************************************************)
EXTENDS Integers

VARIABLES
  epoch,  \* the session that may write the stored body
  body    \* what the stored body has absorbed

ownershipVars == <<epoch, body>>

OwnershipInit == epoch = 0 /\ body = {}

(* A newer session takes the right to write; the body stays as it is. *)
Take == epoch < epoch' /\ body' = body

(* The session with the right to write stores a body that lost nothing. *)
Store == body \subseteq body' /\ epoch' = epoch

OwnershipSpec == OwnershipInit /\ [][Take \/ Store]_ownershipVars
==============================================================================
