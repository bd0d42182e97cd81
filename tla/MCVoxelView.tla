----------------------------- MODULE MCVoxelView -----------------------------
(* Instances of VoxelView for TLC. *)
EXTENDS VoxelView

Middle == {1}
==============================================================================
