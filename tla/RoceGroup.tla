------------------------------ MODULE RoceGroup ------------------------------
(***************************************************************************)
(* The tensor-parallel group whose ranks build the RoCE adapter together   *)
(* (RoceVote) and then take their steps with it (RoceStep).                *)
(***************************************************************************)
CONSTANT Rank  \* the ranks of the group
=============================================================================
