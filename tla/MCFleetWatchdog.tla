-------------------------- MODULE MCFleetWatchdog --------------------------
(***************************************************************************)
(* FleetWatchdog with the head and two workers, and any set of nodes whose *)
(* commands may fail.                                                      *)
(***************************************************************************)
EXTENDS FleetWatchdog

MCNode == 0 .. 2
MCOrder == <<2, 1, 0>>
AnyNodes == SUBSET MCNode
=============================================================================
