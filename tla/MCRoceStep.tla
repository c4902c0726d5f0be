----------------------------- MODULE MCRoceStep -----------------------------
(***************************************************************************)
(* A small instance of RoceStep.  A program is a sequence of MaxOp         *)
(* collectives cut into steps.                                             *)
(***************************************************************************)
EXTENDS RoceStep

CONSTANTS a, b

MCRank == {a, b}

Op == [route : {"roce", "nccl"}, last : BOOLEAN]

\* Every way to cut MaxOp collectives into steps, on either backend.
AnyProgram == {p \in [Positions -> Op] : p[MaxOp].last}

\* Any program, synchronous or asynchronous scheduling, any pipeline stage.
AnyConfig ==
  [program : AnyProgram, ahead : {0, 1}, lastStage : BOOLEAN]
=============================================================================
