---------------------------- MODULE StagedSteps ----------------------------
(***************************************************************************)
(* What pipeline parallelism promises of the steps: every stage takes them *)
(* in their order, a step with a forward pass only after the stage before  *)
(* it, and a stage runs at most two forward passes ahead of the next one.  *)
(***************************************************************************)
EXTENDS Naturals, FiniteSets

CONSTANTS Stages, MaxSteps

VARIABLES
  forward,  \* the steps that have a forward pass
  done      \* the steps each stage has finished

vars == <<forward, done>>

Stage == 0 .. Stages - 1

Init ==
  /\ forward \in SUBSET (1 .. MaxSteps)
  /\ done = [p \in Stage |-> 0]

\* The forward passes stage p has finished and the next stage has not.
Lead(p) == Cardinality({k \in forward : done[p + 1] < k /\ k <= done[p]})

Finish(p) ==
  LET k == done[p] + 1
  IN /\ k <= MaxSteps
     /\ k \in forward /\ p > 0 => done[p - 1] >= k
     /\ k \in forward /\ p < Stages - 1 => Lead(p) < 2
     /\ done' = [done EXCEPT ![p] = k]
     /\ UNCHANGED forward

Next == \E p \in Stage : Finish(p)

Spec == Init /\ [][Next]_vars
=============================================================================
