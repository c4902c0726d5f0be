---------------------------- MODULE MCWorkerLife ----------------------------
(***************************************************************************)
(* WorkerLife with two workers and a draft model, on a device of ten units *)
(* of which eight are requested: workers that estimate their graphs right, *)
(* too high or too low, or capture none.                                   *)
(***************************************************************************)
EXTENDS WorkerLife, TLC

Cost(consumed, estimate, graphs) ==
  [comm |-> 1, consumed |-> consumed, headroom |-> 1,
   estimate |-> estimate, graphs |-> graphs]

\* An engine that only boots, and one that sleeps and takes updates, whose
\* graphs leave a plan no room, so that every boot profiles: the calls between
\* steps do not depend on the memory.
Booting ==
  [costs |-> {Cost(3, 1, 1), Cost(2, 2, 1), Cost(2, 1, 2), Cost(4, 0, 0)},
   sleepMode |-> FALSE, weightTransfer |-> FALSE]
Called == [costs |-> {Cost(3, 2, 2)}, sleepMode |-> TRUE, weightTransfer |-> TRUE]

MCEngines == {Booting, Called}

Symmetric == Permutations(Workers)
=============================================================================
