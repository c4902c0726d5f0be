----------------------------- MODULE MCRoceVote -----------------------------
(***************************************************************************)
(* Small instances of RoceVote: two limit triples (one with the all-gather *)
(* route on), every way a rank can fail its own checks, and the switches   *)
(* the same on every rank, as the TP4 launcher starts them.                *)
(***************************************************************************)
EXTENDS RoceVote

CONSTANTS r0, r1, r2, limA, limB

MCRank == {r0, r1, r2}
MCLimit == {limA, limB}
MCGatherLimit == {limA}

Capable(l) ==
  [importable |-> TRUE, apiMatches |-> TRUE, probe |-> "supported", limit |-> l]

\* One capability per outcome of _local_capability.
MCCapability ==
  {Capable(limA), Capable(limB), Capable(Refusal),
   [Capable(limA) EXCEPT !.importable = FALSE],
   [Capable(limA) EXCEPT !.apiMatches = FALSE],
   [Capable(limA) EXCEPT !.probe = "raises"]}

Same(c, e, d, n) ==
  [custom |-> [r \in MCRank |-> c], roce |-> [r \in MCRank |-> e],
   deviceGroup |-> d, singleNode |-> n]

MCSettings ==
  {Same(TRUE, TRUE, TRUE, FALSE), Same(TRUE, FALSE, TRUE, FALSE),
   Same(TRUE, TRUE, FALSE, FALSE), Same(FALSE, TRUE, TRUE, FALSE)}
=============================================================================
