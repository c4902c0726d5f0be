---------------------------- MODULE MCModelGroups ----------------------------
(***************************************************************************)
(* ModelGroups with eight ranks: layouts with two and three axes of two,   *)
(* for every pair and triple of axes, context-parallel groups of each      *)
(* size, and models with and without experts.                              *)
(***************************************************************************)
EXTENDS ModelGroups

Layout(ext, dp, pp, pcp, tp, dcp, moe, eplb) ==
  [ext |-> ext, dp |-> dp, pp |-> pp, pcp |-> pcp, tp |-> tp, dcp |-> dcp,
   moe |-> moe, eplb |-> eplb]

EightRanks == {
  Layout(1, 2, 2, 1, 2, 2, TRUE, TRUE),
  Layout(1, 1, 2, 2, 2, 4, TRUE, FALSE),
  Layout(1, 2, 1, 2, 2, 2, TRUE, TRUE),
  Layout(2, 1, 2, 2, 1, 1, TRUE, FALSE),
  Layout(2, 2, 2, 1, 1, 1, TRUE, TRUE),
  Layout(2, 1, 1, 2, 2, 1, FALSE, FALSE),
  Layout(1, 4, 1, 1, 2, 1, FALSE, FALSE),
  Layout(4, 1, 1, 1, 2, 2, FALSE, FALSE)}

SomeOfEight == {{}, {0}, {1, 6}}

\* A cleanup is complete, or the destroy of one group raises: on all the ranks,
\* which may then start over what two layouts left, or on one.
SomeRaise ==
  {[r \in {} |-> "tp"], [r \in World |-> "pp"], [r \in {0} |-> "dcp"],
   [r \in {6} |-> "ep"]}
=============================================================================
