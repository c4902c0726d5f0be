--------------------------- MODULE MCDraftLogits ---------------------------
(***************************************************************************)
(* DraftLogits with two slots, two rows, two steps, and two lists of       *)
(* candidates that share a token and place it differently.  The draw of    *)
(* the last step is fixed: no step reads it.                               *)
(***************************************************************************)
EXTENDS DraftLogits, TLC

CONSTANTS t0, t1, t2, s0, s1

MCToken == {t0, t1, t2}
MCSlot == {s0, s1}
MCCandidates == {0 :> t0 @@ 1 :> t1, 0 :> t1 @@ 1 :> t2}
MCDraws == {0 :> k @@ 1 :> 0 : k \in {0, 1}}
=============================================================================
