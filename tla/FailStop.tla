------------------------------ MODULE FailStop ------------------------------
(***************************************************************************)
(* What the RoCE backend promises while the model runs: each worker hands  *)
(* over the outputs of the steps in order, an output only once its step    *)
(* was computed from good data, and nothing at all after its first failure *)
(* ("Failures are fail-stop, never a fallback", b12x_roce_all_reduce.py:32). *)
(* RoceStep implements it when every step ends with a RoCE collective.     *)
(***************************************************************************)
EXTENDS Naturals

CONSTANT Rank

VARIABLES
  good,      \* the steps each worker has computed from good data
  released,  \* the steps whose output has left each worker
  failed     \* whether the worker has reported a failure

vars == <<good, released, failed>>

Init ==
  /\ good = [r \in Rank |-> {}]
  /\ released = [r \in Rank |-> {}]
  /\ failed = [r \in Rank |-> FALSE]

\* r computes further steps.
Compute(r) ==
  /\ good[r] \subseteq good'[r]
  /\ good' = [good EXCEPT ![r] = good'[r]]
  /\ UNCHANGED <<released, failed>>

\* The output of a good step leaves, after those of the earlier steps.
Release(r) ==
  \E n \in good[r] :
    /\ ~failed[r]
    /\ \A m \in released[r] : m < n
    /\ released' = [released EXCEPT ![r] = @ \cup {n}]
    /\ UNCHANGED <<good, failed>>

Fail(r) ==
  /\ failed' = [failed EXCEPT ![r] = TRUE]
  /\ UNCHANGED <<good, released>>

Next == \E r \in Rank : Compute(r) \/ Release(r) \/ Fail(r)

Spec == Init /\ [][Next]_vars
=============================================================================
