---------------------------- MODULE AllOrNothing ----------------------------
(***************************************************************************)
(* What the RoCE backend promises while the ranks of a tensor-parallel     *)
(* group construct their communicators: the decision to use the backend is *)
(* taken by all the ranks or by none, and all that take it route by the    *)
(* same terms ("Any rank that cannot take part disables the backend on     *)
(* every rank, at initialization only", b12x_roce_all_reduce.py:29; the    *)
(* limits are compared at 210-222).  A rank that stops decides nothing     *)
(* more.  RoceVote implements this specification.                          *)
(***************************************************************************)
CONSTANTS
  Rank,
  Term,   \* what a rank may route its collectives by
  NoTerm  \* a rank that does not use the backend

VARIABLES
  decision,  \* "undecided", "on", "off" or "stopped", for each rank
  terms      \* what each rank that is on routes by

verdict == <<decision, terms>>

Init ==
  /\ decision = [r \in Rank |-> "undecided"]
  /\ terms = [r \in Rank |-> NoTerm]

\* r routes its collectives to the backend by t: no rank may have ruled the
\* backend out, or be using it by other terms.
Enable(r, t) ==
  /\ decision[r] = "undecided"
  /\ \A s \in Rank : decision[s] # "off"
  /\ \A s \in Rank : decision[s] = "on" => terms[s] = t
  /\ decision' = [decision EXCEPT ![r] = "on"]
  /\ terms' = [terms EXCEPT ![r] = t]

\* r keeps the backend off: no rank may be using it.
Disable(r) ==
  /\ decision[r] = "undecided"
  /\ \A s \in Rank : decision[s] # "on"
  /\ decision' = [decision EXCEPT ![r] = "off"]
  /\ UNCHANGED terms

\* r fails, or gives its communicator up.
Stop(r) ==
  /\ decision' = [decision EXCEPT ![r] = "stopped"]
  /\ terms' = [terms EXCEPT ![r] = NoTerm]

Next ==
  \E r \in Rank : Disable(r) \/ Stop(r) \/ \E t \in Term : Enable(r, t)

Spec == Init /\ [][Next]_verdict
=============================================================================
