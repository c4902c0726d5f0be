---------------------------- MODULE MCPipeLink ----------------------------
(***************************************************************************)
(* PipeLink with two ranks per stage.  Between them the plans have every   *)
(* kind of batch follow every other that the same engine can have, and     *)
(* itself.                                                                 *)
(***************************************************************************)
EXTENDS PipeLink

Of(h, r) == [k \in Key |-> IF k = "residual" THEN r ELSE h]

Pass(h, r) == [forward |-> TRUE, sp |-> FALSE, scattered |-> FALSE, numel |-> Of(h, r)]

Idle == [forward |-> FALSE, sp |-> FALSE, scattered |-> FALSE, numel |-> Of(0, 0)]
\* Both tensors are sent in slices, and gathered into one size.
Even == Pass(2, 2)
\* One tensor does not divide over the ranks, the other has no elements.
Odd == Pass(3, 0)
\* With sequence parallelism sizes divide; one tensor has no elements.
Bare == Pass(2, 0)
Scattered == [Pass(4, 4) EXCEPT !.scattered = TRUE]

\* A plan of an engine with sequence parallelism.
SP(plan) == [i \in DOMAIN plan |-> [plan[i] EXCEPT !.sp = TRUE]]

MCPlans == {
  <<Idle, Idle, Even>>, <<Even, Idle, Odd>>, <<Even, Odd, Even>>, <<Odd, Odd, Idle>>,
  SP(<<Bare, Idle, Scattered>>), SP(<<Scattered, Even, Even>>),
  SP(<<Even, Scattered, Bare>>), SP(<<Bare, Bare, Scattered>>),
  SP(<<Scattered, Scattered, Idle>>)}
=============================================================================
