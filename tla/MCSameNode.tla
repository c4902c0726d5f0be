----------------------------- MODULE MCSameNode -----------------------------
(***************************************************************************)
(* SameNode with four ranks on the placements the tensor-parallel          *)
(* launchers use.                                                          *)
(***************************************************************************)
EXTENDS SameNode, TLC

\* One node, two nodes of two ranks, one odd rank out, four nodes.
Four ==
  {0 :> a @@ 1 :> b @@ 2 :> c @@ 3 :> d :
     <<a, b, c, d>> \in {<<"h0", "h0", "h0", "h0">>, <<"h0", "h1", "h0", "h1">>,
                         <<"h0", "h1", "h1", "h1">>, <<"h0", "h1", "h2", "h3">>}}
=============================================================================
