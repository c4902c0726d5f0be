---------------------------- MODULE MCDrafterKV ----------------------------
(***************************************************************************)
(* DrafterKV at a small scale: the unit of a fit is 4 tokens, kernels take *)
(* 2 or 4, MLA pages are 8 to 12 bytes.  The geometries cover a fit, each  *)
(* way of missing it, and a page equal to the MLA page that did not fit.   *)
(***************************************************************************)
EXTENDS DrafterKV

Sized(m, d, bytes, layers) ==
  [mlaBlock |-> m, draftBlock |-> d, draftBytes |-> bytes,
   layers |-> layers]

\* The drafter's shape against pages of mlaBlock * 2 bytes.
Shapes ==
  {Sized(4, 4, 2, 1), Sized(4, 2, 1, 2), Sized(6, 4, 1, 1),  \* fits
   Sized(4, 2, 2, 0),                \* no drafter
   Sized(4, 2, 3, 1),                \* the page is no multiple of a token
   Sized(6, 4, 2, 2),                \* block 6, not a multiple of the unit
   Sized(6, 6, 2, 1),                \* the same, and it is its own block
   Sized(6, 2, 3, 1),                \* block 4 and MLA block 6 do not divide
   Sized(4, 2, 2, 3),                \* more layers than MLA tensors
   Sized(4, 4, 2, 3)}                \* the same, on a page that would fit

Boots(shapes, one) ==
  {[mlaLayers |-> 2, idxLayers |-> 2, mambaLayers |-> m, tail |-> t,
    mlaBlock |-> s.mlaBlock, mlaBytes |-> 2, idxPage |-> 1,
    draftLayers |-> s.layers, draftBlock |-> s.draftBlock,
    draftBytes |-> s.draftBytes, oneSpec |-> one, kernel |-> k, available |-> a]
   : s \in shapes, m \in {2, 3}, t \in BOOLEAN, k \in {2, 4}, a \in {80, 110}}

MCGeometries == Boots(Shapes, TRUE) \cup Boots({Sized(4, 4, 2, 1)}, FALSE)
=============================================================================
