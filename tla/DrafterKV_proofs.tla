-------------------------- MODULE DrafterKV_proofs --------------------------
(***************************************************************************)
(* Proofs about DrafterKV for every geometry: types, the binding of layers *)
(* to tensors, that held blocks are never overwritten, and that the        *)
(* accounts of the memory agree.  A block of a layer lies inside the block *)
(* of its tensor with the same id, whichever way it is split; that rests   *)
(* on the fit and on Bind.  The accounts are sums over the tensors: a sum  *)
(* of sizes that are shares of a pool is that share of the pool.           *)
(***************************************************************************)
EXTENDS DrafterKV, FiniteSetTheorems, WellFoundedInduction, TLAPS

-----------------------------------------------------------------------------
(* Arithmetic.                                                             *)

LEMMA ProductNat == ASSUME NEW a \in Nat, NEW b \in Nat PROVE a * b \in Nat
  BY SMT

LEMMA ProductPositive ==
  ASSUME NEW a \in Nat \ {0}, NEW b \in Nat \ {0} PROVE a * b \in Nat \ {0}
  BY SMT

LEMMA ProductMonotone ==
  ASSUME NEW a \in Nat, NEW b \in Nat, NEW c \in Nat, a <= b
  PROVE  a * c <= b * c
  BY SMT

\* A number is known by its quotient and its remainder.
LEMMA QuotientRemainder ==
  ASSUME NEW a \in Nat, NEW b \in Nat, NEW n \in Nat \ {0},
         a % n = b % n, a \div n = b \div n
  PROVE  a = b
  BY SMT

LEMMA QuotientNat ==
  ASSUME NEW a \in Nat, NEW n \in Nat \ {0}
  PROVE  a \div n \in Nat /\ a % n \in Nat
  BY SMT

LEMMA ExactQuotient ==
  ASSUME NEW a \in Nat, NEW n \in Nat \ {0}, a % n = 0
  PROVE  (a \div n) * n = a
  BY SMT

\* A multiple of k leaves no remainder, and divisibility is transitive.
LEMMA MultipleLeavesNothing ==
  ASSUME NEW q \in Nat, NEW k \in Nat \ {0} PROVE (q * k) % k = 0
<1> DEFINE a == q * k  p == a \div k  r == a % k
<1>1. a \in Nat
  BY ProductNat
<1>2. a = p * k + r /\ r < k /\ r \in Nat /\ p \in Nat
  <2> HIDE DEF a
  <2> QED
    BY <1>1, SMT
<1>3. p * k \in Nat /\ q * k \in Nat /\ q * k = p * k + r
  BY <1>2, ProductNat
<1> HIDE DEF a, p, r
<1>4. CASE p < q
  <2>1. (p + 1) * k <= q * k /\ (p + 1) * k = p * k + k
    BY <1>2, <1>4, ProductMonotone
  <2> QED
    BY <1>2, <1>3, <2>1
<1>5. CASE q <= p
  <2>1. q * k <= p * k
    BY <1>2, <1>5, ProductMonotone
  <2> QED
    BY <1>2, <1>3, <2>1 DEF r, a
<1> QED
  BY <1>2, <1>4, <1>5

LEMMA DividesThrough ==
  ASSUME NEW a \in Nat, NEW u \in Nat \ {0}, NEW k \in Nat \ {0},
         a % u = 0, u % k = 0
  PROVE  a % k = 0
<1> DEFINE m == a \div u  c == u \div k
<1>1. a = m * u /\ u = c * k /\ m \in Nat /\ c \in Nat
  BY ExactQuotient, QuotientNat
<1> HIDE DEF m, c
<1>2. a = (m * c) * k
  BY <1>1, SMT
<1>3. m * c \in Nat
  BY <1>1, ProductNat
<1> QED
  BY <1>2, <1>3, MultipleLeavesNothing

LEMMA CeilDivPositive ==
  ASSUME NEW a \in Nat \ {0}, NEW n \in Nat \ {0}
  PROVE  CeilDiv(a, n) \in Nat \ {0}
  BY SMT DEF CeilDiv

\* Rounded-up quotients cover, and quotients are below what the product is below.
LEMMA CeilDivCovers ==
  ASSUME NEW m \in Nat \ {0}, NEW a \in Nat \ {0}
  PROVE  m <= CeilDiv(m, a) * a
<1> DEFINE q == (m + a - 1) \div a  r == (m + a - 1) % a
<1>1. m + a - 1 = q * a + r /\ r < a /\ r \in Nat /\ q \in Nat
  BY SMT
<1>2. q * a \in Nat
  BY <1>1, ProductNat
<1> HIDE DEF q, r
<1>3. m <= q * a
  BY <1>1, <1>2
<1> QED
  BY <1>3 DEF CeilDiv, q

LEMMA QuotientBelow ==
  ASSUME NEW k \in Nat, NEW g \in Nat \ {0}, NEW a \in Nat, k < g * a
  PROVE  k \div g < a
<1> DEFINE q == k \div g  r == k % g
<1>1. k = q * g + r /\ r < g /\ r \in Nat /\ q \in Nat
  BY SMT
<1> HIDE DEF q, r
<1>2. SUFFICES ASSUME a <= q PROVE FALSE
  BY <1>1 DEF q
<1>3. a * g <= q * g /\ a * g = g * a
  BY <1>1, <1>2, ProductMonotone
<1>4. q * g \in Nat /\ a * g \in Nat
  BY <1>1, ProductNat
<1> QED
  BY <1>1, <1>3, <1>4

\* Part j < p of block b, in parts of s bytes, lies inside block b of p * s.
LEMMA PartInBlock ==
  ASSUME NEW b \in Nat, NEW p \in Nat, NEW j \in Nat, NEW s \in Nat, j < p
  PROVE  /\ b * (p * s) <= (b * p + j) * s
         /\ (b * p + j) * s + s <= (b + 1) * (p * s)
<1>1. (b * p + j) * s = b * (p * s) + j * s
  BY SMT
<1>2. (j + 1) * s <= p * s
  BY ProductMonotone
<1>3. (j + 1) * s = j * s + s
  BY SMT
<1>4. (b + 1) * (p * s) = b * (p * s) + p * s
  BY SMT
<1>5. b * (p * s) \in Nat /\ j * s \in Nat /\ p * s \in Nat
  BY ProductNat
<1> QED
  BY <1>1, <1>2, <1>3, <1>4, <1>5

\* The first part of a block starts where the block does.
LEMMA StartOfBlock ==
  ASSUME NEW b \in Nat, NEW p \in Nat, NEW s \in Nat
  PROVE  (b * p + 0) * s = b * (p * s)
<1>1. b * p \in Nat /\ (b * p) * s = b * (p * s)
  BY SMT
<1> QED
  BY <1>1

\* Different parts of one block are disjoint.
LEMMA PartsDisjoint ==
  ASSUME NEW b \in Nat, NEW p \in Nat, NEW i \in Nat, NEW j \in Nat,
         NEW s \in Nat, i < j
  PROVE  (b * p + i) * s + s <= (b * p + j) * s
<1>1. b * p \in Nat
  BY ProductNat
<1>2. (b * p + i + 1) * s <= (b * p + j) * s
  BY <1>1, ProductMonotone
<1>3. (b * p + i + 1) * s = (b * p + i) * s + s
  BY <1>1, SMT
<1> QED
  BY <1>2, <1>3

-----------------------------------------------------------------------------
(* Types.                                                                  *)

\* The quantities of a geometry are numbers.
LEMMA Sizes ==
  ASSUME geo \in Geometries, draftBlock \in Nat \ {0}
  PROVE  /\ geo \in Geometry
         /\ NumMambaGroups \in Nat \ {0}
         /\ MlaPage \in Nat \ {0}
         /\ DraftPage \in Nat \ {0}
         /\ BaseBytes \in Nat \ {0}
         /\ PerBlock \in Nat \ {0}
<1>1. geo \in Geometry
  BY GeometriesAssumption
<1>2. MlaPage \in Nat \ {0}
  BY <1>1, ProductPositive DEF Geometry, MlaPage
<1>3. DraftPage \in Nat \ {0}
  BY <1>1, ProductPositive DEF Geometry, DraftPage
<1>4. NumMambaGroups \in Nat \ {0}
  BY <1>1, CeilDivPositive DEF Geometry, NumMambaGroups
<1>5. BaseBytes \in Nat \ {0}
  <2>1. geo.mlaLayers * MlaPage \in Nat \ {0}
    BY <1>1, <1>2, ProductPositive DEF Geometry
  <2>2. geo.idxLayers * geo.idxPage \in Nat \ {0}
    BY <1>1, ProductPositive DEF Geometry
  <2> QED
    BY <2>1, <2>2 DEF BaseBytes
<1>6. PerBlock \in Nat \ {0}
  <2>1. ChargedDrafts \in Nat
    BY <1>1 DEF ChargedDrafts, Geometry
  <2>2. ChargedDrafts * DraftPage \in Nat
    BY <2>1, <1>3, ProductNat
  <2> QED
    BY <2>2, <1>5 DEF PerBlock
<1> QED
  BY <1>1, <1>2, <1>3, <1>4, <1>5, <1>6

\* A block that fits has tokens.
LEMMA FitBlockType ==
  ASSUME geo \in Geometries, ExactFit
  PROVE  FitBlock \in Nat \ {0}
<1>1. geo \in Geometry
  BY GeometriesAssumption
<1>2. MlaPage \in Nat \ {0}
  BY <1>1, ProductPositive DEF Geometry, MlaPage
<1>3. geo.draftBytes \in Nat \ {0}
  BY <1>1 DEF Geometry
<1>4. MlaPage \div geo.draftBytes \in Nat
  BY <1>2, <1>3, QuotientNat
<1> QED
  BY <1>4 DEF ExactFit, Fills, FitBlock

MlaTensor(n, i) ==
  [size |-> n * MlaPage,
   sharedBy |-> {<<"mla", i>>}
                \cup {l \in Layers : l[1] = "mamba" /\ MambaSlot(l) = i}
                \cup (IF Shared THEN Riders(i) \cap Layers ELSE {})]

IdxTensor(n, i) ==
  [size |-> n * geo.idxPage,
   sharedBy |-> {<<"idx", i>>, <<"tail", i>>} \cap Layers]

DraftTensor(n, i) == [size |-> n * DraftPage, sharedBy |-> {<<"draft", i>>}]

\* The three kinds of tensors, and where each layer is bound.
LEMMA TensorOf ==
  ASSUME NEW n, NEW t \in Tensors(n)
  PROVE  \/ \E i \in 1 .. geo.mlaLayers :
              /\ t = MlaTensor(n, i)
              /\ \A l \in t.sharedBy :
                   \/ l = <<"mla", i>>
                   \/ l \in Layers /\ l[1] = "mamba" /\ MambaSlot(l) = i
                   \/ l \in Layers /\ Shared /\ l = <<"draft", i>>
         \/ \E i \in 1 .. geo.idxLayers :
              /\ t = IdxTensor(n, i)
              /\ \A l \in t.sharedBy :
                   l \in Layers /\ l \in {<<"idx", i>>, <<"tail", i>>}
         \/ \E i \in 1 .. geo.draftLayers :
              /\ ~Shared
              /\ t = DraftTensor(n, i)
              /\ \A l \in t.sharedBy : l = <<"draft", i>>
<1>1. CASE \E i \in 1 .. geo.mlaLayers : t = MlaTensor(n, i)
  <2>1. PICK i \in 1 .. geo.mlaLayers : t = MlaTensor(n, i)
    BY <1>1
  <2>2. \A l \in t.sharedBy :
          \/ l = <<"mla", i>>
          \/ l \in Layers /\ l[1] = "mamba" /\ MambaSlot(l) = i
          \/ l \in Layers /\ Shared /\ l = <<"draft", i>>
    BY <2>1 DEF MlaTensor, Riders
  <2> QED
    BY <2>1, <2>2
<1>2. CASE \E i \in 1 .. geo.idxLayers : t = IdxTensor(n, i)
  <2>1. PICK i \in 1 .. geo.idxLayers : t = IdxTensor(n, i)
    BY <1>2
  <2>2. \A l \in t.sharedBy : l \in Layers /\ l \in {<<"idx", i>>, <<"tail", i>>}
    BY <2>1 DEF IdxTensor
  <2> QED
    BY <2>1, <2>2
<1>3. CASE \E i \in {d \in 1 .. geo.draftLayers : ~Shared} : t = DraftTensor(n, i)
  <2>1. PICK i \in {d \in 1 .. geo.draftLayers : ~Shared} : t = DraftTensor(n, i)
    BY <1>3
  <2>2. \A l \in t.sharedBy : l = <<"draft", i>>
    BY <2>1 DEF DraftTensor
  <2> QED
    BY <2>1, <2>2
<1> QED
  BY <1>1, <1>2, <1>3 DEF Tensors, MlaTensor, IdxTensor, DraftTensor

\* Every tensor has a size, and is bound to layers of the model.
LEMMA TensorTypes ==
  ASSUME geo \in Geometries, draftBlock \in Nat \ {0}, NEW n \in Nat,
         NEW t \in Tensors(n)
  PROVE  t.size \in Nat /\ t.sharedBy \subseteq Layers
<1>1. geo \in Geometry /\ MlaPage \in Nat /\ DraftPage \in Nat
  BY Sizes
<1>2. n * MlaPage \in Nat /\ n * DraftPage \in Nat /\ n * geo.idxPage \in Nat
  BY <1>1, ProductNat DEF Geometry
<1>3. t.size \in Nat
  BY <1>2, TensorOf DEF MlaTensor, IdxTensor, DraftTensor
<1>4. t.sharedBy \subseteq Layers
  BY TensorOf DEF Layers
<1> QED
  BY <1>3, <1>4

-----------------------------------------------------------------------------
(* The layout.                                                             *)

\* The bytes of a block of layer l.
BlockBytes(l) == Parts(l) * PartStride(l)

\* However a layer is addressed, its blocks have the size of its tensor's.
LEMMA OnePage ==
  ASSUME geo \in Geometries, draftBlock \in Nat \ {0},
         HasDraft => draftBlock % geo.kernel = 0,
         NEW n \in Nat, NEW t \in Tensors(n), NEW l \in t.sharedBy
  PROVE  /\ t.size = n * BlockBytes(l)
         /\ \A k \in t.sharedBy : BlockBytes(k) = BlockBytes(l)
<1>0. geo \in Geometry /\ MlaPage \in Nat /\ DraftPage \in Nat
  BY Sizes
<1>d. \A i \in Nat : HasDraft => BlockBytes(<<"draft", i>>) = DraftPage
  <2>1. geo.kernel \in Nat \ {0} /\ geo.draftBytes \in Nat
    BY <1>0, KernelAssumption DEF Geometry
  <2>2. HasDraft => (draftBlock \div geo.kernel) * geo.kernel = draftBlock
    BY <2>1, ExactQuotient
  <2>3. draftBlock \div geo.kernel \in Nat
    BY <2>1, QuotientNat
  <2>4. (draftBlock \div geo.kernel) * (geo.kernel * geo.draftBytes)
          = ((draftBlock \div geo.kernel) * geo.kernel) * geo.draftBytes
    BY <2>1, <2>3, SMT
  <2> QED
    BY <2>2, <2>4 DEF BlockBytes, Parts, PartStride, DraftPage
<1>m. \A i \in Nat : /\ BlockBytes(<<"mla", i>>) = MlaPage
                     /\ BlockBytes(<<"mamba", i>>) = MlaPage
  BY <1>0 DEF BlockBytes, Parts, PartStride
<1>x. \A i \in Nat : /\ BlockBytes(<<"idx", i>>) = geo.idxPage
                     /\ BlockBytes(<<"tail", i>>) = geo.idxPage
  BY <1>0 DEF BlockBytes, Parts, PartStride, Geometry
<1>1. ASSUME NEW i \in 1 .. geo.mlaLayers, t = MlaTensor(n, i),
             \A k \in t.sharedBy :
                  \/ k = <<"mla", i>>
                  \/ k[1] = "mamba"
                  \/ Shared /\ k = <<"draft", i>>
      PROVE  /\ t.size = n * MlaPage
             /\ \A k \in t.sharedBy : BlockBytes(k) = MlaPage
  <2>1. \A k : k[1] = "mamba" => BlockBytes(k) = MlaPage
    <3> SUFFICES ASSUME NEW k, k[1] = "mamba" PROVE BlockBytes(k) = MlaPage
      OBVIOUS
    <3>1. Parts(k) = 1 /\ PartStride(k) = MlaPage
      BY DEF Parts, PartStride
    <3> QED
      BY <3>1, <1>0 DEF BlockBytes
  <2>2. i \in Nat
    BY <1>0 DEF Geometry
  <2>3. Shared => BlockBytes(<<"draft", i>>) = MlaPage
    BY <1>d, <2>2 DEF Shared, SamePage
  <2> QED
    BY <1>1, <2>1, <2>2, <2>3, <1>m DEF MlaTensor
<1>2. ASSUME NEW i \in 1 .. geo.idxLayers, t = IdxTensor(n, i),
             \A k \in t.sharedBy : k \in {<<"idx", i>>, <<"tail", i>>}
      PROVE  /\ t.size = n * geo.idxPage
             /\ \A k \in t.sharedBy : BlockBytes(k) = geo.idxPage
  <2>1. i \in Nat
    BY <1>0 DEF Geometry
  <2> QED
    BY <1>2, <2>1, <1>x DEF IdxTensor
<1>3. ASSUME NEW i \in 1 .. geo.draftLayers, t = DraftTensor(n, i),
             \A k \in t.sharedBy : k = <<"draft", i>>
      PROVE  /\ t.size = n * DraftPage
             /\ \A k \in t.sharedBy : BlockBytes(k) = DraftPage
  <2>1. i \in Nat /\ HasDraft
    BY <1>0 DEF Geometry, HasDraft
  <2> QED
    BY <1>3, <2>1, <1>d DEF DraftTensor
<1>4. \/ \E i \in 1 .. geo.mlaLayers :
           /\ t = MlaTensor(n, i)
           /\ \A k \in t.sharedBy :
                   \/ k = <<"mla", i>>
                   \/ k[1] = "mamba"
                   \/ Shared /\ k = <<"draft", i>>
      \/ \E i \in 1 .. geo.idxLayers :
           /\ t = IdxTensor(n, i)
           /\ \A k \in t.sharedBy : k \in {<<"idx", i>>, <<"tail", i>>}
      \/ \E i \in 1 .. geo.draftLayers :
           /\ t = DraftTensor(n, i)
           /\ \A k \in t.sharedBy : k = <<"draft", i>>
  BY TensorOf
<1>5. \E page : t.size = n * page /\ \A k \in t.sharedBy : BlockBytes(k) = page
  BY <1>1, <1>2, <1>3, <1>4
<1> QED
  BY <1>5

\* The Mamba layers have slots in the MLA tensors.
LEMMA SlotInRange ==
  ASSUME geo \in Geometries, draftBlock \in Nat \ {0},
         NEW k \in 1 .. geo.mambaLayers
  PROVE  MambaSlot(<<"mamba", k>>) \in 1 .. geo.mlaLayers
<1>0. geo \in Geometry /\ NumMambaGroups \in Nat \ {0}
  BY Sizes
<1> DEFINE a == geo.mlaLayers  m == geo.mambaLayers  g == NumMambaGroups
<1>1. a \in Nat \ {0} /\ m \in Nat \ {0} /\ g \in Nat \ {0} /\ k \in 1 .. m
  BY <1>0 DEF Geometry
<1>2. g = (m + a - 1) \div a
  BY DEF NumMambaGroups, CeilDiv
<1>3. m <= g * a
  <2> HIDE DEF a, m, g
  <2> QED
    BY <1>1, <1>2, CeilDivCovers DEF CeilDiv
<1>4. (k - 1) \div g \in Nat /\ (k - 1) \div g < a
  <2> HIDE DEF a, m, g
  <2>1. k - 1 \in Nat /\ k - 1 < g * a
    <3>1. g * a \in Nat
      BY <1>1, ProductNat
    <3> QED
      BY <3>1, <1>1, <1>3
  <2> QED
    BY <2>1, <1>1, QuotientBelow, QuotientNat
<1> QED
  BY <1>1, <1>4 DEF MambaSlot

\* No two layers of one group share a tensor.
LEMMA OneLayerOfGroup ==
  ASSUME geo \in Geometries, draftBlock \in Nat \ {0}, NEW n \in Nat,
         NEW t \in Tensors(n), NEW l \in t.sharedBy, NEW k \in t.sharedBy,
         GroupOf(l) = GroupOf(k)
  PROVE  l = k
<1>0. geo \in Geometry /\ NumMambaGroups \in Nat \ {0}
  BY Sizes
<1>1. CASE l[1] = "mamba" /\ k[1] = "mamba"
  <2>1. /\ l \in {"mamba"} \X (1 .. geo.mambaLayers)
        /\ k \in {"mamba"} \X (1 .. geo.mambaLayers)
        /\ MambaSlot(l) = MambaSlot(k)
    BY <1>1, TensorOf DEF Layers
  <2>2. l[2] - 1 \in Nat /\ k[2] - 1 \in Nat
    BY <2>1, <1>0 DEF Geometry
  <2>3. (l[2] - 1) % NumMambaGroups = (k[2] - 1) % NumMambaGroups
    BY <1>1 DEF GroupOf
  <2>4. /\ (l[2] - 1) \div NumMambaGroups \in Nat
        /\ (k[2] - 1) \div NumMambaGroups \in Nat
    BY <2>2, <1>0, QuotientNat
  <2>5. (l[2] - 1) \div NumMambaGroups = (k[2] - 1) \div NumMambaGroups
    BY <2>1, <2>4 DEF MambaSlot
  <2>6. l[2] - 1 = k[2] - 1
    BY <2>2, <2>3, <2>5, <1>0, QuotientRemainder
  <2> QED
    BY <2>1, <2>2, <2>6
<1>2. CASE ~(l[1] = "mamba" /\ k[1] = "mamba")
  BY <1>2, TensorOf DEF GroupOf
<1> QED
  BY <1>1, <1>2

\* The parts a block is addressed in are the same for the layers of a group.
LEMMA PartsOfGroup ==
  ASSUME NEW l \in Layers, NEW j \in PartsOf(GroupOf(l)),
         geo \in Geometries, draftBlock \in Nat \ {0}
  PROVE  j \in Nat /\ Parts(l) \in Nat /\ j < Parts(l)
<1>0. geo \in Geometry /\ geo.kernel \in Nat \ {0}
  BY Sizes, KernelAssumption DEF Geometry
<1>1. draftBlock \div geo.kernel \in Nat
  BY <1>0, QuotientNat
<1>2. l[1] \in {"mla", "idx", "tail", "mamba", "draft"}
  BY DEF Layers
<1>3. Parts(<<GroupOf(l)[1], 1>>) = Parts(l)
  BY <1>2 DEF Parts, GroupOf
<1>4. Parts(l) \in Nat
  BY <1>1 DEF Parts
<1> QED
  BY <1>3, <1>4 DEF PartsOf

\* The blocks of a layer have a number of parts.
LEMMA PartsNat ==
  ASSUME NEW l, geo \in Geometries, draftBlock \in Nat \ {0}
  PROVE  Parts(l) \in Nat
<1>1. geo.kernel \in Nat \ {0}
  BY Sizes, KernelAssumption DEF Geometry
<1>2. draftBlock \div geo.kernel \in Nat
  BY <1>1, QuotientNat
<1> QED
  BY <1>2 DEF Parts

\* The parts of a layer are numbers of bytes.
LEMMA StrideNat ==
  ASSUME NEW l, geo \in Geometries, draftBlock \in Nat \ {0}
  PROVE  PartStride(l) \in Nat
<1>0. geo \in Geometry /\ MlaPage \in Nat /\ geo.kernel \in Nat
  BY Sizes, KernelAssumption DEF Geometry
<1>1. geo.kernel * geo.draftBytes \in Nat
  BY <1>0, ProductNat DEF Geometry
<1> QED
  BY <1>0, <1>1 DEF PartStride, Geometry

\* A part of a layer lies inside its block of the tensor.
LEMMA PartPlace ==
  ASSUME geo \in Geometries, draftBlock \in Nat \ {0},
         NEW l \in Layers, NEW b \in Nat, NEW j \in PartsOf(GroupOf(l))
  PROVE  /\ Start(l, b, j) \in Nat /\ PartStride(l) \in Nat
         /\ BlockBytes(l) \in Nat
         /\ b * BlockBytes(l) <= Start(l, b, j)
         /\ Start(l, b, j) + PartStride(l) <= (b + 1) * BlockBytes(l)
<1>1. j \in Nat /\ Parts(l) \in Nat /\ j < Parts(l) /\ PartStride(l) \in Nat
  BY PartsOfGroup, StrideNat
<1>2. b * Parts(l) \in Nat /\ BlockBytes(l) \in Nat
  BY <1>1, ProductNat DEF BlockBytes
<1>3. Start(l, b, j) \in Nat
  BY <1>1, <1>2, ProductNat DEF Start
<1> QED
  BY <1>1, <1>2, <1>3, PartInBlock DEF Start, BlockBytes

\* No layer is bound twice.
LEMMA OneTensor ==
  ASSUME geo \in Geometries, NEW n \in Nat, NEW l,
         NEW t \in Tensors(n), NEW u \in Tensors(n),
         l \in t.sharedBy, l \in u.sharedBy
  PROVE  t = u
<1>1. CASE l[1] = "mla"
  BY <1>1, TensorOf
<1>2. CASE l[1] = "mamba"
  BY <1>2, TensorOf
<1>3. CASE l[1] = "draft"
  BY <1>3, TensorOf
<1>4. CASE l[1] \in {"idx", "tail"}
  BY <1>4, TensorOf
<1>5. l[1] \in {"mla", "mamba", "draft", "idx", "tail"}
  BY TensorOf
<1> QED
  BY <1>1, <1>2, <1>3, <1>4, <1>5

\* Every layer is bound, if the layout is the model's own.
LEMMA SomeTensor ==
  ASSUME geo \in Geometries, draftBlock \in Nat \ {0}, HasLayout,
         NEW n \in Nat, NEW l \in Layers
  PROVE  \E t \in Tensors(n) : l \in t.sharedBy
<1>0. geo \in Geometry
  BY Sizes
<1>t. /\ \A i \in 1 .. geo.mlaLayers : MlaTensor(n, i) \in Tensors(n)
      /\ \A i \in 1 .. geo.idxLayers : IdxTensor(n, i) \in Tensors(n)
      /\ ~Shared =>
           \A i \in 1 .. geo.draftLayers : DraftTensor(n, i) \in Tensors(n)
  BY DEF Tensors, MlaTensor, IdxTensor, DraftTensor
<1>1. CASE l \in {"mla"} \X (1 .. geo.mlaLayers)
  <2>1. l \in MlaTensor(n, l[2]).sharedBy
    BY <1>1 DEF MlaTensor
  <2> QED
    BY <1>1, <2>1, <1>t
<1>2. CASE l \in {"idx", "tail"} \X (1 .. geo.idxLayers)
  <2>1. l \in IdxTensor(n, l[2]).sharedBy
    BY <1>2 DEF IdxTensor
  <2> QED
    BY <1>2, <2>1, <1>t
<1>3. CASE l \in {"mamba"} \X (1 .. geo.mambaLayers)
  <2>1. MambaSlot(l) \in 1 .. geo.mlaLayers
    BY <1>3, SlotInRange
  <2> QED
    BY <1>3, <2>1, <1>t DEF MlaTensor
<1>4. CASE l \in {"draft"} \X (1 .. geo.draftLayers)
  <2>1. CASE Shared
    <3>1. l[2] \in 1 .. geo.mlaLayers
      BY <1>0, <1>4, <2>1 DEF Shared, SamePage, HasLayout, Geometry
    <3>2. l \in MlaTensor(n, l[2]).sharedBy
      BY <1>4, <2>1 DEF MlaTensor, Riders
    <3> QED
      BY <3>1, <3>2, <1>t
  <2>2. CASE ~Shared
    <3>1. l \in DraftTensor(n, l[2]).sharedBy
      BY <1>4 DEF DraftTensor
    <3> QED
      BY <1>4, <2>2, <3>1, <1>t
  <2> QED
    BY <2>1, <2>2
<1> QED
  BY <1>1, <1>2, <1>3, <1>4 DEF Layers

-----------------------------------------------------------------------------
(* Held blocks are not overwritten.                                        *)

\* A write to one part of a held block touches no other part of a held block.
LEMMA NoClobber ==
  ASSUME geo \in Geometries, draftBlock \in Nat \ {0}, numBlocks \in Nat,
         HasDraft => draftBlock % geo.kernel = 0,
         tensors = Tensors(numBlocks),
         NEW g, NEW h, NEW p \in Nat \X PartsOf(g), NEW q \in Nat \X PartsOf(h),
         p # q, p[1] = q[1] => g = h
  PROVE  ~Clobbers(g, p, h, q)
<1> SUFFICES ASSUME NEW t \in tensors, NEW l \in t.sharedBy, NEW k \in t.sharedBy,
                    GroupOf(l) = g, GroupOf(k) = h,
                    Start(l, p[1], p[2]) < Start(k, q[1], q[2]) + PartStride(k),
                    Start(k, q[1], q[2]) < Start(l, p[1], p[2]) + PartStride(l)
             PROVE  FALSE
  BY DEF Clobbers
<1>1. l \in Layers /\ k \in Layers
  BY TensorTypes
<1>2. BlockBytes(k) = BlockBytes(l)
  BY OnePage
<1>3. p[1] \in Nat /\ q[1] \in Nat /\ p[2] \in PartsOf(g) /\ q[2] \in PartsOf(h)
  OBVIOUS
<1>4. /\ Start(l, p[1], p[2]) \in Nat /\ PartStride(l) \in Nat
      /\ BlockBytes(l) \in Nat
      /\ p[1] * BlockBytes(l) <= Start(l, p[1], p[2])
      /\ Start(l, p[1], p[2]) + PartStride(l) <= (p[1] + 1) * BlockBytes(l)
  BY <1>1, <1>3, PartPlace
<1>5. /\ Start(k, q[1], q[2]) \in Nat /\ PartStride(k) \in Nat
      /\ q[1] * BlockBytes(l) <= Start(k, q[1], q[2])
      /\ Start(k, q[1], q[2]) + PartStride(k) <= (q[1] + 1) * BlockBytes(l)
  BY <1>1, <1>2, <1>3, PartPlace
<1>6. /\ p[1] * BlockBytes(l) \in Nat /\ q[1] * BlockBytes(l) \in Nat
      /\ (p[1] + 1) * BlockBytes(l) \in Nat /\ (q[1] + 1) * BlockBytes(l) \in Nat
  BY <1>3, <1>4, ProductNat
<1>7. CASE p[1] < q[1]
  <2>1. (p[1] + 1) * BlockBytes(l) <= q[1] * BlockBytes(l)
    BY <1>3, <1>4, <1>7, ProductMonotone
  <2> QED
    BY <2>1, <1>4, <1>5, <1>6
<1>8. CASE q[1] < p[1]
  <2>1. (q[1] + 1) * BlockBytes(l) <= p[1] * BlockBytes(l)
    BY <1>3, <1>4, <1>8, ProductMonotone
  <2> QED
    BY <2>1, <1>4, <1>5, <1>6
<1>9. CASE p[1] = q[1]
  <2>1. l = k
    BY <1>9, OneLayerOfGroup
  <2>2. /\ p[2] \in Nat /\ q[2] \in Nat /\ Parts(l) \in Nat
    BY <1>1, <1>3, <2>1, PartsOfGroup
  <2>3. p[2] # q[2]
    BY <1>9
  <2>4. CASE p[2] < q[2]
    BY <1>3, <1>4, <1>5, <1>9, <2>1, <2>2, <2>4, PartsDisjoint DEF Start
  <2>5. CASE q[2] < p[2]
    BY <1>3, <1>4, <1>5, <1>9, <2>1, <2>2, <2>5, PartsDisjoint DEF Start
  <2> QED
    BY <2>2, <2>3, <2>4, <2>5
<1> QED
  BY <1>3, <1>7, <1>8, <1>9

\* What the boot has settled once the groups are configured.
Settled ==
  /\ pc \in {"config", "bind", "serve"} => HasLayout
  /\ Configured => tensors = Tensors(numBlocks)
  /\ pc = "serve" /\ HasDraft => draftBlock % geo.kernel = 0
  /\ pc # "serve" => written = {} /\ intact = {}

IInv == TypeOK /\ Settled /\ HeldDataIntact

LEMMA InitIInv == Init => IInv
<1> SUFFICES ASSUME Init PROVE IInv
  OBVIOUS
<1>1. geo.draftBlock \in Nat \ {0}
  BY GeometriesAssumption DEF Init, Geometry
<1>2. TypeOK
  BY <1>1 DEF Init, TypeOK
<1> QED
  BY <1>2 DEF Init, IInv, Settled, Configured, HeldDataIntact

\* The booting steps write nothing.
LEMMA BootStep ==
  ASSUME IInv, BuildGroups \/ CheckMemory \/ EmitConfig \/ Bind PROVE IInv'
<1> USE DEF IInv, HeldDataIntact
<1>0. geo \in Geometries /\ draftBlock \in Nat \ {0}
  BY DEF TypeOK
<1>1. CASE BuildGroups
  <2>1. draftBlock' \in Nat \ {0}
    BY <1>0, <1>1, FitBlockType DEF BuildGroups
  <2>2. TypeOK'
    BY <1>1, <2>1 DEF BuildGroups, TypeOK, Settled, Configured, Held, Groups,
                      GroupOf, Layers, NumMambaGroups
  <2>3. Settled'
    BY <1>1 DEF BuildGroups, Settled, Configured
  <2> QED
    BY <1>1, <2>2, <2>3 DEF BuildGroups, Settled
<1>2. CASE CheckMemory
  <2>1. TypeOK'
    BY <1>2 DEF CheckMemory, TypeOK, Held, Groups, GroupOf, Layers, NumMambaGroups,
                PartsOf, Parts
  <2>2. Settled'
    BY <1>2 DEF CheckMemory, Settled, Configured, HasLayout, HasDraft, DraftPage,
                MlaPage
  <2> QED
    BY <1>2, <2>1, <2>2 DEF CheckMemory
<1>3. CASE EmitConfig
  <2>1. numBlocks' \in Nat
    <3>1. PerBlock \in Nat \ {0} /\ geo.available \in Nat
      BY <1>0, Sizes DEF Geometry
    <3> QED
      BY <1>3, <3>1, QuotientNat DEF EmitConfig
  <2>2. \A t \in tensors' : t.size \in Nat /\ t.sharedBy \subseteq Layers
    BY <1>0, <1>3, <2>1, TensorTypes DEF EmitConfig
  <2>3. written = {} /\ intact = {}
    BY <1>3 DEF EmitConfig, Settled
  <2>4. Layers' = Layers /\ Groups' = Groups
    BY <1>3 DEF EmitConfig, Groups, GroupOf, Layers, NumMambaGroups
  <2>5. TypeOK'
    BY <1>3, <2>1, <2>2, <2>3, <2>4 DEF EmitConfig, TypeOK
  <2>6. tensors' = Tensors(numBlocks)'
    BY <1>3 DEF EmitConfig, Layers, NumMambaGroups, Tensors, Shared, HasDraft, SamePage,
                DraftPage, MlaPage, Riders, MambaSlot
  <2>7. HasLayout'
    BY <1>3 DEF EmitConfig, Settled, HasLayout, HasDraft, DraftPage, MlaPage
  <2>8. pc' = "bind" /\ written' = {} /\ intact' = {}
    BY <1>3, <2>3 DEF EmitConfig
  <2>9. Settled'
    BY <2>6, <2>7, <2>8 DEF Settled, Configured
  <2> QED
    BY <2>5, <2>8, <2>9
<1>4. CASE Bind
  <2>1. TypeOK'
    BY <1>4 DEF Bind, TypeOK, Held, Groups, GroupOf, Layers, NumMambaGroups, PartsOf,
                Parts
  <2>2. Tensors(numBlocks)' = Tensors(numBlocks)
    BY <1>4 DEF Bind, Tensors, Shared, HasDraft, SamePage, DraftPage, MlaPage, Riders,
                MambaSlot, Layers, NumMambaGroups
  <2>4. HasLayout' /\ HasDraft' = HasDraft
    BY <1>4 DEF Bind, Settled, HasLayout, HasDraft, DraftPage, MlaPage
  <2>5. tensors' = Tensors(numBlocks)' /\ written' = {} /\ intact' = {}
    BY <1>4, <2>2 DEF Bind, Settled, Configured
  <2>3. Settled'
    <3>1. CASE HasDraft /\ draftBlock % geo.kernel # 0
      BY <1>4, <2>4, <2>5, <3>1 DEF Bind, Settled, Configured
    <3>2. CASE ~(HasDraft /\ draftBlock % geo.kernel # 0)
      BY <1>4, <2>4, <2>5, <3>2 DEF Bind, Settled, Configured
    <3> QED
      BY <3>1, <3>2
  <2> QED
    BY <1>4, <2>1, <2>3 DEF Bind
<1> QED
  BY <1>1, <1>2, <1>3, <1>4

\* Serving leaves the layout alone.
LEMMA ServeFrame ==
  ASSUME UNCHANGED <<geo, pc, draftBlock, numBlocks, tensors>>
  PROVE  /\ Settled /\ pc = "serve" => Settled'
         /\ Layers' = Layers /\ Groups' = Groups
         /\ \A g : PartsOf(g)' = PartsOf(g)
<1>1. /\ Layers' = Layers /\ Groups' = Groups
      /\ \A g : PartsOf(g)' = PartsOf(g)
  BY DEF Groups, GroupOf, Layers, NumMambaGroups, PartsOf, Parts
<1>2. Tensors(numBlocks)' = Tensors(numBlocks)
  BY <1>1 DEF Tensors, Shared, HasDraft, SamePage, DraftPage, MlaPage, Riders,
              MambaSlot, NumMambaGroups
<1>3. Settled /\ pc = "serve" => Settled'
  BY <1>2 DEF Settled, Configured, HasLayout, HasDraft, DraftPage, MlaPage
<1> QED
  BY <1>1, <1>3

\* Taking, writing and releasing blocks keep what is written intact.
LEMMA ServeStep ==
  ASSUME IInv, NEW b \in DOMAIN owner,
         \/ \E g \in Groups : Take(b, g)
         \/ \E j \in PartsOf(owner[b]) : Write(b, j)
         \/ Release(b)
  PROVE  IInv'
<1>0. /\ geo \in Geometries /\ draftBlock \in Nat \ {0} /\ numBlocks \in Nat
      /\ owner \in [0 .. numBlocks - 1 -> Groups \cup {Nobody}]
      /\ \A q \in written : q \in Held \X PartsOf(owner[q[1]])
      /\ intact \subseteq written /\ written \subseteq intact
      /\ DOMAIN owner = 0 .. numBlocks - 1 /\ b \in Nat
  BY DEF IInv, TypeOK, HeldDataIntact
<1>f. /\ UNCHANGED <<geo, pc, draftBlock, numBlocks, tensors>> /\ pc = "serve"
      /\ Settled
  BY DEF IInv, Take, Write, Release
<1>g. /\ Settled' /\ Layers' = Layers /\ Groups' = Groups
      /\ \A g : PartsOf(g)' = PartsOf(g)
  BY <1>f, ServeFrame
<1>1. ASSUME NEW g \in Groups, Take(b, g) PROVE IInv'
  <2>1. \A c \in Held : c # b /\ c \in Held' /\ owner'[c] = owner[c]
    BY <1>0, <1>1 DEF Take, Held
  <2>2. owner' \in [0 .. numBlocks - 1 -> Groups \cup {Nobody}]
    BY <1>0, <1>1 DEF Take
  <2>3. \A q \in written : q \in Held' \X PartsOf(owner'[q[1]])
    BY <1>0, <2>1
  <2>4. TypeOK'
    BY <1>1, <1>g, <2>2, <2>3, <1>0 DEF Take, TypeOK, IInv
  <2> QED
    BY <1>1, <1>g, <2>4 DEF IInv, HeldDataIntact, Take
<1>2. ASSUME NEW j \in PartsOf(owner[b]), Write(b, j) PROVE IInv'
  <2>1. <<b, j>> \in Held \X PartsOf(owner[b]) /\ Held' = Held
    BY <1>0, <1>2 DEF Write, Held
  <2>2. TypeOK'
    BY <1>2, <1>0, <1>g, <2>1 DEF Write, TypeOK, IInv
  <2>3. ASSUME NEW q \in written, q # <<b, j>>
        PROVE  ~Clobbers(owner[b], <<b, j>>, owner[q[1]], q)
    <3>1. q \in Nat \X PartsOf(owner[q[1]])
      BY <1>0 DEF Held
    <3>2. <<b, j>> \in Nat \X PartsOf(owner[b])
      BY <1>0
    <3>3. /\ HasDraft => draftBlock % geo.kernel = 0
          /\ tensors = Tensors(numBlocks)
      BY <1>f DEF Settled, Configured
    <3> QED
      BY <3>1, <3>2, <3>3, <2>3, <1>0, NoClobber
  <2>4. written' \subseteq intact'
    BY <1>0, <1>2, <2>3 DEF Write
  <2> QED
    BY <1>g, <2>2, <2>4 DEF IInv, HeldDataIntact
<1>3. ASSUME Release(b) PROVE IInv'
  <2>1. \A c \in Held : c # b => c \in Held' /\ owner'[c] = owner[c]
    BY <1>0, <1>3 DEF Release, Held
  <2>2. owner' \in [0 .. numBlocks - 1 -> Groups \cup {Nobody}]
    BY <1>0, <1>3 DEF Release
  <2>3. \A q \in written' : q \in Held' \X PartsOf(owner'[q[1]])
    BY <1>0, <1>3, <2>1 DEF Release
  <2>4. TypeOK'
    BY <1>3, <1>g, <2>2, <2>3, <1>0 DEF Release, TypeOK, IInv
  <2>5. written' \subseteq intact'
    BY <1>0, <1>3 DEF Release
  <2> QED
    BY <1>g, <2>4, <2>5 DEF IInv, HeldDataIntact
<1> QED
  BY <1>1, <1>2, <1>3

-----------------------------------------------------------------------------
(* Theorems.                                                               *)

LEMMA Inductive == IInv /\ [Next]_vars => IInv'
<1>1. ASSUME IInv, Next PROVE IInv'
  BY <1>1, BootStep, ServeStep DEF Next
<1>2. ASSUME IInv, UNCHANGED vars PROVE IInv'
  <2>1. Layers' = Layers /\ Groups' = Groups /\ Held' = Held
        /\ \A g : PartsOf(g)' = PartsOf(g)
    BY <1>2 DEF vars, Groups, GroupOf, Layers, NumMambaGroups, PartsOf, Parts, Held
  <2>2. TypeOK'
    BY <1>2, <2>1 DEF IInv, TypeOK, vars
  <2>3. Tensors(numBlocks)' = Tensors(numBlocks)
    BY <1>2, <2>1 DEF vars, Tensors, Shared, HasDraft, SamePage, DraftPage, MlaPage,
                      Riders, MambaSlot, NumMambaGroups
  <2>4. HasLayout' = HasLayout /\ HasDraft' = HasDraft
    BY <1>2 DEF vars, HasLayout, HasDraft, DraftPage, MlaPage
  <2>5. Settled'
    BY <1>2, <2>3, <2>4 DEF IInv, Settled, Configured, vars
  <2> QED
    BY <1>2, <2>2, <2>5 DEF IInv, HeldDataIntact, vars
<1> QED
  BY <1>1, <1>2

LEMMA Invariance == Spec => []IInv
  BY InitIInv, Inductive, PTL DEF Spec

\* The variables of every boot, of any geometry, have their types.
THEOREM TypeCorrect == Spec => []TypeOK
<1>1. IInv => TypeOK
  BY DEF IInv
<1> QED
  BY <1>1, Invariance, PTL

\* Whatever the geometry, the fit and the kernel size, no write reaches bytes of
\* another held block, or of another part of its own.
THEOREM DataStaysIntact == Spec => []HeldDataIntact
<1>1. IInv => HeldDataIntact
  BY DEF IInv
<1> QED
  BY <1>1, Invariance, PTL

\* No layer's view of its tensor reaches past the end of it.
THEOREM ViewsAlwaysFit == Spec => []ViewsFit
<1>1. IInv => ViewsFit
  <2> SUFFICES ASSUME IInv, pc = "serve",
                      NEW t \in tensors, NEW l \in t.sharedBy
               PROVE  Start(l, numBlocks, 0) <= t.size
    BY DEF ViewsFit
  <2>1. /\ geo \in Geometries /\ draftBlock \in Nat \ {0} /\ numBlocks \in Nat
        /\ HasDraft => draftBlock % geo.kernel = 0
        /\ tensors = Tensors(numBlocks)
    BY DEF IInv, TypeOK, Settled, Configured
  <2>2. t.size = numBlocks * BlockBytes(l) /\ t.size \in Nat /\ l \in Layers
    BY <2>1, OnePage, TensorTypes
  <2>3. Parts(l) \in Nat /\ PartStride(l) \in Nat
    BY <2>1, <2>2, StrideNat, PartsNat
  <2>4. Start(l, numBlocks, 0) = numBlocks * (Parts(l) * PartStride(l))
    BY <2>1, <2>3, StartOfBlock DEF Start
  <2> QED
    BY <2>2, <2>4 DEF BlockBytes
<1> QED
  BY <1>1, Invariance, PTL

\* Every layer is bound to one tensor, and shares it with no layer of its group.
THEOREM LayersAlwaysBound == Spec => []EveryLayerBound
<1>1. IInv => EveryLayerBound
  <2> SUFFICES ASSUME IInv, Configured, NEW l \in Layers
               PROVE  /\ \E t \in tensors : l \in t.sharedBy
                      /\ \A t, u \in tensors :
                           l \in t.sharedBy \cap u.sharedBy => t = u
                      /\ \A t \in tensors : \A k \in Layers \ {l} :
                           {l, k} \subseteq t.sharedBy => GroupOf(l) # GroupOf(k)
    BY DEF EveryLayerBound
  <2>1. /\ geo \in Geometries /\ draftBlock \in Nat \ {0} /\ numBlocks \in Nat
        /\ HasLayout /\ tensors = Tensors(numBlocks)
    BY DEF IInv, TypeOK, Settled, Configured
  <2>2. \E t \in tensors : l \in t.sharedBy
    BY <2>1, SomeTensor
  <2>3. \A t, u \in tensors : l \in t.sharedBy \cap u.sharedBy => t = u
    BY <2>1, OneTensor
  <2>4. \A t \in tensors : \A k \in Layers \ {l} :
          {l, k} \subseteq t.sharedBy => GroupOf(l) # GroupOf(k)
    BY <2>1, OneLayerOfGroup
  <2> QED
    BY <2>2, <2>3, <2>4
<1> QED
  BY <1>1, Invariance, PTL

-----------------------------------------------------------------------------
(* An exact fit costs no capacity.                                         *)

Fits == HasDraft /\ geo.oneSpec /\ ExactFit

Capacity ==
  /\ Fits => /\ pc # "groups" => draftBlock = FitBlock
             /\ pc \notin {"generic", "failed"}
  /\ Configured => numBlocks = geo.available \div PerBlock

\* The rescaled block has the page of the MLA layers, and any registered kernel
\* size divides it.
LEMMA FitFacts ==
  ASSUME geo \in Geometries, draftBlock \in Nat \ {0}, Fits, draftBlock = FitBlock
  PROVE  DraftPage = MlaPage /\ draftBlock % geo.kernel = 0 /\ HasLayout
<1>0. geo \in Geometry /\ MlaPage \in Nat
  BY Sizes
<1>1. geo.draftBytes \in Nat \ {0} /\ geo.kernel \in Nat \ {0}
      /\ FitUnit \in Nat \ {0} /\ FitUnit % geo.kernel = 0
  BY <1>0, KernelAssumption DEF Geometry
<1>2. MlaPage % geo.draftBytes = 0 /\ draftBlock = MlaPage \div geo.draftBytes
  BY DEF Fits, ExactFit, Fills, FitBlock
<1>3. DraftPage = MlaPage
  BY <1>0, <1>1, <1>2, ExactQuotient DEF DraftPage
<1>4. draftBlock % FitUnit = 0
  BY DEF Fits, ExactFit, Splits
<1>5. draftBlock % geo.kernel = 0
  BY <1>1, <1>4, DividesThrough
<1>6. geo.draftLayers <= geo.mlaLayers
  BY DEF Fits, ExactFit
<1>7. HasLayout
  BY <1>0, <1>6 DEF HasLayout, Geometry
<1> QED
  BY <1>3, <1>5, <1>7

\* No step disturbs a fit, or the capacity once it is settled.
LEMMA CapacityStep ==
  ASSUME IInv, Capacity, [Next]_vars PROVE Capacity'
<1>0. geo \in Geometries /\ draftBlock \in Nat \ {0} /\ geo' = geo
  BY DEF IInv, TypeOK, Next, vars, BuildGroups, CheckMemory, EmitConfig, Bind, Take,
         Write, Release
<1>f. Fits' = Fits /\ FitBlock' = FitBlock
  BY <1>0 DEF Fits, HasDraft, ExactFit, Fills, Splits, FitBlock, MlaPage
<1>p. draftBlock' = draftBlock => PerBlock' = PerBlock
  BY <1>0 DEF PerBlock, BaseBytes, ChargedDrafts, Shared, SamePage, HasDraft, DraftPage,
              MlaPage
<1>1. CASE BuildGroups
  BY <1>1, <1>f DEF BuildGroups, Capacity, Configured, Fits
<1>2. CASE CheckMemory
  <2>1. Fits => HasLayout
    BY <1>0, <1>2, FitFacts DEF CheckMemory, Capacity
  <2>2. draftBlock' = draftBlock /\ pc # "groups"
    BY <1>2 DEF CheckMemory
  <2>3. pc' \in {"generic", "refused", "config"} /\ (HasLayout => pc' # "generic")
    BY <1>2 DEF CheckMemory
  <2> QED
    BY <2>1, <2>2, <2>3, <1>f DEF Capacity, Configured
<1>3. CASE EmitConfig
  <2>1. numBlocks' = (geo.available \div PerBlock)' /\ draftBlock' = draftBlock
    BY <1>0, <1>3, <1>p DEF EmitConfig
  <2>2. pc = "config" /\ pc' = "bind"
    BY <1>3 DEF EmitConfig
  <2> QED
    BY <2>1, <2>2, <1>f DEF Capacity, Configured
<1>4. CASE Bind
  <2>1. Fits => draftBlock % geo.kernel = 0
    BY <1>0, <1>4, FitFacts DEF Bind, Capacity
  <2>2. pc = "bind" /\ draftBlock' = draftBlock /\ numBlocks' = numBlocks
    BY <1>4 DEF Bind
  <2>3. pc' \in {"failed", "serve"} /\ (draftBlock % geo.kernel = 0 => pc' = "serve")
    BY <1>4 DEF Bind
  <2>4. numBlocks' = (geo.available \div PerBlock)'
    BY <1>0, <1>p, <2>2 DEF Capacity, Configured
  <2> QED
    BY <2>1, <2>2, <2>3, <2>4, <1>f DEF Capacity
<1>5. CASE UNCHANGED <<geo, pc, draftBlock, numBlocks>>
  <2>1. PerBlock' = PerBlock
    BY <1>p, <1>5
  <2> QED
    BY <1>5, <1>f, <2>1 DEF Capacity, Configured
<1> QED
  BY <1>1, <1>2, <1>3, <1>4, <1>5 DEF Next, vars, Take, Write, Release

\* A drafter that fits boots, and leaves the pool the capacity of the model without it.
THEOREM ExactFitAlwaysFree == Spec => []ExactFitIsFree
<1>1. Init => Capacity
  BY DEF Init, Capacity, Configured
<1>2. IInv /\ Capacity => ExactFitIsFree
  <2> SUFFICES ASSUME IInv, Capacity, Fits
               PROVE  /\ pc \notin {"generic", "failed"}
                      /\ Configured => numBlocks = geo.available \div BaseBytes
    BY DEF ExactFitIsFree, Fits
  <2>1. geo \in Geometries /\ draftBlock \in Nat \ {0}
    BY DEF IInv, TypeOK
  <2>2. ASSUME Configured PROVE PerBlock = BaseBytes
    <3>1. DraftPage = MlaPage /\ HasDraft
      BY <2>1, <2>2, FitFacts DEF Capacity, Configured, Fits
    <3>2. ChargedDrafts = 0
      BY <3>1 DEF ChargedDrafts, Shared, SamePage
    <3>3. DraftPage \in Nat /\ BaseBytes \in Nat
      BY <2>1, Sizes
    <3> QED
      BY <3>2, <3>3 DEF PerBlock
  <2> QED
    BY <2>2 DEF Capacity
<1> QED
  BY <1>1, <1>2, CapacityStep, Invariance, PTL DEF Spec

-----------------------------------------------------------------------------
(* Sums over the tensors.                                                  *)

\* A quotient, times the divisor, is within one divisor of the number.
LEMMA QuotientBounds ==
  ASSUME NEW a \in Nat, NEW n \in Nat \ {0}
  PROVE  (a \div n) * n <= a /\ a < (a \div n + 1) * n
<1> DEFINE q == a \div n  r == a % n
<1>1. a = q * n + r /\ r < n /\ r \in Nat /\ q \in Nat
  BY SMT
<1>2. q * n \in Nat
  BY <1>1, ProductNat
<1> HIDE DEF q, r
<1>3. (q + 1) * n = q * n + n
  BY <1>1
<1> QED
  BY <1>1, <1>2, <1>3 DEF q

\* Every set of naturals that is not empty has a least element.
LEMMA LeastNatural ==
  ASSUME NEW T \in SUBSET Nat, T # {}
  PROVE  \E n \in T : \A m \in T : n <= m
<1> DEFINE Less == {ss \in Nat \X Nat : ss[1] < ss[2]}
<1>1. IsWellFoundedOn(Less, Nat)
  BY NatLessThanWellFounded DEF OpToRel
<1>2. \A m, n \in Nat : <<m, n>> \in Less <=> m < n
  OBVIOUS
<1> HIDE DEF Less
<1>3. PICK n \in T : \A m \in T : ~ (<<m, n>> \in Less)
  BY <1>1, WFMin
<1>4. \A m \in T : m \in Nat /\ ~(m < n)
  BY <1>2, <1>3
<1> QED
  BY <1>4

\* A set of naturals that holds 0 and the successor of each of its elements holds all.
LEMMA Induction ==
  ASSUME NEW T \in SUBSET Nat, 0 \in T, \A n \in T : n + 1 \in T
  PROVE  T = Nat
<1> SUFFICES ASSUME Nat \ T # {} PROVE FALSE
  OBVIOUS
<1>1. PICK n \in Nat \ T : \A m \in Nat \ T : n <= m
  BY LeastNatural
<1>2. n # 0 /\ n - 1 \in Nat /\ n - 1 < n
  BY <1>1
<1> QED
  BY <1>1, <1>2

First(s) == CHOOSE x \in s : TRUE

\* What the sum of the sizes of every set in D is, given it of those in E.
SumsOver(D, h) ==
  [s \in D |-> IF s = {} THEN 0 ELSE First(s).size + h[s \ {First(s)}]]

LEMMA FirstOf == ASSUME NEW s, s # {} PROVE First(s) \in s
  BY DEF First

\* The recursion over the subsets of a finite set has a solution.
LEMMA SumsExist ==
  ASSUME NEW S, IsFiniteSet(S)
  PROVE  \E h : h = SumsOver(SUBSET S, h)
<1> DEFINE Upto(n) == {s \in SUBSET S : Cardinality(s) <= n}
           T == {n \in Nat : \E h : h = SumsOver(Upto(n), h)}
<1>f. \A s \in SUBSET S : IsFiniteSet(s) /\ Cardinality(s) \in Nat
                          /\ Cardinality(s) <= Cardinality(S)
  BY FS_Subset, FS_CardinalityType
<1>e. \A s \in SUBSET S : Cardinality(s) = 0 <=> s = {}
  BY <1>f, FS_EmptySet
<1>r. \A s \in SUBSET S : s # {} =>
        /\ s \ {First(s)} \in SUBSET S
        /\ Cardinality(s \ {First(s)}) = Cardinality(s) - 1
  BY <1>f, FirstOf, FS_RemoveElement
<1>1. 0 \in T
  <2> DEFINE h == [s \in Upto(0) |-> 0]
  <2>1. \A s \in Upto(0) : s = {}
    BY <1>f, <1>e
  <2>2. h = SumsOver(Upto(0), h)
    BY <2>1 DEF SumsOver
  <2> QED
    BY <2>2
<1>2. ASSUME NEW n \in T PROVE n + 1 \in T
  <2>0. n \in Nat /\ n + 1 \in Nat
    OBVIOUS
  <2>1. PICK h : h = SumsOver(Upto(n), h)
    OBVIOUS
  <2> DEFINE U == Upto(n)  V == Upto(n + 1)
             k == SumsOver(V, h)
  <2>2. \A s \in V : s # {} => s \ {First(s)} \in U
    BY <2>0, <1>f, <1>r
  <2>3. U \subseteq V
    BY <2>0, <1>f
  <2> HIDE DEF U, V, Upto
  <2>4. \A s \in U : k[s] = h[s]
    <3>1. \A s \in V : k[s] = IF s = {} THEN 0 ELSE First(s).size + h[s \ {First(s)}]
      BY DEF SumsOver
    <3>2. h = SumsOver(U, h)
      BY <2>1 DEF U
    <3>3. \A s \in U : h[s] = IF s = {} THEN 0 ELSE First(s).size + h[s \ {First(s)}]
      <4> DEFINE g == SumsOver(U, h)
      <4>1. \A s \in U : g[s] = IF s = {} THEN 0 ELSE First(s).size + h[s \ {First(s)}]
        BY DEF SumsOver
      <4> HIDE DEF g
      <4>2. g = h
        BY <3>2 DEF g
      <4> QED
        BY <4>1, <4>2
    <3> QED
      BY <2>3, <3>1, <3>3
  <2>5. k = SumsOver(V, k)
    <3>1. \A s \in V : s # {} => k[s \ {First(s)}] = h[s \ {First(s)}]
      BY <2>2, <2>4
    <3> HIDE DEF k
    <3>2. SumsOver(V, h) = SumsOver(V, k)
      BY <3>1 DEF SumsOver
    <3> QED
      BY <3>2 DEF k
  <2> QED
    BY <2>0, <2>5 DEF V
<1>3. T = Nat
  <2> HIDE DEF T
  <2>1. T \in SUBSET Nat
    BY DEF T
  <2> QED
    BY <1>1, <1>2, <2>1, Induction
<1>4. Cardinality(S) \in T
  BY <1>3, FS_CardinalityType
<1>5. Upto(Cardinality(S)) = SUBSET S
  BY <1>f
<1> QED
  BY <1>4, <1>5

\* The sum of the library, unfolded: some solution of the recursion, at the whole set.
LEMMA SumUnfolds ==
  ASSUME NEW S, IsFiniteSet(S)
  PROVE  \E h : /\ h = SumsOver(SUBSET S, h)
                /\ MapThenSumSet(LAMBDA t : t.size, S) = h[S]
<1> DEFINE h == CHOOSE h : h = SumsOver(SUBSET S, h)
<1>1. h = SumsOver(SUBSET S, h)
  BY SumsExist
<1>2. MapThenSumSet(LAMBDA t : t.size, S) = h[S]
  BY DEF MapThenSumSet, MapThenFoldSet, SumsOver, First
<1> QED
  BY <1>1, <1>2

\* Sizes a, b and c of at most so many elements each sum to at most so much.
LEMMA SumBound ==
  ASSUME NEW S, IsFiniteSet(S), NEW A, NEW B, NEW C, S \subseteq A \cup B \cup C,
         NEW a \in Nat, NEW b \in Nat, NEW c \in Nat,
         \A t \in A : t.size = a, \A t \in B : t.size = b, \A t \in C : t.size = c
  PROVE  /\ MapThenSumSet(LAMBDA t : t.size, S) \in Nat
         /\ MapThenSumSet(LAMBDA t : t.size, S)
              <= a * Cardinality(S \cap A) + b * Cardinality(S \cap B)
                 + c * Cardinality(S \cap C)
<1>1. PICK h : /\ h = SumsOver(SUBSET S, h)
               /\ MapThenSumSet(LAMBDA t : t.size, S) = h[S]
  BY SumUnfolds
<1>2. \A s \in SUBSET S :
        h[s] = IF s = {} THEN 0 ELSE First(s).size + h[s \ {First(s)}]
  <2> DEFINE g == SumsOver(SUBSET S, h)
  <2>1. \A s \in SUBSET S :
          g[s] = IF s = {} THEN 0 ELSE First(s).size + h[s \ {First(s)}]
    BY DEF SumsOver
  <2> HIDE DEF g
  <2>2. g = h
    BY <1>1 DEF g
  <2> QED
    BY <2>1, <2>2
<1> DEFINE N(s, X) == Cardinality(s \cap X)
           Bound(s) == a * N(s, A) + b * N(s, B) + c * N(s, C)
           T == {n \in Nat : \A s \in SUBSET S :
                   Cardinality(s) = n => h[s] \in Nat /\ h[s] <= Bound(s)}
<1>f. \A s \in SUBSET S : IsFiniteSet(s) /\ Cardinality(s) \in Nat
  BY FS_Subset, FS_CardinalityType
<1>n. \A s \in SUBSET S : N(s, A) \in Nat /\ N(s, B) \in Nat /\ N(s, C) \in Nat
  BY <1>f, FS_Intersection, FS_CardinalityType
<1>b. \A s \in SUBSET S : Bound(s) \in Nat
  <2> SUFFICES ASSUME NEW s \in SUBSET S PROVE Bound(s) \in Nat
    OBVIOUS
  <2>1. a * N(s, A) \in Nat /\ b * N(s, B) \in Nat /\ c * N(s, C) \in Nat
    BY <1>n, ProductNat
  <2> HIDE DEF N
  <2> QED
    BY <2>1
<1>d. ASSUME NEW s \in SUBSET S, s # {}, NEW X
      PROVE  N(s \ {First(s)}, X) = IF First(s) \in X THEN N(s, X) - 1 ELSE N(s, X)
  <2>1. (s \ {First(s)}) \cap X = (s \cap X) \ {First(s)} /\ First(s) \in s
    BY <1>d, FirstOf
  <2> DEFINE x == First(s)  U == s \cap X
  <2>2. IsFiniteSet(U)
    BY <1>f, <1>d, FS_Intersection
  <2> HIDE DEF U, x
  <2>3. Cardinality(U \ {x}) = IF x \in U THEN Cardinality(U) - 1 ELSE Cardinality(U)
    BY <2>2, FS_RemoveElement
  <2> QED
    BY <2>1, <2>3 DEF U, x
<1>3. 0 \in T
  <2> SUFFICES ASSUME NEW s \in SUBSET S, Cardinality(s) = 0
               PROVE  h[s] \in Nat /\ h[s] <= Bound(s)
    OBVIOUS
  <2>1. s = {}
    BY <1>f, FS_EmptySet
  <2>2. h[s] = 0 /\ Bound(s) \in Nat
    BY <1>2, <1>b, <2>1
  <2> HIDE DEF Bound
  <2> QED
    BY <2>2
<1>4. ASSUME NEW n \in T PROVE n + 1 \in T
  <2> SUFFICES ASSUME NEW s \in SUBSET S, Cardinality(s) = n + 1
               PROVE  h[s] \in Nat /\ h[s] <= Bound(s)
    OBVIOUS
  <2> DEFINE x == First(s)  r == s \ {x}
  <2>1. s # {} /\ x \in s /\ r \in SUBSET S
    BY <1>f, FS_EmptySet, FirstOf
  <2>2. Cardinality(r) = n
    BY <1>f, <2>1, FS_RemoveElement
  <2>3. h[r] \in Nat /\ h[r] <= Bound(r) /\ Bound(r) \in Nat /\ Bound(s) \in Nat
    BY <2>1, <2>2, <1>b
  <2>4. h[s] = x.size + h[r]
    BY <1>2, <2>1
  <2>5. /\ N(r, A) = IF x \in A THEN N(s, A) - 1 ELSE N(s, A)
        /\ N(r, B) = IF x \in B THEN N(s, B) - 1 ELSE N(s, B)
        /\ N(r, C) = IF x \in C THEN N(s, C) - 1 ELSE N(s, C)
    BY <1>d, <2>1
  <2>6. /\ N(s, A) \in Nat /\ N(s, B) \in Nat /\ N(s, C) \in Nat
        /\ N(r, A) \in Nat /\ N(r, B) \in Nat /\ N(r, C) \in Nat
    BY <1>n, <2>1
  <2>7. x \in A \/ x \in B \/ x \in C
    BY <2>1
  <2>8. x.size \in Nat
    BY <2>7
  <2> DEFINE p == N(s, A)  q == N(s, B)  m == N(s, C)
             u == N(r, A)  v == N(r, B)  w == N(r, C)
  <2>9. /\ x \in A => u = p - 1 /\ x.size = a
        /\ x \in B => v = q - 1 /\ x.size = b
        /\ x \in C => w = m - 1 /\ x.size = c
        /\ u <= p /\ v <= q /\ w <= m
    BY <2>5, <2>6
  <2> HIDE DEF N, x, r
  <2>10. p \in Nat /\ q \in Nat /\ m \in Nat /\ u \in Nat /\ v \in Nat /\ w \in Nat
    BY <2>6
  <2> HIDE DEF p, q, m, u, v, w
  <2>11. /\ u * a <= p * a /\ v * b <= q * b /\ w * c <= m * c
    BY <2>9, <2>10, ProductMonotone
  <2>12. /\ u * a = a * u /\ p * a = a * p /\ v * b = b * v /\ q * b = b * q
         /\ w * c = c * w /\ m * c = c * m
    BY <2>10
  <2>13. /\ a * u \in Nat /\ a * p \in Nat /\ b * v \in Nat /\ b * q \in Nat
         /\ c * w \in Nat /\ c * m \in Nat
    BY <2>10, ProductNat
  <2>14. /\ u = p - 1 => a * u = a * p - a
         /\ v = q - 1 => b * v = b * q - b
         /\ w = m - 1 => c * w = c * m - c
    BY <2>10
  <2>15. x.size + (a * u + b * v + c * w) <= a * p + b * q + c * m
    BY <2>7, <2>8, <2>9, <2>11, <2>12, <2>13, <2>14
  <2> QED
    BY <2>3, <2>4, <2>8, <2>15 DEF p, q, m, u, v, w
<1>5. T = Nat
  <2> HIDE DEF T
  <2>1. T \in SUBSET Nat
    BY DEF T
  <2> QED
    BY <1>3, <1>4, <2>1, Induction
<1> QED
  BY <1>1, <1>5, <1>f

\* The image of a set of numbers has at most as many elements.
LEMMA ImageBound ==
  ASSUME NEW m \in Nat, NEW D \in SUBSET (1 .. m), NEW A, NEW f,
         A = {f[i] : i \in D}, DOMAIN f = D
  PROVE  IsFiniteSet(A) /\ Cardinality(A) \in Nat /\ Cardinality(A) <= m
<1>1. IsFiniteSet(1 .. m) /\ Cardinality(1 .. m) = m
  BY FS_Interval
<1>2. IsFiniteSet(D) /\ Cardinality(D) <= m /\ Cardinality(D) \in Nat
  BY <1>1, FS_Subset, FS_CardinalityType
<1> DEFINE g == [i \in D |-> f[i]]
<1>3. g \in Surjection(D, A)
  BY DEF Surjection
<1>4. IsFiniteSet(A) /\ Cardinality(A) <= Cardinality(D)
  <2> HIDE DEF g
  <2> QED
    BY <1>2, <1>3, FS_Surjection
<1> QED
  BY <1>2, <1>4, FS_CardinalityType

\* The tensors of a pool of n blocks take n times the bytes of a block, at most.
LEMMA TensorBytes ==
  ASSUME geo \in Geometries, draftBlock \in Nat \ {0}, NEW n \in Nat
  PROVE  /\ MapThenSumSet(LAMBDA t : t.size, Tensors(n)) \in Nat
         /\ MapThenSumSet(LAMBDA t : t.size, Tensors(n)) <= n * PerBlock
         /\ n * PerBlock \in Nat
<1>0. /\ geo \in Geometry /\ MlaPage \in Nat /\ DraftPage \in Nat /\ BaseBytes \in Nat
      /\ geo.idxPage \in Nat /\ geo.mlaLayers \in Nat /\ geo.idxLayers \in Nat
      /\ geo.draftLayers \in Nat /\ PerBlock \in Nat
  BY Sizes DEF Geometry
<1> DEFINE S == Tensors(n)
           E == {d \in 1 .. geo.draftLayers : ~Shared}
           A == {MlaTensor(n, i) : i \in 1 .. geo.mlaLayers}
           B == {IdxTensor(n, i) : i \in 1 .. geo.idxLayers}
           C == {DraftTensor(n, i) : i \in E}
           a == n * MlaPage  b == n * geo.idxPage  c == n * DraftPage
<1>1. S = A \cup B \cup C
  BY DEF Tensors, MlaTensor, IdxTensor, DraftTensor
<1>2. IsFiniteSet(A) /\ Cardinality(A) \in Nat /\ Cardinality(A) <= geo.mlaLayers
  <2> DEFINE f == [i \in 1 .. geo.mlaLayers |-> MlaTensor(n, i)]
  <2>1. A = {f[i] : i \in 1 .. geo.mlaLayers} /\ DOMAIN f = 1 .. geo.mlaLayers
    OBVIOUS
  <2> HIDE DEF A, f
  <2> QED
    BY <1>0, <2>1, ImageBound
<1>3. IsFiniteSet(B) /\ Cardinality(B) \in Nat /\ Cardinality(B) <= geo.idxLayers
  <2> DEFINE f == [i \in 1 .. geo.idxLayers |-> IdxTensor(n, i)]
  <2>1. B = {f[i] : i \in 1 .. geo.idxLayers} /\ DOMAIN f = 1 .. geo.idxLayers
    OBVIOUS
  <2> HIDE DEF B, f
  <2> QED
    BY <1>0, <2>1, ImageBound
<1>4. IsFiniteSet(C) /\ Cardinality(C) \in Nat /\ Cardinality(C) <= ChargedDrafts
  <2> DEFINE f == [i \in E |-> DraftTensor(n, i)]
  <2>1. C = {f[i] : i \in E} /\ DOMAIN f = E
    OBVIOUS
  <2>2. E \in SUBSET (1 .. ChargedDrafts) /\ ChargedDrafts \in Nat
    BY <1>0 DEF ChargedDrafts
  <2> HIDE DEF C, f, E
  <2> QED
    BY <2>1, <2>2, ImageBound
<1>5. /\ \A t \in A : t.size = a
      /\ \A t \in B : t.size = b
      /\ \A t \in C : t.size = c
  BY DEF MlaTensor, IdxTensor, DraftTensor
<1>6. a \in Nat /\ b \in Nat /\ c \in Nat /\ ChargedDrafts \in Nat
  BY <1>0, ProductNat DEF ChargedDrafts
<1> HIDE DEF S, A, B, C
<1>7. IsFiniteSet(S)
  <2>1. IsFiniteSet(A \cup B)
    BY <1>2, <1>3, FS_Union
  <2> QED
    BY <1>1, <1>4, <2>1, FS_Union
<1>8. S \cap A = A /\ S \cap B = B /\ S \cap C = C
  BY <1>1
<1> HIDE DEF a, b, c
<1>9. /\ MapThenSumSet(LAMBDA t : t.size, S) \in Nat
      /\ MapThenSumSet(LAMBDA t : t.size, S)
           <= a * Cardinality(A) + b * Cardinality(B) + c * Cardinality(C)
  <2>1. S \subseteq A \cup B \cup C
    BY <1>1
  <2> QED
    BY <1>5, <1>6, <1>7, <1>8, <2>1, SumBound
<1>10. /\ Cardinality(A) * a <= geo.mlaLayers * a
       /\ Cardinality(B) * b <= geo.idxLayers * b
       /\ Cardinality(C) * c <= ChargedDrafts * c
  BY <1>0, <1>2, <1>3, <1>4, <1>6, ProductMonotone
<1>11. /\ a * Cardinality(A) = Cardinality(A) * a /\ a * Cardinality(A) \in Nat
       /\ b * Cardinality(B) = Cardinality(B) * b /\ b * Cardinality(B) \in Nat
       /\ c * Cardinality(C) = Cardinality(C) * c /\ c * Cardinality(C) \in Nat
  BY <1>2, <1>3, <1>4, <1>6, ProductNat
<1>12. /\ geo.mlaLayers * a \in Nat /\ geo.idxLayers * b \in Nat
       /\ ChargedDrafts * c \in Nat
  BY <1>0, <1>6, ProductNat
<1>13. n * PerBlock = geo.mlaLayers * a + geo.idxLayers * b + ChargedDrafts * c
  <2>1. \A p, q, r, x, y, z \in Nat :
          n * ((p * x + q * y) + r * z) = p * (n * x) + q * (n * y) + r * (n * z)
    <3> SUFFICES ASSUME NEW p \in Nat, NEW q \in Nat, NEW r \in Nat,
                        NEW x \in Nat, NEW y \in Nat, NEW z \in Nat
                 PROVE  n * ((p * x + q * y) + r * z)
                          = p * (n * x) + q * (n * y) + r * (n * z)
      OBVIOUS
    <3> QED
      BY SMT
  <2> QED
    BY <1>0, <1>6, <2>1 DEF PerBlock, BaseBytes, a, b, c
<1>14. n * PerBlock \in Nat
  BY <1>0, ProductNat
<1> QED
  BY <1>9, <1>10, <1>11, <1>12, <1>13, <1>14 DEF S

-----------------------------------------------------------------------------
(* The three accounts.                                                     *)

\* The three consumers charge a block the same bytes.
LEMMA OneCharge ==
  ASSUME geo \in Geometries, draftBlock \in Nat \ {0}
  PROVE  PoolBytesPerBlock = PerBlock /\ NeedPerBlock = PerBlock
<1>1. /\ geo \in Geometry /\ BaseBytes \in Nat /\ DraftPage \in Nat /\ MlaPage \in Nat
      /\ geo.draftLayers \in Nat
  BY Sizes DEF Geometry
<1>2. CASE Shared
  <2>1. PerBlock = BaseBytes
    BY <1>1, <1>2 DEF PerBlock, ChargedDrafts
  <2> QED
    BY <1>1, <1>2, <2>1 DEF PoolBytesPerBlock, NeedPerBlock, Shared, SamePage
<1>3. CASE ~Shared /\ HasDraft
  BY <1>1, <1>3 DEF PerBlock, ChargedDrafts, PoolBytesPerBlock, NeedPerBlock, Shared,
                    SamePage
<1>4. CASE ~HasDraft
  <2>1. geo.draftLayers = 0 /\ ~Shared
    BY <1>1, <1>4 DEF HasDraft, Shared
  <2>2. PerBlock = BaseBytes
    BY <1>1, <2>1 DEF PerBlock, ChargedDrafts
  <2> QED
    BY <1>1, <1>4, <2>2 DEF PoolBytesPerBlock, NeedPerBlock
<1> QED
  BY <1>2, <1>3, <1>4

LEMMA BlocksNeededNat ==
  ASSUME geo \in Geometries, draftBlock \in Nat \ {0}
  PROVE  BlocksNeeded \in Nat
<1>1. geo \in Geometry /\ NumMambaGroups \in Nat
  BY Sizes
<1>2. \A m \in Nat, n \in Nat \ {0} : CeilDiv(m, n) \in Nat
  BY SMT DEF CeilDiv
<1>3. CeilDiv(MaxLen, geo.mlaBlock) \in Nat /\ CeilDiv(Window, draftBlock) \in Nat
  BY <1>1, <1>2, LengthAssumption DEF Geometry
<1> HIDE DEF CeilDiv
<1> QED
  BY <1>1, <1>3 DEF BlocksNeeded

\* What is configured passed the memory check.
Admitted ==
  pc \in {"config", "bind", "serve"} => BlocksNeeded * NeedPerBlock <= geo.available

LEMMA AdmittedStep ==
  ASSUME IInv, Admitted, [Next]_vars PROVE Admitted'
<1>0. geo' = geo
  BY DEF Next, vars, BuildGroups, CheckMemory, EmitConfig, Bind, Take, Write, Release
<1>1. draftBlock' = draftBlock =>
        BlocksNeeded' = BlocksNeeded /\ NeedPerBlock' = NeedPerBlock
  BY <1>0 DEF BlocksNeeded, NeedPerBlock, BaseBytes, HasDraft, DraftPage, MlaPage,
              NumMambaGroups
<1>2. CASE BuildGroups
  BY <1>2 DEF BuildGroups, Admitted
<1>3. CASE CheckMemory
  <2>1. draftBlock' = draftBlock
    BY <1>3 DEF CheckMemory
  <2>2. BlocksNeeded \in Nat /\ NeedPerBlock \in Nat /\ geo.available \in Nat
    <3>1. geo \in Geometries /\ draftBlock \in Nat \ {0}
      BY DEF IInv, TypeOK
    <3>2. PerBlock \in Nat /\ geo \in Geometry
      BY <3>1, Sizes
    <3> QED
      BY <3>1, <3>2, OneCharge, BlocksNeededNat DEF Geometry
  <2>3. BlocksNeeded * NeedPerBlock \in Nat
    BY <2>2, ProductNat
  <2>4. pc' = "config" => ~(BlocksNeeded * NeedPerBlock > geo.available)
    BY <1>3 DEF CheckMemory
  <2>5. pc' \in {"generic", "refused", "config"}
    BY <1>3 DEF CheckMemory
  <2> QED
    BY <1>0, <1>1, <2>1, <2>2, <2>3, <2>4, <2>5 DEF Admitted
<1>4. CASE EmitConfig \/ Bind \/ UNCHANGED <<pc, draftBlock>>
  <2>1. /\ draftBlock' = draftBlock
        /\ pc' \in {"config", "bind", "serve"} => pc \in {"config", "bind", "serve"}
    BY <1>4 DEF EmitConfig, Bind
  <2> QED
    BY <1>0, <1>1, <2>1 DEF Admitted
<1> QED
  BY <1>2, <1>3, <1>4 DEF Next, vars, Take, Write, Release

\* For every geometry: the reported capacity is that of the pool, its tensors fit the
\* memory, and a model that passed the memory check has the blocks it was checked for.
THEOREM AccountsAlwaysAgree == Spec => []AccountsAgree
<1>1. Init => Capacity /\ Admitted
  BY DEF Init, Capacity, Configured, Admitted
<1>2. IInv /\ Capacity /\ Admitted => AccountsAgree
  <2> SUFFICES ASSUME IInv, Capacity, Admitted, Configured
               PROVE  /\ numBlocks = geo.available \div PoolBytesPerBlock
                      /\ MapThenSumSet(LAMBDA t : t.size, tensors) <= geo.available
                      /\ numBlocks >= BlocksNeeded
    BY DEF AccountsAgree
  <2>1. /\ geo \in Geometries /\ draftBlock \in Nat \ {0} /\ numBlocks \in Nat
        /\ tensors = Tensors(numBlocks) /\ numBlocks = geo.available \div PerBlock
    BY DEF IInv, TypeOK, Settled, Capacity
  <2>2. PerBlock \in Nat \ {0} /\ geo.available \in Nat /\ BlocksNeeded \in Nat
    BY <2>1, Sizes, BlocksNeededNat DEF Geometry
  <2>3. PoolBytesPerBlock = PerBlock /\ NeedPerBlock = PerBlock
    BY <2>1, OneCharge
  <2>4. BlocksNeeded * PerBlock <= geo.available
    BY <2>3 DEF Admitted, Configured
  <2>5. /\ numBlocks * PerBlock <= geo.available
        /\ geo.available < (numBlocks + 1) * PerBlock
    BY <2>1, <2>2, QuotientBounds
  <2>6. MapThenSumSet(LAMBDA t : t.size, tensors) <= geo.available
    BY <2>1, <2>2, <2>5, TensorBytes
  <2>7. numBlocks >= BlocksNeeded
    <3> SUFFICES ASSUME numBlocks + 1 <= BlocksNeeded PROVE FALSE
      BY <2>1, <2>2
    <3>1. (numBlocks + 1) * PerBlock <= BlocksNeeded * PerBlock
      BY <2>1, <2>2, ProductMonotone
    <3>2. (numBlocks + 1) * PerBlock \in Nat /\ BlocksNeeded * PerBlock \in Nat
      BY <2>1, <2>2, ProductNat
    <3> QED
      BY <2>2, <2>4, <2>5, <3>1, <3>2
  <2> QED
    BY <2>1, <2>3, <2>6, <2>7
<1> QED
  BY <1>1, <1>2, CapacityStep, AdmittedStep, Invariance, PTL DEF Spec
=============================================================================
