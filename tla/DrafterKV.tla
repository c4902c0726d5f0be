----------------------------- MODULE DrafterKV -----------------------------
(***************************************************************************)
(* The KV-cache layout of GLM-5-Next with a DFlash2 drafter                *)
(* (patch_glm5_drafter_group.py): the grouping decides between an exact    *)
(* fit (drafter layer i shares the tensor of MLA layer i) and standalone   *)
(* tensors, and three consumers of the groups work the mode out again from *)
(* the page size: the memory check, the tensors, the bytes of a block.     *)
(* Then the runner binds the layers and requests hold blocks of the one    *)
(* pool, whose ids address all tensors.  Sizes are in bytes and tokens,    *)
(* scaled down; the pool and the specs are external (vLLM).                *)
(***************************************************************************)
EXTENDS Naturals, FiniteSetsExt

CONSTANTS
  Geometries,  \* the models and memories the engine may be booted with
  FitUnit,     \* 64: what the drafter's block must be divisible by to fit
  KernelSizes, \* the kernel block sizes the attention backends register
  MaxLen,      \* tokens of the longest request
  Window,      \* tokens of it the drafter may need at once
  MaxHeld      \* bound: blocks held at the same time

Geometry ==
  [mlaLayers : Nat \ {0}, idxLayers : Nat \ {0}, mambaLayers : Nat \ {0},
   draftLayers : Nat, tail : BOOLEAN,
   mlaBlock : Nat \ {0},   \* tokens of a block of an MLA layer
   mlaBytes : Nat \ {0},   \* bytes per token of an MLA layer
   idxPage : Nat \ {0},    \* bytes of a block of an indexer layer
   draftBlock : Nat \ {0}, \* tokens of a block of a drafter layer, before the fit
   draftBytes : Nat \ {0}, \* bytes per token of a drafter layer
   oneSpec : BOOLEAN,      \* the drafter's layers share one spec
   kernel : KernelSizes,   \* the size its attention backend registers
   available : Nat]        \* bytes for the cache

ASSUME GeometriesAssumption == Geometries \subseteq Geometry
ASSUME KernelAssumption ==
  /\ FitUnit \in Nat \ {0}
  /\ KernelSizes \subseteq Nat \ {0}
  /\ \A k \in KernelSizes : FitUnit % k = 0
ASSUME LengthAssumption == MaxLen \in Nat /\ Window \in Nat /\ MaxHeld \in Nat

VARIABLES
  geo,        \* the geometry of this boot
  pc,         \* the stage of the boot
  draftBlock, \* tokens of a drafter block, once the groups are built
  numBlocks,  \* blocks of the pool
  tensors,    \* the tensors: their size and the layers bound to them
  owner,      \* the group that holds each block
  written,    \* <<b, j>>: part j of block b was written since b was taken
  intact      \* those whose bytes nothing has overwritten

vars == <<geo, pc, draftBlock, numBlocks, tensors, owner, written, intact>>

-----------------------------------------------------------------------------
(* Layers and groups.                                                      *)

CeilDiv(m, n) == (m + n - 1) \div n

NumMambaGroups == CeilDiv(geo.mambaLayers, geo.mlaLayers)

Layers ==
  ({"mla"} \X (1 .. geo.mlaLayers)) \cup ({"idx"} \X (1 .. geo.idxLayers))
  \cup (IF geo.tail THEN {"tail"} \X (1 .. geo.idxLayers) ELSE {})
  \cup ({"mamba"} \X (1 .. geo.mambaLayers))
  \cup ({"draft"} \X (1 .. geo.draftLayers))

\* The Mamba layers are dealt out to their groups in turn.
GroupOf(l) ==
  IF l[1] \in {"mla", "idx"} THEN <<"attn", 0>>
  ELSE IF l[1] = "mamba" THEN <<"mamba", (l[2] - 1) % NumMambaGroups>>
  ELSE <<l[1], 0>>

MambaSlot(l) == ((l[2] - 1) \div NumMambaGroups) + 1

Groups == {GroupOf(l) : l \in Layers}
Nobody == <<"nobody", 0>>

HasDraft == geo.draftLayers > 0
MlaPage == geo.mlaBlock * geo.mlaBytes
DraftPage == draftBlock * geo.draftBytes

-----------------------------------------------------------------------------
(* The grouping.                                                           *)

FitBlock ==
  IF MlaPage % geo.draftBytes = 0 THEN MlaPage \div geo.draftBytes ELSE 0

\* Every kernel size a backend may register divides the block.
Splits(block) == block % FitUnit = 0

\* The block's page is the MLA page.
Fills(block) == block # 0

ExactFit ==
  /\ Fills(FitBlock)
  /\ Splits(FitBlock)
  /\ FitBlock % geo.mlaBlock = 0 \/ geo.mlaBlock % FitBlock = 0
  /\ geo.draftLayers <= geo.mlaLayers

\* _get_kv_cache_groups_glm5_next: the drafter's layers, which must share one
\* spec, become one more group, its block rescaled if it fits.
BuildGroups ==
  /\ pc = "groups"
  /\ IF HasDraft /\ ~geo.oneSpec
       THEN pc' = "failed" /\ UNCHANGED draftBlock
       ELSE /\ pc' = "check"
            /\ draftBlock' = IF HasDraft /\ ExactFit THEN FitBlock ELSE draftBlock
  /\ UNCHANGED <<geo, numBlocks, tensors, owner, written, intact>>

\* Mutant: a page smaller than the MLA page also rides on it.
PageNotLarger(page) == page <= MlaPage

\* Pages of one size share a tensor.
SamePage(page) == page = MlaPage

\* _glm5_next_tensor_layout finds the groups of this layout.
HasLayout ==
  ~(HasDraft /\ DraftPage = MlaPage /\ geo.draftLayers > geo.mlaLayers)

-----------------------------------------------------------------------------
(* The consumers of the groups.                                            *)

BaseBytes == geo.mlaLayers * MlaPage + geo.idxLayers * geo.idxPage

\* _pool_bytes_per_block, which the engine reports its capacity from.
PoolBytesPerBlock ==
  BaseBytes + IF HasDraft /\ DraftPage # MlaPage
                THEN geo.draftLayers * DraftPage ELSE 0

\* Blocks the longest request holds of each group, and all their bytes.
BlocksNeeded ==
  CeilDiv(MaxLen, geo.mlaBlock) + NumMambaGroups
  + (IF geo.tail THEN 1 ELSE 0)
  + (IF HasDraft THEN CeilDiv(Window, draftBlock) + 1 ELSE 0)

\* Mutant: the drafter's own tensors cost nothing.
NeedPerBlockBase == BaseBytes

NeedPerBlock ==
  BaseBytes + IF HasDraft /\ DraftPage # MlaPage
                THEN geo.draftLayers * DraftPage ELSE 0

\* _max_memory_usage_bytes_from_groups, for the check of the available memory.
CheckMemory ==
  /\ pc = "check"
  /\ pc' = IF ~HasLayout THEN "generic"
           ELSE IF BlocksNeeded * NeedPerBlock > geo.available THEN "refused"
           ELSE "config"
  /\ UNCHANGED <<geo, draftBlock, numBlocks, tensors, owner, written, intact>>

Shared == HasDraft /\ SamePage(DraftPage)

\* The drafter layers with tensors of their own.
ChargedDrafts == IF Shared THEN 0 ELSE geo.draftLayers

PerBlock == BaseBytes + ChargedDrafts * DraftPage

\* Mutant: the first drafter layer has no slot.
RidersShifted(i) == {<<"draft", i + 1>>}

\* Drafter layer i rides MLA tensor i.
Riders(i) == {<<"draft", i>>}

Tensors(n) ==
  {[size |-> n * MlaPage,
    sharedBy |-> {<<"mla", i>>}
                 \cup {l \in Layers : l[1] = "mamba" /\ MambaSlot(l) = i}
                 \cup (IF Shared THEN Riders(i) \cap Layers ELSE {})]
     : i \in 1 .. geo.mlaLayers}
  \cup {[size |-> n * geo.idxPage,
         sharedBy |-> {<<"idx", i>>, <<"tail", i>>} \cap Layers]
          : i \in 1 .. geo.idxLayers}
  \cup {[size |-> n * DraftPage, sharedBy |-> {<<"draft", i>>}]
          : i \in {d \in 1 .. geo.draftLayers : ~Shared}}

\* get_kv_cache_config_from_groups.
EmitConfig ==
  /\ pc = "config"
  /\ pc' = "bind"
  /\ numBlocks' = geo.available \div PerBlock
  /\ tensors' = Tensors(numBlocks')
  /\ owner' = [b \in 0 .. numBlocks' - 1 |-> Nobody]
  /\ UNCHANGED <<geo, draftBlock, written, intact>>

-----------------------------------------------------------------------------
(* The runner and the pool.                                                *)

\* The runner splits the drafter's blocks into kernel blocks, if it can.
Bind ==
  /\ pc = "bind"
  /\ pc' = IF HasDraft /\ draftBlock % geo.kernel # 0 THEN "failed" ELSE "serve"
  /\ UNCHANGED <<geo, draftBlock, numBlocks, tensors, owner, written, intact>>

\* The parts a block of layer l is addressed in.
Parts(l) == IF l[1] = "draft" THEN draftBlock \div geo.kernel ELSE 1

\* Bytes from one part to the next.
PartStride(l) ==
  IF l[1] = "draft" THEN geo.kernel * geo.draftBytes
  ELSE IF l[1] \in {"idx", "tail"} THEN geo.idxPage
  ELSE MlaPage

\* Part j of block b of layer l starts here; the view is contiguous.
Start(l, b, j) == (b * Parts(l) + j) * PartStride(l)

PartsOf(g) == 0 .. Parts(<<g[1], 1>>) - 1

\* Writing part p of group g touches bytes of part q of group h: in some
\* tensor, a layer of each group has its part there.
Clobbers(g, p, h, q) ==
  \E t \in tensors : \E l, k \in t.sharedBy :
    /\ GroupOf(l) = g /\ GroupOf(k) = h
    /\ Start(l, p[1], p[2]) < Start(k, q[1], q[2]) + PartStride(k)
    /\ Start(k, q[1], q[2]) < Start(l, p[1], p[2]) + PartStride(l)

Held == {b \in DOMAIN owner : owner[b] # Nobody}

Take(b, g) ==
  /\ pc = "serve"
  /\ owner[b] = Nobody
  /\ Cardinality(Held) < MaxHeld
  /\ owner' = [owner EXCEPT ![b] = g]
  /\ UNCHANGED <<geo, pc, draftBlock, numBlocks, tensors, written, intact>>

\* A kernel stores tokens in part j of block b, in every layer of its group.
Write(b, j) ==
  /\ pc = "serve"
  /\ owner[b] # Nobody
  /\ j \in PartsOf(owner[b])
  /\ written' = written \cup {<<b, j>>}
  /\ intact' = {q \in intact : ~Clobbers(owner[b], <<b, j>>, owner[q[1]], q)}
               \cup {<<b, j>>}
  /\ UNCHANGED <<geo, pc, draftBlock, numBlocks, tensors, owner>>

\* A block leaves the drafter's window, or its request ends.
Release(b) ==
  /\ pc = "serve"
  /\ owner[b] # Nobody
  /\ owner' = [owner EXCEPT ![b] = Nobody]
  /\ written' = {q \in written : q[1] # b}
  /\ intact' = {q \in intact : q[1] # b}
  /\ UNCHANGED <<geo, pc, draftBlock, numBlocks, tensors>>

Init ==
  /\ geo \in Geometries
  /\ pc = "groups"
  /\ draftBlock = geo.draftBlock
  /\ numBlocks = 0
  /\ tensors = {}
  /\ owner = <<>>
  /\ written = {}
  /\ intact = {}

Next ==
  \/ BuildGroups \/ CheckMemory \/ EmitConfig \/ Bind
  \/ \E b \in DOMAIN owner :
       \/ \E g \in Groups : Take(b, g)
       \/ \E j \in PartsOf(owner[b]) : Write(b, j)
       \/ Release(b)

Spec == Init /\ [][Next]_vars

-----------------------------------------------------------------------------
TypeOK ==
  /\ geo \in Geometries
  /\ pc \in {"groups", "check", "config", "bind", "serve",
             "failed", "generic", "refused"}
  /\ draftBlock \in Nat \ {0}
  /\ numBlocks \in Nat
  /\ \A t \in tensors : t.size \in Nat /\ t.sharedBy \subseteq Layers
  /\ owner \in [0 .. numBlocks - 1 -> Groups \cup {Nobody}]
  /\ intact \subseteq written
  /\ \A q \in written : q \in Held \X PartsOf(owner[q[1]])

Configured == pc \in {"bind", "serve"}

\* What was written in a held block stays there until the block is released:
\* groups that share a tensor keep to disjoint bytes under any split of the
\* drafter's blocks ("slot-sharing with mamba stays sound",
\* patch_glm5_drafter_group.py:44).
HeldDataIntact == written \subseteq intact

\* Every part a layer may address lies inside the tensor it is bound to (a
\* padded view once demanded more, patch_glm5_drafter_group.py:34-41).
ViewsFit ==
  pc = "serve" =>
    \A t \in tensors : \A l \in t.sharedBy :
      Start(l, numBlocks, 0) <= t.size

\* Every layer is bound to exactly one tensor, and no two layers of a group to
\* the same (sim_glm5_drafter.py:111-114).
EveryLayerBound ==
  Configured =>
    \A l \in Layers :
      /\ \E t \in tensors : l \in t.sharedBy
      /\ \A t, u \in tensors : l \in t.sharedBy \cap u.sharedBy => t = u
      /\ \A t \in tensors : \A k \in Layers \ {l} :
           {l, k} \subseteq t.sharedBy => GroupOf(l) # GroupOf(k)

\* The three accounts of a block's bytes agree: the reported capacity is that
\* of the pool, the tensors fit the memory, and what passed the memory check
\* has as many blocks as it needs (patch_glm5_drafter_group.py:60-61).
AccountsAgree ==
  Configured =>
    /\ numBlocks = geo.available \div PoolBytesPerBlock
    /\ MapThenSumSet(LAMBDA t : t.size, tensors) <= geo.available
    /\ numBlocks >= BlocksNeeded

\* An exact fit always has a layout the runner can bind, at the capacity of the
\* model without its drafter ("KV capacity stays at the base model's",
\* patch_glm5_drafter_group.py:30).
ExactFitIsFree ==
  HasDraft /\ geo.oneSpec /\ ExactFit =>
    /\ pc \notin {"generic", "failed"}
    /\ Configured => numBlocks = geo.available \div BaseBytes
=============================================================================
