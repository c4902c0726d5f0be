---------------------------- MODULE KpoolIndexer ----------------------------
(***************************************************************************)
(* The pooled sparse-attention indexer of one layer                        *)
(* (docker/sparse_attn_indexer_kpool_sm121.py).  KPool consecutive tokens  *)
(* of a request are compressed into one key of the index cache; a query    *)
(* scores the complete pools of its request, attends to the tokens of the  *)
(* best ones and to those of the pool still in progress.  The raw keys of  *)
(* that pool wait in a ring of KPool entries per request, the tail cache.  *)
(*                                                                         *)
(* One step of the model is one call of sparse_attn_indexer_kpool, on one  *)
(* batch of the scheduler: decodes first, each of up to `verify` tokens    *)
(* (one token and the drafts to verify), then prefill chunks.  Which       *)
(* drafts are accepted is decided after the call; a token carries in       *)
(* `good' what that decision will be.  A pool's key is the sequence of the *)
(* tokens it was compressed from.                                          *)
(*                                                                         *)
(* The scheduler, the metadata builder and the Triton kernels are outside  *)
(* the repository: their part is as the code's comments and calls say.     *)
(***************************************************************************)
EXTENDS Integers, Sequences, FiniteSets, Functions, SequencesExt

CONSTANTS
  NumSlots,   \* max_num_seqs: the requests a batch can hold
  KPool,      \* index_kpool
  TopK,       \* topk_tokens
  MaxVerify,  \* num_spec + 1, at most
  MaxBatched, \* max_num_batched_tokens
  MaxLen      \* bound: the tokens of a request

ASSUME KpoolAssumption ==
  /\ NumSlots \in Nat \ {0} /\ KPool \in Nat \ {0, 1} /\ TopK \in Nat
  /\ MaxVerify \in Nat \ {0} /\ MaxBatched \in Nat /\ MaxLen \in Nat \ {0}

Slot == 1 .. NumSlots
Pos == 0 .. MaxLen - 1
Offset == 0 .. KPool - 1
Pool == 0 .. MaxLen \div KPool - 1
Token == [slot : Slot \cup {0}, pos : Pos, good : BOOLEAN]

\* What a ring entry or a pool holds before its request wrote it: data of the
\* block's previous owner.
Stale == [slot |-> 0, pos |-> 0, good |-> FALSE]

VARIABLES
  verify,   \* decode_threshold: the tokens a decode may bring
  prompt,   \* the prompt length of each slot's request, 0 without one
  len,      \* its committed tokens
  ring,     \* tail_kv_cache
  pool,     \* kv_cache: the tokens each pool's key was compressed from
  overrun,  \* pools whose ring entries a rejected draft overwrote (history)
  buffer,   \* topk_indices_buffer: the rows the last call wrote
  grid      \* the rows of the decode logits of the last call

kpoolVars == <<verify, prompt, len, ring, pool, overrun, buffer, grid>>

KpoolInit ==
  /\ verify \in 1 .. MaxVerify
  /\ prompt = [s \in Slot |-> 0]
  /\ len = [s \in Slot |-> 0]
  /\ ring = [s \in Slot |-> [o \in Offset |-> Stale]]
  /\ pool = [s \in Slot |-> [j \in Pool |-> [o \in Offset |-> Stale]]]
  /\ overrun = [s \in Slot |-> {}]
  /\ buffer = {}
  /\ grid = 0

-----------------------------------------------------------------------------
(* The batch.                                                              *)

\* A batch gives every slot a number of tokens.  A prefill chunk ends at a
\* pool's end or at the prompt's: the pool-aligned chunk starts that
\* _kpool_compress_insert assumes.
Schedulable(n) ==
  /\ \E s \in Slot : n[s] > 0
  /\ SumFunctionOnSet(n, Slot) <= MaxBatched
  /\ \A s \in Slot : n[s] > 0 =>
       /\ prompt[s] > 0
       /\ len[s] + n[s] <= MaxLen
       /\ IF len[s] < prompt[s]
            THEN \/ len[s] + n[s] = prompt[s]
                 \/ len[s] + n[s] < prompt[s] /\ (len[s] + n[s]) % KPool = 0
            ELSE n[s] <= verify

\* How many of them are committed: a prefill whole, of a decode the first token
\* and the drafts that are accepted.
Accepted(n, good) ==
  \A s \in Slot : IF n[s] = 0 \/ len[s] < prompt[s]
                   THEN good[s] = n[s] ELSE good[s] \in 1 .. n[s]

Tokens(s, n, good) ==
  [t \in 1 .. n[s] |->
     [slot |-> s, pos |-> len[s] + t - 1, good |-> t <= good[s]]]

\* split_decodes_and_prefills: a query of at most `verify' tokens is a decode,
\* a short prefill chunk too.
Decodes(n) == SetToSeq({s \in Slot : n[s] \in 1 .. verify})
Prefills(n) == SetToSeq({s \in Slot : n[s] > verify})

Flat(reqs, n, good) ==
  FlattenSeq([b \in 1 .. Len(reqs) |-> Tokens(reqs[b], n, good)])

CompletesPool(tok) == tok.pos % KPool = KPool - 1   \* slot_mapping >= 0

-----------------------------------------------------------------------------
(* Writing the index cache and the tail cache.                             *)

\* _kpool_compress_insert: a pool whose last token is in the prefill part of
\* the batch is compressed from the KPool tokens of the batch that end there;
\* one that starts before it is masked.
PrefillPools(pre) ==
  {[slot |-> pre[i].slot, pool |-> pre[i].pos \div KPool,
    key |-> [o \in Offset |-> pre[i - (KPool - 1) + o]]] :
     i \in {j \in KPool .. Len(pre) : CompletesPool(pre[j])}}

\* Mutant: only the trailing tokens of the batch are seeded.
InTailOfBatch(pre, i) == i > Len(pre) - (Len(pre) % KPool)

\* kpool_seed_tail_cache: token i is in its request's tail iff the token KPool
\* ahead belongs to another request or is past the batch.
InTail(pre, i) ==
  \/ i + KPool > Len(pre)
  \/ pre[i + KPool].slot # pre[i].slot

SeededTail(pre) == {pre[i] : i \in {j \in 1 .. Len(pre) : InTail(pre, j)}}

\* _build_decode_scatter_indices: where the tokens of request b start.
Start(lens, b) ==
  LET cumsum[i \in 0 .. Len(lens)] == IF i = 0 THEN 0 ELSE cumsum[i - 1] + lens[i]
  IN cumsum[b - 1]

\* _scatter_decode_tokens_by_request, without its padding.
Scatter(flat, lens) ==
  [b \in 1 .. Len(lens) |->
     SubSeq(flat, Start(lens, b) + 1, Start(lens, b) + lens[b])]

Longest(lens) == CHOOSE m \in Range(lens) : \A k \in Range(lens) : k <= m
Uniform(lens) == \A b \in 1 .. Len(lens) : lens[b] = Longest(lens)

\* Mutant: every batch is taken for uniform, as the flattened metadata say.
WriteGroupsUniform(dec, lens) ==
  LET n == Len(dec) \div Len(lens)
  IN [b \in 1 .. Len(lens) |-> SubSeq(dec, (b - 1) * n + 1, b * n)]

\* The rows of the decode write: a view of a uniform batch, the scattered
\* tokens of any other.
WriteGroups(dec, lens) ==
  IF Uniform(lens)
    THEN LET n == Len(dec) \div Len(lens)
         IN [b \in 1 .. Len(lens) |-> SubSeq(dec, (b - 1) * n + 1, b * n)]
    ELSE Scatter(dec, lens)

\* kpool_decode_update_and_maybe_write_cache_batched: rows run in parallel, the
\* tokens of a row in order.  A token that completes a pool reads the ring as
\* the tokens of its row before it left it.
RingSeen(row, t, o) ==
  LET stashed == {u \in 1 .. t : row[u].slot = row[t].slot /\ row[u].pos % KPool = o}
  IN IF stashed = {} THEN ring[row[t].slot][o]
     ELSE row[CHOOSE u \in stashed : \A v \in stashed : v <= u]

DecodePools(groups) ==
  UNION {{[slot |-> groups[b][t].slot, pool |-> groups[b][t].pos \div KPool,
           key |-> [o \in Offset |-> RingSeen(groups[b], t, o)]] :
            t \in {u \in 1 .. Len(groups[b]) : CompletesPool(groups[b][u])}} :
         b \in 1 .. Len(groups)}

\* Of the tokens stashed at one entry of the ring the last stays.
RingAfter(stashed) ==
  [s \in Slot |-> [o \in Offset |->
     LET here == {tok \in stashed : tok.slot = s /\ tok.pos % KPool = o}
     IN IF here = {} THEN ring[s][o]
        ELSE CHOOSE tok \in here : \A other \in here : other.pos <= tok.pos]]

PoolAfter(written) ==
  [s \in Slot |-> [j \in Pool |->
     LET here == {w \in written : w.slot = s /\ w.pool = j}
     IN IF here = {} THEN pool[s][j] ELSE (CHOOSE w \in here : TRUE).key]]

-----------------------------------------------------------------------------
(* Selecting pools and expanding them.                                     *)

SelectK == TopK \div KPool

\* Mutant: the flat positions are read for a padded grid too.
SeqLensFlat(flat, lens, n, padded) ==
  [r \in 1 .. Len(lens) * n |-> IF r <= Len(flat) THEN flat[r].pos + 1 ELSE 0]

\* _decode_topk_seq_lens: the token-granular length of each row of the decode
\* grid, 0 for the rows that pad it.
SeqLens(flat, lens, n, padded) ==
  IF ~padded THEN [r \in 1 .. Len(lens) * n |-> flat[r].pos + 1]
  ELSE LET rows == Scatter(flat, lens)
       IN [r \in 1 .. Len(lens) * n |->
             LET b == (r - 1) \div n + 1
                 t == ((r - 1) % n) + 1
             IN IF t <= lens[b] THEN rows[b][t].pos + 1 ELSE 0]

\* A row of topk_indices_buffer: the token, the pools the selection scored, and
\* the length the expansion took.
Row(tok, pools, seqlen, full) ==
  [slot |-> tok.slot, pos |-> tok.pos, pools |-> pools,
   seqlen |-> seqlen, full |-> full]

\* The decode rows.  The metadata either keep the requests (padded to the
\* longest when their lengths differ) or are flattened to a row per token.
DecodeRows(dec, flat, lens, flatten) ==
  LET padded == ~flatten /\ ~Uniform(lens)
      shape == IF flatten THEN [i \in 1 .. Len(dec) |-> 1] ELSE lens
      n == Longest(shape)
      seqlens == SeqLens(flat, shape, n, padded)
      RowOf(b, t) == (b - 1) * n + t
  IN UNION {{LET tok == dec[Start(shape, b) + t]
             IN Row(tok, (tok.pos + 1) \div KPool, seqlens[RowOf(b, t)], FALSE) :
                t \in 1 .. shape[b]} : b \in 1 .. Len(shape)}

\* The prefill rows: with every context at most topk_tokens long the rows are
\* filled with the whole past and nothing is scored.
PrefillRows(pre) ==
  LET short == \A i \in 1 .. Len(pre) : pre[i].pos + 1 <= TopK
  IN {Row(pre[i], (pre[i].pos + 1) \div KPool, pre[i].pos + 1, short) :
        i \in 1 .. Len(pre)}

\* The selections of a row: top_k_per_row returns min(SelectK, pools) of the
\* scored pools, whichever score best; the rest of the row keeps its -1.
Selections(row) ==
  LET scored == 0 .. row.pools - 1
      k == IF SelectK < row.pools THEN SelectK ELSE row.pools
  IN {best \in SUBSET scored : Cardinality(best) = k}

\* expand_pools_and_append_tail: the tokens of the selected pools that are
\* complete at the row's length, and the tokens after the last complete one.
Expanded(row, best) ==
  LET complete == row.seqlen \div KPool
  IN {p \in 0 .. MaxLen : p \div KPool \in best /\ p \div KPool < complete}
     \cup complete * KPool .. row.seqlen - 1

Attended(row, best) ==
  IF row.full THEN 0 .. row.pos ELSE Expanded(row, best)

-----------------------------------------------------------------------------
(* The call.                                                               *)

\* The in-progress pool of a request of m committed tokens lost entries of the
\* ring to a rejected draft of the batch.
RunOver(s, m, dec) ==
  \E i \in 1 .. Len(dec) :
    /\ dec[i].slot = s /\ ~dec[i].good
    /\ dec[i].pos >= (m \div KPool + 1) * KPool
    /\ dec[i].pos % KPool < m % KPool

IndexBatch(n, good, flatten) ==
  /\ Accepted(n, good)
  /\ LET reqs == Decodes(n)
         lens == [b \in 1 .. Len(reqs) |-> n[reqs[b]]]
         dec == Flat(reqs, n, good)
         pre == Flat(Prefills(n), n, good)
     IN /\ dec = <<>> => ~flatten
        /\ ring' = RingAfter(SeededTail(pre) \cup Range(dec))
        /\ pool' = PoolAfter(PrefillPools(pre) \cup
                     (IF dec = <<>> THEN {} ELSE DecodePools(WriteGroups(dec, lens))))
        /\ len' = [s \in Slot |-> len[s] + good[s]]
        /\ overrun' = [s \in Slot |->
             IF RunOver(s, len'[s], dec)
               THEN overrun[s] \cup {len'[s] \div KPool} ELSE overrun[s]]
        /\ buffer' = PrefillRows(pre) \cup
             (IF dec = <<>> THEN {} ELSE DecodeRows(dec, dec \o pre, lens, flatten))
        /\ grid' = IF dec = <<>> THEN 0
                   ELSE IF flatten THEN Len(dec) ELSE Len(lens) * Longest(lens)
  /\ UNCHANGED <<verify, prompt>>

\* A request takes a slot, and with it blocks that hold another's data.
Admit(s) ==
  /\ prompt[s] = 0
  /\ \E p \in 1 .. MaxLen - 1 : prompt' = [prompt EXCEPT ![s] = p]
  /\ UNCHANGED <<verify, len, ring, pool, overrun, buffer, grid>>

\* A request ends or is preempted: what its blocks hold is stale for the next.
Release(s) ==
  /\ len[s] > 0
  /\ prompt' = [prompt EXCEPT ![s] = 0]
  /\ len' = [len EXCEPT ![s] = 0]
  /\ ring' = [ring EXCEPT ![s] = [o \in Offset |-> Stale]]
  /\ pool' = [pool EXCEPT ![s] = [j \in Pool |-> [o \in Offset |-> Stale]]]
  /\ overrun' = [overrun EXCEPT ![s] = {}]
  /\ buffer' = {}
  /\ grid' = 0
  /\ UNCHANGED verify

KpoolNext ==
  \/ \E n \in [Slot -> 0 .. MaxLen] :
       /\ Schedulable(n)
       /\ \E good \in [Slot -> 0 .. MaxLen], flatten \in BOOLEAN :
            IndexBatch(n, good, flatten)
  \/ \E s \in Slot : Admit(s)
  \/ \E s \in Slot : Release(s)

KpoolSpec == KpoolInit /\ [][KpoolNext]_kpoolVars

-----------------------------------------------------------------------------
(* Properties.                                                             *)

KpoolTypeOK ==
  /\ verify \in 1 .. MaxVerify
  /\ prompt \in [Slot -> 0 .. MaxLen]
  /\ len \in [Slot -> 0 .. MaxLen]
  /\ ring \in [Slot -> [Offset -> Token]]
  /\ pool \in [Slot -> [Pool -> [Offset -> Token]]]
  /\ overrun \in [Slot -> SUBSET (0 .. MaxLen \div KPool)]
  /\ grid \in 0 .. NumSlots * MaxVerify

Committed(s, p) == [slot |-> s, pos |-> p, good |-> TRUE]

\* Every complete pool of a request is the key of the request's own committed
\* tokens, in their order, whatever batches they came in and whoever had the
\* blocks before: chunks beside other requests' chunks, the boundary from the
\* prompt to the decodes, verified drafts.  Excepted are the pools whose
\* ring entries a rejected draft ran over: what is in them when their pool is
\* complete depends on the acceptance of later drafts.
PoolsAreOwn ==
  \A s \in Slot, j \in Pool :
    (j + 1) * KPool <= len[s] /\ j \notin overrun[s] =>
      pool[s][j] = [o \in Offset |-> Committed(s, j * KPool + o)]

\* A row attends to nothing after its own token, and to every token of the pool
\* in progress at it; one whose context fits topk_tokens attends to all of it,
\* whether the short prefill path filled the row or the selection did.
AttendsOwnPast ==
  \A row \in buffer : \A best \in Selections(row) :
    LET begun == ((row.pos + 1) \div KPool) * KPool
    IN /\ Attended(row, best) \subseteq 0 .. row.pos
       /\ begun .. row.pos \subseteq Attended(row, best)
       /\ row.pos + 1 <= TopK => Attended(row, best) = 0 .. row.pos

\* Mutant: the drafts are counted and not the token they follow.
WorstDecodeTokensShort == Min({NumSlots * (verify - 1), MaxBatched})

\* The rows of decode logits the profiling run allocates for.
WorstDecodeTokens == Min({NumSlots * verify, MaxBatched})

\* The logits of a step are no larger than the memory profile counted for, the
\* rows that pad a grid of unequal requests included, when the profile is that
\* of max_num_seqs requests: the token limit bounds the tokens and not the
\* padding.
ProfileCoversLogits ==
  NumSlots * verify <= MaxBatched => grid <= WorstDecodeTokens
=============================================================================
