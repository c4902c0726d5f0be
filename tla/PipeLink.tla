------------------------------ MODULE PipeLink ------------------------------
(***************************************************************************)
(* The intermediate tensors between pipeline stages: Worker.execute_model  *)
(* (gpu_worker.py) around GroupCoordinator.isend_tensor_dict and           *)
(* irecv_tensor_dict (parallel_state.py), and the all-gather of the tensor *)
(* parallel group (cuda_communicator.py) that puts them together.          *)
(*                                                                         *)
(* A rank of a stage talks to the rank of the same index in the next one:  *)
(* the metadata of a dictionary in one message, then each tensor.  A       *)
(* tensor that all ranks hold is sent in slices, one per rank, and         *)
(* gathered by the receivers when their model first reads it.  Sends and   *)
(* receives of tensors are asynchronous and matched in order; a send reads *)
(* the sender's buffer when it is matched.                                 *)
(*                                                                         *)
(* A tensor is the sequence of its elements, an element is named by its    *)
(* step, its key and its index.                                            *)
(***************************************************************************)
EXTENDS Integers, Sequences, FiniteSets, SequencesExt

CONSTANTS
  Stages,     \* pipeline_parallel_size
  TP,         \* tensor_parallel_size
  MaxSteps,   \* bound: the steps of a behaviour
  Plans       \* the batches its steps may have: see BatchAssumption

Keys == <<"hidden_states", "residual">>
Key == {"hidden_states", "residual"}

\* A batch: whether it has a forward pass, the elements of each tensor, whether
\* sequence parallelism is on (enable_sp, the same in every batch of a plan),
\* and whether it scattered the residual over the ranks.  Where it is on, the
\* hidden size divides over the ranks.
ASSUME BatchAssumption ==
  \A plan \in Plans : DOMAIN plan = 1 .. MaxSteps /\ \A b \in Range(plan) :
    /\ b.forward \in BOOLEAN /\ b.sp \in BOOLEAN /\ b.scattered \in BOOLEAN
    /\ b.numel \in [Key -> Nat]
    /\ b.forward => b.numel["hidden_states"] > 0  \* a pass has tokens
    /\ b.scattered => b.sp
    /\ b.sp => b.numel["residual"] % TP = 0

ASSUME SizeAssumption ==
  Stages \in Nat \ {0} /\ TP \in Nat \ {0} /\ MaxSteps \in Nat

Stage == 0 .. Stages - 1
Rank == 0 .. TP - 1
Worker == Stage \X Rank
Sender(w) == <<w[1] - 1, w[2]>>
Receiver(w) == <<w[1] + 1, w[2]>>
IsFirst(w) == w[1] = 0
IsLast(w) == w[1] = Stages - 1

VARIABLES
  symm,     \* should_nccl_symm_mem_ag_rs(), the same on every worker
  batch,    \* the batch of each step, the same on every worker
  pc,       \* where each worker is in execute_model
  step,     \* the steps it has begun
  outbuf,   \* the step whose outputs its output buffers hold
  meta,     \* metadata on the way to each worker
  chan,     \* sends on the way to each worker, not yet matched
  posted,   \* the receives it has posted, not yet matched
  dict,     \* tensor_dict of its last receive
  todo,     \* comm_postprocess: the keys it has to gather
  scratch   \* _symm_scratch_bufs, by the size of the buffer

vars == <<symm, batch, pc, step, outbuf, meta, chan, posted, dict, todo, scratch>>

Sizes == {b.numel[k] : k \in Key, b \in UNION {Range(plan) : plan \in Plans}}

Init ==
  /\ symm \in BOOLEAN
  /\ batch \in Plans
  /\ pc = [w \in Worker |-> "idle"]
  /\ step = [w \in Worker |-> 0]
  /\ outbuf = [w \in Worker |-> 0]
  /\ meta = [w \in Worker |-> <<>>]
  /\ chan = [w \in Worker |-> <<>>]
  /\ posted = [w \in Worker |-> <<>>]
  /\ dict = [w \in Worker |-> [k \in Key |-> [at |-> "own", elems |-> <<>>]]]
  /\ todo = [w \in Worker |-> <<>>]
  /\ scratch = [w \in Worker |-> [n \in Sizes |-> <<>>]]

-----------------------------------------------------------------------------
(* Tensors.                                                                *)

Chunk(seq, t) ==
  LET n == Len(seq) \div TP IN SubSeq(seq, t * n + 1, (t + 1) * n)

\* The tensor a rank of any stage has after step n: all of it, or its shard of
\* a scattered residual.
Tensor(n, key, t) ==
  LET whole == [i \in 1 .. batch[n].numel[key] |-> <<n, key, i>>]
  IN IF key = "residual" /\ batch[n].scattered THEN Chunk(whole, t) ELSE whole

\* Mutant: the override for a scattered residual is forgotten.
ShouldUseAllGatherBySize(n, key, numel) == numel % TP = 0

\* _should_use_all_gather: by divisibility, except that with sequence
\* parallelism execute_model settles it for the residual, whether or not the
\* size divides.
ShouldUseAllGather(n, key, numel) ==
  IF key = "residual" /\ batch[n].sp THEN ~batch[n].scattered ELSE numel % TP = 0

\* What is on the wire for a key: its place, sliced or whole.
Piece(n, key, numel) ==
  [key |-> key, sliced |-> ShouldUseAllGather(n, key, numel)]

\* The elements a loop does not skip, in their order.
Kept(seq, Keeps(_)) ==
  FlattenSeq([i \in 1 .. Len(seq) |-> IF Keeps(seq[i]) THEN <<seq[i]>> ELSE <<>>])

PieceOf(tensor, piece, t) == IF piece.sliced THEN Chunk(tensor, t) ELSE tensor

-----------------------------------------------------------------------------
(* Worker.execute_model.                                                   *)

\* Mutant: the next step does not wait for the sends of the last one.
SendsDoneUnchecked(w) == TRUE

\* _pp_send_work has been waited for.
SendsDone(w) == ~IsLast(w) => chan[Receiver(w)] = <<>>

\* The executor's next step reaches the worker.
Begin(w) ==
  /\ pc[w] = "idle" /\ step[w] < MaxSteps
  /\ SendsDone(w)
  /\ step' = [step EXCEPT ![w] = @ + 1]
  /\ pc' = [pc EXCEPT ![w] =
       IF ~batch[step'[w]].forward THEN "idle"
       ELSE IF IsFirst(w) THEN "forward" ELSE "recv"]
  /\ UNCHANGED <<symm, batch, outbuf, meta, chan, posted, dict, todo, scratch>>

\* irecv_tensor_dict: the metadata say which receives to post; a tensor without
\* elements is not received, a sliced one is to be gathered.
Receive(w) ==
  /\ pc[w] = "recv" /\ meta[w] # <<>>
  /\ LET entries == Kept(Head(meta[w]), LAMBDA entry : entry.numel > 0)
         pieces == [i \in 1 .. Len(entries) |->
                      Piece(step[w], entries[i].key, entries[i].numel)]
     IN /\ posted' = [posted EXCEPT ![w] = @ \o pieces]
        /\ todo' = [todo EXCEPT ![w] = Kept(pieces, LAMBDA piece : piece.sliced)]
        /\ dict' = [dict EXCEPT ![w] =
             [k \in Key |-> [at |-> "own", elems |-> <<>>]]]
  /\ meta' = [meta EXCEPT ![w] = Tail(@)]
  /\ pc' = [pc EXCEPT ![w] = "wait"]
  /\ UNCHANGED <<symm, batch, step, outbuf, chan, scratch>>

\* The oldest send and the oldest receive meet.
Deliver(w) ==
  /\ chan[w] # <<>> /\ posted[w] # <<>>
  /\ LET sent == Head(chan[w])
         s == Sender(w)
         elems == PieceOf(Tensor(outbuf[s], sent.key, s[2]), sent, s[2])
     IN dict' = [dict EXCEPT ![w] =
          [@ EXCEPT ![Head(posted[w]).key] = [at |-> "own", elems |-> elems]]]
  /\ chan' = [chan EXCEPT ![w] = Tail(@)]
  /\ posted' = [posted EXCEPT ![w] = Tail(@)]
  /\ UNCHANGED <<symm, batch, pc, step, outbuf, meta, todo, scratch>>

\* CudaCommunicator.all_gather along dim 0: with symmetric memory the result is
\* the persistent buffer of its size, otherwise a tensor of its own.
Gathered(w, elems) ==
  IF symm THEN [at |-> "scratch", elems |-> elems]
             ELSE [at |-> "own", elems |-> elems]

\* The model reads `.tensors': wait_for_comm has waited for the receives and
\* runs the gathers in their order, each a collective of the stage's ranks.
Gather(p) ==
  /\ \A t \in Rank : /\ pc[<<p, t>>] = "wait" /\ posted[<<p, t>>] = <<>>
                     /\ todo[<<p, t>>] # <<>>
  /\ LET slice(t) == dict[<<p, t>>][Head(todo[<<p, t>>]).key].elems
         whole == FlattenSeq([i \in 1 .. TP |-> slice(i - 1)])
     IN /\ dict' = [w \in Worker |->
             IF w[1] # p THEN dict[w]
             ELSE [dict[w] EXCEPT ![Head(todo[w]).key] = Gathered(w, whole)]]
        /\ scratch' = [w \in Worker |->
             IF symm /\ w[1] = p
               THEN [scratch[w] EXCEPT ![Len(whole)] = whole] ELSE scratch[w]]
  /\ todo' = [w \in Worker |-> IF w[1] = p THEN Tail(todo[w]) ELSE todo[w]]
  /\ UNCHANGED <<symm, batch, pc, step, outbuf, meta, chan, posted>>

InputsReady(w) == pc[w] = "wait" /\ posted[w] = <<>> /\ todo[w] = <<>>

\* The value a key has for the model: a gathered tensor is a view.
Read(w, key) ==
  IF dict[w][key].at = "own" THEN dict[w][key].elems
  ELSE scratch[w][Len(dict[w][key].elems)]

\* model_runner.execute_model writes the stage's outputs.
Forward(w) ==
  /\ pc[w] = "forward" \/ InputsReady(w)
  /\ outbuf' = [outbuf EXCEPT ![w] = step[w]]
  /\ pc' = [pc EXCEPT ![w] = IF IsLast(w) THEN "idle" ELSE "send"]
  /\ UNCHANGED <<symm, batch, step, meta, chan, posted, dict, todo, scratch>>

\* Mutant: tensors without elements are sent too.
SentKeysAll(w) == Keys

\* The keys isend_tensor_dict sends: those with elements.
SentKeys(w) ==
  Kept(Keys, LAMBDA k : Tensor(step[w], k, w[2]) # <<>>)

\* isend_tensor_dict: the metadata of all keys, then the tensors.
Send(w) ==
  LET numel(k) == Len(Tensor(step[w], k, w[2]))
      sent == SentKeys(w)
  IN /\ pc[w] = "send"
     /\ meta' = [meta EXCEPT ![Receiver(w)] = Append(@,
          [i \in 1 .. Len(Keys) |-> [key |-> Keys[i], numel |-> numel(Keys[i])]])]
     /\ chan' = [chan EXCEPT ![Receiver(w)] = @ \o
          [i \in 1 .. Len(sent) |-> Piece(step[w], sent[i], numel(sent[i]))]]
     /\ pc' = [pc EXCEPT ![w] = "idle"]
     /\ UNCHANGED <<symm, batch, step, outbuf, posted, dict, todo, scratch>>

Next ==
  \/ \E w \in Worker : Begin(w) \/ Receive(w) \/ Deliver(w) \/ Forward(w) \/ Send(w)
  \/ \E p \in Stage : Gather(p)

\* Every worker that can go on does, messages arrive and a collective whose
\* ranks are all there ends.
Fairness ==
  /\ \A w \in Worker : WF_vars(Begin(w) \/ Receive(w) \/ Forward(w) \/ Send(w))
  /\ \A w \in Worker : WF_vars(Deliver(w))
  /\ \A p \in Stage : WF_vars(Gather(p))

Spec == Init /\ [][Next]_vars /\ Fairness

-----------------------------------------------------------------------------
(* Properties.                                                             *)

PieceType == [key : Key, sliced : BOOLEAN]

TypeOK ==
  /\ symm \in BOOLEAN
  /\ batch \in Plans
  /\ pc \in [Worker -> {"idle", "recv", "wait", "forward", "send"}]
  /\ step \in [Worker -> 0 .. MaxSteps]
  /\ outbuf \in [Worker -> 0 .. MaxSteps]
  /\ \A w \in Worker :
       /\ Range(chan[w]) \cup Range(posted[w]) \cup Range(todo[w]) \subseteq PieceType
       /\ Len(meta[w]) <= 2 /\ Len(chan[w]) <= Len(Keys)

\* With symmetric memory, tensors of a step that are gathered and of one size
\* share the persistent buffer: the later gather is what both read.
ShareScratch(n) ==
  LET hidden == batch[n].numel["hidden_states"]
  IN /\ symm /\ hidden > 0 /\ hidden = batch[n].numel["residual"]
     /\ \A key \in Key : ShouldUseAllGather(n, key, hidden)

\* The model reads the tensors of its own step as the stage before made them:
\* whatever was sent in slices, in whole or not at all, however far the sender
\* went on meanwhile, and although sends and receives are matched by order and
\* a gathered tensor may be a view of a buffer that later steps reuse.
InputsIntact ==
  \A w \in Worker : InputsReady(w) /\ ~ShareScratch(step[w]) =>
    \A key \in Key : Read(w, key) = Tensor(step[w], key, w[2])

\* Every worker finishes every step: no rank waits for a message or a gather
\* that nobody else takes part in.
EveryStepEnds == <>(\A w \in Worker : pc[w] = "idle" /\ step[w] = MaxSteps)

Finished(w) == IF pc[w] = "idle" THEN step[w] ELSE step[w] - 1

\* The stages of workers implement the stages of StagedSteps: a stage has
\* finished what the slowest of its ranks has.
Abstract == INSTANCE StagedSteps WITH
  forward <- {n \in 1 .. MaxSteps : batch[n].forward},
  done <- [p \in Stage |->
             CHOOSE n \in {Finished(<<p, t>>) : t \in Rank} :
               \A t \in Rank : n <= Finished(<<p, t>>)]

ImplementsStagedSteps == Abstract!Spec
=============================================================================
