# Verification of the GLM-5.3-Flash serving stack

TLA+ specifications, TLC models and TLAPS proofs of the parts of this repository
whose correctness depends on several processes, on failures, or on several pieces
of code that must reach the same conclusion. The definitions are translated from
the files under `src/`; `PROJECT.json` ("map") names the lines of each.

Contents: [the system](#the-system) · [modules](#modules) · [runs](#runs) ·
[exceptions](#exceptions) · [fairness](#fairness) · [proofs](#proofs) ·
[what is not modelled](#what-is-not-modelled)

## The system

The repository serves GLM-5.3-Flash with vLLM on two or four DGX Spark nodes, one
rank per node. It carries patched copies of vLLM files (`roce/`), build-time patches
of vLLM for a DFlash2 drafter (`overlay-dflash2/`), launchers, and a watchdog that
restarts the fleet.

| component | state it keeps | operations | talks to |
|---|---|---|---|
| RoCE collective adapter, `roce/b12x_roce_all_reduce.py` | `disabled`, the runtime, parsed limits, the all-gather route | construct (vote, setup exchange), route all-reduce and all-gather, `check_health`, close | the other ranks over the CPU group; the runtime b12x (external); CudaCommunicator, Worker |
| Device communicator, `roce/cuda_communicator.py` | which backends exist (`roce_comm`, `ca_comm`, NCCL) | construct, dispatch each collective, destroy | the adapter; GroupCoordinator |
| GPU worker, `roce/gpu_worker.py` | `_pp_send_work`, sleep buffers, weight-update session, the model runner | start-up, profiling, `execute_model`, `sample_tokens`, sleep and wake, weight update, shutdown | the executor above; the model runner; groups |
| Groups, `roce/parallel_state.py` | the process's tp, pp, dp, ep groups | build, destroy, collectives, tensor-dictionary sends, node detection | every rank of a group, at the same time |
| Environment registry, `roce/envs.py` | `os.environ`, the caches around `__getattr__` | read, enable and disable the cache, `compile_factors` | read by all of the above, per process; inherited by child processes |
| KV layout for the drafter, `overlay-dflash2/patch_glm5_drafter_group.py` | none: groups, tensors and capacity are functions of the specs, computed in four places | group, detect the layout, report capacity, check memory, emit tensors | the runner that binds tensors; the block pool |
| Prefix-cache repair, `patch_prefix_cache_draft_group.py` | the hit under construction | the loop over groups until the hit is stable | the KV-cache manager |
| DFlash2 speculator, `dflash2/speculator.py` | per request slot: draft logits, cached candidate ids | propose, sample, cache logits | the target's rejection sampler |
| Fleet watchdog, `fleet_watchdog.sh` | consecutive failures | probe, tear down, launch, wait for ready | containers on every node over ssh |
| Launchers, `launch-*.sh` | none | guards, remove the old container, run the new one | docker; the environment of the ranks |
| Lane scripts, `speed-night-*/lane.sh`, `tp2-exp.sh`, `cache_flusher.sh` | none | start, stop and measure one configuration | docker, the head's API |
| Sparse attention indexer, `docker/sparse_attn_indexer_kpool_sm121.py` | index cache (a key per pool of tokens), tail cache (a ring per request), `topk_indices_buffer` | one call per layer and step, for prefills and decodes; the memory profile | the scheduler's batches, the kernels (external) |
| Image build, `docker/build.sh`, `docker/patch_v*.py`, `overlay-dflash2/patch_*.py` | the images and their tags; files patched in place | build the chain of stages, build the overlay, run a patch script in a container | docker; vLLM's files |
| Tools, probes, benchmarks | none | one-shot | the head's API |

What is hard, by component, and what makes it correct:

* **Adapter and communicator, at construction.** The ranks find out separately
  whether they can use RoCE, vote, and enter a second collective. Any of them may
  fail or die between any two steps. Correct means that the ranks agree, that nobody
  waits in a collective others have left, and that RoCE is on only if all can use it.
* **Adapter and worker, while serving.** The check of the runtime's health is made by
  the host, the collectives run later on a stream, asynchronous outputs are checked one
  step behind, and one collective of a step may run on another backend. Correct means
  that no output computed from missing data leaves a worker.
* **Node detection.** Collective calls are chosen by each rank from its own local
  result; a shared-memory segment is created, opened and unlinked by different
  processes. Correct means that the calls match and the counts are right.
* **Watchdog.** The order of removals and launches over nodes whose commands may
  fail, the watchdog being killed in any place, loads that look like failures.
* **KV layout.** The decision made when grouping is made again by three consumers and
  by the runner, from page sizes, and the result lets different layers share bytes.
* **Draft logits.** The row of a request slot is never cleared: each draft removes what
  the last one stored, by the candidate ids it remembers, in a batch whose slots come in
  any order. Correct means that rejection reads exactly the draft's distribution.
* **Pipeline.** Sends and receives are asynchronous, matched by order only, cut into
  slices that are gathered when the receiving model first reads them, and the sender
  reuses its buffers. Correct means that a stage reads what the stage before made in the
  same step, and that no rank waits for a message or a gather that does not come.
* **Worker life.** Memory is measured, sized and captured in an order, or a plan of an
  earlier boot replaces the measurement; sleep, wake and weight updates come in any
  order, and any call may fail on some workers only. Correct means that the measured peak
  still fits, that an awake engine serves what is loaded, that an update goes to the
  model it was started for, and that a finish vouches for all of its chunks.
* **Groups.** Seven kinds of groups are cut from one tensor of ranks; a start finds what
  an earlier start or another configuration left. Correct means that a group is an axis
  of the layout, and that a start that returns has the groups it was asked for.
* **Environment.** A cache is wrapped around getters that raise or make their value up,
  in a tree of processes that inherit it. Correct means that what is enabled is frozen,
  what is disabled is live, and that processes agree where they must.
* **Indexer.** A pool's key is compressed from tokens that came in different batches, by
  way of a ring that is reused; ragged decodes are padded or flattened. Correct means
  that a pool holds its own request's tokens and a row attends to its own past only.
* **Image build.** Scripts edit files in place and look for markers; builds fail or are
  interrupted; old tags remain. Correct means that an image has each edit once, and that
  a finished build is of one revision.

`PROJECT.json` ("hazards") lists each of these at its line with the properties that
cover it, or the reason why none does.

## Modules

| module | what | interacts with |
|---|---|---|
| `RoceGroup` | the ranks, which `RoceVote` and `RoceStep` share | |
| `RoceVote` | constructors of adapter and communicator on all ranks | implements `AllOrNothing` |
| `AllOrNothing` | abstract: a decision, with the limits and the route it is for, taken by all or by none | |
| `RoceStep` | steps on workers with RoCE on | implements `FailStop` |
| `FailStop` | abstract: outputs of good steps, in order, nothing after a failure | |
| `SameNode` | `_node_count` over `in_the_same_node_as` | its result is `RoceVote`'s `singleNode` |
| `FleetWatchdog` | watchdog, launcher, containers | |
| `DrafterKV` | KV layout with the drafter, and the pool it is used by | |
| `DraftLogits` | the walk over the draft's candidates, and the cached rows of logits | implements `FreshRows` |
| `FreshRows` | abstract: a row is replaced as a whole | |
| `PipeLink` | tensors between pipeline stages over many steps | implements `StagedSteps`; its host loop is `RoceStep`'s |
| `StagedSteps` | abstract: the order of the stages' steps and their lead | |
| `WorkerLife` | one engine's workers from boot to shutdown, over many boots | its serving phase is where `RoceStep` and `PipeLink` run |
| `ModelGroups` | the groups of model parallelism, started, failed and cleaned up | each group then counts its nodes as in `SameNode` |
| `EnvRegistry` | environment variables in a tree of processes | its reads are the settings of `RoceVote`'s ranks |
| `KpoolIndexer` | the caches and the rows of the sparse indexer | |
| `ImageBuild` | the chain of images and the patch scripts | installs what `DrafterKV`, `DraftLogits` and `KpoolIndexer` model |
| `MC*` | the values of the constants for TLC | |
| `*_proofs` | the theorems; `Roce_proofs` has those of `RoceVote` and `RoceStep`, `ParallelState_proofs` of `SameNode` and `ModelGroups`, `Deployment_proofs` of `FleetWatchdog` and `ImageBuild`, `ForwardPass_proofs` of `PipeLink` and `KpoolIndexer` | |

### RoceVote

Each rank's `pc` follows `B12xRoceAllReduce.__init__` called from
`CudaCommunicator.__init__`: `start`, `vote` (it has posted to `all_gather_object`),
`setup` (inside `from_exchange_group`), `built`, `ready` (after the choice of
`CustomAllreduce`), `closed`; or `raised`, `dead`. A collective over the CPU group is
what each rank has posted to it: a rank leaves when all have posted, or with an
exception when a rank it needs is gone. `cap` is what a rank finds out in
`_local_capability`, chosen at the start. `Close` models the adapter's `close`.

`AllOrNothing` sees of a rank that is on the terms it routes by: the limits of its runtime
and the route of its all-gather (`Terms`). So the refinement says that no two ranks
are on with different terms. `Agreement`, which is proved, says the same of the constructed
communicators.

External: the runtime b12x. The source says that it "already coordinated ranks", so
`SettleSetup` gives one outcome to all the ranks that entered, and an unsettled exchange
raises in the ranks that remain when a rank goes away.

### RoceStep

A rank is a host and a stream. The host's actions are `Worker.execute_model`
(`ExecuteModel`), `sample_tokens` (`SampleTokens`), `get_output` of the checked
asynchronous output in its two steps (`FetchOutput`, then `CheckOutput`), and the
completion of the sends of a pipeline stage (`SendCompletes`). The stream executes the
collectives of `program` in order; each has a route (RoCE or NCCL) and may end its
step. `Launch` sends the rank's data and starts waiting; `Complete` needs everyone's
data; `Timeout` freezes the runtime at the spin limit; `Abandon` and `Skip` are what a
frozen runtime does with the collective it was in and with the later ones. The
histories `missed` and `spoiled` record steps with a collective that did not happen
and steps computed from bad values; a rank's bad values reach others only through the
data it sends (`tainted`).

A worker that raised may or may not be driven on, since the executor is not in the
repository: the safety properties hold either way.

### SameNode

`cur`, `assignment` and `nodes` are the variables of `_node_count`'s loop in each
rank; one call of `in_the_same_node_as` goes through `name` (create and broadcast, or
receive), `open`, `barrier` and `reduce`. The suppressed `OSError`s of creation and of
opening are alternatives of `Create` and `Open`. A collective with an absent rank waits
for ever (the timeout of the process group is not modelled).

### FleetWatchdog

`pc` is where `fleet_watchdog.sh` is: probing, one position of the teardown pass, one
position of the launch pass, waiting for ready, or down. The containers' behaviour is
external and taken from the script's own comments: a worker joins the first store it
finds, a dying head's too, and exits 0 when its head goes; a head whose engine died
keeps its store and may never exit. What goes wrong by itself counts against `faults`;
commands fail only on nodes of `flaky`. `streak` is a history variable: failed probes
in a row, whoever counted them.

### DrafterKV

`pc` follows one boot: `groups` (`_get_kv_cache_groups_glm5_next`), `check`
(`_max_memory_usage_bytes_from_groups`), `config` (`get_kv_cache_config_from_groups`),
`bind` (the runner, as `sim_glm5_drafter.py` emulates it), `serve`; or it stops in
`failed`, `refused`, or `generic` (the model left this layout). Every consumer computes
its quantity by its own operator, as in the code: `PoolBytesPerBlock`, `NeedPerBlock`
and `PerBlock` are three definitions. While serving, groups take blocks of the one
pool, write parts of them (a drafter block is split into kernel blocks) and release
them; `Clobbers` compares byte ranges in the shared tensors.

External: the specs of the layers, the pool (any free block may be given to any group;
the null block is not modelled), the attention backends' kernel sizes.

### DraftLogits

`Draft` is `_generate_draft`: a batch maps rows to request slots (`mapping`, `NoSlot`
for a padded row), each live row gets candidates for every step (`cand`) and the walk
draws an index per step (`index`); if logits are kept, it launches one program of
`_cache_draft_logits_kernel` per live row and step (`pending`), which then run in any
order (`CacheProgram`). A program is one warp (`num_warps=1`), so its stores take effect
in order, and the stream orders a batch's kernels before the next batch. A score is a
term, the pair of the token drawn before and the token scored: this is what tells the
row of one draft from that of another. `logits` and `cached` outlive the batch, which is
the point; `draft` is a history of what each slot was last drafted with.

External: the model's candidates (any list of different tokens), the draw (any index:
noise and temperature only choose among them), and `sample_idx_mapping`, in which the
live rows of a batch have different slots.

### PipeLink

`pc` is where a worker is in `Worker.execute_model`: `recv` (waiting for the metadata of
the tensor dictionary), `wait` (receives posted, gathers to do when the model first reads
`.tensors`), `forward`, `send`. `meta` and `chan` are the messages to a worker, `posted`
its receives; `Deliver` lets the oldest send and the oldest receive meet and reads the
sender's output buffer at that moment, which is what makes an early reuse visible. A
tensor is the sequence of its elements, so slicing (`Chunk`, `ShouldUseAllGather`) and
gathering (`Gather`) are computed. `scratch` are the persistent buffers of
`CudaCommunicator.all_gather` with symmetric memory; `Kept` is what their reuse does to
tensors that were gathered into them before. A forward pass has tokens, so its hidden
states are not empty (an assumption: batches without tokens do not come here as forward
passes). With sequence parallelism (`sp`) `execute_model` settles itself whether the
residual is sliced, and divisibility is not asked; the module assumes that the residual
then divides over the ranks, since the hidden size does. `StagedSteps` says what remains of
all this for somebody who looks at stages and steps only.

### WorkerLife

`engine` is what the engine is configured for and what its parts cost, the same on every
boot. An action is a call of the executor on all workers, `F` the workers on which something
in it fails. The boot goes through `phase`: `InitDevice` (the snapshot of free memory after
the communicators are set up), `LoadModel`, `SizeKvCache` (profiled, or from the plan that
an earlier boot saved), `AllocateKvCache`, `WarmUp` (graphs captured, plan saved). The
estimate of what graphs take may be off in either direction. Sleep (with `sleepMode`)
saves the models' buffers and wake restores them; a wake-up that raises on some workers
(`WakeProgress` says how far it came there) leaves its tags asleep for the executor, which
may call it again. A weight update (with `weightTransfer`) is a session of start, chunks
and finish with the `except` and `finally` clauses of the code, and a finish may also fail
after its session, in `reset_lora_state`. `raised`, `session`, `missed` and `verdict` are
histories of what the executor was told.

External: the model runner, the allocator, the weight transfer engine, the executor's
bookkeeping of sleeping tags, and its caller, who is assumed to update weights only while
they are awake (the worker itself checks only that a transfer engine is configured). An
engine that goes down takes its workers with it (`Down`) and leaves only the saved plans.

### ModelGroups

`GroupRanks` computes the seven kinds of groups as the code does, by transposing and
flattening the tensor of ranks (`Strides`, `Coords` and `At` are the addressing of a
tensor of five dimensions) and cutting the result into equal parts; the properties
define them again, as the ranks that differ in some coordinates only. `Ensure`
is `ensure_model_parallel_initialized` on every rank; `Build` one `init_model_parallel_group`,
which every rank must reach together; `GiveUp` the assertion or the timeout where they do
not, or an assertion after the last group, as the one for the EP group of a layout whose
model has no experts (`Absent`). `Cleanup` is the destruction, group by group in the code's
order (`Destroyed`); where the `destroy` of one raises (`DestroyFailures`), that group and
those after it stay. `dirty`, `retried` and `broken` (the ranks whose last cleanup raised)
are histories.

### EnvRegistry

An entry of `environment_variables` is abstracted to what its getter does beyond reading
the variable: it raises on an invalid value, it takes its default from another variable,
or it makes a name up and writes it back. `caches` are the layers of `functools.cache`
around `__getattr__`. A process is forked (with its parent's caches) or spawned.
`frozen`, `disabled`, `told` and `inherited` are histories.

### KpoolIndexer

One action is one call of `sparse_attn_indexer_kpool` on a batch: the tail cache is seeded
by the prefills, the pools that the batch completes are compressed, by the prefill path
from the batch's own tokens and by the decode path from the ring; then each row's pools
are selected (any, for the scores are not modelled) and expanded. A pool's key is the
sequence of tokens it was made from, and a token carries whether it will be accepted.
`Decodes` and `Prefills` split the batch as the metadata do: a short prefill chunk is a
decode; the requests of each part come in any fixed order. The module needs no values but
numbers, so `MCKpoolIndexer.cfg` checks it directly. Its `KpoolInit`, `KpoolNext` and
`KpoolSpec` are named so that its theorems can stand beside those of `PipeLink`.

External: the scheduler (chunks end where a pool ends, as the source's comments require),
the compression and expansion kernels.

### ImageBuild

A file is its edits, each with the number of times it was made; an edit needs its anchor
exactly once, and its new text may contain the anchor again, which is why running a
script twice is a question at all. What an image should contain is `Ancestry`, the edits
of the stages below it and its own, the least family closed under `FROM`. `BuildPatch`, `FailBuild` and `CommitBuild` are the RUN
lines and the tags of `build.sh`; `Revise` changes the sources or the upstream image;
`StartContainer` and what follows runs the overlay's scripts by hand. A patch reads a
file and writes it once, at its end; a kill in the middle of that one write is not
modelled. A script that writes one file before it checks the anchors of the next
(`patch_v7.py`) is one patch per file.

## Runs

| run | bounds | states | shows |
|---|---|---|---|
| `roce_vote` | 3 ranks, 2 limits, 6 capabilities, 4 settings, deaths at any point | 200 454 | one backend, one set of limits, one route (all-or-nothing refinement, which carries them), termination |
| `roce_step` | 2 ranks, every program of 2 collectives, sync and async, both kinds of stages | 94 070 | the check keeps bad outputs in, fail-stop refinement, a starved peer raises |
| `same_node` | 4 ranks on 4 placements, opens of ranks 1 and 3 and the creation of 2 may fail | 9 980 | matching calls, correct counts, no segment left, return |
| `watchdog` | head and 2 workers, threshold 3, any set of flaky nodes, 5 faults | 26 327 | recovery order, no early teardown, the fleet recovers |
| `drafter_kv` | 10 shapes of a drafter and one with mixed specs, 2 splits of Mamba layers, with and without tail, 2 kernel sizes, 2 memories, 2 blocks held | 87 652 | bytes of held blocks, bound layers, accounts |
| `draft_logits` | 2 slots, 2 rows, 2 steps, 3 tokens, 2 lists of candidates that share a token | 57 538 | scores of the cached rows, fresh-row refinement |
| `kpool_indexer` | 2 slots, pools of 2 tokens, 4 tokens attended, up to 3 tokens verified, batches of 5, requests of 6 tokens | 35 444 | pools, rows and the profile of the logits |
| `pp_link` | 3 stages of 2 ranks, 3 steps, 5 kinds of batch | 177 146 | inputs, termination, staged-steps refinement |
| `worker_life` | 2 workers; an engine with unlike costs, estimates too low and too high and 3 amounts of free memory; an engine with sleep mode, weight transfer, a main and a draft model, and failures on any workers of any call | 146 750 | memory over several boots, sleep and wake, sessions |
| `model_groups` | 8 ranks, 8 layouts, starts that fail on no rank, one or two, cleanups in which `pp` raises on all ranks, `dcp` or `ep` on one | 223 436 | axes, starts, cleanups |
| `env_registry` | a server and a child, one entry of each kind, 1 change of the environment, 2 names | 259 720 | frozen, live, names, compile factors |
| `image_build` | the 9 stages and the overlay, 5 sets of drifted anchors, 2 revisions | 507 255 | images, builds, scripts |

Why the bounds are enough to be interesting:

* Three ranks in the vote are the root, one that disagrees and one that dies. Every
  combination of capabilities is an initial state. The run uses the same switches on every
  rank, as the TP4 launcher does; the theorems hold for any switches.
* Two collectives and two ranks are the least with which a step can end behind a frozen
  runtime on one rank, and with which a step can overtake the check of the last one.
  Neither bound is in the theorems.
* In `same_node`, opens of two ranks and one creation fail independently of each other.
  A group has at most one rank per position, so four ranks give four calls at most.
* Five faults allow a teardown that starts from a blip, a failed launch and the death of
  the watchdog in one behaviour.
* In `drafter_kv`, sizes are scaled: the unit of a fit is 4 tokens for 64 and an MLA
  page has 8 to 12 bytes. The shapes contain a fit, each way of missing it, and the
  pages that are equal without a fit. Two held blocks suffice, because overlap is a
  relation between two blocks.
* In `draft_logits`, the two lists place their common token differently, so a program
  meets a token that is old and new at once, one that is only old and one that is only
  new; token id 0, with which the remembered ids start, is among them. The draw of the
  last step is fixed, since no step reads it.
* In `kpool_indexer`, a verify step may be longer than a pool (3 tokens, 2 in a pool), a
  request has up to three pools of which two are attended, and batches mix decodes of
  different lengths, short prefill chunks taken for decodes, and prefills.
* In `pp_link`, three steps are needed for a stage to run too far ahead, three stages for
  one that both receives and sends, two ranks for a slice. Between them the plans have
  every kind of batch follow every other that the same engine can have, and itself; with
  sequence parallelism the sizes divide.
* In `worker_life`, `Engines` are two. The workers of one differ in what the model consumes,
  in the estimate for the graphs and in what these take, one estimate too low and another
  too high, and the found memory changes from boot to boot; it has neither sleep mode nor
  weight transfer, since these calls move no memory that is accounted for. The other has
  both, and workers of one cost. The workers are interchangeable (symmetry: no definition
  tells them apart); two are one on which a call fails and one on which it does not.
* Eight ranks are three axes of two, so every pair of axes that a transposition could
  confuse is distinguished in some layout.
* Of the cleanups in `model_groups`, one that raises on all ranks is what lets a later start
  return over what two layouts left, and the ones that raise on one rank make the ranks
  differ, at a group every layout needs and at one that only models with experts need.
* In `env_registry`, the entries stand in the order of `environment_variables`: a checked
  one, a derived one before the variable it is derived from, a made-up one last, so that
  an enable that raises stops before, between and never after them.
* `image_build` has the real chain, with the edits of a file merged to at most two: the
  first and a later one, so that a script stops between them.

`CHECK_DEADLOCK FALSE` stands where the system ends: construction, a program of steps,
the node count and the steps of a pipeline finish, and a boot may be refused.

Every property of a run has a mutant ("mutants"), a plausible bug in a mapped definition
with which TLC finds it violated: unequal limits let through, a check
before `get_output`, no barrier before the unlink, an off-by-one in the teardown pass, a
forgotten charge for the drafter's tensors, a tail seeded for the last request only, a
send that is not waited for, a target not reset after a failed start, a group missing in
the cleanup, a getter that does not write back, a chain that goes on after a failed stage.

## Exceptions

Some properties state an exception, and each stands for something the code does.

| property | except | because |
|---|---|---|
| `EveryRankFinishes` (checked with one setting on every rank) | unlike settings | each TP2 node decides the switch by the presence of a directory (`launch-glm53-vllm-tp2-dflash2.sh:76`), and the switch is no part of the vote, although "Any rank that cannot take part disables the backend on every rank" (`b12x_roce_all_reduce.py:29`): the rank with the switch on waits for a vote that does not come |
| `ReleasedClean` | steps whose last collective is not RoCE | "Peers starve on the stalled rank and raise too" (`b12x_roce_all_reduce.py:35`), but not when the step ends with an NCCL all-gather behind the frozen runtime |
| `ReleasedComplete`, `ReleasedClean` | earlier pipeline stages | they send their tensors without a check (`gpu_worker.py:1158`) |
| `ReturnsIfCreated` | a source that could not create its segment | it skips the broadcast its peers wait in (`parallel_state.py:2221`) |
| `NoStaleStart`, `HeadFindsWorkers` | failing commands on the head's own machine | the failure of its `docker rm -f` is ignored (`fleet_watchdog.sh:67`) |
| `InputsIntact` | two gathers of one size in a step, with symmetric memory | they share the persistent buffer (`cuda_communicator.py:519`) |
| `PeakFits` | what the graphs took beyond what the KV cache left for them | a profiled boot leaves the estimate, or nothing where it is not applied, and no buffer (`gpu_worker.py:569-573`); the estimate may be off in either direction (744-758) and "profiling may underestimate" is why a plan is kept (771-773). A boot from a plan has no exception |
| `ServesIntact` | a sleep that raised | the workers are asleep and the executor believes them awake |
| `PoolsAreOwn` | pools whose ring entries a rejected draft overwrote | the ring has as many entries as a pool (`sparse_attn_indexer_kpool_sm121.py:598`) |
| `ProfileCoversLogits` | more sequences times drafts than batched tokens | the token limit does not bound the padding of a grid |
| `NameAgrees` | names made up after the children were started | they were not inherited; each process makes up its own |
| `EnsureVouches` | DP and EP groups | `ensure_model_parallel_initialized` does not compare them |
| `EnsureVouches` | ranks whose last cleanup raised | `destroy_model_parallel` stops at the group whose `destroy` raises (`parallel_state.py:2099-2131`): TP may be of the next layout then and the others of the last one, and equal sizes do not show it |

`DrafterKV` also has a boot that leaves the layout: a drafter with more layers than there
are MLA tensors, whose own page happens to equal the MLA page, is grouped as standalone,
but the layout detection then returns `None` (`pc = "generic"`). No deployed drafter has
this shape.

## Fairness

* `RoceVote`: a rank that can take its next step of construction takes it, and the
  runtime settles an exchange all have entered. Ranks are processes of their own, so
  weak fairness per rank. Nothing forces a rank to close or die.
* `RoceStep`: streams execute what is on them (the spin limit bounds a wait, so
  `Timeout` is among the stream's steps), and a worker that has not raised goes on. No
  fairness for the death of a proxy, the engine's requests, or a worker that raised.
* `SameNode`: weak fairness per rank.
* `FleetWatchdog`: the loop goes on, which assumes that its commands return (ssh has a
  connection timeout, but no timeout of the command); its service restarts it; loads and
  rendezvous that can go on do. Nothing makes a dead head exit.
* `PipeLink`: a worker that can take its next step takes it, a send and a receive that
  are both there meet, and a gather whose ranks are all there ends: weak fairness of each.
  Ranks are processes of their own and NCCL progresses without the host. Nothing forces a
  message that was not sent or a rank that has not posted.
* The other modules have no liveness property: a boot is a straight line, a launched
  kernel ends, and the calls on workers, groups, environments and images are requests
  from outside that need not come.

## Proofs

15 245 obligations, all proved, for any number of ranks, nodes, workers and processes,
any limits, any program, any order of nodes, any geometry, any registry. The assumptions are the named `ASSUME`s of
the modules, which TLC evaluates in the runs.

**Roce_proofs (RoceVote).** `VoteTypeCorrect`, `RanksAgree`, `OnlyCapableRanksEnable`,
`NobodyIsLeft`, `VoteImplementation`. Agreement is not inductive: that two ranks agree
follows from why each of them is on or off. The invariant says that a vote is what the
rank found (`VotesHonest`), that the setup is entered and settled only after a complete
vote with equal limits (`SetupAfterVote`), that the backend is on exactly where a
settled exchange succeeded (`EnabledBySetup`, `OffUntilBuilt`), and that a rank that
passed the vote is off only if the exchange failed or a rank is gone (`OffForAReason`).
For the implementation each action maps to `Enable` with the rank's terms, `Disable`, `Stop`
or a stutter; that the terms are those of the ranks already on is `Agreement`.

**Roce_proofs (RoceStep).** `TypeCorrect`, `NothingIncompleteLeaves`, `NothingBadLeaves`,
`Implementation`. The theorems are unconditional; the properties say where the backend
promises something. The local invariant `LInv`: data is sent in the order of the
program, a missed step means a frozen runtime, outputs are taken in order and behind
the stream. The global one, `GInv`, for programs whose steps end with a RoCE
collective: bad values exist only behind a position at which some rank has stopped
sending for good (`DirtyBehindStopped`, `TaintedBehindStopped`). A collective that ends
a step needs that rank's data, so a step with bad values never completes on a rank whose
runtime is not frozen. `Implementation` uses a mapping that is constant where nothing
is promised.

**Deployment_proofs (FleetWatchdog).** `TypeCorrect`, `NoWorkerMeetsAnOldHead`,
`NewHeadFindsWorkers`, `NoEarlyTeardown`. The invariant counts at most the probes that
failed in a row (`CountBelowStreak`), has no head container during a launch pass
(`HeadGone`), and has the workers launched so far waiting (`LaunchedWait`). It needs
that the head is last in the order: with the teardown in the same order, everything of
the old fleet is removed before the first worker starts.

**Deployment_proofs (ImageBuild).** `ImageTypeCorrect`, `ImagesAlwaysWhole`,
`FinishedBuildIsFresh`, `ReturnedScriptsVouch`, for any chain of stages, not only the nine
of the run. The invariant follows the layer under construction: what it holds is what the
base's ancestry and the patches behind the build's position make (`JobWhole`), and while
build.sh is at a stage, the images of the stages before it are of the present revision
(`JobFresh`).
In a container (`LiveWhole`) each patch is there as a whole or not at all, which is why a
script may be run again: `PatchAssumption` says that one which looks for no marker has an
edit whose anchor goes, so that its second run raises before it writes. The same
assumption says that an edit belongs to one patch. Both are facts about the scripts of
the repository, and TLC evaluates them on the registry of the run.

**DrafterKV_proofs.** `TypeCorrect`, `DataStaysIntact`, `ViewsAlwaysFit`,
`LayersAlwaysBound`, `ExactFitAlwaysFree`. The argument: however a layer is addressed,
its blocks have the size of the blocks of its tensor (`OnePage`), which needs that the
drafter shares a tensor only if the pages are equal and that the kernel size divides
its block (checked by `Bind`). So different block ids are disjoint bytes
(`PartPlace`, `NoClobber`), and in one block only one layer of the owner's group is in
any tensor (`OneLayerOfGroup`: the Mamba layers dealt out in turn are known by quotient
and remainder). Every Mamba layer has an MLA tensor because the number of groups is
rounded up (`SlotInRange`). An exact fit has the MLA page, every registered kernel size
divides it, and it adds nothing to a block (`FitFacts`).

`AccountsAlwaysAgree` is about a sum over the emitted tensors, as many as the model has
layers, against products of counts and page sizes computed at two other places. The sum
is a fold; what it is worth for a constant function, a function with one exception and a
union of two disjoint sets follows from the fold's own recursion and a least
counterexample (`SumsOver` and the lemmas after it), so no induction theorem with an
operator parameter is needed. The invariant adds that a boot beyond `check` was admitted
with the memory it asked for (`Admitted`).

**DraftLogits_proofs.** `TypeCorrect`, `WeightsStayOnCandidates`, `ScoresAreTheWalks`,
`Implementation`. The properties speak of current rows only and are not inductive: a
program cleans a row it did not write. The invariant says of every row, at any time,
that a token with weight is among the remembered ids (`Confined`), which makes the row
empty once those are cleaned (`RewrittenRow`), and that the batch holds the last draft
of its slots (`BatchIsLast`), so that a program writes for the draft rejection will read.

**ParallelState_proofs (SameNode).** `TypeCorrect`, `HostsStayApart`, `NothingLeftBehind`,
`HostsCountedTogether`, `CallsAgree`. That hosts stay apart needs only that a node takes in ranks
without a node and that a "yes" was posted on the source's host (`Separate`): the last
node of a rank in a call holds its source alone, so what joins it in this call shares
the source's host. That a host is counted together needs the order of the call:
a rank is at the barrier of its own call only (`Linked`), so a rank that is about to open
has not arrived and the segment is still there; whoever opens finds it (`Served`); who
leaves the all-reduce has everybody's flag; and a call takes in all ranks of the
source's host whose opens are served, or none of another's (`Whole`). A segment exists
while its source waits at the barrier (`SegmentInv`).

That the ranks make the same calls is about two ranks at different points of the loop,
since nothing but the all-reduce keeps them together. The invariant `Agreed` says what a
rank that is behind has assigned: what the other gave to nodes up to the number it has
reached itself, and nothing else (`Follows`). It is kept because nodes are numbered in the
order of their sources (`Ordered`), so that the rank behind starts its next node with the
same source, and because a call that one rank has left is over: everybody has posted, once
(`Posted`), and exactly the ranks without a node that posted "yes" are in it (`Shared`).
`CallsMatch` is the case of two ranks in one call.

**ParallelState_proofs (ModelGroups).** `GroupsTypeCorrect`, `GroupsAlwaysOnAxes`,
`EnsureAlwaysVouches`, `CleanupAlwaysSuffices`, for any sizes of the five dimensions. Half of
it is arithmetic of mixed radices: a rank is its coordinates (`CoordsOfAt`, `AtOfCoords`),
position `i` of the transposed and flattened tensor is the rank with the swapped
coordinates of `i` (`TransposedHas`, `PlaceIs`), two positions are in one part exactly
when the coordinates that the part does not span are equal (`SameChunk`), and in a part
the order is that of the axis (`AtMonotonic`). So a group is an axis (`OnAxis`), the ranks
of DP, PCP and TP together (`OnBlock`), or a part of PCP by TP (`InDcp`). The other half
is about the life of groups: the invariant `GroupsInv` says that what a rank has was cut
by one layout, perhaps an earlier one (`OneLayout`), that TP comes first (`FirstTp`), how
far a start got (`Progress`), and that a rank whose start returned has groups of the sizes
asked for (`Returned`). All of this is about ranks whose last cleanup returned; of the
others it says only what a cleanup that raised leaves (`Broken`). Sizes are enough for the four kinds that are compared, and for
these only: two layouts of one world that agree in the four sizes cut the same groups of
these kinds, however the rest is split between DP and external DP (`SameGroups`).

**WorkerLife_proofs.** `TypeCorrect`, `ThePeakFits`, `AwakeServesIntact`,
`TheTargetFollows`, `AFinishVouches`. The memory invariant (`MemoryInv`) says for each
phase what is free of the requested share (`RoomLeft`), for any costs, so that what a
profiled boot lacks is exactly what its graphs took beyond the estimate applied; and that a saved plan is what its
boot worked out for costs that are the same on every boot (`PlansFit`); the KV cache is
within every worker's answer, being the least of them. `ServeInv` relates what is mapped,
what the executor believes asleep and what was saved: buffers that are not current are
saved, what the executor believes awake is mapped, and a wake-up that raised half-way
has left each buffer saved or restored (`Held`). `UpdateInv` says that a session begun on
every worker is for one model on all, and that while all are in it none has missed a chunk
(`OneSession`): who fails one has left the session, and a later finish raises on it.

**EnvRegistry_proofs.** `EnabledStaysFrozen`, `DisabledIsLive`, `FactorsAgree`,
`OneNamePerTree`. The invariant says that there is at most one layer, that it holds all
of what was frozen, and that a process that disabled has none (`CacheInv`); and that a
name that was told is the one in `os.environ`, and in the cache where it is cached
(`NameInv`). `OneNamePerTree` assumes one made-up variable, as the registry has, and
`FactorsAgree` that made-up variables are ignored by `compile_factors`.

**ForwardPass_proofs (PipeLink).** `TypeCorrect`, `InputsAlwaysIntact`, `ImplementsStages`. Messages are
matched by order alone, so the invariant is what order amounts to. Between two
neighbouring workers the link is quiet, has the metadata and tensors of the sender's last
step in it, or has them on the way into the receives the receiver posted for exactly
these (`Link`: `Quiet`, `Sent`, `Arriving`); the sender cannot be a second forward pass
ahead, because it waits for its sends first (`Control`). What a tensor holds is then known
by the step (`Contents`): nothing, its own piece, or the whole after the gather. The ranks
of a stage gather in the same order and at most one of them is a gather or a step ahead
(`SameGathers`: `Abreast`, `Behind`), so the pieces that meet in a gather are of one step
and one tensor. `InputsIntact` itself excludes two gathers of one size through the shared
buffer; the proof needs that exclusion in one place only, `Kept`. For `ImplementsStages` a
stage is as far as its slowest rank (`Done`), which finishes step `n` only after a rank of
the stage before has finished it and sent (`Handed`).

**ForwardPass_proofs (KpoolIndexer).** `KpoolTypeCorrect`, `PoolsAlwaysOwn`,
`RowsAttendOwnPast`, `ProfileAlwaysCovers`, for any sizes of pools, any `topk_tokens`,
any number of requests and of verified tokens, any batch the scheduler may form. The
invariant (`KpoolInv`): the ring of a request holds the committed tokens of the pool in
progress unless a rejected draft ran over them (`TailHeld`); a prompt that is not
finished stands at a pool's end (`Chunked`), so that a prefill chunk has all the tokens
of the pools it completes; each row took its own token's length (`RowsExact`); the grid
has no more rows than the requests can bring (`GridFits`). One half of the proof finds
the tokens in the batch: the flattened parts are the requests' tokens end to end
(`FlattenLays`), each from the running sum of the lengths before it (`StartUnfolds`), so
that the last `KPool` tokens of each request are seeded (`StashIs`), the windows of the
prefill path stay within one request (`PrefillWrites`), and the rows of the decode path
are the requests' tokens whether the batch is viewed or scattered (`WriteGroupsAreRows`,
`RowLengths`). The other half follows a position: two positions at one offset are a pool
apart (`PoolApart`), so of what is stashed over the pool in progress the latest
committed token stays and anything later is a rejected draft (`RingStep`), and the key
of a pool is its committed tokens, those of the call and those the ring kept (`KeyKept`,
`PoolStep`). `AttendsOwnPast` then needs only `RowsExact` and that a selection of all
pools is all of them (`AttendedRows`).

The inductive invariants of `PipeLink`, `KpoolIndexer`, `ModelGroups`, `ImageBuild` and
`DrafterKV` were checked by TLC on the components' runs before they were proved.

Only model-checked is every liveness property (`EveryRankFinishes`, `StarvedPeerRaises`,
`ReturnsIfCreated`, `FleetRecovers`, `EveryStepEnds`): liveness under fairness is out of the
prover's reach.

The induction theorems of the prover's library cannot be used, since they take an
operator as a parameter. Where a proof needs induction over data it is by a least
counterexample among the natural numbers, stated for one function or one set
(`DrafterKV`'s sums, `PipeLink`'s concatenation of pieces, the running sums of
`KpoolIndexer`).

## What is not modelled

* Lane scripts, tools, probes, benchmarks: sequential programs without lasting state.
* The loop over the groups that `patch_prefix_cache_draft_group.py` edits: it is vLLM's,
  and the repository holds only the lines around the edits. The script itself is in
  `ImageBuild`.
* Of the communicator: the other backends of the dispatch chains, batched transfers, the
  all-to-all managers. Of the worker: the profiler, LoRA, the calls for elastic expert
  parallelism and the checkpoint engine, which delegate to objects outside the
  repository. Of the groups: the world group and its elastic replacement, graph capture,
  the custom-op plumbing, and the collectives that only forward to the communicator.
* The runtime b12x, vLLM's scheduler, executor, pool and attention backends, docker and
  ssh are external: modelled as far as the code here uses them, and marked so in the map.
* Arithmetic on tensors: the models' forward passes, scores, quantization, GPU kernels.
* The wording of the environment variables: of `envs.py`, what the getters do beyond
  reading a string.
* A command on another node that hangs: `FleetWatchdog` assumes that commands return. ssh
  has a connection timeout and no command timeout, so this is an assumption and listed
  among the hazards without a property.
* In `DrafterKV`: the null block, the padding of the tail page to the index page (its
  layers are given the index page at once), the demand of Mamba beyond one block per
  group.

## What could come next

In the order of what it would add: a module for `graph_capture` over the communicators of
several groups; the composition of `WorkerLife` with `RoceStep`'s host, so that a frozen
runtime meets a weight update.
