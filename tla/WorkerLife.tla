---------------------------- MODULE WorkerLife ----------------------------
(***************************************************************************)
(* The life of the GPU workers of one engine (gpu_worker.py): a boot that  *)
(* measures memory and sizes the KV cache, then the calls of the executor  *)
(* between steps: sleep and wake_up, and weight-update sessions.           *)
(*                                                                         *)
(* The executor sends each call to all workers and raises if one of them   *)
(* raises; what a call did on the others stays done.  An action is such a  *)
(* call, F the workers on which something inside it fails, or `fails' that *)
(* there are some.  The executor, the model runner, the allocator and the  *)
(* weight transfer engine are outside the repository: they do what the     *)
(* worker's code and comments rely on.                                     *)
(***************************************************************************)
EXTENDS Integers, FiniteSets

CONSTANTS
  Workers,
  Engines,        \* bound: the engines: see CostAssumption
  FreeMemory,     \* bound: the free memory a process may find
  Requested,      \* requested_memory: gpu_memory_utilization of the device
  Redundancy,     \* redundancy_buffer_memory, 150 MiB
  EstimateGraphs, \* VLLM_MEMORY_PROFILER_ESTIMATE_CUDAGRAPHS
  Models          \* "main", and "draft" with a draft model

\* An engine: what the parts of its workers may take of their memory, and
\* whether enable_sleep_mode and weight_transfer_config are set.  The estimate
\* of profile_cudagraph_memory may lie on either side of what the capture takes.
Costs == UNION {e.costs : e \in Engines}

ASSUME CostAssumption ==
  \A c \in Costs :
    /\ c.comm \in Nat /\ c.consumed \in Nat /\ c.headroom \in Nat
    /\ c.estimate \in Nat /\ c.graphs \in Nat

ASSUME MemoryAssumption ==
  /\ FreeMemory \subseteq Nat /\ Requested \in Nat /\ Redundancy \in Nat
  /\ EstimateGraphs \in BOOLEAN

ASSUME ModelAssumption == "main" \in Models /\ Models \subseteq {"main", "draft"}

Tags == {"weights", "kv_cache"}
NoPlan == [saved |-> FALSE, kv |-> 0]

VARIABLES
  engine,    \* the engine, the same on every boot
  phase,     \* how far the boot is
  cost,      \* what each worker's parts take: the same on every boot
  free,      \* free device memory
  plan,      \* the startup plan saved on each worker's node
  planned,   \* the workers that size their KV cache from it
  kv,        \* the KV cache, the same on every worker
  sleeping,  \* sleeping_tags of the executor
  raised,    \* a sleep raised on some worker (history)
  mapped,    \* the tags whose memory each worker holds
  buffers,   \* the buffers of its models: current, stale or lost
  saved,     \* _sleep_saved_buffers, _sleep_saved_draft_buffers
  zeroMeta,  \* its KV-zero metadata: none, current or lost
  active,    \* _weight_update_active
  isDraft,   \* _weight_update_is_draft
  target,    \* the model its weight transfer engine loads into
  session,   \* the model of a session begun on every worker, or "none"
  missed,    \* the workers that did not load a chunk of it (history)
  verdict    \* the last session's finish returned on every worker

memoryVars == <<engine, phase, cost, free, plan, planned, kv>>
sleepVars == <<sleeping, raised, mapped, buffers, saved, zeroMeta>>
updateVars == <<active, isDraft, target, session, missed, verdict>>
vars == <<engine, phase, cost, free, plan, planned, kv, sleeping, raised,
          mapped, buffers, saved, zeroMeta, active, isDraft, target, session, missed,
          verdict>>

Each(value) == [w \in Workers |-> value]
PerModel(value) == [m \in Models |-> value]

\* The workers of an engine before its first boot (Worker.__init__).
Init ==
  /\ engine \in Engines
  /\ phase = "down"
  /\ cost \in [Workers -> engine.costs]
  /\ free = Each(0)
  /\ plan = Each(NoPlan)
  /\ planned = {} /\ kv = 0
  /\ sleeping = {} /\ raised = FALSE /\ mapped = Each({})
  /\ buffers = Each(PerModel("lost")) /\ saved = Each(PerModel("none"))
  /\ zeroMeta = Each("none")
  /\ active = {} /\ isDraft = {} /\ target = Each("main")
  /\ session = "none" /\ missed = {} /\ verdict = FALSE

-----------------------------------------------------------------------------
(* The boot.                                                               *)

\* Mutant: the snapshot comes before the distributed environment.
SnapshotFirst(found, w) == found[w]

\* The free memory of init_snapshot: the communicators have been set up.
InitSnapshot(found, w) == found[w] - cost[w].comm

\* init_device, request_memory included: it raises when less is free than
\* requested.
InitDevice ==
  /\ phase = "down"
  /\ \E found \in [Workers -> FreeMemory] :
       /\ \A w \in Workers : InitSnapshot(found, w) >= Requested
       /\ free' = [w \in Workers |-> found[w] - cost[w].comm]
  /\ phase' = "device"
  /\ UNCHANGED <<engine, cost, plan, planned, kv, sleepVars, updateVars>>

\* load_model: weights and buffers in the "weights" pool, then the engine for
\* weight transfer.  A worker without room fails the boot.
LoadModel ==
  /\ phase = "device"
  /\ \A w \in Workers : free[w] >= cost[w].consumed
  /\ free' = [w \in Workers |-> free[w] - cost[w].consumed]
  /\ mapped' = Each({"weights"})
  /\ buffers' = Each(PerModel("current"))
  /\ phase' = "loaded"
  /\ UNCHANGED <<engine, cost, plan, planned, kv, sleeping, raised, saved,
                 zeroMeta, updateVars>>

\* cudagraph_memory_estimate_applied
Applied(w) == IF EstimateGraphs THEN cost[w].estimate ELSE 0

\* available_kv_cache_memory_bytes of a profiled boot, the plan's of another.
Available(w, fromPlan) ==
  IF w \in fromPlan THEN plan[w].kv
  ELSE Requested - (cost[w].consumed + cost[w].headroom) - Applied(w)

\* determine_available_memory, and initialize_from_config with the size the
\* engine makes of the answers: the least of them, which must not be empty.
\* A plan is applied where one was saved, if it still fits the configuration.
SizeKvCache ==
  /\ phase = "loaded"
  /\ \E fromPlan \in SUBSET {w \in Workers : plan[w].saved} :
     \E w \in Workers :
       /\ \A v \in Workers : Available(w, fromPlan) <= Available(v, fromPlan)
       /\ Available(w, fromPlan) > 0
       /\ kv' = Available(w, fromPlan)
       /\ \A v \in Workers : free[v] >= kv'
       /\ planned' = fromPlan
  /\ phase' = "sized"
  /\ UNCHANGED <<engine, cost, free, plan, sleepVars, updateVars>>

\* The pool the KV-zero metadata live in.
ZeroMetaTag == "none"

AllocateKvCache ==
  /\ phase = "sized"
  /\ free' = [w \in Workers |-> free[w] - kv]
  /\ mapped' = [w \in Workers |-> mapped[w] \cup {"kv_cache"}]
  /\ zeroMeta' = Each("current")
  /\ phase' = "allocated"
  /\ UNCHANGED <<engine, cost, plan, planned, kv, sleeping, raised, buffers,
                 saved, updateVars>>

\* kv_cache_memory_bytes_to_requested_limit: peak_activation_memory contains
\* the estimate for the graphs already.
Suggested(w) ==
  Requested - (cost[w].consumed + (cost[w].headroom + Applied(w)) + cost[w].graphs)
            - Redundancy

\* compile_or_warm_up_model: the graphs are captured, a boot that profiled
\* saves its plan.
WarmUp ==
  /\ phase = "allocated"
  /\ \A w \in Workers : free[w] >= cost[w].graphs
  /\ free' = [w \in Workers |-> free[w] - cost[w].graphs]
  /\ plan' = [w \in Workers |->
       IF w \in planned THEN plan[w] ELSE [saved |-> TRUE, kv |-> Suggested(w)]]
  /\ phase' = "serving"
  /\ UNCHANGED <<engine, cost, planned, kv, sleepVars, updateVars>>

\* The engine goes down, in a boot that fails or later; its workers with it.
Down ==
  /\ phase # "down"
  /\ phase' = "down"
  /\ free' = Each(0) /\ planned' = {} /\ kv' = 0
  /\ sleeping' = {} /\ raised' = FALSE /\ mapped' = Each({})
  /\ buffers' = Each(PerModel("lost")) /\ saved' = Each(PerModel("none"))
  /\ zeroMeta' = Each("none")
  /\ active' = {} /\ isDraft' = {} /\ target' = Each("main")
  /\ session' = "none" /\ missed' = {} /\ verdict' = FALSE
  /\ UNCHANGED <<engine, cost, plan>>

-----------------------------------------------------------------------------
(* Sleep and wake_up.  The executor passes a sleep on when nothing sleeps, *)
(* and a wake_up for tags that all sleep.                                  *)

Worst(kept) == IF kept = "current" THEN "stale" ELSE kept

\* Of the buffers of a suspended model there is nothing to save.
ToSave(w, m) == IF "weights" \in mapped[w] THEN buffers[w][m] ELSE "lost"

\* A level-2 sleep saves the buffers of the models before it discards the
\* weights, level 1 keeps them in host memory.  The check that memory was freed
\* stands after the suspend: what fails there is asleep nevertheless.
Sleep(level, fails) ==
  /\ engine.sleepMode /\ phase = "serving" /\ sleeping = {}
  /\ mapped' = Each({})
  /\ IF level = 2
       THEN /\ saved' = [w \in Workers |-> [m \in Models |-> ToSave(w, m)]]
            /\ buffers' = Each(PerModel("lost"))
       ELSE UNCHANGED <<saved, buffers>>
  /\ zeroMeta' = [w \in Workers |->
       IF ZeroMetaTag \in Tags THEN "lost" ELSE zeroMeta[w]]
  /\ IF fails THEN sleeping' = sleeping /\ raised' = TRUE
              ELSE sleeping' = Tags /\ raised' = raised
  /\ UNCHANGED <<memoryVars, updateVars>>

\* Mutant: what was restored stays to be restored again.
AfterRestoreKept(w, m) == saved[w][m]

\* _sleep_saved_buffers after they were copied back.
AfterRestore(w, m) == "none"

\* How far wake_up gets on a worker: the tags whose memory is back and the
\* models whose buffers are restored, the main model's first, and none before
\* all the memory is there.
WakeProgress(tags) ==
  {done \in [memory : SUBSET tags, models : {{}, {"main"}, Models}] :
     done.models # {} => "weights" \in tags /\ done.memory = tags}

WokenUp(tags) ==
  [memory |-> tags, models |-> IF "weights" \in tags THEN Models ELSE {}]

\* wake_up: with the weights come the buffers a level-2 sleep saved.  Where the
\* resume, a restore or post_kv_cache_wake_up fails, what was done stays done
\* and what was not restored stays saved.
WakeUp(tags, done, fails) ==
  /\ phase = "serving" /\ tags # {} /\ tags \subseteq sleeping
  /\ fails \/ \A w \in Workers : done[w] = WokenUp(tags)
  /\ mapped' = [w \in Workers |-> mapped[w] \cup done[w].memory]
  /\ buffers' = [w \in Workers |-> [m \in Models |->
       IF m \in done[w].models /\ saved[w][m] # "none" THEN saved[w][m]
       ELSE buffers[w][m]]]
  /\ saved' = [w \in Workers |-> [m \in Models |->
       IF m \in done[w].models THEN AfterRestore(w, m) ELSE saved[w][m]]]
  /\ sleeping' = IF fails THEN sleeping ELSE sleeping \ tags
  /\ UNCHANGED <<raised, zeroMeta, memoryVars, updateVars>>

-----------------------------------------------------------------------------
(* Weight updates: a session takes chunks for one model.                   *)

\* _check_weight_transfer_engine: without an engine every worker raises.  That
\* the weights are awake is up to the caller.
CanUpdate ==
  /\ engine.weightTransfer
  /\ phase = "serving"
  /\ "weights" \notin sleeping /\ \A w \in Workers : "weights" \in mapped[w]

\* Mutant: a start that fails leaves the draft model for a target.
TargetAfterFailedStartKept(w, m) == IF m = "draft" THEN "draft" ELSE target[w]

\* reset_weight_update_target in the except clause of _start_weight_update.
TargetAfterFailedStart(w, m) == "main"

\* start_weight_update and start_draft_weight_update: a worker whose session is
\* active raises and keeps it.  Without support for it, or without a draft
\* model, every worker raises.
StartWeightUpdate(m, F) ==
  LET starts == Workers \ (active \cup F)
  IN /\ CanUpdate
     /\ active' = active \cup starts
     /\ isDraft' = IF m = "draft" THEN isDraft \cup starts ELSE isDraft \ starts
     /\ target' = [w \in Workers |->
          IF w \in active THEN target[w]
          ELSE IF w \in F THEN TargetAfterFailedStart(w, m)
          ELSE IF m = "draft" THEN "draft" ELSE target[w]]
     /\ session' = IF starts = Workers THEN m ELSE "none"
     /\ missed' = {} /\ verdict' = FALSE
     /\ UNCHANGED <<memoryVars, sleepVars>>

\* Mutant: a worker that failed a chunk keeps its session.
ActiveAfterChunkKept(F) == active

\* The sessions after a chunk that failed on F.
ActiveAfterChunk(F) == active \ F

\* update_weights: a worker that fails loads part of the chunk and ends its
\* session; one without a session raises.
UpdateWeights(F) ==
  LET loads == active \ F
  IN /\ CanUpdate /\ active # {}
     /\ active' = ActiveAfterChunk(F)
     /\ target' = [w \in Workers |-> IF w \in active \cap F THEN "main" ELSE target[w]]
     /\ buffers' = [w \in Workers |-> [m \in Models |->
          IF w \in active /\ m = target[w] THEN "current" ELSE buffers[w][m]]]
     /\ saved' = [w \in Workers |-> [m \in Models |->
          IF w \in active /\ m = target[w] THEN Worst(saved[w][m]) ELSE saved[w][m]]]
     /\ missed' = missed \cup {w \in Workers : w \notin loads \/ target[w] # session}
     /\ UNCHANGED <<isDraft, session, verdict, sleeping, raised, mapped, zeroMeta, memoryVars>>

\* finish_weight_update: where the engine fails the session stays as it is;
\* on L, reset_lora_state fails after the session for the main model is over.
FinishWeightUpdate(F, L) ==
  LET ends == active \ F
  IN /\ CanUpdate /\ active # {} /\ L \subseteq ends \ isDraft
     /\ active' = active \ ends
     /\ target' = [w \in Workers |-> IF w \in ends THEN "main" ELSE target[w]]
     /\ verdict' = (ends = Workers /\ L = {} /\ session # "none")
     /\ session' = IF ends = Workers THEN "none" ELSE session
     /\ UNCHANGED <<isDraft, missed, memoryVars, sleepVars>>

Next ==
  \/ InitDevice \/ LoadModel \/ SizeKvCache \/ AllocateKvCache \/ WarmUp \/ Down
  \/ \E level \in {1, 2}, fails \in BOOLEAN : Sleep(level, fails)
  \/ \E tags \in SUBSET Tags :
     \E done \in [Workers -> WakeProgress(tags)], fails \in BOOLEAN :
       WakeUp(tags, done, fails)
  \/ \E m \in Models, F \in SUBSET (Workers \ active) : StartWeightUpdate(m, F)
  \/ \E F \in SUBSET active : UpdateWeights(F)
  \/ \E F, L \in SUBSET active : FinishWeightUpdate(F, L)

Spec == Init /\ [][Next]_vars

-----------------------------------------------------------------------------
(* Properties.                                                             *)

Content == {"current", "stale", "lost"}

TypeOK ==
  /\ engine \in Engines
  /\ phase \in {"down", "device", "loaded", "sized", "allocated", "serving"}
  /\ cost \in [Workers -> Costs]
  /\ free \in [Workers -> Int]
  /\ plan \in [Workers -> [saved : BOOLEAN, kv : Int]]
  /\ planned \subseteq Workers /\ kv \in Int
  /\ sleeping \subseteq Tags /\ raised \in BOOLEAN
  /\ mapped \in [Workers -> SUBSET Tags]
  /\ buffers \in [Workers -> [Models -> Content]]
  /\ saved \in [Workers -> [Models -> Content \cup {"none"}]]
  /\ zeroMeta \in [Workers -> {"none", "current", "lost"}]
  /\ active \subseteq Workers /\ isDraft \subseteq Workers
  /\ target \in [Workers -> {"main", "draft"}]
  /\ session \in {"none", "main", "draft"}
  /\ missed \subseteq Workers /\ verdict \in BOOLEAN

\* What the graphs of a worker took beyond what its KV cache left for them: a
\* profiled boot leaves the estimate, or nothing, a plan what an earlier boot
\* measured.
BeyondEstimate(w) ==
  IF w \in planned \/ cost[w].graphs <= Applied(w) THEN 0
  ELSE cost[w].graphs - Applied(w)

\* A worker that serves has room for the activation peak it measured, but for
\* what its graphs took beyond the estimate: all of it where the KV cache was
\* sized by the plan of an earlier boot, or the estimate was high enough,
\* whatever memory this process found, on every worker of the group although
\* each measured its own.
PeakFits ==
  phase = "serving" =>
    \A w \in Workers : free[w] + BeyondEstimate(w) >= cost[w].headroom

\* An engine the executor holds awake serves from memory that is there, with
\* the buffers as they were or as the last update made them and the KV-zero
\* metadata alive, whatever sleeps of either level, partial wakes, wakes that
\* raised half-way and were called again, and updates came before; a sleep that
\* raised is excepted.
ServesIntact ==
  phase = "serving" /\ ~raised /\ sleeping = {} =>
    \A w \in Workers :
      /\ mapped[w] = Tags
      /\ \A m \in Models : buffers[w][m] = "current"
      /\ zeroMeta[w] = "current"

\* The engine of a worker aims at the draft model exactly in a session for it:
\* no failure of a start, a chunk or a finish leaves the next update of the
\* main model going to the draft.
TargetFollowsSession ==
  \A w \in Workers :
    target[w] = (IF w \in active \cap isDraft THEN "draft" ELSE "main")

\* A start and a finish that returned on every worker vouch for the chunks
\* between them: every worker loaded each of them into the model of the
\* session.
FinishVouches == verdict => missed = {}
=============================================================================
