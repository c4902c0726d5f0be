------------------------- MODULE WorkerLife_proofs -------------------------
(***************************************************************************)
(* The safety of a worker's life for any number of workers, any costs and  *)
(* memory, with and without a draft model.  Memory, what an awake engine   *)
(* serves from, and the weight-update sessions touch different variables:  *)
(* each has an invariant of its own.                                       *)
(***************************************************************************)
EXTENDS WorkerLife, TLAPS

-----------------------------------------------------------------------------
(* Type correctness.                                                       *)

\* Every part of a worker's memory is a number of units.
LEMMA CostNumbers ==
  ASSUME cost \in [Workers -> Costs], NEW w \in Workers
  PROVE  /\ cost[w].comm \in Nat /\ cost[w].consumed \in Nat
         /\ cost[w].headroom \in Nat /\ cost[w].estimate \in Nat
         /\ cost[w].graphs \in Nat
  BY CostAssumption

\* Estimates, answers and suggestions are numbers, of either sign.
LEMMA MemoryNumbers ==
  ASSUME TypeOK, NEW w \in Workers, NEW fromPlan
  PROVE  /\ Applied(w) \in Nat
         /\ Available(w, fromPlan) \in Int
         /\ Suggested(w) \in Int
<1>1. /\ cost[w].consumed \in Nat /\ cost[w].headroom \in Nat
      /\ cost[w].estimate \in Nat /\ cost[w].graphs \in Nat
  BY CostNumbers DEF TypeOK
<1>2. Applied(w) \in Nat
  BY <1>1 DEF Applied
<1>3. plan[w].kv \in Int
  BY DEF TypeOK
<1> QED
  BY <1>1, <1>2, <1>3, MemoryAssumption DEF Available, Suggested

\* The types hold before the first boot.
LEMMA InitType == Init => TypeOK
<1> SUFFICES ASSUME Init PROVE TypeOK
  OBVIOUS
<1>1. /\ free \in [Workers -> Int]
      /\ plan \in [Workers -> [saved : BOOLEAN, kv : Int]]
      /\ mapped \in [Workers -> SUBSET Tags]
      /\ zeroMeta \in [Workers -> {"none", "current", "lost"}]
      /\ target \in [Workers -> {"main", "draft"}]
  BY DEF Init, Each, NoPlan
<1>2. /\ buffers \in [Workers -> [Models -> Content]]
      /\ saved \in [Workers -> [Models -> Content \cup {"none"}]]
  BY DEF Init, Each, PerModel, Content
<1>3. /\ engine \in Engines /\ cost \in [Workers -> Costs]
  <2>1. engine \in Engines /\ cost \in [Workers -> engine.costs]
    BY DEF Init
  <2>2. engine.costs \subseteq Costs
    BY <2>1 DEF Costs
  <2> QED
    BY <2>1, <2>2
<1>4. /\ phase = "down" /\ planned = {} /\ kv = 0 /\ sleeping = {} /\ raised \in BOOLEAN
      /\ active = {} /\ isDraft = {} /\ session = "none" /\ missed = {}
      /\ verdict \in BOOLEAN
  BY DEF Init
<1> QED
  BY <1>1, <1>2, <1>3, <1>4 DEF TypeOK

\* The boot keeps the types.
LEMMA BootType ==
  ASSUME TypeOK,
         InitDevice \/ LoadModel \/ SizeKvCache \/ AllocateKvCache \/ WarmUp \/ Down
  PROVE  TypeOK'
<1>1. CASE InitDevice
  <2>1. PICK found \in [Workers -> FreeMemory] :
          free' = [w \in Workers |-> found[w] - cost[w].comm]
    BY <1>1 DEF InitDevice
  <2>2. \A w \in Workers : found[w] \in Nat /\ cost[w].comm \in Nat
    BY CostNumbers, MemoryAssumption DEF TypeOK
  <2>3. free' \in [Workers -> Int]
    BY <2>1, <2>2
  <2> QED
    BY <1>1, <2>3 DEF TypeOK, InitDevice, sleepVars, updateVars
<1>2. CASE LoadModel
  <2>1. \A w \in Workers : free[w] \in Int /\ cost[w].consumed \in Nat
    BY CostNumbers DEF TypeOK
  <2>2. free' \in [Workers -> Int]
    BY <1>2, <2>1 DEF LoadModel
  <2>3. mapped' \in [Workers -> SUBSET Tags]
    BY <1>2 DEF LoadModel, Each, Tags
  <2>4. buffers' \in [Workers -> [Models -> Content]]
    BY <1>2 DEF LoadModel, Each, PerModel, Content
  <2> QED
    BY <1>2, <2>2, <2>3, <2>4 DEF TypeOK, LoadModel, updateVars
<1>3. CASE SizeKvCache
  <2>1. kv' \in Int /\ planned' \subseteq Workers
    BY <1>3, MemoryNumbers DEF SizeKvCache
  <2> QED
    BY <1>3, <2>1 DEF TypeOK, SizeKvCache, sleepVars, updateVars
<1>4. CASE AllocateKvCache
  <2>1. free' \in [Workers -> Int]
    BY <1>4 DEF AllocateKvCache, TypeOK
  <2>2. mapped' \in [Workers -> SUBSET Tags]
    BY <1>4 DEF AllocateKvCache, TypeOK, Tags
  <2>3. zeroMeta' \in [Workers -> {"none", "current", "lost"}]
    BY <1>4 DEF AllocateKvCache, Each
  <2> QED
    BY <1>4, <2>1, <2>2, <2>3 DEF TypeOK, AllocateKvCache, updateVars
<1>5. CASE WarmUp
  <2>1. \A w \in Workers : /\ free[w] \in Int /\ cost[w].graphs \in Nat
                           /\ Suggested(w) \in Int
    BY CostNumbers, MemoryNumbers DEF TypeOK
  <2>2. free' \in [Workers -> Int]
    BY <1>5, <2>1 DEF WarmUp
  <2>3. plan' \in [Workers -> [saved : BOOLEAN, kv : Int]]
    BY <1>5, <2>1 DEF WarmUp, TypeOK
  <2> QED
    BY <1>5, <2>2, <2>3 DEF TypeOK, WarmUp, sleepVars, updateVars
<1>6. CASE Down
  <2>1. /\ free' \in [Workers -> Int]
        /\ mapped' \in [Workers -> SUBSET Tags]
        /\ zeroMeta' \in [Workers -> {"none", "current", "lost"}]
        /\ target' \in [Workers -> {"main", "draft"}]
    BY <1>6 DEF Down, Each
  <2>2. /\ buffers' \in [Workers -> [Models -> Content]]
        /\ saved' \in [Workers -> [Models -> Content \cup {"none"}]]
    BY <1>6 DEF Down, Each, PerModel, Content
  <2>3. /\ phase' = "down" /\ engine' = engine /\ cost' = cost /\ plan' = plan
        /\ planned' = {} /\ kv' = 0 /\ sleeping' = {} /\ raised' \in BOOLEAN
        /\ active' = {} /\ isDraft' = {} /\ session' = "none" /\ missed' = {}
        /\ verdict' \in BOOLEAN
    BY <1>6 DEF Down
  <2> QED
    BY <2>1, <2>2, <2>3 DEF TypeOK
<1> QED
  BY <1>1, <1>2, <1>3, <1>4, <1>5, <1>6

\* Sleeping, waking and updating keep the types.
LEMMA ServingType ==
  ASSUME TypeOK,
         \/ \E level \in {1, 2}, fails \in BOOLEAN : Sleep(level, fails)
         \/ \E tags \in SUBSET Tags :
            \E done \in [Workers -> WakeProgress(tags)], fails \in BOOLEAN :
              WakeUp(tags, done, fails)
         \/ \E m \in Models, F \in SUBSET Workers : StartWeightUpdate(m, F)
         \/ \E F \in SUBSET Workers : UpdateWeights(F)
         \/ \E F, L \in SUBSET Workers : FinishWeightUpdate(F, L)
  PROVE  TypeOK'
<1>1. ASSUME NEW level \in {1, 2}, NEW fails \in BOOLEAN, Sleep(level, fails)
      PROVE  TypeOK'
  <2>1. mapped' \in [Workers -> SUBSET Tags]
    BY <1>1 DEF Sleep, Each, Tags
  <2>2. \A w \in Workers, m \in Models : ToSave(w, m) \in Content
    BY DEF ToSave, TypeOK, Content
  <2>3. /\ saved' \in [Workers -> [Models -> Content \cup {"none"}]]
        /\ buffers' \in [Workers -> [Models -> Content]]
    BY <1>1, <2>2 DEF Sleep, TypeOK, Each, PerModel, Content
  <2>4. zeroMeta' \in [Workers -> {"none", "current", "lost"}]
    BY <1>1 DEF Sleep, TypeOK
  <2>5. sleeping' \subseteq Tags /\ raised' \in BOOLEAN
    BY <1>1 DEF Sleep, TypeOK
  <2> QED
    BY <1>1, <2>1, <2>3, <2>4, <2>5 DEF Sleep, TypeOK, memoryVars, updateVars
<1>2. ASSUME NEW tags \in SUBSET Tags, NEW done \in [Workers -> WakeProgress(tags)],
             NEW fails \in BOOLEAN, WakeUp(tags, done, fails)
      PROVE  TypeOK'
  <2>1. mapped' \in [Workers -> SUBSET Tags]
    <3>1. \A w \in Workers : done[w].memory \in SUBSET tags
      BY DEF WakeProgress
    <3> QED
      BY <1>2, <3>1 DEF WakeUp, TypeOK
  <2>2. /\ saved' \in [Workers -> [Models -> Content \cup {"none"}]]
        /\ buffers' \in [Workers -> [Models -> Content]]
    <3>1. \A w \in Workers, m \in Models :
            /\ buffers[w][m] \in Content
            /\ saved[w][m] # "none" => saved[w][m] \in Content
      BY DEF TypeOK
    <3>2. buffers' = [w \in Workers |-> [m \in Models |->
            IF m \in done[w].models /\ saved[w][m] # "none" THEN saved[w][m]
            ELSE buffers[w][m]]]
      BY <1>2 DEF WakeUp
    <3>3. saved' = [w \in Workers |-> [m \in Models |->
            IF m \in done[w].models THEN "none" ELSE saved[w][m]]]
      BY <1>2 DEF WakeUp, AfterRestore
    <3>4. buffers' \in [Workers -> [Models -> Content]]
      BY <3>1, <3>2
    <3>5. saved' \in [Workers -> [Models -> Content \cup {"none"}]]
      <4>1. \A w \in Workers, m \in Models : saved[w][m] \in Content \cup {"none"}
        BY DEF TypeOK
      <4> QED
        BY <3>3, <4>1
    <3> QED
      BY <3>4, <3>5
  <2>3. sleeping' \subseteq Tags /\ raised' \in BOOLEAN
    BY <1>2 DEF WakeUp, TypeOK
  <2> QED
    BY <1>2, <2>1, <2>2, <2>3 DEF WakeUp, TypeOK, memoryVars, updateVars
<1>3. ASSUME NEW m \in Models, NEW F \in SUBSET Workers, StartWeightUpdate(m, F)
      PROVE  TypeOK'
  <2>1. target' \in [Workers -> {"main", "draft"}]
    BY <1>3 DEF StartWeightUpdate, TypeOK, TargetAfterFailedStart
  <2>2. /\ active' \subseteq Workers /\ isDraft' \subseteq Workers
        /\ session' \in {"none", "main", "draft"}
        /\ missed' \subseteq Workers /\ verdict' \in BOOLEAN
    BY <1>3, ModelAssumption DEF StartWeightUpdate, TypeOK
  <2> QED
    BY <1>3, <2>1, <2>2 DEF StartWeightUpdate, TypeOK, memoryVars, sleepVars
<1>4. ASSUME NEW F \in SUBSET Workers, UpdateWeights(F) PROVE TypeOK'
  <2>1. target' \in [Workers -> {"main", "draft"}]
    BY <1>4 DEF UpdateWeights, TypeOK
  <2>2. buffers' \in [Workers -> [Models -> Content]]
    BY <1>4 DEF UpdateWeights, TypeOK, Content
  <2>3. \A w \in Workers, m \in Models : Worst(saved[w][m]) \in Content \cup {"none"}
    BY DEF Worst, TypeOK, Content
  <2>4. saved' \in [Workers -> [Models -> Content \cup {"none"}]]
    BY <1>4, <2>3 DEF UpdateWeights, TypeOK
  <2>5. active' \subseteq Workers /\ missed' \subseteq Workers
    BY <1>4 DEF UpdateWeights, ActiveAfterChunk, TypeOK
  <2> QED
    BY <1>4, <2>1, <2>2, <2>4, <2>5 DEF UpdateWeights, TypeOK, memoryVars
<1>5. ASSUME NEW F \in SUBSET Workers, NEW L \in SUBSET Workers,
             FinishWeightUpdate(F, L)
      PROVE  TypeOK'
  <2>1. target' \in [Workers -> {"main", "draft"}]
    BY <1>5 DEF FinishWeightUpdate, TypeOK
  <2>2. /\ active' \subseteq Workers /\ session' \in {"none", "main", "draft"}
        /\ verdict' \in BOOLEAN
    BY <1>5 DEF FinishWeightUpdate, TypeOK
  <2> QED
    BY <1>5, <2>1, <2>2 DEF FinishWeightUpdate, TypeOK, memoryVars, sleepVars
<1> QED
  BY <1>1, <1>2, <1>3, <1>4, <1>5

\* Every call keeps them.
LEMMA TypeStep == TypeOK /\ [Next]_vars => TypeOK'
<1> SUFFICES ASSUME TypeOK, [Next]_vars PROVE TypeOK'
  OBVIOUS
<1>1. CASE UNCHANGED vars
  BY <1>1 DEF vars, TypeOK
<1>2. CASE Next
  <2>1. active \in SUBSET Workers
    BY DEF TypeOK
  <2> QED
    BY <1>2, <2>1, BootType, ServingType DEF Next
<1> QED
  BY <1>1, <1>2

\* The state of the workers keeps its types, through boots, failures and
\* restarts (gpu_worker.py, Worker).
THEOREM TypeCorrect == Spec => []TypeOK
<1>1. Init => TypeOK
  BY InitType
<1>2. TypeOK /\ [Next]_vars => TypeOK'
  BY TypeStep
<1> QED
  BY <1>1, <1>2, PTL DEF Spec

-----------------------------------------------------------------------------
(* Memory.                                                                 *)

\* A saved plan was made for what the worker takes on every boot; a planned
\* worker has one.
PlansFit ==
  /\ \A w \in Workers : plan[w].saved => plan[w].kv = Suggested(w)
  /\ \A w \in planned : plan[w].saved

\* The free memory of each stage of the boot, with the KV cache within every
\* worker's answer.
RoomLeft ==
  /\ phase = "device" => \A w \in Workers : free[w] >= Requested
  /\ phase = "loaded" => \A w \in Workers : free[w] >= Requested - cost[w].consumed
  /\ phase = "sized" => \A w \in Workers :
       /\ free[w] >= Requested - cost[w].consumed
       /\ kv <= Available(w, planned)
  /\ phase = "allocated" => \A w \in Workers :
       /\ free[w] >= Requested - cost[w].consumed - kv
       /\ kv <= Available(w, planned)

MemoryInv == PlansFit /\ RoomLeft /\ PeakFits

\* What a worker has left when its KV cache is within its answer covers the
\* graphs and the peak, but for what the graphs took beyond the estimate.
LEMMA AnswerLeavesPeak ==
  ASSUME TypeOK, PlansFit, NEW w \in Workers, kv <= Available(w, planned),
         free[w] >= Requested - cost[w].consumed - kv
  PROVE  (free[w] - cost[w].graphs) + BeyondEstimate(w) >= cost[w].headroom
<1>1. /\ cost[w].consumed \in Nat /\ cost[w].headroom \in Nat
      /\ cost[w].estimate \in Nat /\ cost[w].graphs \in Nat
  BY CostNumbers DEF TypeOK
<1>2. /\ free[w] \in Int /\ kv \in Int /\ Applied(w) \in Nat
      /\ Requested \in Nat /\ Redundancy \in Nat
  BY MemoryNumbers, MemoryAssumption DEF TypeOK
<1>3. CASE w \in planned
  <2>1. kv <= Requested - (cost[w].consumed + (cost[w].headroom + Applied(w))
                            + cost[w].graphs) - Redundancy
    BY <1>3 DEF PlansFit, Available, Suggested
  <2>2. BeyondEstimate(w) = 0
    BY <1>3 DEF BeyondEstimate
  <2> QED
    BY <1>1, <1>2, <2>1, <2>2
<1>4. CASE w \notin planned
  <2>1. kv <= Requested - (cost[w].consumed + cost[w].headroom) - Applied(w)
    BY <1>4 DEF Available
  <2>2. CASE cost[w].graphs <= Applied(w)
    <3>1. BeyondEstimate(w) = 0
      BY <2>2 DEF BeyondEstimate
    <3> QED
      BY <1>1, <1>2, <2>1, <2>2, <3>1
  <2>3. CASE ~(cost[w].graphs <= Applied(w))
    <3>1. BeyondEstimate(w) = cost[w].graphs - Applied(w)
      BY <1>4, <2>3 DEF BeyondEstimate
    <3> QED
      BY <1>1, <1>2, <2>1, <3>1
  <2> QED
    BY <2>2, <2>3
<1> QED
  BY <1>3, <1>4

\* A boot's steps take from each worker no more than its answer allows, and
\* nothing after the boot takes more.
LEMMA MemoryStep == TypeOK /\ MemoryInv /\ [Next]_vars => MemoryInv'
<1> SUFFICES ASSUME TypeOK, MemoryInv, [Next]_vars PROVE MemoryInv'
  OBVIOUS
<1> USE DEF MemoryInv
<1>1. CASE InitDevice
  <2>1. PICK found \in [Workers -> FreeMemory] :
          /\ \A w \in Workers : found[w] - cost[w].comm >= Requested
          /\ free' = [w \in Workers |-> found[w] - cost[w].comm]
    BY <1>1 DEF InitDevice, InitSnapshot
  <2>2. \A w \in Workers : free'[w] >= Requested
    BY <2>1
  <2> QED
    BY <1>1, <2>2 DEF InitDevice, PlansFit, RoomLeft, PeakFits, Suggested, Applied
<1>2. CASE LoadModel
  <2>1. \A w \in Workers : free'[w] >= Requested - cost[w].consumed
    <3> SUFFICES ASSUME NEW w \in Workers
                 PROVE  free'[w] >= Requested - cost[w].consumed
      OBVIOUS
    <3>1. /\ free[w] \in Int /\ cost[w].consumed \in Nat /\ Requested \in Nat
      BY CostNumbers, MemoryAssumption DEF TypeOK
    <3>2. free'[w] = free[w] - cost[w].consumed /\ free[w] >= Requested
      BY <1>2 DEF LoadModel, RoomLeft
    <3> QED
      BY <3>1, <3>2
  <2> QED
    BY <1>2, <2>1 DEF LoadModel, PlansFit, RoomLeft, PeakFits, Suggested, Applied
<1>3. CASE SizeKvCache
  <2>1. PICK fromPlan \in SUBSET {w \in Workers : plan[w].saved}, v \in Workers :
          /\ \A w \in Workers : Available(v, fromPlan) <= Available(w, fromPlan)
          /\ kv' = Available(v, fromPlan) /\ planned' = fromPlan
    BY <1>3 DEF SizeKvCache
  <2>2. \A w \in Workers : Available(w, planned)' = Available(w, fromPlan)
    BY <1>3, <2>1 DEF SizeKvCache, Available, Applied
  <2>3. PlansFit'
    BY <1>3, <2>1 DEF SizeKvCache, PlansFit, Suggested, Applied
  <2>4. RoomLeft'
    BY <1>3, <2>1, <2>2 DEF SizeKvCache, RoomLeft
  <2> QED
    BY <1>3, <2>3, <2>4 DEF SizeKvCache, PeakFits
<1>4. CASE AllocateKvCache
  <2>1. \A w \in Workers : free'[w] >= Requested - cost[w].consumed - kv
    <3> SUFFICES ASSUME NEW w \in Workers
                 PROVE  free'[w] >= Requested - cost[w].consumed - kv
      OBVIOUS
    <3>1. /\ free[w] \in Int /\ cost[w].consumed \in Nat /\ Requested \in Nat
          /\ kv \in Int
      BY CostNumbers, MemoryAssumption DEF TypeOK
    <3>2. free'[w] = free[w] - kv /\ free[w] >= Requested - cost[w].consumed
      BY <1>4 DEF AllocateKvCache, RoomLeft
    <3> QED
      BY <3>1, <3>2
  <2>2. \A w \in Workers : Available(w, planned)' = Available(w, planned)
    BY <1>4 DEF AllocateKvCache, Available, Applied
  <2>3. PlansFit'
    BY <1>4 DEF AllocateKvCache, PlansFit, Suggested, Applied
  <2>4. RoomLeft'
    BY <1>4, <2>1, <2>2 DEF AllocateKvCache, RoomLeft
  <2> QED
    BY <1>4, <2>3, <2>4 DEF AllocateKvCache, PeakFits
<1>5. CASE WarmUp
  <2>1. PlansFit'
    <3>1. \A w \in Workers : Suggested(w)' = Suggested(w)
      BY <1>5 DEF WarmUp, Suggested, Applied
    <3> QED
      BY <1>5, <3>1 DEF WarmUp, PlansFit, TypeOK
  <2>2. RoomLeft'
    BY <1>5 DEF WarmUp, RoomLeft
  <2>3. PeakFits'
    <3> SUFFICES ASSUME NEW w \in Workers
                 PROVE  free'[w] + BeyondEstimate(w) >= cost[w].headroom
      <4>1. \A w \in Workers : BeyondEstimate(w)' = BeyondEstimate(w)
        BY <1>5 DEF WarmUp, BeyondEstimate, Applied
      <4> QED
        BY <1>5, <4>1 DEF WarmUp, PeakFits
    <3>1. /\ free[w] >= Requested - cost[w].consumed - kv
          /\ kv <= Available(w, planned)
      BY <1>5 DEF WarmUp, RoomLeft
    <3>2. free'[w] = free[w] - cost[w].graphs
      BY <1>5 DEF WarmUp
    <3> QED
      BY <3>1, <3>2, AnswerLeavesPeak
  <2> QED
    BY <2>1, <2>2, <2>3
<1>6. CASE Down
  BY <1>6 DEF Down, PlansFit, RoomLeft, PeakFits, Suggested, Applied
<1>7. CASE memoryVars' = memoryVars
  BY <1>7 DEF memoryVars, PlansFit, RoomLeft, PeakFits, BeyondEstimate, Suggested,
     Available, Applied
<1>8. ASSUME NEW level \in {1, 2}, NEW fails \in BOOLEAN, Sleep(level, fails)
      PROVE  memoryVars' = memoryVars
  BY <1>8 DEF Sleep
<1>9. ASSUME NEW tags \in SUBSET Tags, NEW done, NEW fails, WakeUp(tags, done, fails)
      PROVE  memoryVars' = memoryVars
  BY <1>9 DEF WakeUp
<1>10. ASSUME NEW m \in Models, NEW F, StartWeightUpdate(m, F)
       PROVE  memoryVars' = memoryVars
  BY <1>10 DEF StartWeightUpdate
<1>11. ASSUME NEW F, UpdateWeights(F) PROVE memoryVars' = memoryVars
  BY <1>11 DEF UpdateWeights
<1>12. ASSUME NEW F, NEW L, FinishWeightUpdate(F, L) PROVE memoryVars' = memoryVars
  BY <1>12 DEF FinishWeightUpdate
<1>13. CASE UNCHANGED vars
  BY <1>7, <1>13 DEF vars, memoryVars
<1> QED
  BY <1>1, <1>2, <1>3, <1>4, <1>5, <1>6, <1>7, <1>8, <1>9, <1>10, <1>11, <1>12, <1>13
  DEF Next

\* For any costs: what a serving worker lacks of the room for its activation
\* peak is no more than what its graphs took beyond an estimate, nothing with a
\* plan (determine_available_memory, compile_or_warm_up_model).
THEOREM ThePeakFits == Spec => []PeakFits
<1>1. Init => MemoryInv
  BY DEF Init, MemoryInv, PlansFit, RoomLeft, PeakFits, Each, NoPlan
<1>2. TypeOK /\ MemoryInv /\ [Next]_vars => MemoryInv'
  BY MemoryStep
<1>3. MemoryInv => PeakFits
  BY DEF MemoryInv
<1> QED
  BY <1>1, <1>2, <1>3, TypeCorrect, PTL DEF Spec

-----------------------------------------------------------------------------
(* What an awake engine serves from.                                       *)

\* Before the first step nothing sleeps and nothing is saved; from the load on
\* the buffers are current, from the allocation on both pools are mapped.
Booting ==
  /\ phase # "serving" =>
       /\ ~raised /\ sleeping = {}
       /\ \A w \in Workers, m \in Models : saved[w][m] = "none"
  /\ phase \in {"loaded", "sized", "allocated"} =>
       \A w \in Workers, m \in Models : buffers[w][m] = "current"
  /\ phase \in {"loaded", "sized"} => \A w \in Workers : mapped[w] = {"weights"}
  /\ phase = "allocated" =>
       \A w \in Workers : mapped[w] = Tags /\ zeroMeta[w] = "current"

\* What the executor does not hold asleep is mapped.  Buffers that are not
\* current are saved, which happens only while the weights sleep.
Held ==
  phase = "serving" /\ ~raised =>
    \A w \in Workers :
      /\ Tags \ sleeping \subseteq mapped[w] /\ mapped[w] \subseteq Tags
      /\ zeroMeta[w] = "current"
      /\ \A m \in Models :
           \/ saved[w][m] = "none" /\ buffers[w][m] = "current"
           \/ saved[w][m] = "current" /\ "weights" \in sleeping

ServeInv == Booting /\ Held

\* A step that changes neither the phase nor what is mapped, saved and held.
LEMMA ServeUnchanged ==
  ASSUME ServeInv, phase' = phase, UNCHANGED sleepVars
  PROVE  ServeInv'
  BY DEF ServeInv, Booting, Held, sleepVars

\* A boot ends with everything mapped and current.
LEMMA BootServes ==
  ASSUME TypeOK, ServeInv,
         InitDevice \/ LoadModel \/ SizeKvCache \/ AllocateKvCache \/ WarmUp \/ Down
  PROVE  ServeInv'
<1> USE DEF ServeInv
<1>1. CASE InitDevice
  BY <1>1 DEF InitDevice, Booting, Held, sleepVars
<1>2. CASE LoadModel
  <2>1. /\ phase = "device" /\ phase' = "loaded"
        /\ raised' = raised /\ sleeping' = sleeping /\ saved' = saved
    BY <1>2 DEF LoadModel
  <2>2. \A w \in Workers : mapped'[w] = {"weights"}
    BY <1>2 DEF LoadModel, Each
  <2>3. \A w \in Workers, m \in Models : buffers'[w][m] = "current"
    BY <1>2 DEF LoadModel, Each, PerModel
  <2> QED
    BY <2>1, <2>2, <2>3 DEF Booting, Held
<1>3. CASE SizeKvCache
  BY <1>3 DEF SizeKvCache, Booting, Held, sleepVars
<1>4. CASE AllocateKvCache
  <2>1. /\ phase = "sized" /\ phase' = "allocated"
        /\ raised' = raised /\ sleeping' = sleeping /\ saved' = saved
        /\ buffers' = buffers
    BY <1>4 DEF AllocateKvCache
  <2>2. \A w \in Workers : mapped'[w] = Tags
    BY <1>4 DEF AllocateKvCache, Booting, Tags
  <2>3. \A w \in Workers : zeroMeta'[w] = "current"
    BY <1>4 DEF AllocateKvCache, Each
  <2> QED
    BY <2>1, <2>2, <2>3 DEF Booting, Held
<1>5. CASE WarmUp
  BY <1>5 DEF WarmUp, Booting, Held, sleepVars
<1>6. CASE Down
  <2>1. phase' = "down" /\ raised' = FALSE /\ sleeping' = {}
    BY <1>6 DEF Down
  <2>2. \A w \in Workers, m \in Models : saved'[w][m] = "none"
    BY <1>6 DEF Down, Each, PerModel
  <2> QED
    BY <2>1, <2>2 DEF Booting, Held
<1> QED
  BY <1>1, <1>2, <1>3, <1>4, <1>5, <1>6

\* A sleep of either level keeps, or saves, what is current.
LEMMA SleepServes ==
  ASSUME TypeOK, ServeInv, NEW level \in {1, 2}, NEW fails \in BOOLEAN,
         Sleep(level, fails)
  PROVE  ServeInv'
<1>1. phase = "serving" /\ phase' = "serving" /\ sleeping = {}
  BY DEF Sleep, memoryVars
<1>2. Booting'
  BY <1>1 DEF Booting
<1>3. Held'
  <2> SUFFICES ASSUME ~raised', NEW w \in Workers
      PROVE  /\ Tags \ sleeping' \subseteq mapped'[w] /\ mapped'[w] \subseteq Tags
             /\ zeroMeta'[w] = "current"
             /\ \A m \in Models :
                  \/ saved'[w][m] = "none" /\ buffers'[w][m] = "current"
                  \/ saved'[w][m] = "current" /\ "weights" \in sleeping'
    BY DEF Held
  <2>1. ~fails /\ sleeping' = Tags /\ ~raised
    BY DEF Sleep
  <2>2. /\ mapped[w] = Tags /\ zeroMeta[w] = "current"
        /\ \A m \in Models : saved[w][m] = "none" /\ buffers[w][m] = "current"
    <3>1. /\ Tags \ {} \subseteq mapped[w] /\ mapped[w] \subseteq Tags
          /\ zeroMeta[w] = "current"
          /\ \A m \in Models :
               \/ saved[w][m] = "none" /\ buffers[w][m] = "current"
               \/ saved[w][m] = "current" /\ "weights" \in {}
      BY <1>1, <2>1 DEF ServeInv, Held
    <3>2. mapped[w] = Tags
      BY <3>1
    <3> QED
      BY <3>1, <3>2
  <2>3. mapped'[w] = {}
    BY DEF Sleep, Each
  <2>4. zeroMeta'[w] = "current"
    BY <2>2 DEF Sleep, ZeroMetaTag, Tags
  <2>5. CASE level = 2
    <3>1. \A m \in Models : ToSave(w, m) = "current"
      BY <2>2 DEF ToSave, Tags
    <3>2. \A m \in Models : saved'[w][m] = ToSave(w, m)
      BY <2>5 DEF Sleep
    <3> QED
      BY <2>1, <2>3, <2>4, <3>1, <3>2 DEF Tags
  <2>6. CASE level # 2
    <3>1. saved' = saved /\ buffers' = buffers
      BY <2>6 DEF Sleep
    <3> QED
      BY <2>1, <2>2, <2>3, <2>4, <3>1
  <2> QED
    BY <2>5, <2>6
<1> QED
  BY <1>2, <1>3 DEF ServeInv

\* The weights come back together with what was saved.
LEMMA WakeServes ==
  ASSUME TypeOK, ServeInv, NEW tags \in SUBSET Tags,
         NEW done \in [Workers -> WakeProgress(tags)], NEW fails \in BOOLEAN,
         WakeUp(tags, done, fails)
  PROVE  ServeInv'
<1>1. phase = "serving" /\ phase' = "serving"
  BY DEF WakeUp, memoryVars
<1>2. Booting'
  BY <1>1 DEF Booting
<1>3. Held'
  <2> SUFFICES ASSUME ~raised', NEW w \in Workers
      PROVE  /\ Tags \ sleeping' \subseteq mapped'[w] /\ mapped'[w] \subseteq Tags
             /\ zeroMeta'[w] = "current"
             /\ \A m \in Models :
                  \/ saved'[w][m] = "none" /\ buffers'[w][m] = "current"
                  \/ saved'[w][m] = "current" /\ "weights" \in sleeping'
    BY DEF Held
  <2>0. /\ ~raised /\ (~fails => done[w] = WokenUp(tags))
        /\ done[w] \in WakeProgress(tags)
    BY DEF WakeUp
  <2>1. /\ Tags \ sleeping \subseteq mapped[w] /\ mapped[w] \subseteq Tags
        /\ zeroMeta[w] = "current"
        /\ \A m \in Models :
             \/ saved[w][m] = "none" /\ buffers[w][m] = "current"
             \/ saved[w][m] = "current" /\ "weights" \in sleeping
    BY <1>1, <2>0 DEF ServeInv, Held
  <2>2. /\ mapped'[w] = mapped[w] \cup done[w].memory
        /\ sleeping' = (IF fails THEN sleeping ELSE sleeping \ tags)
        /\ tags \subseteq sleeping /\ zeroMeta' = zeroMeta
    BY DEF WakeUp
  <2>3. /\ done[w].memory \subseteq tags
        /\ ~fails => done[w].memory = tags
    BY <2>0 DEF WakeProgress, WokenUp
  <2>4. /\ Tags \ sleeping' \subseteq mapped'[w] /\ mapped'[w] \subseteq Tags
        /\ zeroMeta'[w] = "current"
    BY <2>1, <2>2, <2>3
  <2>5. /\ saved' = [v \in Workers |-> [m \in Models |->
              IF m \in done[v].models THEN "none" ELSE saved[v][m]]]
        /\ buffers' = [v \in Workers |-> [m \in Models |->
              IF m \in done[v].models /\ saved[v][m] # "none" THEN saved[v][m]
              ELSE buffers[v][m]]]
    BY DEF WakeUp, AfterRestore
  <2>6. ASSUME NEW m \in Models
        PROVE  \/ saved'[w][m] = "none" /\ buffers'[w][m] = "current"
               \/ saved'[w][m] = "current" /\ "weights" \in sleeping'
    <3>1. CASE m \in done[w].models
      <4>1. saved'[w][m] = "none"
        BY <2>5, <3>1
      <4>2. buffers'[w][m] = (IF saved[w][m] # "none" THEN saved[w][m] ELSE buffers[w][m])
        BY <2>5, <3>1
      <4> QED
        BY <2>1, <4>1, <4>2
    <3>2. CASE m \notin done[w].models
      <4>1. saved'[w][m] = saved[w][m] /\ buffers'[w][m] = buffers[w][m]
        BY <2>5, <3>2
      <4>2. ~fails => "weights" \notin tags
        BY <2>0, <3>2 DEF WokenUp
      <4> QED
        BY <2>1, <2>2, <4>1, <4>2
    <3> QED
      BY <3>1, <3>2
  <2> QED
    BY <2>4, <2>6
<1> QED
  BY <1>2, <1>3 DEF ServeInv

\* A chunk comes while the weights are awake, when nothing is saved.
LEMMA ChunkServes ==
  ASSUME TypeOK, ServeInv, NEW F \in SUBSET Workers, UpdateWeights(F)
  PROVE  ServeInv'
<1>1. /\ phase = "serving" /\ phase' = "serving"
      /\ UNCHANGED <<sleeping, raised, mapped, zeroMeta>>
  BY DEF UpdateWeights, CanUpdate, memoryVars
<1>2. Booting'
  BY <1>1 DEF Booting
<1>3. Held'
  <2> SUFFICES ASSUME ~raised, NEW w \in Workers, NEW m \in Models
      PROVE  saved'[w][m] = "none" /\ buffers'[w][m] = "current"
    BY <1>1 DEF Held, ServeInv
  <2>1. "weights" \notin sleeping
    BY DEF UpdateWeights, CanUpdate
  <2>2. saved[w][m] = "none" /\ buffers[w][m] = "current"
    BY <1>1, <2>1 DEF ServeInv, Held
  <2>3. Worst(saved[w][m]) = "none"
    BY <2>2 DEF Worst
  <2> QED
    BY <2>2, <2>3 DEF UpdateWeights
<1> QED
  BY <1>2, <1>3 DEF ServeInv

\* Every call keeps what an awake engine serves from.
LEMMA ServeStep == TypeOK /\ ServeInv /\ [Next]_vars => ServeInv'
<1> SUFFICES ASSUME TypeOK, ServeInv, [Next]_vars PROVE ServeInv'
  OBVIOUS
<1>1. ASSUME NEW m, NEW F, StartWeightUpdate(m, F) PROVE ServeInv'
  BY <1>1, ServeUnchanged DEF StartWeightUpdate, memoryVars
<1>2. ASSUME NEW F, NEW L, FinishWeightUpdate(F, L) PROVE ServeInv'
  BY <1>2, ServeUnchanged DEF FinishWeightUpdate, memoryVars
<1>3. CASE UNCHANGED vars
  BY <1>3, ServeUnchanged DEF vars, sleepVars
<1>4. active \in SUBSET Workers
  BY DEF TypeOK
<1> QED
  BY <1>1, <1>2, <1>3, <1>4, BootServes, SleepServes, WakeServes, ChunkServes DEF Next

\* Whatever slept, woke up and was updated before, an engine that is awake
\* serves from memory that is there, with current buffers (Worker.sleep,
\* wake_up, update_weights).
THEOREM AwakeServesIntact == Spec => []ServesIntact
<1>1. Init => ServeInv
  BY DEF Init, ServeInv, Booting, Held, Each, PerModel
<1>2. TypeOK /\ ServeInv /\ [Next]_vars => ServeInv'
  BY ServeStep
<1>3. ServeInv => ServesIntact
  BY DEF ServeInv, Held, ServesIntact
<1> QED
  BY <1>1, <1>2, <1>3, TypeCorrect, PTL DEF Spec

-----------------------------------------------------------------------------
(* Weight updates.                                                         *)

\* A session begun everywhere is for one model on all workers; while all of
\* them are still in it none has missed a chunk.
OneSession ==
  /\ session = "main" => isDraft = {}
  /\ session = "draft" => isDraft = Workers
  /\ session # "none" /\ active = Workers => missed = {}

\* A finish that returned everywhere left no session behind.
VerdictStands == verdict => active = {} /\ missed = {}

UpdateInv == TargetFollowsSession /\ OneSession /\ VerdictStands

\* A start that fails on some workers begins no session.
LEMMA StartUpdates ==
  ASSUME TypeOK, UpdateInv, NEW m \in Models, NEW F \in SUBSET Workers,
         StartWeightUpdate(m, F)
  PROVE  UpdateInv'
<1> DEFINE starts == Workers \ (active \cup F)
<1> USE DEF UpdateInv
<1>1. /\ active' = active \cup starts
      /\ isDraft' = IF m = "draft" THEN isDraft \cup starts ELSE isDraft \ starts
      /\ session' = IF starts = Workers THEN m ELSE "none"
      /\ missed' = {} /\ verdict' = FALSE
      /\ target' = [w \in Workers |->
           IF w \in active THEN target[w]
           ELSE IF w \in F THEN "main"
           ELSE IF m = "draft" THEN "draft" ELSE target[w]]
  BY DEF StartWeightUpdate, TargetAfterFailedStart
<1>2. m \in {"main", "draft"}
  BY ModelAssumption
<1>3. TargetFollowsSession'
  <2> SUFFICES ASSUME NEW w \in Workers
      PROVE  target'[w] = (IF w \in active' \cap isDraft' THEN "draft" ELSE "main")
    BY DEF TargetFollowsSession
  <2>1. target[w] = (IF w \in active \cap isDraft THEN "draft" ELSE "main")
    BY DEF TargetFollowsSession
  <2> HIDE DEF UpdateInv
  <2>2. CASE w \in active
    BY <1>1, <2>1, <2>2
  <2>3. CASE w \notin active /\ w \in F
    BY <1>1, <2>3
  <2>4. CASE w \notin active /\ w \notin F
    BY <1>1, <1>2, <2>1, <2>4
  <2> QED
    BY <2>2, <2>3, <2>4
<1>4. OneSession'
  <2>1. CASE starts = Workers
    BY <1>1, <1>2, <2>1 DEF OneSession, TypeOK
  <2>2. CASE starts # Workers
    BY <1>1, <2>2 DEF OneSession
  <2> QED
    BY <2>1, <2>2
<1>5. VerdictStands'
  BY <1>1 DEF VerdictStands
<1> QED
  BY <1>3, <1>4, <1>5

\* A worker that fails a chunk is out of the session.
LEMMA ChunkUpdates ==
  ASSUME TypeOK, UpdateInv, NEW F \in SUBSET Workers, UpdateWeights(F)
  PROVE  UpdateInv'
<1>1. /\ active # {} /\ active' = active \ F
      /\ target' = [w \in Workers |-> IF w \in active \cap F THEN "main" ELSE target[w]]
      /\ missed' = missed \cup {w \in Workers : w \notin active \ F \/ target[w] # session}
      /\ UNCHANGED <<isDraft, session, verdict>>
  BY DEF UpdateWeights, ActiveAfterChunk
<1>2. \A w \in Workers :
        target[w] = (IF w \in active \cap isDraft THEN "draft" ELSE "main")
  BY DEF UpdateInv, TargetFollowsSession
<1>3. TargetFollowsSession'
  <2> SUFFICES ASSUME NEW w \in Workers
      PROVE  target'[w] = (IF w \in active' \cap isDraft' THEN "draft" ELSE "main")
    BY DEF TargetFollowsSession
  <2>1. CASE w \in active \cap F
    BY <1>1, <2>1
  <2>2. CASE w \notin active \cap F
    BY <1>1, <1>2, <2>2
  <2> QED
    BY <2>1, <2>2
<1>4. OneSession'
  <2>1. ASSUME session # "none", active' = Workers PROVE missed' = {}
    <3>1. active = Workers /\ active \ F = Workers
      BY <1>1, <2>1 DEF TypeOK
    <3>2. missed = {}
      BY <2>1, <3>1 DEF UpdateInv, OneSession
    <3>3. session \in {"main", "draft"}
      BY <2>1 DEF TypeOK
    <3>4. \A w \in Workers : target[w] = session
      BY <1>2, <3>1, <3>3 DEF UpdateInv, OneSession
    <3> QED
      BY <1>1, <3>1, <3>2, <3>4
  <2> QED
    BY <1>1, <2>1 DEF UpdateInv, OneSession
<1>5. VerdictStands'
  BY <1>1 DEF UpdateInv, VerdictStands
<1> QED
  BY <1>3, <1>4, <1>5 DEF UpdateInv

\* A finish returns everywhere only where everybody was still in it.
LEMMA FinishUpdates ==
  ASSUME TypeOK, UpdateInv, NEW F \in SUBSET Workers, NEW L \in SUBSET Workers,
         FinishWeightUpdate(F, L)
  PROVE  UpdateInv'
<1> DEFINE ends == active \ F
<1>1. /\ active # {} /\ active' = active \ ends
      /\ target' = [w \in Workers |-> IF w \in ends THEN "main" ELSE target[w]]
      /\ verdict' = (ends = Workers /\ L = {} /\ session # "none")
      /\ session' = (IF ends = Workers THEN "none" ELSE session)
      /\ UNCHANGED <<isDraft, missed>>
  BY DEF FinishWeightUpdate
<1>2. TargetFollowsSession'
  <2> SUFFICES ASSUME NEW w \in Workers
      PROVE  target'[w] = (IF w \in active' \cap isDraft' THEN "draft" ELSE "main")
    BY DEF TargetFollowsSession
  <2>1. target[w] = (IF w \in active \cap isDraft THEN "draft" ELSE "main")
    BY DEF UpdateInv, TargetFollowsSession
  <2>2. CASE w \in ends
    BY <1>1, <2>2
  <2>3. CASE w \notin ends
    BY <1>1, <2>1, <2>3
  <2> QED
    BY <2>2, <2>3
<1>3. OneSession'
  <2>1. CASE ends = Workers
    BY <1>1, <2>1 DEF OneSession
  <2>2. CASE ends # Workers
    <3>1. active' = Workers => active = Workers
      BY <1>1 DEF TypeOK
    <3> QED
      BY <1>1, <2>2, <3>1 DEF UpdateInv, OneSession
  <2> QED
    BY <2>1, <2>2
<1>4. VerdictStands'
  <2> SUFFICES ASSUME verdict' PROVE active' = {} /\ missed' = {}
    BY DEF VerdictStands
  <2>1. ends = Workers /\ session # "none"
    BY <1>1
  <2>2. active = Workers
    BY <2>1 DEF TypeOK
  <2> QED
    BY <1>1, <2>1, <2>2 DEF UpdateInv, OneSession
<1> QED
  BY <1>2, <1>3, <1>4 DEF UpdateInv

\* Every call keeps the sessions in line.
LEMMA UpdateStep == TypeOK /\ UpdateInv /\ [Next]_vars => UpdateInv'
<1> SUFFICES ASSUME TypeOK, UpdateInv, [Next]_vars PROVE UpdateInv'
  OBVIOUS
<1>1. CASE updateVars' = updateVars
  BY <1>1 DEF updateVars, UpdateInv, TargetFollowsSession, OneSession, VerdictStands
<1>2. ASSUME InitDevice \/ LoadModel \/ SizeKvCache \/ AllocateKvCache \/ WarmUp
      PROVE  updateVars' = updateVars
  BY <1>2 DEF InitDevice, LoadModel, SizeKvCache, AllocateKvCache, WarmUp
<1>3. ASSUME NEW level \in {1, 2}, NEW fails \in BOOLEAN, Sleep(level, fails)
      PROVE  updateVars' = updateVars
  BY <1>3 DEF Sleep
<1>4. ASSUME NEW tags, NEW done, NEW fails, WakeUp(tags, done, fails)
      PROVE  updateVars' = updateVars
  BY <1>4 DEF WakeUp
<1>5. CASE Down
  <2>1. /\ active' = {} /\ session' = "none" /\ verdict' = FALSE
        /\ \A w \in Workers : target'[w] = "main"
    BY <1>5 DEF Down, Each
  <2> QED
    BY <2>1 DEF UpdateInv, TargetFollowsSession, OneSession, VerdictStands
<1>6. CASE UNCHANGED vars
  BY <1>1, <1>6 DEF vars, updateVars
<1>7. active \in SUBSET Workers
  BY DEF TypeOK
<1> QED
  BY <1>1, <1>2, <1>3, <1>4, <1>5, <1>6, <1>7, StartUpdates, ChunkUpdates, FinishUpdates
  DEF Next

\* The invariant of the sessions holds throughout.
LEMMA UpdateInvariant == Spec => []UpdateInv
<1>1. Init => UpdateInv
  <2> SUFFICES ASSUME Init PROVE UpdateInv
    OBVIOUS
  <2>1. \A w \in Workers : target[w] = "main"
    BY DEF Init, Each
  <2>2. active = {} /\ session = "none" /\ verdict = FALSE
    BY DEF Init
  <2> QED
    BY <2>1, <2>2 DEF UpdateInv, TargetFollowsSession, OneSession, VerdictStands
<1>2. TypeOK /\ UpdateInv /\ [Next]_vars => UpdateInv'
  BY UpdateStep
<1> QED
  BY <1>1, <1>2, TypeCorrect, PTL DEF Spec

\* No failure of a start, a chunk or a finish leaves a worker's engine aimed at
\* the wrong model (reset_weight_update_target).
THEOREM TheTargetFollows == Spec => []TargetFollowsSession
<1>1. UpdateInv => TargetFollowsSession
  BY DEF UpdateInv
<1> QED
  BY <1>1, UpdateInvariant, PTL

\* When a start and its finish returned on every worker, every worker loaded
\* every chunk between them (start_weight_update, update_weights,
\* finish_weight_update).
THEOREM AFinishVouches == Spec => []FinishVouches
<1>1. UpdateInv => FinishVouches
  BY DEF UpdateInv, VerdictStands, FinishVouches
<1> QED
  BY <1>1, UpdateInvariant, PTL
=============================================================================
