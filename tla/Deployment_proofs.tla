------------------------- MODULE Deployment_proofs -------------------------
(***************************************************************************)
(* The deployment: the safety of the watchdog's recovery for every fleet,  *)
(* order, threshold and number of faults, and of the image build for all   *)
(* stages, patches and drifted anchors.                                    *)
(***************************************************************************)
EXTENDS FleetWatchdog, ImageBuild, TLAPS

-----------------------------------------------------------------------------
(* FleetWatchdog.                                                          *)

\* The watchdog never counts more failures than were seen in a row, and a
\* recovery starts from zero.
CountBelowStreak ==
  /\ fails <= streak
  /\ pc \in {"teardown", "launch", "await"} => fails = 0

\* Where commands on the head do not fail, no head exists while the ranks
\* before it are launched.
HeadGone ==
  HeadNode \notin flaky /\ pc = "launch" => container[HeadNode] = "none"

\* Then the ranks launched so far, on nodes whose commands do not fail, wait
\* for their head.
LaunchedWait ==
  HeadNode \notin flaky /\ pc = "launch" =>
    \A i \in 1 .. at - 1 :
      RANK_ORDER[i] \notin flaky => container[RANK_ORDER[i]] = "waiting"

Inv == TypeOK /\ CountBelowStreak /\ HeadGone /\ LaunchedWait

-----------------------------------------------------------------------------
\* The passes have a first and a last position.
LEMMA Positions ==
  /\ Len(RANK_ORDER) \in Nat
  /\ 1 <= Len(RANK_ORDER)
  /\ \A i \in 1 .. Len(RANK_ORDER) : RANK_ORDER[i] \in Node
<1>1. /\ Len(RANK_ORDER) \in Nat
      /\ \A i \in 1 .. Len(RANK_ORDER) : RANK_ORDER[i] \in Node
  BY OrderAssumption
<1>2. PICK i \in 1 .. Len(RANK_ORDER) : RANK_ORDER[i] = HeadNode
  BY NodeAssumption, OrderAssumption
<1> QED
  BY <1>1, <1>2

\* Every node has a position, and only the head has the last one.
LEMMA LastIsHead ==
  /\ \A n \in Node : \E i \in 1 .. Len(RANK_ORDER) : RANK_ORDER[i] = n
  /\ RANK_ORDER[Len(RANK_ORDER)] = HeadNode
  /\ \A i \in 1 .. Len(RANK_ORDER) :
       RANK_ORDER[i] = HeadNode => i = Len(RANK_ORDER)
<1>1. Len(RANK_ORDER) \in 1 .. Len(RANK_ORDER)
  BY Positions
<1>2. DOMAIN RANK_ORDER = 1 .. Len(RANK_ORDER)
  BY OrderAssumption
<1> QED
  BY <1>1, <1>2, OrderAssumption

\* Removing a container keeps every container in a state of its kind.
LEMMA RemovedType ==
  ASSUME TypeOK, NEW n \in Node
  PROVE  /\ Removed(n) \in [Node -> WorkerState \cup HeadState]
         /\ \A w \in Worker : Removed(n)[w] \in WorkerState
         /\ Removed(n)[HeadNode] \in HeadState
         /\ Removed(n)[n] = "none"
  BY NodeAssumption DEF TypeOK, Removed, Worker, WorkerState, HeadState

\* A container that is not connected to the removed one is left alone.
LEMMA RemovedKeepsWaiting ==
  ASSUME TypeOK, NEW n \in Node, NEW m \in Node, m # n,
         (container[m] = "waiting" /\ m # HeadNode) \/ container[m] = "none"
  PROVE  Removed(n)[m] = container[m]
  BY DEF TypeOK, Removed

-----------------------------------------------------------------------------
LEMMA InitInv == Init => Inv
<1> SUFFICES ASSUME Init PROVE Inv
  OBVIOUS
<1>1. TypeOK
  BY NodeAssumption, Positions, ThresholdAssumption, FaultAssumption
  DEF Init, TypeOK, Worker, WorkerState, HeadState
<1>2. CountBelowStreak /\ HeadGone /\ LaunchedWait
  BY DEF Init, CountBelowStreak, HeadGone, LaunchedWait
<1> QED
  BY <1>1, <1>2 DEF Inv

\* What the fleet does by itself keeps the containers in states of their kind,
\* creates no head and does not move a worker whose head is gone.
LEMMA FleetStep ==
  ASSUME Inv,
         \/ \E w \in Worker : Rendezvous(w) \/ WorkerExits(w)
         \/ Ready \/ HeadExits \/ EngineDies
  PROVE  Inv'
<1> USE DEF Inv
<1>1. UNCHANGED <<flaky, pc, at, fails, streak>>
  BY DEF Rendezvous, WorkerExits, Ready, HeadExits, EngineDies
<1>2. faults' \in 0 .. MaxFaults
  BY FaultAssumption
  DEF TypeOK, Rendezvous, WorkerExits, Ready, HeadExits, EngineDies, Fault
<1>3. /\ container' \in [Node -> WorkerState \cup HeadState]
      /\ \A w \in Worker : container'[w] \in WorkerState
      /\ container'[HeadNode] \in HeadState
      /\ container[HeadNode] = "none" =>
           /\ container'[HeadNode] = "none"
           /\ \A w \in Worker : container[w] = "waiting" => container'[w] = "waiting"
  <2>1. ASSUME NEW w \in Worker, Rendezvous(w) PROVE <1>3!1 /\ <1>3!2 /\ <1>3!3 /\ <1>3!4
    BY <2>1, NodeAssumption DEF TypeOK, Rendezvous, Worker, WorkerState, HeadState
  <2>2. ASSUME NEW w \in Worker, WorkerExits(w) PROVE <1>3!1 /\ <1>3!2 /\ <1>3!3 /\ <1>3!4
    BY <2>2, NodeAssumption DEF TypeOK, WorkerExits, Worker, WorkerState, HeadState
  <2>3. CASE Ready
    BY <2>3, NodeAssumption DEF TypeOK, Ready, Worker, WorkerState, HeadState
  <2>4. CASE HeadExits
    BY <2>4, NodeAssumption, RemovedType
    DEF TypeOK, HeadExits, Worker, WorkerState, HeadState
  <2>5. CASE EngineDies
    BY <2>5, NodeAssumption DEF TypeOK, EngineDies, Worker, WorkerState, HeadState
  <2> QED
    BY <2>1, <2>2, <2>3, <2>4, <2>5
<1>4. TypeOK' /\ CountBelowStreak'
  BY <1>1, <1>2, <1>3 DEF TypeOK, CountBelowStreak
<1>5. HeadGone'
  BY <1>1, <1>3 DEF HeadGone
<1>6. LaunchedWait'
  <2> SUFFICES ASSUME HeadNode \notin flaky, pc = "launch", NEW i \in 1 .. at - 1,
                      RANK_ORDER[i] \notin flaky
               PROVE  container'[RANK_ORDER[i]] = "waiting"
    BY <1>1 DEF LaunchedWait
  <2>1. RANK_ORDER[i] \in Worker
    <3>1. at \in 1 .. Len(RANK_ORDER)
      BY DEF TypeOK
    <3>2. i \in 1 .. Len(RANK_ORDER) /\ i # Len(RANK_ORDER)
      BY <3>1, Positions
    <3> QED
      BY <3>2, Positions, LastIsHead DEF Worker
  <2>2. container[HeadNode] = "none" /\ container[RANK_ORDER[i]] = "waiting"
    BY DEF HeadGone, LaunchedWait
  <2> QED
    BY <1>3, <2>1, <2>2
<1> QED
  BY <1>4, <1>5, <1>6

LEMMA TeardownStep == Inv /\ Teardown => Inv'
<1> SUFFICES ASSUME Inv, Teardown PROVE Inv'
  OBVIOUS
<1> USE DEF Inv
<1> DEFINE n == RANK_ORDER[at]
<1>1. n \in Node /\ at \in 1 .. Len(RANK_ORDER)
  BY Positions DEF TypeOK
<1>2. /\ container' \in [Node -> WorkerState \cup HeadState]
      /\ \A w \in Worker : container'[w] \in WorkerState
      /\ container'[HeadNode] \in HeadState
      /\ n \notin flaky => container'[n] = "none"
  BY <1>1, RemovedType DEF Teardown, TypeOK
<1>3. faults' \in 0 .. MaxFaults
  BY FaultAssumption DEF TypeOK, Teardown, Fault
<1>4. /\ pc' \in {"teardown", "launch"}
      /\ at' \in 1 .. Len(RANK_ORDER)
      /\ pc' = "launch" => at = Len(RANK_ORDER) /\ at' = 1
      /\ flaky' = flaky
      /\ fails' = fails /\ streak' = streak /\ fails = 0
  BY <1>1, Positions DEF Teardown, TeardownEnds, TypeOK, CountBelowStreak
<1>5. TypeOK' /\ CountBelowStreak'
  BY <1>2, <1>3, <1>4 DEF TypeOK, CountBelowStreak
<1>6. HeadGone'
  BY <1>1, <1>2, <1>4, Positions, LastIsHead DEF HeadGone
<1>7. LaunchedWait'
  BY <1>4 DEF LaunchedWait
<1> QED
  BY <1>5, <1>6, <1>7

LEMMA LaunchStep == Inv /\ Launch => Inv'
<1> SUFFICES ASSUME Inv, Launch PROVE Inv'
  OBVIOUS
<1> USE DEF Inv
<1> DEFINE n == RANK_ORDER[at]
<1>1. n \in Node /\ at \in 1 .. Len(RANK_ORDER) /\ pc = "launch"
  BY Positions DEF TypeOK, Launch
<1>2. /\ \/ container' = [Removed(n) EXCEPT ![n] = "waiting"]
         \/ n \in flaky /\ container' = container
         \/ n \in flaky /\ container' = [Removed(n) EXCEPT ![n] = "exited"]
      /\ faults' \in 0 .. MaxFaults
  BY FaultAssumption DEF Launch, LaunchRank, TypeOK, Fault
<1>3. /\ container' \in [Node -> WorkerState \cup HeadState]
      /\ \A w \in Worker : container'[w] \in WorkerState
      /\ container'[HeadNode] \in HeadState
  <2>1. /\ Removed(n) \in [Node -> WorkerState \cup HeadState]
        /\ \A w \in Worker : Removed(n)[w] \in WorkerState
        /\ Removed(n)[HeadNode] \in HeadState
    BY <1>1, RemovedType
  <2>2. ASSUME NEW s \in {"waiting", "exited"},
               container' = [Removed(n) EXCEPT ![n] = s]
        PROVE  <1>3!1 /\ <1>3!2 /\ <1>3!3
    BY <1>1, <2>1, <2>2, NodeAssumption DEF Worker, WorkerState, HeadState
  <2>3. CASE container' = container
    BY <2>3 DEF TypeOK
  <2> QED
    BY <1>2, <2>2, <2>3
<1>4. /\ pc' \in {"launch", "await"}
      /\ at' \in 1 .. Len(RANK_ORDER)
      /\ pc' = "launch" => at < Len(RANK_ORDER) /\ at' = at + 1
      /\ flaky' = flaky
      /\ fails' = fails /\ streak' = streak /\ fails = 0
  BY <1>1, Positions DEF Launch, TypeOK, CountBelowStreak
<1>5. TypeOK' /\ CountBelowStreak'
  BY <1>2, <1>3, <1>4 DEF TypeOK, CountBelowStreak
<1>6. HeadGone'
  <2> SUFFICES ASSUME HeadNode \notin flaky, pc' = "launch"
               PROVE  container'[HeadNode] = "none"
    BY <1>4 DEF HeadGone
  <2>1. n # HeadNode /\ container[HeadNode] = "none"
    BY <1>1, <1>4, Positions, LastIsHead DEF HeadGone
  <2>2. Removed(n)[HeadNode] = "none"
    BY <1>1, <2>1, NodeAssumption, RemovedKeepsWaiting
  <2> QED
    BY <1>1, <1>2, <2>1, <2>2, NodeAssumption, RemovedType
<1>7. LaunchedWait'
  <2> SUFFICES ASSUME HeadNode \notin flaky, pc' = "launch", NEW i \in 1 .. at' - 1,
                      RANK_ORDER[i] \notin flaky
               PROVE  container'[RANK_ORDER[i]] = "waiting"
    BY <1>4 DEF LaunchedWait
  <2>1. i \in 1 .. at /\ i \in 1 .. Len(RANK_ORDER) /\ RANK_ORDER[i] \in Node
    BY <1>1, <1>4, Positions
  <2>2. CASE RANK_ORDER[i] = n
    BY <1>1, <1>2, <2>2, RemovedType
  <2>3. CASE RANK_ORDER[i] # n
    <3>1. i \in 1 .. at - 1 /\ RANK_ORDER[i] # HeadNode
      BY <1>1, <1>4, <2>1, <2>3, Positions, LastIsHead
    <3>2. container[RANK_ORDER[i]] = "waiting"
      BY <1>1, <3>1 DEF LaunchedWait
    <3>3. Removed(n)[RANK_ORDER[i]] = "waiting"
      BY <1>1, <2>1, <2>3, <3>1, <3>2, RemovedKeepsWaiting
    <3> QED
      BY <1>1, <1>2, <2>1, <2>3, <3>2, <3>3, RemovedType
  <2> QED
    BY <2>2, <2>3
<1> QED
  BY <1>5, <1>6, <1>7

\* The steps of the watchdog that leave the containers alone.
LEMMA ProbeStep ==
  Inv /\ (ProbeOk \/ ProbeFails \/ AwaitOk \/ AwaitTimeout \/ Die \/ Restart)
    => Inv'
<1> SUFFICES ASSUME Inv,
                    ProbeOk \/ ProbeFails \/ AwaitOk \/ AwaitTimeout \/ Die \/ Restart
             PROVE  Inv'
  OBVIOUS
<1> USE DEF Inv
<1>1. /\ container' = container /\ flaky' = flaky
      /\ pc' \in {"probe", "teardown", "down"}
  BY DEF ProbeOk, ProbeFails, AwaitOk, AwaitTimeout, Die, Restart
<1>2. faults' \in 0 .. MaxFaults /\ at' \in 1 .. Len(RANK_ORDER)
  <2>1. at' = at \/ at' = 1
    BY DEF ProbeOk, ProbeFails, AwaitOk, AwaitTimeout, Die, Restart
  <2>2. faults' = faults \/ (faults > 0 /\ faults' = faults - 1)
    BY DEF Fault, ProbeOk, ProbeFails, AwaitOk, AwaitTimeout, Die, Restart
  <2> QED
    BY <2>1, <2>2, FaultAssumption, Positions DEF TypeOK
<1>3. /\ fails' \in 0 .. Threshold - 1 /\ streak' \in 0 .. Threshold
      /\ CountBelowStreak'
  <2>1. CASE ProbeOk
    BY <2>1, ThresholdAssumption
    DEF TypeOK, CountBelowStreak, ProbeOk, AfterSuccess, Probed
  <2>2. CASE ProbeFails
    BY <2>2, ThresholdAssumption
    DEF TypeOK, CountBelowStreak, ProbeFails, Fires, Probed
  <2>3. CASE AwaitOk \/ AwaitTimeout
    BY <2>3, ThresholdAssumption
    DEF TypeOK, CountBelowStreak, AwaitOk, AwaitTimeout, Probed
  <2>4. CASE Die \/ Restart
    BY <2>4, ThresholdAssumption DEF TypeOK, CountBelowStreak, Die, Restart
  <2> QED
    BY <2>1, <2>2, <2>3, <2>4
<1>4. TypeOK'
  BY <1>1, <1>2, <1>3 DEF TypeOK
<1>5. HeadGone' /\ LaunchedWait'
  BY <1>1 DEF HeadGone, LaunchedWait
<1> QED
  BY <1>3, <1>4, <1>5

LEMMA StutterStep == Inv /\ UNCHANGED vars => Inv'
  BY DEF Inv, vars, TypeOK, CountBelowStreak, HeadGone, LaunchedWait

LEMMA NextInv == Inv /\ [Next]_vars => Inv'
  BY FleetStep, TeardownStep, LaunchStep, ProbeStep, StutterStep
  DEF Next, Watchdog

\* The invariant of the recovery.
THEOREM Invariance == Spec => []Inv
  BY InitInv, NextInv, PTL DEF Spec

\* Type correctness: in particular the failure count never reaches the
\* threshold and stays there.
THEOREM TypeCorrect == Spec => []TypeOK
  BY Invariance, PTL DEF Inv

-----------------------------------------------------------------------------
\* A container starts in the launch pass only, at the pass's position.
LEMMA OnlyLaunchStarts ==
  ASSUME Inv, [Next]_vars, NEW n \in Node, Started(n)
  PROVE  pc = "launch" /\ n = RANK_ORDER[at]
<1>1. CASE Launch
  <2>1. RANK_ORDER[at] \in Node
    BY Positions DEF Inv, TypeOK
  <2>2. ASSUME n # RANK_ORDER[at] PROVE FALSE
    <3>1. container'[n] = container[n] \/ container'[n] = Removed(RANK_ORDER[at])[n]
      BY <1>1, <2>1, <2>2, RemovedType DEF Launch, LaunchRank, Inv
    <3> QED
      BY <2>2, <3>1 DEF Started, Removed
  <2> QED
    BY <1>1, <2>2 DEF Launch
<1>2. ASSUME ~Launch PROVE FALSE
  <2>1. CASE Teardown
    BY <2>1 DEF Teardown, Started, Removed, Inv, TypeOK
  <2>2. CASE HeadExits
    BY <2>2, NodeAssumption DEF HeadExits, Started, Removed, Inv, TypeOK
  <2>3. CASE EngineDies
    BY <2>3 DEF EngineDies, Started, Inv, TypeOK
  <2>4. ASSUME NEW w \in Worker, Rendezvous(w) \/ WorkerExits(w) PROVE FALSE
    BY <2>4 DEF Rendezvous, WorkerExits, Started, Inv, TypeOK
  <2>5. CASE Ready
    BY <2>5 DEF Ready, Started, Inv, TypeOK
  <2>6. CASE ProbeOk \/ ProbeFails \/ AwaitOk \/ AwaitTimeout \/ Die \/ Restart
    BY <2>6 DEF ProbeOk, ProbeFails, AwaitOk, AwaitTimeout, Die, Restart, Started
  <2>7. CASE UNCHANGED vars
    BY <2>7 DEF vars, Started
  <2> QED
    BY <1>2, <2>1, <2>2, <2>3, <2>4, <2>5, <2>6, <2>7 DEF Next, Watchdog
<1> QED
  BY <1>1, <1>2

\* If commands on the head's own machine do not fail, no worker ever starts
\* while an old head is dying, whatever fails on the other nodes.
THEOREM NoWorkerMeetsAnOldHead == Spec => NoStaleStart
<1>1. Inv /\ [Next]_vars => [HeadNode \notin flaky => MeetsNoOldHead]_vars
  BY OnlyLaunchStarts DEF Inv, HeadGone, Worker, MeetsNoOldHead
<1> QED
  BY <1>1, Invariance, PTL DEF Spec, NoStaleStart

\* Then a new head also finds every worker whose commands do not fail fresh and
\* waiting, wherever engines died and the watchdog was restarted.
THEOREM NewHeadFindsWorkers == Spec => HeadFindsWorkers
<1>1. Inv /\ [Next]_vars =>
        [HeadNode \notin flaky /\ Started(HeadNode) =>
           \A w \in Worker \ flaky : container[w] = "waiting"]_vars
  <2> SUFFICES ASSUME Inv, [Next]_vars, HeadNode \notin flaky,
                      Started(HeadNode), NEW w \in Worker \ flaky
               PROVE  container[w] = "waiting"
    OBVIOUS
  <2>1. pc = "launch" /\ RANK_ORDER[at] = HeadNode
    BY OnlyLaunchStarts, NodeAssumption
  <2>2. at = Len(RANK_ORDER)
    BY <2>1, Positions, LastIsHead DEF Inv, TypeOK
  <2>3. PICK i \in 1 .. Len(RANK_ORDER) : RANK_ORDER[i] = w
    BY LastIsHead DEF Worker
  <2>4. i \in 1 .. at - 1
    BY <2>2, <2>3, Positions, LastIsHead DEF Worker
  <2> QED
    BY <2>1, <2>3, <2>4 DEF Inv, LaunchedWait
<1> QED
  BY <1>1, Invariance, PTL DEF Spec, HeadFindsWorkers

\* A recovery starts only after Threshold probes failed in a row.
THEOREM NoEarlyTeardown == Spec => TeardownOnlyAfterStreak
<1>1. Inv /\ [Next]_vars =>
        [pc # "teardown" /\ pc' = "teardown" => streak' = Threshold]_vars
  <2> SUFFICES ASSUME Inv, [Next]_vars, pc # "teardown", pc' = "teardown"
               PROVE  streak' = Threshold
    OBVIOUS
  <2>1. ProbeFails /\ Fires(fails + 1)
    BY DEF Next, Watchdog, vars, ProbeOk, ProbeFails, Teardown, Launch, AwaitOk,
           AwaitTimeout, Die, Restart, Rendezvous, WorkerExits, Ready,
           HeadExits, EngineDies
  <2> QED
    BY <2>1, ThresholdAssumption
    DEF Inv, TypeOK, CountBelowStreak, ProbeFails, Fires, Probed
<1> QED
  BY <1>1, Invariance, PTL DEF Spec, TeardownOnlyAfterStreak

-----------------------------------------------------------------------------
(* ImageBuild: what the images, the builds and the containers have.        *)

\* A tree has each of some edits once and no other.
Holds(tree, edits) ==
  \A e \in Edit : tree.made[e] = (IF e \in edits THEN 1 ELSE 0)

\* What the stage below has put into a stage's tree.
BaseEdits(stage) == IF stage.base = Upstream THEN {} ELSE Ancestry[stage.base]

\* What the first patches of a stage put into it.
EditsBefore(stage, n) == UNION {Edits(stage.patches[i]) : i \in 1 .. n - 1}

\* A build has what is below its stage and the patches it came through.
JobWhole ==
  job # Nothing =>
    LET stage == StageAt(job.stage)
    IN /\ job.at <= Len(stage.patches) + 1
       /\ Holds(job.tree, BaseEdits(stage) \cup EditsBefore(stage, job.at))

\* While build.sh is at a stage, the stages before it are of this revision.
JobFresh ==
  job # Nothing => \A i \in 1 .. job.stage - 1 :
    images[Stages[i].tag] # Nothing /\ images[Stages[i].tag].rev = rev

\* The edits of a patch have all been made once, or none has.
WhollyMade(tree, patch) == \A e \in Edits(patch) : tree.made[e] = 1
NotMade(tree, patch) == \A e \in Edits(patch) : tree.made[e] = 0
Whole(tree) ==
  /\ \A e \in Edit : tree.made[e] <= 1
  /\ \A patch \in Patches(Overlay) : WhollyMade(tree, patch) \/ NotMade(tree, patch)

\* In a container the patches a script came through are made, and those of the
\* scripts that returned.
LiveWhole ==
  live # Nothing =>
    /\ Whole(live.tree)
    /\ \A patch \in Patches(Overlay) :
         patch.script \in vouched => WhollyMade(live.tree, patch)
    /\ live.script # Nothing => live.at >= 1 /\
         \A i \in 1 .. Len(Overlay.patches) :
           i < live.at /\ Overlay.patches[i].script = live.script =>
             WhollyMade(live.tree, Overlay.patches[i])

ImageInv ==
  ImageTypeOK /\ ImagesWhole /\ JobWhole /\ FinishedIsFresh /\ JobFresh /\ LiveWhole

-----------------------------------------------------------------------------
\* The stages are those of build.sh and the overlay.
LEMMA StagesAre ==
  /\ Len(Stages) \in Nat /\ Len(Stages) >= 1
  /\ \A i \in 1 .. Len(Stages) : Stages[i] \in AllStages /\ Stages[i].tag \in Tag
  /\ Overlay \in AllStages /\ Overlay.tag \in Tag /\ Overlay.base \in Tag
  /\ \A i \in 0 .. Len(Stages) : StageAt(i) \in AllStages /\ StageAt(i).tag \in Tag
  /\ \A s \in AllStages : s = Overlay \/ \E i \in 1 .. Len(Stages) : s = Stages[i]
<1>1. /\ Len(Stages) \in Nat /\ Len(Stages) >= 1
      /\ \A i \in 1 .. Len(Stages) : Stages[i] \in AllStages
      /\ Overlay \in AllStages
      /\ \A s \in AllStages : s = Overlay \/ \E i \in 1 .. Len(Stages) : s = Stages[i]
  BY StageAssumption DEF AllStages
<1>2. \A i \in 1 .. Len(Stages) : Stages[i].tag \in Tag
  BY <1>1 DEF Tag
<1>3. Overlay.tag \in Tag
  BY <1>1 DEF Tag
<1>4. Overlay.base \in Tag
  BY <1>2, StageAssumption
<1>5. \A i \in 0 .. Len(Stages) : StageAt(i) \in AllStages /\ StageAt(i).tag \in Tag
  BY <1>1, <1>2, <1>3 DEF StageAt
<1> QED
  BY <1>1, <1>2, <1>3, <1>4, <1>5

\* A tag is one stage's.
LEMMA TagsAreOwn == \A s, t \in AllStages : s.tag = t.tag => s = t
<1> SUFFICES ASSUME NEW s \in AllStages, NEW t \in AllStages, s.tag = t.tag PROVE s = t
  OBVIOUS
<1>1. CASE s = Overlay /\ t = Overlay
  BY <1>1
<1>2. ASSUME s = Overlay, NEW j \in 1 .. Len(Stages), t = Stages[j] PROVE s = t
  BY <1>2, StageAssumption
<1>3. ASSUME t = Overlay, NEW i \in 1 .. Len(Stages), s = Stages[i] PROVE s = t
  BY <1>3, StageAssumption
<1>4. ASSUME NEW i \in 1 .. Len(Stages), s = Stages[i], NEW j \in 1 .. Len(Stages), t = Stages[j]
      PROVE  s = t
  <2>1. i = j
    BY <1>4, StageAssumption
  <2> QED
    BY <1>4, <2>1
<1> QED
  BY <1>1, <1>2, <1>3, <1>4, StagesAre

\* StageOf finds it.
LEMMA StageOfTag ==
  /\ \A s \in AllStages : StageOf(s.tag) = s
  /\ \A t \in Tag : StageOf(t) \in AllStages /\ StageOf(t).tag = t
<1>1. \A s \in AllStages : StageOf(s.tag) = s
  <2> SUFFICES ASSUME NEW s \in AllStages PROVE StageOf(s.tag) = s
    OBVIOUS
  <2> DEFINE Found == StageOf(s.tag)
  <2>1. Found \in AllStages /\ Found.tag = s.tag
    BY DEF StageOf
  <2> QED
    BY <2>1, TagsAreOwn
<1>2. \A t \in Tag : \E s \in AllStages : t = s.tag
  BY DEF Tag
<1> QED
  BY <1>1, <1>2

\* The base of a stage of build.sh is upstream or the tag of an earlier one, and
\* every base is upstream or a tag.
LEMMA BasesAre ==
  \A s \in AllStages : s.base = Upstream \/ s.base \in Tag
<1> SUFFICES ASSUME NEW s \in AllStages PROVE s.base = Upstream \/ s.base \in Tag
  OBVIOUS
<1>1. CASE s = Overlay
  BY <1>1, StagesAre
<1>2. ASSUME NEW i \in 1 .. Len(Stages), s = Stages[i] PROVE s.base = Upstream \/ s.base \in Tag
  <2>1. s.base = Upstream \/ \E j \in 1 .. i - 1 : s.base = Stages[j].tag
    BY <1>2, StageAssumption
  <2>2. \A j \in 1 .. i - 1 : j \in 1 .. Len(Stages)
    BY StagesAre
  <2> QED
    BY <2>1, <2>2, StagesAre
<1> QED
  BY <1>1, <1>2, StagesAre

-----------------------------------------------------------------------------
(* The stages below a stage.                                               *)

\* What is below a tag is closed, and the least such set.
LEMMA BelowIsLeast ==
  ASSUME NEW tag \in Tag
  PROVE  /\ Below(tag) \subseteq Tag /\ tag \in Below(tag) /\ Closed(Below(tag))
         /\ \A tags \in SUBSET Tag : tag \in tags /\ Closed(tags) => Below(tag) \subseteq tags
<1>1. /\ Below(tag) \subseteq Tag /\ tag \in Below(tag)
      /\ \A tags \in SUBSET Tag : tag \in tags /\ Closed(tags) => Below(tag) \subseteq tags
  BY DEF Below
<1>2. ASSUME NEW t \in Below(tag), StageOf(t).base # Upstream
      PROVE  StageOf(t).base \in Below(tag)
  <2>1. StageOf(t).base \in Tag
    BY <1>1, <1>2, StageOfTag, BasesAre
  <2>2. \A tags \in SUBSET Tag : tag \in tags /\ Closed(tags) => StageOf(t).base \in tags
    BY <1>1, <1>2 DEF Closed
  <2> QED
    BY <2>1, <2>2 DEF Below
<1> QED
  BY <1>1, <1>2 DEF Closed

\* Below a stage are its tag and what is below its base.
LEMMA BelowStage ==
  ASSUME NEW stage \in AllStages
  PROVE  Below(stage.tag) = {stage.tag} \cup
           (IF stage.base = Upstream THEN {} ELSE Below(stage.base))
<1>1. stage.tag \in Tag /\ StageOf(stage.tag) = stage
  BY StageOfTag DEF Tag
<1>2. /\ Below(stage.tag) \subseteq Tag /\ stage.tag \in Below(stage.tag)
      /\ Closed(Below(stage.tag))
      /\ \A tags \in SUBSET Tag :
           stage.tag \in tags /\ Closed(tags) => Below(stage.tag) \subseteq tags
  BY <1>1, BelowIsLeast
<1>3. CASE stage.base = Upstream
  <2>1. Closed({stage.tag})
    BY <1>1, <1>3 DEF Closed
  <2> QED
    BY <1>1, <1>2, <1>3, <2>1
<1>4. CASE stage.base # Upstream
  <2>1. stage.base \in Tag
    BY <1>4, BasesAre
  <2>2. /\ Below(stage.base) \subseteq Tag /\ stage.base \in Below(stage.base)
        /\ Closed(Below(stage.base))
        /\ \A tags \in SUBSET Tag :
             stage.base \in tags /\ Closed(tags) => Below(stage.base) \subseteq tags
    BY <2>1, BelowIsLeast
  <2>3. stage.base \in Below(stage.tag)
    BY <1>1, <1>2, <1>4 DEF Closed
  <2>4. Below(stage.base) \subseteq Below(stage.tag)
    BY <1>2, <2>2, <2>3
  <2>5. Closed({stage.tag} \cup Below(stage.base))
    BY <1>1, <2>2 DEF Closed
  <2>6. Below(stage.tag) \subseteq {stage.tag} \cup Below(stage.base)
    BY <1>1, <1>2, <2>2, <2>5
  <2> QED
    BY <1>2, <1>4, <2>4, <2>6
<1> QED
  BY <1>3, <1>4

\* No stage is below its own base.
LEMMA NotBelowItsBase ==
  ASSUME NEW stage \in AllStages, stage.base # Upstream
  PROVE  stage.base \in Tag /\ stage.tag \notin Below(stage.base)
<1>1. stage.base \in Tag
  BY BasesAre
<1>2. ASSUME NEW n \in 1 .. Len(Stages) + 1,
             \E j \in 1 .. n - 1 : stage.base = Stages[j].tag
      PROVE  Below(stage.base) \subseteq {Stages[j].tag : j \in 1 .. n - 1}
  <2> DEFINE Earlier == {Stages[j].tag : j \in 1 .. n - 1}
  <2>1. \A j \in 1 .. n - 1 : j \in 1 .. Len(Stages)
    BY StagesAre
  <2>2. Earlier \subseteq Tag
    BY <2>1, StagesAre
  <2>3. ASSUME NEW t \in Earlier, StageOf(t).base # Upstream PROVE StageOf(t).base \in Earlier
    <3>1. PICK j \in 1 .. n - 1 : t = Stages[j].tag
      OBVIOUS
    <3>2. StageOf(t) = Stages[j]
      BY <2>1, <3>1, StagesAre, StageOfTag
    <3>3. PICK k \in 1 .. j - 1 : Stages[j].base = Stages[k].tag
      BY <2>1, <2>3, <3>2, StageAssumption
    <3>4. k \in 1 .. n - 1
      OBVIOUS
    <3> QED
      BY <3>2, <3>3, <3>4
  <2>4. Closed(Earlier)
    BY <2>3 DEF Closed
  <2>5. stage.base \in Earlier
    BY <1>2
  <2> HIDE DEF Earlier
  <2>6. Below(stage.base) \subseteq Earlier
    BY <1>1, <2>2, <2>4, <2>5, BelowIsLeast
  <2> QED
    BY <2>6 DEF Earlier
<1>3. CASE stage = Overlay
  <2>1. Len(Stages) + 1 \in 1 .. Len(Stages) + 1 /\ (Len(Stages) + 1) - 1 = Len(Stages)
    BY StagesAre
  <2>2. \E j \in 1 .. Len(Stages) : stage.base = Stages[j].tag
    BY <1>3, StageAssumption
  <2>3. Below(stage.base) \subseteq {Stages[j].tag : j \in 1 .. Len(Stages)}
    BY <1>2, <2>1, <2>2
  <2> QED
    BY <1>1, <1>3, <2>3, StageAssumption
<1>4. ASSUME NEW i \in 1 .. Len(Stages), stage = Stages[i]
      PROVE  stage.base \in Tag /\ stage.tag \notin Below(stage.base)
  <2>1. i \in 1 .. Len(Stages) + 1 /\ \A j \in 1 .. i - 1 : j \in 1 .. Len(Stages) /\ j # i
    BY StagesAre
  <2>2. \E j \in 1 .. i - 1 : stage.base = Stages[j].tag
    BY <1>4, StageAssumption
  <2>3. Below(stage.base) \subseteq {Stages[j].tag : j \in 1 .. i - 1}
    BY <1>2, <2>1, <2>2
  <2>4. \A j \in 1 .. i - 1 : Stages[j].tag # Stages[i].tag
    BY <2>1, StageAssumption
  <2> QED
    BY <1>1, <1>4, <2>3, <2>4
<1> QED
  BY <1>3, <1>4, StagesAre

-----------------------------------------------------------------------------
(* The edits of patches and stages.                                        *)

\* A stage's patches are counted from one, and each is a patch of the model.
LEMMA PatchesAre ==
  ASSUME NEW stage \in AllStages
  PROVE  /\ Len(stage.patches) \in Nat
         /\ \A i \in 1 .. Len(stage.patches) :
              /\ stage.patches[i] \in Patches(stage) /\ stage.patches[i] \in AllPatches
              /\ stage.patches[i].marker \in {"edit", "file", "none"}
              /\ Edits(stage.patches[i]) \subseteq Edit
         /\ \A patch \in Patches(stage) :
              \E i \in 1 .. Len(stage.patches) : patch = stage.patches[i]
<1>1. Len(stage.patches) \in Nat
  BY PatchAssumption
<1>2. \A i \in 1 .. Len(stage.patches) : stage.patches[i] \in Patches(stage)
  BY DEF Patches
<1>3. \A i \in 1 .. Len(stage.patches) : stage.patches[i] \in AllPatches
  BY <1>2 DEF AllPatches
<1>4. \A i \in 1 .. Len(stage.patches) : Edits(stage.patches[i]) \subseteq Edit
  BY <1>3 DEF Edit
<1>5. \A patch \in Patches(stage) :
        \E i \in 1 .. Len(stage.patches) : patch = stage.patches[i]
  BY DEF Patches
<1> QED
  BY <1>1, <1>2, <1>3, <1>4, <1>5, PatchAssumption

\* The edits of a stage are those of its patches in their order.
LEMMA EditsOfStage ==
  ASSUME NEW stage \in AllStages
  PROVE  /\ EditsBefore(stage, Len(stage.patches) + 1) = EditsOf(stage)
         /\ EditsBefore(stage, 1) = {}
         /\ EditsOf(stage) \subseteq Edit
         /\ \A n \in 1 .. Len(stage.patches) :
              /\ EditsBefore(stage, n + 1)
                   = EditsBefore(stage, n) \cup Edits(stage.patches[n])
              /\ EditsBefore(stage, n) \cap Edits(stage.patches[n]) = {}
              /\ EditsBefore(stage, n) \subseteq EditsOf(stage)
              /\ Edits(stage.patches[n]) \subseteq EditsOf(stage)
<1>0. Len(stage.patches) \in Nat
  BY PatchesAre
<1>1. EditsBefore(stage, Len(stage.patches) + 1) = EditsOf(stage)
  <2>1. (Len(stage.patches) + 1) - 1 = Len(stage.patches)
    BY <1>0
  <2> QED
    BY <2>1 DEF EditsBefore, EditsOf, Patches
<1>2. EditsBefore(stage, 1) = {}
  <2>1. 1 .. 1 - 1 = {}
    OBVIOUS
  <2> QED
    BY <2>1 DEF EditsBefore
<1>3. EditsOf(stage) \subseteq Edit
  BY PatchesAre DEF EditsOf
<1>4. ASSUME NEW n \in 1 .. Len(stage.patches)
      PROVE  /\ EditsBefore(stage, n + 1)
                  = EditsBefore(stage, n) \cup Edits(stage.patches[n])
             /\ EditsBefore(stage, n) \cap Edits(stage.patches[n]) = {}
             /\ EditsBefore(stage, n) \subseteq EditsOf(stage)
             /\ Edits(stage.patches[n]) \subseteq EditsOf(stage)
  <2>1. 1 .. (n + 1) - 1 = (1 .. n - 1) \cup {n}
    BY <1>0
  <2>2. EditsBefore(stage, n + 1) = EditsBefore(stage, n) \cup Edits(stage.patches[n])
    BY <2>1 DEF EditsBefore
  <2>3. \A i \in 1 .. n - 1 : i \in 1 .. Len(stage.patches) /\ i # n
    BY <1>0
  <2>4. \A i \in 1 .. n - 1 : Edits(stage.patches[i]) \cap Edits(stage.patches[n]) = {}
    BY <2>3, PatchAssumption
  <2>5. EditsBefore(stage, n) \cap Edits(stage.patches[n]) = {}
    BY <2>4 DEF EditsBefore
  <2>6. EditsBefore(stage, n) \subseteq EditsOf(stage)
    BY <2>3 DEF EditsBefore, EditsOf, Patches
  <2>7. Edits(stage.patches[n]) \subseteq EditsOf(stage)
    BY DEF EditsOf, Patches
  <2> QED
    BY <2>2, <2>5, <2>6, <2>7
<1> QED
  BY <1>1, <1>2, <1>3, <1>4

\* No edit is two stages'.
LEMMA StagesApart ==
  \A s, t \in AllStages : s # t => EditsOf(s) \cap EditsOf(t) = {}
<1> SUFFICES ASSUME NEW s \in AllStages, NEW t \in AllStages,
                    NEW e \in EditsOf(s), e \in EditsOf(t)
             PROVE  s = t
  OBVIOUS
<1>1. PICK p \in Patches(s) : e \in Edits(p)
  BY DEF EditsOf
<1>2. PICK q \in Patches(t) : e \in Edits(q)
  BY DEF EditsOf
<1>3. PICK i \in 1 .. Len(s.patches) : p = s.patches[i]
  BY <1>1, PatchesAre
<1>4. PICK j \in 1 .. Len(t.patches) : q = t.patches[j]
  BY <1>2, PatchesAre
<1> QED
  BY <1>1, <1>2, <1>3, <1>4, PatchAssumption

\* A stage's image has the stage's edits and those of its base, apart.
LEMMA AncestryOfStage ==
  ASSUME NEW stage \in AllStages
  PROVE  /\ stage.tag \in Tag
         /\ Ancestry[stage.tag] = BaseEdits(stage) \cup EditsOf(stage)
         /\ BaseEdits(stage) \cap EditsOf(stage) = {}
<1>1. stage.tag \in Tag /\ StageOf(stage.tag) = stage
  BY StageOfTag DEF Tag
<1>2. CASE stage.base = Upstream
  <2>1. Below(stage.tag) = {stage.tag}
    BY <1>2, BelowStage
  <2>2. Ancestry[stage.tag] = EditsOf(stage)
    BY <1>1, <2>1 DEF Ancestry
  <2> QED
    BY <1>1, <1>2, <2>2 DEF BaseEdits
<1>3. CASE stage.base # Upstream
  <2>1. stage.base \in Tag /\ stage.tag \notin Below(stage.base)
    BY <1>3, NotBelowItsBase
  <2>2. Below(stage.tag) = {stage.tag} \cup Below(stage.base)
    BY <1>3, BelowStage
  <2>3. Ancestry[stage.tag] = EditsOf(stage) \cup Ancestry[stage.base]
    BY <1>1, <2>1, <2>2 DEF Ancestry
  <2>4. \A t \in Below(stage.base) :
          EditsOf(StageOf(t)) \cap EditsOf(stage) = {}
    <3>1. \A t \in Below(stage.base) :
            t \in Tag /\ StageOf(t) \in AllStages /\ StageOf(t) # stage
      BY <2>1, BelowIsLeast, StageOfTag
    <3> QED
      BY <3>1, StagesApart
  <2>5. Ancestry[stage.base] \cap EditsOf(stage) = {}
    BY <2>1, <2>4 DEF Ancestry
  <2> QED
    BY <1>1, <1>3, <2>3, <2>5 DEF BaseEdits
<1> QED
  BY <1>2, <1>3

\* An image has all the edits of a stage or none.
LEMMA StageWhollyIn ==
  ASSUME NEW tag \in Tag, NEW stage \in AllStages
  PROVE  EditsOf(stage) \subseteq Ancestry[tag] \/ EditsOf(stage) \cap Ancestry[tag] = {}
<1>1. CASE stage.tag \in Below(tag)
  <2>1. StageOf(stage.tag) = stage
    BY StageOfTag
  <2> QED
    BY <1>1, <2>1 DEF Ancestry
<1>2. CASE stage.tag \notin Below(tag)
  <2>1. \A t \in Below(tag) : t \in Tag /\ StageOf(t) \in AllStages /\ StageOf(t) # stage
    BY <1>2, BelowIsLeast, StageOfTag
  <2>2. \A t \in Below(tag) : EditsOf(StageOf(t)) \cap EditsOf(stage) = {}
    BY <2>1, StagesApart
  <2> QED
    BY <2>2 DEF Ancestry
<1> QED
  BY <1>1, <1>2

\* Nor two patches' of the overlay.
LEMMA PatchesApart ==
  \A i, j \in 1 .. Len(Overlay.patches) :
    Edits(Overlay.patches[i]) \cap Edits(Overlay.patches[j]) # {} => i = j
<1>1. Overlay \in AllStages
  BY StagesAre
<1>2. \A s, t \in AllStages :
        \A i \in 1 .. Len(s.patches), j \in 1 .. Len(t.patches) :
          Edits(s.patches[i]) \cap Edits(t.patches[j]) # {} => s = t /\ i = j
  BY PatchAssumption
<1> QED
  BY <1>1, <1>2, Zenon

-----------------------------------------------------------------------------
(* What a patch does to a tree.                                            *)

\* Making edits is counting them.
LEMMA MadeTree ==
  ASSUME NEW tree \in Tree, NEW edits \in SUBSET Edit
  PROVE  /\ Made(tree, edits) \in Tree
         /\ \A e \in Edit : Made(tree, edits).made[e] =
              IF e \in edits THEN tree.made[e] + 1 ELSE tree.made[e]
BY DEF Made, Tree

\* The edits still to make are the patch's.
LEMMA PendingEdits ==
  ASSUME NEW tree, NEW patch, Edits(patch) \subseteq Edit,
         patch.marker \in {"edit", "file", "none"}
  PROVE  Pending(tree, patch) \subseteq Edits(patch)
BY DEF Pending

\* A patch of which nothing was made makes its edits.
LEMMA AppliedMakes ==
  ASSUME NEW tree \in Tree, NEW patch, Edits(patch) \subseteq Edit,
         patch.marker \in {"edit", "file", "none"},
         NEW edits, Holds(tree, edits), edits \cap Edits(patch) = {}
  PROVE  /\ Applied(tree, patch) \in Tree
         /\ Holds(Applied(tree, patch), edits \cup Edits(patch))
<1>1. \A e \in Edits(patch) : tree.made[e] = 0
  BY DEF Holds
<1>2. Pending(tree, patch) = Edits(patch)
  BY <1>1 DEF Pending
<1>3. /\ Applied(tree, patch) \in Tree
      /\ \A e \in Edit : Applied(tree, patch).made[e] =
           IF e \in Edits(patch) THEN tree.made[e] + 1 ELSE tree.made[e]
  BY <1>2, MadeTree DEF Applied
<1> QED
  BY <1>3 DEF Holds

\* A patch that applies leaves every edit made at most once, and its own made.
LEMMA AppliedWhole ==
  ASSUME NEW tree \in Tree, Whole(tree),
         NEW k \in 1 .. Len(Overlay.patches), Applies(tree, Overlay.patches[k])
  PROVE  LET after == Applied(tree, Overlay.patches[k])
         IN /\ after \in Tree /\ Whole(after) /\ WhollyMade(after, Overlay.patches[k])
            /\ \A patch \in Patches(Overlay) :
                 WhollyMade(tree, patch) => WhollyMade(after, patch)
<1> DEFINE patch == Overlay.patches[k]
           after == Applied(tree, patch)
<1>0. /\ patch \in Patches(Overlay) /\ Edits(patch) \subseteq Edit
      /\ patch.marker \in {"edit", "file", "none"}
  BY StagesAre, PatchesAre
<1>1. /\ after \in Tree
      /\ \A e \in Edit : after.made[e] =
           IF e \in Pending(tree, patch) THEN tree.made[e] + 1 ELSE tree.made[e]
  BY <1>0, PendingEdits, MadeTree DEF Applied
<1>2. \A e \in Edit : tree.made[e] \in Nat
  BY DEF Tree
<1>3. \/ Pending(tree, patch) = {} /\ WhollyMade(tree, patch)
      \/ Pending(tree, patch) = Edits(patch) /\ NotMade(tree, patch)
  <2>1. CASE NotMade(tree, patch)
    <3>1. Pending(tree, patch) = Edits(patch)
      BY <1>0, <2>1 DEF Pending, NotMade
    <3> QED
      BY <2>1, <3>1
  <2>2. CASE WhollyMade(tree, patch) /\ Edits(patch) # {}
    <3>1. CASE patch.marker \in {"edit", "file"}
      BY <1>0, <2>2, <3>1 DEF Pending, WhollyMade
    <3>2. CASE patch.marker = "none"
      <4>1. PICK e \in Edits(patch) : e \notin Keeping
        BY <1>0, <2>2, <3>2, PatchAssumption
      <4>2. e \in Pending(tree, patch) /\ tree.made[e] = 1
        BY <2>2, <3>2 DEF Pending, WhollyMade
      <4>3. Anchors(tree, e) = 0
        BY <4>1, <4>2 DEF Anchors
      <4>4. Anchors(tree, e) = 1
        BY <4>2 DEF Applies
      <4> QED
        BY <4>3, <4>4
    <3> QED
      BY <1>0, <3>1, <3>2
  <2> QED
    BY <1>0, <2>1, <2>2 DEF Whole, NotMade
<1>4. CASE Pending(tree, patch) = {} /\ WhollyMade(tree, patch)
  <2>1. \A e \in Edit : after.made[e] = tree.made[e]
    BY <1>1, <1>4
  <2>2. \A p \in Patches(Overlay) : Edits(p) \subseteq Edit
    BY StagesAre, PatchesAre
  <2>3. WhollyMade(tree, patch)
    BY <1>4
  <2> HIDE DEF after, patch
  <2>4. Whole(after) /\ WhollyMade(after, patch)
    BY <1>0, <2>1, <2>2, <2>3 DEF Whole, WhollyMade, NotMade
  <2>5. \A p \in Patches(Overlay) : WhollyMade(tree, p) => WhollyMade(after, p)
    BY <2>1, <2>2 DEF WhollyMade
  <2> QED
    BY <1>1, <2>4, <2>5 DEF after, patch
<1>5. CASE Pending(tree, patch) = Edits(patch) /\ NotMade(tree, patch)
  <2>1. \A e \in Edit : after.made[e] = IF e \in Edits(patch) THEN 1 ELSE tree.made[e]
    BY <1>0, <1>1, <1>5 DEF NotMade
  <2>2. ASSUME NEW p \in Patches(Overlay)
        PROVE  Edits(p) \subseteq Edit /\ (p = patch \/ Edits(p) \cap Edits(patch) = {})
    <3>1. PICK i \in 1 .. Len(Overlay.patches) : p = Overlay.patches[i]
      BY StagesAre, PatchesAre
    <3>3. Edits(Overlay.patches[i]) \cap Edits(patch) # {} => i = k
      BY PatchesApart
    <3>4. Edits(p) \subseteq Edit
      BY <3>1, StagesAre, PatchesAre
    <3> QED
      BY <3>1, <3>3, <3>4
  <2> HIDE DEF after, patch
  <2>3. WhollyMade(after, patch)
    BY <1>0, <2>1 DEF WhollyMade
  <2>4. \A p \in Patches(Overlay) : p # patch =>
          /\ WhollyMade(tree, p) => WhollyMade(after, p)
          /\ NotMade(tree, p) => NotMade(after, p)
    BY <2>1, <2>2 DEF WhollyMade, NotMade
  <2>5. Whole(after)
    BY <1>2, <2>1, <2>3, <2>4 DEF Whole
  <2>6. \A p \in Patches(Overlay) : WhollyMade(tree, p) => WhollyMade(after, p)
    BY <2>3, <2>4
  <2> QED
    BY <1>1, <2>3, <2>5, <2>6 DEF after, patch
<1> QED
  BY <1>3, <1>4, <1>5

-----------------------------------------------------------------------------
(* The steps.                                                              *)

\* A stage starts from a tree with what is below it.
LEMMA BaseHolds ==
  ASSUME NEW im \in [Tag -> Image \cup {Nothing}], upstream \in Drifts,
         \A t \in Tag : im[t] # Nothing => Holds(im[t].tree, Ancestry[t]),
         NEW stage \in AllStages, stage.base = Upstream \/ im[stage.base] # Nothing,
         NEW tree, tree = IF stage.base = Upstream THEN Fresh ELSE im[stage.base].tree
  PROVE  tree \in Tree /\ Holds(tree, BaseEdits(stage) \cup EditsBefore(stage, 1))
<1>1. EditsBefore(stage, 1) = {}
  BY EditsOfStage
<1>2. CASE stage.base = Upstream
  <2>1. upstream \in SUBSET Edit
    BY BoundAssumption
  <2> QED
    BY <1>1, <1>2, <2>1 DEF Fresh, Tree, Holds, BaseEdits
<1>3. CASE stage.base # Upstream
  <2>1. stage.base \in Tag /\ im[stage.base] # Nothing
    BY <1>3, BasesAre
  <2>2. im[stage.base] \in Image
    BY <2>1
  <2>3. tree \in Tree /\ Holds(tree, Ancestry[stage.base])
    BY <1>3, <2>1, <2>2 DEF Image
  <2> QED
    BY <1>1, <1>3, <2>3 DEF BaseEdits
<1> QED
  BY <1>2, <1>3

\* What a build under way is.
LEMMA JobIs ==
  ASSUME ImageInv, job # Nothing
  PROVE  /\ job \in Build /\ job.stage \in 0 .. Len(Stages)
         /\ StageAt(job.stage) \in AllStages /\ StageAt(job.stage).tag \in Tag
         /\ Len(StageAt(job.stage).patches) \in Nat
         /\ job.at \in 1 .. Len(StageAt(job.stage).patches) + 1 /\ job.tree \in Tree
         /\ Holds(job.tree, BaseEdits(StageAt(job.stage))
                              \cup EditsBefore(StageAt(job.stage), job.at))
<1>1. /\ job \in Build /\ job.stage \in 0 .. Len(Stages)
      /\ job.at \in Nat \ {0} /\ job.tree \in Tree
  BY DEF ImageInv, ImageTypeOK, Build
<1>2. StageAt(job.stage) \in AllStages /\ StageAt(job.stage).tag \in Tag
  BY <1>1, StagesAre
<1>3. Len(StageAt(job.stage).patches) \in Nat
  BY <1>2, PatchesAre
<1> QED
  BY <1>1, <1>2, <1>3 DEF ImageInv, JobWhole

\* Nothing is built and no container runs at first.
LEMMA ImageInitInv == ImageInit => ImageInv
<1> SUFFICES ASSUME ImageInit PROVE ImageInv
  OBVIOUS
<1>1. ImageTypeOK
  BY BoundAssumption DEF ImageInit, ImageTypeOK
<1> QED
  BY <1>1 DEF ImageInit, ImageInv, ImagesWhole, JobWhole, FinishedIsFresh, JobFresh, LiveWhole

\* A build starts from its base.
LEMMA StartBuildInv ==
  ASSUME ImageInv, NEW i \in {0, 1}, StartBuild(i) PROVE ImageInv'
<1> DEFINE stage == StageAt(i)
<1>1. i \in 0 .. Len(Stages) /\ stage \in AllStages
  BY StagesAre
<1>2. /\ HasBase(stage)
      /\ job' = [stage |-> i, at |-> 1, tree |-> BaseTree(stage)]
  BY DEF StartBuild, Building
<1>3. \A t \in Tag : images[t] # Nothing => Holds(images[t].tree, Ancestry[t])
  BY DEF ImageInv, ImagesWhole, Holds
<1>4. /\ BaseTree(stage) \in Tree
      /\ Holds(BaseTree(stage), BaseEdits(stage) \cup EditsBefore(stage, 1))
  <2>1. images \in [Tag -> Image \cup {Nothing}] /\ upstream \in Drifts
    BY DEF ImageInv, ImageTypeOK
  <2>2. stage.base = Upstream \/ images[stage.base] # Nothing
    BY <1>2 DEF HasBase
  <2>3. BaseTree(stage) = IF stage.base = Upstream THEN Fresh ELSE images[stage.base].tree
    BY DEF BaseTree
  <2> HIDE DEF stage
  <2> QED
    BY <1>1, <1>3, <2>1, <2>2, <2>3, BaseHolds
<1>5. /\ UNCHANGED <<rev, upstream, images, live, vouched>>
      /\ outcome' = outcome \/ outcome' = "none"
  BY DEF StartBuild
<1>6. job' \in Build
  BY <1>1, <1>2, <1>4 DEF Build
<1>7. ImageTypeOK'
  BY <1>5, <1>6 DEF ImageInv, ImageTypeOK
<1>8. ImagesWhole' /\ FinishedIsFresh' /\ LiveWhole'
  BY <1>5 DEF ImageInv, ImagesWhole, FinishedIsFresh, LiveWhole
<1>9. JobWhole'
  <2>1. 1 <= Len(stage.patches) + 1
    BY <1>1, PatchesAre
  <2>2. job'.stage = i /\ job'.at = 1 /\ job'.tree = BaseTree(stage)
    BY <1>2
  <2> QED
    BY <1>4, <2>1, <2>2 DEF JobWhole
<1>10. JobFresh'
  <2>1. job'.stage = i /\ 1 .. i - 1 = {}
    BY <1>2
  <2> QED
    BY <2>1 DEF JobFresh
<1> QED
  BY <1>7, <1>8, <1>9, <1>10 DEF ImageInv

\* A patch in a build makes its edits once.
LEMMA BuildPatchInv ==
  ASSUME ImageInv, BuildPatch PROVE ImageInv'
<1> DEFINE stage == StageAt(job.stage)
           patch == stage.patches[job.at]
<1>1. /\ job # Nothing /\ job.at <= Len(stage.patches)
      /\ job' = [job EXCEPT !.at = job.at + 1, !.tree = Applied(job.tree, patch)]
      /\ UNCHANGED <<rev, upstream, images, outcome, live, vouched>>
  BY DEF BuildPatch, Patching
<1>2. /\ job \in Build /\ stage \in AllStages /\ Len(stage.patches) \in Nat
      /\ job.at \in 1 .. Len(stage.patches) /\ job.tree \in Tree
      /\ Holds(job.tree, BaseEdits(stage) \cup EditsBefore(stage, job.at))
  BY <1>1, JobIs
<1>3. /\ Edits(patch) \subseteq Edit /\ patch.marker \in {"edit", "file", "none"}
  BY <1>2, PatchesAre
<1>4. /\ EditsBefore(stage, job.at + 1) = EditsBefore(stage, job.at) \cup Edits(patch)
      /\ (BaseEdits(stage) \cup EditsBefore(stage, job.at)) \cap Edits(patch) = {}
  <2>1. /\ EditsBefore(stage, job.at + 1) = EditsBefore(stage, job.at) \cup Edits(patch)
        /\ EditsBefore(stage, job.at) \cap Edits(patch) = {}
        /\ Edits(patch) \subseteq EditsOf(stage)
    BY <1>2, EditsOfStage
  <2>2. BaseEdits(stage) \cap EditsOf(stage) = {}
    BY <1>2, AncestryOfStage
  <2> QED
    BY <2>1, <2>2
<1>5. /\ Applied(job.tree, patch) \in Tree
      /\ Holds(Applied(job.tree, patch), BaseEdits(stage) \cup EditsBefore(stage, job.at + 1))
  <2> HIDE DEF patch, stage
  <2>1. /\ Applied(job.tree, patch) \in Tree
        /\ Holds(Applied(job.tree, patch),
                 (BaseEdits(stage) \cup EditsBefore(stage, job.at)) \cup Edits(patch))
    BY <1>2, <1>3, <1>4, AppliedMakes
  <2>2. (BaseEdits(stage) \cup EditsBefore(stage, job.at)) \cup Edits(patch)
          = BaseEdits(stage) \cup EditsBefore(stage, job.at + 1)
    BY <1>4
  <2> QED
    BY <2>1, <2>2
<1>6. /\ job' \in Build /\ job'.stage = job.stage /\ job'.at = job.at + 1
      /\ job'.tree = Applied(job.tree, patch)
  <2> HIDE DEF patch, stage
  <2>1. job.at + 1 \in Nat \ {0}
    BY <1>2
  <2> QED
    BY <1>1, <1>2, <1>5, <2>1 DEF Build
<1>7. ImageTypeOK'
  BY <1>1, <1>6 DEF ImageInv, ImageTypeOK
<1>8. ImagesWhole' /\ FinishedIsFresh' /\ LiveWhole'
  BY <1>1 DEF ImageInv, ImagesWhole, FinishedIsFresh, LiveWhole
<1>9. JobWhole'
  <2>1. job.at + 1 <= Len(stage.patches) + 1
    BY <1>2
  <2> QED
    BY <1>5, <1>6, <2>1 DEF JobWhole
<1>10. JobFresh'
  BY <1>1, <1>6 DEF ImageInv, JobFresh
<1> QED
  BY <1>7, <1>8, <1>9, <1>10 DEF ImageInv

\* A failed command discards the layer.
LEMMA FailBuildInv ==
  ASSUME ImageInv, FailBuild PROVE ImageInv'
<1>1. /\ job' = Nothing /\ UNCHANGED <<rev, upstream, images, live, vouched>>
      /\ outcome' = outcome \/ outcome' = "failed"
  BY DEF FailBuild, LayerAfterFailure, NextAfterFailure, EndedAfter
<1>2. ImageTypeOK'
  BY <1>1 DEF ImageInv, ImageTypeOK
<1> QED
  BY <1>1, <1>2 DEF ImageInv, ImagesWhole, JobWhole, FinishedIsFresh, JobFresh, LiveWhole

\* A layer that is finished is tagged, and the next stage starts from its base.
LEMMA CommitBuildInv ==
  ASSUME ImageInv, CommitBuild PROVE ImageInv'
<1> DEFINE k == job.stage
           stage == StageAt(k)
           image == [tree |-> job.tree, rev |-> rev]
           last == k \in {0, Len(Stages)}
<1>1. /\ job # Nothing /\ job.at > Len(stage.patches)
      /\ images' = [images EXCEPT ![stage.tag] = image]
      /\ UNCHANGED <<rev, upstream, live, vouched>>
      /\ outcome' = outcome \/ (outcome' = "ok" /\ k = Len(Stages))
  <2>1. job # Nothing /\ ~(job.at <= Len(stage.patches))
    BY DEF CommitBuild, Patching
  <2>2. job.at > Len(stage.patches)
    BY <2>1, JobIs
  <2> QED
    BY <2>1, <2>2 DEF CommitBuild
<1>2. /\ job \in Build /\ k \in 0 .. Len(Stages) /\ stage \in AllStages /\ stage.tag \in Tag
      /\ Len(stage.patches) \in Nat
      /\ job.at = Len(stage.patches) + 1 /\ job.tree \in Tree
      /\ Holds(job.tree, BaseEdits(stage) \cup EditsBefore(stage, job.at))
  BY <1>1, JobIs
<1>3. Holds(job.tree, Ancestry[stage.tag])
  <2>1. EditsBefore(stage, job.at) = EditsOf(stage)
    BY <1>2, EditsOfStage
  <2>2. Ancestry[stage.tag] = BaseEdits(stage) \cup EditsOf(stage)
    BY <1>2, AncestryOfStage
  <2> QED
    BY <1>2, <2>1, <2>2
<1>4. image \in Image /\ image # Nothing
  <2>1. image \in Image
    BY <1>2 DEF Image, ImageInv, ImageTypeOK
  <2> QED
    BY <2>1, NothingAssumption
<1>5. /\ images' \in [Tag -> Image \cup {Nothing}]
      /\ \A t \in Tag : images'[t] = IF t = stage.tag THEN image ELSE images[t]
  <2>1. images \in [Tag -> Image \cup {Nothing}]
    BY DEF ImageInv, ImageTypeOK
  <2> HIDE DEF image, stage
  <2> QED
    BY <1>1, <1>2, <1>4, <2>1
<1>6. \A t \in Tag : images'[t] # Nothing => Holds(images'[t].tree, Ancestry[t])
  <2>1. \A t \in Tag : images[t] # Nothing => Holds(images[t].tree, Ancestry[t])
    BY DEF ImageInv, ImagesWhole, Holds
  <2>2. image.tree = job.tree
    OBVIOUS
  <2> HIDE DEF image, stage
  <2> QED
    BY <1>3, <1>5, <2>1, <2>2
<1>7. ASSUME NEW i \in 1 .. Len(Stages),
             i = k \/ (images[Stages[i].tag] # Nothing /\ images[Stages[i].tag].rev = rev)
      PROVE  images'[Stages[i].tag] # Nothing /\ images'[Stages[i].tag].rev = rev
  <2>1. Stages[i].tag \in Tag
    BY StagesAre
  <2>2. image.rev = rev
    OBVIOUS
  <2>3. i = k => stage.tag = Stages[i].tag
    BY DEF StageAt
  <2> HIDE DEF image, stage, k
  <2> QED
    BY <1>4, <1>5, <1>7, <2>1, <2>2, <2>3
<1>8. ASSUME ~last
      PROVE  LET next == Stages[k + 1]
             IN /\ k \in 1 .. Len(Stages) /\ k + 1 \in 1 .. Len(Stages)
                /\ next \in AllStages
                /\ next.base = Upstream \/ images'[next.base] # Nothing
  <2>1. k \in 1 .. Len(Stages) /\ k + 1 \in 1 .. Len(Stages)
    BY <1>2, <1>8, StagesAre
  <2>2. Stages[k + 1] \in AllStages
    BY <2>1, StagesAre
  <2>3. ASSUME NEW j \in 1 .. (k + 1) - 1, Stages[k + 1].base = Stages[j].tag
        PROVE  images'[Stages[j].tag] # Nothing
    <3>1. j \in 1 .. Len(Stages) /\ (j = k \/ j \in 1 .. k - 1)
      BY <2>1
    <3>2. j = k \/ (images[Stages[j].tag] # Nothing /\ images[Stages[j].tag].rev = rev)
      BY <1>1, <3>1 DEF ImageInv, JobFresh
    <3> QED
      BY <1>7, <3>1, <3>2
  <2> QED
    BY <2>1, <2>2, <2>3, StageAssumption
<1>9. /\ job' \in Build \cup {Nothing} /\ JobWhole'
      /\ job' # Nothing => ~last /\ job'.stage = k + 1
  <2>1. CASE last
    <3>1. job' = Nothing
      BY <2>1 DEF CommitBuild
    <3> QED
      BY <3>1 DEF JobWhole
  <2>2. CASE ~last
    <3> DEFINE next == Stages[k + 1]
               tree == IF next.base = Upstream THEN Fresh ELSE images'[next.base].tree
    <3>1. job' = [stage |-> k + 1, at |-> 1, tree |-> tree]
      BY <2>2 DEF CommitBuild
    <3>2. /\ k \in 1 .. Len(Stages) /\ k + 1 \in 1 .. Len(Stages)
          /\ next \in AllStages
          /\ next.base = Upstream \/ images'[next.base] # Nothing
      BY <1>8, <2>2
    <3>3. upstream \in Drifts
      BY DEF ImageInv, ImageTypeOK
    <3>4. tree = IF next.base = Upstream THEN Fresh ELSE images'[next.base].tree
      OBVIOUS
    <3>5. 1 <= Len(next.patches) + 1
      BY <3>2, PatchesAre
    <3>6. StageAt(k + 1) = next
      BY <3>2 DEF StageAt
    <3> HIDE DEF next, tree, k, last
    <3>7. tree \in Tree /\ Holds(tree, BaseEdits(next) \cup EditsBefore(next, 1))
      BY <1>5, <1>6, <3>2, <3>3, <3>4, BaseHolds
    <3>8. /\ job' \in Build /\ job'.stage = k + 1 /\ job'.at = 1 /\ job'.tree = tree
      BY <3>1, <3>2, <3>7 DEF Build
    <3> QED
      BY <2>2, <3>5, <3>6, <3>7, <3>8 DEF JobWhole
  <2> QED
    BY <2>1, <2>2
<1>10. ImageTypeOK'
  BY <1>1, <1>5, <1>9 DEF ImageInv, ImageTypeOK
<1>11. ImagesWhole' /\ LiveWhole'
  BY <1>1, <1>6 DEF ImageInv, ImagesWhole, LiveWhole, Holds
<1>12. JobFresh'
  <2> SUFFICES ASSUME job' # Nothing, NEW i \in 1 .. job'.stage - 1
               PROVE  images'[Stages[i].tag] # Nothing /\ images'[Stages[i].tag].rev = rev
    BY <1>1 DEF JobFresh
  <2>1. /\ k \in 1 .. Len(Stages) /\ i \in 1 .. k
    BY <1>8, <1>9
  <2>2. i \in 1 .. Len(Stages) /\ (i = k \/ i \in 1 .. k - 1)
    BY <2>1
  <2>3. i = k \/ (images[Stages[i].tag] # Nothing /\ images[Stages[i].tag].rev = rev)
    BY <1>1, <2>2 DEF ImageInv, JobFresh
  <2> QED
    BY <1>7, <2>2, <2>3
<1>13. FinishedIsFresh'
  <2> SUFFICES ASSUME outcome' = "ok", NEW i \in 1 .. Len(Stages)
               PROVE  images'[Stages[i].tag] # Nothing /\ images'[Stages[i].tag].rev = rev
    BY <1>1 DEF FinishedIsFresh
  <2>1. i = k \/ (images[Stages[i].tag] # Nothing /\ images[Stages[i].tag].rev = rev)
    <3>1. CASE outcome = "ok"
      BY <3>1 DEF ImageInv, FinishedIsFresh
    <3>2. CASE k = Len(Stages)
      <4>1. i = k \/ i \in 1 .. k - 1
        BY <3>2, StagesAre
      <4> QED
        BY <1>1, <4>1 DEF ImageInv, JobFresh
    <3> QED
      BY <1>1, <3>1, <3>2
  <2> QED
    BY <1>7, <2>1
<1> QED
  BY <1>10, <1>11, <1>9, <1>12, <1>13 DEF ImageInv

\* What a container and its script are.
LEMMA LiveIs ==
  ASSUME ImageInv, live # Nothing
  PROVE  /\ live \in Container /\ live.tree \in Tree /\ live.at \in Nat
         /\ live.script \in Scripts \cup {Nothing}
         /\ Whole(live.tree)
         /\ \A patch \in Patches(Overlay) :
              patch.script \in vouched => WhollyMade(live.tree, patch)
         /\ live.script # Nothing => live.at >= 1 /\
              \A i \in 1 .. Len(Overlay.patches) :
                i < live.at /\ Overlay.patches[i].script = live.script =>
                  WhollyMade(live.tree, Overlay.patches[i])
BY DEF ImageInv, ImageTypeOK, LiveWhole, Container

\* Steps in a container leave the builds alone.
LEMMA ContainerStep ==
  ASSUME ImageInv, UNCHANGED <<rev, upstream, images, job, outcome>>,
         live' \in Container \cup {Nothing}, vouched' \subseteq Scripts, LiveWhole'
  PROVE  ImageInv'
<1>1. ImageTypeOK'
  BY DEF ImageInv, ImageTypeOK
<1> QED
  BY <1>1 DEF ImageInv, ImagesWhole, JobWhole, FinishedIsFresh, JobFresh

\* A container starts from an image, where each patch is wholly made or not at all.
LEMMA StartContainerInv ==
  ASSUME ImageInv, NEW t \in Tag, StartContainer(t) PROVE ImageInv'
<1> DEFINE tree == images[t].tree
<1>1. /\ images[t] # Nothing
      /\ live' = [tree |-> tree, script |-> Nothing, at |-> 0] /\ vouched' = {}
      /\ UNCHANGED <<rev, upstream, images, job, outcome>>
  BY DEF StartContainer
<1>2. tree \in Tree
  <2>1. images[t] \in Image
    BY <1>1 DEF ImageInv, ImageTypeOK
  <2> QED
    BY <2>1 DEF Image
<1>3. Holds(tree, Ancestry[t])
  BY <1>1 DEF ImageInv, ImagesWhole, Holds
<1>4. Whole(tree)
  <2>1. EditsOf(Overlay) \subseteq Ancestry[t] \/ EditsOf(Overlay) \cap Ancestry[t] = {}
    BY StagesAre, StageWhollyIn
  <2>2. \A patch \in Patches(Overlay) :
          Edits(patch) \subseteq Edit /\ Edits(patch) \subseteq EditsOf(Overlay)
    BY StagesAre, PatchesAre DEF EditsOf
  <2> HIDE DEF tree
  <2> QED
    BY <1>3, <2>1, <2>2 DEF Holds, Whole, WhollyMade, NotMade
<1>5. live' \in Container
  BY <1>1, <1>2 DEF Container
<1>6. LiveWhole'
  <2>1. live'.tree = tree /\ live'.script = Nothing
    BY <1>1
  <2> HIDE DEF tree
  <2> QED
    BY <1>1, <1>4, <2>1 DEF LiveWhole
<1> QED
  BY <1>1, <1>5, <1>6, ContainerStep

\* A script has come through nothing when it starts.
LEMMA StartScriptInv ==
  ASSUME ImageInv, NEW script \in Scripts, StartScript(script) PROVE ImageInv'
<1>1. /\ live # Nothing /\ live' = [live EXCEPT !.script = script, !.at = 1]
      /\ UNCHANGED <<rev, upstream, images, job, outcome, vouched>>
  BY DEF StartScript
<1>2. /\ live' \in Container /\ live'.tree = live.tree /\ live'.at = 1
  BY <1>1, LiveIs DEF Container
<1>3. LiveWhole'
  <2>1. \A i \in 1 .. Len(Overlay.patches) : ~(i < 1)
    OBVIOUS
  <2> QED
    BY <1>1, <1>2, <2>1, LiveIs DEF LiveWhole
<1> QED
  BY <1>1, <1>2, <1>3, ContainerStep DEF ImageInv, ImageTypeOK

\* A container whose script is over is idle.
LEMMA IdleIs ==
  ASSUME ImageInv, live # Nothing, live' = Idle(live.tree)
  PROVE  live' \in Container /\ live'.tree = live.tree /\ live'.script = Nothing
BY LiveIs DEF Idle, Container

\* A script makes a patch wholly or raises, and is through with all of its
\* patches when it returns.
LEMMA LivePatchInv ==
  ASSUME ImageInv, LivePatch PROVE ImageInv'
<1> DEFINE rest == Rest(live.script, live.at)
<1>1. /\ live # Nothing /\ live.script # Nothing
      /\ UNCHANGED <<rev, upstream, images, job, outcome>>
  BY DEF LivePatch
<1>2. Len(Overlay.patches) \in Nat
  BY StagesAre, PatchesAre
<1>3. \A patch \in Patches(Overlay) :
        \E i \in 1 .. Len(Overlay.patches) : patch = Overlay.patches[i]
  BY StagesAre, PatchesAre
<1>4. CASE rest = {} /\ live' = Idle(live.tree) /\ vouched' = vouched \cup {live.script}
  <2>1. live' \in Container /\ live'.tree = live.tree /\ live'.script = Nothing
    BY <1>1, <1>4, IdleIs
  <2>2. vouched' \subseteq Scripts
    BY <1>1, <1>4, LiveIs DEF ImageInv, ImageTypeOK
  <2>3. ASSUME NEW patch \in Patches(Overlay), patch.script = live.script
        PROVE  WhollyMade(live.tree, patch)
    <3>1. PICK i \in 1 .. Len(Overlay.patches) : patch = Overlay.patches[i]
      BY <1>3
    <3>2. i \notin live.at .. Len(Overlay.patches)
      BY <1>4, <2>3, <3>1 DEF Rest
    <3>3. i < live.at
      BY <1>1, <1>2, <3>2, LiveIs
    <3> QED
      BY <1>1, <2>3, <3>1, <3>3, LiveIs
  <2>4. LiveWhole'
    BY <1>1, <1>4, <2>1, <2>3, LiveIs DEF LiveWhole
  <2> QED
    BY <1>1, <2>1, <2>2, <2>4, ContainerStep
<1>5. ASSUME NEW i \in rest, \A j \in rest : i <= j, vouched' = vouched,
             live' = IF Applies(live.tree, Overlay.patches[i])
                       THEN [live EXCEPT !.at = i + 1,
                                         !.tree = Applied(@, Overlay.patches[i])]
                       ELSE Idle(AfterRaise(live.tree, Overlay.patches[i]))
      PROVE  ImageInv'
  <2>1. vouched' \subseteq Scripts
    BY <1>5 DEF ImageInv, ImageTypeOK
  <2>2. /\ i \in Nat /\ live.at <= i /\ i \in live.at .. Len(Overlay.patches)
        /\ Overlay.patches[i].script = live.script
    BY <1>1, <1>2, LiveIs DEF Rest
  <2>3. CASE ~Applies(live.tree, Overlay.patches[i])
    <3>1. live' = Idle(live.tree)
      BY <1>5, <2>3 DEF AfterRaise
    <3>2. live' \in Container /\ live'.tree = live.tree /\ live'.script = Nothing
      BY <1>1, <3>1, IdleIs
    <3>3. LiveWhole'
      BY <1>1, <1>5, <3>2, LiveIs DEF LiveWhole
    <3> QED
      BY <1>1, <2>1, <3>2, <3>3, ContainerStep
  <2>4. CASE Applies(live.tree, Overlay.patches[i])
    <3> DEFINE after == Applied(live.tree, Overlay.patches[i])
    <3>1. i \in 1 .. Len(Overlay.patches)
      BY <1>1, <1>2, <2>2, LiveIs
    <3>2. /\ after \in Tree /\ Whole(after) /\ WhollyMade(after, Overlay.patches[i])
          /\ \A patch \in Patches(Overlay) :
               WhollyMade(live.tree, patch) => WhollyMade(after, patch)
      BY <1>1, <2>4, <3>1, LiveIs, AppliedWhole
    <3>3. live' = [live EXCEPT !.at = i + 1, !.tree = after]
      BY <1>5, <2>4
    <3> HIDE DEF after
    <3>4. /\ live' \in Container /\ live'.tree = after /\ live'.at = i + 1
          /\ live'.script = live.script
      <4>1. live \in Container /\ i + 1 \in Nat
        BY <1>1, <2>2, LiveIs
      <4> QED
        BY <3>2, <3>3, <4>1 DEF Container
    <3>5. ASSUME NEW j \in 1 .. Len(Overlay.patches), j < i + 1,
                 Overlay.patches[j].script = live.script
          PROVE  WhollyMade(after, Overlay.patches[j])
      <4>1. Overlay.patches[j] \in Patches(Overlay)
        BY DEF Patches
      <4>2. j = i \/ j < live.at
        <5>1. j >= live.at => j \in rest
          BY <1>1, <1>2, <3>5, LiveIs DEF Rest
        <5> QED
          BY <1>1, <1>5, <2>2, <3>5, <5>1, LiveIs
      <4> QED
        BY <1>1, <3>2, <3>5, <4>1, <4>2, LiveIs
    <3>6. LiveWhole'
      <4>1. \A patch \in Patches(Overlay) :
              patch.script \in vouched' => WhollyMade(after, patch)
        BY <1>1, <1>5, <3>2, LiveIs
      <4>2. i + 1 >= 1
        BY <2>2
      <4> QED
        BY <3>2, <3>4, <3>5, <4>1, <4>2 DEF LiveWhole
    <3> QED
      BY <1>1, <2>1, <3>4, <3>6, ContainerStep
  <2> QED
    BY <2>3, <2>4
<1> QED
  BY <1>4, <1>5 DEF LivePatch

\* A script that is interrupted leaves the patches it made.
LEMMA InterruptInv ==
  ASSUME ImageInv, Interrupt PROVE ImageInv'
<1>1. /\ live # Nothing /\ live' = Idle(live.tree)
      /\ UNCHANGED <<rev, upstream, images, job, outcome, vouched>>
  BY DEF Interrupt
<1>2. live' \in Container /\ live'.tree = live.tree /\ live'.script = Nothing
  BY <1>1, IdleIs
<1>3. LiveWhole'
  BY <1>1, <1>2, LiveIs DEF LiveWhole
<1> QED
  BY <1>1, <1>2, <1>3, ContainerStep DEF ImageInv, ImageTypeOK

\* Every step keeps the invariant.
LEMMA ImageStepInv == ImageInv /\ [ImageNext]_imageVars => ImageInv'
<1> SUFFICES ASSUME ImageInv, [ImageNext]_imageVars PROVE ImageInv'
  OBVIOUS
<1>1. CASE Revise
  <2>1. /\ job' = Nothing /\ outcome' = "none" /\ rev' \in 1 .. MaxRev
        /\ upstream' \in Drifts /\ UNCHANGED <<images, live, vouched>>
    BY <1>1, BoundAssumption DEF Revise, ImageInv, ImageTypeOK
  <2>2. ImageTypeOK'
    BY <2>1 DEF ImageInv, ImageTypeOK
  <2> QED
    BY <2>1, <2>2
    DEF ImageInv, ImagesWhole, JobWhole, FinishedIsFresh, JobFresh, LiveWhole
<1>2. CASE RemoveContainer
  <2>1. /\ live' = Nothing /\ vouched' = {}
        /\ UNCHANGED <<rev, upstream, images, job, outcome>>
    BY <1>2 DEF RemoveContainer
  <2>2. LiveWhole'
    BY <2>1 DEF LiveWhole
  <2> QED
    BY <2>1, <2>2, ContainerStep
<1>3. CASE UNCHANGED imageVars
  <2>1. UNCHANGED <<rev, upstream, images, job, outcome, live, vouched>>
    BY <1>3 DEF imageVars
  <2>2. LiveWhole' /\ live' \in Container \cup {Nothing} /\ vouched' \subseteq Scripts
    BY <2>1 DEF ImageInv, ImageTypeOK, LiveWhole
  <2> QED
    BY <2>1, <2>2, ContainerStep
<1> QED
  BY <1>1, <1>2, <1>3, StartBuildInv, BuildPatchInv, FailBuildInv, CommitBuildInv,
     StartContainerInv, StartScriptInv, LivePatchInv, InterruptInv
  DEF ImageNext

\* The invariant holds throughout every behaviour.
LEMMA ImageInvariant == ImageSpec => []ImageInv
<1> QED
  BY ImageInitInv, ImageStepInv, PTL DEF ImageSpec

\* The builds and containers have the types the model gives them.
THEOREM ImageTypeCorrect == ImageSpec => []ImageTypeOK
<1>1. ImageInv => ImageTypeOK
  BY DEF ImageInv
<1> QED
  BY <1>1, ImageInvariant, PTL

\* Whatever the stages, their patches and the anchors that drift away: every
\* image has each edit of its stages once and no other, whatever failed, was
\* interrupted or was built again before (build.sh, the Dockerfiles).
THEOREM ImagesAlwaysWhole == ImageSpec => []ImagesWhole
<1>1. ImageInv => ImagesWhole
  BY DEF ImageInv
<1> QED
  BY <1>1, ImageInvariant, PTL

\* A build.sh that came to its end left no stage of an earlier run behind: its
\* exit at the first stage that fails is what makes "ok" mean so.
THEOREM FinishedBuildIsFresh == ImageSpec => []FinishedIsFresh
<1>1. ImageInv => FinishedIsFresh
  BY DEF ImageInv
<1> QED
  BY <1>1, ImageInvariant, PTL

\* In a container no edit is made twice, and a script that returned 0 made all
\* of its edits, however often the scripts were run, raised or were interrupted.
THEOREM ReturnedScriptsVouch == ImageSpec => []ScriptsVouch
<1>1. ImageInv => ScriptsVouch
  BY DEF ImageInv, LiveWhole, Whole, WhollyMade, ScriptsVouch
<1> QED
  BY <1>1, ImageInvariant, PTL
=============================================================================
