--------------------------- MODULE FleetWatchdog ---------------------------
(***************************************************************************)
(* fleet_watchdog.sh on the head node and the launch script it runs on     *)
(* every node, over containers that rendezvous, serve and die.             *)
(*                                                                         *)
(* A worker's container waits for the store of a head, joins it, and exits *)
(* by itself when that head goes away.  A head serves once every worker    *)
(* joined it; a head whose engine died keeps its store open, and often     *)
(* never exits.  What goes wrong by itself (an engine, a command, a probe, *)
(* the watchdog, a slow load) is counted in faults and bounded.            *)
(***************************************************************************)
EXTENDS Naturals, Sequences

CONSTANTS
  Node,        \* the ranks of the fleet
  HeadNode,    \* rank 0, where the watchdog runs
  RANK_ORDER,  \* the order of every pass over the nodes: workers, then head
  Threshold,   \* FAIL_THRESHOLD
  Unreliable,  \* the sets of nodes whose commands may fail in a run: ssh,
               \* docker, the guards of the launch script
  MaxFaults    \* bound on everything that goes wrong

ASSUME NodeAssumption == HeadNode \in Node
ASSUME OrderAssumption ==
  /\ RANK_ORDER \in Seq(Node)
  /\ \A n \in Node : \E i \in DOMAIN RANK_ORDER : RANK_ORDER[i] = n
  /\ \A i, j \in DOMAIN RANK_ORDER : RANK_ORDER[i] = RANK_ORDER[j] => i = j
  /\ RANK_ORDER[Len(RANK_ORDER)] = HeadNode
ASSUME ThresholdAssumption == Threshold \in Nat \ {0}
ASSUME FaultAssumption == Unreliable \subseteq SUBSET Node /\ MaxFaults \in Nat

Worker == Node \ {HeadNode}

VARIABLES
  flaky,      \* the nodes whose commands may fail in this run
  container,  \* the state of each node's container
  pc,         \* where the watchdog is
  at,         \* the position in RANK_ORDER of a teardown or a launch
  fails,      \* consecutive failures the watchdog counted
  streak,     \* probes that failed in a row, whoever counted them (history)
  faults      \* what may still go wrong

vars == <<flaky, container, pc, at, fails, streak, faults>>

WorkerState == {"none", "waiting", "joined", "orphaned", "exited"}
HeadState == {"none", "waiting", "serving", "dead", "exited"}

TypeOK ==
  /\ flaky \in Unreliable
  /\ container \in [Node -> WorkerState \cup HeadState]
  /\ \A w \in Worker : container[w] \in WorkerState
  /\ container[HeadNode] \in HeadState
  /\ pc \in {"probe", "teardown", "launch", "await", "down"}
  /\ at \in 1 .. Len(RANK_ORDER)
  /\ fails \in 0 .. Threshold - 1
  /\ streak \in 0 .. Threshold
  /\ faults \in 0 .. MaxFaults

\* Nothing runs yet, or an operator has just launched every rank, or the
\* fleet serves.
Init ==
  /\ flaky \in Unreliable
  /\ container \in {[n \in Node |-> "none"], [n \in Node |-> "waiting"],
                    [n \in Node |-> IF n = HeadNode THEN "serving" ELSE "joined"]}
  /\ pc = "probe" /\ at = 1 /\ fails = 0 /\ streak = 0
  /\ faults = MaxFaults

Fault == faults > 0 /\ faults' = faults - 1

-----------------------------------------------------------------------------
\* What the fleet does by itself.

\* docker rm -f on n: the others see the peer they were connected to go.
Removed(n) ==
  [m \in Node |->
    IF m = n THEN "none"
    ELSE IF n = HeadNode /\ container[m] = "joined" THEN "orphaned"
    ELSE IF m = HeadNode /\ container[n] = "joined"
            /\ container[m] \in {"waiting", "serving"} THEN "dead"
    ELSE container[m]]

\* The first store a worker finds is the one it joins, a dying head's too.
Rendezvous(w) ==
  /\ container[w] = "waiting"
  /\ container[HeadNode] \in {"waiting", "serving", "dead"}
  /\ container' = [container EXCEPT ![w] = "joined"]
  /\ UNCHANGED <<flaky, pc, at, fails, streak, faults>>

Ready ==
  /\ container[HeadNode] = "waiting"
  /\ \A w \in Worker : container[w] = "joined"
  /\ container' = [container EXCEPT ![HeadNode] = "serving"]
  /\ UNCHANGED <<flaky, pc, at, fails, streak, faults>>

\* A headless worker exits 0 when its head is gone.
WorkerExits(w) ==
  /\ container[w] = "orphaned"
  /\ container' = [container EXCEPT ![w] = "exited"]
  /\ UNCHANGED <<flaky, pc, at, fails, streak, faults>>

HeadExits ==
  /\ container[HeadNode] = "dead"
  /\ container' = [m \in Node |-> IF m = HeadNode THEN "exited"
                                  ELSE Removed(HeadNode)[m]]
  /\ UNCHANGED <<flaky, pc, at, fails, streak, faults>>

\* The engine dies: an RPC timeout, a driver error, or a rank that crashed.
EngineDies ==
  /\ Fault
  /\ container[HeadNode] = "serving"
  /\ \/ container' = [container EXCEPT ![HeadNode] = "dead"]
     \/ \E w \in Worker : container' = [container EXCEPT ![HeadNode] = "dead",
                                                         ![w] = "exited"]
  /\ UNCHANGED <<flaky, pc, at, fails, streak>>

-----------------------------------------------------------------------------
\* The watchdog.

Healthy == container[HeadNode] = "serving"

Fires(f) == f >= Threshold

\* Mutant: a success leaves the count as it is.
SuccessKeeps(f) == f

AfterSuccess(f) == 0

Probed(ok) ==
  streak' = IF ok THEN 0 ELSE IF streak < Threshold THEN streak + 1 ELSE streak

\* curl -sf /health answered.
ProbeOk ==
  /\ pc = "probe" /\ Healthy
  /\ fails' = AfterSuccess(fails) /\ Probed(TRUE)
  /\ UNCHANGED <<flaky, container, pc, at, faults>>

\* No answer, or one that came too late; enough of them start a recovery.
ProbeFails ==
  /\ pc = "probe"
  /\ IF Healthy THEN Fault ELSE faults' = faults
  /\ Probed(FALSE)
  /\ IF Fires(fails + 1)
     THEN pc' = "teardown" /\ at' = 1 /\ fails' = 0
     ELSE fails' = fails + 1 /\ UNCHANGED <<pc, at>>
  /\ UNCHANGED <<flaky, container>>

\* Mutant: the last node of the order is left out.
TeardownShort(i) == i >= Len(RANK_ORDER) - 1

TeardownEnds(i) == i = Len(RANK_ORDER)

\* "docker rm -f ... || true" on one node; the pass goes on whatever happens.
\* The sleep and the memory ritual that follow leave the containers alone.
Teardown ==
  /\ pc = "teardown"
  /\ \/ container' = Removed(RANK_ORDER[at]) /\ faults' = faults
     \/ RANK_ORDER[at] \in flaky /\ Fault /\ UNCHANGED container
  /\ IF TeardownEnds(at) THEN pc' = "launch" /\ at' = 1
                         ELSE pc' = pc /\ at' = at + 1
  /\ UNCHANGED <<flaky, fails, streak>>

\* Mutant: the head is launched first.
LaunchReversed(i) == RANK_ORDER[Len(RANK_ORDER) + 1 - i]

LaunchRank(i) == RANK_ORDER[i]

\* The launch script on one node: it removes the node's own container and
\* runs a new one.  It may not be reached or stop at a guard, fail to remove
\* the old container (the new one cannot take its name), or start a container
\* that exits.  The pass goes on.
Launch ==
  /\ pc = "launch"
  /\ LET n == LaunchRank(at)
     IN \/ /\ container' = [Removed(n) EXCEPT ![n] = "waiting"]
           /\ faults' = faults
        \/ /\ n \in flaky /\ Fault
           /\ container' \in {container, [Removed(n) EXCEPT ![n] = "exited"]}
  /\ IF at = Len(RANK_ORDER) THEN pc' = "await" /\ at' = 1
                             ELSE pc' = pc /\ at' = at + 1
  /\ UNCHANGED <<flaky, fails, streak>>

\* The until loop sees the head healthy: recover returns 0.
AwaitOk ==
  /\ pc = "await" /\ Healthy
  /\ pc' = "probe" /\ Probed(TRUE)
  /\ UNCHANGED <<flaky, container, at, fails, faults>>

\* A load in progress: it ends within READY_TIMEOUT, but for a fault.
Loading ==
  /\ container[HeadNode] = "waiting"
  /\ \A w \in Worker : container[w] \in {"waiting", "joined"}

\* Mutant: the wait has no end.
WaitsForEver == FALSE

WaitedTooLong == TRUE

\* READY_TIMEOUT has passed: recover returns 1 and probing continues.
AwaitTimeout ==
  /\ pc = "await" /\ ~Healthy /\ WaitedTooLong
  /\ IF Loading THEN Fault ELSE faults' = faults
  /\ pc' = "probe" /\ Probed(FALSE)
  /\ UNCHANGED <<flaky, container, at, fails>>

\* The watchdog's process dies, wherever it is, and its service starts it
\* again with nothing remembered.  The lock keeps a second one out.
Die ==
  /\ pc # "down" /\ Fault
  /\ pc' = "down"
  /\ UNCHANGED <<flaky, container, at, fails, streak>>

Restart ==
  /\ pc = "down"
  /\ pc' = "probe" /\ at' = 1 /\ fails' = 0
  /\ UNCHANGED <<flaky, container, streak, faults>>

-----------------------------------------------------------------------------
Watchdog ==
  \/ ProbeOk \/ ProbeFails \/ Teardown \/ Launch
  \/ AwaitOk \/ AwaitTimeout \/ Restart

Next ==
  \/ Watchdog \/ Die
  \/ \E w \in Worker : Rendezvous(w) \/ WorkerExits(w)
  \/ Ready \/ HeadExits \/ EngineDies

Spec == Init /\ [][Next]_vars

\* The watchdog's loop goes on (its commands return), it is restarted, and a
\* rendezvous or a load that can go on does.  Nothing makes a dead head exit.
FairSpec ==
  /\ Spec
  /\ WF_vars(Watchdog) /\ WF_vars(Ready)
  /\ \A w \in Worker : WF_vars(Rendezvous(w)) /\ WF_vars(WorkerExits(w))

-----------------------------------------------------------------------------
Started(n) == container[n] # "waiting" /\ container'[n] = "waiting"

MeetsNoOldHead ==
  \A w \in Worker :
    Started(w) => container[HeadNode] \in {"none", "exited", "waiting"}

\* A worker never starts while an old head is dying: it would join the stale
\* rendezvous (comment, fleet_watchdog.sh:62-64).  So it is as long as commands
\* on the head's own machine do not fail, whatever fails on the workers' nodes.
NoStaleStart == [][HeadNode \notin flaky => MeetsNoOldHead]_vars

\* When the head starts, every worker whose commands do not fail is there,
\* fresh and waiting for it: it is no member of the old rendezvous.
HeadFindsWorkers ==
  [][HeadNode \notin flaky /\ Started(HeadNode) =>
       \A w \in Worker \ flaky : container[w] = "waiting"]_vars

\* A fleet is torn down only after Threshold probes in a row failed, however
\* blips, recoveries and restarts of the watchdog interleave.
TeardownOnlyAfterStreak == [][pc # "teardown" /\ pc' = "teardown" =>
                                streak' = Threshold]_vars

\* Whatever fails on the way, the fleet ends up serving and stays so once
\* nothing goes wrong any more.
FleetRecovers == <>[](container[HeadNode] = "serving")
=============================================================================
