------------------------------ MODULE RoceStep ------------------------------
(***************************************************************************)
(* The workers of a tensor-parallel group running model steps while the    *)
(* RoCE backend is on: Worker.execute_model and sample_tokens with their   *)
(* health check (gpu_worker.py), the collectives of the step, each routed  *)
(* to the RoCE runtime or left on NCCL (cuda_communicator.py), and the     *)
(* fail-stop contract of the runtime (b12x_roce_all_reduce.py:23-37).      *)
(*                                                                         *)
(* Each rank has a host, which enqueues steps, checks and hands outputs    *)
(* over, and a stream, which executes the collectives in order: position p *)
(* of Program is the p-th collective.  The runtime is external: a rank     *)
(* writes its data to its peers when it launches a collective and then     *)
(* waits for theirs, at most for the spin limit.                           *)
(***************************************************************************)
EXTENDS RoceGroup, Naturals, FiniteSets

CONSTANTS
  OutputRank,  \* the rank whose outputs go back to the engine
  MaxOp,       \* bound: the number of collectives of a program
  Configs      \* the deployments and the work they may be given

Positions == 1..MaxOp

ASSUME RankAssumption == OutputRank \in Rank
ASSUME MaxOpAssumption == MaxOp \in Nat
ASSUME ConfigsAssumption ==
  Configs \subseteq
    [program : [Positions -> [route : {"roce", "nccl"},
                              last : BOOLEAN]],  \* ends its step
     ahead : Nat,          \* outputs outstanding: 0 sync, 1 async scheduling
     lastStage : BOOLEAN]  \* FALSE: the stage sends its tensors to the next

VARIABLES
  config,    \* of this run, the same on every rank
  issued,    \* steps the engine has handed to the workers
  enqueued,  \* steps each host has put on its stream
  sampled,   \* steps whose output sample_tokens has returned
  taken,     \* outputs that went through the check, released or not
  fetched,   \* get_output has the next output on the host, not checked yet
  hostPc,    \* "idle", or "executed": between execute_model and sample_tokens
  sending,   \* the step whose tensors _pp_send_work is sending, 0 if none
  raised,    \* check_health has raised in this worker
  released,  \* the steps whose output left the worker
  at,        \* the position each stream will execute or is executing
  waiting,   \* the collective at that position was launched
  finished,  \* steps the stream has completed
  sent,      \* positions each rank has sent its data for
  tainted,   \* those it sent data for that was computed from bad data
  frozen,    \* the RoCE runtime of the rank is frozen
  dirty,     \* the values on the stream are bad
  missed,    \* steps with a collective the rank gave up or skipped
  spoiled    \* steps the stream completed with bad values

host == <<enqueued, sampled, taken, fetched, hostPc, sending, raised, released>>
stream == <<at, waiting, finished, sent, tainted, dirty, missed, spoiled>>
vars == <<config, issued, host, stream, frozen>>

program == config.program
Ahead == config.ahead
LastStage == config.lastStage

TypeOK ==
  /\ config \in Configs
  /\ issued \in Nat
  /\ enqueued \in [Rank -> Nat]
  /\ sampled \in [Rank -> Nat]
  /\ taken \in [Rank -> Nat]
  /\ fetched \in [Rank -> BOOLEAN]
  /\ hostPc \in [Rank -> {"idle", "executed"}]
  /\ sending \in [Rank -> Nat]
  /\ raised \in [Rank -> BOOLEAN]
  /\ released \in [Rank -> SUBSET Nat]
  /\ at \in [Rank -> Nat]
  /\ waiting \in [Rank -> BOOLEAN]
  /\ finished \in [Rank -> Nat]
  /\ sent \in [Rank -> SUBSET Positions]
  /\ tainted \in [Rank -> SUBSET Positions]
  /\ frozen \in [Rank -> BOOLEAN]
  /\ dirty \in [Rank -> BOOLEAN]
  /\ missed \in [Rank -> SUBSET Nat]
  /\ spoiled \in [Rank -> SUBSET Nat]

Init ==
  /\ config \in Configs
  /\ issued = 0
  /\ enqueued = [r \in Rank |-> 0]
  /\ sampled = [r \in Rank |-> 0]
  /\ taken = [r \in Rank |-> 0]
  /\ fetched = [r \in Rank |-> FALSE]
  /\ hostPc = [r \in Rank |-> "idle"]
  /\ sending = [r \in Rank |-> 0]
  /\ raised = [r \in Rank |-> FALSE]
  /\ released = [r \in Rank |-> {}]
  /\ at = [r \in Rank |-> 1]
  /\ waiting = [r \in Rank |-> FALSE]
  /\ finished = [r \in Rank |-> 0]
  /\ sent = [r \in Rank |-> {}]
  /\ tainted = [r \in Rank |-> {}]
  /\ frozen = [r \in Rank |-> FALSE]
  /\ dirty = [r \in Rank |-> FALSE]
  /\ missed = [r \in Rank |-> {}]
  /\ spoiled = [r \in Rank |-> {}]

-----------------------------------------------------------------------------
(* The host.                                                               *)

\* Mutant: the check never fires.
NeverUnhealthy(r) == FALSE

\* B12xRoceAllReduce.check_health raises: the runtime of r is frozen.
Unhealthy(r) == frozen[r]

Steps == Cardinality({p \in Positions : program[p].last})

\* The engine hands a step to every worker.  At most Ahead outputs of the
\* output rank are outstanding, and a failure reported by it ends the service.
Issue ==
  /\ issued < Steps
  /\ issued - Cardinality(released[OutputRank]) <= Ahead
  /\ ~raised[OutputRank]
  /\ issued' = issued + 1
  /\ UNCHANGED <<config, host, stream, frozen>>

\* execute_model first waits for the handles in _pp_send_work.
PreviousSendDone(r) == sending[r] = 0

\* Worker.execute_model: after the previous send, the step goes on the stream.
\* The last stage returns None, which is guarded at once: a runtime already
\* frozen raises and the step has no output.  An earlier stage starts sending
\* its tensors and returns with no check.
ExecuteModel(r) ==
  /\ hostPc[r] = "idle"
  /\ PreviousSendDone(r)
  /\ enqueued[r] < issued
  /\ Ahead = 0 => sampled[r] = taken[r]   \* sample_tokens blocked until then
  /\ enqueued' = [enqueued EXCEPT ![r] = @ + 1]
  /\ \/ /\ LastStage /\ Unhealthy(r)
        /\ raised' = [raised EXCEPT ![r] = TRUE]
        /\ UNCHANGED <<hostPc, sending>>
     \/ /\ LastStage => ~Unhealthy(r)
        /\ hostPc' = [hostPc EXCEPT ![r] = "executed"]
        /\ sending' = [sending EXCEPT ![r] = IF LastStage THEN 0 ELSE enqueued'[r]]
        /\ UNCHANGED raised
  /\ UNCHANGED <<config, issued, sampled, taken, fetched, released, stream, frozen>>

\* Worker.sample_tokens.  The last stage returns an output, to be fetched and
\* checked; an earlier one returns None, guarded at once.
SampleTokens(r) ==
  /\ hostPc[r] = "executed"
  /\ hostPc' = [hostPc EXCEPT ![r] = "idle"]
  /\ sampled' = IF LastStage THEN [sampled EXCEPT ![r] = @ + 1] ELSE sampled
  /\ raised' = [raised EXCEPT ![r] = @ \/ (~LastStage /\ Unhealthy(r))]
  /\ UNCHANGED <<config, issued, enqueued, taken, fetched, sending, released,
                 stream, frozen>>

\* Mutant: the check comes before get_output, not after it.
OutputAnytime(r) == TRUE

\* The copy of the next output has completed: so has its step on the stream.
OutputOnHost(r) == taken[r] < finished[r]

\* The inner get_output returns (or the synchronous output is complete): the
\* stream has completed the step and the tokens are on the host.
FetchOutput(r) ==
  /\ ~fetched[r]
  /\ taken[r] < sampled[r]
  /\ OutputOnHost(r)
  /\ fetched' = [fetched EXCEPT ![r] = TRUE]
  /\ UNCHANGED <<config, issued, enqueued, sampled, taken, hostPc, sending,
                 raised, released, stream, frozen>>

\* The output at the head is done with, released or not.
TakenNext(r) == [taken EXCEPT ![r] = @ + 1]

\* The check that follows: it raises, or the output leaves the worker.
CheckOutput(r) ==
  /\ fetched[r]
  /\ fetched' = [fetched EXCEPT ![r] = FALSE]
  /\ taken' = TakenNext(r)
  /\ \/ /\ Unhealthy(r)
        /\ raised' = [raised EXCEPT ![r] = TRUE]
        /\ UNCHANGED released
     \/ /\ ~Unhealthy(r)
        /\ released' = [released EXCEPT ![r] = @ \cup {taken[r] + 1}]
        /\ UNCHANGED raised
  /\ UNCHANGED <<config, issued, enqueued, sampled, hostPc, sending, stream, frozen>>

\* isend_tensor_dict: the tensors of an earlier stage leave once the stream
\* has computed them; the next execute_model waits for this.
SendCompletes(r) ==
  /\ sending[r] # 0
  /\ sending[r] <= finished[r]
  /\ sending' = [sending EXCEPT ![r] = 0]
  /\ released' = [released EXCEPT ![r] = @ \cup {sending[r]}]
  /\ UNCHANGED <<config, issued, enqueued, sampled, taken, fetched, hostPc,
                 raised, stream, frozen>>

-----------------------------------------------------------------------------
(* The stream.                                                             *)

\* The stream moves past position at[r] with good (bad = FALSE) or bad values.
Advance(r, bad) ==
  /\ waiting' = [waiting EXCEPT ![r] = FALSE]
  /\ at' = [at EXCEPT ![r] = @ + 1]
  /\ dirty' = [dirty EXCEPT ![r] = bad]
  /\ IF program[at[r]].last
       THEN /\ finished' = [finished EXCEPT ![r] = @ + 1]
            /\ spoiled' = IF bad THEN [spoiled EXCEPT ![r] = @ \cup {finished'[r]}]
                          ELSE spoiled
       ELSE UNCHANGED <<finished, spoiled>>

\* Mutant: a frozen runtime goes on sending.
AcceptsAnyway(r) == TRUE

\* The runtime takes the collective at at[r]; NCCL always does.
Accepts(r) == program[at[r]].route = "roce" => ~frozen[r]

\* The next collective is launched: the rank sends its data and waits.
Launch(r) ==
  /\ ~waiting[r]
  /\ at[r] \in Positions
  /\ finished[r] < enqueued[r]
  /\ Accepts(r)
  /\ waiting' = [waiting EXCEPT ![r] = TRUE]
  /\ sent' = [sent EXCEPT ![r] = @ \cup {at[r]}]
  /\ tainted' = IF dirty[r] THEN [tainted EXCEPT ![r] = @ \cup {at[r]}] ELSE tainted
  /\ UNCHANGED <<config, issued, host, frozen, at, finished, dirty, missed, spoiled>>

\* A frozen runtime does nothing: no data is sent, the result is never written.
Skip(r) ==
  /\ ~waiting[r]
  /\ at[r] \in Positions
  /\ finished[r] < enqueued[r]
  /\ ~Accepts(r)
  /\ Advance(r, TRUE)
  /\ missed' = [missed EXCEPT ![r] = @ \cup {finished[r] + 1}]
  /\ UNCHANGED <<config, issued, host, frozen, sent, tainted>>

\* The data of every rank is there: the collective completes, with bad values
\* if this rank's or any data it received was bad.
Complete(r) ==
  /\ waiting[r]
  /\ program[at[r]].route = "roce" => ~frozen[r]
  /\ \A s \in Rank : at[r] \in sent[s]
  /\ Advance(r, dirty[r] \/ \E s \in Rank : at[r] \in tainted[s])
  /\ UNCHANGED <<config, issued, host, frozen, sent, tainted, missed>>

\* The wait r is in may reach the spin limit: a peer has not sent its data.
SpinLimitReached(r) == \E s \in Rank : at[r] \notin sent[s]

\* The spin limit is reached before a peer's data: the runtime freezes.
Timeout(r) ==
  /\ waiting[r] /\ program[at[r]].route = "roce" /\ ~frozen[r]
  /\ SpinLimitReached(r)
  /\ frozen' = [frozen EXCEPT ![r] = TRUE]
  /\ UNCHANGED <<config, issued, host, stream>>

\* The proxy of the runtime dies, at any time.
ProxyDies(r) ==
  /\ ~frozen[r]
  /\ frozen' = [frozen EXCEPT ![r] = TRUE]
  /\ UNCHANGED <<config, issued, host, stream>>

\* Mutant: giving up makes the runtime usable again.
ThawedBy(r) == [frozen EXCEPT ![r] = FALSE]

\* Freezing is for good.
KeptBy(r) == frozen

\* The kernel that was waiting gives up and the stream goes on.
Abandon(r) ==
  /\ waiting[r] /\ program[at[r]].route = "roce" /\ frozen[r]
  /\ Advance(r, TRUE)
  /\ missed' = [missed EXCEPT ![r] = @ \cup {finished[r] + 1}]
  /\ frozen' = KeptBy(r)
  /\ UNCHANGED <<config, issued, host, sent, tainted>>

-----------------------------------------------------------------------------
Host(r) ==
  ExecuteModel(r) \/ SampleTokens(r) \/ FetchOutput(r) \/ CheckOutput(r)
  \/ SendCompletes(r)

Stream(r) == Launch(r) \/ Skip(r) \/ Complete(r) \/ Timeout(r) \/ Abandon(r)

Next == Issue \/ \E r \in Rank : Host(r) \/ Stream(r) \/ ProxyDies(r)

\* Streams execute what is on them and a wait is bounded by the spin limit;
\* a worker that has not raised goes on with its steps and its outputs.  A
\* worker that raised may or may not: its executor decides.
Fairness ==
  \A r \in Rank : /\ WF_vars(Stream(r))
                  /\ WF_vars(~raised[r] /\ Host(r))

Spec == Init /\ [][Next]_vars

FairSpec == Spec /\ Fairness

-----------------------------------------------------------------------------
\* No output of a step with a collective that failed there leaves a worker.
OutputsComplete == \A r \in Rank : released[r] \cap missed[r] = {}

\* Where outputs pass the check, an output that left the worker belongs to a
\* step whose every collective completed on that worker ("so the step's output
\* never leaves the worker", b12x_roce_all_reduce.py:33-35).
ReleasedComplete == LastStage => OutputsComplete

\* No output computed from bad data, of any rank, leaves a worker.
OutputsClean == \A r \in Rank : released[r] \cap spoiled[r] = {}

\* Every step ends with a RoCE collective: the logits gather, when the
\* all-gather route is on.
RoceEndsSteps == \A p \in Positions : program[p].last => program[p].route = "roce"

\* Then an output that left a worker was computed from good data only,
\* whichever rank's runtime froze ("Peers starve on the stalled rank and raise
\* too", b12x_roce_all_reduce.py:35).
ReleasedClean == LastStage /\ RoceEndsSteps => OutputsClean

\* Where outputs pass the check and every collective goes to RoCE, a worker
\* whose collective needs data a frozen rank never sent raises.
StarvedPeerRaises ==
  \A r, s \in Rank :
    (/\ LastStage /\ \A p \in Positions : program[p].route = "roce"
     /\ waiting[s] /\ at[s] \in Positions /\ program[at[s]].route = "roce"
     /\ frozen[r] /\ at[s] \notin sent[r]) ~> raised[s]

\* The abstract service, where outputs pass the check and steps end with a
\* RoCE collective: a step is good once the stream has completed it without bad
\* values.  Elsewhere the backend promises nothing, and the mapping is constant.
Promised == LastStage /\ RoceEndsSteps

StepsGood == [r \in Rank |-> {n \in 1..finished[r] : n \notin spoiled[r]}]

Good == IF Promised THEN StepsGood ELSE [r \in Rank |-> {}]
Handed == IF Promised THEN released ELSE [r \in Rank |-> {}]
Failed == IF Promised THEN raised ELSE [r \in Rank |-> FALSE]

F == INSTANCE FailStop WITH good <- Good, released <- Handed, failed <- Failed

\* The workers implement the fail-stop service.
ImplementsFailStop == F!Spec
=============================================================================
