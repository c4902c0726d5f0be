----------------------------- MODULE Roce_proofs -----------------------------
(***************************************************************************)
(* Proofs about the RoCE adapter.                                          *)
(*                                                                         *)
(* RoceVote, for any group, any limits and any environment: type           *)
(* correctness, the three safety properties, and the implementation of     *)
(* AllOrNothing.                                                           *)
(*                                                                         *)
(* RoceStep, for any number of ranks and any program: on a worker whose    *)
(* outputs pass the health check (LastStage), no output of a step with a   *)
(* collective that failed there is released.  If moreover every step ends  *)
(* with a RoCE collective, no output computed from bad data of any rank is *)
(* released, and the workers implement FailStop.                           *)
(***************************************************************************)
EXTENDS RoceVote, RoceStep, TLAPS

-----------------------------------------------------------------------------
(* The construction protocol.                                              *)

AllPosted == \A r \in Rank : vote[r] # NoVote

Passed == AllPosted /\ VotePasses(vote)

\* A vote is what the rank found out about itself.
VotesHonest ==
  \A r \in Rank :
    /\ pc[r] = "start" => vote[r] = NoVote
    /\ pc[r] \in {"vote", "setup"} => vote[r] # NoVote
    /\ vote[r] # NoVote => vote[r] = LocalCapability(cap[r])

\* Nobody enters the setup exchange, and it is not settled, before every
\* rank has voted for the same limits.
SetupAfterVote ==
  /\ \A r \in Rank : pc[r] = "setup" => Passed
  /\ setup # "open" => Passed /\ \A r \in Rank : pc[r] \notin {"start", "vote"}

\* The backend is on exactly where a settled exchange succeeded.
EnabledBySetup ==
  \A r \in Rank :
    /\ ~disabled[r] => /\ setup = "ok"
                       /\ runtime[r] = vote[r]
                       /\ gather[r] = (vote[r] \in GatherLimit)
    /\ r \in Built /\ setup = "ok" => ~disabled[r]
    /\ disabled[r] /\ pc[r] # "closed" => runtime[r] = NoVote /\ gather[r] = FALSE

\* A rank still under construction has not switched anything on.
OffUntilBuilt ==
  \A r \in Rank :
    /\ pc[r] \in {"start", "vote", "setup"} => disabled[r]
    /\ pc[r] = "ready" => caComm[r] = (setting.custom[r] /\ disabled[r])

\* Why a rank can hold a communicator with the backend off.
OffForAReason ==
  \A r \in Built :
    /\ vote[r] # NoVote => AllPosted
    /\ disabled[r] /\ Passed => setup = "failed" \/ Gone # {}

VoteInv ==
  VoteTypeOK /\ VotesHonest /\ SetupAfterVote /\ EnabledBySetup /\ OffUntilBuilt
  /\ OffForAReason
-----------------------------------------------------------------------------
\* A rank's vote is always one of the values that can be posted.
LEMMA LocalCapabilityType ==
  ASSUME NEW c \in Capability
  PROVE  LocalCapability(c) \in Limit \cup {Refusal}
  BY CapabilityAssumption DEF LocalCapability, CanTakePart

LEMMA InitVoteInv == VoteInit => VoteInv
  BY LimitAssumption DEF VoteInit, VoteInv, VoteTypeOK, VotesHonest, SetupAfterVote,
     EnabledBySetup, OffUntilBuilt, OffForAReason, Built

LEMMA StepVoteInv == VoteInv /\ [VoteNext]_voteVars => VoteInv'
<1> SUFFICES ASSUME VoteInv, [VoteNext]_voteVars PROVE VoteInv'
  OBVIOUS
<1> USE LimitAssumption, RootAssumption
    DEF VoteInv, VoteTypeOK, VotesHonest, SetupAfterVote, EnabledBySetup,
        OffUntilBuilt, OffForAReason, Built, Gone, AllPosted, Passed, VotePasses, Proceeds,
        PeerLost, SetupFails
<1>1. CASE SettleSetup
  BY <1>1 DEF SettleSetup
<1>2. ASSUME NEW r \in Rank, SkipRoce(r) PROVE VoteInv'
  BY <1>2 DEF SkipRoce
<1>3. ASSUME NEW r \in Rank, PostVote(r) PROVE VoteInv'
  BY <1>3, LocalCapabilityType DEF PostVote
<1>4. ASSUME NEW r \in Rank, TallyVotes(r) PROVE VoteInv'
  BY <1>4 DEF TallyVotes
<1>5. ASSUME NEW r \in Rank, VoteError(r) PROVE VoteInv'
  BY <1>5 DEF VoteError
<1>6. ASSUME NEW r \in Rank, SetupReturns(r) PROVE VoteInv'
  BY <1>6 DEF SetupReturns
<1>7. ASSUME NEW r \in Rank, SetupRaises(r) PROVE VoteInv'
  BY <1>7 DEF SetupRaises
<1>8. ASSUME NEW r \in Rank, BuildCustomAllreduce(r) PROVE VoteInv'
  BY <1>8 DEF BuildCustomAllreduce
<1>9. ASSUME NEW r \in Rank, Close(r) PROVE VoteInv'
  BY <1>9 DEF Close
<1>10. ASSUME NEW r \in Rank, Die(r) PROVE VoteInv'
  BY <1>10 DEF Die
<1>11. CASE UNCHANGED voteVars
  BY <1>11 DEF voteVars
<1> QED
  BY <1>1, <1>2, <1>3, <1>4, <1>5, <1>6, <1>7, <1>8, <1>9, <1>10, <1>11
  DEF VoteNext, Construct

\* VoteInv holds in every reachable state.
THEOREM VoteInvariance == VoteSpec => []VoteInv
  BY InitVoteInv, StepVoteInv, PTL DEF VoteSpec

\* Every reachable state is well typed.
THEOREM VoteTypeCorrect == VoteSpec => []VoteTypeOK
  BY VoteInvariance, PTL DEF VoteInv

-----------------------------------------------------------------------------
\* Ranks that hold a communicator agree on the backend, its limits and its
\* routes: a disabled one carries no limits, an enabled one carries the limits
\* it voted for, and the vote only passes on equal limits.
LEMMA VoteInvAgreement == VoteInv => Agreement
<1> SUFFICES ASSUME VoteInv, NEW r \in Built, NEW s \in Built
             PROVE  /\ disabled[r] = disabled[s]
                    /\ runtime[r] = runtime[s]
                    /\ gather[r] = gather[s]
                    /\ pc[r] = "ready" /\ pc[s] = "ready"
                         /\ setting.custom[r] = setting.custom[s]
                         => caComm[r] = caComm[s]
  BY DEF Agreement
<1>1. disabled[r] = disabled[s]
  BY DEF VoteInv, VoteTypeOK, EnabledBySetup, Built
<1>2. /\ runtime[r] = runtime[s]
      /\ gather[r] = gather[s]
  <2>1. CASE disabled[r]
    BY <1>1, <2>1 DEF VoteInv, EnabledBySetup, Built
  <2>2. CASE ~disabled[r]
    <3>1. vote[r] = vote[s]
      BY <2>2 DEF VoteInv, EnabledBySetup, SetupAfterVote, Passed, VotePasses, Built
    <3> QED
      BY <1>1, <2>2, <3>1 DEF VoteInv, EnabledBySetup, Built
  <2> QED
    BY <2>1, <2>2
<1> QED
  BY <1>1, <1>2 DEF VoteInv, OffUntilBuilt, Built

\* Any two ranks that hold a communicator agree on backend, limits and routes,
\* however many ranks failed or died on the way.
THEOREM RanksAgree == VoteSpec => []Agreement
  BY VoteInvariance, VoteInvAgreement, PTL

\* A rank that uses the backend knows that every rank passed every check
\* with its limits: votes are honest and the vote passed.
LEMMA VoteInvCapable == VoteInv => EnabledImpliesAllCapable
<1> SUFFICES ASSUME VoteInv, NEW r \in Rank, ~disabled[r], NEW s \in Rank
             PROVE  CanTakePart(cap[s]) /\ cap[s].limit = runtime[r]
  BY DEF EnabledImpliesAllCapable, CanTakePart
<1>1. /\ runtime[r] = vote[r]
      /\ Passed
  BY DEF VoteInv, EnabledBySetup, SetupAfterVote
<1>2. vote[s] = vote[r] /\ vote[s] # NoVote /\ vote[s] # Refusal
  BY <1>1 DEF Passed, AllPosted, VotePasses
<1>3. vote[s] = LocalCapability(cap[s])
  BY <1>2 DEF VoteInv, VotesHonest
<1> QED
  BY <1>1, <1>2, <1>3 DEF LocalCapability

\* The backend is on in a rank only if every rank passed every check with the
\* limits that rank routes by.
THEOREM OnlyCapableRanksEnable == VoteSpec => []EnabledImpliesAllCapable
  BY VoteInvariance, VoteInvCapable, PTL

\* A rank in the setup exchange was not left there by one that went on.
LEMMA VoteInvNobodyLeft == VoteInv => NobodyLeftInSetup
  BY DEF VoteInv, SetupAfterVote, OffForAReason, NobodyLeftInSetup, Built

\* No rank waits in the runtime's setup for one that went on without it.
THEOREM NobodyIsLeft == VoteSpec => []NobodyLeftInSetup
  BY VoteInvariance, VoteInvNobodyLeft, PTL

-----------------------------------------------------------------------------
\* The construction protocol implements AllOrNothing: a rank may switch the
\* backend on or leave it off only as the others have.
LEMMA InitMaps == VoteInit => A!Init
  BY DEF VoteInit, A!Init, Decision, Terms, Built

\* A step that leaves the other ranks alone changes the verdict of r only.
LEMMA VerdictMoves ==
  ASSUME NEW r \in Rank,
         \A s \in Rank \ {r} : /\ pc'[s] = pc[s] /\ disabled'[s] = disabled[s]
                               /\ runtime'[s] = runtime[s] /\ gather'[s] = gather[s]
  PROVE  /\ Decision' = [Decision EXCEPT ![r] = Decision'[r]]
         /\ Terms' = [Terms EXCEPT ![r] = Terms'[r]]
<1>1. \A s \in Rank \ {r} : (s \in Built)' <=> (s \in Built)
  BY DEF Built
<1>2. \A s \in Rank \ {r} : Decision'[s] = Decision[s] /\ Terms'[s] = Terms[s]
  BY <1>1 DEF Decision, Terms
<1> QED
  BY <1>2 DEF Decision, Terms

\* A step that does not move r either is a stutter of the abstract decision.
LEMMA VerdictStays ==
  ASSUME NEW r \in Rank, Decision' = [Decision EXCEPT ![r] = Decision'[r]],
         Terms' = [Terms EXCEPT ![r] = Terms'[r]],
         Decision'[r] = Decision[r], Terms'[r] = Terms[r]
  PROVE  UNCHANGED <<Decision, Terms>>
<1>1. Decision = [s \in Rank |-> Decision[s]] /\ Terms = [s \in Rank |-> Terms[s]]
  BY DEF Decision, Terms
<1>2. [Decision EXCEPT ![r] = Decision[r]] = Decision
  BY <1>1
<1>3. [Terms EXCEPT ![r] = Terms[r]] = Terms
  BY <1>1
<1>4. Decision' = Decision
  BY <1>2
<1>5. Terms' = Terms
  BY <1>3
<1> QED
  BY <1>4, <1>5

\* Nothing but these four variables matters to the verdict.
LEMMA VerdictUnchanged ==
  ASSUME UNCHANGED <<pc, disabled, runtime, gather>>
  PROVE  UNCHANGED <<Decision, Terms>>
  BY DEF Decision, Terms, Built

\* A rank that is not on has no terms.
LEMMA TermsOnlyOn ==
  ASSUME NEW r \in Rank
  PROVE  Decision[r] # "on" => Terms[r] = <<NoVote, FALSE>>
  BY DEF Decision, Terms, Built

\* A rank that is built off and one that is built on cannot meet.
LEMMA NoMixedBuilt ==
  ASSUME VoteInv, NEW r \in Rank, NEW s \in Rank, Decision[r] = "on"
  PROVE  Decision[s] # "off" /\ setup = "ok"
  BY DEF VoteInv, EnabledBySetup, Built, Decision, VoteTypeOK

\* A rank that is on routes by the limits all the ranks voted for.
LEMMA TermsOfTheVote ==
  ASSUME VoteInv, NEW r \in Rank, Decision[r] = "on"
  PROVE  Terms[r] = <<vote[Root], vote[Root] \in GatherLimit>>
<1>1. r \in Built /\ ~disabled[r]
  BY DEF Decision
<1>2. /\ runtime[r] = vote[r] /\ gather[r] = (vote[r] \in GatherLimit)
      /\ Passed
  BY <1>1 DEF VoteInv, EnabledBySetup, SetupAfterVote
<1> QED
  BY <1>1, <1>2 DEF Terms, Passed, VotePasses

LEMMA StepMaps ==
  VoteInv /\ VoteInv' /\ [VoteNext]_voteVars => [A!Next]_<<Decision, Terms>>
<1> SUFFICES ASSUME VoteInv, VoteInv', [VoteNext]_voteVars
             PROVE  [A!Next]_<<Decision, Terms>>
  OBVIOUS
<1>0. VoteTypeOK /\ VoteTypeOK'
  BY DEF VoteInv
<1>1. CASE SettleSetup
  BY <1>1, VerdictUnchanged DEF SettleSetup
<1>a. ASSUME NEW r \in Rank, Construct(r) \/ Close(r) \/ Die(r)
      PROVE  /\ Decision' = [Decision EXCEPT ![r] = Decision'[r]]
             /\ Terms' = [Terms EXCEPT ![r] = Terms'[r]]
  <2>1. \A s \in Rank \ {r} : /\ pc'[s] = pc[s] /\ disabled'[s] = disabled[s]
                              /\ runtime'[s] = runtime[s] /\ gather'[s] = gather[s]
    BY <1>0, <1>a DEF Construct, SkipRoce, PostVote, TallyVotes, VoteError,
       SetupReturns, SetupRaises, BuildCustomAllreduce, Close, Die, VoteTypeOK
  <2> QED
    BY <2>1, VerdictMoves
\* What is left of each step is the verdict of the rank that moves.
<1>b. ASSUME NEW r \in Rank, Construct(r) \/ Close(r) \/ Die(r),
             Decision[r] = "undecided", Decision'[r] = "off",
             \A s \in Rank : Decision[s] # "on"
      PROVE  A!Disable(r)
  <2>1. Terms'[r] = Terms[r]
    BY <1>b, TermsOnlyOn DEF Terms, Decision, Built
  <2>2. UNCHANGED Terms
    BY <1>a, <1>b, <2>1 DEF Terms
  <2> QED
    BY <1>a, <1>b, <2>2 DEF A!Disable
<1>c. ASSUME NEW r \in Rank, Construct(r) \/ Close(r) \/ Die(r),
             Decision'[r] = "stopped"
      PROVE  A!Stop(r)
  <2>1. Terms'[r] = <<NoVote, FALSE>>
    BY <1>c DEF Terms, Decision, Built
  <2> QED
    BY <1>a, <1>c, <2>1 DEF A!Stop
<1>d. ASSUME NEW r \in Rank, Construct(r) \/ Close(r) \/ Die(r),
             Decision'[r] = Decision[r], Terms'[r] = Terms[r]
      PROVE  UNCHANGED <<Decision, Terms>>
  BY <1>a, <1>d, VerdictStays
<1>2. ASSUME NEW r \in Rank, SkipRoce(r) PROVE A!Disable(r)
  <2>1. Decision[r] = "undecided" /\ Decision'[r] = "off"
    BY <1>0, <1>2 DEF SkipRoce, Decision, Built, VoteTypeOK, VoteInv, OffUntilBuilt
  <2>2. \A s \in Rank : Decision[s] # "on"
    BY <1>2, NoMixedBuilt DEF SkipRoce, VoteInv, SetupAfterVote
  <2> QED
    BY <1>2, <1>b, <2>1, <2>2 DEF Construct
<1>3. ASSUME NEW r \in Rank, PostVote(r) PROVE UNCHANGED <<Decision, Terms>>
  <2>1. Decision[r] = "undecided" /\ Decision'[r] = "undecided"
    BY <1>0, <1>3 DEF PostVote, Decision, VoteTypeOK
  <2>2. Terms'[r] = Terms[r]
    BY <1>0, <1>3 DEF PostVote, Terms, Built, VoteTypeOK
  <2> QED
    BY <1>3, <1>d, <2>1, <2>2 DEF Construct
<1>4. ASSUME NEW r \in Rank, TallyVotes(r)
      PROVE  A!Disable(r) \/ UNCHANGED <<Decision, Terms>>
  <2>1. Decision[r] = "undecided"
    BY <1>4 DEF TallyVotes, Decision
  <2>2. CASE VotePasses(vote)
    <3>1. Decision'[r] = "undecided"
      BY <1>0, <1>4, <2>2 DEF TallyVotes, Proceeds, Decision, VoteTypeOK
    <3>2. Terms'[r] = Terms[r]
      BY <1>0, <1>4, <2>2 DEF TallyVotes, Proceeds, Terms, Built, VoteTypeOK
    <3> QED
      BY <1>4, <1>d, <2>1, <3>1, <3>2 DEF Construct
  <2>3. CASE ~VotePasses(vote)
    <3>1. Decision'[r] = "off"
      BY <1>0, <1>4, <2>3
      DEF TallyVotes, Proceeds, Decision, Built, VoteTypeOK, VoteInv, OffUntilBuilt
    <3>2. \A s \in Rank : Decision[s] # "on"
      BY <2>3, NoMixedBuilt DEF VoteInv, SetupAfterVote, Passed
    <3> QED
      BY <1>4, <1>b, <2>1, <3>1, <3>2 DEF Construct
  <2> QED
    BY <2>2, <2>3
<1>5. ASSUME NEW r \in Rank, VoteError(r) PROVE A!Stop(r)
  <2>1. Decision'[r] = "stopped"
    BY <1>0, <1>5 DEF VoteError, Decision, Built, VoteTypeOK
  <2> QED
    BY <1>5, <1>c, <2>1 DEF Construct
<1>6. ASSUME NEW r \in Rank, SetupReturns(r)
      PROVE  \E t \in Limit \X BOOLEAN : A!Enable(r, t)
  <2> DEFINE t == Terms'[r]
  <2>1. Decision[r] = "undecided" /\ Decision'[r] = "on"
    BY <1>0, <1>6 DEF SetupReturns, Decision, Built, VoteTypeOK
  <2>2. \A s \in Rank : Decision[s] # "off"
    BY <1>6 DEF SetupReturns, Decision, Built, VoteInv, EnabledBySetup
  <2>3. t = <<vote[Root], vote[Root] \in GatherLimit>>
    <3>1. Terms'[r] = <<vote'[Root], vote'[Root] \in GatherLimit>>
      <4>1. /\ r \in Rank /\ (r \in Built)' /\ ~disabled'[r]
        BY <2>1 DEF Decision
      <4>2. /\ runtime'[r] = vote'[r] /\ gather'[r] = (vote'[r] \in GatherLimit)
            /\ Passed'
        BY <4>1 DEF VoteInv, EnabledBySetup, SetupAfterVote
      <4> QED
        BY <4>1, <4>2 DEF Terms, Passed, VotePasses
    <3> QED
      BY <1>6, <3>1 DEF SetupReturns
  <2>4. \A s \in Rank : Decision[s] = "on" => Terms[s] = t
    BY <2>3, TermsOfTheVote
  <2>5. t \in Limit \X BOOLEAN
    <3>1. Passed
      BY <1>6 DEF SetupReturns, VoteInv, SetupAfterVote
    <3>2. vote[Root] \in Limit
      BY <1>0, <3>1, RootAssumption DEF Passed, AllPosted, VotePasses, VoteTypeOK
    <3>3. ASSUME NEW l \in Limit, NEW b \in BOOLEAN PROVE <<l, b>> \in Limit \X BOOLEAN
      OBVIOUS
    <3>4. (vote[Root] \in GatherLimit) \in BOOLEAN
      OBVIOUS
    <3>5. <<vote[Root], vote[Root] \in GatherLimit>> \in Limit \X BOOLEAN
      BY <3>2, <3>3, <3>4, Zenon
    <3> QED
      BY <2>3, <3>5
  <2>6. Decision' = [Decision EXCEPT ![r] = "on"] /\ Terms' = [Terms EXCEPT ![r] = t]
    BY <1>6, <1>a, <2>1 DEF Construct
  <2>7. A!Enable(r, t)
    BY <2>1, <2>2, <2>4, <2>6 DEF A!Enable
  <2> HIDE DEF t
  <2> QED
    BY <2>5, <2>7
<1>7. ASSUME NEW r \in Rank, SetupRaises(r) PROVE A!Disable(r)
  <2>1. Decision[r] = "undecided" /\ Decision'[r] = "off"
    BY <1>0, <1>7 DEF SetupRaises, Decision, Built, VoteTypeOK, VoteInv, OffUntilBuilt
  <2>2. \A s \in Rank : Decision[s] # "on"
    BY <1>7, NoMixedBuilt DEF SetupRaises, SetupFails
  <2> QED
    BY <1>7, <1>b, <2>1, <2>2 DEF Construct
<1>8. ASSUME NEW r \in Rank, BuildCustomAllreduce(r)
      PROVE  UNCHANGED <<Decision, Terms>>
  <2>1. Decision'[r] = Decision[r]
    BY <1>0, <1>8 DEF BuildCustomAllreduce, Decision, Built, VoteTypeOK
  <2>2. Terms'[r] = Terms[r]
    BY <1>0, <1>8 DEF BuildCustomAllreduce, Terms, Built, VoteTypeOK
  <2> QED
    BY <1>8, <1>d, <2>1, <2>2 DEF Construct
<1>9. ASSUME NEW r \in Rank, Close(r) PROVE A!Stop(r)
  <2>1. Decision'[r] = "stopped"
    BY <1>0, <1>9 DEF Close, Decision, Built, VoteTypeOK
  <2> QED
    BY <1>9, <1>c, <2>1
<1>10. ASSUME NEW r \in Rank, Die(r) PROVE A!Stop(r)
  <2>1. Decision'[r] = "stopped"
    BY <1>0, <1>10 DEF Die, Decision, Built, VoteTypeOK
  <2> QED
    BY <1>10, <1>c, <2>1
<1>11. CASE UNCHANGED voteVars
  BY <1>11, VerdictUnchanged DEF voteVars
<1> QED
  BY <1>1, <1>2, <1>3, <1>4, <1>5, <1>6, <1>7, <1>8, <1>9, <1>10, <1>11
  DEF VoteNext, Construct, A!Next

\* Every behaviour of the construction protocol is one of AllOrNothing.
THEOREM VoteImplementation == VoteSpec => ImplementsAllOrNothing
  BY VoteInvariance, InitMaps, StepMaps, PTL DEF VoteSpec, ImplementsAllOrNothing, A!Spec, A!verdict

-----------------------------------------------------------------------------
(* The steps.                                                              *)

IsRoce(p) == program[p].route = "roce"

\* q has stopped for ever, and sent no RoCE data from position p on.
StoppedBefore(q, p) ==
  /\ frozen[q]
  /\ \A j \in sent[q] : IsRoce(j) => j < p

-----------------------------------------------------------------------------
(* The local invariant: on each rank, a failure is remembered by the       *)
(* runtime, and outputs are taken in order from completed steps.           *)

\* Positions are launched in order; the one being waited for is the last.
SentInOrder ==
  \A r \in Rank :
    /\ waiting[r] => at[r] \in Positions
    /\ \A p \in sent[r] : p < at[r] \/ (p = at[r] /\ waiting[r])

\* A collective is given up or skipped only by a frozen runtime.
MissedMeansFrozen == \A r \in Rank : missed[r] # {} => frozen[r]

\* An output reaches the check after its step, and leaves in order.
OutputsInOrder ==
  \A r \in Rank :
    /\ sending[r] = 0
    /\ taken[r] <= finished[r]
    /\ fetched[r] => taken[r] < finished[r]
    /\ \A n \in released[r] : n <= taken[r]

RaisedMeansFrozen == \A r \in Rank : raised[r] => frozen[r]

LInv ==
  /\ TypeOK /\ SentInOrder /\ MissedMeansFrozen /\ OutputsInOrder
  /\ RaisedMeansFrozen /\ OutputsComplete

LEMMA InitLInv == Init => LInv
  BY MaxOpAssumption, ConfigsAssumption
  DEF Init, LInv, TypeOK, SentInOrder, MissedMeansFrozen, OutputsInOrder,
      RaisedMeansFrozen, OutputsComplete

\* The configuration is that of the whole run.
LEMMA ConfigUnchanged == [Next]_vars => UNCHANGED <<config, program, LastStage>>
<1>1. [Next]_vars => UNCHANGED config
  BY DEF Next, Host, Stream, Issue, ExecuteModel, SampleTokens, FetchOutput,
     CheckOutput, SendCompletes, Launch, Skip, Complete, Timeout, ProxyDies,
     Abandon, vars
<1> QED
  BY <1>1 DEF program, LastStage

LEMMA StepTypeOK == TypeOK /\ [Next]_vars => TypeOK'
<1> SUFFICES ASSUME TypeOK, [Next]_vars PROVE TypeOK'
  OBVIOUS
<1> USE DEF TypeOK, host, stream, TakenNext, KeptBy, Unhealthy
<1>1. CASE Issue
  BY <1>1 DEF Issue
<1>2. ASSUME NEW r \in Rank, ExecuteModel(r) PROVE TypeOK'
  <2>1. enqueued' \in [Rank -> Nat]
    BY <1>2 DEF ExecuteModel
  <2>2. hostPc' \in [Rank -> {"idle", "executed"}]
    BY <1>2 DEF ExecuteModel
  <2>3. sending' \in [Rank -> Nat]
    <3>1. (IF LastStage THEN 0 ELSE enqueued'[r]) \in Nat
      BY <2>1
    <3> QED
      BY <1>2, <3>1 DEF ExecuteModel
  <2>4. raised' \in [Rank -> BOOLEAN]
    BY <1>2 DEF ExecuteModel
  <2> QED
    BY <1>2, <2>1, <2>2, <2>3, <2>4 DEF ExecuteModel
<1>3. ASSUME NEW r \in Rank, SampleTokens(r) PROVE TypeOK'
  BY <1>3 DEF SampleTokens
<1>4. ASSUME NEW r \in Rank, FetchOutput(r) PROVE TypeOK'
  BY <1>4 DEF FetchOutput
<1>5. ASSUME NEW r \in Rank, CheckOutput(r) PROVE TypeOK'
  <2>1. released[r] \cup {taken[r] + 1} \in SUBSET Nat
    OBVIOUS
  <2>2. released' \in [Rank -> SUBSET Nat] /\ raised' \in [Rank -> BOOLEAN]
    BY <1>5, <2>1 DEF CheckOutput
  <2> QED
    BY <1>5, <2>2 DEF CheckOutput
<1>6. ASSUME NEW r \in Rank, SendCompletes(r) PROVE TypeOK'
  BY <1>6 DEF SendCompletes
<1>7. ASSUME NEW r \in Rank, Launch(r) PROVE TypeOK'
  BY <1>7 DEF Launch
<1>8. ASSUME NEW r \in Rank, Skip(r) PROVE TypeOK'
  BY <1>8 DEF Skip, Advance
<1>9. ASSUME NEW r \in Rank, Complete(r) PROVE TypeOK'
  BY <1>9 DEF Complete, Advance
<1>10. ASSUME NEW r \in Rank, Timeout(r) PROVE TypeOK'
  BY <1>10 DEF Timeout
<1>11. ASSUME NEW r \in Rank, ProxyDies(r) PROVE TypeOK'
  BY <1>11 DEF ProxyDies
<1>12. ASSUME NEW r \in Rank, Abandon(r) PROVE TypeOK'
  BY <1>12 DEF Abandon, Advance
<1>13. CASE UNCHANGED vars
  BY <1>13 DEF vars
<1> QED
  BY <1>1, <1>2, <1>3, <1>4, <1>5, <1>6, <1>7, <1>8, <1>9, <1>10, <1>11, <1>12,
     <1>13 DEF Next, Host, Stream

\* What the actions of the stream do when they move past a position.
LEMMA AdvanceMoves ==
  ASSUME TypeOK, NEW r \in Rank, NEW bad \in BOOLEAN, Advance(r, bad)
  PROVE  /\ ~waiting'[r]
         /\ at'[r] = at[r] + 1
         /\ dirty'[r] = bad
         /\ finished'[r] \in {finished[r], finished[r] + 1}
         /\ \A n \in spoiled'[r] : n \in spoiled[r] \/ n = finished[r] + 1
         /\ \A s \in Rank \ {r} :
              /\ waiting'[s] = waiting[s] /\ at'[s] = at[s] /\ dirty'[s] = dirty[s]
              /\ finished'[s] = finished[s] /\ spoiled'[s] = spoiled[s]
  BY DEF Advance, TypeOK

LEMMA StepLInv == LastStage /\ LInv /\ [Next]_vars => LInv'
<1> SUFFICES ASSUME LastStage, LInv, [Next]_vars PROVE LInv'
  OBVIOUS
<1>0. TypeOK /\ TypeOK'
  BY StepTypeOK DEF LInv
<1> USE DEF SentInOrder, MissedMeansFrozen, OutputsInOrder, RaisedMeansFrozen,
            OutputsComplete, host, stream, TakenNext, KeptBy, OutputOnHost,
            Accepts, Unhealthy
<1>1. CASE Issue
  BY <1>0, <1>1 DEF Issue, LInv
<1>2. ASSUME NEW r \in Rank, ExecuteModel(r) PROVE LInv'
  BY <1>0, <1>2 DEF ExecuteModel, LInv, TypeOK
<1>3. ASSUME NEW r \in Rank, SampleTokens(r) PROVE LInv'
  BY <1>0, <1>3 DEF SampleTokens, LInv, TypeOK
<1>4. ASSUME NEW r \in Rank, FetchOutput(r) PROVE LInv'
  BY <1>0, <1>4 DEF FetchOutput, LInv, TypeOK
<1>5. ASSUME NEW r \in Rank, CheckOutput(r) PROVE LInv'
  <2>1. /\ taken'[r] = taken[r] + 1 /\ taken[r] < finished[r]
        /\ \A s \in Rank \ {r} : taken'[s] = taken[s] /\ fetched'[s] = fetched[s]
        /\ ~fetched'[r]
    BY <1>0, <1>5 DEF CheckOutput, LInv, TypeOK
  <2>2. \A s \in Rank : released'[s] # released[s] =>
          s = r /\ ~frozen[r] /\ released'[r] = released[r] \cup {taken[r] + 1}
    BY <1>0, <1>5 DEF CheckOutput, LInv, TypeOK
  <2>3. OutputsInOrder'
    BY <1>0, <1>5, <2>1, <2>2 DEF CheckOutput, LInv, TypeOK
  <2>4. RaisedMeansFrozen' /\ SentInOrder' /\ MissedMeansFrozen'
    BY <1>0, <1>5 DEF CheckOutput, LInv, TypeOK
  <2>5. OutputsComplete'
    BY <1>0, <1>5, <2>2 DEF CheckOutput, LInv
  <2> QED
    BY <1>0, <2>3, <2>4, <2>5 DEF LInv
<1>6. ASSUME NEW r \in Rank, SendCompletes(r) PROVE LInv'
  BY <1>0, <1>6 DEF SendCompletes, LInv, TypeOK
<1>7. ASSUME NEW r \in Rank, Launch(r) PROVE LInv'
  BY <1>0, <1>7 DEF Launch, LInv, TypeOK
<1>8. ASSUME NEW r \in Rank, Skip(r) \/ Abandon(r) PROVE LInv'
  <2>1. Advance(r, TRUE) /\ frozen[r] /\ UNCHANGED <<host, frozen, sent>>
    BY <1>8 DEF Skip, Abandon
  <2>2. \A s \in Rank : missed'[s] # missed[s] =>
          s = r /\ missed'[r] = missed[r] \cup {finished[r] + 1}
    BY <1>0, <1>8 DEF Skip, Abandon, TypeOK
  <2>7. /\ ~waiting'[r] /\ at'[r] = at[r] + 1
        /\ finished'[r] \in {finished[r], finished[r] + 1}
        /\ \A s \in Rank \ {r} : /\ waiting'[s] = waiting[s] /\ at'[s] = at[s]
                                 /\ finished'[s] = finished[s]
    BY <1>0, <2>1, AdvanceMoves
  <2>3. SentInOrder'
    <3>1. \A p \in sent[r] : p < at[r] + 1
      BY <1>0 DEF LInv, TypeOK, Positions
    <3> QED
      BY <2>1, <2>7, <3>1 DEF LInv
  <2>4. OutputsInOrder'
    <3>1. \A s \in Rank : finished[s] <= finished'[s]
      BY <1>0, <2>7 DEF TypeOK
    <3> QED
      BY <1>0, <2>1, <3>1 DEF LInv, TypeOK
  <2>5. MissedMeansFrozen' /\ RaisedMeansFrozen'
    BY <2>1, <2>2 DEF LInv
  <2>6. OutputsComplete'
    <3>1. finished[r] + 1 \notin released[r]
      BY <1>0 DEF LInv, TypeOK
    <3> QED
      BY <2>1, <2>2, <3>1 DEF LInv
  <2> QED
    BY <1>0, <2>3, <2>4, <2>5, <2>6 DEF LInv
<1>9. ASSUME NEW r \in Rank, Complete(r) PROVE LInv'
  <2> DEFINE bad == dirty[r] \/ \E s \in Rank : at[r] \in tainted[s]
  <2>1. /\ Advance(r, bad) /\ bad \in BOOLEAN
        /\ UNCHANGED <<host, frozen, sent, missed>>
    BY <1>0, <1>9 DEF Complete, TypeOK
  <2> HIDE DEF bad
  <2>5. /\ ~waiting'[r] /\ at'[r] = at[r] + 1
        /\ finished'[r] \in {finished[r], finished[r] + 1}
        /\ \A s \in Rank \ {r} : /\ waiting'[s] = waiting[s] /\ at'[s] = at[s]
                                 /\ finished'[s] = finished[s]
    BY <1>0, <2>1, AdvanceMoves
  <2>2. SentInOrder'
    <3>1. \A p \in sent[r] : p < at[r] + 1
      BY <1>0 DEF LInv, TypeOK, Positions
    <3> QED
      BY <2>1, <2>5, <3>1 DEF LInv
  <2>3. OutputsInOrder'
    <3>1. \A s \in Rank : finished[s] <= finished'[s]
      BY <1>0, <2>5 DEF TypeOK
    <3> QED
      BY <1>0, <2>1, <3>1 DEF LInv, TypeOK
  <2>4. MissedMeansFrozen' /\ RaisedMeansFrozen' /\ OutputsComplete'
    BY <2>1 DEF LInv
  <2> QED
    BY <1>0, <2>2, <2>3, <2>4 DEF LInv
<1>10. ASSUME NEW r \in Rank, Timeout(r) \/ ProxyDies(r) PROVE LInv'
  BY <1>0, <1>10 DEF Timeout, ProxyDies, LInv, TypeOK
<1>11. CASE UNCHANGED vars
  BY <1>0, <1>11 DEF vars, LInv
<1> QED
  BY <1>1, <1>2, <1>3, <1>4, <1>5, <1>6, <1>7, <1>8, <1>9, <1>10, <1>11
  DEF Next, Host, Stream

\* The local theorem: on a worker whose outputs are checked, the invariant
\* holds whatever the program.
THEOREM LocalInvariance == Spec => [](TypeOK /\ (LastStage => LInv))
<1>1. Init => TypeOK /\ (LastStage => LInv)
  BY InitLInv DEF LInv
<1>2. TypeOK /\ (LastStage => LInv) /\ [Next]_vars
      => (TypeOK /\ (LastStage => LInv))'
  BY StepTypeOK, StepLInv, ConfigUnchanged
<1> QED
  BY <1>1, <1>2, PTL DEF Spec

\* Every variable keeps its type.
THEOREM TypeCorrect == Spec => []TypeOK
  BY LocalInvariance, PTL

\* On a last stage nothing of a step with a failed collective is released,
\* whatever the program (_b12x_roce_guarded, gpu_worker.py:1041-1060).
THEOREM NothingIncompleteLeaves == Spec => []ReleasedComplete
<1>1. (LastStage => LInv) => ReleasedComplete
  BY DEF ReleasedComplete, LInv
<1> QED
  BY <1>1, LocalInvariance, PTL

-----------------------------------------------------------------------------
(* The invariant across ranks: bad values always come from a rank that has *)
(* stopped sending RoCE data, so the next RoCE collective cannot complete  *)
(* where they have arrived.                                                *)

DirtyBehindStopped ==
  \A s \in Rank : dirty[s] => \E q \in Rank : StoppedBefore(q, at[s])

TaintedBehindStopped ==
  \A s \in Rank : \A p \in tainted[s] : \E q \in Rank : StoppedBefore(q, p)

SpoiledMeansFrozen == \A r \in Rank : spoiled[r] # {} => frozen[r]

GInv ==
  /\ LInv /\ DirtyBehindStopped /\ TaintedBehindStopped
  /\ SpoiledMeansFrozen /\ OutputsClean

LEMMA InitGInv == Init => GInv
  BY InitLInv DEF Init, GInv, DirtyBehindStopped, TaintedBehindStopped,
     SpoiledMeansFrozen, OutputsClean

\* A RoCE collective completes only with good values.
LEMMA RoceCompletesClean ==
  ASSUME GInv, NEW s \in Rank, Complete(s), IsRoce(at[s])
  PROVE  ~(dirty[s] \/ \E q \in Rank : at[s] \in tainted[q])
<1>1. \A q \in Rank : ~StoppedBefore(q, at[s])
  <2> SUFFICES ASSUME NEW q \in Rank, StoppedBefore(q, at[s]) PROVE FALSE
    OBVIOUS
  <2>1. at[s] \in sent[q]
    BY DEF Complete
  <2>2. at[s] \in Nat
    BY DEF GInv, LInv, TypeOK
  <2> QED
    BY <2>1, <2>2 DEF StoppedBefore
<1> QED
  BY <1>1 DEF GInv, DirtyBehindStopped, TaintedBehindStopped

\* Being stopped before a position is stable, in every step.
LEMMA StoppedStable ==
  ASSUME TypeOK, [Next]_vars, NEW q \in Rank, NEW p \in Nat, StoppedBefore(q, p)
  PROVE  StoppedBefore(q, p)'
<1>1. UNCHANGED program
  BY ConfigUnchanged
<1>2. frozen'[q]
  BY DEF StoppedBefore, Next, Host, Stream, Issue, ExecuteModel, SampleTokens,
     FetchOutput, CheckOutput, SendCompletes, Launch, Skip, Complete, Timeout,
     ProxyDies, Abandon, KeptBy, vars, TypeOK
<1>3. \A j \in sent'[q] : j \in sent[q] \/ ~IsRoce(j)
  <2>1. ASSUME NEW r \in Rank, Launch(r)
        PROVE  \A j \in sent'[q] : j \in sent[q] \/ ~IsRoce(j)
    BY <2>1 DEF Launch, Accepts, StoppedBefore, IsRoce, TypeOK
  <2>2. CASE UNCHANGED sent
    BY <2>2
  <2>3. UNCHANGED sent \/ \E r \in Rank : Launch(r)
    BY DEF Next, Host, Stream, Issue, ExecuteModel, SampleTokens, FetchOutput,
       CheckOutput, SendCompletes, Skip, Complete, Timeout, ProxyDies, Abandon,
       vars, stream
  <2> QED
    BY <2>1, <2>2, <2>3
<1> QED
  BY <1>1, <1>2, <1>3 DEF StoppedBefore, IsRoce

LEMMA StepGInv == LastStage /\ RoceEndsSteps /\ GInv /\ [Next]_vars => GInv'
<1> SUFFICES ASSUME LastStage, RoceEndsSteps, GInv, [Next]_vars PROVE GInv'
  OBVIOUS
<1>0. /\ LInv /\ LInv' /\ TypeOK /\ TypeOK'
      /\ \A s \in Rank : at[s] \in Nat
      /\ \A s \in Rank : tainted[s] \subseteq Nat
  BY StepLInv, MaxOpAssumption DEF GInv, LInv, TypeOK, Positions
<1>s. \A q \in Rank, p \in Nat : StoppedBefore(q, p) => StoppedBefore(q, p)'
  BY <1>0, StoppedStable
<1>a. ASSUME UNCHANGED <<at, dirty, tainted, spoiled>>,
             \A r \in Rank : frozen[r] => frozen'[r]
      PROVE  DirtyBehindStopped' /\ TaintedBehindStopped' /\ SpoiledMeansFrozen'
  BY <1>0, <1>s, <1>a
  DEF GInv, DirtyBehindStopped, TaintedBehindStopped, SpoiledMeansFrozen
<1>1. CASE UNCHANGED <<stream, frozen, released>>
  BY <1>0, <1>1, <1>a DEF GInv, OutputsClean, stream
<1>2. ASSUME NEW r \in Rank, CheckOutput(r) PROVE GInv'
  <2>1. UNCHANGED <<at, dirty, tainted, spoiled, frozen>>
    BY <1>2 DEF CheckOutput, stream
  <2>2. \A s \in Rank : released'[s] # released[s] => s = r /\ ~frozen[r]
    BY <1>0, <1>2 DEF CheckOutput, TakenNext, Unhealthy, TypeOK
  <2>3. OutputsClean'
    BY <2>1, <2>2 DEF GInv, OutputsClean, SpoiledMeansFrozen
  <2> QED
    BY <1>0, <1>a, <2>1, <2>3 DEF GInv
<1>3. ASSUME NEW r \in Rank, SendCompletes(r) PROVE FALSE
  BY <1>0, <1>3 DEF SendCompletes, LInv, OutputsInOrder
<1>4. ASSUME NEW r \in Rank, Timeout(r) \/ ProxyDies(r) PROVE GInv'
  <2>1. /\ UNCHANGED <<at, dirty, tainted, spoiled, released>>
        /\ \A s \in Rank : frozen[s] => frozen'[s]
    BY <1>0, <1>4 DEF Timeout, ProxyDies, TypeOK, stream, host
  <2> QED
    BY <1>0, <1>a, <2>1 DEF GInv, OutputsClean
<1>5. ASSUME NEW r \in Rank, Launch(r) PROVE GInv'
  <2>1. /\ UNCHANGED <<at, dirty, spoiled, released, frozen>>
        /\ \A s \in Rank : \A p \in tainted'[s] :
              p \in tainted[s] \/ (s = r /\ p = at[r] /\ dirty[r])
    BY <1>0, <1>5 DEF Launch, TypeOK, host
  <2>2. DirtyBehindStopped'
    BY <1>0, <1>s, <2>1 DEF GInv, DirtyBehindStopped
  <2>3. TaintedBehindStopped'
    BY <1>0, <1>s, <2>1 DEF GInv, DirtyBehindStopped, TaintedBehindStopped
  <2>4. SpoiledMeansFrozen' /\ OutputsClean'
    BY <2>1 DEF GInv, SpoiledMeansFrozen, OutputsClean
  <2> QED
    BY <1>0, <2>2, <2>3, <2>4 DEF GInv
<1>6. ASSUME NEW r \in Rank, Skip(r) \/ Abandon(r) PROVE GInv'
  <2>1. Advance(r, TRUE) /\ frozen[r] /\ UNCHANGED <<host, frozen, sent, tainted>>
    BY <1>6 DEF Skip, Abandon, Accepts, KeptBy
  <2>2. /\ at'[r] = at[r] + 1
        /\ \A s \in Rank \ {r} : /\ at'[s] = at[s] /\ dirty'[s] = dirty[s]
                                 /\ spoiled'[s] = spoiled[s]
        /\ \A n \in spoiled'[r] : n \in spoiled[r] \/ n = finished[r] + 1
    BY <1>0, <2>1, AdvanceMoves
  <2>3. StoppedBefore(r, at[r] + 1)
    <3>1. \A j \in sent[r] : j < at[r] + 1
      <4>1. at[r] \in Nat /\ \A j \in sent[r] : j \in Nat
        BY <1>0 DEF TypeOK, Positions
      <4>2. \A j \in sent[r] : j < at[r] \/ j = at[r]
        BY <1>0 DEF LInv, SentInOrder
      <4> QED
        BY <4>1, <4>2
    <3> QED
      BY <2>1, <3>1 DEF StoppedBefore
  <2>4. DirtyBehindStopped'
    BY <1>0, <1>s, <2>2, <2>3 DEF GInv, DirtyBehindStopped
  <2>5. TaintedBehindStopped'
    BY <1>0, <1>s, <2>1 DEF GInv, TaintedBehindStopped
  <2>6. SpoiledMeansFrozen'
    BY <2>1, <2>2 DEF GInv, SpoiledMeansFrozen
  <2>7. OutputsClean'
    <3>1. finished[r] + 1 \notin released[r]
      BY <1>0 DEF LInv, TypeOK, OutputsInOrder
    <3> QED
      BY <2>1, <2>2, <3>1 DEF GInv, OutputsClean, host
  <2> QED
    BY <1>0, <2>4, <2>5, <2>6, <2>7 DEF GInv
<1>7. ASSUME NEW r \in Rank, Complete(r) PROVE GInv'
  <2> DEFINE bad == dirty[r] \/ \E s \in Rank : at[r] \in tainted[s]
  <2>1. /\ Advance(r, bad) /\ bad \in BOOLEAN
        /\ UNCHANGED <<host, frozen, sent, tainted>>
    BY <1>0, <1>7 DEF Complete, TypeOK
  <2>2. bad => ~program[at[r]].last
    <3>1. at[r] \in Positions
      BY <1>0, <1>7 DEF Complete, LInv, SentInOrder, TypeOK
    <3> QED
      BY <1>7, <3>1, RoceCompletesClean DEF RoceEndsSteps, IsRoce
  <2>3. bad => \E q \in Rank : StoppedBefore(q, at[r])
    BY DEF GInv, DirtyBehindStopped, TaintedBehindStopped
  <2> HIDE DEF bad
  <2>4. /\ at'[r] = at[r] + 1 /\ dirty'[r] = bad
        /\ \A s \in Rank \ {r} : at'[s] = at[s] /\ dirty'[s] = dirty[s]
    BY <1>0, <2>1, AdvanceMoves
  <2>5. UNCHANGED spoiled
    BY <2>1, <2>2 DEF Advance
  <2>6. bad => \E q \in Rank : StoppedBefore(q, at[r] + 1)
    BY <1>0, <2>3, MaxOpAssumption DEF StoppedBefore, TypeOK, Positions
  <2>7. DirtyBehindStopped'
    BY <1>0, <1>s, <2>4, <2>6 DEF GInv, DirtyBehindStopped
  <2>8. TaintedBehindStopped'
    BY <1>0, <1>s, <2>1 DEF GInv, TaintedBehindStopped
  <2>9. SpoiledMeansFrozen' /\ OutputsClean'
    BY <2>1, <2>5 DEF GInv, SpoiledMeansFrozen, OutputsClean, host
  <2> QED
    BY <1>0, <2>7, <2>8, <2>9 DEF GInv
<1>8. CASE Issue \/ UNCHANGED vars
  BY <1>1, <1>8 DEF Issue, vars, host, stream
<1>9. ASSUME NEW r \in Rank, ExecuteModel(r) \/ SampleTokens(r) \/ FetchOutput(r)
      PROVE  GInv'
  BY <1>1, <1>9 DEF ExecuteModel, SampleTokens, FetchOutput
<1> QED
  BY <1>2, <1>3, <1>4, <1>5, <1>6, <1>7, <1>8, <1>9 DEF Next, Host, Stream

\* So is what the backend promises.
LEMMA PromisedUnchanged == [Next]_vars => UNCHANGED Promised
  BY ConfigUnchanged DEF Promised, RoceEndsSteps

\* If every step ends with a RoCE collective, no output computed from bad data
\* leaves any worker, whichever runtimes froze and in whichever order: a bad
\* value reaches a rank only behind a stopped one, and the collective that
\* ends the step needs the data that one never sent.
THEOREM GlobalInvariance == Spec => [](Promised => GInv)
<1>1. Init => (Promised => GInv)
  BY InitGInv
<1>2. (Promised => GInv) /\ [Next]_vars
      => (Promised => GInv)'
  BY StepGInv, PromisedUnchanged DEF Promised
<1> QED
  BY <1>1, <1>2, PTL DEF Spec

\* Outputs that pass the check are computed from good data only, where steps
\* end with a RoCE collective ("Peers starve on the stalled rank and raise
\* too", b12x_roce_all_reduce.py:35).
THEOREM NothingBadLeaves == Spec => []ReleasedClean
<1>1. (Promised => GInv) => ReleasedClean
  BY DEF ReleasedClean, GInv, Promised
<1> QED
  BY <1>1, GlobalInvariance, PTL

-----------------------------------------------------------------------------
(* The workers implement FailStop.                                         *)

\* The stream adds the step it completes to those computed from good data.
LEMMA GoodGrows ==
  ASSUME TypeOK, NEW r \in Rank, NEW bad \in BOOLEAN, Advance(r, bad)
  PROVE  /\ StepsGood[r] \subseteq StepsGood'[r]
         /\ StepsGood' = [StepsGood EXCEPT ![r] = StepsGood'[r]]
<1>1. /\ finished'[r] \in {finished[r], finished[r] + 1}
      /\ \A n \in spoiled'[r] : n \in spoiled[r] \/ n = finished[r] + 1
      /\ \A s \in Rank \ {r} : finished'[s] = finished[s] /\ spoiled'[s] = spoiled[s]
  BY AdvanceMoves
<1>2. finished[r] \in Nat
  BY DEF TypeOK
<1>3. StepsGood[r] \subseteq StepsGood'[r]
  BY <1>1, <1>2 DEF StepsGood
<1>4. \A s \in Rank \ {r} : StepsGood'[s] = StepsGood[s]
  BY <1>1 DEF StepsGood
<1>5. StepsGood' = [StepsGood EXCEPT ![r] = StepsGood'[r]]
  BY <1>4 DEF StepsGood
<1> QED
  BY <1>3, <1>5

LEMMA InitFailStop == Init => F!Init
  BY DEF Init, F!Init, Good, Handed, Failed, StepsGood

\* Where nothing is promised the abstract service stutters.
LEMMA StepNotPromised == ~Promised /\ [Next]_vars => UNCHANGED F!vars
  BY PromisedUnchanged DEF F!vars, Good, Handed, Failed

LEMMA StepFailStop == Promised /\ GInv /\ [Next]_vars => [F!Next]_(F!vars)
<1> SUFFICES ASSUME Promised, GInv, [Next]_vars PROVE [F!Next]_(F!vars)
  OBVIOUS
<1>0. LInv /\ TypeOK
  BY DEF GInv, LInv
<1>e. /\ Good = StepsGood /\ Handed = released /\ Failed = raised
      /\ Good' = StepsGood' /\ Handed' = released' /\ Failed' = raised'
  BY PromisedUnchanged DEF Good, Handed, Failed
<1>1. CASE UNCHANGED <<finished, spoiled, released, raised>>
  BY <1>1, <1>e DEF F!vars, StepsGood
<1>2. ASSUME NEW r \in Rank, ExecuteModel(r) \/ SampleTokens(r)
      PROVE  F!Fail(r) \/ UNCHANGED F!vars
  <2>1. UNCHANGED <<finished, spoiled, released>>
    BY <1>2 DEF ExecuteModel, SampleTokens, stream
  <2>2. UNCHANGED raised \/ raised' = [raised EXCEPT ![r] = TRUE]
    BY <1>0, <1>2 DEF ExecuteModel, SampleTokens, Unhealthy, TypeOK
  <2> QED
    BY <1>e, <2>1, <2>2 DEF F!Fail, F!vars, StepsGood
<1>3. ASSUME NEW r \in Rank, CheckOutput(r) PROVE F!Fail(r) \/ F!Release(r)
  <2>1. UNCHANGED StepsGood
    BY <1>3 DEF CheckOutput, stream, StepsGood
  <2>2. CASE frozen[r]
    BY <1>3, <1>e, <2>1, <2>2 DEF CheckOutput, Unhealthy, F!Fail
  <2>3. CASE ~frozen[r]
    <3>1. taken[r] + 1 \in StepsGood[r]
      <4>1. spoiled[r] = {}
        BY <2>3 DEF GInv, SpoiledMeansFrozen
      <4>2. taken[r] + 1 \in 1..finished[r]
        BY <1>0, <1>3 DEF CheckOutput, LInv, OutputsInOrder, TypeOK
      <4> QED
        BY <4>1, <4>2 DEF StepsGood
    <3>2. ~raised[r] /\ \A m \in released[r] : m < taken[r] + 1
      BY <1>0, <2>3 DEF LInv, RaisedMeansFrozen, OutputsInOrder, TypeOK
    <3>3. /\ released' = [released EXCEPT ![r] = @ \cup {taken[r] + 1}]
          /\ UNCHANGED raised
      BY <1>3, <2>3 DEF CheckOutput, Unhealthy
    <3> QED
      BY <1>e, <2>1, <3>1, <3>2, <3>3 DEF F!Release
  <2> QED
    BY <2>2, <2>3
<1>4. ASSUME NEW r \in Rank, SendCompletes(r) PROVE FALSE
  BY <1>0, <1>4 DEF SendCompletes, LInv, OutputsInOrder
<1>5. ASSUME NEW r \in Rank, Skip(r) \/ Abandon(r) PROVE F!Compute(r)
  <2>1. Advance(r, TRUE) /\ UNCHANGED <<released, raised>>
    BY <1>5 DEF Skip, Abandon, host
  <2>2. TRUE \in BOOLEAN
    OBVIOUS
  <2>3. /\ StepsGood[r] \subseteq StepsGood'[r]
        /\ StepsGood' = [StepsGood EXCEPT ![r] = StepsGood'[r]]
    BY <1>0, <2>1, <2>2, GoodGrows
  <2> QED
    BY <1>e, <2>1, <2>3 DEF F!Compute
<1>6. ASSUME NEW r \in Rank, Complete(r) PROVE F!Compute(r)
  <2>1. (dirty[r] \/ \E s \in Rank : at[r] \in tainted[s]) \in BOOLEAN
    BY <1>0 DEF TypeOK
  <2>2. UNCHANGED <<released, raised>>
    BY <1>6 DEF Complete, host
  <2> QED
    BY <1>0, <1>6, <1>e, <2>1, <2>2, GoodGrows DEF Complete, F!Compute
<1>7. ASSUME NEW r \in Rank,
             FetchOutput(r) \/ Launch(r) \/ Timeout(r) \/ ProxyDies(r)
      PROVE  UNCHANGED <<finished, spoiled, released, raised>>
  BY <1>7 DEF FetchOutput, Launch, Timeout, ProxyDies, host, stream
<1>8. CASE Issue \/ UNCHANGED vars
  BY <1>1, <1>8 DEF Issue, vars, host, stream
<1> QED
  BY <1>1, <1>2, <1>3, <1>4, <1>5, <1>6, <1>7, <1>8
  DEF Next, Host, Stream, F!Next

\* Where it is promised, each worker releases the outputs of good steps in
\* order, and none after it has failed.
THEOREM Implementation == Spec => ImplementsFailStop
<1>1. (Promised => GInv) /\ [Next]_vars => [F!Next]_(F!vars)
  BY StepFailStop, StepNotPromised
<1> QED
  BY <1>1, InitFailStop, GlobalInvariance, PTL
  DEF Spec, ImplementsFailStop, F!Spec

=============================================================================
