------------------------------ MODULE RoceVote ------------------------------
(***************************************************************************)
(* How the ranks of a tensor-parallel group build their CudaCommunicator   *)
(* and decide, together, whether their collectives go to the RoCE backend  *)
(* (B12xRoceAllReduce.__init__ called from CudaCommunicator.__init__).     *)
(*                                                                         *)
(* A collective over the CPU group is modelled by what each rank has posted *)
(* to it; a rank leaves the collective in a step of its own once every rank *)
(* has posted, or with an exception when a rank it needs is gone.          *)
(* in_the_same_node_as, which the constructor calls first, has a module of *)
(* its own (SameNode): here its result is a value all the ranks share.     *)
(***************************************************************************)
EXTENDS RoceGroup, FiniteSets

CONSTANTS
  Root,         \* rank 0, whose limits the others are compared with
  Limit,        \* parsed (max_size, max_gather, gather_enabled) triples
  GatherLimit,  \* the triples whose gather_enabled is true
  Refusal,      \* a vote with a reason and no limits
  NoVote,       \* nothing posted yet
  Capability,   \* what a rank may find out about itself
  Settings      \* the environments the ranks may be started with

ASSUME RootAssumption == Root \in Rank
ASSUME LimitAssumption ==
  /\ GatherLimit \subseteq Limit
  /\ Refusal \notin Limit /\ NoVote \notin Limit /\ Refusal # NoVote
ASSUME CapabilityAssumption ==
  Capability \subseteq [importable : BOOLEAN,   \* "from b12x.comm import roce"
                        apiMatches : BOOLEAN,   \* API_VERSION is the required one
                        probe : {"supported", "unsupported", "raises"},
                        limit : Limit \cup {Refusal}]  \* Refusal: unparsable
ASSUME SettingsAssumption ==
  Settings \subseteq
    [custom : [Rank -> BOOLEAN],     \* _ENABLE_CUSTOM_ALL_REDUCE
     roce : [Rank -> BOOLEAN],       \* VLLM_ENABLE_ROCE_ALLREDUCE
     deviceGroup : BOOLEAN,          \* the group has a device group
     singleNode : BOOLEAN]           \* all(in_the_same_node_as(group, 0))

VARIABLES
  setting,  \* the environment of this run
  pc,       \* where each rank is
  cap,      \* what each rank found out about itself
  vote,     \* what each rank posted to all_gather_object
  setup,    \* the runtime's setup exchange: "open", "ok" or "failed"
  disabled, \* B12xRoceAllReduce.disabled
  runtime,  \* the limits _runtime was built with, NoVote for None
  gather,   \* B12xRoceAllReduce._gather_enabled
  caComm    \* CudaCommunicator.ca_comm is not None

voteVars == <<setting, pc, cap, vote, setup, disabled, runtime, gather, caComm>>

Gone == {r \in Rank : pc[r] \in {"raised", "dead"}}

VoteTypeOK ==
  /\ setting \in Settings
  /\ pc \in [Rank -> {"start", "vote", "setup", "built", "ready", "closed",
                      "raised", "dead"}]
  /\ cap \in [Rank -> Capability]
  /\ vote \in [Rank -> Limit \cup {Refusal, NoVote}]
  /\ setup \in {"open", "ok", "failed"}
  /\ disabled \in [Rank -> BOOLEAN]
  /\ runtime \in [Rank -> Limit \cup {NoVote}]
  /\ gather \in [Rank -> BOOLEAN]
  /\ caComm \in [Rank -> BOOLEAN]

\* What each rank will find out about itself is fixed from the start.
VoteInit ==
  /\ setting \in Settings
  /\ pc = [r \in Rank |-> "start"]
  /\ cap \in [Rank -> Capability]
  /\ vote = [r \in Rank |-> NoVote]
  /\ setup = "open"
  /\ disabled = [r \in Rank |-> TRUE]
  /\ runtime = [r \in Rank |-> NoVote]
  /\ gather = [r \in Rank |-> FALSE]
  /\ caComm = [r \in Rank |-> FALSE]

-----------------------------------------------------------------------------
\* use_roce_allreduce: the master switch needs custom all-reduce too.
UseRoce(r) == setting.custom[r] /\ setting.roce[r]

\* _local_capability: each check that fails makes the rank vote a reason.
CanTakePart(c) ==
  /\ c.importable
  /\ c.apiMatches
  /\ c.probe = "supported"
  /\ c.limit # Refusal

LocalCapability(c) == IF CanTakePart(c) THEN c.limit ELSE Refusal

\* Mutant: limits that differ from rank 0's are let through.
VotePassesAnyLimits(v) == \A r \in Rank : v[r] # Refusal

\* _exchange_vote on complete votes: no reason, and limits equal to rank 0's.
VotePasses(v) ==
  /\ \A r \in Rank : v[r] # Refusal
  /\ \A r \in Rank : v[r] = v[Root]

\* Mutant: a rank goes by its own vote.
ProceedsAlone(r) == vote[r] # Refusal

\* The verdict r draws from the votes it gathered: it enters the setup.
Proceeds(r) == VotePasses(vote)

\* A collective of the CPU group r is in cannot complete any more.
PeerLost(r) == Gone \ {r} # {}

\* from_exchange_group raises in r: a settled failure, or a peer went away
\* before the exchange was settled.
SetupFails(r) == setup = "failed" \/ (setup = "open" /\ PeerLost(r))

-----------------------------------------------------------------------------
\* The constructor is not called, or returns before the vote: the switch is
\* off, there is no device group, or the group sits on one node.
SkipRoce(r) ==
  /\ pc[r] = "start"
  /\ ~UseRoce(r) \/ ~setting.deviceGroup \/ setting.singleNode
  /\ pc' = [pc EXCEPT ![r] = "built"]
  /\ UNCHANGED <<setting, cap, vote, setup, disabled, runtime, gather, caComm>>

\* The rank evaluates its capability without any collective and posts it.
PostVote(r) ==
  /\ pc[r] = "start"
  /\ UseRoce(r) /\ setting.deviceGroup /\ ~setting.singleNode
  /\ pc' = [pc EXCEPT ![r] = "vote"]
  /\ vote' = [vote EXCEPT ![r] = LocalCapability(cap[r])]
  /\ UNCHANGED <<setting, cap, setup, disabled, runtime, gather, caComm>>

\* all_gather_object returns every vote; a verdict ends the constructor with
\* the backend off, otherwise the rank enters the runtime's setup exchange.
TallyVotes(r) ==
  /\ pc[r] = "vote"
  /\ \A s \in Rank : vote[s] # NoVote
  /\ pc' = [pc EXCEPT ![r] = IF Proceeds(r) THEN "setup" ELSE "built"]
  /\ UNCHANGED <<setting, cap, vote, setup, disabled, runtime, gather, caComm>>

\* The gather fails because a rank is gone; nothing catches the exception.
VoteError(r) ==
  /\ pc[r] = "vote"
  /\ PeerLost(r)
  /\ pc' = [pc EXCEPT ![r] = "raised"]
  /\ UNCHANGED <<setting, cap, vote, setup, disabled, runtime, gather, caComm>>

\* External: once every rank has entered from_exchange_group, the runtime
\* settles one outcome for all of them ("the runtime already coordinated
\* ranks"): a rank whose ABI, HCA count or slot geometry differs fails all.
SettleSetup ==
  /\ setup = "open"
  /\ \A r \in Rank : pc[r] = "setup"
  /\ setup' \in {"ok", "failed"}
  /\ UNCHANGED <<setting, pc, cap, vote, disabled, runtime, gather, caComm>>

\* from_exchange_group returns the runtime and the backend is switched on.
SetupReturns(r) ==
  /\ pc[r] = "setup"
  /\ setup = "ok"
  /\ pc' = [pc EXCEPT ![r] = "built"]
  /\ disabled' = [disabled EXCEPT ![r] = FALSE]
  /\ runtime' = [runtime EXCEPT ![r] = vote[r]]
  /\ gather' = [gather EXCEPT ![r] = vote[r] \in GatherLimit]
  /\ UNCHANGED <<setting, cap, vote, setup, caComm>>

\* The exception of from_exchange_group is logged and the constructor returns
\* with the backend off.
SetupRaises(r) ==
  /\ pc[r] = "setup"
  /\ SetupFails(r)
  /\ pc' = [pc EXCEPT ![r] = "built"]
  /\ UNCHANGED <<setting, cap, vote, setup, disabled, runtime, gather, caComm>>

\* CudaCommunicator builds CustomAllreduce (a collective constructor too)
\* only where custom all-reduce is on and the RoCE backend is not.
BuildCustomAllreduce(r) ==
  /\ pc[r] = "built"
  /\ pc' = [pc EXCEPT ![r] = "ready"]
  /\ caComm' = [caComm EXCEPT ![r] = setting.custom[r] /\ disabled[r]]
  /\ UNCHANGED <<setting, cap, vote, setup, disabled, runtime, gather>>

\* B12xRoceAllReduce.close, from CudaCommunicator.destroy.
Close(r) ==
  /\ pc[r] = "ready"
  /\ pc' = [pc EXCEPT ![r] = "closed"]
  /\ runtime' = [runtime EXCEPT ![r] = NoVote]
  /\ disabled' = [disabled EXCEPT ![r] = TRUE]
  /\ UNCHANGED <<setting, cap, vote, setup, gather, caComm>>

\* The process of the rank dies.
Die(r) ==
  /\ pc[r] \in {"start", "vote", "setup", "built", "ready"}
  /\ pc' = [pc EXCEPT ![r] = "dead"]
  /\ UNCHANGED <<setting, cap, vote, setup, disabled, runtime, gather, caComm>>

-----------------------------------------------------------------------------
Construct(r) ==
  \/ SkipRoce(r)
  \/ PostVote(r)
  \/ TallyVotes(r)
  \/ VoteError(r)
  \/ SetupReturns(r)
  \/ SetupRaises(r)
  \/ BuildCustomAllreduce(r)

VoteNext == SettleSetup \/ \E r \in Rank : Construct(r) \/ Close(r) \/ Die(r)

\* A rank that can take its next step of construction takes it, and the
\* runtime settles an exchange all the ranks have entered.  Nothing forces a
\* rank to close its communicator or to die.
VoteFairness == WF_voteVars(SettleSetup) /\ \A r \in Rank : WF_voteVars(Construct(r))

VoteSpec == VoteInit /\ [][VoteNext]_voteVars

VoteFairSpec == VoteSpec /\ VoteFairness

-----------------------------------------------------------------------------
Built == {r \in Rank : pc[r] \in {"built", "ready"}}

\* Two ranks that hold a communicator agree on the backend, on the limits it
\* routes by and on the all-gather route, whatever failed in between: else
\* they would send the same collective to different backends (contract,
\* b12x_roce_all_reduce.py:25-31).  And CustomAllreduce, whose constructor is
\* collective, is built by both or by none if custom all-reduce is on in both.
Agreement ==
  \A r, s \in Built :
    /\ disabled[r] = disabled[s]
    /\ runtime[r] = runtime[s]
    /\ gather[r] = gather[s]
    /\ pc[r] = "ready" /\ pc[s] = "ready" /\ setting.custom[r] = setting.custom[s]
         => caComm[r] = caComm[s]

\* A rank uses the backend only if every rank of the group passed every local
\* check with exactly the limits this rank routes by.
EnabledImpliesAllCapable ==
  \A r \in Rank : ~disabled[r] =>
    \A s \in Rank : /\ cap[s].importable /\ cap[s].apiMatches
                    /\ cap[s].probe = "supported"
                    /\ cap[s].limit = runtime[r]

\* The purpose of voting first: no rank is left in the runtime's setup
\* exchange by a rank that went on without it, except when the exchange
\* itself failed or a rank is gone (b12x_roce_all_reduce.py:121-124).
NobodyLeftInSetup ==
  \A r, s \in Rank :
    pc[r] = "setup" /\ s \in Built /\ disabled[s] => setup = "failed" \/ Gone # {}

\* Every rank gets out of its constructor: no vote or exchange waits for ever.
\* This needs the same switches on every rank: they are read before the vote
\* and do not travel in it.
EveryRankFinishes ==
  \A r \in Rank : <>(pc[r] \in {"ready", "closed", "raised", "dead"})

-----------------------------------------------------------------------------
\* The decision of the abstract specification: a rank is on from the return of
\* its runtime's setup to its end.
Decision ==
  [r \in Rank |-> IF pc[r] \in {"start", "vote", "setup"} THEN "undecided"
                 ELSE IF r \notin Built THEN "stopped"
                 ELSE IF disabled[r] THEN "off" ELSE "on"]

\* What a rank that is on routes by: the limits its runtime was built with and
\* its all-gather route.
Terms ==
  [r \in Rank |-> IF r \in Built /\ ~disabled[r] THEN <<runtime[r], gather[r]>>
                 ELSE <<NoVote, FALSE>>]

A == INSTANCE AllOrNothing
       WITH decision <- Decision, terms <- Terms,
            Term <- Limit \X BOOLEAN, NoTerm <- <<NoVote, FALSE>>

\* The construction protocol implements the all-or-nothing decision: the ranks
\* that switch the backend on all do, each by the limits and the all-gather
\* route of the others (b12x_roce_all_reduce.py:121-160, 196-222).
ImplementsAllOrNothing == A!Spec
=============================================================================
