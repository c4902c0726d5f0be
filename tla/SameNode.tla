------------------------------ MODULE SameNode ------------------------------
(***************************************************************************)
(* How the ranks of a group count the nodes they run on: _node_count,      *)
(* which every rank runs at the same time, and the collective it calls for *)
(* one source rank after another, in_the_same_node_as.                     *)
(*                                                                         *)
(* One call of the collective: the source creates a shared-memory segment  *)
(* and broadcasts its name, the others try to open it, a barrier, the      *)
(* source unlinks the segment, and an all-reduce spreads every rank's      *)
(* flag. Each rank chooses its next source from its own assignment, so the *)
(* calls match only while the assignments do.  A rank is a source at most  *)
(* once: segments, broadcasts, barriers and all-reduces are named by the   *)
(* source. A collective with an absent rank waits: the group's own         *)
(* timeout, half an hour by default, is not modelled.                      *)
(***************************************************************************)
EXTENDS Naturals, FiniteSets

CONSTANTS
  N,             \* world_size
  Placement,     \* where the ranks may run: functions from ranks to hosts
  OpenMayFail,   \* ranks whose open of a segment of their host may raise
                 \* OSError
  CreateMayFail  \* ranks whose creation of one may

Rank == 0 .. N - 1

ASSUME SizeAssumption == N \in Nat \ {0}
ASSUME PlacementAssumption == \A p \in Placement : DOMAIN p = Rank
ASSUME FailureAssumption == OpenMayFail \subseteq Rank /\ CreateMayFail \subseteq Rank

VARIABLES
  host,        \* the host of each rank
  pc,          \* where each rank is
  cur,         \* current_rank, the loop's index in each rank
  assignment,  \* node_assignment of each rank, 0 for none yet
  nodes,       \* next_node_id of each rank
  flag,        \* is_in_the_same_node[rank] of each rank in its current call
  segment,     \* the sources whose segment exists, on their host
  sent,        \* the sources that broadcast a name
  arrived,     \* the ranks at the barrier of each source's call
  posted       \* what each rank gave to the all-reduce of that call

vars == <<host, pc, cur, assignment, nodes, flag, segment, sent, arrived, posted>>

TypeOK ==
  /\ host \in Placement
  /\ pc \in [Rank -> {"loop", "name", "open", "barrier", "reduce", "done"}]
  /\ cur \in [Rank -> 0 .. N]
  /\ assignment \in [Rank -> [Rank -> 0 .. N]]
  /\ nodes \in [Rank -> 0 .. N]
  /\ flag \in [Rank -> {"no", "yes"}]
  /\ segment \subseteq Rank
  /\ sent \subseteq Rank
  /\ arrived \in [Rank -> SUBSET Rank]
  /\ posted \in [Rank -> [Rank -> {"none", "no", "yes"}]]

\* world_size 1 is answered without a call.
Init ==
  /\ host \in Placement
  /\ pc = [r \in Rank |-> IF N = 1 THEN "done" ELSE "loop"]
  /\ cur = [r \in Rank |-> 0]
  /\ assignment = [r \in Rank |-> [s \in Rank |-> 0]]
  /\ nodes = [r \in Rank |-> IF N = 1 THEN 1 ELSE 0]
  /\ flag = [r \in Rank |-> "no"]
  /\ segment = {}
  /\ sent = {}
  /\ arrived = [c \in Rank |-> {}]
  /\ posted = [c \in Rank |-> [r \in Rank |-> "none"]]

Goto(r, place) == pc' = [pc EXCEPT ![r] = place]

-----------------------------------------------------------------------------
\* "if node_assignment[current_rank] != 0: continue"
Assigned(r) == assignment[r][cur[r]] # 0

SkipAssigned(r) ==
  /\ pc[r] = "loop" /\ cur[r] < N /\ Assigned(r)
  /\ cur' = [cur EXCEPT ![r] = @ + 1]
  /\ UNCHANGED <<host, pc, assignment, nodes, flag, segment, sent, arrived, posted>>

StartNode(r) ==
  /\ pc[r] = "loop" /\ cur[r] < N /\ ~Assigned(r)
  /\ nodes' = [nodes EXCEPT ![r] = @ + 1]
  /\ assignment' = [assignment EXCEPT ![r][cur[r]] = nodes[r] + 1]
  /\ Goto(r, "name")
  /\ UNCHANGED <<host, cur, flag, segment, sent, arrived, posted>>

Return(r) ==
  /\ pc[r] = "loop" /\ cur[r] = N
  /\ Goto(r, "done")
  /\ UNCHANGED <<host, cur, assignment, nodes, flag, segment, sent, arrived, posted>>

-----------------------------------------------------------------------------
GoToBarrier(r) ==
  /\ Goto(r, "barrier")
  /\ arrived' = [arrived EXCEPT ![cur[r]] = @ \cup {r}]

\* The source's part: the segment with the magic message, then its name.  An
\* OSError of the creation is suppressed, and with it the broadcast.
Create(r) ==
  /\ pc[r] = "name" /\ cur[r] = r
  /\ \/ /\ segment' = segment \cup {r}
        /\ sent' = sent \cup {r}
        /\ flag' = [flag EXCEPT ![r] = "yes"]
     \/ r \in CreateMayFail /\ UNCHANGED <<segment, sent, flag>>
  /\ GoToBarrier(r)
  /\ UNCHANGED <<host, cur, assignment, nodes, posted>>

ReceiveName(r) ==
  /\ pc[r] = "name" /\ cur[r] # r /\ cur[r] \in sent
  /\ Goto(r, "open")
  /\ UNCHANGED <<host, cur, assignment, nodes, flag, segment, sent, arrived, posted>>

\* Mutant: any segment of that name will do.
OpenedAnywhere(r) == IF cur[r] \in segment THEN "yes" ELSE "no"

\* SharedMemory(name=name) finds the segment on the source's host only.
Opened(r) ==
  IF cur[r] \in segment /\ host[r] = host[cur[r]] THEN "yes" ELSE "no"

\* An OSError is suppressed and the flag stays 0.
Open(r) ==
  /\ pc[r] = "open"
  /\ \/ flag' = [flag EXCEPT ![r] = Opened(r)]
     \/ r \in OpenMayFail /\ flag' = flag
  /\ GoToBarrier(r)
  /\ UNCHANGED <<host, cur, assignment, nodes, segment, sent, posted>>

\* Mutant: no barrier between the opens and the unlink.
NoBarrier(r) == TRUE

AllArrived(r) == arrived[cur[r]] = Rank

\* Mutant: nobody unlinks.
KeepSegment(r) == segment

Unlinked(r) == IF cur[r] = r THEN segment \ {r} ELSE segment

\* After the barrier the source unlinks; every rank enters the all-reduce.
LeaveBarrier(r) ==
  /\ pc[r] = "barrier" /\ AllArrived(r)
  /\ segment' = Unlinked(r)
  /\ posted' = [posted EXCEPT ![cur[r]][r] = flag[r]]
  /\ Goto(r, "reduce")
  /\ UNCHANGED <<host, cur, assignment, nodes, flag, sent, arrived>>

\* Mutant: the rank goes by its own flag, the all-reduce is left out.
OwnFlag(r) == {s \in Rank : s = r /\ flag[r] = "yes"}

\* "[x == 1 for x in aggregated_data]": each rank wrote its own entry only.
SameNodeFlags(r) == {s \in Rank : posted[cur[r]][s] = "yes"}

\* Mutant: a rank does not wait for the others' entries.
OwnPosted(r) == posted[cur[r]][r] # "none"

AllPosted(r) == \A s \in Rank : posted[cur[r]][s] # "none"

\* The call returns, and _node_count assigns the ranks that have no node yet.
LeaveReduce(r) ==
  /\ pc[r] = "reduce" /\ AllPosted(r)
  /\ assignment' = [assignment EXCEPT ![r] =
       [s \in Rank |-> IF s \in SameNodeFlags(r) /\ @[s] = 0
                       THEN nodes[r] ELSE @[s]]]
  /\ cur' = [cur EXCEPT ![r] = @ + 1]
  /\ flag' = [flag EXCEPT ![r] = "no"]
  /\ Goto(r, "loop")
  /\ UNCHANGED <<host, nodes, segment, sent, arrived, posted>>

-----------------------------------------------------------------------------
Step(r) ==
  \/ SkipAssigned(r) \/ StartNode(r) \/ Return(r)
  \/ Create(r) \/ ReceiveName(r) \/ Open(r)
  \/ LeaveBarrier(r) \/ LeaveReduce(r)

Next == \E r \in Rank : Step(r)

Spec == Init /\ [][Next]_vars

\* The ranks are processes of their own; nothing but a collective stops one.
FairSpec == Spec /\ \A r \in Rank : WF_vars(Step(r))

-----------------------------------------------------------------------------
InCall(r) == pc[r] \in {"name", "open", "barrier", "reduce"}

\* Every rank makes the same calls: two ranks at the same point of the loop
\* have made the same assignment, so a rank never waits in the call for one
\* source while another has gone on to a different one for good.
CallsMatch ==
  \A r, s \in Rank :
    InCall(r) /\ InCall(s) /\ cur[r] = cur[s] => assignment[r] = assignment[s]

\* Ranks of different hosts are never counted as one node, whatever opens
\* fail: the cross-node path is never taken for the shared-memory one.
NeverMerged ==
  \A r, s, t \in Rank :
    assignment[r][s] = assignment[r][t] /\ assignment[r][s] # 0 =>
      host[s] = host[t]

\* Ranks of one host whose opens are served are counted as one node, whatever
\* the others' do.  It depends on the segment outliving the slowest open.
KeptTogether ==
  \A r \in Rank : pc[r] = "done" =>
    \A s, t \in Rank \ OpenMayFail :
      host[s] = host[t] => assignment[r][s] = assignment[r][t]

\* No segment is left behind once a rank has its count.
NoSegmentLeft == (\A r \in Rank : pc[r] = "done") => segment = {}

\* Every rank returns unless a source failed to create its segment, and went
\* to the barrier without having sent its name.
ReturnsIfCreated ==
  <>(\/ \A r \in Rank : pc[r] = "done"
     \/ \E c \in Rank : c \in arrived[c] \ sent)
=============================================================================
