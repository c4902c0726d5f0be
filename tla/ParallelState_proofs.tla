------------------------ MODULE ParallelState_proofs ------------------------
(***************************************************************************)
(* parallel_state.py: the count of the nodes for any number of ranks, any  *)
(* placement and any opens and creations that fail; and the process groups *)
(* of model parallelism for any layouts of a world of any size, and starts *)
(* that fail on any ranks.                                                 *)
(***************************************************************************)
EXTENDS SameNode, ModelGroups, SequenceTheorems, TLAPS

\* A rank starts one node at most for each turn of the loop.
Bounds ==
  \A r \in Rank :
    /\ pc[r] = "loop" => nodes[r] <= cur[r]
    /\ InCall(r) => cur[r] < N /\ nodes[r] >= 1 /\ nodes[r] <= cur[r] + 1
    /\ pc[r] = "done" /\ N # 1 => cur[r] = N

-----------------------------------------------------------------------------
\* The ranks are counted from zero, and there is one.
LEMMA Ranks == N \in Nat /\ N >= 1 /\ 0 \in Rank /\ \A r \in Rank : r \in Nat /\ r < N
  BY SizeAssumption DEF Rank

\* The bounds hold before the first turn of every loop.
LEMMA InitType == Init => TypeOK /\ Bounds
  BY Ranks DEF Init, TypeOK, Bounds, InCall

\* Every step of a rank keeps the types and the bounds.
LEMMA TypeStep == TypeOK /\ Bounds /\ [Next]_vars => TypeOK' /\ Bounds'
<1> SUFFICES ASSUME TypeOK, Bounds, [Next]_vars PROVE TypeOK' /\ Bounds'
  OBVIOUS
<1>0. N \in Nat /\ \A r \in Rank : cur[r] \in 0 .. N /\ nodes[r] \in 0 .. N
  BY Ranks DEF TypeOK
<1>1. ASSUME NEW r \in Rank, SkipAssigned(r) PROVE TypeOK' /\ Bounds'
  <2>1. cur' \in [Rank -> 0 .. N] /\ cur'[r] = cur[r] + 1
    BY <1>0, <1>1 DEF SkipAssigned, TypeOK
  <2> QED
    BY <1>0, <1>1, <2>1 DEF SkipAssigned, TypeOK, Bounds, InCall
<1>2. ASSUME NEW r \in Rank, StartNode(r) PROVE TypeOK' /\ Bounds'
  <2>1. cur[r] \in Rank /\ nodes[r] <= cur[r]
    BY <1>0, <1>2 DEF StartNode, Bounds, Rank
  <2>2. nodes[r] + 1 \in 0 .. N
    BY <1>0, <1>2, <2>1 DEF StartNode
  <2>3. /\ nodes' \in [Rank -> 0 .. N]
        /\ assignment' \in [Rank -> [Rank -> 0 .. N]]
    BY <1>2, <2>2 DEF StartNode, TypeOK
  <2>4. pc' \in [Rank -> {"loop", "name", "open", "barrier", "reduce", "done"}]
    BY <1>2 DEF StartNode, Goto, TypeOK
  <2>5. TypeOK'
    BY <1>2, <2>3, <2>4 DEF StartNode, TypeOK
  <2> QED
    BY <1>0, <1>2, <2>1, <2>5 DEF StartNode, Goto, TypeOK, Bounds, InCall
<1>3. ASSUME NEW r \in Rank, Return(r) PROVE TypeOK' /\ Bounds'
  BY <1>3 DEF Return, Goto, TypeOK, Bounds, InCall
<1>4. ASSUME NEW r \in Rank, Create(r) \/ ReceiveName(r) \/ Open(r) \/ LeaveBarrier(r)
      PROVE  TypeOK' /\ Bounds'
  <2>1. /\ InCall(r) /\ cur[r] \in Rank
        /\ UNCHANGED <<host, cur, assignment, nodes>>
    BY <1>0, <1>4 DEF Create, ReceiveName, Open, LeaveBarrier, InCall, Bounds, Rank
  <2>2. \E place \in {"open", "barrier", "reduce"} : pc' = [pc EXCEPT ![r] = place]
    BY <1>4 DEF Create, ReceiveName, Open, LeaveBarrier, GoToBarrier, Goto
  <2>3. /\ flag' \in [Rank -> {"no", "yes"}]
        /\ segment' \subseteq Rank /\ sent' \subseteq Rank
        /\ arrived' \in [Rank -> SUBSET Rank]
        /\ posted' \in [Rank -> [Rank -> {"none", "no", "yes"}]]
    <3>1. CASE Create(r)
      BY <2>1, <3>1 DEF Create, GoToBarrier, TypeOK
    <3>2. CASE ReceiveName(r)
      BY <3>2 DEF ReceiveName, TypeOK
    <3>3. CASE Open(r)
      <4>1. Opened(r) \in {"no", "yes"}
        BY DEF Opened
      <4> QED
        BY <2>1, <3>3, <4>1 DEF Open, GoToBarrier, TypeOK
    <3>4. CASE LeaveBarrier(r)
      <4>1. Unlinked(r) \subseteq Rank
        BY DEF Unlinked, TypeOK
      <4>2. posted' \in [Rank -> [Rank -> {"none", "no", "yes"}]]
        BY <2>1, <3>4 DEF LeaveBarrier, TypeOK
      <4> QED
        BY <3>4, <4>1, <4>2 DEF LeaveBarrier, TypeOK
    <3> QED
      BY <1>4, <3>1, <3>2, <3>3, <3>4
  <2>4. pc' \in [Rank -> {"loop", "name", "open", "barrier", "reduce", "done"}]
    BY <2>2 DEF TypeOK
  <2>5. TypeOK'
    BY <2>1, <2>3, <2>4 DEF TypeOK
  <2>6. Bounds'
    BY <2>1, <2>2 DEF TypeOK, Bounds, InCall
  <2> QED
    BY <2>5, <2>6
<1>5. ASSUME NEW r \in Rank, LeaveReduce(r) PROVE TypeOK' /\ Bounds'
  <2>1. cur[r] + 1 \in 0 .. N /\ nodes[r] <= cur[r] + 1
    BY <1>0, <1>5 DEF LeaveReduce, InCall, Bounds
  <2>2. /\ cur' = [cur EXCEPT ![r] = cur[r] + 1]
        /\ pc' = [pc EXCEPT ![r] = "loop"] /\ flag' = [flag EXCEPT ![r] = "no"]
        /\ UNCHANGED <<host, nodes, segment, sent, arrived, posted>>
    BY <1>5 DEF LeaveReduce, Goto
  <2>3. assignment' \in [Rank -> [Rank -> 0 .. N]]
    BY <1>0, <1>5 DEF LeaveReduce, TypeOK
  <2>4. TypeOK'
    BY <2>1, <2>2, <2>3 DEF TypeOK
  <2>5. Bounds'
    BY <1>0, <2>1, <2>2 DEF TypeOK, Bounds, InCall
  <2> QED
    BY <2>4, <2>5
<1>6. CASE UNCHANGED vars
  BY <1>6 DEF vars, TypeOK, Bounds, InCall
<1> QED
  BY <1>1, <1>2, <1>3, <1>4, <1>5, <1>6 DEF Next, Step

\* The count keeps its types; no rank counts more nodes than ranks
\* (_node_count, in_the_same_node_as).
THEOREM TypeCorrect == Spec => []TypeOK
<1>1. Init => TypeOK /\ Bounds
  BY InitType
<1>2. TypeOK /\ Bounds /\ [Next]_vars => TypeOK' /\ Bounds'
  BY TypeStep
<1> QED
  BY <1>1, <1>2, PTL DEF Spec

-----------------------------------------------------------------------------
(* Nodes and hosts.                                                        *)

\* A rank's nodes are numbered up to nodes; in a call the last one holds its
\* source only.  A rank that found the segment is on the source's host.
Separate ==
  /\ \A r, s \in Rank : assignment[r][s] <= nodes[r]
  /\ \A r \in Rank : InCall(r) =>
       /\ assignment[r][cur[r]] = nodes[r]
       /\ \A s \in Rank : assignment[r][s] = nodes[r] => s = cur[r]
  /\ \A r \in Rank : flag[r] = "yes" => InCall(r) /\ host[r] = host[cur[r]]
  /\ \A c, s \in Rank : posted[c][s] = "yes" => host[s] = host[c]

NodeInv == Separate /\ NeverMerged

\* A node that grows takes in ranks without a node that posted "yes", and
\* those are on the source's host.
LEMMA NodeStep == TypeOK /\ Bounds /\ NodeInv /\ [Next]_vars => NodeInv'
<1> SUFFICES ASSUME TypeOK, Bounds, NodeInv, [Next]_vars PROVE NodeInv'
  OBVIOUS
<1> USE DEF NodeInv
<1>0. \A r \in Rank : /\ cur[r] \in 0 .. N /\ nodes[r] \in 0 .. N
                      /\ \A s \in Rank : assignment[r][s] \in 0 .. N
  BY DEF TypeOK
<1>a. \A r \in Rank : cur[r] \in Nat /\ (cur[r] < N => cur[r] \in Rank)
  BY <1>0, Ranks DEF Rank
<1>1. ASSUME NEW r \in Rank, SkipAssigned(r) \/ Return(r) PROVE NodeInv'
  <2>1. ~InCall(r) /\ UNCHANGED <<host, assignment, nodes, flag, posted>>
    BY <1>1 DEF SkipAssigned, Return, InCall
  <2>2. \A q \in Rank : q # r => pc'[q] = pc[q] /\ cur'[q] = cur[q]
    <3>1. CASE SkipAssigned(r)
      BY <3>1 DEF SkipAssigned, TypeOK
    <3>2. CASE Return(r)
      BY <3>2 DEF Return, Goto, TypeOK
    <3> QED
      BY <1>1, <3>1, <3>2
  <2>3. pc'[r] \in {"loop", "done"}
    <3>1. CASE SkipAssigned(r)
      BY <3>1 DEF SkipAssigned
    <3>2. CASE Return(r)
      BY <3>2 DEF Return, Goto, TypeOK
    <3> QED
      BY <1>1, <3>1, <3>2
  <2>4. \A q \in Rank : InCall(q)' => InCall(q) /\ cur'[q] = cur[q]
    BY <2>2, <2>3 DEF InCall
  <2>5. \A q \in Rank : InCall(q) => InCall(q)' /\ cur'[q] = cur[q]
    BY <2>1, <2>2 DEF InCall
  <2>6. Separate'
    BY <2>1, <2>4, <2>5 DEF Separate
  <2> QED
    BY <2>1, <2>6 DEF NeverMerged
<1>2. ASSUME NEW r \in Rank, StartNode(r) PROVE NodeInv'
  <2>0. cur[r] \in Rank
    BY <1>a, <1>2 DEF StartNode
  <2>1. /\ cur[r] \in Rank /\ assignment[r][cur[r]] = 0
        /\ nodes' = [nodes EXCEPT ![r] = nodes[r] + 1]
        /\ assignment' = [assignment EXCEPT ![r][cur[r]] = nodes[r] + 1]
        /\ pc' = [pc EXCEPT ![r] = "name"]
        /\ UNCHANGED <<host, cur, flag, posted>>
    BY <2>0, <1>2 DEF StartNode, Assigned, Goto
  <2>2. /\ nodes'[r] = nodes[r] + 1 /\ nodes[r] \in Nat
        /\ assignment'[r][cur[r]] = nodes[r] + 1
        /\ \A s \in Rank : s # cur[r] =>
             /\ assignment'[r][s] = assignment[r][s]
             /\ assignment[r][s] \in Nat /\ assignment[r][s] < nodes[r] + 1
    BY <1>0, <2>1 DEF TypeOK, Separate
  <2>3. \A q \in Rank : q # r => /\ assignment'[q] = assignment[q]
                                 /\ nodes'[q] = nodes[q] /\ pc'[q] = pc[q]
    BY <2>1 DEF TypeOK
  <2>4. Separate'
    <3>1. \A q, s \in Rank : assignment'[q][s] <= nodes'[q]
      <4> SUFFICES ASSUME NEW q \in Rank, NEW s \in Rank
                   PROVE  assignment'[q][s] <= nodes'[q]
        OBVIOUS
      <4>1. CASE q = r
        BY <2>2, <4>1
      <4>2. CASE q # r
        BY <2>3, <4>2 DEF Separate
      <4> QED
        BY <4>1, <4>2
    <3>2. \A q \in Rank : InCall(q)' =>
            /\ assignment'[q][cur'[q]] = nodes'[q]
            /\ \A s \in Rank : assignment'[q][s] = nodes'[q] => s = cur'[q]
      <4> SUFFICES ASSUME NEW q \in Rank, InCall(q)'
                   PROVE  /\ assignment'[q][cur'[q]] = nodes'[q]
                          /\ \A s \in Rank : assignment'[q][s] = nodes'[q] => s = cur'[q]
        OBVIOUS
      <4>1. CASE q = r
        BY <2>1, <2>2, <4>1
      <4>2. CASE q # r
        BY <2>1, <2>3, <4>2 DEF Separate, InCall
      <4> QED
        BY <4>1, <4>2
    <3>3. \A q \in Rank : flag'[q] = "yes" => InCall(q)' /\ host'[q] = host'[cur'[q]]
      BY <1>2, <2>1 DEF Separate, InCall, TypeOK, StartNode
    <3> QED
      BY <2>1, <3>1, <3>2, <3>3 DEF Separate
  <2>5. NeverMerged'
    <3> SUFFICES ASSUME NEW q \in Rank, NEW s \in Rank, NEW t \in Rank,
                        assignment'[q][s] = assignment'[q][t], assignment'[q][s] # 0
                 PROVE  host[s] = host[t]
      BY <2>1 DEF NeverMerged
    <3>1. CASE q = r
      <4>1. (s = cur[r]) <=> (t = cur[r])
        BY <2>2, <3>1
      <4> QED
        BY <2>2, <3>1, <4>1 DEF NeverMerged
    <3>2. CASE q # r
      BY <2>3, <3>2 DEF NeverMerged
    <3> QED
      BY <3>1, <3>2
  <2> QED
    BY <2>4, <2>5
<1>3. ASSUME NEW r \in Rank, Create(r) \/ ReceiveName(r) \/ Open(r)
      PROVE  NodeInv'
  <2>1. /\ InCall(r) /\ UNCHANGED <<host, cur, assignment, nodes, posted>>
    BY <1>3 DEF Create, ReceiveName, Open, InCall
  <2>2. \A q \in Rank : InCall(q)' <=> InCall(q)
    BY <1>3 DEF Create, ReceiveName, Open, GoToBarrier, Goto, InCall, TypeOK
  <2>3. \A q \in Rank : flag'[q] = "yes" =>
          flag[q] = "yes" \/ (q = r /\ host[r] = host[cur[r]])
    <3>1. CASE Create(r)
      BY <3>1 DEF Create, TypeOK
    <3>2. CASE ReceiveName(r)
      BY <3>2 DEF ReceiveName
    <3>3. CASE Open(r)
      BY <3>3 DEF Open, Opened, TypeOK
    <3> QED
      BY <1>3, <3>1, <3>2, <3>3
  <2>4. NeverMerged'
    BY <2>1 DEF NeverMerged
  <2>5. Separate'
    BY <2>1, <2>2, <2>3 DEF Separate
  <2> QED
    BY <2>4, <2>5
<1>4. ASSUME NEW r \in Rank, LeaveBarrier(r) PROVE NodeInv'
  <2>a. InCall(r)
    BY <1>4 DEF LeaveBarrier, InCall
  <2>0. cur[r] \in Rank
    BY <1>a, <2>a DEF Bounds
  <2>1. /\ InCall(r) /\ cur[r] \in Rank
        /\ UNCHANGED <<host, cur, assignment, nodes, flag>>
        /\ posted' = [posted EXCEPT ![cur[r]][r] = flag[r]]
    BY <2>0, <2>a, <1>4 DEF LeaveBarrier
  <2>2. \A q \in Rank : InCall(q)' <=> InCall(q)
    BY <1>4 DEF LeaveBarrier, Goto, InCall, TypeOK
  <2>3. \A c, s \in Rank : posted'[c][s] = "yes" => host[s] = host[c]
    BY <2>1 DEF Separate, TypeOK
  <2>4. NeverMerged'
    BY <2>1 DEF NeverMerged
  <2>5. Separate'
    BY <2>1, <2>2, <2>3 DEF Separate
  <2> QED
    BY <2>4, <2>5
<1>5. ASSUME NEW r \in Rank, LeaveReduce(r) PROVE NodeInv'
  <2> DEFINE new == {s \in Rank : posted[cur[r]][s] = "yes" /\ assignment[r][s] = 0}
  <2>a. InCall(r)
    BY <1>5 DEF LeaveReduce, InCall
  <2>0. cur[r] \in Rank
    BY <1>a, <2>a DEF Bounds
  <2>1. /\ InCall(r) /\ cur[r] \in Rank
        /\ UNCHANGED <<host, nodes, posted>>
        /\ pc' = [pc EXCEPT ![r] = "loop"]
        /\ cur' = [cur EXCEPT ![r] = cur[r] + 1]
        /\ flag' = [flag EXCEPT ![r] = "no"]
    BY <2>0, <2>a, <1>5 DEF LeaveReduce, Goto
  <2>2. \A s \in Rank : assignment'[r][s] =
          IF s \in new THEN nodes[r] ELSE assignment[r][s]
    BY <1>5 DEF LeaveReduce, SameNodeFlags, TypeOK
  <2>3. \A q \in Rank : q # r => /\ assignment'[q] = assignment[q] /\ cur'[q] = cur[q]
                                 /\ pc'[q] = pc[q] /\ flag'[q] = flag[q]
    BY <1>5, <2>1 DEF LeaveReduce, TypeOK
  <2>4. Separate'
    <3>1. \A q, s \in Rank : assignment'[q][s] <= nodes'[q]
      BY <1>0, <2>1, <2>2, <2>3 DEF Separate
    <3>2. pc'[r] = "loop" /\ flag'[r] = "no"
      BY <2>1 DEF TypeOK
    <3>3. \A q \in Rank : InCall(q)' =>
            /\ q # r /\ assignment'[q][cur'[q]] = nodes'[q]
            /\ \A s \in Rank : assignment'[q][s] = nodes'[q] => s = cur'[q]
      BY <2>1, <2>3, <3>2 DEF Separate, InCall
    <3>4. \A q \in Rank : flag'[q] = "yes" => InCall(q)' /\ host'[q] = host'[cur'[q]]
      BY <2>1, <2>3, <3>2 DEF Separate, InCall
    <3>5. \A c, s \in Rank : posted'[c][s] = "yes" => host'[s] = host'[c]
      BY <2>1 DEF Separate
    <3> QED
      BY <3>1, <3>3, <3>4, <3>5 DEF Separate
  <2>5. NeverMerged'
    <3> SUFFICES ASSUME NEW q \in Rank, NEW s \in Rank, NEW t \in Rank,
                        assignment'[q][s] = assignment'[q][t], assignment'[q][s] # 0
                 PROVE  host[s] = host[t]
      BY <2>1 DEF NeverMerged
    <3>1. CASE q = r
      <4>1. \A u \in Rank : assignment'[r][u] = nodes[r] => host[u] = host[cur[r]]
        BY <2>1, <2>2 DEF Separate
      <4>2. CASE assignment'[r][s] = nodes[r]
        BY <3>1, <4>1, <4>2
      <4>3. CASE assignment'[r][s] # nodes[r]
        BY <2>2, <3>1, <4>3 DEF NeverMerged
      <4> QED
        BY <4>2, <4>3
    <3>2. CASE q # r
      BY <2>3, <3>2 DEF NeverMerged
    <3> QED
      BY <3>1, <3>2
  <2> QED
    BY <2>4, <2>5
<1>6. CASE UNCHANGED vars
  BY <1>6 DEF vars, Separate, NeverMerged, InCall
<1> QED
  BY <1>1, <1>2, <1>3, <1>4, <1>5, <1>6 DEF Next, Step

\* No rank has a node at the start.
LEMMA InitNodes == Init => NodeInv
<1> SUFFICES ASSUME Init PROVE NodeInv
  OBVIOUS
<1>1. \A r \in Rank : ~InCall(r) /\ flag[r] = "no"
  BY DEF Init, InCall
<1>2. \A r, s \in Rank : assignment[r][s] = 0 /\ posted[r][s] = "none" /\ nodes[r] >= 0
  BY DEF Init
<1> QED
  BY <1>1, <1>2 DEF NodeInv, Separate, NeverMerged

\* Whatever opens fail, no rank ever counts ranks of two hosts as one node
\* (in_the_same_node_as, _node_count).
THEOREM HostsStayApart == Spec => []NeverMerged
<1>1. Init => TypeOK /\ Bounds
  BY InitType
<1>2. Init => NodeInv
  BY InitNodes
<1>3. TypeOK /\ Bounds /\ [Next]_vars => TypeOK' /\ Bounds'
  BY TypeStep
<1>4. TypeOK /\ Bounds /\ NodeInv /\ [Next]_vars => NodeInv'
  BY NodeStep
<1>5. NodeInv => NeverMerged
  BY DEF NodeInv
<1> QED
  BY <1>1, <1>2, <1>3, <1>4, <1>5, PTL DEF Spec

-----------------------------------------------------------------------------
(* The segments and the barrier.                                           *)

\* A step of a rank leaves the others where they are.
LEMMA OthersStay ==
  ASSUME TypeOK, NEW r \in Rank, Step(r)
  PROVE  /\ host' = host
         /\ \A q \in Rank : q # r =>
              /\ pc'[q] = pc[q] /\ cur'[q] = cur[q] /\ flag'[q] = flag[q]
              /\ assignment'[q] = assignment[q]
<1>1. CASE SkipAssigned(r)
  BY <1>1 DEF SkipAssigned, TypeOK
<1>2. CASE StartNode(r)
  BY <1>2 DEF StartNode, Goto, TypeOK
<1>3. CASE Return(r)
  BY <1>3 DEF Return, Goto, TypeOK
<1>4. CASE Create(r)
  BY <1>4 DEF Create, GoToBarrier, Goto, TypeOK
<1>5. CASE ReceiveName(r)
  BY <1>5 DEF ReceiveName, Goto, TypeOK
<1>6. CASE Open(r)
  BY <1>6 DEF Open, GoToBarrier, Goto, TypeOK
<1>7. CASE LeaveBarrier(r)
  BY <1>7 DEF LeaveBarrier, Goto, TypeOK
<1>8. CASE LeaveReduce(r)
  BY <1>8 DEF LeaveReduce, Goto, TypeOK
<1> QED
  BY <1>1, <1>2, <1>3, <1>4, <1>5, <1>6, <1>7, <1>8 DEF Step

\* What the rank itself does to its place and to what all share.
LEMMA OwnMove ==
  ASSUME TypeOK, Bounds, NEW r \in Rank, Step(r)
  PROVE  \/ /\ pc[r] = "loop" /\ pc'[r] \in {"loop", "name", "done"}
            /\ cur'[r] \in {cur[r], cur[r] + 1}
            /\ UNCHANGED <<segment, sent, arrived, posted>>
         \/ /\ pc[r] = "name" /\ cur'[r] = cur[r] /\ pc'[r] = "open"
            /\ cur[r] \in sent \ {r}
            /\ UNCHANGED <<segment, sent, arrived, posted>>
         \/ /\ pc[r] = "name" /\ cur[r] = r /\ Create(r)
            /\ cur'[r] = cur[r] /\ pc'[r] = "barrier"
            /\ arrived' = [arrived EXCEPT ![r] = @ \cup {r}]
            /\ \/ segment' = segment \cup {r} /\ sent' = sent \cup {r}
               \/ UNCHANGED <<segment, sent>>
            /\ UNCHANGED posted
         \/ /\ pc[r] = "open" /\ Open(r)
            /\ cur'[r] = cur[r] /\ cur[r] \in Rank /\ pc'[r] = "barrier"
            /\ arrived' = [arrived EXCEPT ![cur[r]] = @ \cup {r}]
            /\ UNCHANGED <<segment, sent, posted>>
         \/ /\ pc[r] = "barrier" /\ LeaveBarrier(r)
            /\ cur'[r] = cur[r] /\ cur[r] \in Rank /\ pc'[r] = "reduce"
            /\ arrived[cur[r]] = Rank
            /\ segment' = IF cur[r] = r THEN segment \ {r} ELSE segment
            /\ posted' = [posted EXCEPT ![cur[r]][r] = flag[r]]
            /\ UNCHANGED <<sent, arrived>>
         \/ /\ pc[r] = "reduce" /\ LeaveReduce(r)
            /\ pc'[r] = "loop" /\ cur'[r] = cur[r] + 1
            /\ UNCHANGED <<segment, sent, arrived, posted>>
<1>0. InCall(r) => cur[r] \in Rank
  BY Ranks DEF TypeOK, Bounds, Rank
<1>1. CASE SkipAssigned(r)
  BY <1>1 DEF SkipAssigned, TypeOK
<1>2. CASE StartNode(r)
  BY <1>2 DEF StartNode, Goto, TypeOK
<1>3. CASE Return(r)
  BY <1>3 DEF Return, Goto, TypeOK
<1>4. CASE Create(r)
  BY <1>4 DEF Create, GoToBarrier, Goto, TypeOK
<1>5. CASE ReceiveName(r)
  BY <1>5 DEF ReceiveName, Goto, TypeOK
<1>6. CASE Open(r)
  BY <1>0, <1>6 DEF Open, GoToBarrier, Goto, InCall, TypeOK
<1>7. CASE LeaveBarrier(r)
  BY <1>0, <1>7 DEF LeaveBarrier, AllArrived, Unlinked, Goto, InCall, TypeOK
<1>8. CASE LeaveReduce(r)
  BY <1>8 DEF LeaveReduce, Goto, TypeOK
<1> QED
  BY <1>1, <1>2, <1>3, <1>4, <1>5, <1>6, <1>7, <1>8 DEF Step

\* A segment exists while its source waits at the barrier, no longer.
SegmentInv == \A c \in segment : pc[c] = "barrier" /\ cur[c] = c

\* The source makes its segment as it goes to the barrier, and leaves the
\* barrier as it unlinks it.
LEMMA SegmentStep ==
  TypeOK /\ Bounds /\ SegmentInv /\ [Next]_vars => SegmentInv'
<1> SUFFICES ASSUME TypeOK, Bounds, SegmentInv, [Next]_vars PROVE SegmentInv'
  OBVIOUS
<1>1. ASSUME NEW r \in Rank, Step(r) PROVE SegmentInv'
  <2>1. \A q \in Rank : q # r => pc'[q] = pc[q] /\ cur'[q] = cur[q]
    BY <1>1, OthersStay
  <2>2. segment \subseteq Rank
    BY DEF TypeOK
  <2>3. \A c \in segment' : IF c = r THEN pc'[r] = "barrier" /\ cur'[r] = r
                                     ELSE c \in segment
    BY <1>1, OwnMove DEF SegmentInv
  <2> QED
    BY <2>1, <2>2, <2>3 DEF SegmentInv
<1>2. CASE UNCHANGED vars
  BY <1>2 DEF vars, SegmentInv
<1> QED
  BY <1>1, <1>2 DEF Next

\* When every rank has its count no segment is left, whatever failed
\* (in_the_same_node_as).
THEOREM NothingLeftBehind == Spec => []NoSegmentLeft
<1>1. Init => TypeOK /\ Bounds /\ SegmentInv
  BY InitType DEF Init, SegmentInv
<1>2. TypeOK /\ Bounds /\ [Next]_vars => TypeOK' /\ Bounds'
  BY TypeStep
<1>3. TypeOK /\ Bounds /\ SegmentInv /\ [Next]_vars => SegmentInv'
  BY SegmentStep
<1>4. TypeOK /\ SegmentInv => NoSegmentLeft
  BY Ranks DEF TypeOK, SegmentInv, NoSegmentLeft
<1> QED
  BY <1>1, <1>2, <1>3, <1>4, PTL DEF Spec

-----------------------------------------------------------------------------
(* The ranks of one host.                                                  *)

\* A rank is at the barrier of one call, its own, and has left those of the
\* calls before; it opens a name that was sent, and until all have arrived
\* the segment of that name exists.
Linked ==
  /\ \A s \in Rank : pc[s] # "done" => N # 1
  /\ \A s \in Rank : pc[s] = "open" => cur[s] # s
  /\ \A s \in Rank : pc[s] \in {"open", "barrier"} /\ cur[s] # s => cur[s] \in sent
  /\ \A c \in Rank : \A s \in arrived[c] :
       c < cur[s] \/ (c = cur[s] /\ pc[s] \in {"barrier", "reduce"})
  /\ \A c \in Rank : \A s \in arrived[c] : s # c => c \in sent
  /\ \A c \in sent : c \in segment \/ arrived[c] = Rank
  /\ \A c, s \in Rank : posted[c][s] # "none" => arrived[c] = Rank

\* The steps keep the ranks' places in the calls, names and segments in line.
LEMMA LinkedStep ==
  TypeOK /\ Bounds /\ Linked /\ [Next]_vars => Linked'
<1> SUFFICES ASSUME TypeOK, Bounds, Linked, [Next]_vars PROVE Linked'
  OBVIOUS
<1>1. ASSUME NEW r \in Rank, Step(r) PROVE Linked'
  <2>1. \A q \in Rank : q # r => pc'[q] = pc[q] /\ cur'[q] = cur[q]
    BY <1>1, OthersStay
  <2>2. /\ \A q \in Rank : cur[q] \in Nat /\ q \in Nat
        /\ \A c \in Rank : arrived[c] \subseteq Rank
        /\ segment \subseteq Rank /\ sent \subseteq Rank
    BY Ranks DEF TypeOK
  <2>3. CASE /\ pc[r] = "loop" /\ pc'[r] \in {"loop", "name", "done"}
             /\ cur'[r] \in {cur[r], cur[r] + 1}
             /\ UNCHANGED <<segment, sent, arrived, posted>>
    BY <2>1, <2>2, <2>3 DEF Linked
  <2>4. CASE /\ pc[r] = "name" /\ cur'[r] = cur[r] /\ pc'[r] = "open"
             /\ cur[r] \in sent \ {r}
             /\ UNCHANGED <<segment, sent, arrived, posted>>
    BY <2>1, <2>2, <2>4 DEF Linked
  <2>5. CASE /\ pc[r] = "name" /\ cur[r] = r
             /\ cur'[r] = cur[r] /\ pc'[r] = "barrier"
             /\ arrived' = [arrived EXCEPT ![r] = @ \cup {r}]
             /\ \/ segment' = segment \cup {r} /\ sent' = sent \cup {r}
                \/ UNCHANGED <<segment, sent>>
             /\ UNCHANGED posted
    <3>1. \A c \in Rank : arrived'[c] = IF c = r THEN arrived[r] \cup {r} ELSE arrived[c]
      BY <2>5 DEF TypeOK
    <3>2. sent \subseteq sent' /\ \A c \in sent' : c \in sent \/ c \in segment'
      BY <2>5
    <3>3. \A c \in sent : c \in segment' \/ arrived'[c] = Rank
      BY <2>2, <2>5, <3>1 DEF Linked
    <3>4. \A c \in Rank : \A s \in arrived'[c] :
            c < cur'[s] \/ (c = cur'[s] /\ pc'[s] \in {"barrier", "reduce"})
      BY <2>1, <2>2, <2>5, <3>1 DEF Linked
    <3>5. \A c \in Rank : \A s \in arrived'[c] : s # c => c \in sent'
      BY <2>2, <3>1, <3>2 DEF Linked
    <3>6. \A c, s \in Rank : posted'[c][s] # "none" => arrived'[c] = Rank
      BY <2>5, <3>1 DEF Linked
    <3>7. /\ \A s \in Rank : pc'[s] # "done" => N # 1
          /\ \A s \in Rank : pc'[s] = "open" => cur'[s] # s
          /\ \A s \in Rank : pc'[s] \in {"open", "barrier"} /\ cur'[s] # s => cur'[s] \in sent'
      BY <2>1, <2>5, <3>2 DEF Linked
    <3> QED
      BY <3>2, <3>3, <3>4, <3>5, <3>6, <3>7 DEF Linked
  <2>6. CASE /\ pc[r] = "open"
             /\ cur'[r] = cur[r] /\ cur[r] \in Rank /\ pc'[r] = "barrier"
             /\ arrived' = [arrived EXCEPT ![cur[r]] = @ \cup {r}]
             /\ UNCHANGED <<segment, sent, posted>>
    <3>1. \A c \in Rank : arrived'[c] = IF c = cur[r] THEN arrived[c] \cup {r} ELSE arrived[c]
      BY <2>6 DEF TypeOK
    <3>3. \A c \in sent : c \in segment' \/ arrived'[c] = Rank
      BY <2>2, <2>6, <3>1 DEF Linked
    <3>4. \A c \in Rank : \A s \in arrived'[c] :
            c < cur'[s] \/ (c = cur'[s] /\ pc'[s] \in {"barrier", "reduce"})
      BY <2>1, <2>2, <2>6, <3>1 DEF Linked
    <3>5. \A c \in Rank : \A s \in arrived'[c] : s # c => c \in sent'
      BY <2>2, <2>6, <3>1 DEF Linked
    <3>6. \A c, s \in Rank : posted'[c][s] # "none" => arrived'[c] = Rank
      BY <2>6, <3>1 DEF Linked
    <3>7. /\ \A s \in Rank : pc'[s] # "done" => N # 1
          /\ \A s \in Rank : pc'[s] = "open" => cur'[s] # s
          /\ \A s \in Rank : pc'[s] \in {"open", "barrier"} /\ cur'[s] # s => cur'[s] \in sent'
      BY <2>1, <2>6 DEF Linked
    <3> QED
      BY <2>6, <3>3, <3>4, <3>5, <3>6, <3>7 DEF Linked
  <2>7. CASE /\ pc[r] = "barrier"
             /\ cur'[r] = cur[r] /\ cur[r] \in Rank /\ pc'[r] = "reduce"
             /\ arrived[cur[r]] = Rank
             /\ segment' = IF cur[r] = r THEN segment \ {r} ELSE segment
             /\ posted' = [posted EXCEPT ![cur[r]][r] = flag[r]]
             /\ UNCHANGED <<sent, arrived>>
    <3>1. \A c \in sent : c \in segment' \/ arrived'[c] = Rank
      BY <2>7 DEF Linked
    <3>2. \A c, s \in Rank : posted'[c][s] # "none" => arrived'[c] = Rank
      BY <2>7 DEF Linked, TypeOK
    <3>3. \A c \in Rank : \A s \in arrived'[c] :
            c < cur'[s] \/ (c = cur'[s] /\ pc'[s] \in {"barrier", "reduce"})
      BY <2>1, <2>2, <2>7 DEF Linked
    <3> QED
      BY <2>1, <2>2, <2>7, <3>1, <3>2, <3>3 DEF Linked
  <2>8. CASE /\ pc[r] = "reduce"
             /\ pc'[r] = "loop" /\ cur'[r] = cur[r] + 1
             /\ UNCHANGED <<segment, sent, arrived, posted>>
    BY <2>1, <2>2, <2>8 DEF Linked
  <2> QED
    BY <1>1, <2>3, <2>4, <2>5, <2>6, <2>7, <2>8, OwnMove
<1>2. CASE UNCHANGED vars
  BY <1>2 DEF vars, Linked
<1> QED
  BY <1>1, <1>2 DEF Next

\* The ranks whose opens are served.
Sure == Rank \ OpenMayFail

\* A rank of the source's host whose open is served found the segment.
Served ==
  /\ \A s \in Sure :
       pc[s] = "barrier" /\ cur[s] \in sent /\ host[s] = host[cur[s]] => flag[s] = "yes"
  /\ \A c \in sent : \A s \in Sure :
       posted[c][s] # "none" /\ host[s] = host[c] => posted[c][s] = "yes"

\* Whoever opens before all have arrived finds the segment.
LEMMA ServedStep ==
  TypeOK /\ Bounds /\ SegmentInv /\ Linked /\ Served /\ [Next]_vars => Served'
<1> SUFFICES ASSUME TypeOK, Bounds, SegmentInv, Linked, Served, [Next]_vars
             PROVE  Served'
  OBVIOUS
<1>1. ASSUME NEW r \in Rank, Step(r) PROVE Served'
  <2>1. /\ host' = host
        /\ \A q \in Rank : q # r =>
             pc'[q] = pc[q] /\ cur'[q] = cur[q] /\ flag'[q] = flag[q]
    BY <1>1, OthersStay
  <2>2. Sure \subseteq Rank /\ sent \subseteq Rank
    BY DEF Sure, TypeOK
  <2>3. CASE /\ pc'[r] # "barrier"
             /\ UNCHANGED <<sent, posted>>
    BY <2>1, <2>2, <2>3 DEF Served
  <2>4. CASE /\ pc[r] = "name" /\ cur[r] = r /\ Create(r)
             /\ cur'[r] = cur[r] /\ pc'[r] = "barrier"
    <3>1. \/ /\ sent' = sent \cup {r} /\ flag'[r] = "yes"
          \/ /\ sent' = sent
      BY <2>4 DEF Create, TypeOK
    <3>2. posted' = posted
      BY <2>4 DEF Create
    <3>0. r \notin arrived[r]
      BY <2>4, Ranks DEF Linked
    <3>3. \A s \in Rank : posted[r][s] = "none"
      BY <3>0 DEF Linked
    <3>4. r \notin sent
      BY <2>4, <3>0 DEF Linked, SegmentInv
    <3>5. r \in sent' => flag'[r] = "yes"
      BY <3>1, <3>4
    <3>6. \A s \in Sure : pc'[s] = "barrier" /\ cur'[s] \in sent' /\ host'[s] = host'[cur'[s]]
                          => flag'[s] = "yes"
      BY <2>1, <2>2, <2>4, <3>1, <3>5 DEF Served, Linked
    <3>7. \A c \in sent' : \A s \in Sure :
            posted'[c][s] # "none" /\ host'[s] = host'[c] => posted'[c][s] = "yes"
      BY <2>1, <2>2, <3>1, <3>2, <3>3 DEF Served
    <3> QED
      BY <3>6, <3>7 DEF Served
  <2>5. CASE /\ pc[r] = "open" /\ Open(r)
             /\ cur'[r] = cur[r] /\ cur[r] \in Rank /\ pc'[r] = "barrier"
             /\ UNCHANGED <<segment, sent, posted>>
    <3>1. cur[r] \in segment
      <4>1. cur[r] \in sent /\ r \notin arrived[cur[r]]
        BY <2>5, Ranks DEF Linked
      <4> QED
        BY <4>1 DEF Linked
    <3>2. r \in Sure /\ host[r] = host[cur[r]] => flag'[r] = "yes"
      BY <2>5, <3>1 DEF Open, Opened, Sure, TypeOK
    <3> QED
      BY <2>1, <2>2, <2>5, <3>2 DEF Served
  <2>6. CASE /\ pc[r] = "barrier" /\ LeaveBarrier(r)
             /\ cur'[r] = cur[r] /\ cur[r] \in Rank /\ pc'[r] = "reduce"
             /\ posted' = [posted EXCEPT ![cur[r]][r] = flag[r]]
             /\ sent' = sent
    <3>1. \A c, s \in Rank :
            posted'[c][s] = IF c = cur[r] /\ s = r THEN flag[r] ELSE posted[c][s]
      BY <2>6 DEF TypeOK
    <3> QED
      BY <2>1, <2>2, <2>6, <3>1 DEF Served
  <2> QED
    BY <1>1, <2>3, <2>4, <2>5, <2>6, OwnMove
<1>2. CASE UNCHANGED vars
  BY <1>2 DEF vars, Served
<1> QED
  BY <1>1, <1>2 DEF Next

\* Between calls a rank counts the sure ranks of a host together; in the call
\* for one of them, the others have no node yet.
Whole ==
  \A r \in Rank : \A s, t \in Sure : host[s] = host[t] =>
    /\ ~(InCall(r) /\ cur[r] \in {s, t}) => assignment[r][s] = assignment[r][t]
    /\ InCall(r) /\ cur[r] = s /\ t # s => assignment[r][t] = 0

\* A call takes in all sure ranks of the source's host, or none of another.
LEMMA WholeStep ==
  /\ TypeOK /\ Bounds /\ NodeInv /\ Linked /\ Served /\ Whole
  /\ [Next]_vars
  => Whole'
<1> SUFFICES ASSUME TypeOK, Bounds, NodeInv, Linked, Served, Whole, [Next]_vars
             PROVE  Whole'
  OBVIOUS
<1>0. /\ Sure \subseteq Rank
      /\ \A r, s \in Rank : assignment[r][s] \in Nat /\ nodes[r] \in Nat
  BY Ranks DEF Sure, TypeOK
<1>1. ASSUME NEW r \in Rank, Step(r) PROVE Whole'
  <2>1. /\ host' = host
        /\ \A q \in Rank : q # r =>
             pc'[q] = pc[q] /\ cur'[q] = cur[q] /\ assignment'[q] = assignment[q]
    BY <1>1, OthersStay
  <2> SUFFICES ASSUME NEW s \in Sure, NEW t \in Sure, host[s] = host[t]
               PROVE  /\ ~(InCall(r)' /\ cur'[r] \in {s, t}) =>
                           assignment'[r][s] = assignment'[r][t]
                      /\ InCall(r)' /\ cur'[r] = s /\ t # s => assignment'[r][t] = 0
    BY <2>1 DEF Whole, InCall
  <2>2. s \in Rank /\ t \in Rank
    BY <1>0
  <2>3. CASE SkipAssigned(r) \/ Return(r)
    <3>1. ~InCall(r) /\ ~InCall(r)' /\ assignment' = assignment
      BY <2>3 DEF SkipAssigned, Return, Goto, InCall, TypeOK
    <3> QED
      BY <3>1 DEF Whole
  <2>4. CASE StartNode(r)
    <3>1. /\ ~InCall(r) /\ cur'[r] = cur[r] /\ assignment[r][cur[r]] = 0
          /\ \A u \in Rank : u # cur[r] => assignment'[r][u] = assignment[r][u]
      BY <2>4 DEF StartNode, Assigned, InCall, TypeOK
    <3>2. InCall(r)'
      BY <2>4 DEF StartNode, Goto, InCall, TypeOK
    <3>3. assignment[r][s] = assignment[r][t]
      BY <3>1 DEF Whole
    <3> QED
      BY <2>2, <3>1, <3>2, <3>3
  <2>5. CASE Create(r) \/ ReceiveName(r) \/ Open(r) \/ LeaveBarrier(r)
    <3>1. InCall(r) /\ UNCHANGED <<cur, assignment>>
      BY <2>5 DEF Create, ReceiveName, Open, LeaveBarrier, InCall
    <3>2. InCall(r)'
      BY <2>5 DEF Create, ReceiveName, Open, LeaveBarrier, GoToBarrier, Goto, InCall, TypeOK
    <3> QED
      BY <3>1, <3>2 DEF Whole
  <2>6. CASE LeaveReduce(r)
    <3>0. InCall(r)
      BY <2>6 DEF LeaveReduce, InCall
    <3>b. cur[r] \in Rank
      BY <3>0, Ranks DEF Bounds, TypeOK, Rank
    <3>1. InCall(r) /\ cur[r] \in Rank /\ nodes[r] # 0
      BY <1>0, <3>0, <3>b DEF Bounds
    <3>2. ~InCall(r)'
      BY <2>6 DEF LeaveReduce, Goto, InCall, TypeOK
    <3>3. \A u \in Rank : assignment'[r][u] =
            IF posted[cur[r]][u] = "yes" /\ assignment[r][u] = 0
            THEN nodes[r] ELSE assignment[r][u]
      BY <2>6 DEF LeaveReduce, SameNodeFlags, TypeOK
    <3>4. assignment[r][cur[r]] = nodes[r]
      BY <3>1 DEF NodeInv, Separate
    <3>5. \A u \in Rank : posted[cur[r]][u] # "none"
      BY <2>6 DEF LeaveReduce, AllPosted
    <3>6. cur[r] \in sent
      <4>1. arrived[cur[r]] = Rank
        BY <3>1, <3>5 DEF Linked
      <4>2. N # 1
        BY <3>1 DEF Linked, InCall
      <4>3. PICK u \in Rank : u # cur[r]
        BY <4>2, Ranks DEF Rank
      <4> QED
        BY <3>1, <4>1, <4>3 DEF Linked
    <3>7. CASE host[s] = host[cur[r]]
      <4>1. posted[cur[r]][s] = "yes" /\ posted[cur[r]][t] = "yes"
        BY <2>2, <3>5, <3>6, <3>7 DEF Served
      <4>2. CASE s = cur[r] \/ t = cur[r]
        <5>1. /\ s = cur[r] /\ t # s => assignment[r][t] = 0
              /\ t = cur[r] /\ s # t => assignment[r][s] = 0
          BY <3>1 DEF Whole
        <5> QED
          BY <2>2, <3>1, <3>2, <3>3, <3>4, <4>1, <4>2, <5>1
      <4>3. CASE s # cur[r] /\ t # cur[r]
        <5>1. assignment[r][s] = assignment[r][t]
          BY <4>3 DEF Whole
        <5> QED
          BY <2>2, <3>2, <3>3, <4>1, <5>1
      <4> QED
        BY <4>2, <4>3
    <3>8. CASE host[s] # host[cur[r]]
      <4>1. posted[cur[r]][s] # "yes" /\ posted[cur[r]][t] # "yes"
        BY <2>2, <3>1, <3>8 DEF NodeInv, Separate
      <4>2. s # cur[r] /\ t # cur[r]
        BY <3>8
      <4>3. assignment[r][s] = assignment[r][t]
        BY <4>2 DEF Whole
      <4> QED
        BY <2>2, <3>2, <3>3, <4>1, <4>3
    <3> QED
      BY <3>7, <3>8
  <2> QED
    BY <1>1, <2>3, <2>4, <2>5, <2>6 DEF Step
<1>2. CASE UNCHANGED vars
  BY <1>2 DEF vars, Whole, InCall
<1> QED
  BY <1>1, <1>2 DEF Next

\* Ranks of one host whose opens are served end in one node in every rank's
\* count, whatever the other ranks' opens and creations do
\* (in_the_same_node_as, _node_count).
THEOREM HostsCountedTogether == Spec => []KeptTogether
<1>1. Init => TypeOK /\ Bounds /\ SegmentInv
  BY InitType DEF Init, SegmentInv
<1>2. Init => NodeInv
  BY InitNodes
<1>3. Init => Linked /\ Served /\ Whole
  BY Ranks DEF Init, Linked, Served, Whole, InCall, Sure
<1>4. TypeOK /\ Bounds /\ [Next]_vars => TypeOK' /\ Bounds'
  BY TypeStep
<1>5. TypeOK /\ Bounds /\ SegmentInv /\ [Next]_vars => SegmentInv'
  BY SegmentStep
<1>6. TypeOK /\ Bounds /\ NodeInv /\ [Next]_vars => NodeInv'
  BY NodeStep
<1>7. TypeOK /\ Bounds /\ Linked /\ [Next]_vars => Linked'
  BY LinkedStep
<1>8. TypeOK /\ Bounds /\ SegmentInv /\ Linked /\ Served /\ [Next]_vars => Served'
  BY ServedStep
<1>9. /\ TypeOK /\ Bounds /\ NodeInv /\ Linked /\ Served /\ Whole
      /\ [Next]_vars
      => Whole'
  BY WholeStep
<1>10. Whole => KeptTogether
  BY DEF Whole, KeptTogether, Sure, InCall
<1> QED
  BY <1>1, <1>2, <1>3, <1>4, <1>5, <1>6, <1>7, <1>8, <1>9, <1>10, PTL DEF Spec

-----------------------------------------------------------------------------
(* The same calls in every rank.                                           *)

\* The ranks before a rank's turn have a node; a rank is given a node of a
\* higher number after every lower one was, by an earlier source.
Ordered ==
  /\ \A r, j \in Rank : j < cur[r] => assignment[r][j] # 0
  /\ \A r \in Rank : \A n \in 1 .. nodes[r] : \E j \in Rank :
       assignment[r][j] = n /\ (j < cur[r] \/ (InCall(r) /\ j = cur[r]))
  /\ \A r, k \in Rank : \A n \in 1 .. N :
       n < assignment[r][k] => \E j \in Rank : j < k /\ assignment[r][j] = n

\* The steps inside a call change neither the assignments nor the turns.
LEMMA InsideCall ==
  ASSUME TypeOK, NEW r \in Rank,
         Create(r) \/ ReceiveName(r) \/ Open(r) \/ LeaveBarrier(r)
  PROVE  /\ UNCHANGED <<cur, assignment, nodes>>
         /\ \A q \in Rank : InCall(q)' <=> InCall(q)
  BY DEF Create, ReceiveName, Open, LeaveBarrier, GoToBarrier, Goto, InCall, TypeOK

\* The steps between calls, as equations.
LEMMA Turns ==
  ASSUME TypeOK, Bounds, NEW r \in Rank
  PROVE  /\ SkipAssigned(r) =>
              /\ ~InCall(r) /\ cur[r] \in Rank /\ assignment[r][cur[r]] # 0
              /\ cur'[r] = cur[r] + 1 /\ ~InCall(r)'
              /\ UNCHANGED <<assignment, nodes, posted>>
         /\ StartNode(r) =>
              /\ ~InCall(r) /\ cur[r] \in Rank /\ assignment[r][cur[r]] = 0
              /\ cur' = cur /\ InCall(r)'
              /\ nodes'[r] = nodes[r] + 1
              /\ assignment'[r][cur[r]] = nodes[r] + 1
              /\ \A x \in Rank : x # cur[r] => assignment'[r][x] = assignment[r][x]
              /\ posted' = posted
         /\ Return(r) =>
              /\ ~InCall(r) /\ ~InCall(r)'
              /\ UNCHANGED <<cur, assignment, nodes, posted>>
         /\ LeaveReduce(r) =>
              /\ InCall(r) /\ cur[r] \in Rank
              /\ cur'[r] = cur[r] + 1 /\ ~InCall(r)'
              /\ \A x \in Rank : posted[cur[r]][x] # "none"
              /\ \A x \in Rank : assignment'[r][x] =
                   IF posted[cur[r]][x] = "yes" /\ assignment[r][x] = 0
                   THEN nodes[r] ELSE assignment[r][x]
              /\ UNCHANGED <<nodes, posted>>
<1>0. cur[r] \in 0 .. N /\ (cur[r] < N => cur[r] \in Rank)
  BY Ranks DEF TypeOK, Rank
<1>1. ASSUME SkipAssigned(r)
      PROVE  /\ ~InCall(r) /\ cur[r] \in Rank /\ assignment[r][cur[r]] # 0
             /\ cur'[r] = cur[r] + 1 /\ ~InCall(r)'
             /\ UNCHANGED <<assignment, nodes, posted>>
  BY <1>0, <1>1 DEF SkipAssigned, Assigned, InCall, TypeOK
<1>2. ASSUME StartNode(r)
      PROVE  /\ ~InCall(r) /\ cur[r] \in Rank /\ assignment[r][cur[r]] = 0
             /\ cur' = cur /\ InCall(r)'
             /\ nodes'[r] = nodes[r] + 1
             /\ assignment'[r][cur[r]] = nodes[r] + 1
             /\ \A x \in Rank : x # cur[r] => assignment'[r][x] = assignment[r][x]
             /\ posted' = posted
  <2>1. /\ ~InCall(r) /\ cur[r] \in Rank /\ assignment[r][cur[r]] = 0
        /\ cur' = cur /\ posted' = posted
    BY <1>0, <1>2 DEF StartNode, Assigned, InCall
  <2>2. InCall(r)'
    BY <1>2 DEF StartNode, Goto, InCall, TypeOK
  <2>3. nodes'[r] = nodes[r] + 1
    BY <1>2 DEF StartNode, TypeOK
  <2>4. /\ assignment'[r][cur[r]] = nodes[r] + 1
        /\ \A x \in Rank : x # cur[r] => assignment'[r][x] = assignment[r][x]
    BY <1>2, <2>1 DEF StartNode, TypeOK
  <2> QED
    BY <2>1, <2>2, <2>3, <2>4
<1>3. ASSUME Return(r)
      PROVE  /\ ~InCall(r) /\ ~InCall(r)'
             /\ UNCHANGED <<cur, assignment, nodes, posted>>
  BY <1>3 DEF Return, Goto, InCall, TypeOK
<1>4. ASSUME LeaveReduce(r)
      PROVE  /\ InCall(r) /\ cur[r] \in Rank
             /\ cur'[r] = cur[r] + 1 /\ ~InCall(r)'
             /\ \A x \in Rank : posted[cur[r]][x] # "none"
             /\ \A x \in Rank : assignment'[r][x] =
                  IF posted[cur[r]][x] = "yes" /\ assignment[r][x] = 0
                  THEN nodes[r] ELSE assignment[r][x]
             /\ UNCHANGED <<nodes, posted>>
  <2>1. InCall(r)
    BY <1>4 DEF LeaveReduce, InCall
  <2>2. cur[r] \in Rank
    BY <1>0, <2>1 DEF Bounds
  <2>3. ~InCall(r)'
    BY <1>4 DEF LeaveReduce, Goto, InCall, TypeOK
  <2>4. cur'[r] = cur[r] + 1 /\ UNCHANGED <<nodes, posted>>
    BY <1>4 DEF LeaveReduce, TypeOK
  <2>5. \A x \in Rank : posted[cur[r]][x] # "none"
    BY <1>4 DEF LeaveReduce, AllPosted
  <2>6. \A x \in Rank : assignment'[r][x] =
          IF posted[cur[r]][x] = "yes" /\ assignment[r][x] = 0
          THEN nodes[r] ELSE assignment[r][x]
    BY <1>4 DEF LeaveReduce, SameNodeFlags, TypeOK
  <2> QED
    BY <2>1, <2>2, <2>3, <2>4, <2>5, <2>6
<1> QED
  BY <1>1, <1>2, <1>3, <1>4

\* The other ranks' loops stay as they are.
LEMMA OthersTurns ==
  ASSUME TypeOK, NEW r \in Rank, Step(r)
  PROVE  \A q \in Rank : q # r =>
           /\ cur'[q] = cur[q] /\ assignment'[q] = assignment[q]
           /\ nodes'[q] = nodes[q] /\ (InCall(q)' <=> InCall(q))
<1>1. \A q \in Rank : q # r => nodes'[q] = nodes[q]
  BY DEF Step, SkipAssigned, StartNode, Return, Create, ReceiveName, Open,
         LeaveBarrier, LeaveReduce, TypeOK
<1> QED
  BY <1>1, OthersStay DEF InCall

\* Each turn keeps the order: a source comes after the sources of the lower
\* numbers, a rank that joins it after the source.
LEMMA OrderedStep ==
  TypeOK /\ Bounds /\ NodeInv /\ Ordered /\ [Next]_vars => Ordered'
<1> SUFFICES ASSUME TypeOK, Bounds, NodeInv, Ordered, [Next]_vars PROVE Ordered'
  OBVIOUS
<1>0. /\ \A q \in Rank : q \in Nat /\ cur[q] \in Nat /\ nodes[q] \in Nat
      /\ \A q, x \in Rank : assignment[q][x] \in Nat /\ assignment[q][x] <= nodes[q]
      /\ N \in Nat /\ \A q \in Rank : nodes[q] <= N
  BY Ranks DEF TypeOK, NodeInv, Separate
<1>1. ASSUME NEW r \in Rank, Step(r) PROVE Ordered'
  <2>1. \A q \in Rank : q # r =>
           /\ cur'[q] = cur[q] /\ assignment'[q] = assignment[q]
           /\ nodes'[q] = nodes[q] /\ (InCall(q)' <=> InCall(q))
    BY <1>1, OthersTurns
  <2> SUFFICES
        /\ \A j \in Rank : j < cur'[r] => assignment'[r][j] # 0
        /\ \A n \in 1 .. nodes'[r] : \E j \in Rank :
             assignment'[r][j] = n /\ (j < cur'[r] \/ (InCall(r)' /\ j = cur'[r]))
        /\ \A k \in Rank : \A n \in 1 .. N :
             n < assignment'[r][k] => \E j \in Rank : j < k /\ assignment'[r][j] = n
    <3>1. \A q, j \in Rank : j < cur'[q] => assignment'[q][j] # 0
      BY <2>1 DEF Ordered
    <3>2. \A q \in Rank : \A n \in 1 .. nodes'[q] : \E j \in Rank :
            assignment'[q][j] = n /\ (j < cur'[q] \/ (InCall(q)' /\ j = cur'[q]))
      BY <2>1 DEF Ordered
    <3>3. \A q, k \in Rank : \A n \in 1 .. N :
            n < assignment'[q][k] => \E j \in Rank : j < k /\ assignment'[q][j] = n
      BY <2>1 DEF Ordered
    <3> QED
      BY <3>1, <3>2, <3>3 DEF Ordered
  <2>2. CASE SkipAssigned(r)
    <3>1. /\ ~InCall(r) /\ cur[r] \in Rank /\ assignment[r][cur[r]] # 0
          /\ cur'[r] = cur[r] + 1 /\ UNCHANGED <<assignment, nodes>>
      BY <2>2, Turns
    <3>2. ASSUME NEW j \in Rank, j < cur'[r] PROVE assignment'[r][j] # 0
      <4>1. j < cur[r] \/ j = cur[r]
        BY <1>0, <3>1, <3>2
      <4> QED
        BY <3>1, <4>1 DEF Ordered
    <3>3. \A n \in 1 .. nodes[r] : \E j \in Rank : assignment[r][j] = n /\ j < cur'[r]
      <4>1. \A j \in Rank : j < cur[r] => j < cur'[r]
        BY <1>0, <3>1
      <4> QED
        BY <3>1, <4>1 DEF Ordered
    <3> QED
      BY <3>1, <3>2, <3>3 DEF Ordered
  <2>3. CASE StartNode(r)
    <3>1. /\ ~InCall(r) /\ cur[r] \in Rank /\ assignment[r][cur[r]] = 0
          /\ cur' = cur /\ InCall(r)'
          /\ nodes'[r] = nodes[r] + 1
          /\ assignment'[r][cur[r]] = nodes[r] + 1
          /\ \A x \in Rank : x # cur[r] => assignment'[r][x] = assignment[r][x]
      BY <2>3, Turns
    <3>2. \A j \in Rank : j < cur'[r] => assignment'[r][j] # 0
      BY <1>0, <3>1 DEF Ordered
    <3>3. \A n \in 1 .. nodes[r] : \E j \in Rank :
            /\ assignment[r][j] = n /\ j < cur[r] /\ assignment'[r][j] = n
      BY <1>0, <3>1 DEF Ordered
    <3>4. \A n \in 1 .. nodes'[r] : \E j \in Rank :
            assignment'[r][j] = n /\ (j < cur'[r] \/ (InCall(r)' /\ j = cur'[r]))
      <4> SUFFICES ASSUME NEW n \in 1 .. nodes'[r]
                   PROVE  \E j \in Rank :
                            assignment'[r][j] = n /\ (j < cur'[r] \/ (InCall(r)' /\ j = cur'[r]))
        OBVIOUS
      <4>1. CASE n = nodes[r] + 1
        BY <3>1, <4>1
      <4>2. CASE n # nodes[r] + 1
        <5>1. n \in 1 .. nodes[r]
          BY <1>0, <3>1, <4>2
        <5> QED
          BY <3>1, <3>3, <5>1
      <4> QED
        BY <4>1, <4>2
    <3>5. ASSUME NEW k \in Rank, NEW n \in 1 .. N, n < assignment'[r][k]
          PROVE  \E j \in Rank : j < k /\ assignment'[r][j] = n
      <4>1. CASE k = cur[r]
        <5>1. n \in 1 .. nodes[r]
          BY <1>0, <3>1, <3>5, <4>1
        <5> QED
          BY <3>3, <4>1, <5>1
      <4>2. CASE k # cur[r]
        <5>1. PICK j \in Rank : j < k /\ assignment[r][j] = n
          BY <3>1, <3>5, <4>2 DEF Ordered
        <5>2. j # cur[r]
          BY <1>0, <3>1, <5>1
        <5> QED
          BY <3>1, <5>1, <5>2
      <4> QED
        BY <4>1, <4>2
    <3> QED
      BY <3>2, <3>4, <3>5
  <2>4. CASE Return(r)
    <3>1. ~InCall(r) /\ UNCHANGED <<cur, assignment, nodes>>
      BY <2>4, Turns
    <3> QED
      BY <3>1 DEF Ordered
  <2>5. CASE Create(r) \/ ReceiveName(r) \/ Open(r) \/ LeaveBarrier(r)
    <3>1. UNCHANGED <<cur, assignment, nodes>> /\ (InCall(r)' <=> InCall(r))
      BY <2>5, InsideCall
    <3> QED
      BY <3>1 DEF Ordered
  <2>6. CASE LeaveReduce(r)
    <3>1. /\ InCall(r) /\ cur[r] \in Rank
          /\ cur'[r] = cur[r] + 1 /\ nodes' = nodes
          /\ \A x \in Rank : \/ assignment'[r][x] = assignment[r][x]
                             \/ assignment[r][x] = 0 /\ assignment'[r][x] = nodes[r]
      BY <2>6, Turns
    <3>2. /\ assignment[r][cur[r]] = nodes[r] /\ nodes[r] >= 1
          /\ \A x \in Rank : assignment[r][x] = nodes[r] => x = cur[r]
      BY <3>1 DEF NodeInv, Separate, Bounds
    <3>3. \A x \in Rank : assignment[r][x] # 0 => assignment'[r][x] = assignment[r][x]
      BY <3>1
    <3>4. ASSUME NEW j \in Rank, j < cur'[r] PROVE assignment'[r][j] # 0
      <4>1. j < cur[r] \/ j = cur[r]
        BY <1>0, <3>1, <3>4
      <4>2. assignment[r][j] # 0
        BY <1>0, <3>2, <4>1 DEF Ordered
      <4> QED
        BY <3>3, <4>2
    <3>5. \A n \in 1 .. nodes[r] : \E j \in Rank :
            assignment'[r][j] = n /\ assignment[r][j] = n /\ j <= cur[r]
      BY <1>0, <3>3 DEF Ordered
    <3>6. \A n \in 1 .. nodes'[r] : \E j \in Rank :
            assignment'[r][j] = n /\ (j < cur'[r] \/ (InCall(r)' /\ j = cur'[r]))
      BY <1>0, <3>1, <3>5
    <3>7. ASSUME NEW k \in Rank, NEW n \in 1 .. N, n < assignment'[r][k]
          PROVE  \E j \in Rank : j < k /\ assignment'[r][j] = n
      <4>1. CASE assignment'[r][k] = assignment[r][k]
        <5>1. PICK j \in Rank : j < k /\ assignment[r][j] = n
          BY <3>7, <4>1 DEF Ordered
        <5> QED
          BY <3>3, <5>1
      <4>2. CASE assignment[r][k] = 0 /\ assignment'[r][k] = nodes[r]
        <5>1. PICK j \in Rank : assignment'[r][j] = n /\ assignment[r][j] = n /\ j <= cur[r]
          BY <1>0, <3>5, <3>7, <4>2
        <5>2. ~(k < cur[r]) /\ k # cur[r]
          BY <3>2, <4>2 DEF Ordered
        <5> QED
          BY <1>0, <3>1, <5>1, <5>2
      <4> QED
        BY <3>1, <4>1, <4>2
    <3> QED
      BY <3>4, <3>6, <3>7
  <2> QED
    BY <1>1, <2>2, <2>3, <2>4, <2>5, <2>6 DEF Step
<1>2. CASE UNCHANGED vars
  BY <1>2 DEF vars, Ordered, InCall
<1> QED
  BY <1>1, <1>2 DEF Next

\* A rank posts once in a call; the call of a source a rank has passed is
\* over, and gave it the ranks of its node that had none.
Passed(q, k) ==
  /\ k < cur[q]
  /\ \A j \in Rank : j < k => assignment[q][j] # assignment[q][k]

Posted ==
  \A c, q \in Rank : posted[c][q] # "none" =>
    c < cur[q] \/ (c = cur[q] /\ pc[q] = "reduce")

Shared ==
  \A q, k \in Rank : Passed(q, k) => \A x \in Rank :
    /\ posted[k][x] # "none"
    /\ posted[k][x] = "yes" =>
         assignment[q][x] # 0 /\ assignment[q][x] <= assignment[q][k]
    /\ x # k /\ assignment[q][x] = assignment[q][k] => posted[k][x] = "yes"

\* A rank leaves the call it posted in before it turns to another.
LEMMA PostedStep == TypeOK /\ Posted /\ [Next]_vars => Posted'
<1> SUFFICES ASSUME TypeOK, Posted, [Next]_vars PROVE Posted'
  OBVIOUS
<1>0. \A q \in Rank : q \in Nat /\ cur[q] \in Nat
  BY Ranks DEF TypeOK
<1>1. ASSUME NEW r \in Rank, Step(r) PROVE Posted'
  <2>1. \A q \in Rank : q # r => pc'[q] = pc[q] /\ cur'[q] = cur[q]
    BY <1>1, OthersStay
  <2>2. CASE LeaveBarrier(r)
    <3>1. /\ pc'[r] = "reduce" /\ cur' = cur /\ pc[r] # "reduce"
          /\ \A c, q \in Rank :
               posted'[c][q] = posted[c][q] \/ (c = cur[r] /\ q = r)
      BY <2>2 DEF LeaveBarrier, Goto, TypeOK
    <3> QED
      BY <1>0, <2>1, <3>1 DEF Posted
  <2>3. CASE ~LeaveBarrier(r)
    <3>1. /\ posted' = posted /\ pc'[r] # "reduce"
          /\ \/ cur'[r] = cur[r] /\ pc[r] # "reduce"
             \/ cur'[r] = cur[r] + 1
      BY <1>1, <2>3 DEF Step, SkipAssigned, StartNode, Return, Create, ReceiveName,
           Open, LeaveReduce, GoToBarrier, Goto, TypeOK
    <3>2. \A c \in Rank : posted[c][r] # "none" => c < cur'[r]
      BY <1>0, <3>1 DEF Posted
    <3> QED
      BY <2>1, <3>1, <3>2 DEF Posted
  <2> QED
    BY <2>2, <2>3
<1>2. CASE UNCHANGED vars
  BY <1>2 DEF vars, Posted
<1> QED
  BY <1>1, <1>2 DEF Next

\* What a call gave a rank stays so: nobody posts in it any more, and a later
\* node has a higher number.
LEMMA SharedStep ==
  TypeOK /\ Bounds /\ NodeInv /\ Ordered /\ Posted /\ Shared /\ [Next]_vars => Shared'
<1> SUFFICES ASSUME TypeOK, Bounds, NodeInv, Ordered, Posted, Shared, [Next]_vars
             PROVE  Shared'
  OBVIOUS
<1>0. /\ \A q \in Rank : q \in Nat /\ cur[q] \in Nat /\ nodes[q] \in Nat
      /\ \A q, x \in Rank : assignment[q][x] \in Nat /\ assignment[q][x] <= nodes[q]
      /\ N \in Nat /\ \A q \in Rank : nodes[q] <= N
  BY Ranks DEF TypeOK, NodeInv, Separate
<1>1. ASSUME NEW r \in Rank, LeaveBarrier(r) PROVE Shared'
  <2>1. /\ UNCHANGED <<cur, assignment>>
        /\ \A c, x \in Rank : posted[c][x] # "none" => posted'[c][x] = posted[c][x]
    <3>1. UNCHANGED <<cur, assignment>> /\ pc[r] = "barrier"
      BY <1>1 DEF LeaveBarrier
    <3>2. \A c, x \in Rank : posted'[c][x] = posted[c][x] \/ (c = cur[r] /\ x = r)
      BY <1>1 DEF LeaveBarrier, TypeOK
    <3>3. \A c \in Rank : c = cur[r] => posted[c][r] = "none"
      BY <1>0, <3>1 DEF Posted
    <3> QED
      BY <3>1, <3>2, <3>3
  <2> QED
    BY <2>1 DEF Shared, Passed
<1>2. ASSUME NEW r \in Rank, Step(r), ~LeaveBarrier(r) PROVE Shared'
  <2>1. \A q \in Rank : q # r => cur'[q] = cur[q] /\ assignment'[q] = assignment[q]
    BY <1>2, OthersTurns
  <2>2. posted' = posted
    BY <1>2 DEF Step, SkipAssigned, StartNode, Return, Create, ReceiveName, Open, LeaveReduce
  <2>3. ASSUME \A k \in Rank : Passed(r, k)' => \A x \in Rank :
                 /\ posted[k][x] # "none"
                 /\ posted[k][x] = "yes" =>
                      assignment'[r][x] # 0 /\ assignment'[r][x] <= assignment'[r][k]
                 /\ x # k /\ assignment'[r][x] = assignment'[r][k] =>
                      posted[k][x] = "yes"
        PROVE  Shared'
    <3> SUFFICES ASSUME NEW q \in Rank, NEW k \in Rank, Passed(q, k)', NEW x \in Rank
                 PROVE  /\ posted[k][x] # "none"
                        /\ posted[k][x] = "yes" =>
                             /\ assignment'[q][x] # 0
                             /\ assignment'[q][x] <= assignment'[q][k]
                        /\ x # k /\ assignment'[q][x] = assignment'[q][k] =>
                             posted[k][x] = "yes"
      BY <2>2 DEF Shared
    <3>1. CASE q = r
      BY <2>3, <3>1
    <3>2. CASE q # r
      <4>1. Passed(q, k)
        BY <2>1, <3>2 DEF Passed
      <4> QED
        BY <2>1, <3>2, <4>1 DEF Shared
    <3> QED
      BY <3>1, <3>2
  <2>4. CASE SkipAssigned(r)
    <3>1. /\ ~InCall(r) /\ cur[r] \in Rank /\ assignment[r][cur[r]] # 0
          /\ cur'[r] = cur[r] + 1 /\ assignment' = assignment
      BY <2>4, Turns
    <3>2. PICK j \in Rank : j < cur[r] /\ assignment[r][j] = assignment[r][cur[r]]
      <4>1. assignment[r][cur[r]] \in 1 .. nodes[r]
        BY <1>0, <3>1
      <4> QED
        BY <3>1, <4>1 DEF Ordered
    <3>3. ASSUME NEW k \in Rank, Passed(r, k)' PROVE Passed(r, k)
      <4>1. k # cur[r]
        BY <3>1, <3>2, <3>3 DEF Passed
      <4>2. k < cur[r]
        BY <1>0, <3>1, <3>3, <4>1 DEF Passed
      <4> QED
        BY <3>1, <3>3, <4>2 DEF Passed
    <3> QED
      BY <2>3, <3>1, <3>3 DEF Shared
  <2>5. CASE StartNode(r)
    <3>1. /\ cur[r] \in Rank /\ assignment[r][cur[r]] = 0
          /\ cur' = cur
          /\ assignment'[r][cur[r]] = nodes[r] + 1
          /\ \A x \in Rank : x # cur[r] => assignment'[r][x] = assignment[r][x]
      BY <2>5, Turns
    <3>2. ASSUME NEW k \in Rank, Passed(r, k)'
          PROVE  /\ Passed(r, k) /\ assignment'[r][k] = assignment[r][k]
                 /\ assignment[r][k] <= nodes[r]
      <4>1. k < cur[r]
        BY <3>1, <3>2 DEF Passed
      <4>2. \A j \in Rank : j <= k => assignment'[r][j] = assignment[r][j]
        BY <1>0, <3>1, <4>1
      <4> QED
        BY <1>0, <3>2, <4>1, <4>2 DEF Passed
    <3>3. ASSUME NEW k \in Rank, Passed(r, k)', NEW x \in Rank
          PROVE  /\ posted[k][x] # "none"
                 /\ posted[k][x] = "yes" =>
                      assignment'[r][x] # 0 /\ assignment'[r][x] <= assignment'[r][k]
                 /\ x # k /\ assignment'[r][x] = assignment'[r][k] =>
                      posted[k][x] = "yes"
      <4>1. CASE x = cur[r]
        BY <1>0, <3>1, <3>2, <3>3, <4>1 DEF Shared
      <4>2. CASE x # cur[r]
        BY <3>1, <3>2, <3>3, <4>2 DEF Shared
      <4> QED
        BY <4>1, <4>2
    <3> QED
      BY <2>3, <3>3
  <2>6. CASE Return(r) \/ Create(r) \/ ReceiveName(r) \/ Open(r)
    <3>1. UNCHANGED <<cur, assignment>>
      BY <2>6 DEF Return, Create, ReceiveName, Open
    <3> QED
      BY <2>2, <3>1 DEF Shared, Passed
  <2>7. CASE LeaveReduce(r)
    <3>1. /\ InCall(r) /\ cur[r] \in Rank
          /\ cur'[r] = cur[r] + 1
          /\ \A x \in Rank : posted[cur[r]][x] # "none"
          /\ \A x \in Rank : assignment'[r][x] =
               IF posted[cur[r]][x] = "yes" /\ assignment[r][x] = 0
               THEN nodes[r] ELSE assignment[r][x]
      BY <2>7, Turns
    <3>2. /\ assignment[r][cur[r]] = nodes[r] /\ nodes[r] >= 1
          /\ \A x \in Rank : assignment[r][x] = nodes[r] => x = cur[r]
      BY <3>1 DEF NodeInv, Separate, Bounds
    <3>3. \A x \in Rank : assignment[r][x] # 0 => assignment'[r][x] = assignment[r][x]
      BY <3>1
    <3>4. ASSUME NEW k \in Rank, Passed(r, k)', NEW x \in Rank
          PROVE  /\ posted[k][x] # "none"
                 /\ posted[k][x] = "yes" =>
                      assignment'[r][x] # 0 /\ assignment'[r][x] <= assignment'[r][k]
                 /\ x # k /\ assignment'[r][x] = assignment'[r][k] =>
                      posted[k][x] = "yes"
      <4>1. CASE k = cur[r]
        <5>1. assignment'[r][k] = nodes[r]
          BY <1>0, <3>2, <3>3, <4>1
        <5> QED
          BY <1>0, <3>1, <3>2, <4>1, <5>1
      <4>2. CASE k # cur[r]
        <5>1. k < cur[r]
          BY <1>0, <3>1, <3>4, <4>2 DEF Passed
        <5>2. \A j \in Rank : j <= k => assignment'[r][j] = assignment[r][j]
          <6>1. \A j \in Rank : j <= k => assignment[r][j] # 0
            BY <1>0, <5>1 DEF Ordered
          <6> QED
            BY <3>3, <6>1
        <5>3. Passed(r, k)
          BY <1>0, <3>4, <5>1, <5>2 DEF Passed
        <5>4. assignment'[r][k] = assignment[r][k] /\ assignment[r][k] # nodes[r]
          BY <1>0, <3>2, <4>2, <5>2
        <5> QED
          BY <3>1, <5>3, <5>4 DEF Shared
      <4> QED
        BY <4>1, <4>2
    <3> QED
      BY <2>3, <3>4
  <2> QED
    BY <1>2, <2>4, <2>5, <2>6, <2>7 DEF Step
<1>3. CASE UNCHANGED vars
  BY <1>3 DEF vars, Shared, Passed
<1> QED
  BY <1>1, <1>2, <1>3 DEF Next

\* What rank r had assigned when its nodes below n were the only ones.
Below(r, x, n) == IF assignment[r][x] < n THEN assignment[r][x] ELSE 0

Behind(s, r) ==
  \/ cur[s] < cur[r]
  \/ cur[s] = cur[r] /\ (InCall(s) => InCall(r))

\* A rank that is behind another has an earlier state of the other's count.
Follows(s, r) ==
  /\ nodes[s] <= nodes[r]
  /\ ~InCall(s) => \A x \in Rank :
       assignment[s][x] = Below(r, x, nodes[s] + 1)
  /\ InCall(s) =>
       /\ assignment[r][cur[s]] = nodes[s]
       /\ \A x \in Rank : x # cur[s] =>
            assignment[s][x] = Below(r, x, nodes[s])

Agreed == \A s, r \in Rank : s # r /\ Behind(s, r) => Follows(s, r)

Counted == TypeOK /\ Bounds /\ NodeInv /\ Ordered /\ Shared /\ Agreed

\* The numbers of the count.
LEMMA Numbers ==
  Counted =>
    /\ N \in Nat
    /\ \A q \in Rank : q \in Nat /\ cur[q] \in Nat /\ nodes[q] \in Nat /\ nodes[q] <= N
    /\ \A q, x \in Rank : assignment[q][x] \in Nat /\ assignment[q][x] <= nodes[q]
  BY Ranks DEF Counted, TypeOK, NodeInv, Separate

\* A call that returns gives a rank what it gave to one that is further.
LEMMA CallOver ==
  ASSUME Counted, NEW s \in Rank, NEW r \in Rank,
         Follows(s, r), cur[s] < cur[r], LeaveReduce(s)
  PROVE  \A x \in Rank : assignment'[s][x] = Below(r, x, nodes[s] + 1)
<1>0. /\ \A q \in Rank : q \in Nat /\ cur[q] \in Nat /\ nodes[q] \in Nat
      /\ \A q, x \in Rank : assignment[q][x] \in Nat
  BY Numbers
<1>1. /\ InCall(s) /\ cur[s] \in Rank
      /\ \A x \in Rank : assignment'[s][x] =
           IF posted[cur[s]][x] = "yes" /\ assignment[s][x] = 0
           THEN nodes[s] ELSE assignment[s][x]
  BY Turns DEF Counted
<1>2. /\ assignment[s][cur[s]] = nodes[s] /\ nodes[s] >= 1
      /\ \A x \in Rank : assignment[s][x] = nodes[s] => x = cur[s]
  BY <1>1 DEF Counted, NodeInv, Separate, Bounds
<1>3. /\ assignment[r][cur[s]] = nodes[s]
      /\ \A x \in Rank : x # cur[s] => assignment[s][x] = Below(r, x, nodes[s])
  BY <1>1 DEF Follows
<1>4. Passed(r, cur[s])
  <2>1. ASSUME NEW j \in Rank, j < cur[s], assignment[r][j] = nodes[s] PROVE FALSE
    <3>1. assignment[s][j] = 0
      BY <1>0, <1>3, <2>1 DEF Below
    <3> QED
      BY <2>1, <3>1 DEF Counted, Ordered
  <2> QED
    BY <1>3, <2>1 DEF Passed
<1>5. \A x \in Rank :
        /\ posted[cur[s]][x] = "yes" =>
             assignment[r][x] # 0 /\ assignment[r][x] <= nodes[s]
        /\ x # cur[s] /\ assignment[r][x] = nodes[s] => posted[cur[s]][x] = "yes"
  BY <1>1, <1>3, <1>4 DEF Counted, Shared
<1> SUFFICES ASSUME NEW x \in Rank
             PROVE  assignment'[s][x] = Below(r, x, nodes[s] + 1)
  OBVIOUS
<1>6. CASE x = cur[s]
  BY <1>0, <1>1, <1>2, <1>3, <1>6 DEF Below
<1>7. CASE x # cur[s] /\ assignment[r][x] = nodes[s]
  BY <1>0, <1>1, <1>3, <1>5, <1>7 DEF Below
<1>8. CASE x # cur[s] /\ assignment[r][x] # nodes[s]
  <2>1. Below(r, x, nodes[s] + 1) = assignment[s][x]
    BY <1>0, <1>3, <1>8 DEF Below
  <2>2. assignment[s][x] = 0 => posted[cur[s]][x] # "yes"
    BY <1>0, <1>3, <1>5, <1>8 DEF Below
  <2> QED
    BY <1>1, <2>1, <2>2
<1> QED
  BY <1>6, <1>7, <1>8

\* A rank that starts a node in a turn another has reached gives the source
\* the number the other gave it.
LEMMA SameNumber ==
  ASSUME Counted, NEW s \in Rank, NEW r \in Rank,
         Follows(s, r), ~InCall(s), cur[s] \in Rank, assignment[s][cur[s]] = 0,
         cur[s] < cur[r] \/ (cur[s] = cur[r] /\ InCall(r))
  PROVE  assignment[r][cur[s]] = nodes[s] + 1
<1>0. /\ N \in Nat
      /\ \A q \in Rank : q \in Nat /\ cur[q] \in Nat /\ nodes[q] \in Nat /\ nodes[q] <= N
      /\ \A q, x \in Rank : assignment[q][x] \in Nat /\ assignment[q][x] <= nodes[q]
  BY Numbers
<1>1. \A x \in Rank : assignment[s][x] = Below(r, x, nodes[s] + 1)
  BY DEF Follows
<1>2. assignment[r][cur[s]] # 0
  <2>1. CASE cur[s] < cur[r]
    BY <2>1 DEF Counted, Ordered
  <2>2. CASE cur[s] = cur[r] /\ InCall(r)
    BY <1>0, <2>2 DEF Counted, NodeInv, Separate, Bounds
  <2> QED
    BY <2>1, <2>2
<1>3. assignment[r][cur[s]] >= nodes[s] + 1
  BY <1>0, <1>1, <1>2 DEF Below
<1>4. ASSUME nodes[s] + 1 < assignment[r][cur[s]] PROVE FALSE
  <2>1. nodes[s] + 1 \in 1 .. N
    BY <1>0, <1>4
  <2>2. PICK j \in Rank : j < cur[s] /\ assignment[r][j] = nodes[s] + 1
    BY <1>4, <2>1 DEF Counted, Ordered
  <2>3. assignment[s][j] = 0
    BY <1>0, <1>1, <2>2 DEF Below
  <2> QED
    BY <2>2, <2>3 DEF Counted, Ordered
<1> QED
  BY <1>0, <1>3, <1>4

\* The step of a rank that is behind another.
LEMMA StepBehind ==
  ASSUME Counted, NEW s \in Rank, NEW r \in Rank, s # r, Step(s), Behind(s, r)'
  PROVE  Follows(s, r)'
<1>0. /\ N \in Nat
      /\ \A q \in Rank : q \in Nat /\ cur[q] \in Nat /\ nodes[q] \in Nat /\ nodes[q] <= N
      /\ \A q, x \in Rank : assignment[q][x] \in Nat /\ assignment[q][x] <= nodes[q]
  BY Numbers
<1>1. /\ cur'[r] = cur[r] /\ assignment'[r] = assignment[r]
      /\ nodes'[r] = nodes[r] /\ (InCall(r)' <=> InCall(r))
  BY OthersTurns DEF Counted
<1>2. CASE SkipAssigned(s)
  <2>1. /\ ~InCall(s) /\ cur'[s] = cur[s] + 1 /\ ~InCall(s)'
        /\ UNCHANGED <<assignment, nodes>>
    BY <1>2, Turns DEF Counted
  <2>2. cur[s] < cur[r]
    BY <1>0, <1>1, <2>1 DEF Behind
  <2>3. Follows(s, r)
    BY <2>2 DEF Counted, Agreed, Behind
  <2> QED
    BY <2>1, <2>3 DEF Follows, Below
<1>3. CASE StartNode(s)
  <2>1. /\ ~InCall(s) /\ cur[s] \in Rank /\ assignment[s][cur[s]] = 0
        /\ cur' = cur /\ InCall(s)'
        /\ nodes'[s] = nodes[s] + 1
        /\ \A x \in Rank : x # cur[s] => assignment'[s][x] = assignment[s][x]
    BY <1>3, Turns DEF Counted
  <2>2. cur[s] < cur[r] \/ (cur[s] = cur[r] /\ InCall(r))
    BY <1>1, <2>1 DEF Behind
  <2>3. Follows(s, r)
    BY <2>1, <2>2 DEF Counted, Agreed, Behind
  <2>4. assignment[r][cur[s]] = nodes[s] + 1
    BY <2>1, <2>2, <2>3, SameNumber
  <2>5. nodes'[s] <= nodes'[r]
    BY <1>0, <1>1, <2>1, <2>4
  <2>6. \A x \in Rank : assignment[s][x] = Below(r, x, nodes[s] + 1)
    BY <2>1, <2>3 DEF Follows
  <2> QED
    BY <1>1, <2>1, <2>4, <2>5, <2>6 DEF Follows, Below
<1>4. CASE Return(s)
  <2>1. ~InCall(s) /\ ~InCall(s)' /\ UNCHANGED <<cur, assignment, nodes>>
    BY <1>4, Turns DEF Counted
  <2>2. Follows(s, r)
    BY <1>1, <2>1 DEF Counted, Agreed, Behind
  <2> QED
    BY <2>1, <2>2 DEF Follows, Below
<1>5. CASE Create(s) \/ ReceiveName(s) \/ Open(s) \/ LeaveBarrier(s)
  <2>1. UNCHANGED <<cur, assignment, nodes>> /\ (InCall(s)' <=> InCall(s))
    BY <1>5, InsideCall DEF Counted
  <2>2. Follows(s, r)
    BY <1>1, <2>1 DEF Counted, Agreed, Behind
  <2> QED
    BY <2>1, <2>2 DEF Follows, Below
<1>6. CASE LeaveReduce(s)
  <2>1. cur'[s] = cur[s] + 1 /\ ~InCall(s)' /\ nodes' = nodes
    BY <1>6, Turns DEF Counted
  <2>2. cur[s] < cur[r]
    BY <1>0, <1>1, <2>1 DEF Behind
  <2>3. Follows(s, r)
    BY <2>2 DEF Counted, Agreed, Behind
  <2>4. \A x \in Rank : assignment'[s][x] = Below(r, x, nodes[s] + 1)
    BY <1>6, <2>2, <2>3, CallOver
  <2>5. nodes'[s] <= nodes'[r]
    BY <2>1, <2>3 DEF Follows
  <2> QED
    BY <1>1, <2>1, <2>4, <2>5 DEF Follows, Below
<1> QED
  BY <1>2, <1>3, <1>4, <1>5, <1>6 DEF Step

\* A rank that has not passed another's last turn has as many nodes, and the
\* same.
LEMMA SameCount ==
  ASSUME Counted, NEW s \in Rank, NEW r \in Rank, NEW n \in Nat,
         nodes[s] >= n, ~InCall(s),
         \A j \in Rank : j < cur[s] => assignment[s][j] <= n
  PROVE  nodes[s] = n
<1>0. nodes[s] \in Nat /\ \A x \in Rank : assignment[s][x] \in Nat
  BY Numbers
<1>1. ASSUME nodes[s] > n PROVE FALSE
  <2>1. nodes[s] \in 1 .. nodes[s]
    BY <1>0, <1>1
  <2>2. PICK j \in Rank : j < cur[s] /\ assignment[s][j] = nodes[s]
    BY <2>1 DEF Counted, Ordered
  <2> QED
    BY <1>0, <1>1, <2>2
<1> QED
  BY <1>0, <1>1

\* The step of a rank that another is behind.
LEMMA StepAhead ==
  ASSUME Counted, NEW s \in Rank, NEW r \in Rank, s # r, Step(r), Behind(s, r)'
  PROVE  Follows(s, r)'
<1>0. /\ N \in Nat
      /\ \A q \in Rank : q \in Nat /\ cur[q] \in Nat /\ nodes[q] \in Nat /\ nodes[q] <= N
      /\ \A q, x \in Rank : assignment[q][x] \in Nat /\ assignment[q][x] <= nodes[q]
  BY Numbers
<1>1. /\ cur'[s] = cur[s] /\ assignment'[s] = assignment[s]
      /\ nodes'[s] = nodes[s] /\ (InCall(s)' <=> InCall(s))
  BY OthersTurns DEF Counted
<1>a. InCall(s) =>
        /\ cur[s] \in Rank /\ assignment[s][cur[s]] = nodes[s] /\ nodes[s] >= 1
        /\ \A x \in Rank : assignment[s][x] = nodes[s] => x = cur[s]
  BY <1>0 DEF Counted, NodeInv, Separate, Bounds, Rank
<1>2. CASE SkipAssigned(r)
  <2>1. /\ ~InCall(r) /\ cur[r] \in Rank /\ assignment[r][cur[r]] # 0
        /\ cur'[r] = cur[r] + 1 /\ ~InCall(r)'
        /\ UNCHANGED <<assignment, nodes>>
    BY <1>2, Turns DEF Counted
  <2>2. \/ Behind(s, r)
        \/ cur[s] = cur[r] /\ InCall(s)
        \/ cur[s] = cur[r] + 1 /\ ~InCall(s)
    BY <1>0, <1>1, <2>1 DEF Behind
  <2>3. CASE Behind(s, r)
    <3>1. Follows(s, r)
      BY <2>3 DEF Counted, Agreed
    <3> QED
      BY <1>1, <2>1, <3>1 DEF Follows, Below
  <2>4. Follows(r, s) => \A x \in Rank :
          assignment[r][x] = Below(s, x, nodes[r] + 1)
    BY <2>1 DEF Follows
  <2>5. CASE cur[s] = cur[r] /\ InCall(s)
    <3>1. Follows(r, s)
      BY <2>1, <2>5 DEF Counted, Agreed, Behind
    <3>2. assignment[r][cur[r]] = nodes[s]
      BY <1>a, <2>1, <2>4, <2>5, <3>1 DEF Below
    <3>3. nodes[s] \in 1 .. nodes[r]
      BY <1>0, <1>a, <2>1, <2>5, <3>2
    <3>4. PICK j \in Rank : j < cur[r] /\ assignment[r][j] = nodes[s]
      BY <2>1, <3>3 DEF Counted, Ordered
    <3>5. assignment[s][j] = nodes[s]
      BY <1>0, <1>a, <2>4, <2>5, <3>1, <3>4 DEF Below
    <3> QED
      BY <1>0, <1>a, <2>5, <3>4, <3>5
  <2>6. CASE cur[s] = cur[r] + 1 /\ ~InCall(s)
    <3>1. Follows(r, s)
      BY <1>0, <2>6 DEF Counted, Agreed, Behind
    <3>2. \A j \in Rank : j < cur[s] => assignment[r][j] # 0
      <4>1. \A j \in Rank : j < cur[s] => j < cur[r] \/ j = cur[r]
        BY <1>0, <2>6
      <4> QED
        BY <2>1, <4>1 DEF Counted, Ordered
    <3>3. \A j \in Rank : j < cur[s] => assignment[s][j] <= nodes[r]
      BY <1>0, <2>4, <3>1, <3>2 DEF Below
    <3>4. nodes[s] >= nodes[r]
      BY <1>0, <3>1 DEF Follows
    <3>5. nodes[s] = nodes[r]
      BY <1>0, <2>6, <3>3, <3>4, SameCount
    <3>6. \A x \in Rank : assignment[s][x] = assignment[r][x]
      BY <1>0, <2>4, <3>1, <3>5 DEF Below
    <3>7. \A x \in Rank : assignment[s][x] = Below(r, x, nodes[s] + 1)
      BY <1>0, <3>5, <3>6 DEF Below
    <3> QED
      BY <1>0, <1>1, <2>1, <2>6, <3>5, <3>7 DEF Follows, Below
  <2> QED
    BY <2>2, <2>3, <2>5, <2>6
<1>3. CASE StartNode(r)
  <2>1. /\ ~InCall(r) /\ cur[r] \in Rank /\ assignment[r][cur[r]] = 0
        /\ cur' = cur /\ InCall(r)'
        /\ nodes'[r] = nodes[r] + 1
        /\ assignment'[r][cur[r]] = nodes[r] + 1
        /\ \A x \in Rank : x # cur[r] => assignment'[r][x] = assignment[r][x]
    BY <1>3, Turns DEF Counted
  <2>2. Behind(s, r) \/ (cur[s] = cur[r] /\ InCall(s))
    BY <1>0, <1>1, <2>1 DEF Behind
  <2>3. CASE Behind(s, r)
    <3>1. Follows(s, r)
      BY <2>3 DEF Counted, Agreed
    <3>2. nodes[s] <= nodes'[r]
      BY <1>0, <2>1, <3>1 DEF Follows
    <3>3. \A x \in Rank, n \in 0 .. nodes[s] + 1 : Below(r, x, n)' = Below(r, x, n)
      <4> SUFFICES ASSUME NEW x \in Rank, NEW n \in 0 .. nodes[s] + 1
                   PROVE  Below(r, x, n)' = Below(r, x, n)
        OBVIOUS
      <4>1. CASE x = cur[r]
        BY <1>0, <2>1, <3>1, <4>1 DEF Below, Follows
      <4>2. CASE x # cur[r]
        BY <2>1, <4>2 DEF Below
      <4> QED
        BY <4>1, <4>2
    <3>4. CASE InCall(s)
      <4>1. cur[s] # cur[r]
        BY <1>a, <2>1, <3>1, <3>4 DEF Follows
      <4>2. assignment'[r][cur[s]] = nodes[s]
        BY <1>a, <2>1, <3>1, <3>4, <4>1 DEF Follows
      <4>3. \A x \in Rank : x # cur[s] => assignment[s][x] = Below(r, x, nodes[s])'
        <5>1. \A x \in Rank : x # cur[s] => assignment[s][x] = Below(r, x, nodes[s])
          BY <3>1, <3>4 DEF Follows
        <5>2. nodes[s] \in 0 .. nodes[s] + 1
          BY <1>0
        <5>3. nodes'[s] = nodes[s] /\ \A x \in Rank : Below(r, x, nodes[s])' = Below(r, x, nodes[s])
          BY <1>1, <3>3, <5>2 DEF Below
        <5> QED
          BY <5>1, <5>3
      <4> QED
        BY <1>1, <3>2, <3>4, <4>2, <4>3 DEF Follows, Below
    <3>5. CASE ~InCall(s)
      <4>1. \A x \in Rank : assignment[s][x] = Below(r, x, nodes[s] + 1)
        BY <3>1, <3>5 DEF Follows
      <4>2. nodes[s] + 1 \in 0 .. nodes[s] + 1
        BY <1>0
      <4>3. \A x \in Rank : assignment[s][x] =
              IF assignment'[r][x] < nodes[s] + 1 THEN assignment'[r][x] ELSE 0
        BY <3>3, <4>1, <4>2 DEF Below
      <4> QED
        BY <1>1, <3>2, <3>5, <4>3 DEF Follows, Below
    <3> QED
      BY <3>4, <3>5
  <2>4. CASE cur[s] = cur[r] /\ InCall(s)
    <3>1. Follows(r, s)
      BY <2>1, <2>4 DEF Counted, Agreed, Behind
    <3>2. assignment[s][cur[r]] = nodes[r] + 1
      BY <2>1, <2>4, <3>1, SameNumber
    <3>3. nodes[s] = nodes[r] + 1
      BY <1>a, <2>4, <3>2
    <3>4. \A x \in Rank : assignment[r][x] = Below(s, x, nodes[r] + 1)
      BY <2>1, <3>1 DEF Follows
    <3>5. \A x \in Rank : x # cur[s] =>
            assignment[s][x] = assignment[r][x] /\ assignment[r][x] < nodes[s]
      BY <1>0, <1>a, <2>4, <3>3, <3>4 DEF Below
    <3>6. \A x \in Rank : x # cur[s] => assignment[s][x] =
            IF assignment'[r][x] < nodes[s] THEN assignment'[r][x] ELSE 0
      BY <2>1, <2>4, <3>5
    <3>7. nodes[s] <= nodes'[r] /\ assignment'[r][cur[s]] = nodes[s]
      BY <1>0, <2>1, <2>4, <3>3
    <3> QED
      BY <1>1, <2>4, <3>6, <3>7 DEF Follows, Below
  <2> QED
    BY <2>2, <2>3, <2>4
<1>4. CASE Return(r)
  <2>1. ~InCall(r) /\ ~InCall(r)' /\ UNCHANGED <<cur, assignment, nodes>>
    BY <1>4, Turns DEF Counted
  <2>2. Follows(s, r)
    BY <1>1, <2>1 DEF Counted, Agreed, Behind
  <2> QED
    BY <1>1, <2>1, <2>2 DEF Follows, Below
<1>5. CASE Create(r) \/ ReceiveName(r) \/ Open(r) \/ LeaveBarrier(r)
  <2>1. UNCHANGED <<cur, assignment, nodes>> /\ (InCall(r)' <=> InCall(r))
    BY <1>5, InsideCall DEF Counted
  <2>2. Follows(s, r)
    BY <1>1, <2>1 DEF Counted, Agreed, Behind
  <2> QED
    BY <1>1, <2>1, <2>2 DEF Follows, Below
<1>6. CASE LeaveReduce(r)
  <2>1. /\ InCall(r) /\ cur[r] \in Rank
        /\ cur'[r] = cur[r] + 1 /\ ~InCall(r)' /\ nodes' = nodes
        /\ \A x \in Rank : \/ assignment'[r][x] = assignment[r][x]
                           \/ assignment[r][x] = 0 /\ assignment'[r][x] = nodes[r]
    BY <1>6, Turns DEF Counted
  <2>2. /\ assignment[r][cur[r]] = nodes[r] /\ nodes[r] >= 1
        /\ \A x \in Rank : assignment[r][x] = nodes[r] => x = cur[r]
    BY <2>1 DEF Counted, NodeInv, Separate, Bounds
  <2>3. cur[s] <= cur[r] \/ (cur[s] = cur[r] + 1 /\ ~InCall(s))
    BY <1>0, <1>1, <2>1 DEF Behind
  <2>4. CASE cur[s] <= cur[r]
    <3>1. Follows(s, r)
      BY <1>0, <2>1, <2>4 DEF Counted, Agreed, Behind
    <3>2. nodes[s] <= nodes'[r]
      BY <2>1, <3>1 DEF Follows
    <3>3. CASE InCall(s)
      <4>1. /\ assignment[r][cur[s]] = nodes[s]
            /\ \A x \in Rank : x # cur[s] => assignment[s][x] = Below(r, x, nodes[s])
        BY <3>1, <3>3 DEF Follows
      <4>2. assignment'[r][cur[s]] = nodes[s]
        BY <1>0, <1>a, <2>1, <3>3, <4>1
      <4>3. \A x \in Rank : x # cur[s] => assignment[s][x] =
              IF assignment'[r][x] < nodes[s] THEN assignment'[r][x] ELSE 0
        BY <1>0, <2>1, <3>2, <4>1 DEF Below
      <4> QED
        BY <1>1, <3>2, <3>3, <4>2, <4>3 DEF Follows, Below
    <3>4. CASE ~InCall(s)
      <4>1. \A x \in Rank : assignment[s][x] = Below(r, x, nodes[s] + 1)
        BY <3>1, <3>4 DEF Follows
      <4>2. nodes[s] < nodes[r]
        <5>1. ASSUME nodes[s] = nodes[r] PROVE FALSE
          <6>1. nodes[s] \in 1 .. nodes[s]
            BY <1>0, <2>2, <5>1
          <6>2. PICK j \in Rank : j < cur[s] /\ assignment[s][j] = nodes[s]
            BY <3>4, <6>1 DEF Counted, Ordered
          <6>3. assignment[r][j] = nodes[r]
            BY <1>0, <2>2, <4>1, <5>1, <6>2 DEF Below
          <6> QED
            BY <1>0, <2>2, <2>4, <6>2, <6>3
        <5> QED
          BY <1>0, <2>1, <3>2, <5>1
      <4>3. \A x \in Rank : assignment[s][x] =
              IF assignment'[r][x] < nodes[s] + 1 THEN assignment'[r][x] ELSE 0
        BY <1>0, <2>1, <4>1, <4>2 DEF Below
      <4> QED
        BY <1>1, <3>2, <3>4, <4>3 DEF Follows, Below
    <3> QED
      BY <3>3, <3>4
  <2>5. CASE cur[s] = cur[r] + 1 /\ ~InCall(s)
    <3>1. cur[r] < cur[s]
      BY <1>0, <2>5
    <3>2. Follows(r, s)
      BY <3>1 DEF Counted, Agreed, Behind
    <3>3. \A x \in Rank : assignment'[r][x] = Below(s, x, nodes[r] + 1)
      BY <1>6, <3>1, <3>2, CallOver
    <3>4. /\ assignment[s][cur[r]] = nodes[r] /\ nodes[r] <= nodes[s]
          /\ \A x \in Rank : x # cur[r] => assignment[r][x] = Below(s, x, nodes[r])
      BY <2>1, <3>2 DEF Follows
    <3>5. \A j \in Rank : j < cur[s] => assignment[s][j] <= nodes[r]
      <4> SUFFICES ASSUME NEW j \in Rank, j < cur[s] PROVE assignment[s][j] <= nodes[r]
        OBVIOUS
      <4>1. CASE j = cur[r]
        BY <1>0, <3>4, <4>1
      <4>2. CASE j # cur[r]
        <5>1. j < cur[r]
          BY <1>0, <2>5, <4>2
        <5>2. assignment[r][j] # 0
          BY <5>1 DEF Counted, Ordered
        <5> QED
          BY <1>0, <3>4, <4>2, <5>2 DEF Below
      <4> QED
        BY <4>1, <4>2
    <3>6. nodes[s] = nodes[r]
      BY <1>0, <2>5, <3>4, <3>5, SameCount
    <3>7. \A x \in Rank : assignment'[r][x] = assignment[s][x]
      BY <1>0, <3>3, <3>6 DEF Below
    <3>8. \A x \in Rank : assignment[s][x] =
            IF assignment'[r][x] < nodes[s] + 1 THEN assignment'[r][x] ELSE 0
      BY <1>0, <3>7
    <3> QED
      BY <1>0, <1>1, <2>1, <2>5, <3>6, <3>8 DEF Follows, Below
  <2> QED
    BY <2>3, <2>4, <2>5
<1> QED
  BY <1>2, <1>3, <1>4, <1>5, <1>6 DEF Step

\* Two ranks agree after a step of either or of a third.
LEMMA AgreedStep == Counted /\ [Next]_vars => Agreed'
<1> SUFFICES ASSUME Counted, [Next]_vars PROVE Agreed'
  OBVIOUS
<1>1. ASSUME NEW p \in Rank, Step(p), NEW s \in Rank, NEW r \in Rank,
             s # r, Behind(s, r)'
      PROVE  Follows(s, r)'
  <2>1. CASE p = s
    BY <1>1, <2>1, StepBehind
  <2>2. CASE p = r
    BY <1>1, <2>2, StepAhead
  <2>3. CASE p # s /\ p # r
    <3>1. \A q \in {s, r} : /\ cur'[q] = cur[q] /\ assignment'[q] = assignment[q]
                            /\ nodes'[q] = nodes[q] /\ (InCall(q)' <=> InCall(q))
      BY <1>1, <2>3, OthersTurns DEF Counted
    <3>2. Follows(s, r)
      BY <1>1, <3>1 DEF Counted, Agreed, Behind
    <3> QED
      BY <3>1, <3>2 DEF Follows, Below
  <2> QED
    BY <2>1, <2>2, <2>3
<1>2. CASE UNCHANGED vars
  BY <1>2 DEF Counted, Agreed, vars, Behind, Follows, Below, InCall
<1> QED
  BY <1>1, <1>2 DEF Next, Agreed

\* Ranks of one call have made the same assignment.
LEMMA SameAssignment == Counted => CallsMatch
<1> SUFFICES ASSUME Counted, NEW r \in Rank, NEW s \in Rank,
                    InCall(r), InCall(s), cur[r] = cur[s], r # s
             PROVE  assignment[r] = assignment[s]
  BY DEF CallsMatch
<1>0. /\ \A q \in Rank : nodes[q] \in Nat
      /\ \A q, x \in Rank : assignment[q][x] \in Nat /\ assignment[q][x] <= nodes[q]
  BY Numbers
<1>1. Follows(r, s) /\ Follows(s, r)
  BY DEF Counted, Agreed, Behind
<1>2. nodes[r] = nodes[s]
  BY <1>0, <1>1 DEF Follows
<1>3. \A q \in {r, s} : \A x \in Rank :
        assignment[q][x] = nodes[q] <=> x = cur[q]
  BY DEF Counted, NodeInv, Separate
<1>4. \A x \in Rank : assignment[r][x] = assignment[s][x]
  BY <1>0, <1>1, <1>2, <1>3 DEF Follows, Below
<1> QED
  BY <1>4 DEF Counted, TypeOK

\* The ranks of a group make the same calls of in_the_same_node_as, though
\* each chooses its next source from its own assignment: two ranks in the call
\* for one source have assigned every rank alike.
THEOREM CallsAgree == Spec => []CallsMatch
<1> DEFINE Inv == /\ TypeOK /\ Bounds /\ NodeInv /\ Posted
                  /\ N # 1 => Ordered /\ Shared /\ Agreed
<1>1. Init => Inv
  <2> SUFFICES ASSUME Init PROVE Inv
    OBVIOUS
  <2>1. TypeOK /\ Bounds
    BY InitType
  <2>2. NodeInv
    BY <2>1, Ranks DEF Init, NodeInv, Separate, NeverMerged, TypeOK, InCall
  <2>3. /\ \A q \in Rank : q \in Nat /\ cur[q] = 0 /\ ~InCall(q)
        /\ \A q, x \in Rank : assignment[q][x] = 0 /\ posted[q][x] = "none"
        /\ N # 1 => \A q \in Rank : nodes[q] = 0
    BY Ranks DEF Init, InCall
  <2>4. Posted
    BY <2>3 DEF Posted
  <2>5. ASSUME N # 1 PROVE Ordered /\ Shared /\ Agreed
    <3>1. Ordered
      BY <2>3, <2>5, Ranks DEF Ordered
    <3>2. Shared
      BY <2>3 DEF Shared, Passed
    <3>3. Agreed
      BY <2>3, <2>5 DEF Agreed, Follows, Below
    <3> QED
      BY <3>1, <3>2, <3>3
  <2> QED
    BY <2>1, <2>2, <2>4, <2>5
<1>2. Inv /\ [Next]_vars => Inv'
  <2> SUFFICES ASSUME Inv, [Next]_vars PROVE Inv'
    OBVIOUS
  <2>1. TypeOK' /\ Bounds' /\ NodeInv' /\ Posted'
    BY TypeStep, NodeStep, PostedStep
  <2>2. ASSUME N # 1 PROVE Ordered' /\ Shared' /\ Agreed'
    BY <2>2, OrderedStep, SharedStep, AgreedStep DEF Counted
  <2> QED
    BY <2>1, <2>2
<1>3. Inv => CallsMatch
  <2>1. ASSUME N = 1 PROVE CallsMatch
    BY <2>1 DEF CallsMatch, Rank
  <2>2. ASSUME N # 1, Inv PROVE CallsMatch
    BY <2>2, SameAssignment DEF Counted
  <2> QED
    BY <2>1, <2>2
<1> QED
  BY <1>1, <1>2, <1>3, PTL DEF Spec
-----------------------------------------------------------------------------
(* Division, and the elements of a tensor by their coordinates.            *)

LEMMA DivMod ==
  ASSUME NEW a \in Nat, NEW m \in Nat \ {0}
  PROVE  /\ a \div m \in Nat /\ a % m \in 0 .. m - 1
         /\ a = m * (a \div m) + (a % m)
OBVIOUS

\* A product of positive numbers grows with its factors.
LEMMA Grows ==
  ASSUME NEW m \in Nat, NEW a \in Nat, NEW b \in Nat, a <= b
  PROVE  m * a \in Nat /\ m * a <= m * b
OBVIOUS

LEMMA DivUnique ==
  ASSUME NEW m \in Nat \ {0}, NEW q \in Nat, NEW s \in 0 .. m - 1
  PROVE  /\ m * q + s \in Nat /\ (m * q + s) \div m = q /\ (m * q + s) % m = s
<1> DEFINE a == m * q + s
<1>1. a \in Nat /\ m * q \in Nat
  OBVIOUS
<1>2. a \div m \in Nat /\ a % m \in 0 .. m - 1 /\ a = m * (a \div m) + (a % m)
  BY <1>1, DivMod
<1> DEFINE p == a \div m
           r == a % m
<1>3. p \in Nat /\ r \in 0 .. m - 1 /\ m * q + s = m * p + r
  BY <1>2
<1> HIDE DEF p, r
<1>4. CASE p < q
  <2>1. m * (p + 1) <= m * q
    BY <1>3, <1>4, Grows
  <2>2. m * (p + 1) = m * p + m
    BY <1>3
  <2> QED
    BY <1>1, <1>3, <2>1, <2>2
<1>5. CASE q < p
  <2>1. m * (q + 1) <= m * p
    BY <1>3, <1>5, Grows
  <2>2. m * (q + 1) = m * q + m
    BY <1>3
  <2> QED
    BY <1>1, <1>3, <2>1, <2>2
<1>6. p = q
  BY <1>3, <1>4, <1>5
<1>7. r = s
  BY <1>1, <1>3, <1>6
<1> QED
  BY <1>1, <1>6, <1>7 DEF p, r

LEMMA DivDiv ==
  ASSUME NEW a \in Nat, NEW m \in Nat \ {0}, NEW n \in Nat \ {0}
  PROVE  m * n \in Nat \ {0} /\ a \div (m * n) = (a \div m) \div n
<1> DEFINE q == a \div m
           s == a % m
           p == q \div n
           t == q % n
<1>1. q \in Nat /\ s \in 0 .. m - 1 /\ a = m * q + s
  BY DivMod
<1>2. p \in Nat /\ t \in 0 .. n - 1 /\ q = n * p + t
  BY <1>1, DivMod
<1> HIDE DEF q, s, p, t
<1>3. m * n \in Nat \ {0}
  OBVIOUS
<1>4. a = (m * n) * p + (m * t + s)
  <2>1. m * (n * p + t) = (m * n) * p + m * t
    BY <1>2
  <2> QED
    BY <1>1, <1>2, <2>1
<1>5. m * t + s \in 0 .. (m * n) - 1
  <2>1. m * t <= m * (n - 1)
    BY <1>2, Grows
  <2>2. m * (n - 1) = m * n - m
    OBVIOUS
  <2>3. m * t \in Nat
    BY <1>2
  <2> QED
    BY <1>1, <1>3, <2>1, <2>2, <2>3
<1>6. a \div (m * n) = p
  <2> DEFINE mn == m * n
             u == m * t + s
  <2>1. mn \in Nat \ {0} /\ u \in 0 .. mn - 1 /\ a = mn * p + u
    BY <1>3, <1>4, <1>5
  <2> HIDE DEF mn, u
  <2>2. a \div mn = p
    BY <1>2, <2>1, DivUnique
  <2> QED
    BY <2>2 DEF mn
<1> QED
  BY <1>3, <1>6 DEF p, q

\* Shapes, the coordinates inside one, and the number of its elements.
Shape(d) == \A k \in 1 .. 5 : d[k] \in Nat \ {0}
Inside(d, x) == \A k \in 1 .. 5 : x[k] \in 0 .. d[k] - 1
Volume(d) == d[1] * d[2] * d[3] * d[4] * d[5]

\* A digit and what is below it stay below the next stride.
LEMMA Carry ==
  ASSUME NEW m \in Nat \ {0}, NEW n \in Nat \ {0}, NEW x \in 0 .. n - 1, NEW s \in 0 .. m - 1
  PROVE  m * x \in Nat /\ m * x + s \in 0 .. (m * n) - 1
<1>1. m * x <= m * (n - 1)
  BY Grows
<1>2. m * (n - 1) = m * n - m
  OBVIOUS
<1>3. m * x \in Nat /\ m * n \in Nat
  OBVIOUS
<1> QED
  BY <1>1, <1>2, <1>3

\* The strides, each the product of the next dimension and its stride.
LEMMA StridesAre ==
  ASSUME NEW d, Shape(d)
  PROVE  LET s == Strides(d)
         IN /\ \A k \in 1 .. 5 : s[k] \in Nat \ {0}
            /\ s[5] = 1 /\ s[4] = d[5] /\ s[3] = s[4] * d[4] /\ s[2] = s[3] * d[3]
            /\ s[1] = s[2] * d[2] /\ Volume(d) = s[1] * d[1]
<1> DEFINE s == Strides(d)
<1>1. /\ d[1] \in Nat \ {0} /\ d[2] \in Nat \ {0} /\ d[3] \in Nat \ {0}
      /\ d[4] \in Nat \ {0} /\ d[5] \in Nat \ {0}
  BY DEF Shape
<1>2. /\ s[1] = d[2] * d[3] * d[4] * d[5] /\ s[2] = d[3] * d[4] * d[5]
      /\ s[3] = d[4] * d[5] /\ s[4] = d[5] /\ s[5] = 1
  BY DEF Strides
<1>3. \A a, b \in Nat \ {0} : a * b \in Nat \ {0} /\ a * b = b * a
  OBVIOUS
<1>4. \A a, b, c \in Nat \ {0} : (a * b) * c = a * (b * c)
  OBVIOUS
<1> HIDE DEF s
<1>5. s[4] \in Nat \ {0} /\ s[3] \in Nat \ {0} /\ s[3] = s[4] * d[4]
  BY <1>1, <1>2, <1>3
<1>6. s[2] \in Nat \ {0} /\ s[2] = s[3] * d[3]
  BY <1>1, <1>2, <1>3, <1>4, <1>5
<1>7. s[1] \in Nat \ {0} /\ s[1] = s[2] * d[2]
  <2>1. (d[2] * d[3] * d[4]) * d[5] = d[2] * (d[3] * d[4] * d[5])
    BY <1>1, <1>3, <1>4
  <2> QED
    BY <1>1, <1>2, <1>3, <1>6, <2>1
<1>8. Volume(d) = s[1] * d[1]
  <2>1. d[1] * d[2] * d[3] * d[4] * d[5] = d[1] * (d[2] * d[3] * d[4] * d[5])
    <3>1. d[2] * d[3] \in Nat \ {0} /\ d[2] * d[3] * d[4] \in Nat \ {0}
      BY <1>1, <1>3
    <3>2. d[1] * d[2] * d[3] = d[1] * (d[2] * d[3])
      BY <1>1, <1>4
    <3>3. d[1] * d[2] * d[3] * d[4] = d[1] * (d[2] * d[3] * d[4])
      BY <1>1, <1>4, <3>1, <3>2
    <3> QED
      BY <1>1, <1>4, <3>1, <3>3
  <2> QED
    BY <1>1, <1>2, <1>3, <1>7, <2>1 DEF Volume
<1>9. \A k \in 1 .. 5 : k = 1 \/ k = 2 \/ k = 3 \/ k = 4 \/ k = 5
  OBVIOUS
<1>10. \A k \in 1 .. 5 : s[k] \in Nat \ {0}
  BY <1>2, <1>5, <1>6, <1>7, <1>9
<1> QED
  BY <1>2, <1>5, <1>6, <1>7, <1>8, <1>10 DEF s

\* The element at coordinates x counts whole strides of a dimension, and what is
\* below the stride.
High(d, x, m) ==
  CASE m = 1 -> x[1]
    [] m = 2 -> d[2] * x[1] + x[2]
    [] m = 3 -> d[3] * (d[2] * x[1] + x[2]) + x[3]
    [] m = 4 -> d[4] * (d[3] * (d[2] * x[1] + x[2]) + x[3]) + x[4]
Low(d, x, m) ==
  LET s == Strides(d)
  IN CASE m = 1 -> s[2] * x[2] + (s[3] * x[3] + (s[4] * x[4] + x[5]))
       [] m = 2 -> s[3] * x[3] + (s[4] * x[4] + x[5])
       [] m = 3 -> s[4] * x[4] + x[5]
       [] m = 4 -> x[5]
Parts(d, x, m) ==
  /\ High(d, x, m) \in Nat /\ Low(d, x, m) \in 0 .. Strides(d)[m] - 1
  /\ At(d, x) = Strides(d)[m] * High(d, x, m) + Low(d, x, m)

LEMMA PartsAre ==
  ASSUME NEW d, Shape(d), NEW x, Inside(d, x)
  PROVE  Parts(d, x, 1) /\ Parts(d, x, 2) /\ Parts(d, x, 3) /\ Parts(d, x, 4)
<1> DEFINE s == Strides(d)
           a == At(d, x)
           r4 == x[5]
           r3 == s[4] * x[4] + r4
           r2 == s[3] * x[3] + r3
           r1 == s[2] * x[2] + r2
           h2 == d[2] * x[1] + x[2]
           h3 == d[3] * h2 + x[3]
           h4 == d[4] * h3 + x[4]
<1>1. /\ d[1] \in Nat \ {0} /\ d[2] \in Nat \ {0} /\ d[3] \in Nat \ {0}
      /\ d[4] \in Nat \ {0} /\ d[5] \in Nat \ {0}
      /\ x[1] \in 0 .. d[1] - 1 /\ x[2] \in 0 .. d[2] - 1 /\ x[3] \in 0 .. d[3] - 1
      /\ x[4] \in 0 .. d[4] - 1 /\ x[5] \in 0 .. d[5] - 1
  BY DEF Shape, Inside
<1>2. /\ s[1] \in Nat \ {0} /\ s[2] \in Nat \ {0} /\ s[3] \in Nat \ {0}
      /\ s[4] \in Nat \ {0} /\ s[5] = 1 /\ s[4] = d[5] /\ s[3] = s[4] * d[4]
      /\ s[2] = s[3] * d[3] /\ s[1] = s[2] * d[2] /\ Volume(d) = s[1] * d[1]
  BY StridesAre
<1>3. a = s[1] * x[1] + s[2] * x[2] + s[3] * x[3] + s[4] * x[4] + x[5]
  <2>1. a = x[1] * s[1] + x[2] * s[2] + x[3] * s[3] + x[4] * s[4] + x[5] * s[5]
    BY DEF At
  <2> HIDE DEF a, s
  <2>2. \A m, n \in Nat : m * n = n * m
    OBVIOUS
  <2> QED
    BY <1>1, <1>2, <2>1, <2>2
<1> HIDE DEF s
<1>4. /\ r4 \in 0 .. s[4] - 1 /\ r3 \in 0 .. s[3] - 1
      /\ r2 \in 0 .. s[2] - 1 /\ r1 \in 0 .. s[1] - 1
  <2>1. r4 \in 0 .. s[4] - 1
    BY <1>1, <1>2
  <2>2. r3 \in 0 .. s[3] - 1
    <3> HIDE DEF r4
    <3> QED
      BY <1>1, <1>2, <2>1, Carry
  <2>3. r2 \in 0 .. s[2] - 1
    <3> HIDE DEF r3
    <3> QED
      BY <1>1, <1>2, <2>2, Carry
  <2>4. r1 \in 0 .. s[1] - 1
    <3> HIDE DEF r2
    <3> QED
      BY <1>1, <1>2, <2>3, Carry
  <2> QED
    BY <2>1, <2>2, <2>3, <2>4
<1>5. h2 \in Nat /\ h3 \in Nat /\ h4 \in Nat
  <2>1. h2 \in Nat
    BY <1>1
  <2>2. h3 \in Nat
    <3> HIDE DEF h2
    <3> QED
      BY <1>1, <2>1
  <2>3. h4 \in Nat
    <3> HIDE DEF h3
    <3> QED
      BY <1>1, <2>2
  <2> QED
    BY <2>1, <2>2, <2>3
<1>6. ASSUME NEW t \in Nat, NEW n \in Nat, NEW h \in Nat, NEW y \in Nat
      PROVE  (t * n) * h + t * y = t * (n * h + y)
  OBVIOUS
<1>7. a = s[1] * x[1] + r1
  BY <1>1, <1>2, <1>3
<1>8. a = s[2] * h2 + r2
  <2>1. s[1] * x[1] + s[2] * x[2] = s[2] * h2
    BY <1>1, <1>2, <1>6
  <2> HIDE DEF h2, r2, a
  <2>2. a = s[1] * x[1] + (s[2] * x[2] + r2)
    BY <1>7
  <2> QED
    BY <1>1, <1>2, <1>4, <1>5, <2>1, <2>2
<1>9. a = s[3] * h3 + r3
  <2>1. s[2] * h2 + s[3] * x[3] = s[3] * h3
    <3> HIDE DEF h2
    <3> QED
      BY <1>1, <1>2, <1>5, <1>6
  <2> HIDE DEF h2, h3, r3, a
  <2>2. a = s[2] * h2 + (s[3] * x[3] + r3)
    BY <1>8
  <2> QED
    BY <1>1, <1>2, <1>4, <1>5, <2>1, <2>2
<1>10. a = s[4] * h4 + r4
  <2>1. s[3] * h3 + s[4] * x[4] = s[4] * h4
    <3> HIDE DEF h3
    <3> QED
      BY <1>1, <1>2, <1>5, <1>6
  <2> HIDE DEF h3, h4, r4, a
  <2>2. a = s[3] * h3 + (s[4] * x[4] + r4)
    BY <1>9
  <2> QED
    BY <1>1, <1>2, <1>4, <1>5, <2>1, <2>2
<1>11. x[1] \in Nat
  BY <1>1
<1>12. High(d, x, 1) = x[1] /\ Low(d, x, 1) = r1
  <2>1. High(d, x, 1) = x[1]
    BY DEF High
  <2>2. Low(d, x, 1) = r1
    BY DEF Low, s
  <2> QED
    BY <2>1, <2>2
<1>13. High(d, x, 2) = h2 /\ Low(d, x, 2) = r2
  <2>1. High(d, x, 2) = h2
    BY DEF High
  <2>2. Low(d, x, 2) = r2
    BY DEF Low, s
  <2> QED
    BY <2>1, <2>2
<1>14. High(d, x, 3) = h3 /\ Low(d, x, 3) = r3
  <2>1. High(d, x, 3) = h3
    BY DEF High
  <2>2. Low(d, x, 3) = r3
    BY DEF Low, s
  <2> QED
    BY <2>1, <2>2
<1>15. High(d, x, 4) = h4 /\ Low(d, x, 4) = r4
  <2>1. High(d, x, 4) = h4
    BY DEF High
  <2>2. Low(d, x, 4) = r4
    BY DEF Low, s
  <2> QED
    BY <2>1, <2>2
<1> HIDE DEF a, r1, r2, r3, r4, h2, h3, h4
<1>16. Parts(d, x, 1)
  BY <1>4, <1>7, <1>11, <1>12 DEF Parts, a, s
<1>17. Parts(d, x, 2)
  BY <1>4, <1>5, <1>8, <1>13 DEF Parts, a, s
<1>18. Parts(d, x, 3)
  BY <1>4, <1>5, <1>9, <1>14 DEF Parts, a, s
<1>19. Parts(d, x, 4)
  BY <1>4, <1>5, <1>10, <1>15 DEF Parts, a, s
<1> QED
  BY <1>16, <1>17, <1>18, <1>19

\* The element at some coordinates has these coordinates.
LEMMA CoordsOfAt ==
  ASSUME NEW d, Shape(d), NEW x, Inside(d, x)
  PROVE  /\ At(d, x) \in 0 .. Volume(d) - 1
         /\ \A k \in 1 .. 5 : Coords(d, At(d, x))[k] = x[k]
<1> DEFINE s == Strides(d)
<1>1. /\ d[1] \in Nat \ {0} /\ d[2] \in Nat \ {0} /\ d[3] \in Nat \ {0}
      /\ d[4] \in Nat \ {0} /\ d[5] \in Nat \ {0}
      /\ x[1] \in 0 .. d[1] - 1 /\ x[2] \in 0 .. d[2] - 1 /\ x[3] \in 0 .. d[3] - 1
      /\ x[4] \in 0 .. d[4] - 1 /\ x[5] \in 0 .. d[5] - 1
  BY DEF Shape, Inside
<1>2. /\ s[1] \in Nat \ {0} /\ s[2] \in Nat \ {0} /\ s[3] \in Nat \ {0}
      /\ s[4] \in Nat \ {0} /\ s[5] = 1 /\ s[4] = d[5] /\ Volume(d) = s[1] * d[1]
  BY StridesAre
<1>3. PICK a : a = At(d, x)
  OBVIOUS
<1>4. PICK h2, h3, h4 : h2 = High(d, x, 2) /\ h3 = High(d, x, 3) /\ h4 = High(d, x, 4)
  OBVIOUS
<1>5. h2 = d[2] * x[1] + x[2] /\ h3 = d[3] * h2 + x[3] /\ h4 = d[4] * h3 + x[4]
  BY <1>4 DEF High
<1>6. PICK r1, r2, r3, r4 : r1 = Low(d, x, 1) /\ r2 = Low(d, x, 2) /\ r3 = Low(d, x, 3)
        /\ r4 = Low(d, x, 4)
  OBVIOUS
<1>7. /\ h2 \in Nat /\ h3 \in Nat /\ h4 \in Nat
      /\ r1 \in 0 .. s[1] - 1 /\ a = s[1] * x[1] + r1
      /\ r2 \in 0 .. s[2] - 1 /\ a = s[2] * h2 + r2
      /\ r3 \in 0 .. s[3] - 1 /\ a = s[3] * h3 + r3
      /\ r4 \in 0 .. s[4] - 1 /\ a = s[4] * h4 + r4 /\ r4 = x[5]
  <2>1. High(d, x, 1) = x[1] /\ Low(d, x, 4) = x[5]
    BY DEF High, Low
  <2> QED
    BY <1>3, <1>4, <1>6, <2>1, PartsAre DEF Parts
<1> HIDE DEF s
<1>8. a \in 0 .. Volume(d) - 1
  BY <1>1, <1>2, <1>7, Carry
<1>9. a \div s[1] = x[1] /\ x[1] % d[1] = x[1]
  <2>1. x[1] \in Nat /\ x[1] % d[1] = x[1]
    BY <1>1
  <2>2. (s[1] * x[1] + r1) \div s[1] = x[1]
    <3>1. PICK y \in Nat : y = x[1]
      BY <2>1
    <3>2. (s[1] * y + r1) \div s[1] = y
      BY <1>2, <1>7, DivUnique
    <3> QED
      BY <3>1, <3>2
  <2> QED
    BY <1>7, <2>1, <2>2
<1>10. a \div s[2] = h2 /\ h2 % d[2] = x[2]
  <2>1. x[1] \in Nat
    BY <1>1, <1>7
  <2>2. (d[2] * x[1] + x[2]) % d[2] = x[2]
    BY <1>1, <2>1, DivUnique
  <2>3. (s[2] * h2 + r2) \div s[2] = h2
    BY <1>2, <1>7, DivUnique
  <2> QED
    BY <1>5, <1>7, <2>2, <2>3
<1>11. a \div s[3] = h3 /\ h3 % d[3] = x[3]
  <2>1. h2 \in Nat
    BY <1>1, <1>7
  <2>2. (d[3] * h2 + x[3]) % d[3] = x[3]
    BY <1>1, <2>1, DivUnique
  <2>3. (s[3] * h3 + r3) \div s[3] = h3
    BY <1>2, <1>7, DivUnique
  <2> QED
    BY <1>5, <1>7, <2>2, <2>3
<1>12. a \div s[4] = h4 /\ h4 % d[4] = x[4]
  <2>1. h3 \in Nat
    BY <1>1, <1>7
  <2>2. (d[4] * h3 + x[4]) % d[4] = x[4]
    BY <1>1, <2>1, DivUnique
  <2>3. (s[4] * h4 + r4) \div s[4] = h4
    BY <1>2, <1>7, DivUnique
  <2> QED
    BY <1>5, <1>7, <2>2, <2>3
<1>13. a \div s[5] = a /\ a % d[5] = x[5]
  <2>1. (d[5] * h4 + x[5]) % d[5] = x[5] /\ a = d[5] * h4 + x[5] /\ a \in Nat
    <3>1. (d[5] * h4 + x[5]) % d[5] = x[5] /\ d[5] * h4 + x[5] \in Nat
      BY <1>1, <1>7, DivUnique
    <3> QED
      BY <1>2, <1>7, <3>1
  <2>2. a \div 1 = a
    BY <2>1
  <2> QED
    BY <1>2, <2>1, <2>2
<1>14. \A k \in 1 .. 5 : Coords(d, a)[k] = (a \div s[k]) % d[k]
  BY DEF Coords, s
<1>15. \A k \in 1 .. 5 : k = 1 \/ k = 2 \/ k = 3 \/ k = 4 \/ k = 5
  OBVIOUS
<1>16. \A k \in 1 .. 5 : Coords(d, a)[k] = x[k]
  BY <1>9, <1>10, <1>11, <1>12, <1>13, <1>14, <1>15
<1> QED
  BY <1>3, <1>8, <1>16

\* Every element is the one at its coordinates.
LEMMA AtOfCoords ==
  ASSUME NEW d, Shape(d), NEW i \in 0 .. Volume(d) - 1
  PROVE  Inside(d, Coords(d, i)) /\ At(d, Coords(d, i)) = i
<1> DEFINE s == Strides(d)
           x == Coords(d, i)
           g1 == i \div s[1]
           g2 == i \div s[2]
           g3 == i \div s[3]
           g4 == i \div s[4]
<1>1. /\ d[1] \in Nat \ {0} /\ d[2] \in Nat \ {0} /\ d[3] \in Nat \ {0}
      /\ d[4] \in Nat \ {0} /\ d[5] \in Nat \ {0}
  BY DEF Shape
<1>2. /\ s[1] \in Nat \ {0} /\ s[2] \in Nat \ {0} /\ s[3] \in Nat \ {0}
      /\ s[4] \in Nat \ {0} /\ s[5] = 1 /\ s[4] = d[5] /\ s[3] = s[4] * d[4]
      /\ s[2] = s[3] * d[3] /\ s[1] = s[2] * d[2] /\ Volume(d) = s[1] * d[1]
  BY StridesAre
<1>3. i \in Nat /\ i < Volume(d) /\ i \div s[5] = i
  <2>1. Volume(d) \in Nat
    BY <1>1, <1>2
  <2>2. i \in Nat /\ i < Volume(d)
    BY <2>1
  <2>3. i \div 1 = i
    BY <2>2
  <2> QED
    BY <1>2, <2>2, <2>3
<1>4. /\ x[1] = g1 % d[1] /\ x[2] = g2 % d[2] /\ x[3] = g3 % d[3]
      /\ x[4] = g4 % d[4] /\ x[5] = i % d[5]
  BY <1>3 DEF Coords
<1>5. At(d, x) = x[1] * s[1] + x[2] * s[2] + x[3] * s[3] + x[4] * s[4] + x[5] * s[5]
  BY DEF At
<1> HIDE DEF s, x
<1>6. g1 \in Nat /\ g2 \in Nat /\ g3 \in Nat /\ g4 \in Nat
  BY <1>2, <1>3, DivMod
<1>7. g3 = g4 \div d[4] /\ g2 = g3 \div d[3] /\ g1 = g2 \div d[2]
  <2>1. \A m, n \in Nat \ {0} : i \div (m * n) = (i \div m) \div n
    BY <1>3, DivDiv
  <2>2. g3 = g4 \div d[4]
    BY <1>1, <1>2, <2>1, Zenon
  <2>3. g2 = g3 \div d[3]
    <3>1. i \div (s[3] * d[3]) = (i \div s[3]) \div d[3]
      BY <1>1, <1>2, <2>1
    <3> QED
      BY <1>2, <3>1
  <2>4. g1 = g2 \div d[2]
    <3>1. i \div (s[2] * d[2]) = (i \div s[2]) \div d[2]
      BY <1>1, <1>2, <2>1
    <3> QED
      BY <1>2, <3>1
  <2> QED
    BY <2>2, <2>3, <2>4
<1>8. g1 < d[1]
  <2>1. i = s[1] * g1 + (i % s[1]) /\ i % s[1] \in 0 .. s[1] - 1
    BY <1>2, <1>3, DivMod
  <2>2. CASE d[1] <= g1
    <3> HIDE DEF g1
    <3>1. s[1] * d[1] <= s[1] * g1 /\ s[1] * d[1] \in Nat
      BY <1>1, <1>2, <1>6, <2>2, Grows
    <3>2. s[1] * g1 \in Nat
      BY <1>2, <1>6
    <3> QED
      BY <1>2, <1>3, <2>1, <3>1, <3>2
  <2> HIDE DEF g1
  <2> QED
    BY <1>1, <1>6, <2>2
<1>9. g4 = i \div d[5]
  BY <1>2
<1> HIDE DEF g1, g2, g3, g4
<1>10. /\ x[1] = g1
       /\ x[2] \in 0 .. d[2] - 1 /\ g2 = d[2] * g1 + x[2]
       /\ x[3] \in 0 .. d[3] - 1 /\ g3 = d[3] * g2 + x[3]
       /\ x[4] \in 0 .. d[4] - 1 /\ g4 = d[4] * g3 + x[4]
       /\ x[5] \in 0 .. d[5] - 1 /\ i = d[5] * g4 + x[5]
  <2>1. x[1] = g1
    BY <1>1, <1>4, <1>6, <1>8
  <2>2. x[2] \in 0 .. d[2] - 1 /\ g2 = d[2] * g1 + x[2]
    <3>1. /\ g2 % d[2] \in 0 .. d[2] - 1
          /\ g2 = d[2] * (g2 \div d[2]) + (g2 % d[2])
      BY <1>1, <1>6, DivMod
    <3> QED
      BY <1>4, <1>7, <3>1
  <2>3. x[3] \in 0 .. d[3] - 1 /\ g3 = d[3] * g2 + x[3]
    <3>1. /\ g3 % d[3] \in 0 .. d[3] - 1
          /\ g3 = d[3] * (g3 \div d[3]) + (g3 % d[3])
      BY <1>1, <1>6, DivMod
    <3> QED
      BY <1>4, <1>7, <3>1
  <2>4. x[4] \in 0 .. d[4] - 1 /\ g4 = d[4] * g3 + x[4]
    <3>1. /\ g4 % d[4] \in 0 .. d[4] - 1
          /\ g4 = d[4] * (g4 \div d[4]) + (g4 % d[4])
      BY <1>1, <1>6, DivMod
    <3> QED
      BY <1>4, <1>7, <3>1
  <2>5. x[5] \in 0 .. d[5] - 1 /\ i = d[5] * g4 + x[5]
    BY <1>1, <1>3, <1>4, <1>9, DivMod
  <2> QED
    BY <2>1, <2>2, <2>3, <2>4, <2>5
<1>11. Inside(d, x)
  <2>1. \A k \in 1 .. 5 : k = 1 \/ k = 2 \/ k = 3 \/ k = 4 \/ k = 5
    OBVIOUS
  <2>2. x[1] \in 0 .. d[1] - 1
    BY <1>1, <1>6, <1>8, <1>10
  <2> QED
    BY <1>10, <2>1, <2>2 DEF Inside
<1>12. ASSUME NEW t \in Nat, NEW n \in Nat, NEW h \in Nat, NEW y \in Nat
       PROVE  h * (t * n) + y * t = (n * h + y) * t
  OBVIOUS
<1>13. /\ x[1] \in Nat /\ x[2] \in Nat /\ x[3] \in Nat /\ x[4] \in Nat /\ x[5] \in Nat
  BY <1>1, <1>6, <1>10
<1>14. x[1] * s[1] + x[2] * s[2] = g2 * s[2]
  BY <1>1, <1>2, <1>6, <1>10, <1>12, <1>13
<1>15. g2 * s[2] + x[3] * s[3] = g3 * s[3]
  BY <1>1, <1>2, <1>6, <1>10, <1>12, <1>13
<1>16. g3 * s[3] + x[4] * s[4] = g4 * s[4]
  BY <1>1, <1>2, <1>6, <1>10, <1>12, <1>13
<1>17. g4 * s[4] + x[5] * s[5] = i
  BY <1>1, <1>2, <1>6, <1>10, <1>13
<1>18. At(d, x) = i
  BY <1>5, <1>14, <1>15, <1>16, <1>17
<1> QED
  BY <1>11, <1>18 DEF x

\* Two elements with the same coordinates are the same.
LEMMA SameCoords ==
  ASSUME NEW d, NEW x, NEW y, \A k \in 1 .. 5 : x[k] = y[k]
  PROVE  At(d, x) = At(d, y)
BY DEF At

\* The transpositions that the code makes.
Swaps == {<<5, 5>>, <<4, 5>>, <<3, 5>>, <<2, 5>>, <<2, 3>>}

LEMMA SwappedShape ==
  ASSUME NEW ab \in Swaps, NEW d, Shape(d)
  PROVE  LET e == Swapped(d, ab[1], ab[2])
         IN /\ Shape(e) /\ Volume(e) = Volume(d)
            /\ \A x : Inside(e, x) => Inside(d, Swapped(x, ab[1], ab[2]))
            /\ \A x : Inside(d, x) => Inside(e, Swapped(x, ab[1], ab[2]))
            /\ \A x : \A k \in 1 .. 5 :
                 Swapped(Swapped(x, ab[1], ab[2]), ab[1], ab[2])[k] = x[k]
<1> DEFINE a == ab[1]
           b == ab[2]
           e == Swapped(d, a, b)
<1>1. a \in 1 .. 5 /\ b \in 1 .. 5
  BY DEF Swaps
<1>2. \A x : \A k \in 1 .. 5 :
        Swapped(x, a, b)[k] = IF k = a THEN x[b] ELSE IF k = b THEN x[a] ELSE x[k]
  BY DEF Swapped
<1>3. Shape(e)
  BY <1>1, <1>2 DEF Shape
<1>4. \A x : Inside(e, x) => Inside(d, Swapped(x, a, b))
  BY <1>1, <1>2 DEF Inside
<1>5. \A x : Inside(d, x) => Inside(e, Swapped(x, a, b))
  BY <1>1, <1>2 DEF Inside
<1>6. \A x : \A k \in 1 .. 5 : Swapped(Swapped(x, a, b), a, b)[k] = x[k]
  BY <1>1, <1>2
<1>7. Volume(e) = Volume(d)
  <2>1. /\ d[1] \in Nat /\ d[2] \in Nat /\ d[3] \in Nat /\ d[4] \in Nat /\ d[5] \in Nat
    BY DEF Shape
  <2>2. /\ 1 \in 1 .. 5 /\ 2 \in 1 .. 5 /\ 3 \in 1 .. 5 /\ 4 \in 1 .. 5 /\ 5 \in 1 .. 5
    OBVIOUS
  <2>3. \A m, n \in Nat : m * n = n * m /\ m * n \in Nat
    OBVIOUS
  <2>4. \A l, m, n \in Nat : (l * m) * n = l * (m * n)
    OBVIOUS
  <2>5. CASE a = 5 /\ b = 5
    BY <1>2, <2>2, <2>5 DEF Volume
  <2>6. CASE a = 4 /\ b = 5
    <3>1. /\ e[1] = d[1] /\ e[2] = d[2] /\ e[3] = d[3] /\ e[4] = d[5] /\ e[5] = d[4]
      BY <1>2, <2>2, <2>6
    <3> HIDE DEF e
    <3> QED
      BY <2>1, <3>1 DEF Volume
  <2>7. CASE a = 3 /\ b = 5
    <3>1. /\ e[1] = d[1] /\ e[2] = d[2] /\ e[3] = d[5] /\ e[4] = d[4] /\ e[5] = d[3]
      BY <1>2, <2>2, <2>7
    <3> HIDE DEF e
    <3> QED
      BY <2>1, <3>1 DEF Volume
  <2>8. CASE a = 2 /\ b = 5
    <3>1. /\ e[1] = d[1] /\ e[2] = d[5] /\ e[3] = d[3] /\ e[4] = d[4] /\ e[5] = d[2]
      BY <1>2, <2>2, <2>8
    <3> HIDE DEF e
    <3> QED
      BY <2>1, <3>1 DEF Volume
  <2>9. CASE a = 2 /\ b = 3
    <3>1. /\ e[1] = d[1] /\ e[2] = d[3] /\ e[3] = d[2] /\ e[4] = d[4] /\ e[5] = d[5]
      BY <1>2, <2>2, <2>9
    <3> HIDE DEF e
    <3> QED
      BY <2>1, <3>1 DEF Volume
  <2> QED
    BY <2>5, <2>6, <2>7, <2>8, <2>9 DEF Swaps
<1> QED
  BY <1>3, <1>4, <1>5, <1>6, <1>7

\* A transposed tensor holds every rank, each at the place with its coordinates
\* swapped.
LEMMA TransposedHas ==
  ASSUME NEW ab \in Swaps, NEW d, Shape(d), Volume(d) = WorldSize
  PROVE  LET e == Swapped(d, ab[1], ab[2])
             flat == Transposed(d, ab[1], ab[2])
         IN /\ \A i \in 1 .. WorldSize :
                 /\ flat[i] \in World /\ Inside(e, Coords(e, i - 1))
                 /\ \A k \in 1 .. 5 :
                      Coords(d, flat[i])[k] = Swapped(Coords(e, i - 1), ab[1], ab[2])[k]
            /\ \A r \in World : \E i \in 1 .. WorldSize : flat[i] = r
<1> DEFINE a == ab[1]
           b == ab[2]
           e == Swapped(d, a, b)
           flat == Transposed(d, a, b)
<1>0. WorldSize \in Nat /\ \A i \in 1 .. WorldSize : i - 1 \in 0 .. WorldSize - 1
  BY LayoutAssumption
<1>1. /\ Shape(e) /\ Volume(e) = WorldSize
      /\ \A x : Inside(e, x) => Inside(d, Swapped(x, a, b))
      /\ \A x : Inside(d, x) => Inside(e, Swapped(x, a, b))
      /\ \A x : \A k \in 1 .. 5 : Swapped(Swapped(x, a, b), a, b)[k] = x[k]
  BY SwappedShape
<1>2. \A i \in 1 .. WorldSize : flat[i] = At(d, Swapped(Coords(e, i - 1), a, b))
  BY DEF Transposed
<1> HIDE DEF e, flat
<1>3. ASSUME NEW i \in 1 .. WorldSize
      PROVE  /\ flat[i] \in World /\ Inside(e, Coords(e, i - 1))
             /\ \A k \in 1 .. 5 :
                  Coords(d, flat[i])[k] = Swapped(Coords(e, i - 1), a, b)[k]
  <2>1. Inside(e, Coords(e, i - 1))
    BY <1>0, <1>1, AtOfCoords
  <2>2. Inside(d, Swapped(Coords(e, i - 1), a, b))
    BY <1>1, <2>1
  <2> QED
    BY <1>2, <2>1, <2>2, CoordsOfAt DEF World
<1>4. ASSUME NEW r \in World PROVE \E i \in 1 .. WorldSize : flat[i] = r
  <2> DEFINE x == Coords(d, r)
             j == At(e, Swapped(x, a, b))
  <2>1. Inside(d, x) /\ At(d, x) = r
    BY AtOfCoords DEF World
  <2>2. Inside(e, Swapped(x, a, b))
    BY <1>1, <2>1
  <2>3. /\ j \in 0 .. WorldSize - 1
        /\ \A k \in 1 .. 5 : Coords(e, j)[k] = Swapped(x, a, b)[k]
    BY <1>1, <2>2, CoordsOfAt
  <2>4. \A k \in 1 .. 5 : Swapped(Coords(e, j), a, b)[k] = x[k]
    <3>1. \A k \in 1 .. 5 :
            Swapped(Coords(e, j), a, b)[k] = Swapped(Swapped(x, a, b), a, b)[k]
      <4>1. a \in 1 .. 5 /\ b \in 1 .. 5
        BY DEF Swaps
      <4> HIDE DEF x, j, a, b
      <4>2. \A y : \A k \in 1 .. 5 :
              Swapped(y, a, b)[k] = IF k = a THEN y[b] ELSE IF k = b THEN y[a] ELSE y[k]
        BY DEF Swapped
      <4> QED
        BY <2>3, <4>1, <4>2
    <3> QED
      BY <1>1, <3>1
  <2> HIDE DEF x, j
  <2>5. At(d, Swapped(Coords(e, j), a, b)) = At(d, x)
    BY <2>4, SameCoords
  <2>6. j + 1 \in 1 .. WorldSize /\ (j + 1) - 1 = j
    BY <1>0, <2>3
  <2> QED
    BY <1>2, <2>1, <2>5, <2>6
<1> QED
  BY <1>3, <1>4 DEF e, flat

-----------------------------------------------------------------------------
(* The groups of a layout.                                                 *)

\* The transposition that groups of a kind are cut from, and their size.
Swap(l, n) ==
  CASE n = "tp" -> <<5, 5>>
    [] n = "dcp" -> IF l.dcp > 1 THEN <<4, 5>> ELSE <<5, 5>>
    [] n = "pcp" -> <<4, 5>>
    [] n = "pp" -> <<3, 5>>
    [] n = "dp" -> <<2, 5>>
    [] n \in {"ep", "eplb"} -> <<2, 3>>

Size(l, n) ==
  CASE n = "tp" -> l.tp [] n = "dcp" -> l.dcp [] n = "pcp" -> l.pcp
    [] n = "pp" -> l.pp [] n = "dp" -> l.dp
    [] n \in {"ep", "eplb"} -> l.dp * l.pcp * l.tp

Flat(l, n) == Transposed(Dims(l), Swap(l, n)[1], Swap(l, n)[2])

\* The dimensions of a layout are positive, and multiply to the world.
LEMMA DimsAre ==
  ASSUME NEW l \in Layouts
  PROVE  /\ l.ext \in Nat \ {0} /\ l.dp \in Nat \ {0} /\ l.pp \in Nat \ {0}
         /\ l.pcp \in Nat \ {0} /\ l.tp \in Nat \ {0} /\ l.dcp \in Nat \ {0}
         /\ Dims(l)[1] = l.ext /\ Dims(l)[2] = l.dp /\ Dims(l)[3] = l.pp
         /\ Dims(l)[4] = l.pcp /\ Dims(l)[5] = l.tp
         /\ Shape(Dims(l)) /\ Volume(Dims(l)) = WorldSize
<1>1. /\ l.ext \in Nat \ {0} /\ l.dp \in Nat \ {0} /\ l.pp \in Nat \ {0}
      /\ l.pcp \in Nat \ {0} /\ l.tp \in Nat \ {0} /\ l.dcp \in Nat \ {0}
      /\ l.ext * l.dp * l.pp * l.pcp * l.tp = WorldSize
  BY LayoutAssumption
<1>2. /\ Dims(l)[1] = l.ext /\ Dims(l)[2] = l.dp /\ Dims(l)[3] = l.pp
      /\ Dims(l)[4] = l.pcp /\ Dims(l)[5] = l.tp
  BY DEF Dims
<1>3. \A k \in 1 .. 5 : k = 1 \/ k = 2 \/ k = 3 \/ k = 4 \/ k = 5
  OBVIOUS
<1>4. Shape(Dims(l))
  BY <1>1, <1>2, <1>3 DEF Shape
<1> QED
  BY <1>1, <1>2, <1>4 DEF Volume

\* Every group's size divides the world.
LEMMA SizesAre ==
  ASSUME NEW l \in Layouts, NEW n \in Name
  PROVE  /\ Swap(l, n) \in Swaps /\ Size(l, n) \in Nat \ {0}
         /\ \E c \in Nat : WorldSize = Size(l, n) * c
<1>1. /\ l.ext \in Nat \ {0} /\ l.dp \in Nat \ {0} /\ l.pp \in Nat \ {0}
      /\ l.pcp \in Nat \ {0} /\ l.tp \in Nat \ {0} /\ l.dcp \in Nat \ {0}
      /\ l.ext * l.dp * l.pp * l.pcp * l.tp = WorldSize
      /\ (l.tp * l.pcp) % l.dcp = 0
  BY LayoutAssumption
<1>2. Swap(l, n) \in Swaps
  BY DEF Swap, Swaps, Name
<1>3. \A a, b \in Nat \ {0} : a * b \in Nat \ {0} /\ a * b = b * a
  OBVIOUS
<1>4. \A a, b, c \in Nat \ {0} : (a * b) * c = a * (b * c)
  OBVIOUS
<1> DEFINE q == l.ext * l.dp * l.pp
<1>5. q \in Nat \ {0} /\ q * l.pcp \in Nat \ {0} /\ l.ext * l.dp \in Nat \ {0}
      /\ l.ext * l.pp \in Nat \ {0} /\ l.pcp * l.tp \in Nat \ {0}
  BY <1>1, <1>3
<1>6. CASE n = "tp"
  <2>1. WorldSize = l.tp * (q * l.pcp)
    BY <1>1, <1>3, <1>5
  <2> QED
    BY <1>1, <1>2, <1>5, <1>6, <2>1 DEF Size
<1>7. CASE n = "pcp"
  <2>1. WorldSize = l.pcp * (q * l.tp) /\ q * l.tp \in Nat
    <3> HIDE DEF q
    <3>1. q * l.pcp * l.tp = l.pcp * (q * l.tp)
      BY <1>1, <1>5
    <3> QED
      BY <1>1, <1>5, <3>1 DEF q
  <2> QED
    BY <1>1, <1>2, <1>7, <2>1 DEF Size
<1>8. CASE n = "pp"
  <2>1. WorldSize = l.pp * ((l.ext * l.dp) * (l.pcp * l.tp))
    BY <1>1, <1>5
  <2> QED
    BY <1>1, <1>2, <1>5, <1>8, <2>1 DEF Size
<1>9. CASE n = "dp"
  <2>1. WorldSize = l.dp * ((l.ext * l.pp) * (l.pcp * l.tp))
    BY <1>1, <1>5
  <2> QED
    BY <1>1, <1>2, <1>5, <1>9, <2>1 DEF Size
<1>10. CASE n \in {"ep", "eplb"}
  <2>1. WorldSize = (l.dp * l.pcp * l.tp) * (l.ext * l.pp)
    BY <1>1, <1>5
  <2>2. l.dp * l.pcp * l.tp \in Nat \ {0}
    BY <1>1, <1>3
  <2> QED
    BY <1>2, <1>5, <1>10, <2>1, <2>2 DEF Size
<1>11. CASE n = "dcp"
  <2> DEFINE t == l.tp * l.pcp
             c == t \div l.dcp
  <2>1. t \in Nat /\ t % l.dcp = 0
    BY <1>1, <1>3
  <2> HIDE DEF t
  <2>2. c \in Nat /\ t = l.dcp * c
    <3>1. c \in Nat /\ t = l.dcp * c + (t % l.dcp)
      BY <1>1, <2>1, DivMod
    <3> HIDE DEF c
    <3> QED
      BY <1>1, <2>1, <3>1
  <2>3. WorldSize = t * q
    <3> HIDE DEF q
    <3>1. q * l.pcp * l.tp = (l.tp * l.pcp) * q
      BY <1>1, <1>5
    <3> QED
      BY <1>1, <3>1 DEF q, t
  <2> HIDE DEF c, q
  <2>4. WorldSize = l.dcp * (c * q) /\ c * q \in Nat
    BY <1>1, <1>5, <2>2, <2>3
  <2> QED
    BY <1>1, <1>2, <1>11, <2>4 DEF Size
<1> QED
  BY <1>6, <1>7, <1>8, <1>9, <1>10, <1>11 DEF Name

\* How a layout's groups of a kind are cut.
LEMMA GroupRanksAre ==
  ASSUME NEW l \in Layouts, NEW n \in Name
  PROVE  GroupRanks(l, n) = Unbind(Flat(l, n), Size(l, n))
BY DEF GroupRanks, Flat, Swap, Size, Name, DcpOrder

\* The ranks of the world in their transposed order.
LEMMA FlatIs ==
  ASSUME NEW l \in Layouts, NEW n \in Name
  PROVE  /\ Flat(l, n) \in Seq(World) /\ Len(Flat(l, n)) = WorldSize
         /\ \A r \in World : \E i \in 1 .. WorldSize : Flat(l, n)[i] = r
<1>1. Shape(Dims(l)) /\ Volume(Dims(l)) = WorldSize /\ Swap(l, n) \in Swaps
  BY DimsAre, SizesAre
<1>2. /\ \A i \in 1 .. WorldSize : Flat(l, n)[i] \in World
      /\ \A r \in World : \E i \in 1 .. WorldSize : Flat(l, n)[i] = r
  BY <1>1, TransposedHas DEF Flat
<1>3. WorldSize \in Nat /\ DOMAIN Flat(l, n) = 1 .. WorldSize
      /\ Flat(l, n) = [i \in 1 .. WorldSize |-> Flat(l, n)[i]]
  BY LayoutAssumption DEF Flat, Transposed
<1> HIDE DEF Flat
<1>4. Flat(l, n) \in [1 .. WorldSize -> World]
  BY <1>2, <1>3
<1> QED
  BY <1>2, <1>3, <1>4

\* A sequence cut into c groups of a size.
Cut(gs, flat, size, c, S) ==
  /\ Len(gs) = c
  /\ \A g \in 1 .. c :
       /\ gs[g] \in Seq(S) /\ Len(gs[g]) = size
       /\ \A j \in 1 .. size :
            /\ (g - 1) * size + j \in 1 .. Len(flat)
            /\ gs[g][j] = flat[(g - 1) * size + j]
  /\ \A i \in 1 .. Len(flat) : \E g \in 1 .. c, j \in 1 .. size :
       i = (g - 1) * size + j

LEMMA UnbindIs ==
  ASSUME NEW S, NEW flat \in Seq(S), NEW size \in Nat \ {0}, NEW c \in Nat,
         Len(flat) = size * c, NEW gs, gs = Unbind(flat, size)
  PROVE  Cut(gs, flat, size, c, S)
<1> DEFINE s(g) == SubSeq(flat, (g - 1) * size + 1, g * size)
<1>1. Len(flat) \div size = c
  <2>1. Len(flat) = size * c + 0 /\ 0 \in 0 .. size - 1
    OBVIOUS
  <2> QED
    BY <2>1, DivUnique
<1>2. gs = [g \in 1 .. c |-> s(g)]
  BY <1>1 DEF Unbind
<1>3. Len(gs) = c /\ \A g \in 1 .. c : gs[g] = s(g)
  <2> HIDE DEF s
  <2> QED
    BY <1>2
<1>4. ASSUME NEW g \in 1 .. c
      PROVE  /\ (g - 1) * size \in Nat /\ g * size = (g - 1) * size + size
             /\ g * size <= Len(flat)
  <2>1. size * g <= size * c
    BY Grows
  <2>2. size * g = g * size /\ (g - 1) * size \in Nat /\ g * size = (g - 1) * size + size
    OBVIOUS
  <2> QED
    BY <2>1, <2>2
<1>5. ASSUME NEW g \in 1 .. c
      PROVE  /\ s(g) \in Seq(S) /\ Len(s(g)) = size
             /\ \A j \in 1 .. size :
                  /\ (g - 1) * size + j \in 1 .. Len(flat)
                  /\ s(g)[j] = flat[(g - 1) * size + j]
  <2> DEFINE m == (g - 1) * size
             e == g * size
  <2>1. m \in Nat /\ e = m + size /\ e <= Len(flat) /\ e \in Nat
    BY <1>4
  <2>2. s(g) = SubSeq(flat, m + 1, e)
    OBVIOUS
  <2> HIDE DEF m, e, s
  <2>3. Len(flat) \in Nat
    OBVIOUS
  <2>4. /\ SubSeq(flat, m + 1, e) \in Seq(S) /\ Len(SubSeq(flat, m + 1, e)) = size
        /\ \A j \in 1 .. size : SubSeq(flat, m + 1, e)[j] = flat[m + j]
    <3>1. /\ m + 1 \in Int /\ e \in Int /\ m + 1 <= e
          /\ \A i \in m + 1 .. e : flat[i] \in S
      BY <2>1, <2>3
    <3>2. /\ SubSeq(flat, m + 1, e) \in Seq(S)
          /\ Len(SubSeq(flat, m + 1, e)) = e - (m + 1) + 1
          /\ \A j \in 1 .. e - (m + 1) + 1 : SubSeq(flat, m + 1, e)[j] = flat[(m + 1) + j - 1]
      <4>1. SubSeq(flat, m + 1, e) \in Seq(S)
        BY <3>1, SubSeqProperties
      <4>2. Len(SubSeq(flat, m + 1, e)) = e - (m + 1) + 1
        BY <3>1
      <4>3. \A j \in 1 .. e - (m + 1) + 1 : SubSeq(flat, m + 1, e)[j] = flat[(m + 1) + j - 1]
        BY <3>1, SubSeqProperties
      <4> QED
        BY <4>1, <4>2, <4>3
    <3>3. /\ m + 1 <= e /\ e - (m + 1) + 1 = size
          /\ \A j \in 1 .. size : (m + 1) + j - 1 = m + j
      BY <2>1
    <3> QED
      BY <3>2, <3>3
  <2>5. \A j \in 1 .. size : m + j \in 1 .. Len(flat)
    BY <2>1, <2>3
  <2> QED
    BY <2>2, <2>4, <2>5 DEF m
<1>6. ASSUME NEW i \in 1 .. Len(flat)
      PROVE  \E g \in 1 .. c, j \in 1 .. size : i = (g - 1) * size + j
  <2> DEFINE p == (i - 1) \div size
             t == (i - 1) % size
  <2>0. i - 1 \in Nat
    OBVIOUS
  <2>1. p \in Nat /\ t \in 0 .. size - 1 /\ i - 1 = size * p + t
    BY <2>0, DivMod
  <2> HIDE DEF p, t
  <2>2. p < c
    <3>1. CASE c <= p
      <4>1. size * c <= size * p /\ size * p \in Nat
        BY <2>1, <3>1, Grows
      <4> QED
        BY <2>1, <4>1
    <3> QED
      BY <2>1, <3>1
  <2>3. ((p + 1) - 1) * size = size * p
    BY <2>1
  <2>4. p + 1 \in 1 .. c /\ t + 1 \in 1 .. size /\ i = ((p + 1) - 1) * size + (t + 1)
    BY <2>1, <2>2, <2>3
  <2> QED
    BY <2>4
<1> HIDE DEF s
<1> QED
  BY <1>3, <1>5, <1>6 DEF Cut

\* A rank's group is one of those that were cut, and has the rank.
IsChunk(l, n, r, g) ==
  /\ \A j \in 1 .. Size(l, n) :
       /\ (g - 1) * Size(l, n) + j \in 1 .. WorldSize
       /\ GroupOf(l, n, r)[j] = Flat(l, n)[(g - 1) * Size(l, n) + j]
  /\ \E j \in 1 .. Size(l, n) : GroupOf(l, n, r)[j] = r

LEMMA GroupOfIs ==
  ASSUME NEW l \in Layouts, NEW n \in Name, NEW r \in World
  PROVE  /\ GroupOf(l, n, r) \in Seq(World) /\ Len(GroupOf(l, n, r)) = Size(l, n)
         /\ GroupOf(l, n, r) # <<>>
         /\ \E g \in Nat \ {0} : IsChunk(l, n, r, g)
<1> DEFINE gs == GroupRanks(l, n)
           size == Size(l, n)
           flat == Flat(l, n)
<1>1. PICK c \in Nat : size \in Nat \ {0} /\ WorldSize = size * c
  BY SizesAre
<1>2. flat \in Seq(World) /\ Len(flat) = WorldSize
  BY FlatIs
<1>3. gs = Unbind(flat, size)
  BY GroupRanksAre
<1> HIDE DEF gs, size, flat
<1>4. /\ Len(gs) = c
      /\ \A g \in 1 .. c :
           /\ gs[g] \in Seq(World) /\ Len(gs[g]) = size
           /\ \A j \in 1 .. size :
                /\ (g - 1) * size + j \in 1 .. WorldSize
                /\ gs[g][j] = flat[(g - 1) * size + j]
      /\ \A i \in 1 .. WorldSize : \E g \in 1 .. c, j \in 1 .. size :
           i = (g - 1) * size + j
  <2>1. Len(flat) = size * c
    BY <1>1, <1>2
  <2>2. Cut(gs, flat, size, c, World)
    BY <1>1, <1>2, <1>3, <2>1, UnbindIs
  <2> QED
    BY <1>2, <2>2 DEF Cut
<1>5. \E g \in 1 .. Len(gs) : r \in Range(gs[g])
  <2>1. PICK i \in 1 .. WorldSize : flat[i] = r
    BY FlatIs DEF flat
  <2>2. PICK g \in 1 .. c, j \in 1 .. size : i = (g - 1) * size + j
    BY <1>4
  <2>3. gs[g][j] = r
    BY <1>4, <2>1, <2>2
  <2>4. gs[g] \in Seq(World) /\ Len(gs[g]) = size
    BY <1>4
  <2>5. j \in DOMAIN gs[g]
    BY <2>4
  <2> QED
    BY <1>4, <2>3, <2>5 DEF Range
<1>6. PICK g \in 1 .. Len(gs) : r \in Range(gs[g]) /\ GroupOf(l, n, r) = gs[g]
  <2> DEFINE Chosen == CHOOSE g \in 1 .. Len(gs) : r \in Range(gs[g])
  <2>1. Chosen \in 1 .. Len(gs) /\ r \in Range(gs[Chosen])
    BY <1>5
  <2>2. GroupOf(l, n, r) = gs[Chosen]
    BY DEF GroupOf, gs
  <2> QED
    BY <2>1, <2>2
<1>7. PICK j \in DOMAIN gs[g] : gs[g][j] = r
  BY <1>6 DEF Range
<1>8. j \in 1 .. size
  <2>1. gs[g] \in Seq(World) /\ Len(gs[g]) = size
    BY <1>4
  <2> QED
    BY <1>7, <2>1
<1>9. g \in Nat \ {0}
  BY <1>1, <1>4
<1>10. Len(<<>>) = 0
  OBVIOUS
<1>11. /\ GroupOf(l, n, r) \in Seq(World) /\ Len(GroupOf(l, n, r)) = size
       /\ \A k \in 1 .. size :
            /\ (g - 1) * size + k \in 1 .. WorldSize
            /\ GroupOf(l, n, r)[k] = flat[(g - 1) * size + k]
       /\ \E k \in 1 .. size : GroupOf(l, n, r)[k] = r
  BY <1>4, <1>6, <1>7, <1>8
<1>12. GroupOf(l, n, r) # <<>>
  BY <1>1, <1>10, <1>11
<1>13. IsChunk(l, n, r, g)
  BY <1>11 DEF size, flat, IsChunk
<1> QED
  BY <1>9, <1>11, <1>12, <1>13 DEF size

\* The groups inside a stage depend on the sizes of the stages and of the groups
\* alone, not on how the replicas are counted.
Inner == {"tp", "dcp", "pcp", "pp"}

LEMMA SameInside ==
  ASSUME NEW d, Shape(d), NEW f, Shape(f), Volume(f) = Volume(d),
         d[3] = f[3], d[4] = f[4], d[5] = f[5],
         NEW a \in 3 .. 5, NEW i \in 0 .. Volume(d) - 1, <<a, 5>> \in Swaps
  PROVE  At(d, Swapped(Coords(Swapped(d, a, 5), i), a, 5))
           = At(f, Swapped(Coords(Swapped(f, a, 5), i), a, 5))
<1> DEFINE e == Swapped(d, a, 5)
           g == Swapped(f, a, 5)
           x == Coords(e, i)
           y == Coords(g, i)
<1>1. /\ Shape(e) /\ Volume(e) = Volume(d) /\ Shape(g) /\ Volume(g) = Volume(d)
  <2>1. <<a, 5>>[1] = a /\ <<a, 5>>[2] = 5
    OBVIOUS
  <2> QED
    BY <2>1, SwappedShape
<1>2. /\ Inside(e, x) /\ At(e, x) = i /\ Inside(g, y) /\ At(g, y) = i
  BY <1>1, AtOfCoords
<1>3. \A z : /\ Swapped(z, a, 5)[1] = z[1] /\ Swapped(z, a, 5)[2] = z[2]
             /\ \A k \in 3 .. 5 :
                  Swapped(z, a, 5)[k] = IF k = a THEN z[5] ELSE IF k = 5 THEN z[a] ELSE z[k]
  BY DEF Swapped
<1>4. /\ e[1] = d[1] /\ e[2] = d[2] /\ g[1] = f[1] /\ g[2] = f[2]
      /\ \A k \in 3 .. 5 : e[k] = g[k]
  BY <1>3
<1>5. /\ d[1] \in Nat \ {0} /\ d[2] \in Nat \ {0} /\ d[3] \in Nat \ {0}
      /\ d[4] \in Nat \ {0} /\ d[5] \in Nat \ {0} /\ f[2] \in Nat \ {0}
      /\ e[3] \in Nat \ {0} /\ e[4] \in Nat \ {0} /\ e[5] \in Nat \ {0}
  BY <1>1 DEF Shape
<1>6. e[3] * e[4] * e[5] = d[3] * d[4] * d[5]
  <2>1. CASE a = 3
    <3>1. e[3] = d[5] /\ e[4] = d[4] /\ e[5] = d[3]
      BY <1>3, <2>1
    <3> HIDE DEF e
    <3> QED
      BY <1>5, <3>1
  <2>2. CASE a = 4
    <3>1. e[3] = d[3] /\ e[4] = d[5] /\ e[5] = d[4]
      BY <1>3, <2>2
    <3> HIDE DEF e
    <3> QED
      BY <1>5, <3>1
  <2>3. CASE a = 5
    <3>1. e[3] = d[3] /\ e[4] = d[4] /\ e[5] = d[5]
      BY <1>3, <2>3
    <3> QED
      BY <3>1
  <2> QED
    BY <2>1, <2>2, <2>3
<1>7. \A h : /\ Strides(h)[1] = h[2] * h[3] * h[4] * h[5] /\ Strides(h)[2] = h[3] * h[4] * h[5]
             /\ Strides(h)[3] = h[4] * h[5] /\ Strides(h)[4] = h[5] /\ Strides(h)[5] = 1
  BY DEF Strides
<1>8. \A k \in 3 .. 5 : Strides(e)[k] = Strides(g)[k] /\ Strides(d)[k] = Strides(f)[k]
  <2>1. \A k \in 3 .. 5 : k = 3 \/ k = 4 \/ k = 5
    OBVIOUS
  <2>2. e[3] = g[3] /\ e[4] = g[4] /\ e[5] = g[5]
    BY <1>4
  <2> HIDE DEF e, g
  <2> QED
    BY <1>7, <2>1, <2>2
<1>9. /\ Strides(e)[2] = Strides(d)[2] /\ Strides(g)[2] = Strides(f)[2]
      /\ Strides(d)[2] = Strides(f)[2]
  <2>1. e[3] = g[3] /\ e[4] = g[4] /\ e[5] = g[5]
    BY <1>4
  <2> HIDE DEF e, g
  <2> QED
    BY <1>6, <1>7, <2>1
<1>10. \A h : Shape(h) => Strides(h)[1] = Strides(h)[2] * h[2]
  BY StridesAre
<1>11. Strides(e)[1] = Strides(d)[1] /\ Strides(g)[1] = Strides(f)[1]
  <2> HIDE DEF e, g
  <2> QED
    BY <1>1, <1>4, <1>9, <1>10
<1>12. \A k \in 3 .. 5 : x[k] = y[k]
  <2>1. \A k \in 3 .. 5 : /\ x[k] = (i \div Strides(e)[k]) % e[k]
                          /\ y[k] = (i \div Strides(g)[k]) % g[k]
    BY DEF Coords
  <2> HIDE DEF e, g, x, y
  <2> QED
    BY <1>4, <1>8, <2>1
<1>13. \A h, z : At(h, z) = z[1] * Strides(h)[1] + z[2] * Strides(h)[2] + z[3] * Strides(h)[3]
                             + z[4] * Strides(h)[4] + z[5] * Strides(h)[5]
  BY DEF At
<1> DEFINE u == x[1] * Strides(d)[1] + x[2] * Strides(d)[2]
           v == y[1] * Strides(f)[1] + y[2] * Strides(f)[2]
<1>14. /\ \A k \in 1 .. 5 : x[k] \in Nat /\ y[k] \in Nat /\ Strides(e)[k] \in Nat
                            /\ Strides(d)[k] \in Nat /\ Strides(f)[k] \in Nat
  <2>1. \A k \in 1 .. 5 : x[k] \in Nat /\ y[k] \in Nat
    <3> HIDE DEF e, g, x, y
    <3> QED
      BY <1>1, <1>2 DEF Inside, Shape
  <2> HIDE DEF e, g, x, y
  <2> QED
    BY <1>1, <2>1, StridesAre
<1>15. u \in Nat /\ v \in Nat
  <2> HIDE DEF x, y
  <2>1. \A m, n \in Nat : m * n \in Nat
    OBVIOUS
  <2>2. 1 \in 1 .. 5 /\ 2 \in 1 .. 5
    OBVIOUS
  <2> QED
    BY <1>14, <2>1, <2>2
<1>16. u = v
  <2> DEFINE p == x[3] * Strides(e)[3]
             q == x[4] * Strides(e)[4]
             r == x[5] * Strides(e)[5]
  <2>1. i = u + p + q + r /\ i = v + p + q + r
    <3>1. /\ Strides(g)[3] = Strides(e)[3] /\ Strides(g)[4] = Strides(e)[4]
          /\ Strides(g)[5] = Strides(e)[5]
          /\ y[3] = x[3] /\ y[4] = x[4] /\ y[5] = x[5]
      BY <1>8, <1>12
    <3> HIDE DEF e, g, x, y
    <3>2. i = x[1] * Strides(e)[1] + x[2] * Strides(e)[2] + x[3] * Strides(e)[3]
                + x[4] * Strides(e)[4] + x[5] * Strides(e)[5]
      BY <1>2, <1>13
    <3>3. i = y[1] * Strides(g)[1] + y[2] * Strides(g)[2] + y[3] * Strides(g)[3]
                + y[4] * Strides(g)[4] + y[5] * Strides(g)[5]
      BY <1>2, <1>13
    <3> QED
      BY <1>9, <1>11, <3>1, <3>2, <3>3
  <2>2. p \in Nat /\ q \in Nat /\ r \in Nat
    <3>1. \A m, n \in Nat : m * n \in Nat
      OBVIOUS
    <3>2. 3 \in 1 .. 5 /\ 4 \in 1 .. 5 /\ 5 \in 1 .. 5
      OBVIOUS
    <3> HIDE DEF x, y, e
    <3> QED
      BY <1>14, <3>1, <3>2
  <2> HIDE DEF u, v, p, q, r
  <2> QED
    BY <1>15, <2>1, <2>2
<1>17. \A k \in 3 .. 5 : Swapped(x, a, 5)[k] = Swapped(y, a, 5)[k]
  <2> HIDE DEF x, y
  <2> QED
    BY <1>3, <1>12
<1> DEFINE xs == Swapped(x, a, 5)
           ys == Swapped(y, a, 5)
<1>18. xs[1] = x[1] /\ xs[2] = x[2] /\ ys[1] = y[1] /\ ys[2] = y[2]
  BY <1>3
<1>19. /\ At(d, xs) = u + xs[3] * Strides(d)[3] + xs[4] * Strides(d)[4] + xs[5] * Strides(d)[5]
       /\ At(f, ys) = v + ys[3] * Strides(f)[3] + ys[4] * Strides(f)[4] + ys[5] * Strides(f)[5]
  <2> HIDE DEF x, y, xs, ys
  <2> QED
    BY <1>13, <1>18
<1>20. At(d, xs) = At(f, ys)
  <2>1. xs[3] = ys[3] /\ xs[4] = ys[4] /\ xs[5] = ys[5]
    BY <1>17
  <2>2. /\ Strides(d)[3] = Strides(f)[3] /\ Strides(d)[4] = Strides(f)[4]
        /\ Strides(d)[5] = Strides(f)[5]
    BY <1>8
  <2> HIDE DEF x, y, xs, ys, u, v
  <2> QED
    BY <1>16, <1>19, <2>1, <2>2
<1> QED
  BY <1>20

LEMMA SameGroups ==
  ASSUME NEW l \in Layouts, NEW m \in Layouts, NEW n \in Inner, NEW r \in World,
         l.tp = m.tp, l.pp = m.pp, l.pcp = m.pcp, l.dcp = m.dcp
  PROVE  GroupOf(l, n, r) = GroupOf(m, n, r)
<1>1. /\ Shape(Dims(l)) /\ Volume(Dims(l)) = WorldSize
      /\ Shape(Dims(m)) /\ Volume(Dims(m)) = WorldSize
      /\ Dims(l)[3] = Dims(m)[3] /\ Dims(l)[4] = Dims(m)[4] /\ Dims(l)[5] = Dims(m)[5]
  BY DimsAre
<1>2. /\ Swap(l, n) = Swap(m, n) /\ Size(l, n) = Size(m, n)
      /\ \E a \in 3 .. 5 : Swap(l, n) = <<a, 5>> /\ <<a, 5>> \in Swaps
  BY DEF Swap, Size, Inner, Swaps
<1>3. PICK a \in 3 .. 5 : Swap(l, n) = <<a, 5>> /\ <<a, 5>> \in Swaps
  BY <1>2
<1>4. \A i \in 1 .. WorldSize : i - 1 \in 0 .. WorldSize - 1
  BY LayoutAssumption
<1>5. \A i \in 1 .. WorldSize :
        At(Dims(l), Swapped(Coords(Swapped(Dims(l), a, 5), i - 1), a, 5))
          = At(Dims(m), Swapped(Coords(Swapped(Dims(m), a, 5), i - 1), a, 5))
  BY <1>1, <1>3, <1>4, SameInside
<1>6. Flat(l, n) = Flat(m, n)
  <2>1. Flat(l, n) = Transposed(Dims(l), a, 5) /\ Flat(m, n) = Transposed(Dims(m), a, 5)
    BY <1>2, <1>3 DEF Flat
  <2> QED
    BY <1>5, <2>1 DEF Transposed
<1>7. GroupRanks(l, n) = GroupRanks(m, n)
  BY <1>2, <1>6, GroupRanksAre DEF Inner, Name
<1> QED
  BY <1>7 DEF GroupOf

-----------------------------------------------------------------------------
(* The steps.                                                              *)

\* A rank's groups are of one layout.
OneLayout(r) ==
  \E l \in Layouts : \A n \in Name :
    groups[r][n] = <<>> \/ groups[r][n] = GroupOf(l, n, r)

\* The TP group is built first, and groups are built by ranks that called.
FirstTp(r) == groups[r]["tp"] = <<>> => \A n \in Name : groups[r][n] = <<>>
Dirtied(r) == (\E n \in Name : groups[r][n] # <<>>) => r \in dirty

\* What rank r has before it, from position j of the groups its layout needs.
From(r, j) ==
  /\ Len(todo[r]) = Len(Needed(layout)) - j + 1
  /\ \A k \in 1 .. Len(todo[r]) : todo[r][k] = Needed(layout)[j + k - 1]
  /\ \A i \in 1 .. j - 1 : groups[r][Needed(layout)[i]] = GroupOf(layout, Needed(layout)[i], r)
  /\ j # 1 => \A n \in Name : groups[r][n] = <<>> \/ groups[r][n] = GroupOf(layout, n, r)
  /\ r \notin retried =>
       /\ \A i \in j .. Len(Needed(layout)) : groups[r][Needed(layout)[i]] = <<>>
       /\ \A n \in Absent(layout) : groups[r][n] = <<>>

\* A rank that is building has built what it needs up to a position, and finds
\* the rest unbuilt unless it called before.
Progress(r) ==
  status[r] = "building" =>
    r \in dirty /\ \E j \in 1 .. Len(Needed(layout)) : From(r, j)

\* A rank that returned has the groups of its layout: the inner ones, and all
\* if it had not called before.
Returned(r) ==
  status[r] = "returned" =>
    /\ \A n \in Inner : groups[r][n] = GroupOf(layout, n, r)
    /\ r \notin retried =>
         \A i \in 1 .. Len(Needed(layout)) :
           groups[r][Needed(layout)[i]] = GroupOf(layout, Needed(layout)[i], r)

RankInv(r) == OneLayout(r) /\ FirstTp(r) /\ Dirtied(r) /\ Progress(r) /\ Returned(r)

\* A rank whose last cleanup raised may hold groups of two layouts: it called
\* before, and calls again.
Broken(r) ==
  /\ Dirtied(r) /\ r \in dirty
  /\ status[r] # "idle" => r \in retried

GroupsInv ==
  /\ GroupsTypeOK /\ CleanupSuffices
  /\ \A r \in World : r \notin broken => RankInv(r)
  /\ \A r \in World : r \in broken => Broken(r)

-----------------------------------------------------------------------------
\* The groups a layout needs: the first four are the inner ones, and each is
\* needed once.
LEMMA NeededAre ==
  ASSUME NEW l \in Layouts
  PROVE  /\ Needed(l) \in Seq(Name) /\ Len(Needed(l)) \in 5 .. 7
         /\ Needed(l)[1] = "tp" /\ Needed(l)[2] = "dcp" /\ Needed(l)[3] = "pcp"
         /\ Needed(l)[4] = "pp" /\ Needed(l)[5] = "dp"
         /\ (l.moe => Len(Needed(l)) >= 6 /\ Needed(l)[6] = "ep")
         /\ (l.moe /\ l.eplb => Len(Needed(l)) = 7 /\ Needed(l)[7] = "eplb")
         /\ \A i, j \in 1 .. Len(Needed(l)) : Needed(l)[i] = Needed(l)[j] => i = j
         /\ \A i \in 1 .. Len(Needed(l)) : Needed(l)[i] \notin Absent(l)
         /\ Absent(l) \subseteq Name
<1> DEFINE h == <<"tp", "dcp", "pcp", "pp", "dp">>
           e == IF l.moe THEN <<"ep">> ELSE <<>>
           b == IF l.moe /\ l.eplb THEN <<"eplb">> ELSE <<>>
           s == Needed(l)
<1>1. /\ h \in Seq(Name) /\ Len(h) = 5
      /\ h[1] = "tp" /\ h[2] = "dcp" /\ h[3] = "pcp" /\ h[4] = "pp" /\ h[5] = "dp"
  BY DEF Name
<1>2. /\ e \in Seq(Name) /\ Len(e) \in 0 .. 1 /\ (l.moe => Len(e) = 1 /\ e[1] = "ep")
      /\ (~l.moe => Len(e) = 0)
  <2>1. CASE l.moe
    <3>1. e = <<"ep">>
      BY <2>1
    <3> HIDE DEF e
    <3> QED
      BY <2>1, <3>1 DEF Name
  <2>2. CASE ~l.moe
    <3>1. e = <<>>
      BY <2>2
    <3> HIDE DEF e
    <3> QED
      BY <2>2, <3>1 DEF Name
  <2> QED
    BY <2>1, <2>2
<1>3. /\ b \in Seq(Name) /\ Len(b) \in 0 .. 1
      /\ (l.moe /\ l.eplb => Len(b) = 1 /\ b[1] = "eplb")
      /\ (~(l.moe /\ l.eplb) => Len(b) = 0)
  <2>1. CASE l.moe /\ l.eplb
    <3>1. b = <<"eplb">>
      BY <2>1
    <3> HIDE DEF b
    <3> QED
      BY <2>1, <3>1 DEF Name
  <2>2. CASE ~(l.moe /\ l.eplb)
    <3>1. b = <<>>
      BY <2>2
    <3> HIDE DEF b
    <3> QED
      BY <2>2, <3>1 DEF Name
  <2> QED
    BY <2>1, <2>2
<1>4. s = (h \o e) \o b
  BY DEF Needed
<1> HIDE DEF h, e, b, s
<1>5. /\ h \o e \in Seq(Name) /\ Len(h \o e) = 5 + Len(e)
      /\ \A i \in 1 .. 5 : (h \o e)[i] = h[i]
      /\ (l.moe => (h \o e)[6] = "ep")
  <2>1. /\ h \o e \in Seq(Name) /\ Len(h \o e) = Len(h) + Len(e)
        /\ \A i \in 1 .. Len(h) + Len(e) :
             (h \o e)[i] = IF i <= Len(h) THEN h[i] ELSE e[i - Len(h)]
    BY <1>1, <1>2, ConcatProperties
  <2>2. \A i \in 1 .. 5 : (h \o e)[i] = h[i]
    BY <1>1, <1>2, <2>1
  <2>3. ASSUME l.moe PROVE (h \o e)[6] = "ep"
    <3>1. Len(e) = 1 /\ e[1] = "ep" /\ Len(h) = 5
      BY <1>1, <1>2, <2>3
    <3>2. 6 \in 1 .. Len(h) + Len(e)
      BY <3>1
    <3>3. (h \o e)[6] = IF 6 <= Len(h) THEN h[6] ELSE e[6 - Len(h)]
      BY <2>1, <3>2
    <3> QED
      BY <3>1, <3>3
  <2> QED
    BY <1>1, <2>1, <2>2, <2>3
<1>6. /\ s \in Seq(Name) /\ Len(s) = 5 + Len(e) + Len(b)
      /\ \A i \in 1 .. 5 + Len(e) : s[i] = (h \o e)[i]
      /\ (l.moe /\ l.eplb => s[7] = "eplb")
  <2>1. /\ (h \o e) \o b \in Seq(Name)
        /\ Len((h \o e) \o b) = Len(h \o e) + Len(b)
        /\ \A i \in 1 .. Len(h \o e) + Len(b) :
             ((h \o e) \o b)[i] = IF i <= Len(h \o e) THEN (h \o e)[i]
                                  ELSE b[i - Len(h \o e)]
    BY <1>3, <1>5, ConcatProperties
  <2>2. Len(e) \in Nat /\ Len(b) \in Nat /\ (l.moe => Len(e) = 1)
    BY <1>2, <1>3
  <2> QED
    BY <1>3, <1>4, <1>5, <2>1, <2>2
<1>7. /\ s[1] = "tp" /\ s[2] = "dcp" /\ s[3] = "pcp" /\ s[4] = "pp" /\ s[5] = "dp"
      /\ (l.moe => s[6] = "ep")
  <2>1. PICK x \in 0 .. 1 : x = Len(e) /\ (l.moe => x = 1)
    BY <1>2
  <2>2. \A i \in 1 .. 5 + x : s[i] = (h \o e)[i]
    BY <1>6, <2>1
  <2>3. \A i \in 1 .. 5 : s[i] = h[i]
    BY <1>5, <2>2
  <2>4. ASSUME l.moe PROVE s[6] = "ep"
    <3>1. 6 \in 1 .. 5 + x
      BY <2>1, <2>4
    <3>2. s[6] = (h \o e)[6]
      BY <2>2, <3>1
    <3> QED
      BY <1>5, <2>4, <3>2
  <2> QED
    BY <1>1, <2>3, <2>4
<1>8. /\ Len(s) \in 5 .. 7 /\ (Len(s) >= 6 => l.moe) /\ (Len(s) = 7 => l.eplb)
      /\ (l.moe => Len(s) >= 6) /\ (l.moe /\ l.eplb => Len(s) = 7)
  <2>1. PICK x \in 0 .. 1, y \in 0 .. 1 :
          /\ x = Len(e) /\ (l.moe => x = 1) /\ (~l.moe => x = 0)
          /\ y = Len(b) /\ (l.moe /\ l.eplb => y = 1) /\ (~(l.moe /\ l.eplb) => y = 0)
    BY <1>2, <1>3
  <2>2. Len(s) = 5 + x + y
    BY <1>6, <2>1
  <2>3. PICK n \in 5 .. 7 : n = Len(s) /\ n = 5 + x + y
    BY <2>2
  <2>4. (n >= 6 => l.moe) /\ (n = 7 => l.eplb) /\ (l.moe => n >= 6)
        /\ (l.moe /\ l.eplb => n = 7)
    <3> HIDE DEF s, e, b
    <3>1. x = 0 => y = 0
      BY <2>1
    <3> QED
      BY <2>1, <2>3, <3>1
  <2> QED
    BY <2>3, <2>4
<1>9. \A k \in 1 .. Len(s) :
        \/ k = 1 \/ k = 2 \/ k = 3 \/ k = 4 \/ k = 5
        \/ (k = 6 /\ s[k] = "ep") \/ (k = 7 /\ s[k] = "eplb")
  <2> SUFFICES ASSUME NEW k \in 1 .. Len(s), k > 5
               PROVE  (k = 6 /\ s[k] = "ep") \/ (k = 7 /\ s[k] = "eplb")
    BY <1>8
  <2>1. k = 6 \/ k = 7
    <3>1. PICK n \in 5 .. 7 : n = Len(s)
      BY <1>8
    <3> QED
      BY <3>1
  <2>2. ASSUME k = 6 PROVE s[k] = "ep"
    BY <1>7, <1>8, <2>2
  <2>3. ASSUME k = 7 PROVE s[k] = "eplb"
    BY <1>6, <1>8, <2>3
  <2> QED
    BY <2>1, <2>2, <2>3
<1>10. ASSUME NEW i \in 1 .. Len(s), NEW j \in 1 .. Len(s), s[i] = s[j] PROVE i = j
  BY <1>7, <1>9, <1>10
<1>11. ASSUME NEW i \in 1 .. Len(s) PROVE s[i] \notin Absent(l)
  <2>1. s[i] = "ep" => l.moe
    BY <1>7, <1>8, <1>9
  <2>2. s[i] = "eplb" => l.eplb
    BY <1>7, <1>8, <1>9
  <2> QED
    BY <2>1, <2>2 DEF Absent
<1>12. Absent(l) \subseteq Name
  BY DEF Absent, Name
<1> QED
  BY <1>6, <1>7, <1>8, <1>10, <1>11, <1>12 DEF s

\* A rank without groups.
LEMMA Empty ==
  ASSUME NEW r \in World, \A n \in Name : groups[r][n] = <<>>, layout \in Layouts
  PROVE  OneLayout(r) /\ FirstTp(r) /\ Dirtied(r)
BY DEF OneLayout, FirstTp, Dirtied

\* Groups are held by ranks that called since their last cleanup that returned.
LEMMA AllDirtied == ASSUME GroupsInv, NEW r \in World PROVE Dirtied(r)
BY DEF GroupsInv, RankInv, Broken

LEMMA GroupsInitInv == GroupsInit => GroupsInv
<1> SUFFICES ASSUME GroupsInit PROVE GroupsInv
  OBVIOUS
<1>1. GroupsTypeOK
  <2>1. <<>> \in Seq(World) /\ <<>> \in Seq(Name)
    OBVIOUS
  <2> QED
    BY <2>1 DEF GroupsInit, GroupsTypeOK
<1>2. CleanupSuffices
  BY DEF GroupsInit, CleanupSuffices
<1>3. ASSUME NEW r \in World PROVE RankInv(r)
  <2>1. OneLayout(r) /\ FirstTp(r) /\ Dirtied(r)
    BY Empty DEF GroupsInit
  <2>2. Progress(r) /\ Returned(r)
    BY DEF GroupsInit, Progress, Returned
  <2> QED
    BY <2>1, <2>2 DEF RankInv
<1> QED
  BY <1>1, <1>2, <1>3 DEF GroupsInv, GroupsInit

\* The groups a rank finds serve when they have the sizes asked for.
LEMMA MatchingSizes ==
  ASSUME GroupsInv, NEW r \in World, r \notin broken, SizesMatch(r)
  PROVE  \A n \in Inner : groups[r][n] = GroupOf(layout, n, r)
<1>1. layout \in Layouts
  BY DEF GroupsInv, GroupsTypeOK
<1>2. PICK l \in Layouts : \A n \in Name :
        groups[r][n] = <<>> \/ groups[r][n] = GroupOf(l, n, r)
  BY DEF GroupsInv, RankInv, OneLayout
<1>3. ASSUME NEW n \in Inner PROVE n \in Name /\ Len(groups[r][n]) = Size(layout, n)
  <2>1. n \in {"tp", "pp", "pcp", "dcp"}
    BY DEF Inner
  <2> QED
    BY <2>1 DEF SizesMatch, CheckedSizes, Size, Name
<1>4. ASSUME NEW n \in Inner
      PROVE  groups[r][n] = GroupOf(l, n, r) /\ Size(l, n) = Size(layout, n)
  <2>1. Size(layout, n) \in Nat \ {0}
    BY <1>1, <1>3, SizesAre
  <2>2. groups[r][n] # <<>>
    <3>1. Len(<<>>) = 0
      OBVIOUS
    <3> QED
      BY <1>3, <2>1, <3>1
  <2>3. groups[r][n] = GroupOf(l, n, r)
    BY <1>2, <1>3, <2>2
  <2>4. Len(GroupOf(l, n, r)) = Size(l, n)
    BY <1>2, <1>3, GroupOfIs
  <2> QED
    BY <1>3, <2>3, <2>4
<1>5. l.tp = layout.tp /\ l.pp = layout.pp /\ l.pcp = layout.pcp /\ l.dcp = layout.dcp
  <2>1. "tp" \in Inner /\ "pp" \in Inner /\ "pcp" \in Inner /\ "dcp" \in Inner
    BY DEF Inner
  <2>2. Size(l, "tp") = Size(layout, "tp") /\ Size(l, "pp") = Size(layout, "pp")
        /\ Size(l, "pcp") = Size(layout, "pcp") /\ Size(l, "dcp") = Size(layout, "dcp")
    BY <1>4, <2>1
  <2> QED
    BY <2>2 DEF Size
<1>6. \A n \in Inner : GroupOf(l, n, r) = GroupOf(layout, n, r)
  BY <1>1, <1>2, <1>5, SameGroups
<1> QED
  BY <1>4, <1>6

\* A call starts to build on the ranks without groups, and refuses or returns on
\* the others, which called before.
LEMMA EnsureInv == ASSUME GroupsInv, Ensure PROVE GroupsInv'
<1>1. /\ UNCHANGED <<layout, groups, broken>> /\ dirty' = World /\ retried' = retried \cup dirty
      /\ \A r \in World : status'[r] =
           IF ~Initialized(r) THEN "building"
           ELSE IF SizesMatch(r) THEN "returned" ELSE "refused"
      /\ \A r \in World : todo'[r] = IF Initialized(r) THEN <<>> ELSE Needed(layout)
  BY DEF Ensure
<1>2. /\ layout \in Layouts /\ dirty \subseteq World /\ retried \subseteq World
      /\ broken \subseteq World
  BY DEF GroupsInv, GroupsTypeOK
<1>3. /\ Needed(layout) \in Seq(Name) /\ Len(Needed(layout)) \in 5 .. 7
      /\ \A i \in 1 .. Len(Needed(layout)) : Needed(layout)[i] \in Name
  BY <1>2, NeededAre
<1>4. GroupsTypeOK'
  <2>1. todo' \in [World -> Seq(Name)]
    <3>1. <<>> \in Seq(Name)
      OBVIOUS
    <3> QED
      BY <1>3, <3>1 DEF Ensure
  <2>2. status' \in [World -> {"idle", "building", "returned", "refused", "failed"}]
    BY DEF Ensure
  <2>3. Needed(layout) # <<>>
    <3>1. Len(<<>>) = 0
      OBVIOUS
    <3> QED
      BY <1>3, <3>1
  <2>4. \A r \in World : status'[r] = "building" => todo'[r] # <<>>
    BY <1>1, <2>3
  <2> QED
    BY <1>1, <1>2, <2>1, <2>2, <2>4 DEF GroupsInv, GroupsTypeOK
<1>5. \A r \in World : Initialized(r) => r \in dirty
  <2>1. "tp" \in Name
    BY DEF Name
  <2> QED
    BY <2>1, AllDirtied DEF Initialized, Dirtied
<1>6. CleanupSuffices'
  BY <1>1, <1>5 DEF CleanupSuffices
<1>7. ASSUME NEW r \in World, r \notin broken PROVE RankInv(r)'
  <2>1. OneLayout(r)' /\ FirstTp(r)' /\ Dirtied(r)'
    BY <1>1, <1>7 DEF GroupsInv, RankInv, OneLayout, FirstTp, Dirtied
  <2>2. Returned(r)'
    <3> SUFFICES ASSUME status'[r] = "returned"
                 PROVE  /\ \A n \in Inner : groups'[r][n] = GroupOf(layout', n, r)
                        /\ r \in retried'
      BY DEF Returned
    <3>1. Initialized(r) /\ SizesMatch(r)
      BY <1>1
    <3> QED
      BY <1>1, <1>5, <1>7, <3>1, MatchingSizes
  <2>3. Progress(r)'
    <3>0. r \in dirty' /\ 1 \in 1 .. Len(Needed(layout'))
      BY <1>1, <1>3
    <3> SUFFICES ASSUME status'[r] = "building" PROVE From(r, 1)'
      BY <3>0 DEF Progress
    <3>1. todo'[r] = Needed(layout)
      BY <1>1
    <3>2. ASSUME r \notin retried', NEW i \in 1 .. Len(Needed(layout))
          PROVE  groups[r][Needed(layout)[i]] = <<>>
      BY <1>1, <1>3, <3>2, AllDirtied DEF Dirtied
    <3>3. /\ Len(todo'[r]) = Len(Needed(layout)) - 1 + 1
          /\ \A k \in 1 .. Len(todo'[r]) : todo'[r][k] = Needed(layout)[1 + k - 1]
      BY <1>3, <3>1
    <3>4. 1 .. 1 - 1 = {}
      OBVIOUS
    <3>5. ASSUME r \notin retried', NEW n \in Absent(layout) PROVE groups[r][n] = <<>>
      <4>1. n \in Name
        BY <1>2, NeededAre
      <4> QED
        BY <1>1, <3>5, <4>1, AllDirtied DEF Dirtied
    <3> QED
      BY <1>1, <3>2, <3>3, <3>4, <3>5 DEF From
  <2> QED
    BY <2>1, <2>2, <2>3 DEF RankInv
<1>8. ASSUME NEW r \in World, r \in broken PROVE Broken(r)'
  <2>1. Dirtied(r) /\ r \in dirty
    BY <1>8 DEF GroupsInv, Broken
  <2> QED
    BY <1>1, <2>1 DEF Broken, Dirtied
<1> QED
  BY <1>1, <1>4, <1>6, <1>7, <1>8 DEF GroupsInv

\* A group that was built is one of the layout, and the others are as they were.
LEMMA BuiltInv ==
  ASSUME GroupsInv, NEW n \in Name, NEW failing, Build(n, failing),
         NEW r \in World, r \notin failing, r \notin broken
  PROVE  /\ RankInv(r)' /\ todo'[r] \in Seq(Name)
         /\ (status'[r] = "building" => todo'[r] # <<>>)
<1>1. layout \in Layouts /\ layout' = layout /\ dirty' = dirty /\ retried' = retried
  BY DEF GroupsInv, GroupsTypeOK, Build
<1>2. /\ status[r] = "building" /\ Head(todo[r]) = n /\ groups[r][n] = <<>>
      /\ todo[r] \in Seq(Name) /\ todo[r] # <<>> /\ groups[r] \in [Name -> Seq(World)]
  BY DEF Build, AtGroup, GroupsInv, GroupsTypeOK
<1>3. /\ groups'[r] = [groups[r] EXCEPT ![n] = GroupOf(layout, n, r)]
      /\ todo'[r] = Tail(todo[r])
      /\ status'[r] = IF Len(todo[r]) = 1 THEN Ending(r) ELSE "building"
  BY DEF Build
<1>4. PICK s : s = Needed(layout)
  OBVIOUS
<1>5. /\ s \in Seq(Name) /\ Len(s) \in 5 .. 7
      /\ s[1] = "tp" /\ s[2] = "dcp" /\ s[3] = "pcp" /\ s[4] = "pp"
      /\ \A i, j \in 1 .. Len(s) : s[i] = s[j] => i = j
      /\ \A i \in 1 .. Len(s) : s[i] \notin Absent(layout)
      /\ Absent(layout) \subseteq Name
  BY <1>1, <1>4, NeededAre
<1>6. \A i \in 1 .. Len(s) : s[i] \in Name
  BY <1>5
<1>7. r \in dirty
  BY <1>2 DEF GroupsInv, RankInv, Progress
<1>8. PICK j \in 1 .. Len(s) : From(r, j)
  BY <1>2, <1>4 DEF GroupsInv, RankInv, Progress
<1>9. PICK t \in Nat : t = Len(todo[r]) /\ t = Len(s) - j + 1 /\ t >= 1
  <2>1. PICK c \in 5 .. 7 : c = Len(s)
    BY <1>5
  <2>2. Len(todo[r]) = c - j + 1
    BY <1>4, <1>8, <2>1 DEF From
  <2>3. c - j + 1 \in Nat /\ c - j + 1 >= 1
    BY <2>1
  <2> QED
    BY <2>1, <2>2, <2>3
<1>10. \A k \in 1 .. t : todo[r][k] = s[j + k - 1]
  BY <1>4, <1>8, <1>9 DEF From
<1>11. s[j] = n
  <2>1. todo[r][1] = s[j + 1 - 1]
    BY <1>9, <1>10
  <2>2. Head(todo[r]) = todo[r][1]
    BY <1>2
  <2> QED
    BY <1>2, <1>5, <2>1, <2>2
<1>12. PICK own : own = [m \in Name |-> GroupOf(layout, m, r)]
  OBVIOUS
<1>13. \A m \in Name : own[m] = GroupOf(layout, m, r) /\ own[m] # <<>>
  BY <1>1, <1>12, GroupOfIs
<1>14. \A m \in Name : groups'[r][m] = IF m = n THEN own[m] ELSE groups[r][m]
  BY <1>2, <1>3, <1>13
<1>15. \A m \in Name : groups[r][m] = <<>> \/ groups[r][m] = own[m]
  <2>1. CASE j = 1
    BY <1>2, <1>5, <1>11, <2>1 DEF GroupsInv, RankInv, FirstTp
  <2>2. CASE j # 1
    BY <1>8, <1>13, <2>2 DEF From
  <2> QED
    BY <2>1, <2>2
<1>16. \A m \in Name : groups'[r][m] = <<>> \/ groups'[r][m] = own[m]
  BY <1>14, <1>15
<1>17. \A m \in Name : GroupOf(layout', m, r) = own[m]
  BY <1>1, <1>13
<1>18. \A i \in 1 .. j : groups'[r][s[i]] = own[s[i]]
  <2> SUFFICES ASSUME NEW i \in 1 .. j PROVE groups'[r][s[i]] = own[s[i]]
    OBVIOUS
  <2>1. i \in 1 .. Len(s) /\ s[i] \in Name
    BY <1>5, <1>6
  <2>2. CASE i = j
    BY <1>11, <1>14, <2>1, <2>2
  <2>3. CASE i # j
    <3>1. i \in 1 .. j - 1
      BY <2>3
    <3>2. groups[r][s[i]] = own[s[i]]
      BY <1>4, <1>8, <1>13, <2>1, <3>1 DEF From
    <3> QED
      BY <1>14, <2>1, <3>2
  <2> QED
    BY <2>2, <2>3
<1>19. OneLayout(r)'
  <2>1. \A m \in Name : groups'[r][m] = <<>> \/ groups'[r][m] = GroupOf(layout, m, r)
    BY <1>13, <1>16
  <2>2. \E l \in Layouts : \A m \in Name :
          groups'[r][m] = <<>> \/ groups'[r][m] = GroupOf(l, m, r)
    BY <1>1, <2>1
  <2> QED
    BY <2>2 DEF OneLayout
<1>20. FirstTp(r)'
  <2>1. 1 \in 1 .. j /\ "tp" \in Name
    BY DEF Name
  <2>2. groups'[r]["tp"] = own["tp"] /\ own["tp"] # <<>>
    BY <1>5, <1>13, <1>18, <2>1
  <2> QED
    BY <2>2 DEF FirstTp
<1>21. Dirtied(r)'
  BY <1>1, <1>7 DEF Dirtied
<1>22. CASE Len(todo[r]) = 1
  <2>1. j = Len(s) /\ status'[r] \in {"returned", "refused"}
    <3>1. PICK c \in 5 .. 7 : c = Len(s)
      BY <1>5
    <3>2. 1 = c - j + 1
      BY <1>9, <1>22, <3>1
    <3>3. j = c
      BY <3>1, <3>2
    <3> QED
      BY <1>3, <1>22, <3>1, <3>3 DEF Ending
  <2>2. ASSUME NEW m \in Inner PROVE groups'[r][m] = GroupOf(layout', m, r)
    <3>1. m \in Name /\ \E i \in 1 .. 4 : m = s[i]
      BY <1>5 DEF Inner, Name
    <3> QED
      BY <1>5, <1>17, <1>18, <2>1, <3>1
  <2>3. Returned(r)'
    <3>1. \A i \in 1 .. Len(s) : groups'[r][s[i]] = GroupOf(layout', s[i], r)
      BY <1>6, <1>17, <1>18, <2>1
    <3> QED
      BY <1>1, <1>4, <2>2, <3>1 DEF Returned
  <2>4. Progress(r)'
    BY <2>1 DEF Progress
  <2>5. todo'[r] \in Seq(Name)
    BY <1>2, <1>3
  <2> QED
    BY <1>19, <1>20, <1>21, <2>1, <2>3, <2>4, <2>5 DEF RankInv
<1>23. CASE Len(todo[r]) # 1
  <2>1. t > 1 /\ status'[r] = "building"
    BY <1>3, <1>9, <1>23
  <2>2. /\ todo'[r] \in Seq(Name) /\ Len(todo'[r]) = t - 1
        /\ \A k \in 1 .. t - 1 : todo'[r][k] = todo[r][k + 1]
    <3>1. PICK q : q = todo[r]
      OBVIOUS
    <3>2. /\ Tail(q) \in Seq(Name) /\ Len(Tail(q)) = Len(q) - 1
          /\ \A k \in 1 .. Len(Tail(q)) : Tail(q)[k] = q[k + 1]
      BY <1>2, <3>1, HeadTailProperties
    <3> QED
      BY <1>3, <1>9, <3>1, <3>2
  <2>3. todo'[r] # <<>>
    <3>1. Len(<<>>) = 0
      OBVIOUS
    <3> QED
      BY <1>9, <2>1, <2>2, <3>1
  <2>4. j + 1 \in 1 .. Len(s)
    BY <1>5, <1>9, <2>1
  <2>5. From(r, j + 1)'
    <3>1. Len(todo'[r]) = Len(s) - (j + 1) + 1
      BY <1>5, <1>9, <2>2
    <3>2. \A k \in 1 .. Len(todo'[r]) : todo'[r][k] = s[(j + 1) + k - 1]
      <4> SUFFICES ASSUME NEW k \in 1 .. t - 1 PROVE todo'[r][k] = s[(j + 1) + k - 1]
        BY <2>2
      <4>1. k + 1 \in 1 .. t /\ (j + 1) + k - 1 = j + (k + 1) - 1
        BY <1>9
      <4> QED
        BY <1>10, <2>2, <4>1
    <3>3. \A i \in 1 .. (j + 1) - 1 : groups'[r][s[i]] = GroupOf(layout', s[i], r)
      BY <1>5, <1>6, <1>17, <1>18
    <3>4. \A m \in Name : groups'[r][m] = <<>> \/ groups'[r][m] = GroupOf(layout', m, r)
      BY <1>16, <1>17
    <3>5. ASSUME r \notin retried', NEW i \in j + 1 .. Len(s) PROVE groups'[r][s[i]] = <<>>
      <4>1. i \in 1 .. Len(s) /\ i \in j .. Len(s) /\ i # j /\ s[i] \in Name
        BY <1>5, <1>6
      <4>2. s[i] # n
        BY <1>5, <1>11, <4>1
      <4>3. groups[r][s[i]] = <<>>
        BY <1>1, <1>4, <1>8, <3>5, <4>1 DEF From
      <4> QED
        BY <1>14, <4>1, <4>2, <4>3
    <3>6. ASSUME r \notin retried', NEW m \in Absent(layout) PROVE groups'[r][m] = <<>>
      <4>1. m \in Name /\ m # n
        BY <1>5, <1>11
      <4>2. groups[r][m] = <<>>
        BY <1>1, <1>8, <3>6 DEF From
      <4> QED
        BY <1>14, <4>1, <4>2
    <3> QED
      BY <1>1, <1>4, <3>1, <3>2, <3>3, <3>4, <3>5, <3>6 DEF From
  <2>6. Progress(r)'
    BY <1>1, <1>4, <1>7, <2>4, <2>5 DEF Progress
  <2>7. Returned(r)'
    BY <2>1 DEF Returned
  <2> QED
    BY <1>19, <1>20, <1>21, <2>2, <2>3, <2>6, <2>7 DEF RankInv
<1> QED
  BY <1>22, <1>23

\* A rank that keeps its groups, and neither builds nor has returned.
LEMMA KeptInv ==
  ASSUME GroupsInv, NEW r \in World, r \notin broken, groups'[r] = groups[r],
         dirty' = dirty, status'[r] # "building", status'[r] # "returned"
  PROVE  RankInv(r)'
<1>1. OneLayout(r)' /\ FirstTp(r)' /\ Dirtied(r)'
  BY DEF GroupsInv, RankInv, OneLayout, FirstTp, Dirtied
<1>2. Progress(r)' /\ Returned(r)'
  BY DEF Progress, Returned
<1> QED
  BY <1>1, <1>2 DEF RankInv

\* Building a group, on some ranks in vain.
LEMMA BuildInv ==
  ASSUME GroupsInv, NEW n \in Name, NEW failing, Build(n, failing) PROVE GroupsInv'
<1>1. /\ UNCHANGED <<layout, dirty, retried, broken>> /\ layout \in Layouts
      /\ dirty \subseteq World /\ retried \subseteq World /\ broken \subseteq World
      /\ groups \in [World -> [Name -> Seq(World)]] /\ todo \in [World -> Seq(Name)]
      /\ \A r \in World : todo[r] # <<>> /\ status[r] = "building"
  BY DEF Build, AtGroup, GroupsInv, GroupsTypeOK
<1>2. groups' \in [World -> [Name -> Seq(World)]]
  <2>1. \A r \in World : GroupOf(layout, n, r) \in Seq(World)
    BY <1>1, GroupOfIs
  <2>2. \A r \in World :
          [groups[r] EXCEPT ![n] = GroupOf(layout, n, r)] \in [Name -> Seq(World)]
    BY <1>1, <2>1
  <2>3. \A r \in World :
          (IF r \in failing THEN groups[r]
           ELSE [groups[r] EXCEPT ![n] = GroupOf(layout, n, r)]) \in [Name -> Seq(World)]
    BY <1>1, <2>2
  <2> QED
    BY <2>3 DEF Build
<1>3. ASSUME NEW r \in World, r \in failing
      PROVE  /\ groups'[r] = groups[r] /\ status'[r] = "failed" /\ todo'[r] = <<>>
             /\ r \notin broken => RankInv(r)'
  BY <1>1, <1>3, KeptInv DEF Build
<1>4. todo' \in [World -> Seq(Name)]
  <2>1. /\ todo' = [r \in World |-> IF r \in failing THEN <<>> ELSE Tail(todo[r])]
        /\ <<>> \in Seq(Name)
    BY DEF Build
  <2>2. \A r \in World : Tail(todo[r]) \in Seq(Name)
    BY <1>1
  <2> QED
    BY <2>1, <2>2
<1>5. status' \in [World -> {"idle", "building", "returned", "refused", "failed"}]
  <2>1. \A r \in World : Ending(r) \in {"returned", "refused"}
    BY DEF Ending
  <2> QED
    BY <2>1 DEF Build
<1>6. \A r \in World : r \notin broken => RankInv(r)'
  BY <1>3, BuiltInv
<1>7. ASSUME NEW r \in World, status'[r] = "building" PROVE todo'[r] # <<>>
  <2>1. r \notin failing /\ Len(todo[r]) # 1 /\ todo'[r] = Tail(todo[r])
    <3>1. Ending(r) # "building"
      BY DEF Ending
    <3> QED
      BY <1>7, <3>1 DEF Build
  <2>2. PICK q : q = todo[r]
    OBVIOUS
  <2>3. q \in Seq(Name) /\ q # <<>> /\ Len(q) # 1
    BY <1>1, <2>1, <2>2
  <2>4. Len(q) \in Nat /\ Len(q) # 0
    BY <2>3
  <2>5. Len(Tail(q)) = Len(q) - 1
    BY <2>3, HeadTailProperties
  <2>6. Len(Tail(q)) # 0
    BY <2>3, <2>4, <2>5
  <2>7. Tail(q) # <<>>
    <3>1. Len(<<>>) = 0
      OBVIOUS
    <3> QED
      BY <2>6, <3>1
  <2> QED
    BY <2>1, <2>2, <2>7
<1>8. GroupsTypeOK'
  BY <1>1, <1>2, <1>4, <1>5, <1>7 DEF GroupsTypeOK
<1>9. ASSUME NEW r \in World, status'[r] = "refused", r \notin retried PROVE FALSE
  <2>1. r \notin broken
    BY <1>1, <1>9 DEF GroupsInv, Broken
  <2>2. PICK j \in 1 .. Len(Needed(layout)) : From(r, j)
    BY <1>1, <2>1 DEF GroupsInv, RankInv, Progress
  <2>3. \A m \in Absent(layout) : groups[r][m] = <<>>
    BY <1>9, <2>2 DEF From
  <2>4. status'[r] # "refused"
    BY <2>3 DEF Build, Ending
  <2> QED
    BY <1>9, <2>4
<1>10. CleanupSuffices'
  BY <1>1, <1>9 DEF CleanupSuffices
<1>11. ASSUME NEW r \in World, r \in broken PROVE Broken(r)'
  <2>1. r \in dirty /\ r \in retried
    BY <1>1, <1>11 DEF GroupsInv, Broken
  <2> QED
    BY <1>1, <2>1 DEF Broken, Dirtied
<1> QED
  BY <1>1, <1>6, <1>8, <1>10, <1>11 DEF GroupsInv

\* Ranks that give up: one that refuses a group found it there, which it does
\* only when it called before.
LEMMA GiveUpInv == ASSUME GroupsInv, GiveUp PROVE GroupsInv'
<1>1. /\ UNCHANGED <<layout, groups, dirty, retried, broken>>
      /\ \A r \in World : todo'[r] = <<>>
      /\ \A r \in World : status'[r] =
           IF status[r] # "building" THEN status[r]
           ELSE IF groups[r][Head(todo[r])] # <<>> THEN "refused" ELSE "failed"
  BY DEF GiveUp
<1>2. GroupsTypeOK'
  <2>1. todo' \in [World -> Seq(Name)]
    <3>1. <<>> \in Seq(Name)
      OBVIOUS
    <3> QED
      BY <3>1 DEF GiveUp
  <2>2. status' \in [World -> {"idle", "building", "returned", "refused", "failed"}]
    BY DEF GiveUp, GroupsInv, GroupsTypeOK
  <2>3. \A r \in World : status'[r] # "building"
    BY <1>1
  <2> QED
    BY <1>1, <2>1, <2>2, <2>3 DEF GroupsInv, GroupsTypeOK
<1>3. ASSUME NEW r \in World, status'[r] = "refused" PROVE r \in retried
  <2>1. CASE status[r] = "refused"
    BY <2>1 DEF GroupsInv, CleanupSuffices
  <2>2. CASE status[r] # "refused" /\ r \in broken
    <3>1. status[r] = "building"
      BY <1>1, <1>3, <2>2
    <3> QED
      BY <2>2, <3>1 DEF GroupsInv, Broken
  <2>3. CASE status[r] # "refused" /\ r \notin broken
    <3>1. status[r] = "building" /\ groups[r][Head(todo[r])] # <<>>
      BY <1>1, <1>3, <2>3
    <3>2. todo[r] \in Seq(Name) /\ todo[r] # <<>> /\ layout \in Layouts
      BY <3>1 DEF GroupsInv, GroupsTypeOK
    <3>3. PICK s : s = Needed(layout)
      OBVIOUS
    <3>4. PICK c \in 5 .. 7 : c = Len(s)
      BY <3>2, <3>3, NeededAre
    <3>5. PICK j \in 1 .. c : From(r, j)
      BY <2>3, <3>1, <3>3, <3>4 DEF GroupsInv, RankInv, Progress
    <3>6. Len(todo[r]) = c - j + 1
      BY <3>3, <3>4, <3>5 DEF From
    <3>7. 1 \in 1 .. Len(todo[r])
      BY <3>4, <3>6
    <3>8. todo[r][1] = s[j]
      <4>1. todo[r][1] = s[j + 1 - 1]
        BY <3>3, <3>5, <3>7 DEF From
      <4> QED
        BY <3>4, <4>1
    <3>9. Head(todo[r]) = s[j]
      BY <3>2, <3>8
    <3>10. j \in j .. Len(s)
      BY <3>4
    <3> QED
      BY <3>1, <3>3, <3>5, <3>9, <3>10 DEF From
  <2> QED
    BY <2>1, <2>2, <2>3
<1>4. CleanupSuffices'
  BY <1>1, <1>3 DEF CleanupSuffices
<1>5. ASSUME NEW r \in World, r \notin broken PROVE RankInv(r)'
  <2>1. CASE status'[r] = "returned"
    <3>1. status[r] = "returned"
      BY <1>1, <2>1
    <3>2. OneLayout(r)' /\ FirstTp(r)' /\ Dirtied(r)'
      BY <1>1, <1>5 DEF GroupsInv, RankInv, OneLayout, FirstTp, Dirtied
    <3>3. Progress(r)'
      BY <2>1 DEF Progress
    <3>4. Returned(r)'
      BY <1>1, <1>5, <3>1 DEF GroupsInv, RankInv, Returned
    <3> QED
      BY <3>2, <3>3, <3>4 DEF RankInv
  <2>2. CASE status'[r] # "returned"
    <3>1. status'[r] # "building"
      BY <1>1
    <3> QED
      BY <1>1, <1>5, <2>2, <3>1, KeptInv
  <2> QED
    BY <2>1, <2>2
<1>6. ASSUME NEW r \in World, r \in broken PROVE Broken(r)'
  <2>1. status'[r] # "idle" => status[r] # "idle"
    BY <1>1
  <2>2. Broken(r)
    BY <1>6 DEF GroupsInv
  <2> QED
    BY <1>1, <2>1, <2>2 DEF Broken, Dirtied
<1> QED
  BY <1>1, <1>2, <1>4, <1>5, <1>6 DEF GroupsInv

\* A cleanup that returns on a rank leaves no group there, whatever there was.
LEMMA CleanupInv ==
  ASSUME GroupsInv, NEW at \in DestroyFailures, Cleanup(at) PROVE GroupsInv'
<1>1. PICK raising : raising = DOMAIN at
  OBVIOUS
<1>2. /\ raising \subseteq World /\ \A r \in raising : at[r] \in Name
  BY <1>1, LayoutAssumption
<1>3. /\ UNCHANGED <<layout, todo>> /\ dirty' = dirty \cap raising
      /\ retried' = retried \cap raising /\ broken' = raising
      /\ \A r \in World : status'[r] = "idle"
      /\ status' \in [World -> {"idle", "building", "returned", "refused", "failed"}]
      /\ groups' = [r \in World |-> [n \in Name |->
           IF n \in Gone(at, r) THEN <<>> ELSE groups[r][n]]]
      /\ \A r \in raising : groups[r][at[r]] # <<>>
  BY <1>1 DEF Cleanup
<1>4. /\ layout \in Layouts /\ todo \in [World -> Seq(Name)]
      /\ groups \in [World -> [Name -> Seq(World)]]
      /\ dirty \subseteq World /\ retried \subseteq World
  BY DEF GroupsInv, GroupsTypeOK
<1>5. ASSUME NEW r \in World, r \notin raising, NEW n \in Name PROVE groups'[r][n] = <<>>
  <2>1. \E k \in 1 .. 7 : Destroyed[k] = n /\ Len(Destroyed) = 7
    <3>1. /\ Len(Destroyed) = 7 /\ Destroyed[1] = "tp" /\ Destroyed[2] = "dcp"
          /\ Destroyed[3] = "pcp" /\ Destroyed[4] = "pp" /\ Destroyed[5] = "dp"
          /\ Destroyed[6] = "ep" /\ Destroyed[7] = "eplb"
      BY DEF Destroyed
    <3>2. n \in {"tp", "dcp", "pcp", "pp", "dp", "ep", "eplb"}
      BY DEF Name
    <3> QED
      BY <3>1, <3>2
  <2>2. n \in Gone(at, r)
    BY <1>1, <1>5, <2>1 DEF Gone
  <2> QED
    BY <1>3, <2>2
<1>6. GroupsTypeOK'
  <2>1. <<>> \in Seq(World)
    OBVIOUS
  <2>2. groups' \in [World -> [Name -> Seq(World)]]
    BY <1>3, <1>4, <2>1
  <2> QED
    BY <1>2, <1>3, <1>4, <2>2 DEF GroupsTypeOK
<1>7. CleanupSuffices'
  BY <1>3 DEF CleanupSuffices
<1>8. ASSUME NEW r \in World, r \notin raising PROVE RankInv(r)'
  <2>1. OneLayout(r)' /\ FirstTp(r)' /\ Dirtied(r)'
    BY <1>3, <1>4, <1>5, <1>8 DEF OneLayout, FirstTp, Dirtied
  <2>2. Progress(r)' /\ Returned(r)'
    BY <1>3 DEF Progress, Returned
  <2> QED
    BY <2>1, <2>2 DEF RankInv
<1>9. ASSUME NEW r \in World, r \in raising PROVE Broken(r)'
  <2>1. r \in dirty
    BY <1>2, <1>3, <1>9, AllDirtied DEF Dirtied
  <2> QED
    BY <1>3, <1>9, <2>1 DEF Broken, Dirtied
<1> QED
  BY <1>3, <1>6, <1>7, <1>8, <1>9 DEF GroupsInv

LEMMA ReconfigureInv ==
  ASSUME GroupsInv, NEW l \in Layouts, Reconfigure(l) PROVE GroupsInv'
<1>1. /\ UNCHANGED <<groups, todo, dirty, retried, broken>> /\ layout' = l
      /\ \A r \in World : status'[r] = "idle"
      /\ status' \in [World -> {"idle", "building", "returned", "refused", "failed"}]
  BY DEF Reconfigure
<1>2. GroupsTypeOK'
  BY <1>1 DEF GroupsInv, GroupsTypeOK
<1>3. CleanupSuffices'
  BY <1>1 DEF CleanupSuffices
<1>4. \A r \in World : r \notin broken => RankInv(r)'
  BY <1>1, KeptInv
<1>5. \A r \in World : r \in broken => Broken(r)'
  BY <1>1 DEF GroupsInv, Broken, Dirtied
<1> QED
  BY <1>1, <1>2, <1>3, <1>4, <1>5 DEF GroupsInv

\* Every step keeps the invariant.
LEMMA GroupsStepInv == GroupsInv /\ [GroupsNext]_groupsVars => GroupsInv'
<1> SUFFICES ASSUME GroupsInv, [GroupsNext]_groupsVars PROVE GroupsInv'
  OBVIOUS
<1>1. CASE Ensure
  BY <1>1, EnsureInv
<1>2. CASE \E at \in DestroyFailures : Cleanup(at)
  BY <1>2, CleanupInv
<1>3. CASE GiveUp
  BY <1>3, GiveUpInv
<1>4. CASE \E n \in Name, failing \in BuildFailures : Build(n, failing)
  BY <1>4, BuildInv
<1>5. CASE \E l \in Layouts : Reconfigure(l)
  BY <1>5, ReconfigureInv
<1>6. CASE UNCHANGED groupsVars
  <2>1. UNCHANGED <<layout, groups, todo, status, dirty, retried, broken>>
    BY <1>6 DEF groupsVars
  <2>2. GroupsTypeOK' /\ CleanupSuffices'
    BY <2>1 DEF GroupsInv, GroupsTypeOK, CleanupSuffices
  <2>3. ASSUME NEW r \in World, r \notin broken PROVE RankInv(r)'
    <3>1. OneLayout(r)' /\ FirstTp(r)' /\ Dirtied(r)'
      BY <2>1, <2>3 DEF GroupsInv, RankInv, OneLayout, FirstTp, Dirtied
    <3>2. Progress(r)'
      BY <2>1, <2>3 DEF GroupsInv, RankInv, Progress, From
    <3>3. Returned(r)'
      BY <2>1, <2>3 DEF GroupsInv, RankInv, Returned
    <3> QED
      BY <3>1, <3>2, <3>3 DEF RankInv
  <2>4. \A r \in World : r \in broken => Broken(r)'
    BY <2>1 DEF GroupsInv, Broken, Dirtied
  <2> QED
    BY <2>1, <2>2, <2>3, <2>4 DEF GroupsInv
<1> QED
  BY <1>1, <1>2, <1>3, <1>4, <1>5, <1>6 DEF GroupsNext

LEMMA GroupsInvariant == GroupsSpec => []GroupsInv
BY GroupsInitInv, GroupsStepInv, PTL DEF GroupsSpec

-----------------------------------------------------------------------------
\* What the ranks hold, have yet to build and have come to is what the code keeps
\* in its globals, and a rank that builds has a group to build.
THEOREM GroupsTypeCorrect == GroupsSpec => []GroupsTypeOK
<1>1. GroupsInv => GroupsTypeOK
  BY DEF GroupsInv
<1> QED
  BY <1>1, GroupsInvariant, PTL

\* Once cleaned up, an engine starts in any configuration: no rank finds a group
\* already initialized (the assertions of initialize_model_parallel), whatever
\* starts failed before on whatever ranks.
THEOREM CleanupAlwaysSuffices == GroupsSpec => []CleanupSuffices
<1>1. GroupsInv => CleanupSuffices
  BY DEF GroupsInv
<1> QED
  BY <1>1, GroupsInvariant, PTL

\* An ensure_model_parallel_initialized that returned on every rank left or found
\* the TP, DCP, PCP and PP groups of the configuration asked for.
THEOREM EnsureAlwaysVouches == GroupsSpec => []EnsureVouches
<1>1. GroupsInv => EnsureVouches
  BY DEF GroupsInv, RankInv, Returned, EnsureVouches, Inner
<1> QED
  BY <1>1, GroupsInvariant, PTL
-----------------------------------------------------------------------------
(* The ranks of a group are those along its axes.                          *)

\* Where rank q stands in the order that groups of a kind are cut from.
Place(l, n, q) ==
  LET a == Swap(l, n)[1]
      b == Swap(l, n)[2]
  IN At(Swapped(Dims(l), a, b), Swapped(Coords(Dims(l), q), a, b))

LEMMA PlaceIs ==
  ASSUME NEW l \in Layouts, NEW n \in Name, NEW q \in World
  PROVE  /\ Place(l, n, q) \in 0 .. WorldSize - 1
         /\ \A i \in 1 .. WorldSize : Flat(l, n)[i] = q <=> i = Place(l, n, q) + 1
<1> DEFINE d == Dims(l)
           ab == Swap(l, n)
           e == Swapped(d, ab[1], ab[2])
           flat == Flat(l, n)
           p == Place(l, n, q)
<1>1. Shape(d) /\ Volume(d) = WorldSize /\ ab \in Swaps
  BY DimsAre, SizesAre
<1>2. /\ Shape(e) /\ Volume(e) = WorldSize
      /\ \A x : \A k \in 1 .. 5 :
           Swapped(Swapped(x, ab[1], ab[2]), ab[1], ab[2])[k] = x[k]
  BY <1>1, SwappedShape
<1>3. flat = Transposed(d, ab[1], ab[2])
  BY DEF Flat
<1>4. /\ \A i \in 1 .. WorldSize : \A k \in 1 .. 5 :
           Coords(d, flat[i])[k] = Swapped(Coords(e, i - 1), ab[1], ab[2])[k]
      /\ \E i \in 1 .. WorldSize : flat[i] = q
  BY <1>1, <1>3, TransposedHas
<1>5. p = At(e, Swapped(Coords(d, q), ab[1], ab[2]))
  BY DEF Place
<1>6. WorldSize \in Nat /\ \A i \in 1 .. WorldSize : i - 1 \in 0 .. WorldSize - 1
  BY LayoutAssumption
<1>7. ab[1] \in 1 .. 5 /\ ab[2] \in 1 .. 5
  BY <1>1 DEF Swaps
<1> HIDE DEF d, ab, e, flat, p
<1>8. ASSUME NEW i \in 1 .. WorldSize, flat[i] = q PROVE p = i - 1
  <2> DEFINE x == Coords(e, i - 1)
             y == Coords(d, q)
  <2>1. \A k \in 1 .. 5 : y[k] = Swapped(x, ab[1], ab[2])[k]
    BY <1>4, <1>8
  <2>2. At(e, x) = i - 1
    BY <1>2, <1>6, AtOfCoords
  <2> HIDE DEF x, y
  <2>3. \A k \in 1 .. 5 :
          Swapped(y, ab[1], ab[2])[k] = Swapped(Swapped(x, ab[1], ab[2]), ab[1], ab[2])[k]
    BY <1>7, <2>1 DEF Swapped
  <2>4. \A k \in 1 .. 5 : Swapped(y, ab[1], ab[2])[k] = x[k]
    BY <1>2, <2>3
  <2>5. At(e, Swapped(y, ab[1], ab[2])) = At(e, x)
    BY <2>4, SameCoords
  <2> QED
    BY <1>5, <2>2, <2>5 DEF y
<1>9. PICK j \in 1 .. WorldSize : flat[j] = q
  BY <1>4
<1>10. p = j - 1
  BY <1>8, <1>9
<1>11. \A i \in 1 .. WorldSize : flat[i] = q <=> i = p + 1
  BY <1>6, <1>8, <1>9, <1>10
<1> QED
  BY <1>6, <1>10, <1>11 DEF p, flat

\* A rank's group is the chunk of that order which its place is in.
LEMMA GroupAt ==
  ASSUME NEW l \in Layouts, NEW n \in Name, NEW r \in World, NEW h,
         h = Place(l, n, r) \div Size(l, n)
  PROVE  /\ h \in Nat
         /\ \A j \in 1 .. Size(l, n) :
              /\ h * Size(l, n) + j \in 1 .. WorldSize
              /\ GroupOf(l, n, r)[j] = Flat(l, n)[h * Size(l, n) + j]
<1>1. PICK size \in Nat \ {0} : size = Size(l, n)
  BY SizesAre
<1>2. PICK g \in Nat \ {0} :
        /\ \A j \in 1 .. size :
             /\ (g - 1) * size + j \in 1 .. WorldSize
             /\ GroupOf(l, n, r)[j] = Flat(l, n)[(g - 1) * size + j]
        /\ \E j \in 1 .. size : GroupOf(l, n, r)[j] = r
  <2>1. \E g \in Nat \ {0} : IsChunk(l, n, r, g)
    BY GroupOfIs
  <2> QED
    BY <1>1, <2>1 DEF IsChunk
<1>3. PICK j \in 1 .. size : GroupOf(l, n, r)[j] = r
  BY <1>2
<1>4. PICK c \in Nat : c = g - 1
  BY <1>2
<1>5. (g - 1) * size + j \in 1 .. WorldSize /\ Flat(l, n)[(g - 1) * size + j] = r
  BY <1>2, <1>3
<1>6. (g - 1) * size + j = Place(l, n, r) + 1 /\ Place(l, n, r) \in 0 .. WorldSize - 1
  BY <1>5, PlaceIs
<1>7. Place(l, n, r) = size * c + (j - 1)
  <2>1. c * size = size * c /\ size * c \in Nat
    BY <1>1, <1>4
  <2>2. Place(l, n, r) \in Int
    BY <1>6
  <2>3. c * size + j = Place(l, n, r) + 1
    BY <1>4, <1>6
  <2> QED
    BY <2>1, <2>2, <2>3
<1>8. j - 1 \in 0 .. size - 1
  BY <1>1, <1>3
<1>9. h = c
  BY <1>1, <1>4, <1>7, <1>8, DivUnique
<1> QED
  BY <1>1, <1>2, <1>4, <1>9

\* The ranks of a group, and the order they are in.
LEMMA GroupHas ==
  ASSUME NEW l \in Layouts, NEW n \in Name, NEW r \in World, NEW size, size = Size(l, n)
  PROVE  /\ \A q \in World : q \in Range(GroupOf(l, n, r))
              <=> Place(l, n, q) \div size = Place(l, n, r) \div size
         /\ Range(GroupOf(l, n, r)) \subseteq World
         /\ \A i, j \in DOMAIN GroupOf(l, n, r) : i < j =>
              Place(l, n, GroupOf(l, n, r)[i]) < Place(l, n, GroupOf(l, n, r)[j])
         /\ \A q \in World : Place(l, n, q) \div size = Place(l, n, r) \div size =>
              GroupOf(l, n, q) = GroupOf(l, n, r)
<1> DEFINE own == GroupOf(l, n, r)
           flat == Flat(l, n)
           P(q) == Place(l, n, q)
<1>1. size \in Nat \ {0}
  BY SizesAre
<1>2. own \in Seq(World) /\ Len(own) = size /\ DOMAIN own = 1 .. size
  BY GroupOfIs
<1>3. PICK h \in Nat : h = P(r) \div size
  BY GroupAt
<1>4. \A j \in 1 .. size : h * size + j \in 1 .. WorldSize /\ own[j] = flat[h * size + j]
  BY <1>3, GroupAt
<1>5. \A q \in World : P(q) \in 0 .. WorldSize - 1
        /\ \A i \in 1 .. WorldSize : flat[i] = q <=> i = P(q) + 1
  BY PlaceIs
<1>6. Range(own) \subseteq World
  BY <1>2 DEF Range
<1>7. h * size = size * h /\ size * h \in Nat
  BY <1>1, <1>3
<1>8. \A j \in 1 .. size : own[j] \in World /\ P(own[j]) = h * size + j - 1
  <2> SUFFICES ASSUME NEW j \in 1 .. size
               PROVE  own[j] \in World /\ P(own[j]) = h * size + j - 1
    OBVIOUS
  <2>1. own[j] \in World
    BY <1>2
  <2>2. h * size + j = P(own[j]) + 1 /\ P(own[j]) \in Int
    <3>1. h * size + j \in 1 .. WorldSize /\ flat[h * size + j] = own[j]
      BY <1>4
    <3> QED
      BY <1>5, <2>1, <3>1
  <2> HIDE DEF own, P
  <2> QED
    BY <1>7, <2>1, <2>2
<1> HIDE DEF own, flat, P
<1>9. ASSUME NEW q \in World, q \in Range(own) PROVE P(q) \div size = h
  <2>1. PICK j \in 1 .. size : own[j] = q
    BY <1>2, <1>9 DEF Range
  <2>2. P(q) = size * h + (j - 1) /\ j - 1 \in 0 .. size - 1
    BY <1>1, <1>7, <1>8, <2>1
  <2> QED
    BY <1>1, <2>2, DivUnique
<1>10. ASSUME NEW q \in World, P(q) \div size = h PROVE q \in Range(own)
  <2>1. P(q) \in Nat
    BY <1>5
  <2>2. P(q) = size * h + (P(q) % size) /\ P(q) % size \in 0 .. size - 1
    BY <1>1, <1>10, <2>1, DivMod
  <2>3. PICK j \in 1 .. size : j = (P(q) % size) + 1
    BY <1>1, <2>2
  <2>4. h * size + j = P(q) + 1
    BY <1>7, <2>1, <2>2, <2>3
  <2>5. own[j] = q
    <3>1. h * size + j \in 1 .. WorldSize /\ own[j] = flat[h * size + j]
      BY <1>4
    <3> QED
      BY <1>5, <2>4, <3>1
  <2> QED
    BY <1>2, <2>5 DEF Range
<1>11. ASSUME NEW i \in DOMAIN own, NEW j \in DOMAIN own, i < j PROVE P(own[i]) < P(own[j])
  <2>1. i \in 1 .. size /\ j \in 1 .. size
    BY <1>2
  <2>2. P(own[i]) = h * size + i - 1 /\ P(own[j]) = h * size + j - 1
    BY <1>8, <2>1
  <2> QED
    BY <1>7, <1>11, <2>1, <2>2
<1>12. ASSUME NEW q \in World, P(q) \div size = h PROVE GroupOf(l, n, q) = own
  <2>1. /\ GroupOf(l, n, q) \in Seq(World) /\ Len(GroupOf(l, n, q)) = size
    BY GroupOfIs
  <2>2. \A j \in 1 .. size : GroupOf(l, n, q)[j] = flat[h * size + j]
    BY <1>12, GroupAt DEF P, flat
  <2> QED
    BY <1>2, <1>4, <2>1, <2>2
<1> QED
  BY <1>3, <1>6, <1>9, <1>10, <1>11, <1>12 DEF own, P

\* A number has one quotient and one remainder.
LEMMA DigitsUnique ==
  ASSUME NEW b \in Nat \ {0}, NEW g \in Nat, NEW h \in Nat,
         NEW u \in 0 .. b - 1, NEW v \in 0 .. b - 1
  PROVE  b * g + u = b * h + v <=> g = h /\ u = v
<1>1. (b * g + u) \div b = g /\ (b * g + u) % b = u
  BY DivUnique
<1>2. (b * h + v) \div b = h /\ (b * h + v) % b = v
  BY DivUnique
<1> QED
  BY <1>1, <1>2

\* Elements whose first coordinates are the same, and those only, lie between
\* the same multiples of the stride.
LEMMA SameHigh ==
  ASSUME NEW e, Shape(e), NEW x, Inside(e, x), NEW y, Inside(e, y), NEW m \in 2 .. 4
  PROVE  High(e, x, m) = High(e, y, m) <=> \A k \in 1 .. m : x[k] = y[k]
<1>1. /\ e[2] \in Nat \ {0} /\ e[3] \in Nat \ {0} /\ e[4] \in Nat \ {0}
      /\ x[1] \in Nat /\ x[2] \in 0 .. e[2] - 1 /\ x[3] \in 0 .. e[3] - 1
      /\ x[4] \in 0 .. e[4] - 1 /\ y[1] \in Nat /\ y[2] \in 0 .. e[2] - 1
      /\ y[3] \in 0 .. e[3] - 1 /\ y[4] \in 0 .. e[4] - 1
  BY DEF Shape, Inside
<1>2. /\ High(e, x, 2) = e[2] * x[1] + x[2] /\ High(e, y, 2) = e[2] * y[1] + y[2]
      /\ High(e, x, 3) = e[3] * High(e, x, 2) + x[3]
      /\ High(e, y, 3) = e[3] * High(e, y, 2) + y[3]
      /\ High(e, x, 4) = e[4] * High(e, x, 3) + x[4]
      /\ High(e, y, 4) = e[4] * High(e, y, 3) + y[4]
  BY DEF High
<1>3. /\ High(e, x, 2) \in Nat /\ High(e, y, 2) \in Nat
      /\ High(e, x, 3) \in Nat /\ High(e, y, 3) \in Nat
  BY PartsAre DEF Parts
<1>4. High(e, x, 2) = High(e, y, 2) <=> x[1] = y[1] /\ x[2] = y[2]
  <2>1. PICK g \in Nat, h \in Nat : g = x[1] /\ h = y[1]
    BY <1>1
  <2>2. PICK b \in Nat \ {0} : b = e[2]
    BY <1>1
  <2>3. PICK u \in 0 .. b - 1, v \in 0 .. b - 1 : u = x[2] /\ v = y[2]
    BY <1>1, <2>2
  <2>4. b * g + u = b * h + v <=> g = h /\ u = v
    BY DigitsUnique
  <2> QED
    BY <1>2, <2>1, <2>2, <2>3, <2>4
<1>5. High(e, x, 3) = High(e, y, 3) <=> High(e, x, 2) = High(e, y, 2) /\ x[3] = y[3]
  <2>1. PICK g \in Nat, h \in Nat : g = High(e, x, 2) /\ h = High(e, y, 2)
    BY <1>3
  <2>2. PICK b \in Nat \ {0} : b = e[3]
    BY <1>1
  <2>3. PICK u \in 0 .. b - 1, v \in 0 .. b - 1 : u = x[3] /\ v = y[3]
    BY <1>1, <2>2
  <2>4. b * g + u = b * h + v <=> g = h /\ u = v
    BY DigitsUnique
  <2> QED
    BY <1>2, <2>1, <2>2, <2>3, <2>4
<1>6. High(e, x, 4) = High(e, y, 4) <=> High(e, x, 3) = High(e, y, 3) /\ x[4] = y[4]
  <2>1. PICK g \in Nat, h \in Nat : g = High(e, x, 3) /\ h = High(e, y, 3)
    BY <1>3
  <2>2. PICK b \in Nat \ {0} : b = e[4]
    BY <1>1
  <2>3. PICK u \in 0 .. b - 1, v \in 0 .. b - 1 : u = x[4] /\ v = y[4]
    BY <1>1, <2>2
  <2>4. b * g + u = b * h + v <=> g = h /\ u = v
    BY DigitsUnique
  <2> QED
    BY <1>2, <2>1, <2>2, <2>3, <2>4
<1>7. CASE m = 2
  <2>1. \A k \in 1 .. 2 : k = 1 \/ k = 2
    OBVIOUS
  <2> QED
    BY <1>4, <1>7, <2>1
<1>8. CASE m = 3
  <2>1. \A k \in 1 .. 3 : k = 1 \/ k = 2 \/ k = 3
    OBVIOUS
  <2> QED
    BY <1>4, <1>5, <1>8, <2>1
<1>9. CASE m = 4
  <2>1. \A k \in 1 .. 4 : k = 1 \/ k = 2 \/ k = 3 \/ k = 4
    OBVIOUS
  <2> QED
    BY <1>4, <1>5, <1>6, <1>9, <2>1
<1> QED
  BY <1>7, <1>8, <1>9

LEMMA SameChunk ==
  ASSUME NEW e, Shape(e), NEW x, Inside(e, x), NEW y, Inside(e, y), NEW m \in 2 .. 4,
         NEW t, t = Strides(e)[m]
  PROVE  At(e, x) \div t = At(e, y) \div t <=> \A k \in 1 .. m : x[k] = y[k]
<1>1. t \in Nat \ {0}
  BY StridesAre
<1>2. m = 2 \/ m = 3 \/ m = 4
  OBVIOUS
<1>3. Parts(e, x, m) /\ Parts(e, y, m)
  BY <1>2, PartsAre
<1>4. At(e, x) \div t = High(e, x, m)
  BY <1>1, <1>3, DivUnique DEF Parts
<1>5. At(e, y) \div t = High(e, y, m)
  BY <1>1, <1>3, DivUnique DEF Parts
<1> QED
  BY <1>4, <1>5, SameHigh

\* Of two elements that differ in one coordinate, the one whose coordinate is less
\* comes first.
LEMMA AtMonotonic ==
  ASSUME NEW d, Shape(d), NEW x, Inside(d, x), NEW y, Inside(d, y), NEW a \in 1 .. 5,
         x[a] < y[a], \A k \in (1 .. 5) \ {a} : x[k] = y[k]
  PROVE  At(d, x) < At(d, y)
<1> DEFINE s == Strides(d)
<1>1. /\ s[1] \in Nat \ {0} /\ s[2] \in Nat \ {0} /\ s[3] \in Nat \ {0}
      /\ s[4] \in Nat \ {0} /\ s[5] \in Nat \ {0}
  BY StridesAre
<1>2. /\ x[1] \in Nat /\ x[2] \in Nat /\ x[3] \in Nat /\ x[4] \in Nat /\ x[5] \in Nat
      /\ y[1] \in Nat /\ y[2] \in Nat /\ y[3] \in Nat /\ y[4] \in Nat /\ y[5] \in Nat
  BY DEF Shape, Inside
<1>3. At(d, x) = x[1] * s[1] + x[2] * s[2] + x[3] * s[3] + x[4] * s[4] + x[5] * s[5]
  BY DEF At
<1>4. At(d, y) = y[1] * s[1] + y[2] * s[2] + y[3] * s[3] + y[4] * s[4] + y[5] * s[5]
  BY DEF At
<1> HIDE DEF s
<1>5. ASSUME NEW u \in Nat, NEW v \in Nat, NEW t \in Nat \ {0}, u < v
      PROVE  u * t \in Nat /\ v * t \in Nat /\ u * t < v * t
  <2>1. t * (u + 1) <= t * v
    BY <1>5, Grows
  <2>2. t * (u + 1) = u * t + t /\ t * v = v * t /\ u * t \in Nat
    OBVIOUS
  <2> QED
    BY <2>1, <2>2
<1>6. \A u \in Nat, t \in Nat : u * t \in Nat
  OBVIOUS
<1>7. PICK p1 \in Nat, p2 \in Nat, p3 \in Nat, p4 \in Nat, p5 \in Nat :
        /\ p1 = x[1] * s[1] /\ p2 = x[2] * s[2] /\ p3 = x[3] * s[3] /\ p4 = x[4] * s[4]
        /\ p5 = x[5] * s[5]
  BY <1>1, <1>2, <1>6
<1>8. PICK q1 \in Nat, q2 \in Nat, q3 \in Nat, q4 \in Nat, q5 \in Nat :
        /\ q1 = y[1] * s[1] /\ q2 = y[2] * s[2] /\ q3 = y[3] * s[3] /\ q4 = y[4] * s[4]
        /\ q5 = y[5] * s[5]
  BY <1>1, <1>2, <1>6
<1>9. At(d, x) = p1 + p2 + p3 + p4 + p5 /\ At(d, y) = q1 + q2 + q3 + q4 + q5
  BY <1>3, <1>4, <1>7, <1>8
<1>10. CASE a = 1
  <2>1. p1 < q1
    BY <1>1, <1>2, <1>5, <1>7, <1>8, <1>10
  <2>2. p2 = q2 /\ p3 = q3 /\ p4 = q4 /\ p5 = q5
    BY <1>7, <1>8, <1>10
  <2> QED
    BY <1>9, <2>1, <2>2
<1>11. CASE a = 2
  <2>1. p2 < q2
    BY <1>1, <1>2, <1>5, <1>7, <1>8, <1>11
  <2>2. p1 = q1 /\ p3 = q3 /\ p4 = q4 /\ p5 = q5
    BY <1>7, <1>8, <1>11
  <2> QED
    BY <1>9, <2>1, <2>2
<1>12. CASE a = 3
  <2>1. p3 < q3
    BY <1>1, <1>2, <1>5, <1>7, <1>8, <1>12
  <2>2. p1 = q1 /\ p2 = q2 /\ p4 = q4 /\ p5 = q5
    BY <1>7, <1>8, <1>12
  <2> QED
    BY <1>9, <2>1, <2>2
<1>13. CASE a = 4
  <2>1. p4 < q4
    BY <1>1, <1>2, <1>5, <1>7, <1>8, <1>13
  <2>2. p1 = q1 /\ p2 = q2 /\ p3 = q3 /\ p5 = q5
    BY <1>7, <1>8, <1>13
  <2> QED
    BY <1>9, <2>1, <2>2
<1>14. CASE a = 5
  <2>1. p5 < q5
    BY <1>1, <1>2, <1>5, <1>7, <1>8, <1>14
  <2>2. p1 = q1 /\ p2 = q2 /\ p3 = q3 /\ p4 = q4
    BY <1>7, <1>8, <1>14
  <2> QED
    BY <1>9, <2>1, <2>2
<1> QED
  BY <1>10, <1>11, <1>12, <1>13, <1>14

\* A rank's coordinates, swapped as its group's kind wants, and its place.
LEMMA PlaceCoords ==
  ASSUME NEW l \in Layouts, NEW n \in Name, NEW a, NEW b, Swap(l, n) = <<a, b>>,
         NEW e, e = Swapped(Dims(l), a, b), NEW q \in World, NEW x, x = Coords(Dims(l), q)
  PROVE  /\ Shape(e) /\ Inside(Dims(l), x) /\ At(Dims(l), x) = q
         /\ Inside(e, Swapped(x, a, b)) /\ Place(l, n, q) = At(e, Swapped(x, a, b))
<1>1. Shape(Dims(l)) /\ Volume(Dims(l)) = WorldSize /\ <<a, b>> \in Swaps
  BY DimsAre, SizesAre
<1>2. <<a, b>>[1] = a /\ <<a, b>>[2] = b
  OBVIOUS
<1>3. Shape(e) /\ \A z : Inside(Dims(l), z) => Inside(e, Swapped(z, a, b))
  BY <1>1, <1>2, SwappedShape
<1>4. Inside(Dims(l), x) /\ At(Dims(l), x) = q
  BY <1>1, AtOfCoords DEF World
<1>5. Place(l, n, q) = At(e, Swapped(x, a, b))
  BY <1>2 DEF Place
<1> QED
  BY <1>3, <1>4, <1>5

\* A TP, PCP, PP or DP group: the ranks along one axis, in its order.
LEMMA OnAxis ==
  ASSUME NEW l \in Layouts, NEW n \in Name, NEW r \in World, NEW a \in 2 .. 5,
         Swap(l, n) = <<a, 5>>, Size(l, n) = Dims(l)[a]
  PROVE  InOrder(GroupOf(l, n, r), Along(l, r, {a}))
<1> DEFINE d == Dims(l)
           e == Swapped(d, a, 5)
           C(q) == Coords(d, q)
           X(q) == Swapped(C(q), a, 5)
           own == GroupOf(l, n, r)
<1>1. Shape(d)
  BY DimsAre
<1>2. \A q \in World :
        /\ Shape(e) /\ Inside(d, C(q)) /\ At(d, C(q)) = q
        /\ Inside(e, X(q)) /\ Place(l, n, q) = At(e, X(q))
  BY PlaceCoords
<1>3. Strides(e)[4] = Size(l, n)
  <2>1. e[5] = d[a]
    BY DEF Swapped
  <2> HIDE DEF e
  <2> QED
    BY <2>1 DEF Strides
<1>4. ASSUME NEW y, NEW z
      PROVE  (\A k \in 1 .. 4 : Swapped(y, a, 5)[k] = Swapped(z, a, 5)[k])
               <=> \A k \in (1 .. 5) \ {a} : y[k] = z[k]
  <2>1. \A k \in 1 .. 4 : /\ Swapped(y, a, 5)[k] = IF k = a THEN y[5] ELSE y[k]
                          /\ Swapped(z, a, 5)[k] = IF k = a THEN z[5] ELSE z[k]
    BY DEF Swapped
  <2>2. ASSUME \A k \in (1 .. 5) \ {a} : y[k] = z[k], NEW k \in 1 .. 4
        PROVE  Swapped(y, a, 5)[k] = Swapped(z, a, 5)[k]
    <3>1. CASE k = a
      BY <2>1, <2>2, <3>1
    <3>2. CASE k # a
      BY <2>1, <2>2, <3>2
    <3> QED
      BY <3>1, <3>2
  <2>3. ASSUME \A k \in 1 .. 4 : Swapped(y, a, 5)[k] = Swapped(z, a, 5)[k],
               NEW k \in (1 .. 5) \ {a}
        PROVE  y[k] = z[k]
    <3>1. CASE k = 5
      <4>1. a \in 1 .. 4
        BY <3>1
      <4> QED
        BY <2>1, <2>3, <3>1, <4>1
    <3>2. CASE k # 5
      <4>1. k \in 1 .. 4 /\ k # a
        BY <3>2
      <4> QED
        BY <2>1, <2>3, <4>1
    <3> QED
      BY <3>1, <3>2
  <2> QED
    BY <2>2, <2>3
<1>5. \A q \in World :
        Along(l, r, {a}) = {p \in World : \A k \in (1 .. 5) \ {a} : C(p)[k] = C(r)[k]}
  BY DEF Along, Coord
<1>6. ASSUME NEW p \in World, NEW q \in World
      PROVE  Place(l, n, p) \div Size(l, n) = Place(l, n, q) \div Size(l, n)
               <=> \A k \in (1 .. 5) \ {a} : C(p)[k] = C(q)[k]
  <2> HIDE DEF e, C
  <2>1. At(e, X(p)) \div Size(l, n) = At(e, X(q)) \div Size(l, n)
          <=> \A k \in 1 .. 4 : X(p)[k] = X(q)[k]
    BY <1>2, <1>3, SameChunk
  <2> QED
    BY <1>2, <1>4, <2>1
<1>7. Range(own) = Along(l, r, {a})
  <2>1. /\ \A q \in World : q \in Range(own)
             <=> Place(l, n, q) \div Size(l, n) = Place(l, n, r) \div Size(l, n)
        /\ Range(own) \subseteq World
    BY GroupHas
  <2>2. \A q \in World : q \in Range(own) <=> \A k \in (1 .. 5) \ {a} : C(q)[k] = C(r)[k]
    BY <1>6, <2>1
  <2> HIDE DEF own, C
  <2> QED
    BY <1>5, <2>1, <2>2
<1>8. ASSUME NEW i \in DOMAIN own, NEW j \in DOMAIN own, i < j PROVE own[i] < own[j]
  <2>1. Place(l, n, own[i]) < Place(l, n, own[j])
    BY <1>8, GroupHas
  <2>2. PICK p \in World, q \in World : p = own[i] /\ q = own[j]
    <3>1. own[i] \in Range(own) /\ own[j] \in Range(own)
      BY DEF Range
    <3>2. Range(own) \subseteq World
      BY GroupHas
    <3> QED
      BY <3>1, <3>2
  <2>3. p \in Along(l, r, {a}) /\ q \in Along(l, r, {a})
    <3>1. own[i] \in Range(own) /\ own[j] \in Range(own)
      BY DEF Range
    <3> QED
      BY <1>7, <2>2, <3>1
  <2>4. \A k \in (1 .. 5) \ {a} : C(p)[k] = C(q)[k]
    <3> HIDE DEF own, C
    <3> QED
      BY <1>5, <2>3
  <2>5. At(e, X(p)) < At(e, X(q))
    BY <1>2, <2>1, <2>2
  <2>6. \A k \in 1 .. 4 : X(p)[k] = X(q)[k]
    BY <1>4, <2>4
  <2>7. C(p)[a] < C(q)[a]
    <3>1. Parts(e, X(p), 4) /\ Parts(e, X(q), 4) /\ High(e, X(p), 4) = High(e, X(q), 4)
      <4> HIDE DEF e, X
      <4> QED
        BY <1>2, <2>6, PartsAre, SameHigh
    <3>2. Low(e, X(p), 4) < Low(e, X(q), 4)
      <4>1. PICK t : t = Strides(e)[4]
        OBVIOUS
      <4>2. t \in Nat \ {0}
        BY <1>2, <4>1, StridesAre
      <4>3. PICK h \in Nat : h = High(e, X(p), 4)
        BY <3>1 DEF Parts
      <4>4. t * h \in Nat
        BY <4>2, <4>3
      <4>5. PICK u \in Nat, v \in Nat : u = Low(e, X(p), 4) /\ v = Low(e, X(q), 4)
        BY <3>1, <4>1, <4>2 DEF Parts
      <4>6. At(e, X(p)) = t * h + u /\ At(e, X(q)) = t * h + v
        BY <3>1, <4>1, <4>3, <4>5 DEF Parts
      <4> QED
        BY <2>5, <4>4, <4>5, <4>6
    <3>3. X(p)[5] = C(p)[a] /\ X(q)[5] = C(q)[a]
      BY DEF Swapped
    <3> HIDE DEF e, X, C
    <3> QED
      BY <3>2, <3>3 DEF Low
  <2>8. At(d, C(p)) < At(d, C(q))
    <3> HIDE DEF d, C
    <3> QED
      BY <1>1, <1>2, <2>4, <2>7, AtMonotonic
  <2> QED
    BY <1>2, <2>2, <2>8
<1> QED
  BY <1>7, <1>8 DEF InOrder

\* An EP group: the ranks along the DP, PCP and TP axes, in their order.
LEMMA OnBlock ==
  ASSUME NEW l \in Layouts, NEW n \in {"ep", "eplb"}, NEW r \in World
  PROVE  InOrder(GroupOf(l, n, r), Along(l, r, {2, 4, 5}))
<1> DEFINE d == Dims(l)
           e == Swapped(d, 2, 3)
           C(q) == Coords(d, q)
           X(q) == Swapped(C(q), 2, 3)
           W(q) == Low(e, X(q), 3)
           own == GroupOf(l, n, r)
<1>0. n \in Name /\ Swap(l, n) = <<2, 3>> /\ Size(l, n) = l.dp * l.pcp * l.tp
  BY DEF Name, Swap, Size
<1>1. /\ Shape(d) /\ d[2] = l.dp /\ d[4] = l.pcp /\ d[5] = l.tp
      /\ d[2] \in Nat \ {0} /\ d[3] \in Nat \ {0} /\ d[4] \in Nat \ {0} /\ d[5] \in Nat \ {0}
  BY DimsAre
<1>2. \A q \in World :
        /\ Shape(e) /\ Inside(d, C(q)) /\ At(d, C(q)) = q
        /\ Inside(e, X(q)) /\ Place(l, n, q) = At(e, X(q))
  BY <1>0, PlaceCoords
<1>3. Strides(e)[2] = Size(l, n)
  <2>1. e[3] = d[2] /\ e[4] = d[4] /\ e[5] = d[5]
    BY DEF Swapped
  <2> HIDE DEF e, d
  <2>2. Strides(e)[2] = e[3] * e[4] * e[5]
    BY DEF Strides
  <2> QED
    BY <1>0, <1>1, <2>1, <2>2
<1>4. \A q : /\ X(q)[1] = C(q)[1] /\ X(q)[2] = C(q)[3] /\ X(q)[3] = C(q)[2]
             /\ X(q)[4] = C(q)[4] /\ X(q)[5] = C(q)[5]
  BY DEF Swapped
<1>5. ASSUME NEW p, NEW q
      PROVE  (\A k \in 1 .. 2 : X(p)[k] = X(q)[k])
               <=> \A k \in (1 .. 5) \ {2, 4, 5} : C(p)[k] = C(q)[k]
  <2>1. (\A k \in 1 .. 2 : X(p)[k] = X(q)[k]) <=> X(p)[1] = X(q)[1] /\ X(p)[2] = X(q)[2]
    <3>1. \A k \in 1 .. 2 : k = 1 \/ k = 2
      OBVIOUS
    <3> HIDE DEF X
    <3> QED
      BY <3>1
  <2>2. (\A k \in (1 .. 5) \ {2, 4, 5} : C(p)[k] = C(q)[k])
          <=> C(p)[1] = C(q)[1] /\ C(p)[3] = C(q)[3]
    <3>1. \A k \in (1 .. 5) \ {2, 4, 5} : k = 1 \/ k = 3
      OBVIOUS
    <3> HIDE DEF C
    <3> QED
      BY <3>1
  <2> HIDE DEF X, C
  <2> QED
    BY <1>4, <2>1, <2>2
<1>6. Along(l, r, {2, 4, 5})
        = {p \in World : \A k \in (1 .. 5) \ {2, 4, 5} : C(p)[k] = C(r)[k]}
  BY DEF Along, Coord
<1>7. ASSUME NEW p \in World, NEW q \in World
      PROVE  Place(l, n, p) \div Size(l, n) = Place(l, n, q) \div Size(l, n)
               <=> \A k \in (1 .. 5) \ {2, 4, 5} : C(p)[k] = C(q)[k]
  <2>1. At(e, X(p)) \div Size(l, n) = At(e, X(q)) \div Size(l, n)
          <=> \A k \in 1 .. 2 : X(p)[k] = X(q)[k]
    <3> HIDE DEF e, X
    <3> QED
      BY <1>2, <1>3, SameChunk
  <2> QED
    BY <1>2, <1>5, <2>1
<1>8. Range(own) = Along(l, r, {2, 4, 5})
  <2>1. /\ \A q \in World : q \in Range(own)
             <=> Place(l, n, q) \div Size(l, n) = Place(l, n, r) \div Size(l, n)
        /\ Range(own) \subseteq World
    BY <1>0, GroupHas
  <2>2. \A q \in World :
          q \in Range(own) <=> \A k \in (1 .. 5) \ {2, 4, 5} : C(q)[k] = C(r)[k]
    BY <1>7, <2>1
  <2> HIDE DEF own, C
  <2> QED
    BY <1>6, <2>1, <2>2
<1>9. ASSUME NEW i \in DOMAIN own, NEW j \in DOMAIN own, i < j PROVE own[i] < own[j]
  <2>1. PICK p \in World, q \in World :
          /\ p = own[i] /\ q = own[j] /\ p \in Range(own) /\ q \in Range(own)
    <3>1. own[i] \in Range(own) /\ own[j] \in Range(own)
      BY DEF Range
    <3>2. Range(own) \subseteq World
      BY <1>0, GroupHas
    <3> QED
      BY <3>1, <3>2
  <2>2. At(e, X(p)) < At(e, X(q))
    <3>1. Place(l, n, own[i]) < Place(l, n, own[j])
      BY <1>0, <1>9, GroupHas
    <3> QED
      BY <1>2, <2>1, <3>1
  <2>3. \A k \in (1 .. 5) \ {2, 4, 5} : C(p)[k] = C(q)[k]
    <3>1. p \in Along(l, r, {2, 4, 5}) /\ q \in Along(l, r, {2, 4, 5})
      BY <1>8, <2>1
    <3> HIDE DEF C
    <3> QED
      BY <1>6, <3>1
  <2>4. PICK t \in Nat \ {0}, w \in Nat \ {0} :
          /\ t = Strides(e)[3] /\ t = Strides(d)[3]
          /\ w = Strides(d)[2] /\ w = t * d[3]
          /\ Strides(e)[4] = Strides(d)[4] /\ Strides(d)[5] = 1
    <3>1. e[4] = d[4] /\ e[5] = d[5]
      BY DEF Swapped
    <3> HIDE DEF e, d
    <3>2. Strides(e)[3] = e[4] * e[5] /\ Strides(e)[4] = e[5]
      BY DEF Strides
    <3>3. Strides(d)[3] = d[4] * d[5] /\ Strides(d)[4] = d[5]
      BY DEF Strides
    <3>4. Strides(d)[3] \in Nat \ {0} /\ Strides(d)[2] \in Nat \ {0}
          /\ Strides(d)[2] = Strides(d)[3] * d[3] /\ Strides(d)[5] = 1
      BY <1>1, StridesAre
    <3> QED
      BY <3>1, <3>2, <3>3, <3>4
  <2>5. ASSUME NEW o \in World
        PROVE  /\ W(o) \in 0 .. t - 1 /\ C(o)[2] \in Nat
               /\ Low(e, X(o), 2) = t * C(o)[2] + W(o)
               /\ At(d, C(o)) = C(o)[1] * Strides(d)[1] + C(o)[2] * w + C(o)[3] * t + W(o)
    <3>1. Parts(e, X(o), 3) /\ Inside(d, C(o))
      <4> HIDE DEF e, X, C, d
      <4> QED
        BY <1>2, PartsAre
    <3>2. W(o) \in 0 .. t - 1
      BY <2>4, <3>1 DEF Parts
    <3>3. C(o)[2] \in Nat /\ C(o)[4] \in Nat /\ C(o)[5] \in Nat
      <4>1. C(o)[2] \in 0 .. d[2] - 1 /\ C(o)[4] \in 0 .. d[4] - 1 /\ C(o)[5] \in 0 .. d[5] - 1
        <5> HIDE DEF C, d
        <5> QED
          BY <3>1 DEF Inside
      <4> QED
        BY <4>1
    <3>4. X(o)[3] = C(o)[2] /\ X(o)[4] = C(o)[4] /\ X(o)[5] = C(o)[5]
      BY <1>4
    <3> HIDE DEF e, X, C, d, W
    <3>5. W(o) = Strides(e)[4] * X(o)[4] + X(o)[5]
      BY DEF Low, W
    <3>6. Low(e, X(o), 2) = Strides(e)[3] * X(o)[3] + W(o)
      BY <3>5 DEF Low
    <3>7. At(d, C(o)) = C(o)[1] * Strides(d)[1] + C(o)[2] * Strides(d)[2]
            + C(o)[3] * Strides(d)[3] + C(o)[4] * Strides(d)[4] + C(o)[5] * Strides(d)[5]
      BY DEF At
    <3>8. Strides(d)[4] \in Nat
      BY <1>1, StridesAre
    <3>9. /\ W(o) = C(o)[4] * Strides(d)[4] + C(o)[5] /\ C(o)[5] * Strides(d)[5] = C(o)[5]
          /\ C(o)[4] * Strides(d)[4] \in Nat
      BY <2>4, <3>3, <3>4, <3>5, <3>8
    <3>10. PICK u1, u2, u3 : /\ u1 = C(o)[1] * Strides(d)[1] /\ u2 = C(o)[2] * Strides(d)[2]
                             /\ u3 = C(o)[3] * Strides(d)[3]
      OBVIOUS
    <3>11. u1 \in Nat /\ u2 \in Nat /\ u3 \in Nat
      <4>1. Strides(d)[1] \in Nat /\ Strides(d)[2] \in Nat /\ Strides(d)[3] \in Nat
        BY <1>1, StridesAre
      <4>2. C(o)[1] \in Nat /\ C(o)[2] \in Nat /\ C(o)[3] \in Nat
        BY <1>1, <3>1 DEF Inside, Shape
      <4>3. \A m, k \in Nat : m * k \in Nat
        OBVIOUS
      <4> QED
        BY <3>10, <4>1, <4>2, <4>3
    <3>12. At(d, C(o)) = u1 + u2 + u3 + W(o)
      BY <3>3, <3>7, <3>9, <3>10, <3>11
    <3> QED
      BY <2>4, <3>2, <3>3, <3>4, <3>6, <3>10, <3>12
  <2>6. PICK x \in Nat, y \in Nat, u \in 0 .. t - 1, v \in 0 .. t - 1 :
          x = C(p)[2] /\ y = C(q)[2] /\ u = W(p) /\ v = W(q)
    BY <2>5
  <2>7. t * x + u < t * y + v
    <3>1. Low(e, X(p), 2) = t * x + u /\ Low(e, X(q), 2) = t * y + v
      BY <2>5, <2>6
    <3>2. Parts(e, X(p), 2) /\ Parts(e, X(q), 2) /\ High(e, X(p), 2) = High(e, X(q), 2)
      <4>1. \A k \in 1 .. 2 : X(p)[k] = X(q)[k]
        BY <1>5, <2>3
      <4> HIDE DEF e, X
      <4> QED
        BY <1>2, <4>1, PartsAre, SameHigh
    <3>3. PICK s \in Nat, h \in Nat : s = Strides(e)[2] /\ h = High(e, X(p), 2)
      <4>1. Strides(e)[2] \in Nat
        BY <1>2, StridesAre
      <4> QED
        BY <3>2, <4>1 DEF Parts
    <3>4. s * h \in Nat /\ t * x \in Nat /\ t * y \in Nat
      BY <3>3
    <3>5. At(e, X(p)) = s * h + (t * x + u) /\ At(e, X(q)) = s * h + (t * y + v)
      BY <3>1, <3>2, <3>3 DEF Parts
    <3> QED
      BY <2>2, <2>6, <3>4, <3>5
  <2>8. x * w + u < y * w + v
    <3>1. t <= w
      <4>1. t * 1 <= t * d[3]
        BY <1>1, Grows
      <4> QED
        BY <2>4, <4>1
    <3>2. x * w = w * x /\ y * w = w * y /\ w * x \in Nat /\ w * y \in Nat
          /\ t * x \in Nat /\ t * y \in Nat
      BY <2>6
    <3>3. CASE x < y
      <4>1. w * (x + 1) <= w * y
        BY <3>3, Grows
      <4>2. w * (x + 1) = w * x + w
        OBVIOUS
      <4> QED
        BY <2>6, <3>1, <3>2, <4>1, <4>2
    <3>4. CASE x = y
      BY <2>6, <2>7, <3>2, <3>4
    <3>5. CASE y < x
      <4>1. t * (y + 1) <= t * x
        BY <3>5, Grows
      <4>2. t * (y + 1) = t * y + t
        OBVIOUS
      <4> QED
        BY <2>6, <2>7, <3>2, <4>1, <4>2
    <3> QED
      BY <3>3, <3>4, <3>5
  <2>9. At(d, C(p)) < At(d, C(q))
    <3>1. C(p)[1] = C(q)[1] /\ C(p)[3] = C(q)[3]
      <4>1. 1 \in (1 .. 5) \ {2, 4, 5} /\ 3 \in (1 .. 5) \ {2, 4, 5}
        OBVIOUS
      <4> HIDE DEF C
      <4> QED
        BY <2>3, <4>1
    <3>2. PICK f \in Nat, g \in Nat : f = C(p)[1] * Strides(d)[1] /\ g = C(p)[3] * t
      <4>1. Strides(d)[1] \in Nat
        BY <1>1, StridesAre
      <4>2. C(p)[1] \in Nat /\ C(p)[3] \in Nat
        <5> HIDE DEF C, d
        <5> QED
          BY <1>1, <1>2 DEF Inside, Shape
      <4>3. \A m, k \in Nat : m * k \in Nat
        OBVIOUS
      <4> QED
        BY <2>4, <4>1, <4>2, <4>3
    <3>3. At(d, C(p)) = f + x * w + g + u /\ At(d, C(q)) = f + y * w + g + v
      BY <2>5, <2>6, <3>1, <3>2
    <3>4. x * w \in Nat /\ y * w \in Nat
      BY <2>6
    <3> QED
      BY <2>6, <2>8, <3>2, <3>3, <3>4
  <2> QED
    BY <1>2, <2>1, <2>9
<1> QED
  BY <1>8, <1>9 DEF InOrder

\* A place in a block of m * c ranks, counted in pieces of m.
LEMMA Pieces ==
  ASSUME NEW m \in Nat \ {0}, NEW c \in Nat \ {0}, NEW h \in Nat, NEW u \in 0 .. (m * c) - 1
  PROVE  u \div m \in 0 .. c - 1 /\ ((m * c) * h + u) \div m = c * h + (u \div m)
<1>1. PICK p \in Nat, s \in 0 .. m - 1 : p = u \div m /\ u = m * p + s
  BY DivMod
<1>2. p < c
  <2> SUFFICES ASSUME c <= p PROVE FALSE
    BY <1>1
  <2>1. m * c <= m * p
    BY <1>1, Grows
  <2>2. m * p \in Nat /\ m * c \in Nat
    BY <1>1
  <2> QED
    BY <1>1, <2>1, <2>2
<1>3. (m * c) * h + u = m * (c * h + p) + s
  <2>1. (m * c) * h = m * (c * h) /\ c * h \in Nat /\ m * (c * h) \in Nat
    OBVIOUS
  <2>2. m * (c * h + p) = m * (c * h) + m * p
    BY <1>1, <2>1
  <2> QED
    BY <1>1, <2>1, <2>2
<1>4. c * h + p \in Nat
  BY <1>1
<1>5. (m * (c * h + p) + s) \div m = c * h + p
  BY <1>1, <1>4, DivUnique
<1> QED
  BY <1>1, <1>2, <1>3, <1>5

\* A DCP group: the ranks of a stage and replica, PCP varying fastest, cut into
\* pieces of its size.
LEMMA InDcp ==
  ASSUME NEW l \in Layouts, NEW r \in World
  PROVE  Range(GroupOf(l, "dcp", r)) = DcpOf(l, r)
<1> DEFINE d == Dims(l)
           C(q) == Coords(d, q)
           F(q) == C(q)[5] * l.pcp + C(q)[4]
           P(q) == Place(l, "dcp", q)
           own == GroupOf(l, "dcp", r)
<1>0. "dcp" \in Name /\ Size(l, "dcp") = l.dcp
  BY DEF Name, Size
<1>1. /\ Shape(d) /\ Volume(d) = WorldSize /\ d[4] = l.pcp /\ d[5] = l.tp
      /\ l.pcp \in Nat \ {0} /\ l.tp \in Nat \ {0} /\ l.dcp \in Nat \ {0}
  BY DimsAre
<1>2. \A q \in World : Inside(d, C(q)) /\ At(d, C(q)) = q
  BY <1>1, AtOfCoords DEF World
<1>3. DcpOf(l, r) = {q \in World :
        /\ C(q)[1] = C(r)[1] /\ C(q)[2] = C(r)[2] /\ C(q)[3] = C(r)[3]
        /\ F(q) \div l.dcp = F(r) \div l.dcp}
  <2>1. Along(l, r, {4, 5}) = {q \in World : \A k \in (1 .. 5) \ {4, 5} : C(q)[k] = C(r)[k]}
    BY DEF Along, Coord
  <2>2. DcpOf(l, r) = {q \in Along(l, r, {4, 5}) : F(q) \div l.dcp = F(r) \div l.dcp}
    BY DEF DcpOf, Coord
  <2>3. \A k \in (1 .. 5) \ {4, 5} : k = 1 \/ k = 2 \/ k = 3
    OBVIOUS
  <2>4. 1 \in (1 .. 5) \ {4, 5} /\ 2 \in (1 .. 5) \ {4, 5} /\ 3 \in (1 .. 5) \ {4, 5}
    OBVIOUS
  <2> HIDE DEF C, F
  <2> QED
    BY <2>1, <2>2, <2>3, <2>4
<1>4. /\ \A q \in World : q \in Range(own) <=> P(q) \div l.dcp = P(r) \div l.dcp
      /\ Range(own) \subseteq World
  BY <1>0, GroupHas
<1>5. ASSUME NEW q \in World
      PROVE  P(q) \div l.dcp = P(r) \div l.dcp
               <=> /\ C(q)[1] = C(r)[1] /\ C(q)[2] = C(r)[2] /\ C(q)[3] = C(r)[3]
                   /\ F(q) \div l.dcp = F(r) \div l.dcp
  <2>1. CASE l.dcp > 1
    <3> DEFINE e == Swapped(d, 4, 5)
               X(o) == Swapped(C(o), 4, 5)
    <3>1. Swap(l, "dcp") = <<4, 5>>
      BY <2>1 DEF Swap
    <3>2. \A o \in World : Shape(e) /\ Inside(e, X(o)) /\ P(o) = At(e, X(o))
      BY <1>0, <3>1, PlaceCoords
    <3>3. PICK m \in Nat \ {0}, c \in Nat \ {0} : m = l.dcp /\ m * c = l.tp * l.pcp
      <4>1. (l.tp * l.pcp) % l.dcp = 0
        BY LayoutAssumption
      <4>2. PICK t \in Nat \ {0} : t = l.tp * l.pcp
        BY <1>1
      <4>3. PICK m \in Nat \ {0} : m = l.dcp
        BY <1>1
      <4>4. PICK c \in Nat : c = t \div m /\ t = m * c + (t % m)
        BY DivMod
      <4>5. t = m * c
        BY <4>1, <4>2, <4>3, <4>4
      <4>6. c # 0
        BY <4>5
      <4> QED
        BY <4>2, <4>3, <4>5, <4>6
    <3>4. Strides(e)[3] = m * c /\ Strides(e)[4] = l.pcp
      <4>1. e[4] = d[5] /\ e[5] = d[4]
        BY DEF Swapped
      <4> HIDE DEF e, d
      <4>2. Strides(e)[3] = e[4] * e[5] /\ Strides(e)[4] = e[5]
        BY DEF Strides
      <4> QED
        BY <1>1, <3>3, <4>1, <4>2
    <3>5. \A o : /\ X(o)[1] = C(o)[1] /\ X(o)[2] = C(o)[2] /\ X(o)[3] = C(o)[3]
                 /\ X(o)[4] = C(o)[5] /\ X(o)[5] = C(o)[4]
      BY DEF Swapped
    <3>6. ASSUME NEW o \in World
          PROVE  /\ F(o) \in 0 .. (m * c) - 1 /\ High(e, X(o), 3) \in Nat
                 /\ P(o) \div m = c * High(e, X(o), 3) + (F(o) \div m)
                 /\ F(o) \div m \in 0 .. c - 1
      <4>1. Parts(e, X(o), 3)
        <5> HIDE DEF e, X
        <5> QED
          BY <3>2, PartsAre
      <4>2. Low(e, X(o), 3) = F(o)
        <5>1. Low(e, X(o), 3) = l.pcp * C(o)[5] + C(o)[4]
          <6> HIDE DEF e, X, C
          <6> QED
            BY <3>4, <3>5 DEF Low
        <5>2. C(o)[5] \in Nat
          <6> HIDE DEF C, d
          <6> QED
            BY <1>1, <1>2 DEF Inside, Shape
        <5>3. PICK y \in Nat : y = C(o)[5]
          BY <5>2
        <5>4. l.pcp * y = y * l.pcp
          BY <1>1
        <5> QED
          BY <5>1, <5>3, <5>4
      <4>3. PICK h \in Nat, u \in 0 .. (m * c) - 1 : h = High(e, X(o), 3) /\ u = F(o)
        BY <3>4, <4>1, <4>2 DEF Parts
      <4>4. P(o) = (m * c) * h + u
        BY <3>2, <3>4, <4>1, <4>2, <4>3 DEF Parts
      <4>5. /\ u \div m \in 0 .. c - 1
            /\ ((m * c) * h + u) \div m = c * h + (u \div m)
        BY Pieces
      <4> HIDE DEF F, P, e, X
      <4>6. P(o) \div m = c * h + (u \div m)
        BY <4>4, <4>5
      <4>7. h \in Nat /\ u \in 0 .. (m * c) - 1
        OBVIOUS
      <4> QED
        BY <4>3, <4>5, <4>6, <4>7
    <3>7. P(q) \div m = P(r) \div m
            <=> High(e, X(q), 3) = High(e, X(r), 3) /\ F(q) \div m = F(r) \div m
      <4>1. PICK g \in Nat, u \in 0 .. c - 1 :
              g = High(e, X(q), 3) /\ u = F(q) \div m /\ P(q) \div m = c * g + u
        BY <3>6
      <4>2. PICK h \in Nat, v \in 0 .. c - 1 :
              h = High(e, X(r), 3) /\ v = F(r) \div m /\ P(r) \div m = c * h + v
        BY <3>6
      <4>3. c * g + u = c * h + v <=> g = h /\ u = v
        BY DigitsUnique
      <4> QED
        BY <4>1, <4>2, <4>3
    <3>8. High(e, X(q), 3) = High(e, X(r), 3)
            <=> C(q)[1] = C(r)[1] /\ C(q)[2] = C(r)[2] /\ C(q)[3] = C(r)[3]
      <4>1. High(e, X(q), 3) = High(e, X(r), 3) <=> \A k \in 1 .. 3 : X(q)[k] = X(r)[k]
        <5> HIDE DEF e, X
        <5> QED
          BY <3>2, SameHigh
      <4>2. \A k \in 1 .. 3 : k = 1 \/ k = 2 \/ k = 3
        OBVIOUS
      <4> HIDE DEF e, X, C
      <4> QED
        BY <3>5, <4>1, <4>2
    <3> QED
      BY <3>3, <3>7, <3>8
  <2>2. CASE l.dcp = 1
    <3>1. /\ P(q) \in Nat /\ P(r) \in Nat /\ (P(q) = P(r) => q = r)
      <4>1. /\ P(q) \in 0 .. WorldSize - 1 /\ P(r) \in 0 .. WorldSize - 1
            /\ \A i \in 1 .. WorldSize : Flat(l, "dcp")[i] = q <=> i = P(q) + 1
            /\ \A i \in 1 .. WorldSize : Flat(l, "dcp")[i] = r <=> i = P(r) + 1
        BY <1>0, PlaceIs
      <4>2. WorldSize \in Nat
        BY LayoutAssumption
      <4> HIDE DEF P
      <4>3. P(q) + 1 \in 1 .. WorldSize
        BY <4>1, <4>2
      <4> QED
        BY <4>1, <4>2, <4>3
    <3>2. P(q) \div 1 = P(q) /\ P(r) \div 1 = P(r)
      BY <3>1
    <3>3. ASSUME NEW o \in World
          PROVE  /\ C(o)[5] \in Nat /\ C(o)[4] \in 0 .. l.pcp - 1
                 /\ F(o) = l.pcp * C(o)[5] + C(o)[4] /\ F(o) \in Nat
      <4>1. C(o)[5] \in Nat /\ C(o)[4] \in 0 .. l.pcp - 1
        <5> HIDE DEF C, d
        <5> QED
          BY <1>1, <1>2 DEF Inside, Shape
      <4>2. PICK y \in Nat, z \in Nat : y = C(o)[5] /\ z = C(o)[4]
        BY <1>1, <4>1
      <4>3. l.pcp * y = y * l.pcp /\ y * l.pcp \in Nat
        BY <1>1
      <4> QED
        BY <4>1, <4>2, <4>3
    <3>4. ASSUME C(q)[1] = C(r)[1], C(q)[2] = C(r)[2], C(q)[3] = C(r)[3], F(q) = F(r)
          PROVE  q = r
      <4>1. PICK g \in Nat, u \in 0 .. l.pcp - 1 :
              g = C(q)[5] /\ u = C(q)[4] /\ F(q) = l.pcp * g + u
        BY <3>3
      <4>2. PICK h \in Nat, v \in 0 .. l.pcp - 1 :
              h = C(r)[5] /\ v = C(r)[4] /\ F(r) = l.pcp * h + v
        BY <3>3
      <4>3. g = h /\ u = v
        <5>1. PICK b \in Nat \ {0} : b = l.pcp
          BY <1>1
        <5>2. b * g + u = b * h + v <=> g = h /\ u = v
          BY <5>1, DigitsUnique
        <5> QED
          BY <3>4, <4>1, <4>2, <5>1, <5>2
      <4>4. \A k \in 1 .. 5 : k = 1 \/ k = 2 \/ k = 3 \/ k = 4 \/ k = 5
        OBVIOUS
      <4> HIDE DEF C
      <4>5. \A k \in 1 .. 5 : C(q)[k] = C(r)[k]
        BY <3>4, <4>1, <4>2, <4>3, <4>4
      <4> QED
        BY <1>2, <4>5, SameCoords
    <3>5. F(q) \div 1 = F(q) /\ F(r) \div 1 = F(r)
      BY <3>3
    <3> HIDE DEF F, P, C
    <3> QED
      BY <2>2, <3>1, <3>2, <3>4, <3>5
  <2> QED
    BY <1>1, <2>1, <2>2
<1> HIDE DEF P, F, C
<1>6. \A q \in World : q \in Range(own) <=> q \in DcpOf(l, r)
  BY <1>3, <1>4, <1>5
<1>7. Range(own) \subseteq World /\ DcpOf(l, r) \subseteq World
  BY <1>3, <1>4
<1> QED
  BY <1>6, <1>7

\* What a layout's groups are.
LEMMA LayoutOnAxes ==
  ASSUME NEW l \in Layouts, NEW r \in World
  PROVE  /\ InOrder(GroupOf(l, "tp", r), Along(l, r, {5}))
         /\ InOrder(GroupOf(l, "pcp", r), Along(l, r, {4}))
         /\ InOrder(GroupOf(l, "pp", r), Along(l, r, {3}))
         /\ InOrder(GroupOf(l, "dp", r), Along(l, r, {2}))
         /\ Range(GroupOf(l, "dcp", r)) = DcpOf(l, r)
         /\ \A q \in Range(GroupOf(l, "dcp", r)) : GroupOf(l, "dcp", q) = GroupOf(l, "dcp", r)
         /\ InOrder(GroupOf(l, "ep", r), Along(l, r, {2, 4, 5}))
         /\ GroupOf(l, "eplb", r) = GroupOf(l, "ep", r)
<1>1. /\ Dims(l)[2] = l.dp /\ Dims(l)[3] = l.pp /\ Dims(l)[4] = l.pcp /\ Dims(l)[5] = l.tp
  BY DimsAre
<1>2. /\ "tp" \in Name /\ "pcp" \in Name /\ "pp" \in Name /\ "dp" \in Name
      /\ "dcp" \in Name
  BY DEF Name
<1>3. Swap(l, "tp") = <<5, 5>> /\ Size(l, "tp") = l.tp
  BY DEF Swap, Size
<1>4. Swap(l, "pcp") = <<4, 5>> /\ Size(l, "pcp") = l.pcp
  BY DEF Swap, Size
<1>5. Swap(l, "pp") = <<3, 5>> /\ Size(l, "pp") = l.pp
  BY DEF Swap, Size
<1>6. Swap(l, "dp") = <<2, 5>> /\ Size(l, "dp") = l.dp
  BY DEF Swap, Size
<1>7. InOrder(GroupOf(l, "tp", r), Along(l, r, {5}))
  BY <1>1, <1>2, <1>3, OnAxis
<1>8. InOrder(GroupOf(l, "pcp", r), Along(l, r, {4}))
  BY <1>1, <1>2, <1>4, OnAxis
<1>9. InOrder(GroupOf(l, "pp", r), Along(l, r, {3}))
  BY <1>1, <1>2, <1>5, OnAxis
<1>10. InOrder(GroupOf(l, "dp", r), Along(l, r, {2}))
  BY <1>1, <1>2, <1>6, OnAxis
<1>11. Range(GroupOf(l, "dcp", r)) = DcpOf(l, r)
  BY InDcp
<1>12. ASSUME NEW q \in Range(GroupOf(l, "dcp", r))
       PROVE  GroupOf(l, "dcp", q) = GroupOf(l, "dcp", r)
  <2>1. PICK size : size = Size(l, "dcp")
    OBVIOUS
  <2>2. q \in World /\ Place(l, "dcp", q) \div size = Place(l, "dcp", r) \div size
    BY <1>2, <1>12, <2>1, GroupHas
  <2> QED
    BY <1>2, <2>1, <2>2, GroupHas
<1>13. InOrder(GroupOf(l, "ep", r), Along(l, r, {2, 4, 5}))
  BY OnBlock
<1>14. GroupOf(l, "eplb", r) = GroupOf(l, "ep", r)
  <2>1. GroupRanks(l, "eplb") = GroupRanks(l, "ep")
    BY DEF GroupRanks
  <2> QED
    BY <2>1 DEF GroupOf
<1> QED
  BY <1>7, <1>8, <1>9, <1>10, <1>11, <1>12, <1>13, <1>14

\* When every rank has returned from a start after a cleanup, its groups are the
\* ranks along the axes of the layout, in the order of the axis, for any layout of
\* a world of any size; the ranks of a context-parallel group agree on it.
THEOREM GroupsAlwaysOnAxes == GroupsSpec => []GroupsOnAxes
<1>1. GroupsInv => GroupsOnAxes
  <2> SUFFICES ASSUME GroupsInv, retried = {}, \A r \in World : status[r] = "returned",
                      NEW r \in World
               PROVE  /\ InOrder(groups[r]["tp"], Along(layout, r, {5}))
                      /\ InOrder(groups[r]["pcp"], Along(layout, r, {4}))
                      /\ InOrder(groups[r]["pp"], Along(layout, r, {3}))
                      /\ InOrder(groups[r]["dp"], Along(layout, r, {2}))
                      /\ Range(groups[r]["dcp"]) = DcpOf(layout, r)
                      /\ \A q \in Range(groups[r]["dcp"]) : groups[q]["dcp"] = groups[r]["dcp"]
                      /\ layout.moe => InOrder(groups[r]["ep"], Along(layout, r, {2, 4, 5}))
                      /\ layout.moe /\ layout.eplb => groups[r]["eplb"] = groups[r]["ep"]
    BY DEF GroupsOnAxes
  <2>1. layout \in Layouts
    BY DEF GroupsInv, GroupsTypeOK
  <2>2. PICK s : s = Needed(layout)
    OBVIOUS
  <2>3. ASSUME NEW q \in World, NEW i \in 1 .. Len(s)
        PROVE  groups[q][s[i]] = GroupOf(layout, s[i], q)
    <3>1. q \notin broken
      BY DEF GroupsInv, Broken
    <3> QED
      BY <2>2, <3>1 DEF GroupsInv, RankInv, Returned
  <2>4. PICK c \in 5 .. 7 :
          /\ c = Len(s) /\ s[1] = "tp" /\ s[2] = "dcp" /\ s[3] = "pcp" /\ s[4] = "pp"
          /\ s[5] = "dp" /\ (layout.moe => c >= 6 /\ s[6] = "ep")
          /\ (layout.moe /\ layout.eplb => c = 7 /\ s[7] = "eplb")
    BY <2>1, <2>2, NeededAre
  <2>5. \A q \in World :
          /\ groups[q]["tp"] = GroupOf(layout, "tp", q)
          /\ groups[q]["dcp"] = GroupOf(layout, "dcp", q)
          /\ groups[q]["pcp"] = GroupOf(layout, "pcp", q)
          /\ groups[q]["pp"] = GroupOf(layout, "pp", q)
          /\ groups[q]["dp"] = GroupOf(layout, "dp", q)
    <3>1. 1 \in 1 .. Len(s) /\ 2 \in 1 .. Len(s) /\ 3 \in 1 .. Len(s) /\ 4 \in 1 .. Len(s)
          /\ 5 \in 1 .. Len(s)
      BY <2>4
    <3> QED
      BY <2>3, <2>4, <3>1
  <2>6. ASSUME layout.moe PROVE groups[r]["ep"] = GroupOf(layout, "ep", r)
    <3>1. 6 \in 1 .. Len(s) /\ s[6] = "ep"
      BY <2>4, <2>6
    <3> QED
      BY <2>3, <3>1
  <2>7. ASSUME layout.moe /\ layout.eplb PROVE groups[r]["eplb"] = GroupOf(layout, "eplb", r)
    <3>1. 7 \in 1 .. Len(s) /\ s[7] = "eplb"
      BY <2>4, <2>7
    <3> QED
      BY <2>3, <3>1
  <2>8. Range(groups[r]["dcp"]) \subseteq World
    <3>1. "dcp" \in Name
      BY DEF Name
    <3>2. Range(GroupOf(layout, "dcp", r)) \subseteq World
      BY <2>1, <3>1, GroupHas
    <3> QED
      BY <2>5, <3>2
  <2>9. \A q \in Range(groups[r]["dcp"]) : groups[q]["dcp"] = groups[r]["dcp"]
    <3>1. \A q \in Range(groups[r]["dcp"]) :
            GroupOf(layout, "dcp", q) = GroupOf(layout, "dcp", r)
      BY <2>1, <2>5, LayoutOnAxes
    <3> QED
      BY <2>5, <2>8, <3>1
  <2>10. /\ InOrder(groups[r]["tp"], Along(layout, r, {5}))
         /\ InOrder(groups[r]["pcp"], Along(layout, r, {4}))
         /\ InOrder(groups[r]["pp"], Along(layout, r, {3}))
         /\ InOrder(groups[r]["dp"], Along(layout, r, {2}))
         /\ Range(groups[r]["dcp"]) = DcpOf(layout, r)
    BY <2>1, <2>5, LayoutOnAxes
  <2>11. layout.moe => InOrder(groups[r]["ep"], Along(layout, r, {2, 4, 5}))
    BY <2>1, <2>6, LayoutOnAxes
  <2>12. layout.moe /\ layout.eplb => groups[r]["eplb"] = groups[r]["ep"]
    BY <2>1, <2>6, <2>7, LayoutOnAxes
  <2> QED
    BY <2>9, <2>10, <2>11, <2>12
<1> QED
  BY <1>1, GroupsInvariant, PTL
=============================================================================
