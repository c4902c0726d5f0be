---------------------------- MODULE ModelGroups ----------------------------
(***************************************************************************)
(* The process groups of model parallelism (parallel_state.py): how        *)
(* initialize_model_parallel cuts the world into groups, and the life of   *)
(* these groups over starts, failures and cleanups of an engine.           *)
(*                                                                         *)
(* The groups are module globals of each rank's process, built one after   *)
(* the other; building one is a collective call of all ranks, which ends   *)
(* in a timeout where a rank does not come.  The engine calls on all ranks *)
(* at once.                                                                *)
(***************************************************************************)
EXTENDS Integers, Sequences, Functions

CONSTANTS
  WorldSize,       \* the number of ranks
  Layouts,         \* bound: the parallel configurations an engine may be given
  BuildFailures,   \* bound: the sets of ranks on which building a group may fail
  DestroyFailures  \* bound: on which ranks the destroy of which group may raise

World == 0 .. WorldSize - 1
Name == {"tp", "dcp", "pcp", "pp", "dp", "ep", "eplb"}

\* The layout order is ExternalDP x DP x PP x PCP x TP; a dcp group lies in the
\* TP x PCP ranks of a stage.
ASSUME LayoutAssumption ==
  /\ WorldSize \in Nat \ {0}
  /\ BuildFailures \subseteq SUBSET World
  /\ \A at \in DestroyFailures :
       DOMAIN at \subseteq World /\ \A r \in DOMAIN at : at[r] \in Name
  /\ \A l \in Layouts :
       /\ \A size \in {l.ext, l.dp, l.pp, l.pcp, l.tp, l.dcp} : size \in Nat \ {0}
       /\ l.ext * l.dp * l.pp * l.pcp * l.tp = WorldSize
       /\ (l.tp * l.pcp) % l.dcp = 0
       /\ l.moe \in BOOLEAN /\ l.eplb \in BOOLEAN

VARIABLES
  layout,    \* the parallel configuration of the engine
  groups,    \* _TP, _DCP, ... of each rank: its ranks, <<>> for None
  todo,      \* the groups a rank has yet to build
  status,    \* what its last ensure_model_parallel_initialized came to
  dirty,     \* the ranks that called it since their last cleanup that returned
  retried,   \* those that called it more than once since (history)
  broken     \* the ranks whose last cleanup raised (history)

groupsVars == <<layout, groups, todo, status, dirty, retried, broken>>

GroupsInit ==
  /\ layout \in Layouts
  /\ groups = [r \in World |-> [n \in Name |-> <<>>]]
  /\ todo = [r \in World |-> <<>>]
  /\ status = [r \in World |-> "idle"]
  /\ dirty = {} /\ retried = {} /\ broken = {}

-----------------------------------------------------------------------------
(* The ranks of the groups.                                                *)

Dims(l) == <<l.ext, l.dp, l.pp, l.pcp, l.tp>>

\* In a tensor of shape d: how far apart the elements one step along each
\* dimension are, the coordinates of element i, and the element at coordinates x.
Strides(d) == <<d[2] * d[3] * d[4] * d[5], d[3] * d[4] * d[5], d[4] * d[5], d[5], 1>>
Coords(d, i) == [k \in 1 .. 5 |-> (i \div Strides(d)[k]) % d[k]]
At(d, x) ==
  LET s == Strides(d)
  IN x[1] * s[1] + x[2] * s[2] + x[3] * s[3] + x[4] * s[4] + x[5] * s[5]

Swapped(x, a, b) ==
  [k \in 1 .. 5 |-> IF k = a THEN x[b] ELSE IF k = b THEN x[a] ELSE x[k]]

\* torch.arange(world_size).reshape(dims).transpose(a, b).flatten()
Transposed(d, a, b) ==
  [i \in 1 .. WorldSize |->
     At(d, Swapped(Coords(Swapped(d, a, b), i - 1), a, b))]

\* .reshape(-1, size).unbind(0)
Unbind(flat, size) ==
  [g \in 1 .. Len(flat) \div size |-> SubSeq(flat, (g - 1) * size + 1, g * size)]

\* Mutant: a dcp group spans the TP ranks first.
DcpOrderTpFirst(l) == Transposed(Dims(l), 5, 5)

\* DCP spans PCP first, then TP.
DcpOrder(l) ==
  IF l.dcp > 1 THEN Transposed(Dims(l), 4, 5) ELSE Transposed(Dims(l), 5, 5)

GroupRanks(l, n) ==
  LET d == Dims(l)
  IN CASE n = "tp" -> Unbind(Transposed(d, 5, 5), l.tp)
       [] n = "dcp" -> Unbind(DcpOrder(l), l.dcp)
       [] n = "pcp" -> Unbind(Transposed(d, 4, 5), l.pcp)
       [] n = "pp" -> Unbind(Transposed(d, 3, 5), l.pp)
       [] n = "dp" -> Unbind(Transposed(d, 2, 5), l.dp)
       [] n \in {"ep", "eplb"} -> Unbind(Transposed(d, 2, 3), l.dp * l.pcp * l.tp)

\* GroupCoordinator.__init__: the last of the groups that has this rank.
GroupOf(l, n, r) ==
  LET gs == GroupRanks(l, n)
  IN gs[CHOOSE g \in 1 .. Len(gs) : r \in Range(gs[g])]

-----------------------------------------------------------------------------
(* Building and destroying them.                                           *)

\* The groups in the order they are built.
Needed(l) ==
  <<"tp", "dcp", "pcp", "pp", "dp">>
    \o (IF l.moe THEN <<"ep">> ELSE <<>>)
    \o (IF l.moe /\ l.eplb THEN <<"eplb">> ELSE <<>>)

\* The groups it asserts to be None although the layout has none: without
\* experts no EPLB group is asked about.
Absent(l) == IF ~l.moe THEN {"ep"} ELSE IF l.eplb THEN {} ELSE {"eplb"}

\* model_parallel_is_initialized
Initialized(r) == groups[r]["tp"] # <<>> /\ groups[r]["pp"] # <<>>

\* Mutant: the prefill context parallel size is not compared.
CheckedSizesNoPcp(l) == [tp |-> l.tp, pp |-> l.pp, dcp |-> l.dcp]

\* The sizes ensure_model_parallel_initialized compares when the groups are
\* there.
CheckedSizes(l) == [tp |-> l.tp, pp |-> l.pp, pcp |-> l.pcp, dcp |-> l.dcp]

SizesMatch(r) ==
  LET sizes == CheckedSizes(layout)
  IN \A n \in DOMAIN sizes : Len(groups[r][n]) = sizes[n]

\* ensure_model_parallel_initialized on every rank, and in it the start of
\* initialize_model_parallel.
Ensure ==
  /\ \A r \in World : status[r] # "building"
  /\ status' = [r \in World |->
       IF ~Initialized(r) THEN "building"
       ELSE IF SizesMatch(r) THEN "returned" ELSE "refused"]
  /\ todo' = [r \in World |-> IF Initialized(r) THEN <<>> ELSE Needed(layout)]
  /\ dirty' = World
  /\ retried' = retried \cup dirty
  /\ UNCHANGED <<layout, groups, broken>>

AtGroup(r, n) == status[r] = "building" /\ Head(todo[r]) = n

\* What a start comes to once it has built its last group.
Ending(r) ==
  IF \A n \in Absent(layout) : groups[r][n] = <<>> THEN "returned" ELSE "refused"

\* init_model_parallel_group on every rank.  Something in the constructor may
\* fail on a rank after the process groups were made, the device communicator
\* or the message queue: its global stays None.
Build(n, failing) ==
  /\ \A r \in World : AtGroup(r, n) /\ groups[r][n] = <<>>
  /\ groups' = [r \in World |->
       IF r \in failing THEN groups[r]
       ELSE [groups[r] EXCEPT ![n] = GroupOf(layout, n, r)]]
  /\ todo' = [r \in World |-> IF r \in failing THEN <<>> ELSE Tail(todo[r])]
  /\ status' = [r \in World |->
       IF r \in failing THEN "failed"
       ELSE IF Len(todo[r]) = 1 THEN Ending(r) ELSE "building"]
  /\ UNCHANGED <<layout, dirty, retried, broken>>

\* A rank that finds its next group there raises (assert _TP is None, and so
\* on), the ranks whose collective call it does not join run into the timeout.
GiveUp ==
  /\ \E r \in World : status[r] = "building"
  /\ ~ \E n \in Name : \A r \in World : AtGroup(r, n) /\ groups[r][n] = <<>>
  /\ status' = [r \in World |->
       IF status[r] # "building" THEN status[r]
       ELSE IF groups[r][Head(todo[r])] # <<>> THEN "refused" ELSE "failed"]
  /\ todo' = [r \in World |-> <<>>]
  /\ UNCHANGED <<layout, groups, dirty, retried, broken>>

\* Mutant: the EPLB group was added and its cleanup forgotten.
DestroyedNoEplb == <<"tp", "dcp", "pcp", "pp", "dp", "ep">>

\* The groups in the order destroy_model_parallel destroys them and sets them to
\* None.
Destroyed == <<"tp", "dcp", "pcp", "pp", "dp", "ep", "eplb">>

\* What is destroyed on rank r, where the destroy of group at[r] raises, if any.
Gone(at, r) ==
  {Destroyed[k] : k \in {k \in 1 .. Len(Destroyed) :
     r \in DOMAIN at => \A i \in 1 .. k : Destroyed[i] # at[r]}}

\* cleanup_dist_env_and_memory on every rank.  Where the destroy of a group
\* raises, this group and those after it stay.
Cleanup(at) ==
  LET raising == DOMAIN at
  IN /\ \A r \in World : status[r] # "building"
     /\ \A r \in raising : groups[r][at[r]] # <<>>
     /\ groups' = [r \in World |-> [n \in Name |->
          IF n \in Gone(at, r) THEN <<>> ELSE groups[r][n]]]
     /\ status' = [r \in World |-> "idle"]
     /\ dirty' = dirty \cap raising /\ retried' = retried \cap raising
     /\ broken' = raising
     /\ UNCHANGED <<layout, todo>>

\* The engine is given another configuration.
Reconfigure(l) ==
  /\ \A r \in World : status[r] # "building"
  /\ layout' = l
  /\ status' = [r \in World |-> "idle"]
  /\ UNCHANGED <<groups, todo, dirty, retried, broken>>

GroupsNext ==
  \/ Ensure
  \/ GiveUp
  \/ \E at \in DestroyFailures : Cleanup(at)
  \/ \E n \in Name, failing \in BuildFailures : Build(n, failing)
  \/ \E l \in Layouts : Reconfigure(l)

GroupsSpec == GroupsInit /\ [][GroupsNext]_groupsVars

-----------------------------------------------------------------------------
(* Properties.                                                             *)

GroupsTypeOK ==
  /\ layout \in Layouts
  /\ groups \in [World -> [Name -> Seq(World)]]
  /\ todo \in [World -> Seq(Name)]
  /\ status \in [World -> {"idle", "building", "returned", "refused", "failed"}]
  /\ \A r \in World : status[r] = "building" => todo[r] # <<>>
  /\ dirty \subseteq World /\ retried \subseteq World /\ broken \subseteq World

\* The place of a rank in the layout.
Coord(l, r, k) == Coords(Dims(l), r)[k]

\* The ranks that differ from r in the axes ks only.
Along(l, r, ks) ==
  {q \in World : \A k \in 1 .. 5 \ ks : Coord(l, q, k) = Coord(l, r, k)}

\* A group of these ranks in their order.
InOrder(group, ranks) ==
  Range(group) = ranks /\ \A i, j \in DOMAIN group : i < j => group[i] < group[j]

\* The ranks of one stage and replica that a dcp group of size l.dcp cuts, by
\* their position when PCP varies fastest.
DcpOf(l, r) ==
  LET place(q) == Coord(l, q, 5) * l.pcp + Coord(l, q, 4)
  IN {q \in Along(l, r, {4, 5}) : place(q) \div l.dcp = place(r) \div l.dcp}

\* When every rank has returned from its first start after a cleanup that
\* returned, its groups are the ranks that differ from it along the group's axes
\* and no others, in the order of the axis, which makes pipeline stages and
\* shards: two ranks of a group hold the same group.
GroupsOnAxes ==
  (retried = {} /\ \A r \in World : status[r] = "returned") =>
    \A r \in World :
      /\ InOrder(groups[r]["tp"], Along(layout, r, {5}))
      /\ InOrder(groups[r]["pcp"], Along(layout, r, {4}))
      /\ InOrder(groups[r]["pp"], Along(layout, r, {3}))
      /\ InOrder(groups[r]["dp"], Along(layout, r, {2}))
      /\ Range(groups[r]["dcp"]) = DcpOf(layout, r)
      /\ \A q \in Range(groups[r]["dcp"]) : groups[q]["dcp"] = groups[r]["dcp"]
      /\ layout.moe => InOrder(groups[r]["ep"], Along(layout, r, {2, 4, 5}))
      /\ layout.moe /\ layout.eplb => groups[r]["eplb"] = groups[r]["ep"]

\* When ensure_model_parallel_initialized has returned on every rank, every
\* rank holds the TP, DCP, PCP and PP groups of the configuration asked for,
\* although it found groups of an earlier one, or of a start that failed
\* half-way on some ranks; a rank whose last cleanup raised is excepted, which
\* may hold groups of two configurations.
EnsureVouches ==
  (\A r \in World : status[r] = "returned") =>
    \A r \in World \ broken, n \in {"tp", "dcp", "pcp", "pp"} :
      groups[r][n] = GroupOf(layout, n, r)

\* After a cleanup that returned, be it the second attempt, an engine can start
\* in any configuration: no rank finds a group already initialized.
CleanupSuffices == \A r \in World : status[r] = "refused" => r \in retried
=============================================================================
