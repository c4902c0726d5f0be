---------------------------- MODULE DraftLogits ----------------------------
(***************************************************************************)
(* The draft logits of DFlash2 (dflash2/speculator.py): each draft walks   *)
(* its candidates step by step (_selector_walk_kernel), and with           *)
(* probabilistic drafts one program per request and step then writes the   *)
(* scores the walk read into the row of the request's slot                 *)
(* (_cache_draft_logits_kernel).  A row holds a score for every token of   *)
(* the vocabulary and is kept between drafts and requests: instead of      *)
(* clearing it, a program overwrites the candidates it was written with    *)
(* the last time, which _cached_candidate_ids remembers.                   *)
(*                                                                         *)
(* A program is one warp, whose stores take effect in their order; the two *)
(* kernels are ordered by the stream.  Scores are terms: what was scored,  *)
(* given which token before it.  The draw is any candidate.                *)
(***************************************************************************)
EXTENDS Naturals

CONSTANTS
  Slot,        \* the request states
  MaxReqs,     \* the rows of a batch
  NumSteps,    \* num_speculative_steps
  Token,       \* the vocabulary
  TopK,        \* selector_top_k
  Candidates,  \* the lists compute_candidates may return for a step
  Draws,       \* the indices the walk may draw, step by step
  ZeroId,      \* token id 0, which _cached_candidate_ids starts with
  Anchor,      \* the token before the first step
  NoSlot,      \* -1 in sample_idx_mapping: a padded row
  NegInf

Row == 0 .. MaxReqs - 1
Step == 0 .. NumSteps - 1
Index == 0 .. TopK - 1
Score == (Token \cup {Anchor}) \X Token

ASSUME SizeAssumption == MaxReqs \in Nat /\ NumSteps \in Nat /\ TopK \in Nat \ {0}
ASSUME TokenAssumption == ZeroId \in Token /\ Anchor \notin Token
ASSUME CandidatesAssumption ==
  /\ Candidates \subseteq [Index -> Token]
  /\ Draws \subseteq [Step -> Index]
  /\ \A c \in Candidates : \A k, l \in Index : c[k] = c[l] => k = l
ASSUME MarkAssumption == NoSlot \notin Slot /\ NegInf \notin Score

VARIABLES
  keeps,    \* draft_logits is not None: drafts are probabilistic
  mapping,  \* sample_idx_mapping: the slot of each row of the batch
  cand,     \* candidate_ids of each row and step
  index,    \* the index the walk drew there
  pending,  \* the programs of the cache kernel that have not run
  logits,   \* draft_logits
  cached,   \* _cached_candidate_ids
  draft     \* the lists and draws each slot was last drafted with (history)

vars == <<keeps, mapping, cand, index, pending, logits, cached, draft>>

NoDraft == [cand |-> <<>>, index |-> <<>>]

Init ==
  /\ keeps \in BOOLEAN
  /\ mapping = [r \in Row |-> NoSlot]
  /\ cand = [r \in Row |-> <<>>]
  /\ index = [r \in Row |-> <<>>]
  /\ pending = {}
  /\ logits = [s \in Slot |-> [i \in Step |-> [t \in Token |-> NegInf]]]
  /\ cached = [s \in Slot |-> [i \in Step |-> [k \in Index |-> ZeroId]]]
  /\ draft = [s \in Slot |-> NoDraft]

-----------------------------------------------------------------------------
(* The walk.                                                               *)

\* Mutant: the walk never leaves the first candidate's scores.
PreviousStuck(idx, i) == 0

\* The index drawn at the step before, 0 at the first step.
Previous(idx, i) == IF i = 0 THEN 0 ELSE idx[i - 1]

\* The token that index names among the candidates of the step before, for which
\* the selector scores this step's (_score_edges of qwen3_dflash2.py).
Given(c, p, i) == IF i = 0 THEN Anchor ELSE c[i - 1][p]

\* The scores the walk reads at step i, of the candidates given the token
\* drawn before, and keeps for the cache kernel.
Realized(c, idx, i) ==
  [k \in Index |-> <<Given(c, Previous(idx, i), i), c[i][k]>>]

Live(m) == {r \in Row : m[r] # NoSlot}

\* The slots of the rows of a batch differ.
Mappings ==
  {m \in [Row -> Slot \cup {NoSlot}] :
     \A q, r \in Live(m) : m[q] = m[r] => q = r}

\* _generate_draft up to _sample_path: the rows of the batch get candidates and
\* a walk; a padded row is masked.  The cache kernel is launched if logits are
\* kept.
Draft ==
  /\ pending = {}
  /\ mapping' \in Mappings
  /\ \E c \in [Live(mapping') -> [Step -> Candidates]],
        x \in [Live(mapping') -> Draws] :
       /\ cand' = [r \in Row |-> IF r \in Live(mapping') THEN c[r] ELSE <<>>]
       /\ index' = [r \in Row |-> IF r \in Live(mapping') THEN x[r] ELSE <<>>]
       /\ draft' = [s \in Slot |->
            IF \E r \in Row : mapping'[r] = s
              THEN LET r == CHOOSE q \in Row : mapping'[q] = s
                   IN [cand |-> c[r], index |-> x[r]]
              ELSE draft[s]]
  /\ pending' = IF keeps THEN Live(mapping') \X Step ELSE {}
  /\ UNCHANGED <<keeps, logits, cached>>

-----------------------------------------------------------------------------
(* The cache kernel.                                                       *)

Listed(c) == {c[k] : k \in Index}

Cleaned(row, old) == [t \in Token |-> IF t \in Listed(old) THEN NegInf ELSE row[t]]

Stored(row, new, scores) ==
  [t \in Token |-> IF t \in Listed(new)
                     THEN scores[CHOOSE k \in Index : new[k] = t] ELSE row[t]]

\* The stores of one program to its row.
Rewritten(row, old, new, scores) == Stored(Cleaned(row, old), new, scores)

\* Mutant: the candidates are not remembered.
RememberedNever(old, new) == old

Remembered(old, new) == new

CacheProgram(r, i) ==
  LET s == mapping[r]
      new == cand[r][i]
  IN /\ <<r, i>> \in pending
     /\ pending' = pending \ {<<r, i>>}
     /\ logits' = [logits EXCEPT ![s][i] =
          Rewritten(@, cached[s][i], new, Realized(cand[r], index[r], i))]
     /\ cached' = [cached EXCEPT ![s][i] = Remembered(@, new)]
     /\ UNCHANGED <<keeps, mapping, cand, index, draft>>

Next == Draft \/ \E r \in Row, i \in Step : CacheProgram(r, i)

Spec == Init /\ [][Next]_vars

-----------------------------------------------------------------------------
TypeOK ==
  /\ keeps \in BOOLEAN
  /\ mapping \in Mappings
  /\ \A r \in Live(mapping) : /\ cand[r] \in [Step -> Candidates]
                              /\ index[r] \in Draws
  /\ pending \subseteq Live(mapping) \X Step
  /\ logits \in [Slot -> [Step -> [Token -> Score \cup {NegInf}]]]
  /\ cached \in [Slot -> [Step -> [Index -> Token]]]

\* The row of a slot and step is that of its last draft.
Current(s, i) ==
  keeps /\ draft[s] # NoDraft /\ \A r \in Row : mapping[r] = s => <<r, i>> \notin pending

\* However drafts of different slots follow each other, and whatever the slot's
\* row held before, a row gives weight to exactly the candidates of the slot's
\* last draft at that step, the drawn token among them.
WeightOnCandidates ==
  \A s \in Slot, i \in Step : Current(s, i) =>
    {t \in Token : logits[s][i][t] # NegInf} = Listed(draft[s].cand[i])

\* And their scores are those given the token the draft drew at the step
\* before: rejection reads the distribution the walk drew from
\* (speculator.py:181-184).
ScoresFollowTheWalk ==
  \A s \in Slot, i \in Step : Current(s, i) =>
    \A t \in Listed(draft[s].cand[i]) :
      logits[s][i][t] =
        <<IF i = 0 THEN Anchor ELSE draft[s].cand[i - 1][draft[s].index[i - 1]], t>>

F == INSTANCE FreshRows WITH rows <- logits

\* Rows rewritten in place behave as rows replaced as a whole.
ImplementsFreshRows == F!Spec
=============================================================================
