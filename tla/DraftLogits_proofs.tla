------------------------- MODULE DraftLogits_proofs -------------------------
(***************************************************************************)
(* Theorems about DraftLogits, for any slots, rows, steps, vocabulary and  *)
(* lists of candidates.  The invariant adds to the properties what holds   *)
(* of rows that are not current: nothing outside the remembered candidates *)
(* has weight (Confined), so cleaning those empties the row.               *)
(***************************************************************************)
EXTENDS DraftLogits, TLAPS

\* The token a draft took the scores of step i for.
Before(d, i) == IF i = 0 THEN Anchor ELSE d.cand[i - 1][d.index[i - 1]]

Confined ==
  \A s \in Slot, i \in Step, t \in Token :
    logits[s][i][t] # NegInf => t \in Listed(cached[s][i])

DraftsTyped ==
  \A s \in Slot : draft[s] # NoDraft =>
    draft[s].cand \in [Step -> Candidates] /\ draft[s].index \in Draws

\* The batch holds the last draft of each of its slots.
BatchIsLast ==
  \A r \in Live(mapping) :
    draft[mapping[r]] = [cand |-> cand[r], index |-> index[r]]

Kept ==
  \A s \in Slot, i \in Step : Current(s, i) =>
    /\ cached[s][i] = draft[s].cand[i]
    /\ \A t \in Listed(draft[s].cand[i]) :
         logits[s][i][t] = <<Before(draft[s], i), t>>

IInv ==
  /\ TypeOK
  /\ draft \in [Slot -> {draft[s] : s \in Slot}]
  /\ DraftsTyped
  /\ BatchIsLast
  /\ Confined
  /\ Kept

-----------------------------------------------------------------------------
\* The walk reads a score for each candidate, given the token it drew before.
LEMMA RealizedScores ==
  ASSUME NEW c \in [Step -> Candidates], NEW x \in Draws, NEW i \in Step,
         NEW k \in Index
  PROVE  /\ Realized(c, x, i)[k] = <<Before([cand |-> c, index |-> x], i), c[i][k]>>
         /\ Realized(c, x, i)[k] \in Score
<1>1. c[i][k] \in Token
  BY CandidatesAssumption
<1>2. CASE i = 0
  BY <1>1, <1>2 DEF Realized, Given, Before, Score
<1>3. CASE i # 0
  <2>1. i - 1 \in Step
    BY <1>3, SizeAssumption DEF Step
  <2>2. x[i - 1] \in Index /\ c[i - 1] \in [Index -> Token]
    BY <2>1, CandidatesAssumption
  <2>3. c[i - 1][x[i - 1]] \in Token
    BY <2>2
  <2>. QED
    BY <1>1, <1>3, <2>3 DEF Realized, Given, Previous, Before, Score
<1>. QED
  BY <1>2, <1>3

\* Storing the new candidates over the cleaned old ones leaves weight on exactly
\* the new ones, if the old ones had all of it.
LEMMA RewrittenRow ==
  ASSUME NEW row \in [Token -> Score \cup {NegInf}],
         NEW old \in [Index -> Token],
         \A t \in Token : row[t] # NegInf => t \in Listed(old),
         NEW c \in [Step -> Candidates], NEW x \in Draws, NEW i \in Step
  PROVE  LET new == Rewritten(row, old, c[i], Realized(c, x, i))
         IN /\ new \in [Token -> Score \cup {NegInf}]
            /\ \A t \in Token \ Listed(c[i]) : new[t] = NegInf
            /\ \A t \in Listed(c[i]) :
                 /\ new[t] = <<Before([cand |-> c, index |-> x], i), t>>
                 /\ new[t] \in Score
<1>. DEFINE new == Rewritten(row, old, c[i], Realized(c, x, i))
            place(t) == CHOOSE k \in Index : c[i][k] = t
<1>1. \A t \in Token : Cleaned(row, old)[t] = NegInf
  BY DEF Cleaned
<1>2. \A t \in Token \ Listed(c[i]) : new[t] = NegInf
  BY <1>1 DEF Rewritten, Stored
<1>3. ASSUME NEW t \in Listed(c[i])
      PROVE  /\ t \in Token
             /\ new[t] = <<Before([cand |-> c, index |-> x], i), t>>
             /\ new[t] \in Score
  <2>1. place(t) \in Index /\ c[i][place(t)] = t
    BY DEF Listed
  <2>2. t \in Token
    BY <2>1, CandidatesAssumption
  <2>3. new[t] = Realized(c, x, i)[place(t)]
    BY <2>2 DEF Rewritten, Stored
  <2>. HIDE DEF place, new
  <2>4. /\ Realized(c, x, i)[place(t)]
             = <<Before([cand |-> c, index |-> x], i), c[i][place(t)]>>
        /\ Realized(c, x, i)[place(t)] \in Score
    BY <2>1, RealizedScores
  <2>. QED
    BY <2>1, <2>2, <2>3, <2>4
<1>4. new = [t \in Token |-> new[t]]
  BY DEF Rewritten, Stored
<1>5. new \in [Token -> Score \cup {NegInf}]
  <2>. HIDE DEF new
  <2>. QED
    BY <1>2, <1>3, <1>4
<1>. QED
  BY <1>2, <1>3, <1>5

-----------------------------------------------------------------------------
LEMMA InitInvariant == Init => IInv
<1>. SUFFICES ASSUME Init PROVE IInv
  OBVIOUS
<1>1. mapping \in Mappings /\ Live(mapping) = {}
  BY MarkAssumption DEF Init, Mappings, Live
<1>2. ZeroId \in Token
  BY TokenAssumption
<1>3. \A s \in Slot, i \in Step, t \in Token : logits[s][i][t] = NegInf
  BY DEF Init
<1>4. TypeOK
  BY <1>1, <1>2 DEF Init, TypeOK
<1>5. \A s \in Slot : draft[s] = NoDraft
  BY DEF Init
<1>6. draft \in [Slot -> {draft[s] : s \in Slot}]
  BY DEF Init
<1>7. DraftsTyped /\ Kept
  BY <1>5 DEF DraftsTyped, Kept, Current
<1>8. BatchIsLast /\ Confined
  BY <1>1, <1>3 DEF BatchIsLast, Confined
<1>. QED
  BY <1>4, <1>6, <1>7, <1>8 DEF IInv

\* A new batch: its slots' drafts change, and their rows are no longer current.
LEMMA DraftStep == IInv /\ Draft => IInv'
<1>. SUFFICES ASSUME IInv, Draft PROVE IInv'
  OBVIOUS
<1>. USE DEF IInv
<1>1. mapping' \in Mappings /\ pending = {}
  BY DEF Draft
<1>2. PICK c \in [Live(mapping') -> [Step -> Candidates]],
           x \in [Live(mapping') -> Draws] :
        /\ cand' = [r \in Row |-> IF r \in Live(mapping') THEN c[r] ELSE <<>>]
        /\ index' = [r \in Row |-> IF r \in Live(mapping') THEN x[r] ELSE <<>>]
        /\ draft' = [s \in Slot |->
             IF \E r \in Row : mapping'[r] = s
               THEN LET r == CHOOSE q \in Row : mapping'[q] = s
                    IN [cand |-> c[r], index |-> x[r]]
               ELSE draft[s]]
  BY DEF Draft
<1>3. \A r \in Live(mapping') : r \in Row /\ mapping'[r] \in Slot
  BY <1>1 DEF Mappings, Live
<1>4. \A r \in Live(mapping') : /\ cand'[r] = c[r] /\ cand'[r] \in [Step -> Candidates]
                                /\ index'[r] = x[r] /\ index'[r] \in Draws
  BY <1>2, <1>3
<1>5. TypeOK'
  <2>1. pending' \subseteq Live(mapping') \X Step
    BY DEF Draft
  <2>. QED
    BY <1>1, <1>4, <2>1 DEF TypeOK, Draft, Live, Mappings
<1>6. ASSUME NEW s \in Slot, NEW r \in Live(mapping'), mapping'[r] = s
      PROVE  draft'[s] = [cand |-> cand'[r], index |-> index'[r]]
  <2>. DEFINE q == CHOOSE p \in Row : mapping'[p] = s
  <2>1. q \in Row /\ mapping'[q] = s
    BY <1>3, <1>6
  <2>2. q \in Live(mapping')
    BY <2>1, MarkAssumption DEF Live
  <2>3. q = r
    BY <1>1, <1>6, <2>1, <2>2 DEF Mappings
  <2>4. draft'[s] = [cand |-> c[q], index |-> x[q]]
    BY <1>2, <2>1
  <2>. QED
    BY <1>4, <2>3, <2>4
<1>7. ASSUME NEW s \in Slot, ~ \E r \in Live(mapping') : mapping'[r] = s
      PROVE  draft'[s] = draft[s]
  <2>1. ~ \E r \in Row : mapping'[r] = s
    BY <1>7, MarkAssumption DEF Live
  <2>. QED
    BY <1>2, <2>1
<1>8. (draft \in [Slot -> {draft[s] : s \in Slot}])'
  BY <1>2
<1>9. BatchIsLast'
  BY <1>3, <1>6 DEF BatchIsLast
<1>10. DraftsTyped'
  <2>. SUFFICES ASSUME NEW s \in Slot, draft'[s] # NoDraft
                PROVE  draft'[s].cand \in [Step -> Candidates] /\ draft'[s].index \in Draws
    BY DEF DraftsTyped, NoDraft
  <2>1. CASE \E r \in Live(mapping') : mapping'[r] = s
    <3>1. PICK r \in Live(mapping') : mapping'[r] = s
      BY <2>1
    <3>2. draft'[s] = [cand |-> cand'[r], index |-> index'[r]]
      BY <1>6, <3>1
    <3>. QED
      BY <1>4, <3>2
  <2>2. CASE ~ \E r \in Live(mapping') : mapping'[r] = s
    <3>1. draft'[s] = draft[s]
      BY <1>7, <2>2
    <3>. QED
      BY <3>1 DEF DraftsTyped
  <2>. QED
    BY <2>1, <2>2
<1>11. Confined'
  BY DEF Confined, Draft
<1>12. Kept'
  <2>. SUFFICES ASSUME NEW s \in Slot, NEW i \in Step, Current(s, i)'
                PROVE  (/\ cached[s][i] = draft[s].cand[i]
                        /\ \A t \in Listed(draft[s].cand[i]) :
                             logits[s][i][t] = <<Before(draft[s], i), t>>)'
    BY DEF Kept
  <2>1. keeps /\ pending' = Live(mapping') \X Step
    BY DEF Current, Draft
  <2>2. ~ \E r \in Live(mapping') : mapping'[r] = s
    BY <1>3, <2>1 DEF Current
  <2>3. draft'[s] = draft[s]
    BY <1>7, <2>2
  <2>4. Current(s, i)
    BY <1>1, <2>1, <2>3 DEF Current
  <2>5. cached' = cached /\ logits' = logits
    BY DEF Draft
  <2>. QED
    BY <2>3, <2>4, <2>5 DEF Kept, Before
<1>. QED
  BY <1>5, <1>8, <1>9, <1>10, <1>11, <1>12

-----------------------------------------------------------------------------
\* What a program of the cache kernel does to the row of its slot and step.
LEMMA CacheRow ==
  ASSUME IInv, NEW r \in Row, NEW i \in Step, CacheProgram(r, i)
  PROVE  LET s == mapping[r]
         IN /\ r \in Live(mapping) /\ s \in Slot
            /\ cand[r] \in [Step -> Candidates] /\ index[r] \in Draws
            /\ cand[r][i] \in [Index -> Token]
            /\ cached' = [cached EXCEPT ![s][i] = cand[r][i]]
            /\ logits' = [logits EXCEPT ![s][i] = logits'[s][i]]
            /\ logits'[s][i] \in [Token -> Score \cup {NegInf}]
            /\ \A t \in Token \ Listed(cand[r][i]) : logits'[s][i][t] = NegInf
            /\ \A t \in Listed(cand[r][i]) :
                 /\ logits'[s][i][t] = <<Before(draft[s], i), t>>
                 /\ logits'[s][i][t] \in Score
<1>. DEFINE s == mapping[r]
            old == cached[s][i]
            new == Rewritten(logits[s][i], old, cand[r][i], Realized(cand[r], index[r], i))
<1>1. r \in Live(mapping)
  BY DEF IInv, TypeOK, CacheProgram
<1>2. s \in Slot
  BY <1>1 DEF IInv, TypeOK, Mappings, Live
<1>3. cand[r] \in [Step -> Candidates] /\ index[r] \in Draws
  BY <1>1 DEF IInv, TypeOK
<1>4. cand[r][i] \in [Index -> Token]
  BY <1>3, CandidatesAssumption
<1>5. draft[s] = [cand |-> cand[r], index |-> index[r]]
  BY <1>1 DEF IInv, BatchIsLast
<1>6. logits[s][i] \in [Token -> Score \cup {NegInf}] /\ old \in [Index -> Token]
  BY <1>2 DEF IInv, TypeOK
<1>7. \A t \in Token : logits[s][i][t] # NegInf => t \in Listed(old)
  BY <1>2 DEF IInv, Confined
<1>8. logits' = [logits EXCEPT ![s][i] = new]
  BY DEF CacheProgram
<1>9. cached' = [cached EXCEPT ![s][i] = cand[r][i]]
  BY DEF CacheProgram, Remembered
<1>10. /\ new \in [Token -> Score \cup {NegInf}]
       /\ \A t \in Token \ Listed(cand[r][i]) : new[t] = NegInf
       /\ \A t \in Listed(cand[r][i]) :
            /\ new[t] = <<Before([cand |-> cand[r], index |-> index[r]], i), t>>
            /\ new[t] \in Score
  <2>. HIDE DEF s, old
  <2>. QED
    BY <1>3, <1>6, <1>7, RewrittenRow
<1>. HIDE DEF new
<1>11. logits'[s][i] = new
  BY <1>2, <1>8 DEF IInv, TypeOK
<1>. QED
  BY <1>1, <1>2, <1>3, <1>4, <1>5, <1>8, <1>9, <1>10, <1>11

LEMMA CacheStep ==
  ASSUME IInv, NEW r \in Row, NEW i \in Step, CacheProgram(r, i)
  PROVE  IInv'
<1>. DEFINE s == mapping[r]
            new == logits'[s][i]
<1>1. /\ r \in Live(mapping) /\ s \in Slot
      /\ cand[r] \in [Step -> Candidates] /\ index[r] \in Draws
      /\ cand[r][i] \in [Index -> Token]
      /\ cached' = [cached EXCEPT ![s][i] = cand[r][i]]
      /\ logits' = [logits EXCEPT ![s][i] = new]
      /\ new \in [Token -> Score \cup {NegInf}]
      /\ \A t \in Token \ Listed(cand[r][i]) : new[t] = NegInf
      /\ \A t \in Listed(cand[r][i]) :
           /\ new[t] = <<Before(draft[s], i), t>>
           /\ new[t] \in Score
  BY CacheRow
<1>. HIDE DEF new
<1>2. /\ pending' = pending \ {<<r, i>>}
      /\ UNCHANGED <<keeps, mapping, cand, index, draft>>
  BY DEF CacheProgram
<1>3. /\ logits \in [Slot -> [Step -> [Token -> Score \cup {NegInf}]]]
      /\ cached \in [Slot -> [Step -> [Index -> Token]]]
  BY DEF IInv, TypeOK
<1>4. \A z \in Slot, j \in Step :
        /\ logits'[z][j] = IF z = s /\ j = i THEN new ELSE logits[z][j]
        /\ cached'[z][j] = IF z = s /\ j = i THEN cand[r][i] ELSE cached[z][j]
  BY <1>1, <1>3
<1>5. TypeOK'
  <2>1. /\ logits' \in [Slot -> [Step -> [Token -> Score \cup {NegInf}]]]
        /\ cached' \in [Slot -> [Step -> [Index -> Token]]]
    BY <1>1, <1>3
  <2>. QED
    BY <1>2, <2>1 DEF IInv, TypeOK, Live, Mappings
<1>6. (draft \in [Slot -> {draft[z] : z \in Slot}])'
  BY <1>2 DEF IInv
<1>7. DraftsTyped' /\ BatchIsLast'
  BY <1>2 DEF IInv, DraftsTyped, BatchIsLast, Live
<1>8. Confined'
  BY <1>1, <1>4 DEF IInv, Confined
<1>9. Kept'
  <2>. SUFFICES ASSUME NEW z \in Slot, NEW j \in Step, Current(z, j)'
                PROVE  (/\ cached[z][j] = draft[z].cand[j]
                        /\ \A t \in Listed(draft[z].cand[j]) :
                             logits[z][j][t] = <<Before(draft[z], j), t>>)'
    BY DEF Kept
  <2>1. draft' = draft
    BY <1>2
  <2>2. CASE z = s /\ j = i
    <3>1. draft[s].cand = cand[r]
      <4>1. draft[s] = [cand |-> cand[r], index |-> index[r]]
        BY <1>1 DEF IInv, BatchIsLast
      <4>. QED
        BY <4>1
    <3>. QED
      BY <1>1, <1>4, <2>1, <2>2, <3>1 DEF Before
  <2>3. CASE ~(z = s /\ j = i)
    <3>1. Current(z, j)
      BY <1>2, <2>3 DEF Current
    <3>2. /\ cached[z][j] = draft[z].cand[j]
          /\ \A t \in Listed(draft[z].cand[j]) :
               logits[z][j][t] = <<Before(draft[z], j), t>>
      BY <3>1 DEF IInv, Kept
    <3>3. logits'[z][j] = logits[z][j] /\ cached'[z][j] = cached[z][j]
      BY <1>4, <2>3
    <3>. QED
      BY <2>1, <3>2, <3>3 DEF Before
  <2>. QED
    BY <2>2, <2>3
<1>. QED
  BY <1>5, <1>6, <1>7, <1>8, <1>9 DEF IInv

LEMMA NextInvariant == IInv /\ [Next]_vars => IInv'
<1>. SUFFICES ASSUME IInv, [Next]_vars PROVE IInv'
  OBVIOUS
<1>1. CASE Draft
  BY <1>1, DraftStep
<1>2. CASE \E r \in Row, i \in Step : CacheProgram(r, i)
  BY <1>2, CacheStep
<1>3. CASE UNCHANGED vars
  <2>1. /\ UNCHANGED <<keeps, mapping, cand, index>>
        /\ UNCHANGED <<pending, logits, cached, draft>>
    BY <1>3 DEF vars
  <2>2. TypeOK' /\ (draft \in [Slot -> {draft[s] : s \in Slot}])'
    BY <2>1 DEF IInv, TypeOK, Live, Mappings
  <2>3. DraftsTyped' /\ BatchIsLast' /\ Confined'
    BY <2>1 DEF IInv, DraftsTyped, BatchIsLast, Confined, Live
  <2>4. Kept'
    BY <2>1 DEF IInv, Kept, Current, Before
  <2>. QED
    BY <2>2, <2>3, <2>4 DEF IInv
<1>. QED
  BY <1>1, <1>2, <1>3 DEF Next

LEMMA Invariant == Spec => []IInv
<1>. QED
  BY InitInvariant, NextInvariant, PTL DEF Spec

-----------------------------------------------------------------------------
\* Every variable has its type, whatever the batches and the lists.
THEOREM TypeCorrect == Spec => []TypeOK
<1>1. IInv => TypeOK
  BY DEF IInv
<1>. QED
  BY <1>1, Invariant, PTL

\* Rejection finds weight on exactly the candidates of the slot's last draft,
\* although no row is ever cleared.
THEOREM WeightsStayOnCandidates == Spec => []WeightOnCandidates
<1>1. IInv => WeightOnCandidates
  <2>. SUFFICES ASSUME IInv, NEW s \in Slot, NEW i \in Step, Current(s, i)
                PROVE  {t \in Token : logits[s][i][t] # NegInf} = Listed(draft[s].cand[i])
    BY DEF WeightOnCandidates
  <2>1. /\ cached[s][i] = draft[s].cand[i]
        /\ \A t \in Listed(draft[s].cand[i]) :
             logits[s][i][t] = <<Before(draft[s], i), t>>
    BY DEF IInv, Kept
  <2>2. \A t \in Listed(draft[s].cand[i]) : t \in Token
    BY <2>1 DEF IInv, TypeOK, Listed
  <2>3. Before(draft[s], i) \in Token \cup {Anchor}
    <3>1. draft[s].cand \in [Step -> Candidates] /\ draft[s].index \in Draws
      BY DEF IInv, DraftsTyped, Current
    <3>2. CASE i = 0
      BY <3>2 DEF Before
    <3>3. CASE i # 0
      <4>1. i - 1 \in Step
        BY <3>3, SizeAssumption DEF Step
      <4>2. draft[s].cand[i - 1] \in [Index -> Token] /\ draft[s].index[i - 1] \in Index
        BY <3>1, <4>1, CandidatesAssumption
      <4>. QED
        BY <3>3, <4>2 DEF Before
    <3>. QED
      BY <3>2, <3>3
  <2>4. \A t \in Listed(draft[s].cand[i]) : logits[s][i][t] # NegInf
    <3>1. \A t \in Listed(draft[s].cand[i]) : <<Before(draft[s], i), t>> \in Score
      BY <2>2, <2>3 DEF Score
    <3>. QED
      BY <2>1, <3>1, MarkAssumption
  <2>5. \A t \in Token : logits[s][i][t] # NegInf => t \in Listed(draft[s].cand[i])
    BY <2>1 DEF IInv, Confined
  <2>. QED
    BY <2>2, <2>4, <2>5
<1>. QED
  BY <1>1, Invariant, PTL

\* Rejection reads the scores the walk drew from.
THEOREM ScoresAreTheWalks == Spec => []ScoresFollowTheWalk
<1>1. IInv => ScoresFollowTheWalk
  BY DEF IInv, Kept, ScoresFollowTheWalk, Before
<1>. QED
  BY <1>1, Invariant, PTL

\* Rows rewritten in place implement rows replaced as a whole.
THEOREM Implementation == Spec => ImplementsFreshRows
<1>1. Init => F!Init
  BY DEF Init, F!Init
<1>2. IInv /\ [Next]_vars => [F!Next]_logits
  <2>. SUFFICES ASSUME IInv, Next PROVE F!Next \/ UNCHANGED logits
    BY DEF vars
  <2>1. CASE Draft
    BY <2>1 DEF Draft
  <2>2. ASSUME NEW r \in Row, NEW i \in Step, CacheProgram(r, i)
        PROVE  F!Next
    <3>. DEFINE s == mapping[r]
                new == logits'[s][i]
                c == cand[r][i]
    <3>1. /\ s \in Slot /\ cand[r] \in [Step -> Candidates]
          /\ c \in [Index -> Token]
          /\ logits' = [logits EXCEPT ![s][i] = new]
          /\ new \in [Token -> Score \cup {NegInf}]
          /\ \A t \in Token \ Listed(c) : new[t] = NegInf
          /\ \A t \in Listed(c) : new[t] \in Score
      BY <2>2, CacheRow
    <3>2. c \in Candidates /\ Listed(c) \subseteq Token
      BY <3>1 DEF Listed
    <3>3. F!Listed(c) = Listed(c)
      BY <3>1 DEF F!Listed, Listed
    <3>4. {t \in Token : new[t] # NegInf} = F!Listed(c)
      <4>. HIDE DEF new, c
      <4>. QED
        BY <3>1, <3>2, <3>3, MarkAssumption
    <3>5. F!Propose(s, i)
      BY <3>1, <3>2, <3>4 DEF F!Propose
    <3>. QED
      BY <3>1, <3>5 DEF F!Next
  <2>. QED
    BY <2>1, <2>2 DEF Next
<1>. QED
  BY <1>1, <1>2, Invariant, PTL DEF Spec, ImplementsFreshRows, F!Spec
=============================================================================
