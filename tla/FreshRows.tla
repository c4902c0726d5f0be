----------------------------- MODULE FreshRows -----------------------------
(***************************************************************************)
(* What the rejection of drafted tokens needs of the draft's logits: the   *)
(* row of a request and a step is replaced as a whole by each proposal,    *)
(* and gives weight to its candidates and to nothing else ("-inf because   *)
(* the cache kernel writes only the K candidates", speculator.py:181-183). *)
(* DraftLogits, which rewrites rows in place, implements it.               *)
(***************************************************************************)
CONSTANTS Slot, Step, Token, Candidates, Score, NegInf

VARIABLE rows

Init == rows = [s \in Slot |-> [i \in Step |-> [t \in Token |-> NegInf]]]

Listed(c) == {c[k] : k \in DOMAIN c}

Propose(s, i) ==
  \E c \in Candidates :
    /\ rows'[s][i] \in [Token -> Score \cup {NegInf}]
    /\ {t \in Token : rows'[s][i][t] # NegInf} = Listed(c)
    /\ rows' = [rows EXCEPT ![s][i] = rows'[s][i]]

Next == \E s \in Slot, i \in Step : Propose(s, i)

Spec == Init /\ [][Next]_rows
=============================================================================
