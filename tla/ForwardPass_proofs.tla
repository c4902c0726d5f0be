------------------------ MODULE ForwardPass_proofs -------------------------
(***************************************************************************)
(* Proofs about what a forward pass computes with: the tensors it takes    *)
(* from the stage before (PipeLink) and the pools its queries attend to    *)
(* (KpoolIndexer).                                                         *)
(*                                                                         *)
(* PipeLink, for any numbers of stages, ranks and steps and any batches: a *)
(* stage reads its own step's tensors, and the ranks of the stages         *)
(* implement StagedSteps.  The invariant: a link carries at most one step  *)
(* (Link), so what arrives is what the receiver waits for and the sender's *)
(* buffers still hold it (Contents); and the ranks of a stage are at the   *)
(* same gather, or one has yet to receive the step of the other            *)
(* (SameGathers).                                                          *)
(*                                                                         *)
(* KpoolIndexer, for any sizes of pools, batches and requests: complete    *)
(* pools are the request's own, a row attends to its own past, and the     *)
(* profile covers the logits.  The invariant: the ring holds the committed *)
(* tokens of the pool in progress (TailHeld), because the chunks of a      *)
(* prompt end with pools (Chunked); and each row took its own length       *)
(* (RowsExact), in a grid of as many rows as requests can bring (GridFits).*)
(***************************************************************************)
EXTENDS PipeLink, KpoolIndexer, FiniteSetTheorems, SequenceTheorems, WellFoundedInduction, TLAPS

-----------------------------------------------------------------------------
(* Induction, and the sequences the library puts together by recursion.    *)

\* Every set of naturals that is not empty has a least element.
LEMMA LeastNatural ==
  ASSUME NEW T \in SUBSET Nat, T # {}
  PROVE  \E n \in T : \A m \in T : n <= m
<1> DEFINE Less == {ss \in Nat \X Nat : ss[1] < ss[2]}
<1>1. IsWellFoundedOn(Less, Nat)
  BY NatLessThanWellFounded DEF OpToRel
<1>2. \A m, n \in Nat : <<m, n>> \in Less <=> m < n
  OBVIOUS
<1> HIDE DEF Less
<1>3. PICK n \in T : \A m \in T : ~ (<<m, n>> \in Less)
  BY <1>1, WFMin
<1>4. \A m \in T : m \in Nat /\ ~(m < n)
  BY <1>2, <1>3
<1> QED
  BY <1>4

\* A set of naturals that holds 0 and the successor of each of its elements holds all.
LEMMA Induction ==
  ASSUME NEW T \in SUBSET Nat, 0 \in T, \A n \in T : n + 1 \in T
  PROVE  T = Nat
<1> SUFFICES ASSUME Nat \ T # {} PROVE FALSE
  OBVIOUS
<1>1. PICK n \in Nat \ T : \A m \in Nat \ T : n <= m
  BY LeastNatural
<1>2. n # 0 /\ n - 1 \in Nat /\ n - 1 < n
  BY <1>1
<1> QED
  BY <1>1, <1>2

\* The concatenations of ever longer parts of s, given those of the shorter ones.
Concats(s, n, f) == [i \in 1 .. n |-> IF i = 1 THEN s[i] ELSE f[i - 1] \o s[i]]

LEMMA ConcatsExist ==
  ASSUME NEW s, NEW m \in Nat
  PROVE  \E f : f = Concats(s, m, f)
<1> DEFINE T == {n \in Nat : \E f : f = Concats(s, n, f)}
<1>1. 0 \in T
  <2> DEFINE f == [i \in 1 .. 0 |-> 0]
  <2>1. f = Concats(s, 0, f)
    BY DEF Concats
  <2> QED
    BY <2>1
<1>2. ASSUME NEW n \in T PROVE n + 1 \in T
  <2>1. PICK f : f = Concats(s, n, f)
    OBVIOUS
  <2> DEFINE g == Concats(s, n + 1, f)
  <2>2. \A i \in 1 .. n : g[i] = f[i]
    <3> DEFINE h == Concats(s, n, f)
    <3>1. \A i \in 1 .. n : h[i] = g[i]
      BY DEF Concats
    <3> HIDE DEF g, h
    <3>2. h = f
      BY <2>1 DEF h
    <3> QED
      BY <3>1, <3>2
  <2>3. g = Concats(s, n + 1, g)
    <3>1. \A i \in 1 .. n + 1 : i # 1 => g[i - 1] = f[i - 1]
      BY <2>2
    <3> HIDE DEF g
    <3>2. Concats(s, n + 1, f) = Concats(s, n + 1, g)
      BY <3>1 DEF Concats
    <3> QED
      BY <3>2 DEF g
  <2> QED
    BY <2>3
<1>3. T = Nat
  <2> HIDE DEF T
  <2>1. T \in SUBSET Nat
    BY DEF T
  <2> QED
    BY <1>1, <1>2, <2>1, Induction
<1> QED
  BY <1>3

\* FlattenSeq, unfolded.
LEMMA FlattenUnfolds ==
  ASSUME NEW s, Len(s) \in Nat \ {0}
  PROVE  \E f : /\ FlattenSeq(s) = f[Len(s)]
                /\ \A i \in 1 .. Len(s) :
                     f[i] = IF i = 1 THEN s[i] ELSE f[i - 1] \o s[i]
<1> DEFINE n == Len(s)
           f == CHOOSE f : f = Concats(s, n, f)
<1>1. f = Concats(s, n, f)
  BY ConcatsExist
<1>2. FlattenSeq(s) = f[n]
  BY DEF FlattenSeq, Concats
<1> HIDE DEF f
<1>3. \A i \in 1 .. n : f[i] = IF i = 1 THEN s[i] ELSE f[i - 1] \o s[i]
  <2> DEFINE g == Concats(s, n, f)
  <2>1. \A i \in 1 .. n : g[i] = IF i = 1 THEN s[i] ELSE f[i - 1] \o s[i]
    BY DEF Concats
  <2> HIDE DEF g
  <2>2. g = f
    BY <1>1 DEF g
  <2> QED
    BY <2>1, <2>2
<1> QED
  BY <1>2, <1>3

LEMMA FlattenOne ==
  ASSUME NEW a PROVE FlattenSeq(<<a>>) = a
<1> DEFINE s == <<a>>
<1>1. Len(s) = 1 /\ s[1] = a
  OBVIOUS
<1> HIDE DEF s
<1>2. FlattenSeq(s) = a
  BY <1>1, FlattenUnfolds
<1> QED
  BY <1>2 DEF s

LEMMA FlattenTwo ==
  ASSUME NEW a, NEW b PROVE FlattenSeq(<<a, b>>) = a \o b
<1> DEFINE s == <<a, b>>
<1>1. Len(s) = 2 /\ s[1] = a /\ s[2] = b
  OBVIOUS
<1> HIDE DEF s
<1>0. Len(s) \in Nat \ {0}
  BY <1>1
<1>2. PICK f : /\ FlattenSeq(s) = f[Len(s)]
               /\ \A i \in 1 .. Len(s) :
                    f[i] = IF i = 1 THEN s[i] ELSE f[i - 1] \o s[i]
  BY <1>0, FlattenUnfolds
<1>3. FlattenSeq(s) = f[2] /\ f[1] = a /\ f[2] = f[1] \o b
  BY <1>1, <1>2
<1> QED
  BY <1>3 DEF s

\* Short sequences.
LEMMA ShortConcats ==
  ASSUME NEW a, NEW b
  PROVE  /\ <<a>> \o <<b>> = <<a, b>> /\ <<a>> \o <<>> = <<a>>
         /\ <<>> \o <<a>> = <<a>> /\ <<>> \o <<a, b>> = <<a, b>>
         /\ <<>> \o <<>> = <<>>
<1> DEFINE S == {a, b}  x == <<a>>  y == <<b>>  z == <<a, b>>  e == <<>>
<1>1. x \in Seq(S) /\ y \in Seq(S) /\ z \in Seq(S) /\ e \in Seq(S)
  OBVIOUS
<1>2. /\ Len(x) = 1 /\ Len(y) = 1 /\ Len(z) = 2
      /\ x[1] = a /\ y[1] = b /\ z[1] = a /\ z[2] = b
  OBVIOUS
<1> HIDE DEF x, y, z, S
<1>3. x \o y = z
  <2>1. /\ x \o y \in Seq(S) /\ Len(x \o y) = 2
        /\ \A i \in 1 .. 2 : (x \o y)[i] = IF i <= 1 THEN x[i] ELSE y[i - 1]
    BY <1>1, <1>2, ConcatProperties
  <2>2. \A i \in 1 .. 2 : (x \o y)[i] = z[i]
    BY <1>2, <2>1
  <2> QED
    BY <1>1, <1>2, <2>1, <2>2, SeqEqual
<1>4. x \o e = x /\ e \o x = x /\ e \o z = z /\ e \o e = e
  BY <1>1, ConcatEmptySeq
<1> QED
  BY <1>3, <1>4 DEF x, y, z

\* The chunks of a sequence, one after the other, are the sequence.
LEMMA ChunksAreWhole ==
  ASSUME NEW S, NEW seq \in Seq(S), Len(seq) % TP = 0
  PROVE  FlattenSeq([i \in 1 .. TP |-> Chunk(seq, i - 1)]) = seq
<1> DEFINE q == Len(seq) \div TP
           s == [i \in 1 .. TP |-> Chunk(seq, i - 1)]
<1>0. TP \in Nat \ {0} /\ Len(seq) \in Nat
  BY SizeAssumption, LenProperties
<1>1. q \in Nat /\ TP * q = Len(seq)
  <2>1. \A a \in Nat, n \in Nat \ {0} : a % n = 0 => a \div n \in Nat /\ n * (a \div n) = a
    BY SMT
  <2> QED
    BY <1>0, <2>1
<1>2. Len(s) = TP
  BY <1>0
<1>3. \A i \in 1 .. TP : s[i] = SubSeq(seq, (i - 1) * q + 1, i * q)
  <2>1. \A i \in 1 .. TP : i - 1 + 1 = i
    BY <1>0
  <2> QED
    BY <2>1 DEF Chunk
<1>4. \A i \in 0 .. TP : i * q \in 0 .. Len(seq)
  <2> SUFFICES ASSUME NEW i \in 0 .. TP PROVE i * q \in 0 .. Len(seq)
    OBVIOUS
  <2> HIDE DEF q
  <2>1. \A a, b, c \in Nat : a <= b => a * c \in Nat /\ a * c <= b * c
    BY SMT
  <2> QED
    BY <1>0, <1>1, <2>1
<1> HIDE DEF s
<1>5. PICK f : /\ FlattenSeq(s) = f[Len(s)]
               /\ \A i \in 1 .. Len(s) :
                    f[i] = IF i = 1 THEN s[i] ELSE f[i - 1] \o s[i]
  BY <1>0, <1>2, FlattenUnfolds
<1> HIDE DEF q
<1> DEFINE T == {n \in Nat : n + 1 <= TP => f[n + 1] = SubSeq(seq, 1, (n + 1) * q)}
<1>6. 0 \in T
  <2>1. f[1] = s[1]
    BY <1>0, <1>2, <1>5
  <2>2. (1 - 1) * q + 1 = 1
    BY <1>1
  <2> QED
    BY <1>0, <1>3, <2>1, <2>2
<1>7. ASSUME NEW n \in T PROVE n + 1 \in T
  <2> SUFFICES ASSUME n + 2 <= TP PROVE f[n + 2] = SubSeq(seq, 1, (n + 2) * q)
    BY <1>0
  <2>1. f[n + 1] = SubSeq(seq, 1, (n + 1) * q)
    BY <1>0
  <2>2. f[n + 2] = f[n + 1] \o s[n + 2]
    <3> DEFINE j == n + 2
    <3>1. j \in 1 .. Len(s) /\ j # 1 /\ j - 1 = n + 1
      BY <1>0, <1>2
    <3> HIDE DEF j
    <3>2. f[j] = f[j - 1] \o s[j]
      BY <1>5, <3>1
    <3> QED
      BY <3>1, <3>2 DEF j
  <2>3. s[n + 2] = SubSeq(seq, (n + 1) * q + 1, (n + 2) * q)
    BY <1>0, <1>3
  <2>4. (n + 1) * q \in 0 .. Len(seq) /\ (n + 2) * q \in 0 .. Len(seq)
    BY <1>0, <1>4
  <2>5. (n + 1) * q <= (n + 2) * q
    <3>1. (n + 2) * q = (n + 1) * q + q
      BY <1>1, SMT
    <3> QED
      BY <1>1, <2>4, <3>1
  <2> DEFINE k == (n + 1) * q  m == (n + 2) * q
  <2> HIDE DEF k, m
  <2>6. k \in 1 - 1 .. Len(seq) /\ m \in k .. Len(seq) /\ 1 \in 1 .. Len(seq) + 1
    BY <1>0, <2>4, <2>5 DEF k, m
  <2>7. SubSeq(seq, 1, k) \o SubSeq(seq, k + 1, m) = SubSeq(seq, 1, m)
    BY <2>6, ConcatAdjacentSubSeq
  <2> QED
    BY <2>1, <2>2, <2>3, <2>7 DEF k, m
<1>8. T = Nat
  <2> HIDE DEF T
  <2>1. T \in SUBSET Nat
    BY DEF T
  <2> QED
    BY <1>6, <1>7, <2>1, Induction
<1>9. f[TP] = SubSeq(seq, 1, TP * q)
  <2>1. TP - 1 \in Nat /\ TP - 1 + 1 = TP
    BY <1>0
  <2>2. TP - 1 \in T
    <3> HIDE DEF T
    <3> QED
      BY <1>8, <2>1
  <2> QED
    BY <1>0, <2>1, <2>2
<1> QED
  BY <1>1, <1>2, <1>5, <1>9, SubSeqFull DEF s

\* A chunk holds its share of the elements.
LEMMA ChunkLen ==
  ASSUME NEW S, NEW seq \in Seq(S), NEW t \in Rank
  PROVE  Chunk(seq, t) \in Seq(S) /\ Len(Chunk(seq, t)) = Len(seq) \div TP
<1> DEFINE q == Len(seq) \div TP
<1>0. TP \in Nat \ {0} /\ Len(seq) \in Nat /\ t \in Nat /\ t + 1 <= TP
  BY SizeAssumption, LenProperties DEF Rank
<1>1. q \in Nat /\ TP * q <= Len(seq)
  <2>1. \A a \in Nat, n \in Nat \ {0} : a \div n \in Nat /\ n * (a \div n) <= a
    BY SMT
  <2> QED
    BY <1>0, <2>1
<1> HIDE DEF q
<1>2. (t + 1) * q = t * q + q /\ t * q \in Nat
  BY <1>0, <1>1, SMT
<1>3. (t + 1) * q <= TP * q
  <2>1. \A a, b, c \in Nat : a <= b => a * c <= b * c
    BY SMT
  <2> QED
    BY <1>0, <1>1, <2>1
<1> DEFINE m == t * q + 1  n == (t + 1) * q
<1>4. m \in Int /\ n \in Int /\ \A i \in m .. n : i \in 1 .. Len(seq)
  <2>1. TP * q \in Nat
    BY <1>0, <1>1, SMT
  <2> QED
    BY <1>0, <1>1, <1>2, <1>3, <2>1
<1>5. \A i \in m .. n : seq[i] \in S
  BY <1>4, ElementOfSeq
<1>6. n - m + 1 = q /\ (m <= n <=> q > 0)
  BY <1>1, <1>2
<1> HIDE DEF m, n
<1>7. SubSeq(seq, m, n) \in Seq(S) /\ Len(SubSeq(seq, m, n)) = q
  BY <1>1, <1>4, <1>5, <1>6, SubSeqProperties
<1> QED
  BY <1>7 DEF Chunk, m, n, q

-----------------------------------------------------------------------------
(* What a step sends.                                                      *)

H == "hidden_states"
R == "residual"

Whole(n, k) == [i \in 1 .. batch[n].numel[k] |-> <<n, k, i>>]

\* A tensor's elements on one rank.
Size(n, k) ==
  IF k = R /\ batch[n].scattered THEN batch[n].numel[k] \div TP ELSE batch[n].numel[k]

PieceAt(n, k) == Piece(n, k, Size(n, k))

\* The tensors of step n, and those of them its receivers gather.
Pieces(n) ==
  IF Size(n, R) > 0 THEN <<PieceAt(n, H), PieceAt(n, R)>> ELSE <<PieceAt(n, H)>>

Entries(n) == <<[key |-> H, numel |-> Size(n, H)], [key |-> R, numel |-> Size(n, R)]>>

\* Queues of pieces, and the keys in one.
Queues(n) == {<<>>, <<PieceAt(n, H)>>, <<PieceAt(n, R)>>, <<PieceAt(n, H), PieceAt(n, R)>>}

KeysOf(q) == {q[i].key : i \in 1 .. Len(q)}

IsGathered(n, k) == Size(n, k) > 0 /\ PieceAt(n, k).sliced

Gathers(n) ==
  IF IsGathered(n, H)
    THEN IF IsGathered(n, R) THEN <<PieceAt(n, H), PieceAt(n, R)>> ELSE <<PieceAt(n, H)>>
    ELSE IF IsGathered(n, R) THEN <<PieceAt(n, R)>> ELSE <<>>

IsForward(n) == n \in 1 .. MaxSteps /\ batch[n].forward

-----------------------------------------------------------------------------
(* The inductive invariant.                                                *)

\* The steps whose metadata the worker has received, of those that have any.
Received(w) == IF pc[w] = "recv" THEN step[w] - 1 ELSE step[w]

Links == {w \in Worker : w[1] > 0}

NoneBetween(m, n) == \A k \in m + 1 .. n : ~batch[k].forward

Types ==
  /\ symm \in BOOLEAN
  /\ batch \in Plans
  /\ pc \in [Worker -> {"idle", "recv", "wait", "forward", "send"}]
  /\ step \in [Worker -> 0 .. MaxSteps]
  /\ outbuf \in [Worker -> 0 .. MaxSteps]
  /\ DOMAIN meta = Worker /\ DOMAIN chan = Worker /\ DOMAIN posted = Worker
  /\ DOMAIN dict = Worker /\ DOMAIN todo = Worker /\ DOMAIN scratch = Worker
  /\ \A w \in Worker : DOMAIN dict[w] = Key /\ DOMAIN scratch[w] = Sizes

ControlOf(w) ==
  /\ pc[w] # "idle" => IsForward(step[w])
  /\ pc[w] = "forward" => IsFirst(w)
  /\ pc[w] \in {"recv", "wait"} => ~IsFirst(w)
  /\ pc[w] = "send" => ~IsLast(w) /\ outbuf[w] = step[w]
  /\ pc[w] # "wait" => posted[w] = <<>> /\ todo[w] = <<>>
  /\ pc[w] = "wait" => posted[w] \in Queues(step[w]) /\ todo[w] \in Queues(step[w])

Control == \A w \in Worker : ControlOf(w)

\* Nothing is under way: the receiver has received what was sent.
Quiet(w) ==
  /\ meta[w] = <<>> /\ chan[w] = <<>> /\ posted[w] = <<>>
  /\ NoneBetween(Received(w), Finished(Sender(w)))

\* A step was sent and is not yet received.
Sent(w) ==
  LET n == step[Sender(w)]
  IN /\ pc[Sender(w)] = "idle" /\ IsForward(n) /\ outbuf[Sender(w)] = n
     /\ meta[w] = <<Entries(n)>> /\ chan[w] = Pieces(n) /\ posted[w] = <<>>
     /\ Received(w) < n /\ NoneBetween(Received(w), n - 1)

\* Its tensors are being received.
Arriving(w) ==
  LET n == step[Sender(w)]
  IN /\ pc[Sender(w)] = "idle" /\ outbuf[Sender(w)] = n
     /\ pc[w] = "wait" /\ step[w] = n
     /\ meta[w] = <<>> /\ chan[w] = posted[w] /\ posted[w] # <<>>

LinkOf(w) ==
  /\ Quiet(w) \/ Sent(w) \/ Arriving(w)
  /\ NoneBetween(Finished(Sender(w)), Received(w))

Link == \A w \in Links : LinkOf(w)

\* What the worker's dictionary holds of a tensor that has arrived.
Holds(w, k) ==
  LET n == step[w]
  IN IF Size(n, k) = 0 THEN dict[w][k] = [at |-> "own", elems |-> <<>>]
     ELSE IF ~PieceAt(n, k).sliced
       THEN dict[w][k] = [at |-> "own", elems |-> Tensor(n, k, w[2])]
     ELSE IF k \in KeysOf(todo[w])
       THEN dict[w][k] = [at |-> "own", elems |-> Chunk(Whole(n, k), w[2])]
     ELSE /\ dict[w][k] = Gathered(w, Whole(n, k))
          /\ symm /\ ~ShareScratch(n) => scratch[w][Size(n, k)] = Whole(n, k)

ContentsOf(w) ==
  pc[w] = "wait" =>
    /\ \A k \in KeysOf(todo[w]) : IsGathered(step[w], k)
    /\ \A k \in KeysOf(posted[w]) :
         Size(step[w], k) > 0 /\ (PieceAt(step[w], k).sliced => k \in KeysOf(todo[w]))
    /\ \A k \in Key \ KeysOf(posted[w]) : Holds(w, k)

Contents == \A w \in Worker : ContentsOf(w)

\* The ranks of a stage are at the same gather, or one of them has yet to come
\* to the step of the others.
NoGatherBetween(m, n) == \A k \in m + 1 .. n : batch[k].forward => Gathers(k) = <<>>

Behind(v, w) ==
  /\ todo[v] = <<>> /\ todo[w] # <<>> /\ todo[w] = Gathers(step[w])
  /\ Received(v) < step[w] /\ NoGatherBetween(Received(v), step[w] - 1)

Abreast(v, w) ==
  /\ todo[v] = todo[w]
  /\ IF todo[v] # <<>> THEN step[v] = step[w]
     ELSE /\ NoGatherBetween(Received(v), Received(w))
          /\ NoGatherBetween(Received(w), Received(v))

Together(v, w) == Abreast(v, w) \/ Behind(v, w) \/ Behind(w, v)

SameGathers == \A v, w \in Links : v[1] = w[1] => Together(v, w)

IInv == Types /\ Control /\ Link /\ Contents /\ SameGathers

-----------------------------------------------------------------------------
(* Facts about steps.                                                      *)

LEMMA BatchFacts ==
  ASSUME batch \in Plans, NEW n \in 1 .. MaxSteps
  PROVE  /\ batch[n].forward \in BOOLEAN /\ batch[n].scattered \in BOOLEAN
         /\ batch[n].numel \in [Key -> Nat]
         /\ batch[n].scattered => batch[n].sp
         /\ batch[n].sp => batch[n].numel[R] % TP = 0
         /\ batch[n].forward => batch[n].numel[H] > 0
         /\ \A k \in Key : batch[n].numel[k] \in Sizes
<1>1. batch[n] \in Range(batch)
  BY BatchAssumption DEF Range
<1> QED
  BY <1>1, BatchAssumption DEF Sizes, H, R

LEMMA WholeFacts ==
  ASSUME batch \in Plans, NEW n \in 1 .. MaxSteps, NEW k \in Key
  PROVE  /\ \E S : Whole(n, k) \in Seq(S)
         /\ Len(Whole(n, k)) = batch[n].numel[k]
         /\ batch[n].numel[k] \in Nat
<1>1. batch[n].numel[k] \in Nat
  BY BatchFacts
<1> DEFINE S == {<<n, k, i>> : i \in 1 .. batch[n].numel[k]}
<1>2. Whole(n, k) \in Seq(S)
  BY <1>1 DEF Whole
<1>3. Len(Whole(n, k)) = batch[n].numel[k]
  BY <1>1 DEF Whole
<1> QED
  BY <1>1, <1>2, <1>3

\* What a rank has of a tensor, and when it is gathered.
LEMMA SizeFacts ==
  ASSUME batch \in Plans, NEW n \in 1 .. MaxSteps, NEW k \in Key
  PROVE  /\ Size(n, k) \in Nat
         /\ PieceAt(n, k).key = k /\ PieceAt(n, k).sliced \in BOOLEAN
         /\ PieceAt(n, k).sliced =>
              /\ Size(n, k) = Len(Whole(n, k)) /\ Size(n, k) % TP = 0
              /\ \A t : Tensor(n, k, t) = Whole(n, k)
              /\ Size(n, k) \in Sizes
         /\ \A t \in Rank : /\ Len(Tensor(n, k, t)) = Size(n, k)
                            /\ Tensor(n, k, t) = <<>> <=> Size(n, k) = 0
         /\ batch[n].forward => Size(n, H) > 0
<1>0. TP \in Nat \ {0} /\ batch[n].numel[k] \in Nat /\ H # R
  BY SizeAssumption, BatchFacts DEF H, R
<1>1. Size(n, k) \in Nat
  <2>1. \A a \in Nat, m \in Nat \ {0} : a \div m \in Nat
    BY SMT
  <2> QED
    BY <1>0, <2>1 DEF Size
<1>2. PieceAt(n, k).key = k /\ PieceAt(n, k).sliced \in BOOLEAN
  BY DEF PieceAt, Piece, ShouldUseAllGather
<1>3. ASSUME ~(k = R /\ batch[n].scattered)
      PROVE  /\ Size(n, k) = batch[n].numel[k]
             /\ \A t : Tensor(n, k, t) = Whole(n, k)
  BY <1>3 DEF Size, Tensor, Whole, R
<1>4. PieceAt(n, k).sliced => ~(k = R /\ batch[n].scattered) /\ Size(n, k) % TP = 0
  <2>1. CASE k = R /\ batch[n].sp
    <3>1. PieceAt(n, k).sliced = ~batch[n].scattered
      BY <2>1 DEF PieceAt, Piece, ShouldUseAllGather, R
    <3> QED
      BY <1>3, <2>1, <3>1, BatchFacts
  <2>2. CASE ~(k = R /\ batch[n].sp)
    BY <2>2, BatchFacts DEF PieceAt, Piece, ShouldUseAllGather, R
  <2> QED
    BY <2>1, <2>2
<1>5. PieceAt(n, k).sliced =>
        /\ Size(n, k) = Len(Whole(n, k)) /\ Size(n, k) % TP = 0
        /\ \A t : Tensor(n, k, t) = Whole(n, k)
        /\ Size(n, k) \in Sizes
  BY <1>3, <1>4, WholeFacts, BatchFacts
<1>6. ASSUME NEW t \in Rank
      PROVE  (\E S : Tensor(n, k, t) \in Seq(S)) /\ Len(Tensor(n, k, t)) = Size(n, k)
  <2>1. CASE ~(k = R /\ batch[n].scattered)
    BY <1>3, <2>1, WholeFacts
  <2>2. CASE k = R /\ batch[n].scattered
    <3>1. Tensor(n, k, t) = Chunk(Whole(n, k), t)
      BY <2>2 DEF Tensor, Whole, R
    <3>2. PICK S : Whole(n, k) \in Seq(S)
      BY WholeFacts
    <3>3. /\ Chunk(Whole(n, k), t) \in Seq(S)
          /\ Len(Chunk(Whole(n, k), t)) = Len(Whole(n, k)) \div TP
      BY <3>2, ChunkLen
    <3> QED
      BY <2>2, <3>1, <3>3, WholeFacts DEF Size
  <2> QED
    BY <2>1, <2>2
<1>7. \A t \in Rank : /\ Len(Tensor(n, k, t)) = Size(n, k)
                      /\ Tensor(n, k, t) = <<>> <=> Size(n, k) = 0
  <2> SUFFICES ASSUME NEW t \in Rank
               PROVE  /\ Len(Tensor(n, k, t)) = Size(n, k)
                      /\ Tensor(n, k, t) = <<>> <=> Size(n, k) = 0
    OBVIOUS
  <2>1. PICK S : Tensor(n, k, t) \in Seq(S)
    BY <1>6
  <2>2. Tensor(n, k, t) # <<>> => Len(Tensor(n, k, t)) > 0
    BY <2>1, EmptySeq
  <2>3. Len(<<>>) = 0
    OBVIOUS
  <2> QED
    BY <1>6, <2>2, <2>3
<1>8. batch[n].forward => Size(n, H) > 0
  BY <1>0, BatchFacts DEF Size
<1> QED
  BY <1>1, <1>2, <1>5, <1>7, <1>8

\* Queues of at most two pieces.
LEMMA KeysOfShort ==
  ASSUME NEW a, NEW b
  PROVE  /\ KeysOf(<<>>) = {} /\ KeysOf(<<a>>) = {a.key}
         /\ KeysOf(<<a, b>>) = {a.key, b.key}
<1>1. KeysOf(<<>>) = {}
  BY DEF KeysOf
<1>2. KeysOf(<<a>>) = {a.key}
  BY DEF KeysOf
<1>3. KeysOf(<<a, b>>) = {a.key, b.key}
  <2> DEFINE q == <<a, b>>
  <2>1. 1 .. Len(q) = {1, 2} /\ q[1] = a /\ q[2] = b
    OBVIOUS
  <2> HIDE DEF q
  <2>2. KeysOf(q) = {q[1].key, q[2].key}
    BY <2>1 DEF KeysOf
  <2> QED
    BY <2>1, <2>2 DEF q
<1> QED
  BY <1>1, <1>2, <1>3

LEMMA QueueFacts ==
  ASSUME batch \in Plans, NEW n \in 1 .. MaxSteps, NEW q \in Queues(n)
  PROVE  /\ KeysOf(q) \subseteq Key
         /\ q # <<>> =>
              /\ Head(q).key \in KeysOf(q) /\ Head(q) = PieceAt(n, Head(q).key)
              /\ Tail(q) \in Queues(n) /\ KeysOf(Tail(q)) = KeysOf(q) \ {Head(q).key}
<1> DEFINE a == PieceAt(n, H)  b == PieceAt(n, R)
<1>1. a.key = H /\ b.key = R /\ H # R /\ Key = {H, R}
  BY SizeFacts DEF Key, H, R
<1>2. q = <<>> \/ q = <<a>> \/ q = <<b>> \/ q = <<a, b>>
  BY DEF Queues
<1>3. {<<>>, <<a>>, <<b>>, <<a, b>>} = Queues(n)
  BY DEF Queues
<1>4. PieceAt(n, a.key) = a /\ PieceAt(n, b.key) = b
  BY <1>1
<1> HIDE DEF a, b
<1>5. CASE q = <<>>
  BY <1>5, KeysOfShort
<1>6. CASE q = <<a>> \/ q = <<b>>
  <2>1. PICK c \in {a, b} : q = <<c>>
    BY <1>6
  <2>2. Head(q) = c /\ Tail(q) = <<>>
    BY <2>1
  <2>3. KeysOf(q) = {c.key} /\ KeysOf(Tail(q)) = {}
    BY <2>1, <2>2, KeysOfShort
  <2>4. Tail(q) \in Queues(n)
    BY <2>2, <1>3
  <2>5. c.key \in Key /\ PieceAt(n, c.key) = c
    BY <1>1, <1>4
  <2> QED
    BY <2>2, <2>3, <2>4, <2>5
<1>7. CASE q = <<a, b>>
  <2>1. Head(q) = a /\ Tail(q) = <<b>>
    BY <1>7
  <2>2. KeysOf(q) = {a.key, b.key} /\ KeysOf(Tail(q)) = {b.key}
    BY <1>7, <2>1, KeysOfShort
  <2>3. Tail(q) \in Queues(n)
    BY <2>1, <1>3
  <2>4. KeysOf(q) \subseteq Key
    BY <1>1, <2>2
  <2> QED
    BY <1>1, <1>4, <2>1, <2>2, <2>3, <2>4
<1> QED
  BY <1>2, <1>5, <1>6, <1>7

LEMMA PiecesFacts ==
  ASSUME batch \in Plans, NEW n \in 1 .. MaxSteps, batch[n].forward
  PROVE  /\ Pieces(n) \in Queues(n) /\ Pieces(n) # <<>>
         /\ KeysOf(Pieces(n)) = {k \in Key : Size(n, k) > 0}
         /\ Gathers(n) \in Queues(n)
         /\ KeysOf(Gathers(n)) = {k \in Key : IsGathered(n, k)}
<1> DEFINE a == PieceAt(n, H)  b == PieceAt(n, R)
<1>1. a.key = H /\ b.key = R /\ H # R /\ Key = {H, R} /\ Size(n, H) > 0
  BY SizeFacts DEF Key, H, R
<1>2. /\ Pieces(n) \in Queues(n) /\ Gathers(n) \in Queues(n)
      /\ Pieces(n) = <<a, b>> \/ Pieces(n) = <<a>>
  BY DEF Pieces, Gathers, Queues
<1>3. Pieces(n) # <<>>
  BY <1>2
<1>4. KeysOf(Pieces(n)) = {k \in Key : Size(n, k) > 0}
  <2> HIDE DEF a, b
  <2>1. Pieces(n) = IF Size(n, R) > 0 THEN <<a, b>> ELSE <<a>>
    BY DEF Pieces, a, b
  <2> QED
    BY <1>1, <2>1, KeysOfShort
<1>5. KeysOf(Gathers(n)) = {k \in Key : IsGathered(n, k)}
  <2> HIDE DEF a, b
  <2>1. Gathers(n) =
          IF IsGathered(n, H) THEN IF IsGathered(n, R) THEN <<a, b>> ELSE <<a>>
          ELSE IF IsGathered(n, R) THEN <<b>> ELSE <<>>
    BY DEF Gathers, a, b
  <2>2. KeysOf(<<>>) = {} /\ KeysOf(<<a>>) = {H} /\ KeysOf(<<b>>) = {R}
        /\ KeysOf(<<a, b>>) = {H, R}
    BY <1>1, KeysOfShort
  <2>3. CASE IsGathered(n, H)
    BY <1>1, <2>1, <2>2, <2>3
  <2>4. CASE ~IsGathered(n, H)
    BY <1>1, <2>1, <2>2, <2>4
  <2> QED
    BY <2>3, <2>4
<1> QED
  BY <1>2, <1>3, <1>4, <1>5

-----------------------------------------------------------------------------
(* What Send sends and Receive makes of it.                                *)

LEMMA FlattenPair ==
  ASSUME NEW x, NEW y, NEW f, f = [i \in 1 .. 2 |-> IF i = 1 THEN x ELSE y]
  PROVE  FlattenSeq(f) = x \o y
<1>1. f = <<x, y>>
  OBVIOUS
<1> QED
  BY <1>1, FlattenTwo

LEMMA SentKeysAre ==
  ASSUME batch \in Plans, NEW w \in Worker, IsForward(step[w])
  PROVE  SentKeys(w) = IF Size(step[w], R) > 0 THEN <<H, R>> ELSE <<H>>
<1> DEFINE n == step[w]
           full(k) == Tensor(n, k, w[2]) # <<>>
           f == [i \in 1 .. Len(Keys) |-> IF full(Keys[i]) THEN <<Keys[i]>> ELSE <<>>]
           x == IF full(H) THEN <<H>> ELSE <<>>
           y == IF full(R) THEN <<R>> ELSE <<>>
<1>0. n \in 1 .. MaxSteps /\ batch[n].forward /\ w[2] \in Rank /\ H \in Key /\ R \in Key
  BY DEF IsForward, Worker, H, R, Key
<1>1. SentKeys(w) = FlattenSeq(f)
  BY DEF SentKeys, Kept
<1>2. f = [i \in 1 .. 2 |-> IF i = 1 THEN x ELSE y]
  <2> HIDE DEF full
  <2>1. Len(Keys) = 2 /\ Keys[1] = H /\ Keys[2] = R
    BY DEF Keys, H, R
  <2> HIDE DEF x, y
  <2>2. \A i \in 1 .. 2 : f[i] = IF i = 1 THEN x ELSE y
    BY <2>1 DEF x, y
  <2> QED
    BY <2>1, <2>2
<1>3. SentKeys(w) = x \o y
  <2> HIDE DEF f, x, y
  <2> QED
    BY <1>1, <1>2, FlattenPair
<1>4. full(H) /\ (full(R) <=> Size(n, R) # 0) /\ Size(n, R) \in Nat
  <2>1. Size(n, H) > 0 /\ Size(n, H) \in Nat /\ Size(n, R) \in Nat
    BY <1>0, SizeFacts
  <2>2. (full(H) <=> Size(n, H) # 0) /\ (full(R) <=> Size(n, R) # 0)
    BY <1>0, SizeFacts
  <2> QED
    BY <2>1, <2>2
<1>5. Size(n, R) # 0 <=> Size(n, R) > 0
  BY <1>4
<1> HIDE DEF full
<1>6. x = <<H>> /\ y = IF Size(n, R) > 0 THEN <<R>> ELSE <<>>
  BY <1>4, <1>5
<1> QED
  BY <1>3, <1>6, ShortConcats

LEMMA SendFacts ==
  ASSUME batch \in Plans, NEW w \in Worker, IsForward(step[w]), Send(w)
  PROVE  /\ meta' = [meta EXCEPT ![Receiver(w)] = Append(@, Entries(step[w]))]
         /\ chan' = [chan EXCEPT ![Receiver(w)] = @ \o Pieces(step[w])]
<1> DEFINE n == step[w]
           numel(k) == Len(Tensor(n, k, w[2]))
           sent == SentKeys(w)
           entries == [i \in 1 .. Len(Keys) |-> [key |-> Keys[i], numel |-> numel(Keys[i])]]
           pieces == [i \in 1 .. Len(sent) |-> Piece(n, sent[i], numel(sent[i]))]
<1>0. n \in 1 .. MaxSteps /\ batch[n].forward /\ w[2] \in Rank /\ H \in Key /\ R \in Key
  BY DEF IsForward, Worker, H, R, Key
<1>1. numel(H) = Size(n, H) /\ numel(R) = Size(n, R)
  BY <1>0, SizeFacts
<1>2. entries = Entries(n)
  <2> HIDE DEF numel
  <2>1. Len(Keys) = 2 /\ Keys[1] = H /\ Keys[2] = R
    BY DEF Keys, H, R
  <2>2. entries = <<[key |-> H, numel |-> numel(H)], [key |-> R, numel |-> numel(R)]>>
    BY <2>1
  <2> QED
    BY <1>1, <2>2 DEF Entries
<1>3. pieces = Pieces(n)
  <2> HIDE DEF numel
  <2>1. CASE Size(n, R) > 0
    <3>1. sent = <<H, R>>
      BY <2>1, SentKeysAre
    <3>2. pieces = <<Piece(n, H, numel(H)), Piece(n, R, numel(R))>>
      BY <3>1
    <3> QED
      BY <2>1, <1>1, <3>2 DEF Pieces, PieceAt
  <2>2. CASE ~(Size(n, R) > 0)
    <3>1. sent = <<H>>
      BY <2>2, SentKeysAre
    <3>2. pieces = <<Piece(n, H, numel(H))>>
      BY <3>1
    <3> QED
      BY <2>2, <1>1, <3>2 DEF Pieces, PieceAt
  <2> QED
    BY <2>1, <2>2
<1>4. /\ meta' = [meta EXCEPT ![Receiver(w)] = Append(@, entries)]
      /\ chan' = [chan EXCEPT ![Receiver(w)] = @ \o pieces]
  BY DEF Send
<1> HIDE DEF entries, pieces
<1> QED
  BY <1>2, <1>3, <1>4

\* Two elements, filtered.
LEMMA GatherKeys ==
  ASSUME NEW p, NEW q
  PROVE  /\ Kept(<<p, q>>, LAMBDA piece : piece.sliced) =
              (IF p.sliced THEN <<p>> ELSE <<>>) \o (IF q.sliced THEN <<q>> ELSE <<>>)
         /\ Kept(<<p>>, LAMBDA piece : piece.sliced) = IF p.sliced THEN <<p>> ELSE <<>>
         /\ Kept(<<p, q>>, LAMBDA entry : entry.numel > 0) =
              (IF p.numel > 0 THEN <<p>> ELSE <<>>) \o (IF q.numel > 0 THEN <<q>> ELSE <<>>)
<1> DEFINE s == <<p, q>>
           x == IF p.sliced THEN <<p>> ELSE <<>>
           y == IF q.sliced THEN <<q>> ELSE <<>>
           u == IF p.numel > 0 THEN <<p>> ELSE <<>>
           v == IF q.numel > 0 THEN <<q>> ELSE <<>>
           f == [i \in 1 .. Len(s) |-> IF s[i].sliced THEN <<s[i]>> ELSE <<>>]
           g == [i \in 1 .. Len(s) |-> IF s[i].numel > 0 THEN <<s[i]>> ELSE <<>>]
           h == [i \in 1 .. Len(<<p>>) |-> IF <<p>>[i].sliced THEN <<(<<p>>)[i]>> ELSE <<>>]
<1>1. /\ Kept(s, LAMBDA piece : piece.sliced) = FlattenSeq(f)
      /\ Kept(s, LAMBDA entry : entry.numel > 0) = FlattenSeq(g)
      /\ Kept(<<p>>, LAMBDA piece : piece.sliced) = FlattenSeq(h)
  BY DEF Kept
<1>2. Len(s) = 2 /\ s[1] = p /\ s[2] = q
  OBVIOUS
<1>3. h = <<x>>
  OBVIOUS
<1>4. /\ f = [i \in 1 .. 2 |-> IF i = 1 THEN x ELSE y]
      /\ g = [i \in 1 .. 2 |-> IF i = 1 THEN u ELSE v]
  <2>1. \A i \in 1 .. 2 : f[i] = IF i = 1 THEN x ELSE y
    BY <1>2
  <2>2. \A i \in 1 .. 2 : g[i] = IF i = 1 THEN u ELSE v
    BY <1>2
  <2> HIDE DEF x, y, u, v, s
  <2> QED
    BY <1>2, <2>1, <2>2
<1>5. FlattenSeq(f) = x \o y /\ FlattenSeq(g) = u \o v /\ FlattenSeq(h) = x
  <2> HIDE DEF f, g, h, x, y, u, v
  <2> QED
    BY <1>3, <1>4, FlattenPair, FlattenOne
<1> QED
  BY <1>1, <1>5

LEMMA ReceiveFacts ==
  ASSUME batch \in Plans, NEW w \in Worker, IsForward(step[w]), Receive(w),
         meta[w] = <<Entries(step[w])>>, posted[w] = <<>>
  PROVE  /\ posted' = [posted EXCEPT ![w] = Pieces(step[w])]
         /\ todo' = [todo EXCEPT ![w] = Gathers(step[w])]
         /\ meta' = [meta EXCEPT ![w] = <<>>]
<1> DEFINE n == step[w]
           a == PieceAt(n, H)  b == PieceAt(n, R)
           d == [key |-> H, numel |-> Size(n, H)]  e == [key |-> R, numel |-> Size(n, R)]
           entries == Kept(Head(meta[w]), LAMBDA entry : entry.numel > 0)
           pieces == [i \in 1 .. Len(entries) |->
                        Piece(step[w], entries[i].key, entries[i].numel)]
<1>0. /\ n \in 1 .. MaxSteps /\ batch[n].forward /\ H \in Key /\ R \in Key
      /\ Size(n, H) > 0
  BY SizeFacts DEF IsForward, H, R, Key
<1>1. Head(meta[w]) = <<d, e>>
  BY DEF Entries
<1>2. entries = IF Size(n, R) > 0 THEN <<d, e>> ELSE <<d>>
  <2>1. d.numel > 0 /\ (e.numel > 0 <=> Size(n, R) > 0)
    BY <1>0
  <2> HIDE DEF d, e
  <2>2. entries = (IF d.numel > 0 THEN <<d>> ELSE <<>>) \o (IF e.numel > 0 THEN <<e>> ELSE <<>>)
    BY <1>1, GatherKeys
  <2>3. CASE Size(n, R) > 0
    BY <2>1, <2>2, <2>3, ShortConcats
  <2>4. CASE ~(Size(n, R) > 0)
    BY <2>1, <2>2, <2>4, ShortConcats
  <2> QED
    BY <2>3, <2>4
<1>3. Piece(n, d.key, d.numel) = a /\ Piece(n, e.key, e.numel) = b
  BY DEF PieceAt
<1>4. pieces = Pieces(n)
  <2> HIDE DEF entries, a, b, d, e
  <2>1. CASE Size(n, R) > 0
    <3>1. pieces = <<a, b>>
      BY <1>2, <1>3, <2>1
    <3> QED
      BY <2>1, <3>1 DEF Pieces, a, b
  <2>2. CASE ~(Size(n, R) > 0)
    <3>1. pieces = <<a>>
      BY <1>2, <1>3, <2>2
    <3> QED
      BY <2>2, <3>1 DEF Pieces, a, b
  <2> QED
    BY <2>1, <2>2
<1>5. Kept(Pieces(n), LAMBDA piece : piece.sliced) = Gathers(n)
  <2>1. /\ IsGathered(n, H) <=> a.sliced
        /\ IsGathered(n, R) <=> Size(n, R) > 0 /\ b.sliced
    BY <1>0 DEF IsGathered
  <2>2. Pieces(n) = IF Size(n, R) > 0 THEN <<a, b>> ELSE <<a>>
    BY DEF Pieces
  <2>3. Gathers(n) =
          IF IsGathered(n, H) THEN IF IsGathered(n, R) THEN <<a, b>> ELSE <<a>>
          ELSE IF IsGathered(n, R) THEN <<b>> ELSE <<>>
    BY DEF Gathers
  <2> HIDE DEF a, b
  <2>4. CASE Size(n, R) > 0
    <3>1. Kept(Pieces(n), LAMBDA piece : piece.sliced) =
            (IF a.sliced THEN <<a>> ELSE <<>>) \o (IF b.sliced THEN <<b>> ELSE <<>>)
      BY <2>2, <2>4, GatherKeys
    <3>2. CASE a.sliced
      BY <2>1, <2>3, <2>4, <3>1, <3>2, ShortConcats
    <3>3. CASE ~a.sliced
      BY <2>1, <2>3, <2>4, <3>1, <3>3, ShortConcats
    <3> QED
      BY <3>2, <3>3
  <2>5. CASE ~(Size(n, R) > 0)
    BY <2>1, <2>2, <2>3, <2>5, GatherKeys
  <2> QED
    BY <2>4, <2>5
<1>6. /\ posted' = [posted EXCEPT ![w] = @ \o pieces]
      /\ todo' = [todo EXCEPT ![w] = Kept(pieces, LAMBDA piece : piece.sliced)]
      /\ meta' = [meta EXCEPT ![w] = Tail(@)]
  BY DEF Receive
<1>7. <<>> \o Pieces(n) = Pieces(n)
  BY ShortConcats DEF Pieces
<1>8. Tail(meta[w]) = <<>>
  OBVIOUS
<1> HIDE DEF pieces
<1> QED
  BY <1>4, <1>5, <1>6, <1>7, <1>8

-----------------------------------------------------------------------------
(* Workers, and what no step changes.                                      *)

LEMMA WorkerFacts ==
  /\ \A w \in Worker : /\ w[1] \in Nat /\ w[1] <= Stages - 1 /\ w[2] \in Rank
                       /\ w[1] \in Stage /\ w = <<w[1], w[2]>>
                       /\ IsFirst(w) <=> w \notin Links
                       /\ ~IsLast(w) => /\ Receiver(w) \in Links
                                        /\ Sender(Receiver(w)) = w
  /\ \A w \in Links : /\ w \in Worker /\ Sender(w) \in Worker /\ Sender(w) # w
                      /\ ~IsLast(Sender(w)) /\ Receiver(Sender(w)) = w
<1>1. ASSUME NEW w \in Worker
      PROVE  /\ w[1] \in Nat /\ w[1] <= Stages - 1 /\ w[2] \in Rank
             /\ w[1] \in Stage /\ w = <<w[1], w[2]>>
             /\ IsFirst(w) <=> w \notin Links
             /\ ~IsLast(w) => /\ Receiver(w) \in Links
                              /\ Sender(Receiver(w)) = w
  <2>1. PICK p \in Stage, t \in Rank : w = <<p, t>>
    BY DEF Worker
  <2>2. p \in Nat /\ p <= Stages - 1 /\ Stages \in Nat
    BY SizeAssumption DEF Stage
  <2>3. IsFirst(w) <=> w \notin Links
    BY <2>1, <2>2 DEF IsFirst, Links
  <2>4. ASSUME ~IsLast(w) PROVE Receiver(w) \in Links /\ Sender(Receiver(w)) = w
    <3>1. p + 1 \in Stage /\ p + 1 > 0 /\ p + 1 - 1 = p
      BY <2>1, <2>2, <2>4 DEF IsLast, Stage
    <3> DEFINE x == <<p + 1, t>>
    <3>2. Receiver(w) = x /\ x[1] = p + 1 /\ x[2] = t
      BY <2>1 DEF Receiver
    <3>3. x \in Links
      BY <3>1 DEF Links, Worker
    <3>4. Sender(x) = <<p, t>>
      <4> HIDE DEF x
      <4>1. x[1] - 1 = p /\ x[2] = t
        BY <2>2, <3>1, <3>2
      <4> QED
        BY <4>1 DEF Sender
    <3> QED
      BY <2>1, <3>2, <3>3, <3>4
  <2> QED
    BY <2>1, <2>2, <2>3, <2>4
<1>2. ASSUME NEW w \in Links
      PROVE  /\ w \in Worker /\ Sender(w) \in Worker /\ Sender(w) # w
             /\ ~IsLast(Sender(w)) /\ Receiver(Sender(w)) = w
  <2>1. PICK p \in Stage, t \in Rank : w = <<p, t>>
    BY DEF Links, Worker
  <2>2. p \in Nat /\ p <= Stages - 1 /\ Stages \in Nat /\ p > 0
    BY <2>1, SizeAssumption DEF Stage, Links
  <2>3. Sender(w) = <<p - 1, t>> /\ p - 1 \in Stage /\ p - 1 + 1 = p
    BY <2>1, <2>2 DEF Sender, Stage
  <2> QED
    BY <2>1, <2>2, <2>3 DEF Links, Worker, IsLast, Receiver
<1> QED
  BY <1>1, <1>2

LEMMA BatchFixed ==
  ASSUME [Next]_vars PROVE batch' = batch /\ symm' = symm
BY DEF Next, vars, Begin, Receive, Deliver, Forward, Send, Gather

LEMMA BatchFrame ==
  ASSUME batch' = batch, symm' = symm
  PROVE  /\ \A n, k : /\ Size(n, k)' = Size(n, k)
                      /\ PieceAt(n, k)' = PieceAt(n, k)
                      /\ Whole(n, k)' = Whole(n, k)
                      /\ IsGathered(n, k)' <=> IsGathered(n, k)
                      /\ \A t : Tensor(n, k, t)' = Tensor(n, k, t)
         /\ \A n : /\ Pieces(n)' = Pieces(n) /\ Entries(n)' = Entries(n)
                   /\ Queues(n)' = Queues(n) /\ Gathers(n)' = Gathers(n)
                   /\ IsForward(n)' <=> IsForward(n)
                   /\ ShareScratch(n)' <=> ShareScratch(n)
         /\ \A m, n : /\ NoneBetween(m, n)' <=> NoneBetween(m, n)
                      /\ NoGatherBetween(m, n)' <=> NoGatherBetween(m, n)
         /\ \A w, e : Gathered(w, e)' = Gathered(w, e)
<1>1. \A n, k : /\ Size(n, k)' = Size(n, k)
                /\ PieceAt(n, k)' = PieceAt(n, k)
                /\ Whole(n, k)' = Whole(n, k)
                /\ IsGathered(n, k)' <=> IsGathered(n, k)
                /\ \A t : Tensor(n, k, t)' = Tensor(n, k, t)
  BY DEF Size, PieceAt, Piece, ShouldUseAllGather, Whole, IsGathered, Tensor
<1>2. \A n : /\ Pieces(n)' = Pieces(n) /\ Entries(n)' = Entries(n)
             /\ Queues(n)' = Queues(n) /\ Gathers(n)' = Gathers(n)
  BY <1>1 DEF Pieces, Entries, Queues, Gathers
<1>3. \A n : /\ IsForward(n)' <=> IsForward(n)
             /\ ShareScratch(n)' <=> ShareScratch(n)
  BY DEF IsForward, ShareScratch, ShouldUseAllGather
<1>4. \A m, n : /\ NoneBetween(m, n)' <=> NoneBetween(m, n)
                /\ NoGatherBetween(m, n)' <=> NoGatherBetween(m, n)
  BY <1>2 DEF NoneBetween, NoGatherBetween
<1>5. \A w, e : Gathered(w, e)' = Gathered(w, e)
  BY DEF Gathered
<1> QED
  BY <1>1, <1>2, <1>3, <1>4, <1>5

\* Counters are in range.
LEMMA Counters ==
  ASSUME Types, Control, NEW w \in Worker
  PROVE  /\ step[w] \in 0 .. MaxSteps /\ step[w] \in Nat /\ MaxSteps \in Nat
         /\ pc[w] # "idle" => step[w] \in 1 .. MaxSteps /\ batch[step[w]].forward
         /\ Received(w) \in 0 .. MaxSteps /\ Finished(w) \in 0 .. MaxSteps
         /\ Received(w) \in Nat /\ Finished(w) \in Nat
         /\ Finished(w) <= Received(w) /\ Received(w) <= step[w]
         /\ step[w] <= Finished(w) + 1
<1>1. step[w] \in 0 .. MaxSteps /\ MaxSteps \in Nat
  BY SizeAssumption DEF Types
<1>2. pc[w] # "idle" => step[w] \in 1 .. MaxSteps /\ batch[step[w]].forward
  BY DEF Control, ControlOf, IsForward
<1> QED
  BY <1>1, <1>2 DEF Received, Finished

\* Every step keeps the variables in their types.
LEMMA TypesStep ==
  ASSUME Types, Control, [Next]_vars PROVE Types'
<1> USE DEF Types
<1>0. Sizes' = Sizes
  BY DEF Sizes
<1>1. ASSUME NEW w \in Worker, Begin(w) PROVE Types'
  <2>1. step[w] + 1 \in 0 .. MaxSteps
    BY <1>1, SizeAssumption DEF Begin
  <2> QED
    BY <1>1, <2>1 DEF Begin
<1>2. ASSUME NEW w \in Worker, Receive(w) PROVE Types'
  BY <1>2 DEF Receive
<1>3. ASSUME NEW w \in Worker, Deliver(w) PROVE Types'
  <2>1. DOMAIN dict' = Worker /\ \A v \in Worker : DOMAIN dict'[v] = Key
    BY <1>3 DEF Deliver
  <2> QED
    BY <1>3, <2>1 DEF Deliver
<1>4. ASSUME NEW w \in Worker, Forward(w) PROVE Types'
  <2>1. outbuf' \in [Worker -> 0 .. MaxSteps]
    BY <1>4 DEF Forward
  <2>2. pc' \in [Worker -> {"idle", "recv", "wait", "forward", "send"}]
    BY <1>4 DEF Forward
  <2> QED
    BY <1>4, <2>1, <2>2 DEF Forward
<1>5. ASSUME NEW w \in Worker, Send(w) PROVE Types'
  <2>1. pc' \in [Worker -> {"idle", "recv", "wait", "forward", "send"}]
    BY <1>5 DEF Send
  <2> QED
    BY <1>5, <2>1 DEF Send
<1>6. ASSUME NEW p \in Stage, Gather(p) PROVE Types'
  <2>1. /\ DOMAIN dict' = Worker /\ DOMAIN scratch' = Worker
        /\ \A v \in Worker : DOMAIN dict'[v] = Key /\ DOMAIN scratch'[v] = Sizes
    BY <1>6 DEF Gather
  <2> QED
    BY <1>6, <2>1 DEF Gather
<1>7. CASE UNCHANGED vars
  BY <1>7 DEF vars
<1> QED
  BY <1>1, <1>2, <1>3, <1>4, <1>5, <1>6, <1>7 DEF Next

-----------------------------------------------------------------------------
(* The links.                                                              *)

\* A step of neither end, nor of the messages between them, leaves a link as it is.
LEMMA LinkFrame ==
  ASSUME batch' = batch, symm' = symm, NEW w \in Links, LinkOf(w),
         UNCHANGED <<meta[w], chan[w], posted[w], pc[w], step[w]>>,
         UNCHANGED <<pc[Sender(w)], step[Sender(w)], outbuf[Sender(w)]>>
  PROVE  LinkOf(w)'
<1> DEFINE s == Sender(w)
<1>1. s' = s
  BY DEF Sender
<1>2. /\ meta'[w] = meta[w] /\ chan'[w] = chan[w] /\ posted'[w] = posted[w]
      /\ pc'[w] = pc[w] /\ step'[w] = step[w]
      /\ pc'[s] = pc[s] /\ step'[s] = step[s] /\ outbuf'[s] = outbuf[s]
  OBVIOUS
<1>3. Received(w)' = Received(w) /\ Finished(s)' = Finished(s)
  BY <1>2 DEF Received, Finished
<1>4. Quiet(w)' <=> Quiet(w)
  BY <1>2, <1>3, BatchFrame DEF Quiet
<1>5. Sent(w)' <=> Sent(w)
  BY <1>2, <1>3, BatchFrame DEF Sent
<1>6. Arriving(w)' <=> Arriving(w)
  BY <1>2 DEF Arriving
<1> QED
  BY <1>3, <1>4, <1>5, <1>6, BatchFrame DEF LinkOf

\* While its sender is busy, or may begin a step, a link is quiet.
LEMMA BusyIsQuiet ==
  ASSUME Types, Control, NEW w \in Links, LinkOf(w),
         pc[Sender(w)] # "idle" \/ chan[w] = <<>>
  PROVE  Quiet(w)
<1>1. Sent(w) => Pieces(step[Sender(w)]) # <<>>
  BY PiecesFacts DEF Sent, IsForward, Types
<1> QED
  BY <1>1 DEF LinkOf, Sent, Arriving

LEMMA BeginLink ==
  ASSUME IInv, NEW v \in Worker, Begin(v), NEW w \in Links
  PROVE  LinkOf(w)'
<1>0. /\ Types /\ Control /\ LinkOf(w) /\ batch' = batch /\ symm' = symm
      /\ v \in Worker /\ w \in Worker /\ Sender(w) \in Worker /\ Sender(w) # w
      /\ batch \in Plans
  BY WorkerFacts DEF IInv, Link, Begin, Types
<1> DEFINE s == Sender(w)
<1>s. s' = s
  BY DEF Sender
<1>1. /\ UNCHANGED <<outbuf, meta, chan, posted>>
      /\ pc[v] = "idle" /\ step[v] < MaxSteps /\ SendsDone(v)
      /\ \A x \in Worker \ {v} : pc'[x] = pc[x] /\ step'[x] = step[x]
      /\ step'[v] = step[v] + 1
      /\ pc'[v] = IF ~batch[step[v] + 1].forward THEN "idle"
                  ELSE IF IsFirst(v) THEN "forward" ELSE "recv"
  BY <1>0 DEF Begin, Types
<1>2. step[v] \in Nat /\ Received(v) = step[v] /\ Finished(v) = step[v]
  BY <1>0, <1>1, Counters DEF Received, Finished
<1>3. /\ Received(w) \in Nat /\ Finished(s) \in Nat /\ step[s] \in Nat
  BY <1>0, Counters
<1>4. CASE v # w /\ v # s
  BY <1>0, <1>1, <1>4, LinkFrame
<1>5. CASE v = w
  <2>1. /\ Finished(s)' = Finished(s) /\ pc'[s] = pc[s] /\ step'[s] = step[s]
    BY <1>0, <1>1, <1>5 DEF Finished
  <2>2. posted[w] = <<>> /\ ~IsFirst(w)
    BY <1>0, <1>1, <1>5, WorkerFacts DEF Control, ControlOf
  <2>3. Quiet(w) \/ Sent(w)
    BY <1>0, <2>2 DEF LinkOf, Arriving
  <2>4. CASE batch[step[v] + 1].forward
    <3>1. Received(w)' = Received(w)
      BY <1>1, <1>2, <1>5, <2>2, <2>4 DEF Received
    <3>2. Quiet(w) => Quiet(w)'
      BY <1>0, <1>1, <2>1, <3>1, BatchFrame DEF Quiet
    <3>3. Sent(w) => Sent(w)'
      BY <1>0, <1>1, <2>1, <3>1, BatchFrame DEF Sent
    <3> QED
      BY <1>0, <2>1, <2>3, <3>1, <3>2, <3>3, BatchFrame DEF LinkOf
  <2>5. CASE ~batch[step[v] + 1].forward
    <3>1. Received(w)' = Received(w) + 1
      BY <1>1, <1>2, <1>5, <2>5 DEF Received
    <3>2. ~batch[Received(w) + 1].forward
      BY <1>2, <1>5, <2>5
    <3>3. NoneBetween(Received(w), Finished(s)) => NoneBetween(Received(w) + 1, Finished(s))
      BY <1>3 DEF NoneBetween
    <3>4. NoneBetween(Finished(s), Received(w)) => NoneBetween(Finished(s), Received(w) + 1)
      BY <1>3, <3>2 DEF NoneBetween
    <3>5. Quiet(w) => Quiet(w)'
      BY <1>0, <1>1, <2>1, <3>1, <3>3, BatchFrame DEF Quiet
    <3>6. Sent(w) => Sent(w)'
      <4> SUFFICES ASSUME Sent(w) PROVE Sent(w)'
        OBVIOUS
      <4>1. batch[step[s]].forward /\ Received(w) < step[s]
        BY DEF Sent, IsForward
      <4>2. Received(w) + 1 < step[s]
        BY <1>3, <3>2, <4>1
      <4>3. NoneBetween(Received(w) + 1, step[s] - 1)
        BY <1>3 DEF Sent, NoneBetween
      <4> QED
        BY <1>0, <1>1, <2>1, <3>1, <4>2, <4>3, BatchFrame DEF Sent
    <3> QED
      BY <1>0, <2>1, <2>3, <3>1, <3>4, <3>5, <3>6, BatchFrame DEF LinkOf
  <2> QED
    BY <2>4, <2>5
<1>6. CASE v = s
  <2>1. w = Receiver(v) /\ ~IsLast(v)
    BY <1>6, WorkerFacts
  <2>2. Quiet(w)
    BY <1>0, <1>1, <2>1, BusyIsQuiet DEF SendsDone
  <2>3. Received(w)' = Received(w)
    BY <1>0, <1>1, <1>6 DEF Received
  <2>4. NoneBetween(Received(w), Finished(s)) /\ NoneBetween(Finished(s), Received(w))
    BY <1>0, <2>2 DEF Quiet, LinkOf
  <2>5. NoneBetween(Received(w), Finished(s)') /\ NoneBetween(Finished(s)', Received(w))
    <3>1. CASE batch[step[v] + 1].forward
      <4>1. Finished(s)' = Finished(s)
        BY <1>1, <1>2, <1>6, <1>s, <3>1 DEF Finished
      <4> QED
        BY <2>4, <4>1
    <3>2. CASE ~batch[step[v] + 1].forward
      <4>1. Finished(s)' = Finished(s) + 1 /\ ~batch[Finished(s) + 1].forward
        BY <1>1, <1>2, <1>6, <1>s, <3>2 DEF Finished
      <4> QED
        BY <1>3, <2>4, <4>1 DEF NoneBetween
    <3> QED
      BY <3>1, <3>2
  <2>6. Quiet(w)'
    BY <1>0, <1>1, <2>2, <2>3, <2>5, BatchFrame DEF Quiet
  <2> QED
    BY <1>0, <2>3, <2>5, <2>6, BatchFrame DEF LinkOf
<1> QED
  BY <1>4, <1>5, <1>6

LEMMA ReceiveLink ==
  ASSUME IInv, NEW v \in Worker, Receive(v), NEW w \in Links
  PROVE  LinkOf(w)'
<1>0. /\ Types /\ Control /\ LinkOf(w) /\ batch' = batch /\ symm' = symm
      /\ v \in Worker /\ w \in Worker /\ Sender(w) \in Worker /\ Sender(w) # w
      /\ batch \in Plans
  BY WorkerFacts DEF IInv, Link, Receive, Types
<1> DEFINE s == Sender(w)
<1>s. s' = s
  BY DEF Sender
<1>1. /\ UNCHANGED <<outbuf, chan, step>> /\ pc[v] = "recv" /\ meta[v] # <<>>
      /\ \A x \in Worker \ {v} :
           pc'[x] = pc[x] /\ meta'[x] = meta[x] /\ posted'[x] = posted[x]
      /\ pc'[v] = "wait"
  BY <1>0 DEF Receive, Types
<1>2. CASE v # w /\ v # s
  BY <1>0, <1>1, <1>2, LinkFrame
<1>3. CASE v = s
  <2>1. Quiet(w)
    BY <1>0, <1>1, <1>3, BusyIsQuiet
  <2>2. Finished(s)' = Finished(s) /\ Received(w)' = Received(w)
    BY <1>0, <1>1, <1>3, <1>s DEF Finished, Received
  <2>3. Quiet(w)'
    BY <1>0, <1>1, <1>3, <2>1, <2>2, BatchFrame DEF Quiet
  <2> QED
    BY <1>0, <2>2, <2>3, BatchFrame DEF LinkOf
<1>4. CASE v = w
  <2> DEFINE n == step[s]
  <2>1. Sent(w)
    BY <1>0, <1>1, <1>4 DEF LinkOf, Quiet, Arriving
  <2>2. /\ step[w] \in Nat /\ Received(w) = step[w] - 1 /\ IsForward(step[w])
        /\ n \in Nat /\ Finished(s) = n /\ step[w] \in 1 .. MaxSteps
    BY <1>0, <1>1, <1>4, <2>1, Counters DEF Received, Finished, Sent, IsForward
  <2>3. n = step[w]
    <3>1. Received(w) < n /\ NoneBetween(Received(w), n - 1)
      BY <2>1 DEF Sent
    <3>2. step[w] <= n - 1 => ~batch[step[w]].forward
      BY <2>2, <3>1 DEF NoneBetween
    <3> QED
      BY <2>2, <3>1, <3>2 DEF IsForward
  <2>4. /\ posted' = [posted EXCEPT ![w] = Pieces(n)]
        /\ meta' = [meta EXCEPT ![w] = <<>>]
    BY <1>0, <1>4, <2>1, <2>2, <2>3, ReceiveFacts DEF Sent
  <2>5. posted'[w] = Pieces(n) /\ meta'[w] = <<>> /\ Pieces(n) # <<>>
    BY <1>0, <2>1, <2>4, PiecesFacts DEF Types, Sent, IsForward
  <2>6. Arriving(w)'
    BY <1>0, <1>1, <1>4, <1>s, <2>1, <2>3, <2>5 DEF Arriving, Sent
  <2>7. Received(w)' = n /\ Finished(s)' = n
    BY <1>0, <1>1, <1>4, <1>s, <2>2, <2>3, <2>1 DEF Received, Finished, Sent
  <2>8. NoneBetween(n, n)
    BY <2>2 DEF NoneBetween
  <2> QED
    BY <1>0, <1>s, <2>6, <2>7, <2>8, BatchFrame DEF LinkOf
<1> QED
  BY <1>2, <1>3, <1>4

\* What is received is what was sent.
LEMMA DeliverFacts ==
  ASSUME IInv, NEW v \in Worker, Deliver(v)
  PROVE  /\ v \in Links /\ Arriving(v)
         /\ posted[v] \in Queues(step[v]) /\ step[v] \in 1 .. MaxSteps
<1>1. v \in Links
  BY WorkerFacts DEF IInv, Control, ControlOf, Deliver
<1>2. Arriving(v)
  BY <1>1 DEF IInv, Link, LinkOf, Quiet, Sent, Deliver
<1> QED
  BY <1>1, <1>2 DEF Arriving, IInv, Control, ControlOf, IsForward

LEMMA DeliverLink ==
  ASSUME IInv, NEW v \in Worker, Deliver(v), NEW w \in Links
  PROVE  LinkOf(w)'
<1>0. /\ Types /\ Control /\ LinkOf(w) /\ batch' = batch /\ symm' = symm
      /\ v \in Worker /\ w \in Worker /\ Sender(w) \in Worker /\ Sender(w) # w
  BY WorkerFacts DEF IInv, Link, Deliver
<1> DEFINE s == Sender(w)
<1>s. s' = s
  BY DEF Sender
<1>1. /\ UNCHANGED <<outbuf, meta, step, pc>>
      /\ \A x \in Worker \ {v} : chan'[x] = chan[x] /\ posted'[x] = posted[x]
      /\ chan'[v] = Tail(chan[v]) /\ posted'[v] = Tail(posted[v])
  BY <1>0 DEF Deliver, Types
<1>2. CASE v # w
  BY <1>0, <1>1, <1>2, LinkFrame
<1>3. CASE v = w
  <2>1. Arriving(w)
    BY <1>3, DeliverFacts
  <2>2. Received(w)' = Received(w) /\ Finished(s)' = Finished(s)
    BY <1>1, <1>s DEF Received, Finished
  <2>3. chan'[w] = posted'[w]
    BY <1>1, <1>3, <2>1 DEF Arriving
  <2>4. CASE posted'[w] # <<>>
    BY <1>0, <1>1, <1>s, <2>1, <2>2, <2>3, <2>4, BatchFrame DEF LinkOf, Arriving
  <2>5. CASE posted'[w] = <<>>
    <3>1. Received(w) = Finished(s) /\ Received(w) \in Nat
      BY <1>0, <2>1, Counters DEF Arriving, Received, Finished
    <3>2. NoneBetween(Received(w), Finished(s)) /\ NoneBetween(Finished(s), Received(w))
      BY <3>1 DEF NoneBetween
    <3>3. Quiet(w)'
      BY <1>0, <1>1, <1>s, <2>1, <2>2, <2>3, <2>5, <3>2, BatchFrame DEF Quiet, Arriving
    <3> QED
      BY <1>0, <1>s, <2>2, <3>2, <3>3, BatchFrame DEF LinkOf
  <2> QED
    BY <2>4, <2>5
<1> QED
  BY <1>2, <1>3

LEMMA ForwardLink ==
  ASSUME IInv, NEW v \in Worker, Forward(v), NEW w \in Links
  PROVE  LinkOf(w)'
<1>0. /\ Types /\ Control /\ LinkOf(w) /\ batch' = batch /\ symm' = symm
      /\ v \in Worker /\ w \in Worker /\ Sender(w) \in Worker /\ Sender(w) # w
  BY WorkerFacts DEF IInv, Link, Forward
<1> DEFINE s == Sender(w)
<1>s. s' = s
  BY DEF Sender
<1>1. /\ UNCHANGED <<meta, chan, posted, step>>
      /\ \A x \in Worker \ {v} : pc'[x] = pc[x] /\ outbuf'[x] = outbuf[x]
      /\ pc[v] = "forward" \/ InputsReady(v)
      /\ pc[v] \in {"forward", "wait"}
      /\ pc'[v] = IF IsLast(v) THEN "idle" ELSE "send"
  BY <1>0 DEF Forward, Types, InputsReady
<1>2. CASE v # w /\ v # s
  BY <1>0, <1>1, <1>2, LinkFrame
<1>3. CASE v = s
  <2>1. Quiet(w) /\ ~IsLast(v)
    BY <1>0, <1>1, <1>3, BusyIsQuiet, WorkerFacts
  <2>2. Finished(s)' = Finished(s) /\ Received(w)' = Received(w)
    BY <1>0, <1>1, <1>3, <1>s, <2>1 DEF Finished, Received
  <2>3. Quiet(w)'
    BY <1>0, <1>1, <2>1, <2>2, BatchFrame DEF Quiet
  <2> QED
    BY <1>0, <2>2, <2>3, BatchFrame DEF LinkOf
<1>4. CASE v = w
  <2>1. posted[w] = <<>>
    BY <1>0, <1>1, <1>4 DEF InputsReady, Control, ControlOf
  <2>2. Finished(s)' = Finished(s) /\ Received(w)' = Received(w) /\ outbuf'[s] = outbuf[s]
    BY <1>0, <1>1, <1>4, <1>s DEF Finished, Received
  <2>3. Quiet(w) => Quiet(w)'
    BY <1>0, <1>1, <2>2, BatchFrame DEF Quiet
  <2>4. Sent(w) => Sent(w)'
    BY <1>0, <1>1, <1>4, <1>s, <2>2, BatchFrame DEF Sent
  <2>5. ~Arriving(w)
    BY <2>1 DEF Arriving
  <2> QED
    BY <1>0, <2>2, <2>3, <2>4, <2>5, BatchFrame DEF LinkOf
<1> QED
  BY <1>2, <1>3, <1>4

LEMMA SendLink ==
  ASSUME IInv, NEW v \in Worker, Send(v), NEW w \in Links
  PROVE  LinkOf(w)'
<1>0. /\ Types /\ Control /\ LinkOf(w) /\ batch' = batch /\ symm' = symm
      /\ v \in Worker /\ w \in Worker /\ Sender(w) \in Worker /\ Sender(w) # w
      /\ batch \in Plans
  BY WorkerFacts DEF IInv, Link, Send, Types
<1> DEFINE s == Sender(w)  n == step[v]
<1>s. s' = s
  BY DEF Sender
<1>1. /\ UNCHANGED <<posted, step, outbuf>> /\ pc[v] = "send" /\ pc'[v] = "idle"
      /\ \A x \in Worker \ {v} : pc'[x] = pc[x]
      /\ \A x \in Worker \ {Receiver(v)} : meta'[x] = meta[x] /\ chan'[x] = chan[x]
  BY <1>0 DEF Send, Types
<1>2. ~IsLast(v) /\ outbuf[v] = n /\ IsForward(n) /\ n \in 1 .. MaxSteps
  BY <1>0, <1>1, Counters DEF Control, ControlOf
<1>3. CASE v # w /\ v # s
  <2>1. w # Receiver(v)
    BY <1>2, <1>3, WorkerFacts
  <2> QED
    BY <1>0, <1>1, <1>3, <2>1, LinkFrame
<1>4. CASE v = w
  <2>1. w # Receiver(v)
    BY <1>2, <1>4, <1>0, WorkerFacts
  <2>2. posted[w] = <<>>
    BY <1>0, <1>1, <1>4 DEF Control, ControlOf
  <2>3. Finished(s)' = Finished(s) /\ Received(w)' = Received(w)
    BY <1>0, <1>1, <1>4, <1>s DEF Finished, Received
  <2>4. Quiet(w) => Quiet(w)'
    BY <1>0, <1>1, <2>1, <2>3, BatchFrame DEF Quiet
  <2>5. Sent(w) => Sent(w)'
    BY <1>0, <1>1, <1>4, <1>s, <2>1, <2>3, BatchFrame DEF Sent
  <2>6. ~Arriving(w)
    BY <2>2 DEF Arriving
  <2> QED
    BY <1>0, <2>3, <2>4, <2>5, <2>6, BatchFrame DEF LinkOf
<1>5. CASE v = s
  <2>1. Quiet(w) /\ w = Receiver(v)
    BY <1>0, <1>1, <1>5, BusyIsQuiet, WorkerFacts
  <2>2. /\ meta' = [meta EXCEPT ![w] = Append(@, Entries(n))]
        /\ chan' = [chan EXCEPT ![w] = @ \o Pieces(n)]
    BY <1>0, <1>2, <2>1, SendFacts
  <2>3. <<>> \o Pieces(n) = Pieces(n) /\ Append(<<>>, Entries(n)) = <<Entries(n)>>
    BY ShortConcats DEF Pieces
  <2>4. meta'[w] = <<Entries(n)>> /\ chan'[w] = Pieces(n)
    BY <1>0, <2>1, <2>2, <2>3 DEF Quiet, Types
  <2>5. /\ Finished(s) = n - 1 /\ Finished(s)' = n /\ Received(w)' = Received(w)
        /\ Received(w) \in Nat
    BY <1>0, <1>1, <1>5, <1>s, Counters DEF Finished, Received
  <2>6. NoneBetween(Received(w), n - 1) /\ NoneBetween(n - 1, Received(w))
    BY <1>0, <2>1, <2>5 DEF Quiet, LinkOf
  <2>7. Received(w) < n /\ NoneBetween(n, Received(w))
    BY <1>2, <2>5, <2>6 DEF NoneBetween, IsForward
  <2>8. Sent(w)'
    BY <1>0, <1>1, <1>2, <1>5, <1>s, <2>1, <2>4, <2>5, <2>6, <2>7, BatchFrame DEF Sent, Quiet
  <2> QED
    BY <1>0, <2>5, <2>7, <2>8, <1>5, <1>s, BatchFrame DEF LinkOf
<1> QED
  BY <1>3, <1>4, <1>5

LEMMA LinkStep ==
  ASSUME IInv, [Next]_vars PROVE Link'
<1> SUFFICES ASSUME NEW w \in Links PROVE LinkOf(w)'
  BY DEF Link, Links
<1>1. ASSUME UNCHANGED <<batch, symm, meta, chan, posted, pc, step, outbuf>>
      PROVE  LinkOf(w)'
  BY <1>1, LinkFrame DEF IInv, Link
<1> QED
  BY <1>1, BeginLink, ReceiveLink, DeliverLink, ForwardLink, SendLink
     DEF Next, Gather, vars

-----------------------------------------------------------------------------
(* The control state.                                                      *)

\* What a worker receives is the step it is in.
LEMMA ReceiveIs ==
  ASSUME IInv, NEW w \in Worker, Receive(w)
  PROVE  /\ w \in Links /\ Sent(w) /\ step[Sender(w)] = step[w]
         /\ step[w] \in 1 .. MaxSteps /\ batch[step[w]].forward /\ pc[w] = "recv"
         /\ posted' = [posted EXCEPT ![w] = Pieces(step[w])]
         /\ todo' = [todo EXCEPT ![w] = Gathers(step[w])]
<1> DEFINE s == Sender(w)
<1>0. Types /\ Control /\ batch \in Plans /\ pc[w] = "recv" /\ meta[w] # <<>>
  BY DEF IInv, Types, Receive
<1>1. w \in Links /\ s \in Worker
  BY <1>0, WorkerFacts DEF Control, ControlOf
<1>2. Sent(w)
  BY <1>0, <1>1 DEF IInv, Link, LinkOf, Quiet, Arriving
<1>3. /\ step[w] \in Nat /\ Received(w) = step[w] - 1 /\ IsForward(step[w])
      /\ step[s] \in Nat /\ step[w] \in 1 .. MaxSteps
  BY <1>0, <1>1, <1>2, Counters DEF Received, IsForward
<1>4. step[s] = step[w]
  <2>1. Received(w) < step[s] /\ NoneBetween(Received(w), step[s] - 1)
    BY <1>2 DEF Sent
  <2>2. step[w] <= step[s] - 1 => ~batch[step[w]].forward
    BY <1>3, <2>1 DEF NoneBetween
  <2> QED
    BY <1>3, <2>1, <2>2 DEF IsForward
<1>5. /\ posted' = [posted EXCEPT ![w] = Pieces(step[w])]
      /\ todo' = [todo EXCEPT ![w] = Gathers(step[w])]
  BY <1>0, <1>2, <1>3, <1>4, ReceiveFacts DEF Sent
<1> QED
  BY <1>0, <1>1, <1>2, <1>3, <1>4, <1>5 DEF IsForward

LEMMA ControlFrame ==
  ASSUME batch' = batch, symm' = symm, NEW w \in Worker, ControlOf(w),
         UNCHANGED <<pc[w], step[w], outbuf[w], posted[w], todo[w]>>
  PROVE  ControlOf(w)'
<1>1. /\ pc'[w] = pc[w] /\ step'[w] = step[w] /\ outbuf'[w] = outbuf[w]
      /\ posted'[w] = posted[w] /\ todo'[w] = todo[w]
  OBVIOUS
<1> QED
  BY <1>1, BatchFrame DEF ControlOf, IsFirst, IsLast

LEMMA ControlStep ==
  ASSUME IInv, [Next]_vars PROVE Control'
<1> SUFFICES ASSUME NEW w \in Worker PROVE ControlOf(w)'
  BY DEF Control
<1>0. /\ Types /\ Control /\ ControlOf(w) /\ batch' = batch /\ symm' = symm
      /\ batch \in Plans
  BY BatchFixed DEF IInv, Control, Types
<1>1. ASSUME NEW v \in Worker, Begin(v) PROVE ControlOf(w)'
  <2>1. CASE v # w
    BY <1>0, <1>1, <2>1, ControlFrame DEF Begin, Types
  <2>2. CASE v = w
    <3>1. /\ step[w] \in Nat /\ step[w] + 1 \in 1 .. MaxSteps /\ step'[w] = step[w] + 1
          /\ pc'[w] = IF ~batch[step[w] + 1].forward THEN "idle"
                      ELSE IF IsFirst(w) THEN "forward" ELSE "recv"
          /\ posted'[w] = <<>> /\ todo'[w] = <<>>
      BY <1>0, <1>1, <2>2, Counters DEF Begin, Types, Control, ControlOf
    <3>2. pc'[w] # "idle" => IsForward(step'[w])
      BY <3>1 DEF IsForward
    <3> QED
      BY <1>0, <3>1, <3>2, BatchFrame DEF ControlOf, IsFirst, IsLast
  <2> QED
    BY <2>1, <2>2
<1>2. ASSUME NEW v \in Worker, Receive(v) PROVE ControlOf(w)'
  <2>0. /\ posted' = [posted EXCEPT ![v] = Pieces(step[v])]
        /\ todo' = [todo EXCEPT ![v] = Gathers(step[v])]
        /\ v \in Links /\ step[v] \in 1 .. MaxSteps /\ batch[step[v]].forward
        /\ pc' = [pc EXCEPT ![v] = "wait"] /\ step' = step /\ outbuf' = outbuf
    BY <1>2, ReceiveIs DEF Receive
  <2>1. CASE v # w
    BY <1>0, <2>0, <2>1, ControlFrame DEF Types
  <2>2. CASE v = w
    <3>1. /\ posted'[w] = Pieces(step[w]) /\ todo'[w] = Gathers(step[w])
          /\ pc'[w] = "wait" /\ step'[w] = step[w] /\ ~IsFirst(w)
      BY <1>0, <2>0, <2>2, WorkerFacts DEF Types
    <3>2. Pieces(step[w]) \in Queues(step[w]) /\ Gathers(step[w]) \in Queues(step[w])
      BY <1>0, <2>0, <2>2, PiecesFacts
    <3>3. IsForward(step[w])
      BY <2>0, <2>2 DEF IsForward
    <3> QED
      BY <1>0, <3>1, <3>2, <3>3, BatchFrame DEF ControlOf, IsFirst, IsLast
  <2> QED
    BY <2>1, <2>2
<1>3. ASSUME NEW v \in Worker, Deliver(v) PROVE ControlOf(w)'
  <2>1. CASE v # w
    BY <1>0, <1>3, <2>1, ControlFrame DEF Deliver, Types
  <2>2. CASE v = w
    <3>1. /\ posted[w] \in Queues(step[w]) /\ step[w] \in 1 .. MaxSteps /\ pc[w] = "wait"
          /\ posted[w] # <<>>
      BY <1>3, <2>2, DeliverFacts DEF Arriving
    <3>2. Tail(posted[w]) \in Queues(step[w])
      BY <1>0, <3>1, QueueFacts
    <3>3. /\ posted'[w] = Tail(posted[w]) /\ todo'[w] = todo[w] /\ pc'[w] = pc[w]
          /\ step'[w] = step[w] /\ outbuf'[w] = outbuf[w]
      BY <1>0, <1>3, <2>2 DEF Deliver, Types
    <3> QED
      BY <1>0, <3>1, <3>2, <3>3, BatchFrame DEF ControlOf, IsFirst, IsLast
  <2> QED
    BY <2>1, <2>2
<1>4. ASSUME NEW v \in Worker, Forward(v) PROVE ControlOf(w)'
  <2>1. CASE v # w
    BY <1>0, <1>4, <2>1, ControlFrame DEF Forward, Types
  <2>2. CASE v = w
    <3>1. /\ pc'[w] = IF IsLast(w) THEN "idle" ELSE "send"
          /\ outbuf'[w] = step[w] /\ step'[w] = step[w]
          /\ posted'[w] = <<>> /\ todo'[w] = <<>> /\ pc[w] # "idle"
      BY <1>0, <1>4, <2>2 DEF Forward, Types, InputsReady, ControlOf
    <3> QED
      BY <1>0, <3>1, BatchFrame DEF ControlOf, IsFirst, IsLast
  <2> QED
    BY <2>1, <2>2
<1>5. ASSUME NEW v \in Worker, Send(v) PROVE ControlOf(w)'
  <2>1. CASE v # w
    BY <1>0, <1>5, <2>1, ControlFrame DEF Send, Types
  <2>2. CASE v = w
    <3>1. /\ pc'[w] = "idle" /\ step'[w] = step[w] /\ outbuf'[w] = outbuf[w]
          /\ posted'[w] = <<>> /\ todo'[w] = <<>>
      BY <1>0, <1>5, <2>2 DEF Send, Types, ControlOf
    <3> QED
      BY <1>0, <3>1 DEF ControlOf
  <2> QED
    BY <2>1, <2>2
<1>6. ASSUME NEW p \in Stage, Gather(p) PROVE ControlOf(w)'
  <2>1. /\ UNCHANGED <<pc, step, outbuf, posted>>
        /\ todo'[w] = IF w[1] = p THEN Tail(todo[w]) ELSE todo[w]
    BY <1>6 DEF Gather
  <2>2. CASE w[1] # p
    BY <1>0, <2>1, <2>2, ControlFrame
  <2>3. CASE w[1] = p
    <3>1. pc[w] = "wait" /\ todo[w] # <<>>
      BY <1>6, <2>3, WorkerFacts DEF Gather
    <3>2. step[w] \in 1 .. MaxSteps /\ todo[w] \in Queues(step[w])
      BY <1>0, <3>1 DEF ControlOf, IsForward
    <3>3. Tail(todo[w]) \in Queues(step[w])
      BY <1>0, <3>1, <3>2, QueueFacts
    <3> QED
      BY <1>0, <2>1, <2>3, <3>1, <3>3, BatchFrame DEF ControlOf, IsFirst, IsLast
  <2> QED
    BY <2>2, <2>3
<1>7. CASE UNCHANGED vars
  BY <1>0, <1>7, ControlFrame DEF vars
<1> QED
  BY <1>1, <1>2, <1>3, <1>4, <1>5, <1>6, <1>7 DEF Next

LEMMA InitIInv == Init => IInv
<1> SUFFICES ASSUME Init PROVE IInv
  OBVIOUS
<1> USE DEF Init
<1>0. /\ 0 \in 0 .. MaxSteps /\ \A n \in Nat : NoneBetween(0, 0)
  BY SizeAssumption DEF NoneBetween
<1>1. Types
  BY <1>0 DEF Types
<1>2. Control
  BY DEF Control, ControlOf
<1>3. Link
  <2> SUFFICES ASSUME NEW w \in Links PROVE LinkOf(w)
    BY DEF Link
  <2>1. w \in Worker /\ Sender(w) \in Worker
    BY WorkerFacts
  <2>2. Received(w) = 0 /\ Finished(Sender(w)) = 0
    BY <2>1 DEF Received, Finished
  <2>3. NoneBetween(0, 0)
    BY DEF NoneBetween
  <2> QED
    BY <2>1, <2>2, <2>3 DEF LinkOf, Quiet
<1>4. Contents
  BY DEF Contents, ContentsOf
<1>5. SameGathers
  <2> SUFFICES ASSUME NEW v \in Links, NEW w \in Links PROVE Abreast(v, w)
    BY DEF SameGathers, Together
  <2>1. Received(v) = 0 /\ Received(w) = 0 /\ todo[v] = <<>> /\ todo[w] = <<>>
    BY DEF Received, Links
  <2>2. NoGatherBetween(0, 0)
    BY DEF NoGatherBetween
  <2> QED
    BY <2>1, <2>2 DEF Abreast
<1> QED
  BY <1>1, <1>2, <1>3, <1>4, <1>5 DEF IInv

-----------------------------------------------------------------------------
(* What has arrived.                                                       *)

LEMMA ContentsFrame ==
  ASSUME batch' = batch, symm' = symm, NEW w \in Worker, ContentsOf(w),
         UNCHANGED <<pc[w], step[w], posted[w], todo[w], dict[w], scratch[w]>>
  PROVE  ContentsOf(w)'
<1>1. /\ pc'[w] = pc[w] /\ step'[w] = step[w] /\ posted'[w] = posted[w]
      /\ todo'[w] = todo[w] /\ dict'[w] = dict[w] /\ scratch'[w] = scratch[w]
  OBVIOUS
<1>2. KeysOf(todo[w])' = KeysOf(todo[w]) /\ KeysOf(posted[w])' = KeysOf(posted[w])
  BY <1>1 DEF KeysOf
<1>3. \A k : Holds(w, k)' <=> Holds(w, k)
  BY <1>1, <1>2, BatchFrame DEF Holds
<1> QED
  BY <1>1, <1>2, <1>3, BatchFrame DEF ContentsOf

LEMMA ReceiveContents ==
  ASSUME IInv, NEW w \in Worker, Receive(w) PROVE ContentsOf(w)'
<1> DEFINE n == step[w]
<1>0. /\ Types /\ batch \in Plans /\ n \in 1 .. MaxSteps /\ batch[n].forward
      /\ batch' = batch /\ symm' = symm
      /\ posted' = [posted EXCEPT ![w] = Pieces(n)]
      /\ todo' = [todo EXCEPT ![w] = Gathers(n)]
  BY ReceiveIs DEF IInv, Types, Receive
<1>1. /\ posted'[w] = Pieces(n) /\ todo'[w] = Gathers(n) /\ step'[w] = n
      /\ \A k \in Key : dict'[w][k] = [at |-> "own", elems |-> <<>>]
  BY <1>0 DEF Types, Receive
<1>2. /\ KeysOf(posted[w])' = {k \in Key : Size(n, k) > 0}
      /\ KeysOf(todo[w])' = {k \in Key : IsGathered(n, k)}
  <2>1. /\ KeysOf(Pieces(n)) = {k \in Key : Size(n, k) > 0}
        /\ KeysOf(Gathers(n)) = {k \in Key : IsGathered(n, k)}
    BY <1>0, PiecesFacts
  <2>2. KeysOf(posted[w])' = KeysOf(Pieces(n)) /\ KeysOf(todo[w])' = KeysOf(Gathers(n))
    BY <1>1 DEF KeysOf
  <2> QED
    BY <2>1, <2>2
<1>3. ASSUME NEW k \in Key, ~(Size(n, k) > 0) PROVE Holds(w, k)'
  <2>1. Size(n, k) = 0
    BY <1>0, <1>3, SizeFacts
  <2> QED
    BY <1>0, <1>1, <2>1, BatchFrame DEF Holds
<1>4. \A k \in Key : PieceAt(n, k).sliced /\ Size(n, k) > 0 => IsGathered(n, k)
  BY DEF IsGathered
<1> QED
  BY <1>0, <1>1, <1>2, <1>3, <1>4, BatchFrame DEF ContentsOf

LEMMA DeliverContents ==
  ASSUME IInv, NEW w \in Worker, Deliver(w) PROVE ContentsOf(w)'
<1>n. PICK n, k0 : n = step[w] /\ k0 = Head(posted[w]).key
  OBVIOUS
<1> DEFINE s == Sender(w)
           elems == PieceOf(Tensor(outbuf[s], Head(chan[w]).key, s[2]), Head(chan[w]), s[2])
<1>0. /\ Types /\ batch \in Plans /\ n \in 1 .. MaxSteps /\ w \in Links
      /\ batch' = batch /\ symm' = symm /\ ContentsOf(w)
      /\ Arriving(w) /\ posted[w] \in Queues(n) /\ pc[w] = "wait" /\ posted[w] # <<>>
  BY <1>n, DeliverFacts DEF IInv, Contents, Types, Deliver, Arriving
<1>1. /\ posted'[w] = Tail(posted[w]) /\ todo'[w] = todo[w] /\ step'[w] = n
      /\ pc'[w] = pc[w] /\ scratch'[w] = scratch[w]
      /\ dict'[w] = [dict[w] EXCEPT ![k0] = [at |-> "own", elems |-> elems]]
  BY <1>n, <1>0 DEF Types, Deliver
<1>2. /\ KeysOf(posted[w]) \subseteq Key /\ k0 \in KeysOf(posted[w])
      /\ Head(posted[w]) = PieceAt(n, k0)
      /\ KeysOf(posted[w])' = KeysOf(posted[w]) \ {k0}
      /\ KeysOf(todo[w])' = KeysOf(todo[w])
  <2>1. /\ KeysOf(posted[w]) \subseteq Key /\ k0 \in KeysOf(posted[w])
        /\ Head(posted[w]) = PieceAt(n, k0)
        /\ KeysOf(Tail(posted[w])) = KeysOf(posted[w]) \ {k0}
    BY <1>n, <1>0, QueueFacts
  <2>2. /\ KeysOf(posted[w])' = KeysOf(Tail(posted[w]))
        /\ KeysOf(todo[w])' = KeysOf(todo[w])
    BY <1>1 DEF KeysOf
  <2> QED
    BY <2>1, <2>2
<1>3. k0 \in Key /\ Size(n, k0) > 0 /\ (PieceAt(n, k0).sliced => k0 \in KeysOf(todo[w]))
  BY <1>n, <1>0, <1>2 DEF ContentsOf
<1>4. elems = PieceOf(Tensor(n, k0, w[2]), PieceAt(n, k0), w[2])
  <2>1. outbuf[s] = n /\ chan[w] = posted[w] /\ s[2] = w[2]
    BY <1>n, <1>0 DEF Arriving, Sender
  <2>2. Head(chan[w]) = PieceAt(n, k0) /\ Head(chan[w]).key = k0
    BY <1>n, <1>2, <2>1
  <2> QED
    BY <2>1, <2>2
<1> HIDE DEF elems
<1>5. Holds(w, k0)'
  <2>1. dict'[w][k0] = [at |-> "own", elems |-> elems]
    BY <1>0, <1>1, <1>3 DEF Types
  <2>2. PieceAt(n, k0).sliced => Tensor(n, k0, w[2]) = Whole(n, k0)
    BY <1>0, <1>3, SizeFacts
  <2>3. CASE PieceAt(n, k0).sliced
    <3>1. elems = Chunk(Whole(n, k0), w[2])
      BY <1>4, <2>2, <2>3 DEF PieceOf
    <3>2. Chunk(Whole(n, k0), w[2])' = Chunk(Whole(n, k0), w[2])
      BY <1>0, <1>1, BatchFrame DEF Chunk
    <3> QED
      BY <1>0, <1>1, <1>2, <1>3, <2>1, <2>3, <3>1, <3>2, <1>n, BatchFrame DEF Holds
  <2>4. CASE ~PieceAt(n, k0).sliced
    <3>1. elems = Tensor(n, k0, w[2])
      BY <1>4, <2>4 DEF PieceOf
    <3> QED
      BY <1>0, <1>1, <1>3, <2>1, <2>4, <3>1, <1>n, BatchFrame DEF Holds
  <2> QED
    BY <2>3, <2>4
<1>6. ASSUME NEW k \in Key \ KeysOf(posted[w]) PROVE Holds(w, k)'
  <2>1. dict'[w][k] = dict[w][k]
    BY <1>0, <1>1, <1>2 DEF Types
  <2>2. Holds(w, k)
    BY <1>n, <1>0 DEF ContentsOf
  <2>3. Chunk(Whole(n, k), w[2])' = Chunk(Whole(n, k), w[2])
    BY <1>0, <1>1, BatchFrame DEF Chunk
  <2> QED
    BY <1>0, <1>1, <1>2, <2>1, <2>2, <2>3, <1>n, BatchFrame DEF Holds
<1>7. \A k \in Key \ KeysOf(posted[w])' : Holds(w, k)'
  BY <1>2, <1>5, <1>6
<1> QED
  BY <1>0, <1>1, <1>2, <1>7, <1>n, BatchFrame DEF ContentsOf

\* The ranks of a gather bring the slices of one tensor, and all get it whole.
LEMMA GatherFacts ==
  ASSUME IInv, NEW p \in Stage, Gather(p), NEW w \in Worker, w[1] = p
  PROVE  LET k == Head(todo[w]).key  n == step[w]
         IN /\ n \in 1 .. MaxSteps /\ pc[w] = "wait" /\ posted[w] = <<>> /\ todo[w] # <<>>
            /\ todo[w] \in Queues(n) /\ k \in KeysOf(todo[w]) /\ k \in Key
            /\ IsGathered(n, k) /\ KeysOf(Tail(todo[w])) = KeysOf(todo[w]) \ {k}
            /\ dict'[w] = [dict[w] EXCEPT ![k] = Gathered(w, Whole(n, k))]
            /\ scratch'[w] = IF symm THEN [scratch[w] EXCEPT ![Size(n, k)] = Whole(n, k)]
                                     ELSE scratch[w]
            /\ todo'[w] = Tail(todo[w])
<1> DEFINE k == Head(todo[w]).key  n == step[w]
           slice(t) == dict[<<p, t>>][Head(todo[<<p, t>>]).key].elems
           whole == FlattenSeq([i \in 1 .. TP |-> slice(i - 1)])
<1>0. /\ Types /\ Control /\ Contents /\ SameGathers /\ batch \in Plans
      /\ w = <<p, w[2]>> /\ w[2] \in Rank
  BY WorkerFacts DEF IInv, Types
<1>1. ASSUME NEW t \in Rank
      PROVE  LET x == <<p, t>>
             IN /\ x \in Worker /\ pc[x] = "wait" /\ posted[x] = <<>> /\ todo[x] # <<>>
                /\ x \in Links
  <2> DEFINE x == <<p, t>>
  <2>1. x \in Worker /\ pc[x] = "wait" /\ posted[x] = <<>> /\ todo[x] # <<>>
    BY DEF Gather, Worker
  <2>2. x \in Links
    BY <1>0, <2>1, WorkerFacts DEF Control, ControlOf
  <2> QED
    BY <2>1, <2>2
<1>2. w \in Links /\ pc[w] = "wait" /\ posted[w] = <<>> /\ todo[w] # <<>>
  BY <1>0, <1>1
<1>3. n \in 1 .. MaxSteps /\ todo[w] \in Queues(n)
  BY <1>0, <1>2 DEF Control, ControlOf, IsForward
<1>4. /\ k \in KeysOf(todo[w]) /\ k \in Key
      /\ KeysOf(Tail(todo[w])) = KeysOf(todo[w]) \ {k}
  BY <1>0, <1>2, <1>3, QueueFacts
<1>5. IsGathered(n, k)
  BY <1>0, <1>2, <1>4 DEF Contents, ContentsOf
<1>6. ASSUME NEW t \in Rank PROVE slice(t) = Chunk(Whole(n, k), t)
  <2> DEFINE x == <<p, t>>
  <2>1. x \in Worker /\ pc[x] = "wait" /\ posted[x] = <<>> /\ todo[x] # <<>> /\ x \in Links
    BY <1>1
  <2>2. x[1] = p /\ x[2] = t
    OBVIOUS
  <2> HIDE DEF x
  <2>3. Abreast(w, x)
    BY <1>0, <1>2, <2>1, <2>2 DEF SameGathers, Together, Behind
  <2>4. todo[x] = todo[w] /\ step[x] = n
    BY <1>2, <2>3 DEF Abreast
  <2>5. KeysOf(posted[x]) = {}
    BY <2>1, KeysOfShort
  <2>6. Holds(x, k)
    BY <1>0, <1>4, <2>1, <2>5 DEF Contents, ContentsOf
  <2>7. dict[x][k] = [at |-> "own", elems |-> Chunk(Whole(n, k), t)]
    BY <1>4, <1>5, <2>2, <2>4, <2>6 DEF Holds, IsGathered
  <2> QED
    BY <2>4, <2>7 DEF x
<1>7. whole = Whole(n, k)
  <2>1. [i \in 1 .. TP |-> slice(i - 1)] = [i \in 1 .. TP |-> Chunk(Whole(n, k), i - 1)]
    <3>1. \A i \in 1 .. TP : i - 1 \in Rank
      BY SizeAssumption DEF Rank
    <3>2. \A i \in 1 .. TP : slice(i - 1) = Chunk(Whole(n, k), i - 1)
      BY <1>6, <3>1
    <3> HIDE DEF slice
    <3> QED
      BY <3>2
  <2>2. PICK S : Whole(n, k) \in Seq(S)
    BY <1>3, <1>4, <1>0, WholeFacts
  <2>3. Len(Whole(n, k)) % TP = 0
    BY <1>0, <1>3, <1>4, <1>5, SizeFacts DEF IsGathered
  <2> QED
    BY <2>1, <2>2, <2>3, ChunksAreWhole
<1>8. /\ dict'[w] = [dict[w] EXCEPT ![k] = Gathered(w, whole)]
      /\ scratch'[w] = IF symm THEN [scratch[w] EXCEPT ![Len(whole)] = whole] ELSE scratch[w]
      /\ todo'[w] = Tail(todo[w])
  <2> HIDE DEF slice
  <2>1. /\ dict' = [v \in Worker |-> IF v[1] # p THEN dict[v]
             ELSE [dict[v] EXCEPT ![Head(todo[v]).key] = Gathered(v, whole)]]
        /\ scratch' = [v \in Worker |-> IF symm /\ v[1] = p
               THEN [scratch[v] EXCEPT ![Len(whole)] = whole] ELSE scratch[v]]
        /\ todo' = [v \in Worker |-> IF v[1] = p THEN Tail(todo[v]) ELSE todo[v]]
    BY DEF Gather, slice
  <2> HIDE DEF whole
  <2> QED
    BY <2>1
<1>9. Len(whole) = Size(n, k)
  BY <1>0, <1>3, <1>4, <1>5, <1>7, SizeFacts DEF IsGathered
<1> HIDE DEF whole, slice
<1> QED
  BY <1>2, <1>3, <1>4, <1>5, <1>7, <1>8, <1>9

LEMMA GatherContents ==
  ASSUME IInv, NEW p \in Stage, Gather(p), NEW w \in Worker, w[1] = p
  PROVE  ContentsOf(w)'
<1>n. PICK n, k0 : n = step[w] /\ k0 = Head(todo[w]).key
  OBVIOUS
<1>0. /\ Types /\ batch \in Plans /\ ContentsOf(w) /\ batch' = batch /\ symm' = symm
      /\ pc'[w] = pc[w] /\ step'[w] = step[w] /\ posted'[w] = posted[w]
  BY <1>n DEF IInv, Types, Contents, Gather
<1>1. /\ n \in 1 .. MaxSteps /\ pc[w] = "wait" /\ posted[w] = <<>>
      /\ k0 \in KeysOf(todo[w]) /\ k0 \in Key /\ IsGathered(n, k0)
      /\ dict'[w] = [dict[w] EXCEPT ![k0] = Gathered(w, Whole(n, k0))]
      /\ scratch'[w] = IF symm THEN [scratch[w] EXCEPT ![Size(n, k0)] = Whole(n, k0)]
                               ELSE scratch[w]
      /\ todo'[w] = Tail(todo[w]) /\ KeysOf(Tail(todo[w])) = KeysOf(todo[w]) \ {k0}
  BY <1>n, GatherFacts
<1>2. KeysOf(todo[w])' = KeysOf(todo[w]) \ {k0} /\ KeysOf(posted[w])' = {}
  <2>1. KeysOf(todo[w])' = KeysOf(Tail(todo[w])) /\ KeysOf(posted[w])' = KeysOf(<<>>)
    BY <1>0, <1>1 DEF KeysOf
  <2> QED
    BY <1>1, <2>1, KeysOfShort
<1>3. DOMAIN dict[w] = Key /\ DOMAIN scratch[w] = Sizes
  BY <1>0 DEF Types
<1>4. /\ Size(n, k0) > 0 /\ PieceAt(n, k0).sliced /\ Size(n, k0) \in Sizes
      /\ Size(n, k0) \in Nat
  BY <1>0, <1>1, SizeFacts DEF IsGathered
<1>5. Holds(w, k0)'
  <2>1. dict'[w][k0] = Gathered(w, Whole(n, k0))
    BY <1>1, <1>3
  <2>2. symm => scratch'[w][Size(n, k0)] = Whole(n, k0)
    BY <1>1, <1>3, <1>4
  <2> QED
    BY <1>0, <1>2, <1>4, <2>1, <2>2, <1>n, BatchFrame DEF Holds
<1>6. ASSUME NEW k \in Key, k # k0 PROVE Holds(w, k)'
  <2>1. dict'[w][k] = dict[w][k]
    BY <1>1, <1>3, <1>6
  <2>2. Holds(w, k)
    <3>1. KeysOf(posted[w]) = {}
      BY <1>1, KeysOfShort
    <3> QED
      BY <1>n, <1>0, <1>1, <3>1 DEF ContentsOf
  <2>3. k \in KeysOf(todo[w])' <=> k \in KeysOf(todo[w])
    BY <1>2, <1>6
  <2>4. Chunk(Whole(n, k), w[2])' = Chunk(Whole(n, k), w[2])
    BY <1>0, BatchFrame DEF Chunk
  <2>5. /\ PieceAt(n, k).sliced /\ Size(n, k) # 0 /\ symm /\ ~ShareScratch(n)
        => scratch'[w][Size(n, k)] = scratch[w][Size(n, k)]
    <3> SUFFICES ASSUME PieceAt(n, k).sliced, Size(n, k) # 0, symm, ~ShareScratch(n)
                 PROVE  scratch'[w][Size(n, k)] = scratch[w][Size(n, k)]
      OBVIOUS
    <3>1. Size(n, k) \in Sizes
      BY <1>0, <1>1, SizeFacts
    <3>2. Size(n, k) # Size(n, k0)
      <4> SUFFICES ASSUME Size(n, k) = Size(n, k0) PROVE FALSE
        OBVIOUS
      <4>1. {k, k0} = {H, R} /\ H # R /\ Key = {H, R}
        BY <1>1, <1>6 DEF Key, H, R
      <4>2. Size(n, H) = Size(n, R) /\ PieceAt(n, H).sliced /\ PieceAt(n, R).sliced
            /\ Size(n, H) > 0
        BY <1>4, <4>1
      <4>3. ~batch[n].scattered
        <5>1. PieceAt(n, R).sliced => ~(R = R /\ batch[n].scattered)
          BY <1>0, <1>1, SizeFacts, BatchFacts DEF PieceAt, Piece, ShouldUseAllGather, R
        <5> QED
          BY <4>2, <5>1
      <4>4. Size(n, H) = batch[n].numel[H] /\ Size(n, R) = batch[n].numel[R]
        BY <4>1, <4>3 DEF Size
      <4>5. \A key \in Key : ShouldUseAllGather(n, key, Size(n, H))
        BY <4>1, <4>2 DEF PieceAt, Piece
      <4> QED
        BY <4>2, <4>4, <4>5 DEF ShareScratch, H, R
    <3> QED
      BY <1>1, <1>3, <3>1, <3>2
  <2> QED
    BY <1>0, <2>1, <2>2, <2>3, <2>4, <2>5, <1>n, BatchFrame DEF Holds
<1>7. \A k \in Key : Holds(w, k)'
  BY <1>5, <1>6
<1>8. \A k \in KeysOf(todo[w])' : IsGathered(n, k)
  BY <1>n, <1>0, <1>1, <1>2 DEF ContentsOf
<1> QED
  BY <1>0, <1>2, <1>7, <1>8, <1>n, BatchFrame DEF ContentsOf

LEMMA ContentsStep ==
  ASSUME IInv, [Next]_vars PROVE Contents'
<1> SUFFICES ASSUME NEW w \in Worker PROVE ContentsOf(w)'
  BY DEF Contents
<1>0. /\ Types /\ ContentsOf(w) /\ batch' = batch /\ symm' = symm
  BY BatchFixed DEF IInv, Contents
<1>1. ASSUME NEW v \in Worker, Begin(v) PROVE ContentsOf(w)'
  <2>1. CASE v # w
    BY <1>0, <1>1, <2>1, ContentsFrame DEF Begin, Types
  <2>2. CASE v = w
    BY <1>0, <1>1, <2>2 DEF Begin, Types, ContentsOf
  <2> QED
    BY <2>1, <2>2
<1>2. ASSUME NEW v \in Worker, Receive(v) PROVE ContentsOf(w)'
  <2>1. CASE v # w
    <3>1. posted'[w] = posted[w] /\ todo'[w] = todo[w]
      BY <1>0, <1>2, <2>1, ReceiveIs DEF Types
    <3> QED
      BY <1>0, <1>2, <2>1, <3>1, ContentsFrame DEF Receive, Types
  <2> QED
    BY <1>2, <2>1, ReceiveContents
<1>3. ASSUME NEW v \in Worker, Deliver(v) PROVE ContentsOf(w)'
  <2>1. CASE v # w
    BY <1>0, <1>3, <2>1, ContentsFrame DEF Deliver, Types
  <2> QED
    BY <1>3, <2>1, DeliverContents
<1>4. ASSUME NEW v \in Worker, Forward(v) \/ Send(v) PROVE ContentsOf(w)'
  <2>1. CASE v # w
    BY <1>0, <1>4, <2>1, ContentsFrame DEF Forward, Send, Types
  <2>2. CASE v = w
    <3>1. pc'[w] # "wait"
      BY <1>0, <1>4, <2>2 DEF Forward, Send, Types
    <3> QED
      BY <3>1 DEF ContentsOf
  <2> QED
    BY <2>1, <2>2
<1>5. ASSUME NEW p \in Stage, Gather(p) PROVE ContentsOf(w)'
  <2>1. CASE w[1] # p
    <3>1. dict'[w] = dict[w] /\ scratch'[w] = scratch[w] /\ todo'[w] = todo[w]
      BY <1>5, <2>1 DEF Gather
    <3> QED
      BY <1>0, <1>5, <3>1, ContentsFrame DEF Gather
  <2> QED
    BY <1>5, <2>1, GatherContents
<1>6. CASE UNCHANGED vars
  BY <1>0, <1>6, ContentsFrame DEF vars
<1> QED
  BY <1>1, <1>2, <1>3, <1>4, <1>5, <1>6 DEF Next

-----------------------------------------------------------------------------
(* The gathers of a stage.                                                 *)

LEMMA TogetherFrame ==
  ASSUME batch' = batch, symm' = symm, NEW v, NEW w, Together(v, w),
         UNCHANGED <<todo[v], todo[w], step[v], step[w], Received(v), Received(w)>>
  PROVE  Together(v, w)'
<1>1. /\ todo'[v] = todo[v] /\ todo'[w] = todo[w]
      /\ step'[v] = step[v] /\ step'[w] = step[w]
      /\ Received(v)' = Received(v) /\ Received(w)' = Received(w)
  OBVIOUS
<1>2. Abreast(v, w) => Abreast(v, w)'
  BY <1>1, BatchFrame DEF Abreast
<1>3. /\ Behind(v, w) => Behind(v, w)'
      /\ Behind(w, v) => Behind(w, v)'
  BY <1>1, BatchFrame DEF Behind
<1> QED
  BY <1>2, <1>3 DEF Together

LEMMA BeginTogether ==
  ASSUME IInv, NEW v \in Links, NEW w \in Links, v[1] = w[1], v # w, Begin(v)
  PROVE  Together(v, w)'
<1> DEFINE r == Received(v)  q == Received(w)
<1>0. /\ Types /\ Control /\ Together(v, w) /\ batch' = batch /\ symm' = symm
      /\ v \in Worker /\ w \in Worker
  BY DEF IInv, SameGathers, Begin, Links
<1>1. /\ todo' = todo /\ pc[v] = "idle" /\ step'[v] = step[v] + 1
      /\ pc'[v] = IF ~batch[step[v] + 1].forward THEN "idle" ELSE "recv"
      /\ pc'[w] = pc[w] /\ step'[w] = step[w]
  BY <1>0, WorkerFacts DEF Begin, Types
<1>2. /\ todo[v] = <<>> /\ r = step[v] /\ r \in Nat /\ q \in Nat /\ step[w] \in Nat
      /\ q' = q /\ todo'[v] = <<>> /\ todo'[w] = todo[w]
      /\ todo[w] # <<>> => batch[step[w]].forward
  BY <1>0, <1>1, Counters DEF Control, ControlOf, Received, IsForward
<1>3. CASE batch[step[v] + 1].forward
  <2>1. r' = r
    BY <1>1, <1>2, <1>3 DEF Received
  <2>2. Abreast(v, w) => Abreast(v, w)'
    BY <1>0, <1>2, <2>1, BatchFrame DEF Abreast
  <2>3. Behind(v, w) => Behind(v, w)'
    BY <1>0, <1>1, <1>2, <2>1, BatchFrame DEF Behind
  <2> QED
    BY <1>0, <1>2, <2>2, <2>3 DEF Together, Behind
<1>4. CASE ~batch[step[v] + 1].forward
  <2>1. r' = r + 1 /\ ~batch[r + 1].forward
    BY <1>1, <1>2, <1>4 DEF Received
  <2>2. Abreast(v, w) => Abreast(v, w)'
    <3> SUFFICES ASSUME Abreast(v, w) PROVE Abreast(v, w)'
      OBVIOUS
    <3>1. todo[w] = <<>> /\ NoGatherBetween(r, q) /\ NoGatherBetween(q, r)
      BY <1>2 DEF Abreast
    <3>2. NoGatherBetween(r + 1, q) /\ NoGatherBetween(q, r + 1)
      BY <1>2, <2>1, <3>1 DEF NoGatherBetween
    <3> QED
      BY <1>0, <1>2, <2>1, <3>1, <3>2, BatchFrame DEF Abreast
  <2>3. Behind(v, w) => Behind(v, w)'
    <3> SUFFICES ASSUME Behind(v, w) PROVE Behind(v, w)'
      OBVIOUS
    <3>1. r < step[w] /\ NoGatherBetween(r, step[w] - 1) /\ batch[step[w]].forward
      BY <1>2 DEF Behind
    <3>2. r + 1 < step[w] /\ NoGatherBetween(r + 1, step[w] - 1)
      BY <1>2, <2>1, <3>1 DEF NoGatherBetween
    <3> QED
      BY <1>0, <1>1, <1>2, <2>1, <3>2, BatchFrame DEF Behind
  <2> QED
    BY <1>0, <1>2, <2>2, <2>3 DEF Together, Behind
<1> QED
  BY <1>3, <1>4

LEMMA ReceiveTogether ==
  ASSUME IInv, NEW v \in Links, NEW w \in Links, v[1] = w[1], v # w, Receive(v)
  PROVE  Together(v, w)'
<1>n. PICK n, m : n = step[v] /\ m = step[w]
  OBVIOUS
<1> DEFINE q == Received(w)
<1>0. /\ Types /\ Control /\ Together(v, w) /\ batch' = batch /\ symm' = symm
      /\ v \in Worker /\ w \in Worker
  BY DEF IInv, SameGathers, Receive, Links
<1>1. /\ n \in 1 .. MaxSteps /\ batch[n].forward
      /\ pc[v] = "recv" /\ todo' = [todo EXCEPT ![v] = Gathers(n)]
  BY <1>n, <1>0, ReceiveIs
<1>2. /\ pc'[v] = "wait" /\ pc'[w] = pc[w] /\ step'[v] = n /\ step'[w] = m
      /\ todo'[v] = Gathers(n) /\ todo'[w] = todo[w]
  BY <1>n, <1>0, <1>1 DEF Receive, Types
<1>3. /\ Received(v) = n - 1 /\ Received(v)' = n /\ q' = q /\ todo[v] = <<>>
      /\ q \in Nat /\ n \in Nat /\ m \in Nat
  BY <1>n, <1>0, <1>1, <1>2, Counters DEF Received, Control, ControlOf
<1>4. CASE Abreast(v, w)
  <2>1. todo[w] = <<>> /\ NoGatherBetween(n - 1, q) /\ NoGatherBetween(q, n - 1)
    BY <1>3, <1>4 DEF Abreast
  <2>2. CASE Gathers(n) = <<>>
    <3>1. NoGatherBetween(n, q) /\ NoGatherBetween(q, n)
      BY <1>3, <2>1, <2>2 DEF NoGatherBetween
    <3>2. Abreast(v, w)'
      BY <1>0, <1>2, <1>3, <2>1, <2>2, <3>1, BatchFrame DEF Abreast
    <3> QED
      BY <3>2 DEF Together
  <2>3. CASE Gathers(n) # <<>>
    <3>1. q < n
      BY <1>1, <1>3, <2>1, <2>3 DEF NoGatherBetween
    <3>2. Behind(w, v)'
      BY <1>0, <1>2, <1>3, <2>1, <2>3, <3>1, BatchFrame DEF Behind
    <3> QED
      BY <3>2 DEF Together
  <2> QED
    BY <2>2, <2>3
<1>5. CASE Behind(v, w)
  <2>1. /\ todo[w] = Gathers(m) /\ todo[w] # <<>> /\ n - 1 < m
        /\ NoGatherBetween(n - 1, m - 1)
    BY <1>n, <1>3, <1>5 DEF Behind
  <2>2. CASE n = m
    <3>1. Abreast(v, w)'
      BY <1>2, <2>1, <2>2 DEF Abreast
    <3> QED
      BY <3>1 DEF Together
  <2>3. CASE n < m
    <3>1. Gathers(n) = <<>> /\ NoGatherBetween(n, m - 1)
      BY <1>1, <1>3, <2>1, <2>3 DEF NoGatherBetween
    <3>2. Behind(v, w)'
      BY <1>0, <1>2, <1>3, <2>1, <2>3, <3>1, BatchFrame DEF Behind
    <3> QED
      BY <3>2 DEF Together
  <2> QED
    BY <1>3, <2>1, <2>2, <2>3
<1>6. ~Behind(w, v)
  BY <1>3 DEF Behind
<1> QED
  BY <1>0, <1>4, <1>5, <1>6 DEF Together

LEMMA GatherTogether ==
  ASSUME IInv, NEW v \in Links, NEW w \in Links, v[1] = w[1],
         NEW p \in Stage, Gather(p), v[1] = p
  PROVE  Together(v, w)'
<1>0. /\ Types /\ Control /\ Together(v, w) /\ batch' = batch /\ symm' = symm
      /\ v \in Worker /\ w \in Worker /\ pc' = pc /\ step' = step
  BY DEF IInv, SameGathers, Gather, Links
<1>1. /\ pc[v] = "wait" /\ pc[w] = "wait" /\ todo[v] # <<>> /\ todo[w] # <<>>
      /\ todo'[v] = Tail(todo[v]) /\ todo'[w] = Tail(todo[w])
  BY <1>0, GatherFacts
<1>2. todo[v] = todo[w] /\ step[v] = step[w]
  BY <1>0, <1>1 DEF Together, Abreast, Behind
<1>3. Received(v)' = step[v] /\ Received(w)' = step[w] /\ step[v] \in Nat
  BY <1>0, <1>1, Counters DEF Received
<1>4. NoGatherBetween(step[v], step[v])
  BY <1>3 DEF NoGatherBetween
<1> QED
  BY <1>0, <1>1, <1>2, <1>3, <1>4, BatchFrame DEF Together, Abreast

LEMMA SameGathersStep ==
  ASSUME IInv, [Next]_vars PROVE SameGathers'
<1> SUFFICES ASSUME NEW v \in Links, NEW w \in Links, v[1] = w[1]
             PROVE  Together(v, w)'
  BY DEF SameGathers, Links
<1>0. /\ Types /\ Control /\ Together(v, w)
      /\ batch' = batch /\ symm' = symm /\ v \in Worker /\ w \in Worker
  BY BatchFixed DEF IInv, SameGathers, Links
<1>1. CASE v = w
  <2>1. Types' /\ Control'
    BY TypesStep, ControlStep DEF IInv
  <2>2. Received(v)' \in Nat
    <3>1. step'[v] \in Nat /\ pc'[v] = "recv" => step'[v] \in 1 .. MaxSteps
      BY <1>0, <2>1, SizeAssumption DEF Types, Control, ControlOf, IsForward
    <3>2. step'[v] \in Nat
      BY <1>0, <2>1, SizeAssumption DEF Types
    <3> QED
      BY <3>1, <3>2 DEF Received
  <2> QED
    BY <1>1, <2>2 DEF Together, Abreast, NoGatherBetween
<1>2. CASE v # w
  <2>0. Together(w, v)' => Together(v, w)'
    BY DEF Together, Abreast
  <2>1. ASSUME UNCHANGED <<todo[v], todo[w], step[v], step[w]>>,
               UNCHANGED <<Received(v), Received(w)>>
        PROVE  Together(v, w)'
    BY <1>0, <2>1, TogetherFrame
  <2>2. ASSUME NEW x \in Worker, Begin(x) PROVE Together(v, w)'
    <3>1. CASE x # v /\ x # w
      <4>1. UNCHANGED <<pc[v], pc[w], step[v], step[w], todo[v], todo[w]>>
        BY <1>0, <2>2, <3>1 DEF Begin, Types
      <4> QED
        BY <2>1, <4>1 DEF Received
    <3> QED
      BY <1>2, <2>0, <2>2, <3>1, BeginTogether
  <2>3. ASSUME NEW x \in Worker, Receive(x) PROVE Together(v, w)'
    <3>1. CASE x # v /\ x # w
      <4>1. UNCHANGED <<pc[v], pc[w], step[v], step[w], todo[v], todo[w]>>
        BY <1>0, <2>3, <3>1 DEF Receive, Types
      <4> QED
        BY <2>1, <4>1 DEF Received
    <3> QED
      BY <1>2, <2>0, <2>3, <3>1, ReceiveTogether
  <2>4. ASSUME NEW x \in Worker, Deliver(x) \/ Forward(x) \/ Send(x)
        PROVE  Together(v, w)'
    <3>1. /\ UNCHANGED <<step, todo>>
          /\ \A u \in Worker : pc[u] = "recv" <=> pc'[u] = "recv"
      BY <1>0, <2>4 DEF Deliver, Forward, Send, Types, InputsReady
    <3> QED
      BY <1>0, <2>1, <3>1 DEF Received
  <2>5. ASSUME NEW p \in Stage, Gather(p) PROVE Together(v, w)'
    <3>1. CASE v[1] = p
      BY <2>5, <3>1, GatherTogether
    <3>2. CASE v[1] # p
      <4>1. UNCHANGED <<pc, step>> /\ todo'[v] = todo[v] /\ todo'[w] = todo[w]
        BY <1>0, <2>5, <3>2 DEF Gather
      <4> QED
        BY <2>1, <4>1 DEF Received
    <3> QED
      BY <3>1, <3>2
  <2>6. CASE UNCHANGED vars
    BY <2>1, <2>6 DEF vars, Received
  <2> QED
    BY <2>2, <2>3, <2>4, <2>5, <2>6 DEF Next
<1> QED
  BY <1>1, <1>2

-----------------------------------------------------------------------------
(* The theorems.                                                           *)

LEMMA IInvStep == IInv /\ [Next]_vars => IInv'
<1> SUFFICES ASSUME IInv, [Next]_vars PROVE IInv'
  OBVIOUS
<1>1. Types'
  BY TypesStep DEF IInv
<1> QED
  BY <1>1, ControlStep, LinkStep, ContentsStep, SameGathersStep DEF IInv

\* A stage computes on the tensors of its own step, whatever its sender has
\* gone on to: execute_model waits for the sends of a step before it begins the
\* next one, so a link carries one step at a time and the metadata, the sends
\* and the receives of it are in one order (gpu_worker.py, isend_tensor_dict).
THEOREM InputsAlwaysIntact == Spec => []InputsIntact
<1>1. IInv => InputsIntact
  <2> SUFFICES ASSUME IInv, NEW w \in Worker, InputsReady(w), ~ShareScratch(step[w]),
                      NEW k \in Key
               PROVE  Read(w, k) = Tensor(step[w], k, w[2])
    BY DEF InputsIntact
  <2> DEFINE n == step[w]
  <2>1. /\ batch \in Plans /\ n \in 1 .. MaxSteps /\ w[2] \in Rank
        /\ posted[w] = <<>> /\ todo[w] = <<>> /\ pc[w] = "wait"
    BY WorkerFacts DEF IInv, Types, Control, ControlOf, InputsReady, IsForward
  <2>2. Holds(w, k) /\ k \notin KeysOf(todo[w])
    BY <2>1, KeysOfShort DEF IInv, Contents, ContentsOf
  <2>3. CASE Size(n, k) = 0
    <3>1. Tensor(n, k, w[2]) = <<>>
      BY <2>1, <2>3, SizeFacts
    <3> QED
      BY <2>2, <2>3, <3>1 DEF Holds, Read
  <2>4. CASE Size(n, k) # 0 /\ ~PieceAt(n, k).sliced
    BY <2>2, <2>4 DEF Holds, Read
  <2>5. CASE Size(n, k) # 0 /\ PieceAt(n, k).sliced
    <3>1. Tensor(n, k, w[2]) = Whole(n, k) /\ Len(Whole(n, k)) = Size(n, k)
      BY <2>1, <2>5, SizeFacts
    <3>2. /\ dict[w][k] = Gathered(w, Whole(n, k))
          /\ symm => scratch[w][Size(n, k)] = Whole(n, k)
      BY <2>2, <2>5 DEF Holds
    <3> QED
      BY <3>1, <3>2 DEF Read, Gathered
  <2> QED
    BY <2>3, <2>4, <2>5
<1> QED
  BY <1>1, InitIInv, IInvStep, PTL DEF Spec

-----------------------------------------------------------------------------
(* The stages.                                                             *)

\* What the slowest rank of a stage has finished.
Done(p) == CHOOSE n \in {Finished(<<p, t>>) : t \in Rank} :
             \A t \in Rank : n <= Finished(<<p, t>>)

StagesOf == [p \in Stage |-> Done(p)]

Forwards == {n \in 1 .. MaxSteps : batch[n].forward}

\* What the workers of the stages have finished and received.
Bounds ==
  \A w \in Worker :
    /\ Finished(w) \in 0 .. MaxSteps /\ Finished(w) \in Nat
    /\ Received(w) \in Nat /\ Finished(w) <= Received(w) /\ Received(w) <= Finished(w) + 1

SlowestRank ==
  \A p \in Stage :
    /\ Done(p) \in Nat
    /\ \E t \in Rank : Done(p) = Finished(<<p, t>>)
    /\ \A t \in Rank : Done(p) <= Finished(<<p, t>>)

\* Every forward pass up to the one before k is received by the ranks of the
\* next stage once the ranks of a stage have finished k, and k was sent to them.
Handed ==
  \A w \in Links : \A k \in Forwards :
    /\ k <= Finished(w) => k <= Finished(Sender(w))
    /\ \A j \in Forwards : k <= Finished(Sender(w)) /\ j < k => j <= Received(w)

LEMMA StageFacts == IInv => Bounds /\ SlowestRank /\ Handed
<1> SUFFICES ASSUME IInv PROVE Bounds /\ SlowestRank /\ Handed
  OBVIOUS
<1>0. Types /\ Control /\ MaxSteps \in Nat
  BY SizeAssumption DEF IInv
<1>1. Bounds
  <2> SUFFICES ASSUME NEW w \in Worker
               PROVE  /\ Finished(w) \in 0 .. MaxSteps /\ Finished(w) \in Nat
                      /\ Received(w) \in Nat
                      /\ Finished(w) <= Received(w) /\ Received(w) <= Finished(w) + 1
    BY DEF Bounds
  <2>1. /\ Finished(w) \in 0 .. MaxSteps /\ Finished(w) \in Nat
        /\ Received(w) \in Nat /\ step[w] \in Nat
        /\ Finished(w) <= Received(w) /\ Received(w) <= step[w]
        /\ step[w] <= Finished(w) + 1
    BY <1>0, Counters
  <2> QED
    BY <2>1
<1>2. SlowestRank
  <2> SUFFICES ASSUME NEW p \in Stage
               PROVE  /\ Done(p) \in Nat
                      /\ \E t \in Rank : Done(p) = Finished(<<p, t>>)
                      /\ \A t \in Rank : Done(p) <= Finished(<<p, t>>)
    BY DEF SlowestRank
  <2> DEFINE T == {Finished(<<p, t>>) : t \in Rank}
  <2>1. \A t \in Rank : <<p, t>> \in Worker
    BY DEF Worker
  <2>2. T \in SUBSET Nat /\ T # {}
    <3>1. 0 \in Rank
      BY SizeAssumption DEF Rank
    <3> QED
      BY <1>1, <2>1, <3>1 DEF Bounds
  <2>3. \E n \in T : \A t \in Rank : n <= Finished(<<p, t>>)
    <3>1. PICK n \in T : \A m \in T : n <= m
      BY <2>2, LeastNatural
    <3> QED
      BY <3>1
  <2>4. Done(p) \in T /\ \A t \in Rank : Done(p) <= Finished(<<p, t>>)
    BY <2>3 DEF Done
  <2> QED
    BY <2>2, <2>4
<1>3. Handed
  <2> SUFFICES ASSUME NEW w \in Links, NEW k \in Forwards
               PROVE  /\ k <= Finished(w) => k <= Finished(Sender(w))
                      /\ \A j \in Forwards :
                           k <= Finished(Sender(w)) /\ j < k => j <= Received(w)
    BY DEF Handed
  <2> DEFINE s == Sender(w)
  <2>1. /\ w \in Worker /\ s \in Worker /\ LinkOf(w)
        /\ Finished(w) \in Nat /\ Received(w) \in Nat /\ Finished(s) \in Nat
        /\ Finished(w) <= Received(w)
    BY <1>1, WorkerFacts DEF IInv, Link, Bounds
  <2>2. k \in Nat /\ batch[k].forward /\ \A j \in Forwards : j \in Nat /\ batch[j].forward
    BY DEF Forwards
  <2>3. k <= Finished(w) => k <= Finished(s)
    <3>1. NoneBetween(Finished(s), Received(w))
      BY <2>1 DEF LinkOf
    <3> QED
      BY <2>1, <2>2, <3>1 DEF NoneBetween
  <2>4. ASSUME NEW j \in Forwards, k <= Finished(s), j < k PROVE j <= Received(w)
    <3>1. CASE Quiet(w)
      <4>1. NoneBetween(Received(w), Finished(s))
        BY <3>1 DEF Quiet
      <4> QED
        BY <2>1, <2>2, <2>4, <4>1 DEF NoneBetween
    <3>2. CASE Sent(w)
      <4>1. NoneBetween(Received(w), Finished(s) - 1)
        BY <3>2 DEF Sent, Finished
      <4> QED
        BY <2>1, <2>2, <2>4, <4>1 DEF NoneBetween
    <3>3. CASE Arriving(w)
      <4>1. Received(w) = Finished(s)
        BY <3>3 DEF Arriving, Received, Finished
      <4> QED
        BY <2>1, <2>2, <2>4, <4>1
    <3> QED
      BY <2>1, <3>1, <3>2, <3>3 DEF LinkOf
  <2> QED
    BY <2>3, <2>4
<1> QED
  BY <1>1, <1>2, <1>3

\* A step changes what at most one worker has finished, and by one step.
LEMMA FinishedStep ==
  ASSUME IInv, [Next]_vars
  PROVE  \/ \A w \in Worker : Finished(w)' = Finished(w)
         \/ \E v \in Worker : /\ Finished(v)' = Finished(v) + 1
                              /\ \A w \in Worker \ {v} : Finished(w)' = Finished(w)
<1>0. Types /\ Control
  BY DEF IInv
<1>1. ASSUME NEW v \in Worker, Begin(v) \/ Receive(v) \/ Deliver(v) \/ Forward(v) \/ Send(v)
      PROVE  \A w \in Worker \ {v} : Finished(w)' = Finished(w)
  <2>1. \A w \in Worker \ {v} : pc'[w] = pc[w] /\ step'[w] = step[w]
    BY <1>0, <1>1 DEF Types, Begin, Receive, Deliver, Forward, Send
  <2> QED
    BY <2>1 DEF Finished
<1>2. ASSUME NEW v \in Worker, Begin(v) \/ Receive(v) \/ Deliver(v) \/ Forward(v) \/ Send(v)
      PROVE  Finished(v)' = Finished(v) \/ Finished(v)' = Finished(v) + 1
  <2>1. step[v] \in Nat
    BY <1>0, Counters
  <2>2. \/ pc[v] = "idle" /\ step'[v] = step[v] + 1
        \/ pc[v] # "idle" /\ step'[v] = step[v]
        \/ pc'[v] = pc[v] /\ step'[v] = step[v]
    BY <1>0, <1>2 DEF Types, Begin, Receive, Deliver, Forward, Send, InputsReady
  <2> QED
    BY <2>1, <2>2 DEF Finished
<1>3. ASSUME UNCHANGED <<pc, step>> PROVE \A w \in Worker : Finished(w)' = Finished(w)
  BY <1>3 DEF Finished
<1>4. ASSUME NEW v \in Worker, Begin(v) \/ Receive(v) \/ Deliver(v) \/ Forward(v) \/ Send(v)
      PROVE  \/ \A w \in Worker : Finished(w)' = Finished(w)
             \/ \E x \in Worker : /\ Finished(x)' = Finished(x) + 1
                                  /\ \A w \in Worker \ {x} : Finished(w)' = Finished(w)
  BY <1>1, <1>2, <1>4
<1> QED
  BY <1>3, <1>4 DEF Next, vars, Gather

\* Finish(p) of StagedSteps, on what the stages have finished.
FinishOf(p) ==
  LET k == Done(p) + 1
  IN /\ k <= MaxSteps
     /\ k \in Forwards /\ p > 0 => Done(p - 1) >= k
     /\ k \in Forwards /\ p < Stages - 1 =>
          Cardinality({j \in Forwards : Done(p + 1) < j /\ j <= Done(p)}) < 2
     /\ Done(p)' = k /\ \A q \in Stage \ {p} : Done(q)' = Done(q)

LEMMA StageStep ==
  ASSUME IInv, [Next]_vars
  PROVE  \/ \A p \in Stage : Done(p)' = Done(p)
         \/ \E p \in Stage : FinishOf(p)
<1>0. Bounds /\ SlowestRank /\ Bounds' /\ SlowestRank' /\ Handed'
  <2>1. (IInv => Bounds /\ SlowestRank /\ Handed)'
    BY StageFacts, PTL
  <2>2. IInv'
    BY IInvStep
  <2> QED
    BY <2>1, <2>2, StageFacts
<1>1. Forwards' = Forwards
  BY BatchFixed DEF Forwards
<1>2. \A p \in Stage, t \in Rank : <<p, t>> \in Worker
  BY DEF Worker
<1>3. ASSUME NEW p \in Stage, \A t \in Rank : Finished(<<p, t>>)' = Finished(<<p, t>>)
      PROVE  Done(p)' = Done(p)
  <2>1. PICK t \in Rank : Done(p) = Finished(<<p, t>>)
    BY <1>0 DEF SlowestRank
  <2>2. PICK u \in Rank : Done(p)' = Finished(<<p, u>>)'
    BY <1>0 DEF SlowestRank
  <2>3. Done(p) <= Finished(<<p, u>>) /\ Done(p)' <= Finished(<<p, t>>)'
    BY <1>0 DEF SlowestRank
  <2>4. Done(p) \in Nat /\ Done(p)' \in Nat
    BY <1>0 DEF SlowestRank
  <2> QED
    BY <1>3, <2>1, <2>2, <2>3, <2>4
<1>4. ASSUME NEW v \in Worker, Finished(v)' = Finished(v) + 1,
             \A w \in Worker \ {v} : Finished(w)' = Finished(w)
      PROVE  \/ \A p \in Stage : Done(p)' = Done(p)
             \/ \E p \in Stage : FinishOf(p)
  <2>1. PICK p \in Stage, r \in Rank : v = <<p, r>>
    BY DEF Worker
  <2>2. ASSUME NEW q \in Stage \ {p} PROVE Done(q)' = Done(q)
    BY <1>2, <1>3, <1>4, <2>1
  <2>3. Done(p)' = Done(p) \/ Done(p)' = Done(p) + 1
    <3>1. PICK t \in Rank : Done(p) = Finished(<<p, t>>)
      BY <1>0 DEF SlowestRank
    <3>2. PICK u \in Rank : Done(p)' = Finished(<<p, u>>)'
      BY <1>0 DEF SlowestRank
    <3>3. Done(p) <= Finished(<<p, u>>) /\ Done(p)' <= Finished(<<p, t>>)'
      BY <1>0 DEF SlowestRank
    <3>4. /\ Done(p) \in Nat /\ Done(p)' \in Nat
          /\ Finished(<<p, t>>) \in Nat /\ Finished(<<p, u>>) \in Nat
      BY <1>0, <1>2 DEF SlowestRank, Bounds
    <3>5. \A x \in Rank : \/ Finished(<<p, x>>)' = Finished(<<p, x>>)
                          \/ Finished(<<p, x>>)' = Finished(<<p, x>>) + 1
      BY <1>2, <1>4
    <3> QED
      BY <3>1, <3>2, <3>3, <3>4, <3>5
  <2>4. CASE Done(p)' = Done(p) + 1
    <3> DEFINE k == Done(p) + 1
    <3>1. k <= MaxSteps
      <4>1. PICK u \in Rank : Done(p)' = Finished(<<p, u>>)'
        BY <1>0 DEF SlowestRank
      <4>2. Finished(<<p, u>>)' \in 0 .. MaxSteps
        BY <1>0, <1>2 DEF Bounds
      <4> QED
        BY <2>4, <4>1, <4>2, SizeAssumption
    <3>2. ASSUME k \in Forwards, p > 0 PROVE Done(p - 1) >= k
      <4>1. p - 1 \in Stage /\ p - 1 # p /\ p \in Nat
        BY <3>2, SizeAssumption DEF Stage
      <4>2. PICK t \in Rank : Done(p - 1)' = Finished(<<p - 1, t>>)'
        BY <1>0, <4>1 DEF SlowestRank
      <4> DEFINE w == <<p, t>>
      <4>3. w \in Links /\ Sender(w) = <<p - 1, t>>
        BY <1>2, <3>2 DEF Links, Sender
      <4> HIDE DEF w
      <4>4. k <= Finished(w)'
        BY <1>0, <2>4 DEF SlowestRank, w
      <4>5. k <= Finished(Sender(w))'
        BY <1>0, <1>1, <3>2, <4>3, <4>4 DEF Handed
      <4>6. k <= Done(p - 1) /\ Done(p - 1) \in Nat /\ k \in Nat
        BY <1>0, <2>2, <4>1, <4>2, <4>3, <4>5 DEF SlowestRank
      <4> QED
        BY <4>6
    <3>3. ASSUME k \in Forwards, p < Stages - 1
          PROVE  Cardinality({j \in Forwards : Done(p + 1) < j /\ j <= Done(p)}) < 2
      <4> DEFINE d == Done(p + 1)  J == {j \in Forwards : d < j /\ j <= Done(p)}
      <4>1. p + 1 \in Stage /\ p + 1 # p /\ p \in Nat /\ p + 1 - 1 = p /\ p + 1 > 0
        BY <3>3, SizeAssumption DEF Stage
      <4>2. PICK t \in Rank : Done(p + 1)' = Finished(<<p + 1, t>>)'
        BY <1>0, <4>1 DEF SlowestRank
      <4>w. PICK w : w = <<p + 1, t>>
        OBVIOUS
      <4>3. w \in Links /\ Sender(w) = <<p, t>>
        <5>1. w[1] = p + 1 /\ w[2] = t /\ w \in Worker
          BY <1>2, <4>1, <4>w
        <5> QED
          BY <4>1, <5>1 DEF Links, Sender
      <4>4. k <= Finished(<<p, t>>)' /\ k \in Nat /\ d \in Nat
        BY <1>0, <2>4, <4>1 DEF SlowestRank
      <4>5. d = Finished(w)' /\ Received(w)' <= d + 1 /\ Received(w)' \in Nat
        <5>1. d = Finished(w)'
          BY <2>2, <4>1, <4>2, <4>w
        <5> QED
          BY <1>0, <4>3, <5>1 DEF Bounds, Links
      <4>6. ASSUME NEW j \in J PROVE j = d + 1
        <5>1. j \in Forwards /\ j \in Nat /\ d < j /\ j < k
          BY <1>0, <4>4 DEF Forwards, SlowestRank
        <5>2. j <= Received(w)'
          BY <1>0, <1>1, <3>3, <4>3, <4>4, <5>1 DEF Handed
        <5> QED
          BY <4>4, <4>5, <5>1, <5>2
      <4>7. J \subseteq {d + 1}
        BY <4>6
      <4>8. IsFiniteSet({d + 1}) /\ Cardinality({d + 1}) = 1
        BY FS_Singleton
      <4>9. Cardinality(J) <= 1 /\ Cardinality(J) \in Nat
        <5> HIDE DEF J
        <5>1. Cardinality(J) <= Cardinality({d + 1}) /\ IsFiniteSet(J)
          BY <4>7, <4>8, FS_Subset
        <5> QED
          BY <4>8, <5>1, FS_CardinalityType
      <4> QED
        BY <4>9
    <3>4. FinishOf(p)
      BY <2>2, <2>4, <3>1, <3>2, <3>3 DEF FinishOf
    <3> QED
      BY <3>4
  <2> QED
    BY <2>2, <2>3, <2>4
<1>5. ASSUME \A w \in Worker : Finished(w)' = Finished(w)
      PROVE  \A p \in Stage : Done(p)' = Done(p)
  BY <1>2, <1>3, <1>5
<1> QED
  BY <1>4, <1>5, FinishedStep

LEMMA SameCardinality == \A S : Abstract!Cardinality(S) = Cardinality(S)
BY DEF Abstract!Cardinality, Cardinality

LEMMA AbstractStep == IInv /\ [Next]_vars => [Abstract!Next]_(Abstract!vars)
<1> SUFFICES ASSUME IInv, [Next]_vars PROVE [Abstract!Next]_(Abstract!vars)
  OBVIOUS
<1>1. Abstract!vars = <<Forwards, StagesOf>> /\ Abstract!Stage = Stage
  BY DEF Abstract!vars, Abstract!Stage, Stage, Forwards, StagesOf, Done
<1>2. Forwards' = Forwards
  BY BatchFixed DEF Forwards
<1>3. CASE \A p \in Stage : Done(p)' = Done(p)
  <2>1. StagesOf' = StagesOf
    BY <1>3 DEF StagesOf
  <2> QED
    BY <1>2, <2>1 DEF Abstract!vars, Forwards, StagesOf, Done
<1>4. ASSUME NEW p \in Stage, FinishOf(p) PROVE Abstract!Next
  <2>1. StagesOf' = [StagesOf EXCEPT ![p] = Done(p) + 1]
    BY <1>4 DEF StagesOf, FinishOf
  <2>2. \A q \in Stage : StagesOf[q] = Done(q)
    BY DEF StagesOf
  <2>3. /\ p > 0 => p - 1 \in Stage
        /\ p < Stages - 1 => p + 1 \in Stage
    BY SizeAssumption DEF Stage
  <2>4. LET k == StagesOf[p] + 1
        IN /\ k <= MaxSteps
           /\ k \in Forwards /\ p > 0 => StagesOf[p - 1] >= k
           /\ k \in Forwards /\ p < Stages - 1 =>
                Cardinality({j \in Forwards : StagesOf[p + 1] < j /\ j <= StagesOf[p]}) < 2
           /\ StagesOf' = [StagesOf EXCEPT ![p] = k]
           /\ UNCHANGED Forwards
    BY <1>2, <1>4, <2>1, <2>2, <2>3 DEF FinishOf
  <2>5. Abstract!Finish(p)
    BY <2>4, SameCardinality DEF Abstract!Finish, Abstract!Lead, Forwards, StagesOf, Done
  <2> QED
    BY <1>1, <2>5 DEF Abstract!Next
<1> QED
  BY <1>3, <1>4, StageStep

\* The ranks of the stages, taken by the slowest of each, take the steps as
\* StagedSteps has it: in order, a forward pass only after the stage before, and
\* at most two of them ahead of the next stage, although a worker's output
\* buffers and its sends are its only flow control (gpu_worker.py).
THEOREM ImplementsStages == Spec => ImplementsStagedSteps
<1>1. Init => Abstract!Init
  <2> SUFFICES ASSUME Init PROVE Abstract!Init
    OBVIOUS
  <2>1. SlowestRank
    BY InitIInv, StageFacts
  <2>2. ASSUME NEW p \in Stage PROVE Done(p) = 0
    <3>1. \A t \in Rank : Finished(<<p, t>>) = 0
      BY DEF Init, Finished, Worker
    <3> QED
      BY <2>1, <3>1 DEF SlowestRank
  <2>3. StagesOf = [p \in Stage |-> 0]
    BY <2>2 DEF StagesOf
  <2> QED
    BY <2>3 DEF Abstract!Init, Abstract!Stage, Stage, StagesOf, Done
<1>2. IInv /\ [Next]_vars => [Abstract!Next]_(Abstract!vars)
  BY AbstractStep
<1> QED
  BY <1>1, <1>2, InitIInv, IInvStep, PTL DEF Spec, ImplementsStagedSteps, Abstract!Spec

-----------------------------------------------------------------------------
(* Types.                                                                  *)

\* Nobody sends to the first stage.
FirstHearsNothing == \A w \in Worker \ Links : meta[w] = <<>> /\ chan[w] = <<>>

LEMMA FirstHearsNothingStep ==
  ASSUME IInv, FirstHearsNothing, [Next]_vars PROVE FirstHearsNothing'
<1>0. Types /\ Control
  BY DEF IInv
<1> USE DEF FirstHearsNothing
<1>1. ASSUME NEW v \in Worker, Receive(v) PROVE FirstHearsNothing'
  BY <1>0, <1>1, ReceiveIs DEF Receive, Types, Links
<1>2. ASSUME NEW v \in Worker, Deliver(v) PROVE FirstHearsNothing'
  BY <1>0, <1>2, DeliverFacts DEF Deliver, Types, Links
<1>3. ASSUME NEW v \in Worker, Send(v) PROVE FirstHearsNothing'
  <2>1. Receiver(v) \in Links
    BY <1>0, <1>3, WorkerFacts DEF Send, Control, ControlOf
  <2> QED
    BY <1>0, <1>3, <2>1 DEF Send, Types, Links
<1>4. CASE UNCHANGED <<meta, chan>>
  BY <1>4 DEF Links
<1> QED
  BY <1>1, <1>2, <1>3, <1>4 DEF Next, Begin, Forward, Gather, vars

LEMMA QueueTypes ==
  ASSUME batch \in Plans, NEW n \in 1 .. MaxSteps, NEW q \in Queues(n)
  PROVE  Range(q) \subseteq PieceType /\ Len(q) <= 2
<1>1. PieceAt(n, H) \in PieceType /\ PieceAt(n, R) \in PieceType
  <2>1. H \in Key /\ R \in Key
    BY DEF Key, H, R
  <2> QED
    BY <2>1, SizeFacts DEF PieceType, PieceAt, Piece
<1>2. \E a, b \in PieceType : q = <<>> \/ q = <<a>> \/ q = <<b>> \/ q = <<a, b>>
  BY <1>1 DEF Queues
<1>3. PICK a, b \in PieceType : q = <<>> \/ q = <<a>> \/ q = <<b>> \/ q = <<a, b>>
  BY <1>2
<1>4. Len(q) <= 2 /\ \A i \in DOMAIN q : q[i] \in PieceType
  <2>1. CASE q = <<>>
    BY <2>1
  <2>2. CASE q = <<a>>
    BY <2>2
  <2>3. CASE q = <<b>>
    BY <2>3
  <2>4. CASE q = <<a, b>>
    BY <2>4
  <2> QED
    BY <1>3, <2>1, <2>2, <2>3, <2>4
<1> QED
  BY <1>4 DEF Range

\* At most one step's metadata and tensors are on the way to a worker, and what
\* its receives and gathers wait for are tensors of a step.
THEOREM TypeCorrect == Spec => []TypeOK
<1>1. Init => FirstHearsNothing
  BY DEF Init, FirstHearsNothing
<1>2. IInv /\ FirstHearsNothing => TypeOK
  <2> SUFFICES ASSUME IInv, FirstHearsNothing, NEW w \in Worker
               PROVE  /\ Range(chan[w]) \cup Range(posted[w]) \cup Range(todo[w])
                           \subseteq PieceType
                      /\ Len(meta[w]) <= 2 /\ Len(chan[w]) <= 2
    BY DEF TypeOK, IInv, Types, Keys
  <2>0. Types /\ Control /\ batch \in Plans
    BY DEF IInv, Types
  <2>1. Range(<<>>) = {} /\ Len(<<>>) = 0
    BY DEF Range
  <2>2. Range(posted[w]) \cup Range(todo[w]) \subseteq PieceType
    <3>1. CASE pc[w] = "wait"
      BY <2>0, <3>1, QueueTypes DEF Control, ControlOf, IsForward
    <3>2. CASE pc[w] # "wait"
      BY <2>0, <2>1, <3>2 DEF Control, ControlOf
    <3> QED
      BY <3>1, <3>2
  <2>3. CASE w \notin Links
    BY <2>1, <2>2, <2>3 DEF FirstHearsNothing
  <2>4. CASE w \in Links
    <3> DEFINE n == step[Sender(w)]
    <3>1. CASE Quiet(w)
      BY <2>1, <2>2, <3>1 DEF Quiet
    <3>2. CASE Sent(w)
      <4>1. chan[w] \in Queues(n) /\ n \in 1 .. MaxSteps
        BY <2>0, <3>2, PiecesFacts DEF Sent, IsForward
      <4>2. Range(chan[w]) \subseteq PieceType /\ Len(chan[w]) <= 2
        BY <2>0, <4>1, QueueTypes
      <4> QED
        BY <2>2, <3>2, <4>2 DEF Sent
    <3>3. CASE Arriving(w)
      <4>1. chan[w] \in Queues(step[w]) /\ step[w] \in 1 .. MaxSteps
        BY <2>0, <3>3 DEF Arriving, Control, ControlOf, IsForward
      <4>2. Range(chan[w]) \subseteq PieceType /\ Len(chan[w]) <= 2
        BY <2>0, <4>1, QueueTypes
      <4> QED
        BY <2>1, <2>2, <3>3, <4>2 DEF Arriving
    <3> QED
      BY <2>4, <3>1, <3>2, <3>3 DEF IInv, Link, LinkOf
  <2> QED
    BY <2>3, <2>4
<1>3. IInv /\ FirstHearsNothing /\ [Next]_vars => FirstHearsNothing'
  BY FirstHearsNothingStep
<1> QED
  BY <1>1, <1>2, <1>3, InitIInv, IInvStep, PTL DEF Spec

-----------------------------------------------------------------------------
(* KpoolIndexer: arithmetic.                                               *)

LEMMA DivMod ==
  ASSUME NEW a \in Nat, NEW m \in Nat \ {0}
  PROVE  /\ a \div m \in Nat /\ a % m \in 0 .. m - 1
         /\ a = m * (a \div m) + (a % m)
OBVIOUS

\* A product of naturals grows with its factors.
LEMMA Grows ==
  ASSUME NEW m \in Nat, NEW a \in Nat, NEW b \in Nat, a <= b
  PROVE  m * a \in Nat /\ m * a <= m * b
OBVIOUS

LEMMA DivUnique ==
  ASSUME NEW m \in Nat \ {0}, NEW q \in Nat, NEW s \in 0 .. m - 1
  PROVE  /\ m * q + s \in Nat /\ (m * q + s) \div m = q /\ (m * q + s) % m = s
<1> DEFINE a == m * q + s
<1>1. a \in Nat /\ m * q \in Nat
  OBVIOUS
<1>2. a \div m \in Nat /\ a % m \in 0 .. m - 1 /\ a = m * (a \div m) + (a % m)
  BY <1>1, DivMod
<1> DEFINE p == a \div m
           r == a % m
<1>3. p \in Nat /\ r \in 0 .. m - 1 /\ m * q + s = m * p + r
  BY <1>2
<1> HIDE DEF p, r
<1>4. CASE p < q
  <2>1. m * (p + 1) <= m * q
    BY <1>3, <1>4, Grows
  <2>2. m * (p + 1) = m * p + m
    BY <1>3
  <2> QED
    BY <1>1, <1>3, <2>1, <2>2
<1>5. CASE q < p
  <2>1. m * (q + 1) <= m * p
    BY <1>3, <1>5, Grows
  <2>2. m * (q + 1) = m * q + m
    BY <1>3
  <2> QED
    BY <1>1, <1>3, <2>1, <2>2
<1>6. CASE p = q
  BY <1>1, <1>3, <1>6 DEF p, r
<1> QED
  BY <1>3, <1>4, <1>5, <1>6

\* Quotients grow with what is divided.
LEMMA DivGrows ==
  ASSUME NEW m \in Nat \ {0}, NEW a \in Nat, NEW b \in Nat, a <= b
  PROVE  a \div m <= b \div m
<1> DEFINE p == a \div m
           q == b \div m
<1>1. /\ p \in Nat /\ q \in Nat /\ a % m \in 0 .. m - 1 /\ b % m \in 0 .. m - 1
      /\ a = m * p + (a % m) /\ b = m * q + (b % m)
  BY DivMod
<1> HIDE DEF p, q
<1>2. CASE q < p
  <2>1. m * (q + 1) <= m * p
    BY <1>1, <1>2, Grows
  <2>2. m * (q + 1) = m * q + m
    BY <1>1
  <2>3. m * p \in Nat /\ m * q \in Nat
    BY <1>1
  <2> QED
    BY <1>1, <2>1, <2>2, <2>3
<1> QED
  BY <1>1, <1>2 DEF p, q

\* Of two positions at one offset the later is a pool further, at least.
LEMMA PoolApart ==
  ASSUME NEW m \in Nat \ {0}, NEW a \in Nat, NEW b \in Nat, a < b, a % m = b % m
  PROVE  a + m <= b
<1> DEFINE p == a \div m
           q == b \div m
           r == a % m
<1>1. /\ p \in Nat /\ q \in Nat /\ r \in 0 .. m - 1
      /\ a = m * p + r /\ b = m * q + r
  BY DivMod
<1>2. p <= q
  BY DivGrows
<1> HIDE DEF p, q, r
<1>3. p # q
  BY <1>1
<1>4. m * (p + 1) <= m * q /\ m * (p + 1) = m * p + m
  BY <1>1, <1>2, <1>3, Grows
<1>5. m * p \in Nat /\ m * q \in Nat
  BY <1>1
<1> QED
  BY <1>1, <1>4, <1>5

\* A pool's positions, and the pool and offset of a position.
LEMMA PoolOf ==
  ASSUME NEW m \in Nat \ {0}, NEW j \in Nat, NEW o \in 0 .. m - 1
  PROVE  j * m + o \in Nat /\ (j * m + o) \div m = j /\ (j * m + o) % m = o
<1>1. j * m = m * j
  OBVIOUS
<1> QED
  BY <1>1, DivUnique

LEMMA PoolEnds ==
  ASSUME NEW m \in Nat \ {0}, NEW a \in Nat
  PROVE  /\ (a \div m) * m \in Nat /\ a = (a \div m) * m + (a % m)
         /\ (a \div m + 1) * m = (a \div m) * m + m
<1>1. a \div m \in Nat /\ a % m \in 0 .. m - 1 /\ a = m * (a \div m) + (a % m)
  BY DivMod
<1> QED
  BY <1>1

\* A position completes its pool when the number of tokens up to it is whole pools.
LEMMA Completes ==
  ASSUME NEW m \in Nat \ {0}, NEW p \in Nat
  PROVE  /\ p % m = m - 1 <=> (p + 1) % m = 0
         /\ p % m = m - 1 => (p + 1) \div m = p \div m + 1
<1> DEFINE q == p \div m
           r == p % m
<1>1. q \in Nat /\ r \in 0 .. m - 1 /\ p = m * q + r
  BY DivMod
<1> HIDE DEF q, r
<1>2. CASE r = m - 1
  <2>1. p + 1 = m * (q + 1) + 0
    BY <1>1, <1>2
  <2>2. (p + 1) % m = 0 /\ (p + 1) \div m = q + 1
    BY <1>1, <2>1, DivUnique
  <2> QED
    BY <1>2, <2>2 DEF q, r
<1>3. CASE r # m - 1
  <2>1. p + 1 = m * q + (r + 1) /\ r + 1 \in 0 .. m - 1
    BY <1>1, <1>3
  <2>2. (p + 1) % m = r + 1
    BY <1>1, <2>1, DivUnique
  <2>3. (p + 1) % m # 0
    BY <1>1, <2>2
  <2> QED
    BY <1>3, <2>3 DEF q, r
<1> QED
  BY <1>2, <1>3

-----------------------------------------------------------------------------
(* KpoolIndexer: enumerations, running sums, and sequences laid end to end. *)

\* SetToSeq has every element of a finite set in one place.
LEMMA Enumerated ==
  ASSUME NEW S, IsFiniteSet(S)
  PROVE  /\ Len(SetToSeq(S)) = Cardinality(S) /\ Cardinality(S) \in Nat
         /\ SetToSeq(S) \in [1 .. Cardinality(S) -> S]
         /\ \A i, j \in 1 .. Cardinality(S) : SetToSeq(S)[i] = SetToSeq(S)[j] => i = j
         /\ \A x \in S : \E i \in 1 .. Cardinality(S) : SetToSeq(S)[i] = x
<1> DEFINE n == Cardinality(S)
           r == SetToSeq(S)
<1>1. n \in Nat /\ ExistsBijection(1 .. n, S)
  BY FS_CardinalityType
<1>2. \E f \in [1 .. n -> S] : IsInjective(f)
  BY <1>1 DEF ExistsBijection, Bijection, Injection
<1>3. r \in [1 .. n -> S] /\ IsInjective(r)
  BY <1>2 DEF SetToSeq
<1> HIDE DEF r
<1>4. r \in Injection(1 .. n, S)
  BY <1>3 DEF Injection
<1>5. Cardinality(1 .. n) = n
  BY <1>1, FS_Interval
<1>6. r \in Surjection(1 .. n, S)
  BY <1>1, <1>4, <1>5, FS_Injection
<1>7. \A x \in S : \E i \in 1 .. n : r[i] = x
  BY <1>6 DEF Surjection
<1>8. \A i, j \in 1 .. n : r[i] = r[j] => i = j
  BY <1>3 DEF IsInjective
<1>9. Len(r) = n
  BY <1>1, <1>3
<1> QED
  BY <1>1, <1>3, <1>7, <1>8, <1>9 DEF r

\* The sums of ever longer parts of s, given those of the shorter ones.
RunningSums(s, n, f) == [i \in 0 .. n |-> IF i = 0 THEN 0 ELSE f[i - 1] + s[i]]

LEMMA RunningSumsExist ==
  ASSUME NEW s, NEW m \in Nat
  PROVE  \E f : f = RunningSums(s, m, f)
<1> DEFINE T == {n \in Nat : \E f : f = RunningSums(s, n, f)}
<1>1. 0 \in T
  <2> DEFINE f == [i \in 0 .. 0 |-> 0]
  <2>1. f = RunningSums(s, 0, f)
    BY DEF RunningSums
  <2> QED
    BY <2>1
<1>2. ASSUME NEW n \in T PROVE n + 1 \in T
  <2>1. PICK f : f = RunningSums(s, n, f)
    OBVIOUS
  <2> DEFINE g == RunningSums(s, n + 1, f)
  <2>2. \A i \in 0 .. n : g[i] = f[i]
    <3> DEFINE h == RunningSums(s, n, f)
    <3>1. \A i \in 0 .. n : h[i] = g[i]
      BY DEF RunningSums
    <3> HIDE DEF g, h
    <3>2. h = f
      BY <2>1 DEF h
    <3> QED
      BY <3>1, <3>2
  <2>3. g = RunningSums(s, n + 1, g)
    <3>1. \A i \in 0 .. n + 1 : i # 0 => g[i - 1] = f[i - 1]
      BY <2>2
    <3> HIDE DEF g
    <3>2. RunningSums(s, n + 1, f) = RunningSums(s, n + 1, g)
      BY <3>1 DEF RunningSums
    <3> QED
      BY <3>2 DEF g
  <2> QED
    BY <2>3
<1>3. T = Nat
  <2> HIDE DEF T
  <2>1. T \in SUBSET Nat
    BY DEF T
  <2> QED
    BY <1>1, <1>2, <2>1, Induction
<1> QED
  BY <1>3

\* Start, unfolded: the running sums of the lengths.
LEMMA StartUnfolds ==
  ASSUME NEW lens, Len(lens) \in Nat
  PROVE  /\ Start(lens, 1) = 0
         /\ \A b \in 1 .. Len(lens) : Start(lens, b + 1) = Start(lens, b) + lens[b]
<1> DEFINE n == Len(lens)
           f == CHOOSE f : f = RunningSums(lens, n, f)
<1>1. f = RunningSums(lens, n, f)
  BY RunningSumsExist
<1>2. \A b : Start(lens, b) = f[b - 1]
  BY DEF Start, RunningSums
<1> HIDE DEF f
<1>3. \A i \in 0 .. n : f[i] = IF i = 0 THEN 0 ELSE f[i - 1] + lens[i]
  <2> DEFINE g == RunningSums(lens, n, f)
  <2>1. \A i \in 0 .. n : g[i] = IF i = 0 THEN 0 ELSE f[i - 1] + lens[i]
    BY DEF RunningSums
  <2> HIDE DEF g
  <2>2. g = f
    BY <1>1 DEF g
  <2> QED
    BY <2>1, <2>2
<1>4. Start(lens, 1) = f[0] /\ f[0] = 0
  BY <1>2, <1>3
<1>5. \A b \in 1 .. n : Start(lens, b + 1) = f[b] /\ f[b] = f[b - 1] + lens[b]
  BY <1>2, <1>3
<1> QED
  BY <1>2, <1>4, <1>5

\* With lengths of at most m the starts are at most multiples of m, and with
\* lengths of m they are these multiples.
LEMMA StartsWithin ==
  ASSUME NEW lens, Len(lens) \in Nat, NEW m \in Nat,
         \A b \in 1 .. Len(lens) : lens[b] \in 0 .. m
  PROVE  \A b \in 1 .. Len(lens) + 1 :
           /\ Start(lens, b) \in Nat /\ Start(lens, b) <= (b - 1) * m
           /\ (\A c \in 1 .. Len(lens) : lens[c] = m) => Start(lens, b) = (b - 1) * m
<1> DEFINE Fine(b) == /\ Start(lens, b) \in Nat /\ Start(lens, b) <= (b - 1) * m
                      /\ (\A c \in 1 .. Len(lens) : lens[c] = m) => Start(lens, b) = (b - 1) * m
           T == {k \in Nat : k <= Len(lens) => Fine(k + 1)}
<1>1. 0 \in T
  BY StartUnfolds
<1>2. ASSUME NEW k \in T PROVE k + 1 \in T
  <2> SUFFICES ASSUME k + 1 <= Len(lens) PROVE Fine(k + 2)
    OBVIOUS
  <2>1. Fine(k + 1) /\ k + 1 \in 1 .. Len(lens)
    OBVIOUS
  <2> DEFINE a == Start(lens, k + 1)
  <2>2. Start(lens, k + 2) = a + lens[k + 1] /\ lens[k + 1] \in 0 .. m
    BY <2>1, StartUnfolds
  <2>3. (k + 1) * m = k * m + m /\ k * m \in Nat
    OBVIOUS
  <2>4. a \in Nat /\ a <= k * m
        /\ ((\A c \in 1 .. Len(lens) : lens[c] = m) => a = k * m)
    BY <2>1
  <2> HIDE DEF a
  <2>5. Start(lens, k + 2) \in Nat /\ Start(lens, k + 2) <= (k + 1) * m
    BY <2>2, <2>3, <2>4
  <2>6. ASSUME \A c \in 1 .. Len(lens) : lens[c] = m
        PROVE  Start(lens, k + 2) = (k + 1) * m
    BY <2>1, <2>2, <2>3, <2>4, <2>6
  <2> QED
    BY <2>5, <2>6
<1>3. T = Nat
  <2> HIDE DEF T
  <2>1. T \in SUBSET Nat
    BY DEF T
  <2> QED
    BY <1>1, <1>2, <2>1, Induction
<1> SUFFICES ASSUME NEW b \in 1 .. Len(lens) + 1 PROVE Fine(b)
  OBVIOUS
<1> HIDE DEF T
<1>4. b - 1 \in T /\ (b - 1) + 1 = b /\ b - 1 <= Len(lens)
  BY <1>3
<1> QED
  BY <1>4 DEF T

\* The first j of the sequences seqs, of these lengths, are end to end in g.
Laid(g, seqs, lens, j) ==
  /\ Len(g) = Start(lens, j + 1)
  /\ \A b \in 1 .. j : \A t \in 1 .. lens[b] :
       Start(lens, b) + t \in 1 .. Len(g) /\ g[Start(lens, b) + t] = seqs[b][t]
  /\ \A i \in 1 .. Len(g) : \E b \in 1 .. j : \E t \in 1 .. lens[b] : i = Start(lens, b) + t

LEMMA LaidNext ==
  ASSUME NEW X, NEW k \in Nat, NEW seqs, NEW lens, Len(lens) = k,
         \A b \in 1 .. k : seqs[b] \in Seq(X) /\ lens[b] = Len(seqs[b]),
         NEW j \in 0 .. k - 1, NEW g \in Seq(X), Laid(g, seqs, lens, j)
  PROVE  g \o seqs[j + 1] \in Seq(X) /\ Laid(g \o seqs[j + 1], seqs, lens, j + 1)
<1> DEFINE x == seqs[j + 1]
           h == g \o x
           d == Start(lens, j + 1)
<1>1. x \in Seq(X) /\ Len(x) = lens[j + 1] /\ lens[j + 1] \in Nat /\ j + 1 \in 1 .. k
  OBVIOUS
<1>2. /\ h \in Seq(X) /\ Len(h) = Len(g) + Len(x)
      /\ \A i \in 1 .. Len(g) + Len(x) : h[i] = IF i <= Len(g) THEN g[i] ELSE x[i - Len(g)]
  BY <1>1, ConcatProperties
<1>3. Len(g) = d /\ d \in Nat /\ Start(lens, j + 2) = d + lens[j + 1]
  <2>1. Len(g) = d /\ Len(g) \in Nat
    BY DEF Laid
  <2>2. Start(lens, (j + 1) + 1) = d + lens[j + 1]
    BY <1>1, StartUnfolds
  <2>3. (j + 1) + 1 = j + 2
    OBVIOUS
  <2> HIDE DEF d
  <2> QED
    BY <2>1, <2>2, <2>3
<1>4. Len(h) = Start(lens, (j + 1) + 1)
  BY <1>1, <1>2, <1>3
<1> HIDE DEF x, h, d
<1>5. ASSUME NEW b \in 1 .. j + 1, NEW t \in 1 .. lens[b]
      PROVE  Start(lens, b) + t \in 1 .. Len(h) /\ h[Start(lens, b) + t] = seqs[b][t]
  <2>1. CASE b = j + 1
    <3>1. Start(lens, b) + t = d + t /\ t \in 1 .. Len(x) /\ d + t \in 1 .. Len(h)
      <4>1. Start(lens, b) = d
        BY <2>1 DEF d
      <4>2. t \in 1 .. Len(x)
        BY <1>1, <1>5, <2>1
      <4>3. Len(h) = d + Len(x) /\ Len(x) \in Nat /\ d \in Nat
        BY <1>1, <1>2, <1>3
      <4> QED
        BY <4>1, <4>2, <4>3
    <3>2. h[d + t] = x[t]
      BY <1>1, <1>2, <1>3, <3>1
    <3> QED
      BY <2>1, <3>1, <3>2 DEF x
  <2>2. CASE b # j + 1
    <3>1. b \in 1 .. j
      BY <1>1, <1>5, <2>2
    <3>2. Start(lens, b) + t \in 1 .. Len(g) /\ g[Start(lens, b) + t] = seqs[b][t]
      BY <1>5, <3>1 DEF Laid
    <3> QED
      BY <1>1, <1>2, <1>3, <3>2
  <2> QED
    BY <2>1, <2>2
<1>6. ASSUME NEW i \in 1 .. Len(h)
      PROVE  \E b \in 1 .. j + 1 : \E t \in 1 .. lens[b] : i = Start(lens, b) + t
  <2>1. CASE i <= Len(g)
    <3>1. i \in 1 .. Len(g)
      BY <1>1, <1>2, <1>3, <1>6, <2>1
    <3>2. PICK b \in 1 .. j : \E t \in 1 .. lens[b] : i = Start(lens, b) + t
      BY <3>1 DEF Laid
    <3> QED
      BY <1>1, <3>2
  <2>2. CASE ~ (i <= Len(g))
    <3>1. i - d \in 1 .. lens[j + 1] /\ i = d + (i - d)
      BY <1>1, <1>2, <1>3, <1>6, <2>2
    <3> QED
      BY <1>1, <3>1 DEF d
  <2> QED
    BY <2>1, <2>2
<1>7. Laid(h, seqs, lens, j + 1)
  BY <1>4, <1>5, <1>6 DEF Laid
<1> QED
  BY <1>2, <1>7 DEF h, x

\* FlattenSeq lays sequences end to end, each from its Start.
LEMMA FlattenLays ==
  ASSUME NEW X, NEW k \in Nat, NEW seqs \in [1 .. k -> Seq(X)],
         NEW lens, Len(lens) = k, \A b \in 1 .. k : lens[b] = Len(seqs[b])
  PROVE  FlattenSeq(seqs) \in Seq(X) /\ Laid(FlattenSeq(seqs), seqs, lens, k)
<1>1. Laid(<<>>, seqs, lens, 0)
  BY StartUnfolds DEF Laid
<1>2. Len(seqs) = k
  OBVIOUS
<1>3. CASE k = 0
  <2>1. FlattenSeq(seqs) = seqs /\ seqs = <<>>
    BY <1>2, <1>3 DEF FlattenSeq
  <2> QED
    BY <1>1, <1>3, <2>1
<1>4. CASE k # 0
  <2>1. PICK f : /\ FlattenSeq(seqs) = f[Len(seqs)]
                 /\ \A i \in 1 .. Len(seqs) :
                      f[i] = IF i = 1 THEN seqs[i] ELSE f[i - 1] \o seqs[i]
    BY <1>2, <1>4, FlattenUnfolds
  <2> DEFINE Fine(j) == f[j] \in Seq(X) /\ Laid(f[j], seqs, lens, j)
             T == {j \in Nat : j + 1 <= k => Fine(j + 1)}
  <2>s. \A b \in 1 .. k : seqs[b] \in Seq(X) /\ lens[b] = Len(seqs[b])
    OBVIOUS
  <2>2. 0 \in T
    <3>1. f[1] = seqs[1] /\ seqs[1] \in Seq(X)
      BY <1>2, <1>4, <2>1
    <3>2. <<>> \o seqs[1] = seqs[1]
      BY <3>1, ConcatEmptySeq
    <3>3. <<>> \o seqs[0 + 1] \in Seq(X) /\ Laid(<<>> \o seqs[0 + 1], seqs, lens, 0 + 1)
      <4>1. 0 \in 0 .. k - 1 /\ <<>> \in Seq(X)
        BY <1>4
      <4> QED
        BY <1>1, <2>s, <4>1, LaidNext
    <3>4. Fine(1)
      BY <3>1, <3>2, <3>3
    <3> QED
      BY <3>4
  <2>3. ASSUME NEW j \in T PROVE j + 1 \in T
    <3> SUFFICES ASSUME j + 2 <= k PROVE Fine(j + 2)
      OBVIOUS
    <3>1. Fine(j + 1) /\ j \in Nat
      OBVIOUS
    <3>2. f[j + 2] = f[j + 1] \o seqs[j + 2]
      <4>1. j + 2 \in 1 .. Len(seqs) /\ j + 2 # 1 /\ (j + 2) - 1 = j + 1
        BY <1>2, <3>1
      <4> HIDE DEF T, Fine
      <4>2. f[j + 2] = IF j + 2 = 1 THEN seqs[j + 2] ELSE f[(j + 2) - 1] \o seqs[j + 2]
        BY <2>1, <4>1
      <4> QED
        BY <4>1, <4>2
    <3>3. f[j + 1] \o seqs[(j + 1) + 1] \in Seq(X)
          /\ Laid(f[j + 1] \o seqs[(j + 1) + 1], seqs, lens, (j + 1) + 1)
      <4>1. j + 1 \in 0 .. k - 1
        BY <3>1
      <4> QED
        BY <2>s, <3>1, <4>1, LaidNext
    <3>4. (j + 1) + 1 = j + 2
      BY <3>1
    <3> QED
      BY <3>2, <3>3, <3>4
  <2>4. T = Nat
    <3> HIDE DEF T
    <3>1. T \in SUBSET Nat
      BY DEF T
    <3> QED
      BY <2>2, <2>3, <3>1, Induction
  <2> HIDE DEF T
  <2>5. k - 1 \in T /\ (k - 1) + 1 = k
    BY <1>4, <2>4
  <2>6. Fine(k)
    BY <2>5 DEF T
  <2> QED
    BY <1>2, <2>1, <2>6
<1> QED
  BY <1>3, <1>4

-----------------------------------------------------------------------------
(* KpoolIndexer: the invariant.                                            *)

\* A request's prompt comes in chunks that end where a pool ends.
Chunked ==
  \A s \in Slot :
    /\ len[s] < prompt[s] => len[s] % KPool = 0
    /\ prompt[s] = 0 => len[s] = 0

\* The ring holds the committed tokens of the pool in progress.
TailHeld ==
  \A s \in Slot : len[s] \div KPool \notin overrun[s] =>
    \A o \in 0 .. (len[s] % KPool) - 1 :
      ring[s][o] = Committed(s, (len[s] \div KPool) * KPool + o)

\* What the selection and the expansion of a row took is the row's own length.
RowsExact ==
  \A row \in buffer :
    /\ row.pos \in Pos
    /\ row.pools = (row.pos + 1) \div KPool /\ row.seqlen = row.pos + 1
    /\ row.full => row.pos + 1 <= TopK

GridFits == grid <= NumSlots * verify

KpoolInv == KpoolTypeOK /\ PoolsAreOwn /\ Chunked /\ TailHeld /\ RowsExact /\ GridFits

-----------------------------------------------------------------------------
(* KpoolIndexer: the tokens of a call.                                     *)

\* A call that Next admits.
Called(n, good) ==
  /\ n \in [Slot -> 0 .. MaxLen] /\ good \in [Slot -> 0 .. MaxLen]
  /\ Schedulable(n) /\ Accepted(n, good)

\* The t-th token that slot s brings.
TokenAt(s, t, good) == [slot |-> s, pos |-> len[s] + t - 1, good |-> t <= good[s]]

LEMMA CallFacts ==
  ASSUME KpoolTypeOK, Chunked, NEW n, NEW good, Called(n, good), NEW s \in Slot
  PROVE  /\ len[s] \in Nat /\ n[s] \in Nat /\ good[s] \in 0 .. n[s]
         /\ prompt[s] \in Nat /\ len[s] + n[s] <= MaxLen
         /\ n[s] = 0 => good[s] = 0
         /\ n[s] > verify => len[s] % KPool = 0 /\ good[s] = n[s]
         /\ len[s] + good[s] < prompt[s] => (len[s] + good[s]) % KPool = 0
         /\ n[s] > 0 => prompt[s] > 0
<1>1. /\ len[s] \in 0 .. MaxLen /\ n[s] \in 0 .. MaxLen /\ good[s] \in 0 .. MaxLen
      /\ prompt[s] \in 0 .. MaxLen /\ MaxLen \in Nat /\ verify \in Nat
  BY KpoolAssumption DEF KpoolTypeOK, Called
<1>2. /\ len[s] < prompt[s] => len[s] % KPool = 0
      /\ n[s] = 0 \/ len[s] < prompt[s] => good[s] = n[s]
      /\ ~(n[s] = 0 \/ len[s] < prompt[s]) => good[s] \in 1 .. n[s]
  BY DEF Chunked, Called, Accepted
<1>3. n[s] > 0 =>
        /\ prompt[s] > 0
        /\ len[s] + n[s] <= MaxLen
        /\ len[s] < prompt[s] =>
             \/ len[s] + n[s] = prompt[s]
             \/ len[s] + n[s] < prompt[s] /\ (len[s] + n[s]) % KPool = 0
        /\ ~(len[s] < prompt[s]) => n[s] <= verify
  BY DEF Called, Schedulable
<1>4. good[s] \in 0 .. n[s] /\ len[s] + n[s] <= MaxLen /\ (n[s] = 0 => good[s] = 0)
  BY <1>1, <1>2, <1>3
<1>5. n[s] > verify => len[s] % KPool = 0 /\ good[s] = n[s]
  BY <1>1, <1>2, <1>3
<1>6. ASSUME len[s] + good[s] < prompt[s] PROVE (len[s] + good[s]) % KPool = 0
  <2>1. len[s] < prompt[s] /\ good[s] = n[s]
    BY <1>1, <1>2, <1>6
  <2>2. CASE n[s] = 0
    <3>1. len[s] + good[s] = len[s]
      BY <1>1, <2>1, <2>2
    <3> QED
      BY <1>2, <2>1, <3>1
  <2>3. CASE n[s] > 0
    <3>1. len[s] + n[s] # prompt[s]
      BY <1>1, <1>6, <2>1
    <3> QED
      BY <1>3, <2>1, <2>3, <3>1
  <2> QED
    BY <1>1, <2>2, <2>3
<1> QED
  BY <1>1, <1>3, <1>4, <1>5, <1>6

LEMMA SlotsFinite ==
  ASSUME NEW S \in SUBSET Slot
  PROVE  IsFiniteSet(S) /\ Cardinality(S) \in 0 .. NumSlots
<1>1. IsFiniteSet(Slot) /\ Cardinality(Slot) = NumSlots /\ NumSlots \in Nat
  BY KpoolAssumption, FS_Interval DEF Slot
<1>2. IsFiniteSet(S) /\ Cardinality(S) <= NumSlots
  BY <1>1, FS_Subset
<1> QED
  BY <1>1, <1>2, FS_CardinalityType

\* reqs are the slots of S in some order, lens what each brings, and flat their
\* tokens.
Listed(reqs, lens, flat, S, n, good) ==
  /\ Len(reqs) \in 0 .. NumSlots /\ reqs \in [1 .. Len(reqs) -> S]
  /\ \A b, c \in 1 .. Len(reqs) : reqs[b] = reqs[c] => b = c
  /\ \A s \in S : \E b \in 1 .. Len(reqs) : reqs[b] = s
  /\ lens = [b \in 1 .. Len(reqs) |-> n[reqs[b]]]
  /\ Len(lens) = Len(reqs)
  /\ flat \in Seq(Token) /\ Len(flat) = Start(lens, Len(reqs) + 1)
  /\ \A b \in 1 .. Len(reqs) :
       /\ Start(lens, b) \in Nat
       /\ \A t \in 1 .. n[reqs[b]] :
            /\ Start(lens, b) + t \in 1 .. Len(flat)
            /\ flat[Start(lens, b) + t] = TokenAt(reqs[b], t, good)
  /\ \A i \in 1 .. Len(flat) :
       \E b \in 1 .. Len(reqs) : \E t \in 1 .. n[reqs[b]] : i = Start(lens, b) + t

LEMMA TokenTypes ==
  ASSUME KpoolTypeOK, Chunked, NEW n, NEW good, Called(n, good),
         NEW s \in Slot, NEW t \in 1 .. n[s]
  PROVE  TokenAt(s, t, good) \in Token
<1>1. len[s] \in Nat /\ n[s] \in Nat /\ len[s] + n[s] <= MaxLen /\ MaxLen \in Nat
  BY CallFacts, KpoolAssumption
<1>2. len[s] + t - 1 \in Pos
  BY <1>1 DEF Pos
<1> QED
  BY <1>2 DEF TokenAt, Token

LEMMA FlatLists ==
  ASSUME KpoolTypeOK, Chunked, NEW n, NEW good, Called(n, good), NEW S \in SUBSET Slot
  PROVE  LET reqs == SetToSeq(S)
         IN  Listed(reqs, [b \in 1 .. Len(reqs) |-> n[reqs[b]]], Flat(reqs, n, good),
                    S, n, good)
<1> DEFINE reqs == SetToSeq(S)
           k == Len(reqs)
           lens == [b \in 1 .. Len(reqs) |-> n[reqs[b]]]
           seqs == [b \in 1 .. Len(reqs) |-> Tokens(reqs[b], n, good)]
<1>1. IsFiniteSet(S) /\ Cardinality(S) \in 0 .. NumSlots /\ NumSlots \in Nat
  BY SlotsFinite, KpoolAssumption
<1>2. /\ k \in 0 .. NumSlots /\ k \in Nat /\ reqs \in [1 .. k -> S]
      /\ \A i, j \in 1 .. k : reqs[i] = reqs[j] => i = j
      /\ \A x \in S : \E i \in 1 .. k : reqs[i] = x
  BY <1>1, Enumerated
<1>l. Len(reqs) = k
  OBVIOUS
<1> HIDE DEF reqs, k
<1>3. \A b \in 1 .. k : reqs[b] \in Slot /\ n[reqs[b]] \in Nat /\ n[reqs[b]] <= MaxLen
  BY <1>2, KpoolAssumption DEF Called
<1>4. \A b \in 1 .. k : /\ Tokens(reqs[b], n, good) \in Seq(Token)
                        /\ Len(Tokens(reqs[b], n, good)) = n[reqs[b]]
                        /\ \A t \in 1 .. n[reqs[b]] :
                             Tokens(reqs[b], n, good)[t] = TokenAt(reqs[b], t, good)
  <2> TAKE b \in 1 .. k
  <2>1. \A t \in 1 .. n[reqs[b]] : TokenAt(reqs[b], t, good) \in Token
    BY <1>3, TokenTypes
  <2>2. Tokens(reqs[b], n, good) = [t \in 1 .. n[reqs[b]] |-> TokenAt(reqs[b], t, good)]
    BY DEF Tokens, TokenAt
  <2>3. Tokens(reqs[b], n, good) \in [1 .. n[reqs[b]] -> Token]
    BY <2>1, <2>2
  <2> QED
    BY <1>3, <2>2, <2>3
<1>5. /\ seqs \in [1 .. k -> Seq(Token)] /\ Len(lens) = k /\ k \in Nat
      /\ \A b \in 1 .. k : lens[b] = Len(seqs[b]) /\ lens[b] = n[reqs[b]]
                           /\ seqs[b] = Tokens(reqs[b], n, good)
  BY <1>1, <1>2, <1>l, <1>3, <1>4
<1> HIDE DEF lens, seqs
<1>6. FlattenSeq(seqs) \in Seq(Token) /\ Laid(FlattenSeq(seqs), seqs, lens, k)
  BY <1>5, FlattenLays
<1>7. Flat(reqs, n, good) = FlattenSeq(seqs)
  BY DEF Flat, seqs
<1> DEFINE flat == Flat(reqs, n, good)
<1> HIDE DEF flat
<1>8. \A b \in 1 .. k : Start(lens, b) \in Nat
  <2>1. \A b \in 1 .. k : lens[b] \in 0 .. MaxLen
    BY <1>3, <1>5
  <2>2. \A b \in 1 .. Len(lens) : lens[b] \in 0 .. MaxLen
    BY <1>5, <2>1
  <2>3. \A b \in 1 .. Len(lens) + 1 : Start(lens, b) \in Nat
    BY <1>5, <2>2, StartsWithin, KpoolAssumption
  <2> QED
    BY <1>5, <2>3
<1>9. /\ flat \in Seq(Token) /\ Len(flat) = Start(lens, k + 1)
      /\ \A b \in 1 .. k : \A t \in 1 .. n[reqs[b]] :
            /\ Start(lens, b) + t \in 1 .. Len(flat)
            /\ flat[Start(lens, b) + t] = TokenAt(reqs[b], t, good)
      /\ \A i \in 1 .. Len(flat) :
           \E b \in 1 .. k : \E t \in 1 .. n[reqs[b]] : i = Start(lens, b) + t
  <2>1. flat \in Seq(Token) /\ Laid(flat, seqs, lens, k)
    BY <1>6, <1>7 DEF flat
  <2>2. Len(flat) = Start(lens, k + 1)
    BY <2>1 DEF Laid
  <2>3. ASSUME NEW b \in 1 .. k, NEW t \in 1 .. n[reqs[b]]
        PROVE  /\ Start(lens, b) + t \in 1 .. Len(flat)
               /\ flat[Start(lens, b) + t] = TokenAt(reqs[b], t, good)
    <3>1. t \in 1 .. lens[b] /\ seqs[b] = Tokens(reqs[b], n, good)
      BY <1>5, <2>3
    <3>2. Start(lens, b) + t \in 1 .. Len(flat) /\ flat[Start(lens, b) + t] = seqs[b][t]
      BY <2>1, <3>1 DEF Laid
    <3> QED
      BY <1>4, <2>3, <3>1, <3>2
  <2>4. ASSUME NEW i \in 1 .. Len(flat)
        PROVE  \E b \in 1 .. k : \E t \in 1 .. n[reqs[b]] : i = Start(lens, b) + t
    <3>1. PICK b \in 1 .. k : \E t \in 1 .. lens[b] : i = Start(lens, b) + t
      BY <2>1, <2>4 DEF Laid
    <3>2. lens[b] = n[reqs[b]]
      BY <1>5, <3>1
    <3> QED
      BY <3>1, <3>2
  <2> QED
    BY <2>1, <2>2, <2>3, <2>4
<1>10. lens = [b \in 1 .. Len(reqs) |-> n[reqs[b]]]
  BY DEF lens
<1>11. Listed(reqs, lens, flat, S, n, good)
  <2>2. \A b \in 1 .. k :
          /\ Start(lens, b) \in Nat
          /\ \A t \in 1 .. n[reqs[b]] :
               /\ Start(lens, b) + t \in 1 .. Len(flat)
               /\ flat[Start(lens, b) + t] = TokenAt(reqs[b], t, good)
    BY <1>8, <1>9
  <2>3. /\ k \in 0 .. NumSlots /\ reqs \in [1 .. k -> S] /\ Len(lens) = k
        /\ \A b, c \in 1 .. k : reqs[b] = reqs[c] => b = c
        /\ \A s \in S : \E b \in 1 .. k : reqs[b] = s
    BY <1>1, <1>2, <1>5
  <2> QED
    BY <1>9, <1>10, <2>2, <2>3, Zenon DEF Listed, k
<1> QED
  BY <1>11 DEF flat, lens, reqs

-----------------------------------------------------------------------------
(* KpoolIndexer: what a call writes.                                       *)

DecodeSlots(n) == {s \in Slot : n[s] \in 1 .. verify}
PrefillSlots(n) == {s \in Slot : n[s] > verify}

\* The requests of a batch, its decodes and its prefills.
Batched(reqs, lens, dec, prefills, chunks, pre, n, good) ==
  /\ Listed(reqs, lens, dec, DecodeSlots(n), n, good)
  /\ Listed(prefills, chunks, pre, PrefillSlots(n), n, good)

\* The tokens that a call stashes in the ring: of a request all that it brings, or
\* the last KPool.
Stashed(stashed, n, good) ==
  /\ \A tok \in stashed : \E s \in Slot : \E t \in 1 .. n[s] : tok = TokenAt(s, t, good)
  /\ \A s \in Slot : \A t \in 1 .. n[s] :
       t + KPool > n[s] \/ n[s] <= verify => TokenAt(s, t, good) \in stashed

LEMMA SameShift ==
  ASSUME NEW a \in Nat, NEW b \in Nat, NEW c \in Nat, NEW m \in Nat, a + b + m = a + c
  PROVE  c = b + m
OBVIOUS

LEMMA StashIs ==
  ASSUME KpoolTypeOK, Chunked, NEW n, NEW good, Called(n, good),
         NEW reqs, NEW lens, NEW dec, NEW prefills, NEW chunks, NEW pre,
         Batched(reqs, lens, dec, prefills, chunks, pre, n, good)
  PROVE  Stashed(SeededTail(pre) \cup Range(dec), n, good)
<1>1. ASSUME NEW tok \in SeededTail(pre) \cup Range(dec)
      PROVE  \E s \in Slot : \E t \in 1 .. n[s] : tok = TokenAt(s, t, good)
  <2>1. ASSUME tok \in Range(dec)
        PROVE  \E s \in Slot : \E t \in 1 .. n[s] : tok = TokenAt(s, t, good)
    <3>1. PICK i \in 1 .. Len(dec) : tok = dec[i]
      <4>1. DOMAIN dec = 1 .. Len(dec)
        BY DEF Batched, Listed
      <4> QED
        BY <2>1, <4>1 DEF Range
    <3>2. PICK b \in 1 .. Len(reqs) : \E t \in 1 .. n[reqs[b]] : i = Start(lens, b) + t
      BY DEF Batched, Listed
    <3>3. PICK t \in 1 .. n[reqs[b]] : i = Start(lens, b) + t
      BY <3>2
    <3>4. reqs[b] \in Slot /\ dec[i] = TokenAt(reqs[b], t, good)
      BY <3>3 DEF Batched, Listed, DecodeSlots
    <3> QED
      BY <3>1, <3>3, <3>4
  <2>2. ASSUME tok \in SeededTail(pre)
        PROVE  \E s \in Slot : \E t \in 1 .. n[s] : tok = TokenAt(s, t, good)
    <3>1. PICK i \in 1 .. Len(pre) : tok = pre[i]
      BY <2>2 DEF SeededTail
    <3>2. PICK b \in 1 .. Len(prefills) :
            \E t \in 1 .. n[prefills[b]] : i = Start(chunks, b) + t
      BY DEF Batched, Listed
    <3>3. PICK t \in 1 .. n[prefills[b]] : i = Start(chunks, b) + t
      BY <3>2
    <3>4. prefills[b] \in Slot /\ pre[i] = TokenAt(prefills[b], t, good)
      BY <3>3 DEF Batched, Listed, PrefillSlots
    <3> QED
      BY <3>1, <3>3, <3>4
  <2> QED
    BY <1>1, <2>1, <2>2
<1>2. ASSUME NEW s \in Slot, NEW t \in 1 .. n[s], t + KPool > n[s] \/ n[s] <= verify
      PROVE  TokenAt(s, t, good) \in SeededTail(pre) \cup Range(dec)
  <2>0. n[s] \in Nat /\ verify \in Nat /\ KPool \in Nat \ {0} /\ n[s] # 0
    BY CallFacts, KpoolAssumption DEF KpoolTypeOK
  <2>1. CASE n[s] <= verify
    <3>1. s \in DecodeSlots(n)
      BY <2>0, <2>1 DEF DecodeSlots
    <3>2. PICK b \in 1 .. Len(reqs) : reqs[b] = s
      BY <3>1 DEF Batched, Listed
    <3>3. /\ Start(lens, b) + t \in 1 .. Len(dec)
          /\ dec[Start(lens, b) + t] = TokenAt(s, t, good)
      BY <3>2 DEF Batched, Listed
    <3>4. DOMAIN dec = 1 .. Len(dec)
      BY DEF Batched, Listed
    <3> QED
      BY <3>3, <3>4 DEF Range
  <2>2. CASE n[s] > verify
    <3>1. s \in PrefillSlots(n)
      BY <2>2 DEF PrefillSlots
    <3>2. PICK b \in 1 .. Len(prefills) : prefills[b] = s
      BY <3>1 DEF Batched, Listed
    <3> DEFINE i == Start(chunks, b) + t
    <3>3. i \in 1 .. Len(pre) /\ pre[i] = TokenAt(s, t, good) /\ Start(chunks, b) \in Nat
      BY <3>2 DEF Batched, Listed
    <3>4. InTail(pre, i)
      <4> SUFFICES ASSUME i + KPool <= Len(pre) PROVE pre[i + KPool].slot # pre[i].slot
        BY <2>0, <3>3 DEF InTail, Batched, Listed
      <4>1. i + KPool \in 1 .. Len(pre)
        BY <2>0, <3>3
      <4>2. PICK c \in 1 .. Len(prefills) :
              \E u \in 1 .. n[prefills[c]] : i + KPool = Start(chunks, c) + u
        BY <4>1 DEF Batched, Listed
      <4>3. PICK u \in 1 .. n[prefills[c]] : i + KPool = Start(chunks, c) + u
        BY <4>2
      <4>4. pre[i + KPool] = TokenAt(prefills[c], u, good)
        BY <4>3 DEF Batched, Listed
      <4>5. pre[i + KPool].slot = prefills[c] /\ pre[i].slot = s
        BY <3>3, <4>4 DEF TokenAt
      <4>6. ASSUME prefills[c] = s PROVE FALSE
        <5>1. c = b
          BY <3>2, <4>6 DEF Batched, Listed
        <5>2. u = t + KPool
          <6>1. u \in Nat /\ t \in Nat
            <7>1. u \in 1 .. n[s] /\ t \in 1 .. n[s]
              BY <1>2, <4>3, <4>6
            <7> HIDE DEF i
            <7> QED
              BY <2>0, <7>1
          <6>2. Start(chunks, b) + t + KPool = Start(chunks, b) + u
            BY <4>3, <5>1
          <6>3. Start(chunks, b) \in Nat
            BY <3>3
          <6> QED
            BY <2>0, <6>1, <6>2, <6>3, SameShift
        <5> QED
          BY <1>2, <2>0, <2>2, <4>3, <4>6, <5>2
      <4> QED
        BY <4>5, <4>6
    <3> HIDE DEF i
    <3> QED
      BY <3>3, <3>4 DEF SeededTail
  <2> QED
    BY <2>0, <2>1, <2>2
<1> QED
  BY <1>1, <1>2 DEF Stashed

\* The key of the pool that ends at the t-th token of slot s: the tokens of the
\* call, and what the ring holds of those before it.
KeyAt(s, t, good) ==
  [o \in Offset |->
     LET p == ((len[s] + t - 1) \div KPool) * KPool + o
     IN IF p >= len[s] THEN TokenAt(s, p - len[s] + 1, good) ELSE ring[s][o]]

WriteAt(s, t, good) ==
  [slot |-> s, pool |-> (len[s] + t - 1) \div KPool, key |-> KeyAt(s, t, good)]

\* The pools that a call writes for the slots of S: one for each token that ends one.
Wrote(written, S, n, good) ==
  /\ \A w \in written : \E s \in S : \E t \in 1 .. n[s] :
       (len[s] + t) % KPool = 0 /\ w = WriteAt(s, t, good)
  /\ \A s \in S : \A t \in 1 .. n[s] :
       (len[s] + t) % KPool = 0 => WriteAt(s, t, good) \in written

\* Where the pool that ends at the t-th token lies.
LEMMA PoolAtEnd ==
  ASSUME NEW m \in Nat, NEW t \in Nat \ {0}, (m + t) % KPool = 0
  PROVE  LET j == (m + t - 1) \div KPool
         IN  j \in Nat /\ j * KPool + KPool = m + t /\ (m + t - 1) % KPool = KPool - 1
<1>0. KPool \in Nat \ {0} /\ m + t - 1 \in Nat /\ (m + t - 1) + 1 = m + t
  BY KpoolAssumption
<1> DEFINE p == m + t - 1
           j == p \div KPool
<1>1. p % KPool = KPool - 1
  BY <1>0, Completes
<1>2. j \in Nat /\ j * KPool \in Nat /\ p = j * KPool + (p % KPool)
  BY <1>0, DivMod, PoolEnds
<1> HIDE DEF j
<1>3. j * KPool + KPool = m + t
  BY <1>0, <1>1, <1>2
<1> QED
  BY <1>1, <1>2, <1>3 DEF j

LEMMA CompletesAt ==
  ASSUME KpoolTypeOK, NEW s \in Slot, NEW t \in Nat \ {0}, NEW good
  PROVE  CompletesPool(TokenAt(s, t, good)) <=> (len[s] + t) % KPool = 0
<1>1. len[s] \in Nat /\ len[s] + t - 1 \in Nat /\ (len[s] + t - 1) + 1 = len[s] + t
      /\ KPool \in Nat \ {0}
  BY KpoolAssumption DEF KpoolTypeOK
<1>2. TokenAt(s, t, good).pos = len[s] + t - 1
  BY DEF TokenAt
<1> QED
  BY <1>1, <1>2, Completes DEF CompletesPool

LEMMA KeyShift ==
  ASSUME NEW q \in Int, NEW k \in Int, NEW m \in Int, NEW t \in Int, NEW o \in Int,
         q + k = m + t
  PROVE  q + o - m + 1 = t - (k - 1) + o
OBVIOUS

LEMMA PrefillWrites ==
  ASSUME KpoolTypeOK, Chunked, NEW n, NEW good, Called(n, good),
         NEW reqs, NEW lens, NEW pre, Listed(reqs, lens, pre, PrefillSlots(n), n, good)
  PROVE  Wrote(PrefillPools(pre), PrefillSlots(n), n, good)
<1> DEFINE Put(i) == [slot |-> pre[i].slot, pool |-> pre[i].pos \div KPool,
                      key |-> [o \in Offset |-> pre[i - (KPool - 1) + o]]]
<1>k. KPool \in Nat \ {0}
  BY KpoolAssumption
<1>1. ASSUME NEW b \in 1 .. Len(reqs), NEW t \in 1 .. n[reqs[b]],
             (len[reqs[b]] + t) % KPool = 0
      PROVE  /\ Start(lens, b) + t \in KPool .. Len(pre)
             /\ Put(Start(lens, b) + t) = WriteAt(reqs[b], t, good)
  <2> DEFINE s == reqs[b]
             a == Start(lens, b)
             i == a + t
             j == (len[s] + t - 1) \div KPool
  <2>1. s \in PrefillSlots(n) /\ s \in Slot /\ n[s] > verify
    BY DEF Listed, PrefillSlots
  <2>2. len[s] \in Nat /\ n[s] \in Nat /\ len[s] % KPool = 0
    BY <2>1, CallFacts
  <2>3. a \in Nat /\ i \in 1 .. Len(pre) /\ pre[i] = TokenAt(s, t, good)
    BY DEF Listed
  <2>4. \A u \in 1 .. n[s] : pre[a + u] = TokenAt(s, u, good)
    BY DEF Listed
  <2>t. t \in Nat \ {0} /\ t <= n[s]
    BY <2>2
  <2>p. (len[s] + t) % KPool = 0
    BY <1>1
  <2> HIDE DEF s
  <2>5. len[s] + KPool <= len[s] + t
    <3>1. len[s] < len[s] + t /\ len[s] + t \in Nat
      BY <2>2, <2>t
    <3> QED
      BY <1>k, <2>2, <2>p, <3>1, PoolApart
  <2>6. j \in Nat /\ j * KPool + KPool = len[s] + t
    BY <2>2, <2>t, <2>p, PoolAtEnd
  <2> DEFINE q == j * KPool
  <2>7. q \in Nat /\ q + KPool = len[s] + t /\ q >= len[s] /\ t >= KPool
    <3> HIDE DEF j
    <3>1. q \in Nat
      BY <1>k, <2>6
    <3> HIDE DEF q
    <3>2. q + KPool = len[s] + t
      BY <2>6 DEF q
    <3> QED
      BY <1>k, <2>2, <2>5, <2>t, <3>1, <3>2
  <2> HIDE DEF j, q, a
  <2>8. i \in KPool .. Len(pre)
    BY <1>k, <2>3, <2>7, <2>t
  <2>9. \A o \in Offset : KeyAt(s, t, good)[o] = pre[i - (KPool - 1) + o]
    <3> TAKE o \in Offset
    <3>1. o \in 0 .. KPool - 1
      BY DEF Offset
    <3> DEFINE p == q + o
               u == p - len[s] + 1
    <3>2. KeyAt(s, t, good)[o] = IF p >= len[s] THEN TokenAt(s, u, good) ELSE ring[s][o]
      BY DEF KeyAt, q, j
    <3>3. p >= len[s] /\ u \in 1 .. n[s] /\ a + u = i - (KPool - 1) + o
      <4>1. a \in Nat /\ len[s] \in Nat /\ n[s] \in Nat /\ q \in Nat
        BY <2>2, <2>3, <2>7
      <4>2. t \in Nat /\ t <= n[s] /\ q + KPool = len[s] + t /\ q >= len[s]
        BY <2>7, <2>t
      <4>3. p >= len[s]
        BY <1>k, <3>1, <4>1, <4>2
      <4>4. u \in 1 .. n[s]
        BY <1>k, <3>1, <4>1, <4>2
      <4>5. a + u = i - (KPool - 1) + o
        <5>1. u = t - (KPool - 1) + o
          <6>1. /\ q \in Int /\ KPool \in Int /\ len[s] \in Int /\ t \in Int /\ o \in Int
                /\ q + KPool = len[s] + t
            BY <1>k, <3>1, <4>1, <4>2
          <6> QED
            BY <6>1, KeyShift
        <5> HIDE DEF u
        <5>2. o \in Int /\ KPool \in Int /\ t \in Int /\ a \in Int
          BY <1>k, <3>1, <4>1, <4>2
        <5> QED
          BY <5>1, <5>2
      <4> QED
        BY <4>3, <4>4, <4>5
    <3> HIDE DEF p, u
    <3> QED
      BY <2>4, <3>2, <3>3
  <2>10. KeyAt(s, t, good) = [o \in Offset |-> pre[i - (KPool - 1) + o]]
    BY <2>9 DEF KeyAt
  <2>11. pre[i].slot = s /\ pre[i].pos = len[s] + t - 1
    BY <2>3 DEF TokenAt
  <2>12. Put(i) = WriteAt(s, t, good)
    BY <2>10, <2>11 DEF WriteAt
  <2> QED
    BY <2>8, <2>12 DEF s, a
<1>2. PrefillPools(pre) = {Put(i) : i \in {j \in KPool .. Len(pre) : CompletesPool(pre[j])}}
  BY DEF PrefillPools
<1> HIDE DEF Put
<1>3. ASSUME NEW w \in PrefillPools(pre)
      PROVE  \E s \in PrefillSlots(n) : \E t \in 1 .. n[s] :
               (len[s] + t) % KPool = 0 /\ w = WriteAt(s, t, good)
  <2>1. PICK i \in KPool .. Len(pre) : CompletesPool(pre[i]) /\ w = Put(i)
    BY <1>2
  <2>2. i \in 1 .. Len(pre)
    BY <1>k, <2>1 DEF Listed
  <2>3. PICK b \in 1 .. Len(reqs) : \E t \in 1 .. n[reqs[b]] : i = Start(lens, b) + t
    BY <2>2 DEF Listed
  <2>4. PICK t \in 1 .. n[reqs[b]] : i = Start(lens, b) + t
    BY <2>3
  <2>5. pre[i] = TokenAt(reqs[b], t, good)
    BY <2>4 DEF Listed
  <2>6. reqs[b] \in PrefillSlots(n) /\ reqs[b] \in Slot
    BY DEF Listed, PrefillSlots
  <2>7. t \in Nat \ {0}
    BY <2>6, CallFacts
  <2>8. (len[reqs[b]] + t) % KPool = 0
    BY <2>1, <2>5, <2>6, <2>7, CompletesAt
  <2>9. w = WriteAt(reqs[b], t, good)
    BY <1>1, <2>1, <2>4, <2>8
  <2> QED
    BY <2>6, <2>8, <2>9
<1>4. ASSUME NEW s \in PrefillSlots(n), NEW t \in 1 .. n[s], (len[s] + t) % KPool = 0
      PROVE  WriteAt(s, t, good) \in PrefillPools(pre)
  <2>1. PICK b \in 1 .. Len(reqs) : reqs[b] = s
    BY DEF Listed
  <2> DEFINE i == Start(lens, b) + t
  <2>2. i \in KPool .. Len(pre) /\ Put(i) = WriteAt(s, t, good)
    BY <1>1, <1>4, <2>1
  <2>3. pre[i] = TokenAt(s, t, good)
    BY <2>1 DEF Listed
  <2>4. s \in Slot /\ t \in Nat \ {0}
    BY CallFacts DEF PrefillSlots
  <2>5. CompletesPool(pre[i])
    BY <1>4, <2>3, <2>4, CompletesAt
  <2> HIDE DEF i
  <2> QED
    BY <1>2, <2>2, <2>5
<1> QED
  BY <1>3, <1>4 DEF Wrote

\* The rows of a decode write: each request's tokens.
IsRow(row, s, n, good) ==
  Len(row) = n[s] /\ \A t \in 1 .. n[s] : row[t] = TokenAt(s, t, good)

Rows(groups, reqs, n, good) ==
  /\ Len(groups) = Len(reqs)
  /\ \A b \in 1 .. Len(reqs) : IsRow(groups[b], reqs[b], n, good)

\* The last token of a row at an offset, up to the one that completes a pool.
LEMMA SeenIs ==
  ASSUME KpoolTypeOK, Chunked, NEW n, NEW good, Called(n, good), NEW row,
         NEW s \in Slot, \A u \in 1 .. n[s] : row[u] = TokenAt(s, u, good),
         NEW t \in 1 .. n[s], (len[s] + t) % KPool = 0, NEW o \in Offset
  PROVE  RingSeen(row, t, o) = KeyAt(s, t, good)[o]
<1> DEFINE m == len[s]
           j == (m + t - 1) \div KPool
           p == j * KPool + o
           seen == {u \in 1 .. t : row[u].slot = row[t].slot /\ row[u].pos % KPool = o}
<1>1. /\ KPool \in Nat \ {0} /\ o \in 0 .. KPool - 1 /\ m \in Nat /\ n[s] \in Nat
      /\ t \in Nat \ {0} /\ t <= n[s]
  BY KpoolAssumption, CallFacts DEF Offset
<1>2. j \in Nat /\ j * KPool + KPool = m + t
  BY <1>1, PoolAtEnd
<1>3. p \in Nat /\ p % KPool = o
  BY <1>1, <1>2, PoolOf
<1>4. p <= m + t - 1 /\ m + t <= p + KPool
  <2>1. j * KPool \in Nat
    BY <1>1, <1>2
  <2> QED
    BY <1>1, <1>2, <2>1
<1>5. \A u \in 1 .. t : row[u].slot = s /\ row[u].pos = m + u - 1
  <2>1. \A u \in 1 .. t : u \in 1 .. n[s]
    BY <1>1
  <2>2. \A u \in 1 .. t : row[u] = TokenAt(s, u, good)
    BY <2>1
  <2>3. \A u \in 1 .. t : TokenAt(s, u, good).slot = s /\ TokenAt(s, u, good).pos = m + u - 1
    BY DEF TokenAt
  <2> HIDE DEF m
  <2> QED
    BY <2>2, <2>3
<1>6. seen = {u \in 1 .. t : (m + u - 1) % KPool = o}
  BY <1>1, <1>5
<1>7. KeyAt(s, t, good)[o] = IF p >= m THEN TokenAt(s, p - m + 1, good) ELSE ring[s][o]
  BY DEF KeyAt
<1>8. RingSeen(row, t, o) =
        IF seen = {} THEN ring[s][o] ELSE row[CHOOSE u \in seen : \A v \in seen : v <= u]
  <2>1. row[t].slot = s
    BY <1>1, <1>5
  <2> QED
    BY <2>1 DEF RingSeen
<1> HIDE DEF m, j, p, seen
<1>9. \A u \in seen : u \in 1 .. t /\ m + u - 1 <= p
  <2> SUFFICES ASSUME NEW u \in seen, p < m + u - 1 PROVE FALSE
    BY <1>1, <1>3, <1>6
  <2>1. u \in 1 .. t /\ m + u - 1 \in Nat /\ (m + u - 1) % KPool = o
    BY <1>1, <1>6
  <2>2. p + KPool <= m + u - 1
    BY <1>1, <1>3, <2>1, PoolApart
  <2> QED
    BY <1>1, <1>3, <1>4, <2>1, <2>2
<1>10. CASE p >= m
  <2> DEFINE u == p - m + 1
  <2>1. u \in 1 .. t /\ m + u - 1 = p
    BY <1>1, <1>3, <1>4, <1>10
  <2>2. u \in seen
    BY <1>3, <1>6, <2>1
  <2>3. \A v \in seen : v \in 1 .. t /\ v <= u
    BY <1>1, <1>3, <1>9
  <2> HIDE DEF u
  <2>4. (CHOOSE x \in seen : \A v \in seen : v <= x) = u
    <3> DEFINE x == CHOOSE x \in seen : \A v \in seen : v <= x
    <3>1. x \in seen /\ \A v \in seen : v <= x
      BY <2>2, <2>3
    <3> HIDE DEF x
    <3>2. x <= u /\ u <= x /\ x \in 1 .. t
      BY <2>2, <2>3, <3>1
    <3>3. x = u
      BY <1>1, <2>1, <3>2
    <3> QED
      BY <3>3 DEF x
  <2>5. RingSeen(row, t, o) = row[u]
    BY <1>8, <2>2, <2>4
  <2>6. row[u] = TokenAt(s, u, good)
    BY <1>1, <2>1
  <2> QED
    BY <1>7, <1>10, <2>5, <2>6 DEF u
<1>11. CASE ~ (p >= m)
  <2>1. seen = {}
    BY <1>1, <1>3, <1>9, <1>11
  <2> QED
    BY <1>7, <1>8, <1>11, <2>1
<1> QED
  BY <1>10, <1>11

\* The longest of some lengths, and those of a uniform batch.
LEMMA LongestIs ==
  ASSUME NEW lens, Len(lens) \in Nat \ {0}, DOMAIN lens = 1 .. Len(lens), NEW m \in Nat,
         \A b \in 1 .. Len(lens) : lens[b] \in 1 .. m
  PROVE  /\ Longest(lens) \in 1 .. m
         /\ \A b \in 1 .. Len(lens) : lens[b] <= Longest(lens)
<1> DEFINE Above == {k \in Nat : \A b \in 1 .. Len(lens) : lens[b] <= k}
<1>1. \A b \in 1 .. Len(lens) : lens[b] \in Nat /\ lens[b] # 0 /\ lens[b] <= m
  OBVIOUS
<1>2. m \in Above
  BY <1>1
<1>3. PICK k \in Above : \A j \in Above : k <= j
  <2> HIDE DEF Above
  <2>1. Above \in SUBSET Nat /\ Above # {}
    BY <1>2 DEF Above
  <2> QED
    BY <2>1, LeastNatural
<1>4. k \in Range(lens)
  <2> SUFFICES ASSUME k \notin Range(lens) PROVE FALSE
    OBVIOUS
  <2>1. \A b \in 1 .. Len(lens) : lens[b] # k
    BY DEF Range
  <2>2. 1 \in 1 .. Len(lens) /\ k \in Nat /\ lens[1] <= k
    OBVIOUS
  <2>3. k # 0
    BY <1>1, <2>2
  <2>4. k - 1 \in Nat /\ \A b \in 1 .. Len(lens) : lens[b] <= k - 1
    BY <1>1, <1>3, <2>1, <2>2, <2>3
  <2>5. k - 1 \in Above
    BY <2>4
  <2> HIDE DEF Above
  <2> QED
    BY <1>3, <2>2, <2>5
<1>5. \A j \in Range(lens) : j <= k
  BY DEF Range
<1> DEFINE x == Longest(lens)
<1>6. x \in Range(lens) /\ \A j \in Range(lens) : j <= x
  BY <1>4, <1>5 DEF Longest
<1> HIDE DEF x
<1>7. x \in 1 .. m
  BY <1>1, <1>6 DEF Range
<1>8. \A b \in 1 .. Len(lens) : lens[b] <= x
  BY <1>6 DEF Range
<1> QED
  BY <1>7, <1>8 DEF x

\* What the decodes of a call bring.
LEMMA DecodeLengths ==
  ASSUME KpoolTypeOK, Chunked, NEW n, NEW good, Called(n, good), NEW reqs, NEW lens, NEW dec,
         Listed(reqs, lens, dec, DecodeSlots(n), n, good), dec # <<>>
  PROVE  /\ Len(lens) \in 1 .. NumSlots /\ DOMAIN lens = 1 .. Len(lens)
         /\ \A b \in 1 .. Len(lens) : lens[b] \in 1 .. verify /\ lens[b] = n[reqs[b]]
         /\ Longest(lens) \in 1 .. verify
         /\ \A b \in 1 .. Len(lens) : lens[b] <= Longest(lens)
         /\ Uniform(lens) =>
              /\ Len(dec) = Len(lens) * Longest(lens)
              /\ \A b \in 1 .. Len(lens) : Start(lens, b) = (b - 1) * Longest(lens)
         /\ Len(dec) <= Len(lens) * verify
<1>1. /\ Len(lens) = Len(reqs) /\ Len(reqs) \in 0 .. NumSlots /\ DOMAIN lens = 1 .. Len(lens)
      /\ \A b \in 1 .. Len(lens) : lens[b] = n[reqs[b]] /\ reqs[b] \in DecodeSlots(n)
      /\ Len(dec) = Start(lens, Len(lens) + 1) /\ NumSlots \in Nat /\ verify \in Nat
  <2>1. Len(lens) = Len(reqs) /\ Len(reqs) \in 0 .. NumSlots
    BY DEF Listed
  <2>2. lens = [b \in 1 .. Len(reqs) |-> n[reqs[b]]] /\ Len(dec) = Start(lens, Len(reqs) + 1)
    BY DEF Listed
  <2>3. reqs \in [1 .. Len(reqs) -> DecodeSlots(n)]
    BY DEF Listed
  <2>4. DOMAIN lens = 1 .. Len(reqs) /\ \A b \in 1 .. Len(reqs) : lens[b] = n[reqs[b]]
    BY <2>2
  <2>5. NumSlots \in Nat /\ verify \in Nat
    BY KpoolAssumption DEF KpoolTypeOK
  <2> QED
    BY <2>1, <2>2, <2>3, <2>4, <2>5
<1>2. \A b \in 1 .. Len(lens) : lens[b] \in 1 .. verify
  BY <1>1 DEF DecodeSlots
<1>3. Len(lens) # 0
  <2> SUFFICES ASSUME Len(lens) = 0 PROVE FALSE
    OBVIOUS
  <2>1. Len(dec) = 0 /\ dec \in Seq(Token)
    BY <1>1, StartUnfolds DEF Listed
  <2> QED
    BY <2>1
<1> DEFINE x == Longest(lens)
<1>4. x \in 1 .. verify /\ \A b \in 1 .. Len(lens) : lens[b] <= x
  <2>1. Len(lens) \in Nat \ {0} /\ DOMAIN lens = 1 .. Len(lens) /\ verify \in Nat
    BY <1>1, <1>3
  <2> QED
    BY <1>2, <2>1, LongestIs
<1> HIDE DEF x
<1>5. \A b \in 1 .. Len(lens) : lens[b] \in 0 .. verify
  BY <1>1, <1>2
<1>6. Start(lens, Len(lens) + 1) <= (Len(lens) + 1 - 1) * verify
  <2>1. Len(lens) \in Nat /\ Len(lens) + 1 \in 1 .. Len(lens) + 1 /\ verify \in Nat
    BY <1>1
  <2>2. \A b \in 1 .. Len(lens) + 1 : Start(lens, b) <= (b - 1) * verify
    BY <1>5, <2>1, StartsWithin
  <2> QED
    BY <2>1, <2>2
<1>7. Len(dec) <= Len(lens) * verify
  <2>1. Len(lens) + 1 - 1 = Len(lens)
    BY <1>1
  <2> QED
    BY <1>1, <1>6, <2>1
<1>8. ASSUME Uniform(lens)
      PROVE  /\ Len(dec) = Len(lens) * x
             /\ \A b \in 1 .. Len(lens) : Start(lens, b) = (b - 1) * x
  <2>1. \A b \in 1 .. Len(lens) : lens[b] = x
    BY <1>8 DEF Uniform, x
  <2>2. x \in Nat /\ Len(lens) \in Nat /\ \A b \in 1 .. Len(lens) : lens[b] \in 0 .. x
    BY <1>1, <1>4, <2>1
  <2>3. \A b \in 1 .. Len(lens) + 1 : Start(lens, b) = (b - 1) * x
    BY <2>1, <2>2, StartsWithin
  <2>4. Len(lens) + 1 - 1 = Len(lens) /\ Len(lens) + 1 \in 1 .. Len(lens) + 1
    BY <2>2
  <2>5. Start(lens, Len(lens) + 1) = Len(lens) * x
    BY <2>3, <2>4
  <2> QED
    BY <1>1, <2>2, <2>3, <2>5
<1>9. Len(lens) \in 1 .. NumSlots
  BY <1>1, <1>3
<1> QED
  BY <1>1, <1>2, <1>4, <1>7, <1>8, <1>9 DEF x

\* A part of the decodes' tokens that starts where a request's do.
LEMMA PartIsRow ==
  ASSUME KpoolTypeOK, Chunked, NEW n, NEW good, Called(n, good), NEW reqs, NEW lens, NEW dec,
         NEW S \in SUBSET Slot, Listed(reqs, lens, dec, S, n, good), NEW b \in 1 .. Len(reqs)
  PROVE  IsRow(SubSeq(dec, Start(lens, b) + 1, Start(lens, b) + n[reqs[b]]),
               reqs[b], n, good)
<1> DEFINE a == Start(lens, b)
           m == n[reqs[b]]
           row == SubSeq(dec, a + 1, a + m)
<1>1. /\ a \in Nat
      /\ \A t \in 1 .. m : a + t \in 1 .. Len(dec) /\ dec[a + t] = TokenAt(reqs[b], t, good)
      /\ reqs[b] \in Slot /\ dec \in Seq(Token)
  BY DEF Listed
<1>2. m \in Nat
  BY <1>1, CallFacts
<1> HIDE DEF a, m
<1>3. \A i \in a + 1 .. a + m : dec[i] \in Token
  <2> TAKE i \in a + 1 .. a + m
  <2>1. i - a \in 1 .. m /\ a + (i - a) = i
    BY <1>1, <1>2
  <2>2. i \in 1 .. Len(dec)
    BY <1>1, <2>1
  <2> QED
    BY <1>1, <2>2
<1>4. a + 1 \in Int /\ a + m \in Int
  BY <1>1, <1>2
<1>5. /\ Len(row) = IF a + 1 <= a + m THEN (a + m) - (a + 1) + 1 ELSE 0
      /\ \A i \in 1 .. (a + m) - (a + 1) + 1 : row[i] = dec[(a + 1) + i - 1]
  BY <1>3, <1>4, SubSeqProperties
<1> HIDE DEF row
<1>6. Len(row) = m
  BY <1>1, <1>2, <1>5
<1>7. \A t \in 1 .. m : row[t] = TokenAt(reqs[b], t, good)
  <2> TAKE t \in 1 .. m
  <2>1. t \in 1 .. (a + m) - (a + 1) + 1 /\ (a + 1) + t - 1 = a + t
    BY <1>1, <1>2
  <2> QED
    BY <1>1, <1>5, <2>1
<1> QED
  BY <1>6, <1>7 DEF row, a, m, IsRow

LEMMA ScatterIsRows ==
  ASSUME KpoolTypeOK, Chunked, NEW n, NEW good, Called(n, good), NEW reqs, NEW lens, NEW dec,
         NEW S \in SUBSET Slot, Listed(reqs, lens, dec, S, n, good)
  PROVE  Rows(Scatter(dec, lens), reqs, n, good)
<1>1. /\ Len(lens) = Len(reqs) /\ Len(reqs) \in Nat
      /\ \A b \in 1 .. Len(reqs) : lens[b] = n[reqs[b]]
  BY KpoolAssumption DEF Listed
<1>2. Len(Scatter(dec, lens)) = Len(reqs)
  BY <1>1 DEF Scatter
<1>3. \A b \in 1 .. Len(reqs) :
        Scatter(dec, lens)[b] = SubSeq(dec, Start(lens, b) + 1, Start(lens, b) + n[reqs[b]])
  BY <1>1 DEF Scatter
<1>4. ASSUME NEW b \in 1 .. Len(reqs)
      PROVE  IsRow(Scatter(dec, lens)[b], reqs[b], n, good)
  <2>1. Scatter(dec, lens)[b] = SubSeq(dec, Start(lens, b) + 1, Start(lens, b) + n[reqs[b]])
    BY <1>3
  <2>2. IsRow(SubSeq(dec, Start(lens, b) + 1, Start(lens, b) + n[reqs[b]]), reqs[b], n, good)
    BY PartIsRow
  <2> QED
    BY <2>1, <2>2, Zenon
<1> QED
  BY <1>2, <1>4 DEF Rows

LEMMA WriteGroupsAreRows ==
  ASSUME KpoolTypeOK, Chunked, NEW n, NEW good, Called(n, good), NEW reqs, NEW lens, NEW dec,
         Listed(reqs, lens, dec, DecodeSlots(n), n, good), dec # <<>>
  PROVE  Rows(WriteGroups(dec, lens), reqs, n, good)
<1>s. DecodeSlots(n) \in SUBSET Slot
  BY DEF DecodeSlots
<1>1. CASE ~Uniform(lens)
  BY <1>1, <1>s, ScatterIsRows DEF WriteGroups
<1>2. CASE Uniform(lens)
  <2> DEFINE x == Longest(lens)
             k == Len(lens)
             d == Len(dec) \div Len(lens)
  <2>1. /\ k \in 1 .. NumSlots /\ x \in 1 .. verify /\ Len(dec) = k * x
        /\ \A b \in 1 .. k : Start(lens, b) = (b - 1) * x
        /\ NumSlots \in Nat /\ verify \in Nat /\ k = Len(reqs)
        /\ \A b \in 1 .. k : lens[b] = x /\ lens[b] = n[reqs[b]]
    <3>1. NumSlots \in Nat /\ verify \in Nat /\ Len(lens) = Len(reqs)
      BY KpoolAssumption DEF Listed, KpoolTypeOK
    <3>2. \A b \in 1 .. k : lens[b] = x
      BY <1>2 DEF Uniform
    <3>3. k \in 1 .. NumSlots /\ x \in 1 .. verify /\ \A b \in 1 .. k : lens[b] = n[reqs[b]]
      BY DecodeLengths
    <3>4. Len(dec) = k * x /\ \A b \in 1 .. k : Start(lens, b) = (b - 1) * x
      BY <1>2, DecodeLengths, Zenon
    <3> QED
      BY <3>1, <3>2, <3>3, <3>4
  <2> HIDE DEF x, k
  <2>2. d = x
    <3>1. k \in Nat \ {0} /\ x \in Nat /\ 0 \in 0 .. k - 1
      BY <2>1
    <3>2. (k * x + 0) \div k = x
      BY <3>1, DivUnique
    <3>3. k * x + 0 = k * x
      BY <3>1
    <3> QED
      BY <2>1, <3>2, <3>3 DEF k
  <2>3. WriteGroups(dec, lens) = [b \in 1 .. k |-> SubSeq(dec, (b - 1) * x + 1, b * x)]
    BY <1>2, <2>2 DEF WriteGroups, k
  <2>4. \A b \in 1 .. k :
          WriteGroups(dec, lens)[b]
            = SubSeq(dec, Start(lens, b) + 1, Start(lens, b) + n[reqs[b]])
    <3> TAKE b \in 1 .. k
    <3>1. b * x = (b - 1) * x + x
      BY <2>1
    <3>2. Start(lens, b) = (b - 1) * x /\ n[reqs[b]] = x
      BY <2>1
    <3> QED
      BY <2>3, <3>1, <3>2
  <2>5. Len(WriteGroups(dec, lens)) = Len(reqs)
    <3>1. k \in Nat
      BY <2>1
    <3> QED
      BY <2>1, <2>3, <3>1
  <2>6. ASSUME NEW b \in 1 .. Len(reqs)
        PROVE  IsRow(WriteGroups(dec, lens)[b], reqs[b], n, good)
    <3>1. b \in 1 .. k
      BY <2>1
    <3>2. WriteGroups(dec, lens)[b]
            = SubSeq(dec, Start(lens, b) + 1, Start(lens, b) + n[reqs[b]])
      BY <2>4, <3>1
    <3> QED
      BY <1>s, <3>2, PartIsRow
  <2> QED
    BY <2>5, <2>6 DEF Rows
<1> QED
  BY <1>1, <1>2

LEMMA DecodeWrites ==
  ASSUME KpoolTypeOK, Chunked, NEW n, NEW good, Called(n, good), NEW reqs, NEW lens, NEW dec,
         Listed(reqs, lens, dec, DecodeSlots(n), n, good),
         NEW groups, Rows(groups, reqs, n, good)
  PROVE  Wrote(DecodePools(groups), DecodeSlots(n), n, good)
<1> DEFINE Put(b, t) == [slot |-> groups[b][t].slot, pool |-> groups[b][t].pos \div KPool,
                         key |-> [o \in Offset |-> RingSeen(groups[b], t, o)]]
<1>1. ASSUME NEW b \in 1 .. Len(reqs), NEW t \in 1 .. n[reqs[b]]
      PROVE  /\ reqs[b] \in Slot /\ reqs[b] \in DecodeSlots(n) /\ t \in Nat \ {0}
             /\ CompletesPool(groups[b][t]) <=> (len[reqs[b]] + t) % KPool = 0
             /\ (len[reqs[b]] + t) % KPool = 0 => Put(b, t) = WriteAt(reqs[b], t, good)
  <2> DEFINE s == reqs[b]
  <2>1. s \in Slot /\ s \in DecodeSlots(n)
    BY DEF Listed, DecodeSlots
  <2>2. t \in Nat \ {0}
    BY <2>1, CallFacts
  <2>3. \A u \in 1 .. n[s] : groups[b][u] = TokenAt(s, u, good)
    BY DEF Rows, IsRow
  <2> HIDE DEF s
  <2>4. t \in 1 .. n[s]
    BY DEF s
  <2>5. CompletesPool(groups[b][t]) <=> (len[s] + t) % KPool = 0
    BY <2>1, <2>2, <2>3, <2>4, CompletesAt
  <2>6. ASSUME (len[s] + t) % KPool = 0 PROVE Put(b, t) = WriteAt(s, t, good)
    <3>1. \A o \in Offset : RingSeen(groups[b], t, o) = KeyAt(s, t, good)[o]
      BY <2>1, <2>3, <2>4, <2>6, SeenIs
    <3>2. KeyAt(s, t, good) = [o \in Offset |-> RingSeen(groups[b], t, o)]
      BY <3>1 DEF KeyAt
    <3>3. groups[b][t].slot = s /\ groups[b][t].pos = len[s] + t - 1
      <4>1. groups[b][t] = TokenAt(s, t, good)
        BY <2>3, <2>4
      <4>2. TokenAt(s, t, good).slot = s /\ TokenAt(s, t, good).pos = len[s] + t - 1
        BY DEF TokenAt
      <4> QED
        BY <4>1, <4>2
    <3> QED
      BY <3>2, <3>3 DEF WriteAt
  <2> QED
    BY <2>1, <2>2, <2>5, <2>6 DEF s
<1>2. \A w : w \in DecodePools(groups) <=>
        \E b \in 1 .. Len(groups) : \E t \in 1 .. Len(groups[b]) :
          CompletesPool(groups[b][t]) /\ w = Put(b, t)
  BY DEF DecodePools
<1> HIDE DEF Put
<1>3. /\ Len(groups) = Len(reqs)
      /\ \A b \in 1 .. Len(reqs) : Len(groups[b]) = n[reqs[b]]
  BY DEF Rows, IsRow
<1>4. ASSUME NEW w \in DecodePools(groups)
      PROVE  \E s \in DecodeSlots(n) : \E t \in 1 .. n[s] :
               (len[s] + t) % KPool = 0 /\ w = WriteAt(s, t, good)
  <2>1. PICK b \in 1 .. Len(reqs) : \E t \in 1 .. n[reqs[b]] :
               CompletesPool(groups[b][t]) /\ w = Put(b, t)
    BY <1>2, <1>3
  <2>2. PICK t \in 1 .. n[reqs[b]] : CompletesPool(groups[b][t]) /\ w = Put(b, t)
    BY <2>1
  <2> QED
    BY <1>1, <2>2
<1>5. ASSUME NEW s \in DecodeSlots(n), NEW t \in 1 .. n[s], (len[s] + t) % KPool = 0
      PROVE  WriteAt(s, t, good) \in DecodePools(groups)
  <2>1. PICK b \in 1 .. Len(reqs) : reqs[b] = s
    BY DEF Listed
  <2>2. t \in 1 .. n[reqs[b]] /\ CompletesPool(groups[b][t]) /\ Put(b, t) = WriteAt(s, t, good)
    BY <1>1, <1>5, <2>1
  <2> QED
    BY <1>2, <1>3, <2>2
<1> QED
  BY <1>4, <1>5 DEF Wrote

-----------------------------------------------------------------------------
(* KpoolIndexer: a call keeps the invariant.                               *)

\* A rejected draft of slot s is stashed over the pool in progress.
RanOver(s, n, good) ==
  LET m == len[s] + good[s]
  IN \E t \in 1 .. n[s] :
       /\ t > good[s] /\ len[s] + t - 1 >= (m \div KPool + 1) * KPool
       /\ (len[s] + t - 1) % KPool < m % KPool

Effect(n, good) ==
  /\ \E stashed : Stashed(stashed, n, good) /\ ring' = RingAfter(stashed)
  /\ \E written : Wrote(written, Slot, n, good) /\ pool' = PoolAfter(written)
  /\ len' = [s \in Slot |-> len[s] + good[s]]
  /\ overrun' = [s \in Slot |-> overrun'[s]]
  /\ \A s \in Slot :
       /\ overrun[s] \subseteq overrun'[s]
       /\ RanOver(s, n, good) => len'[s] \div KPool \in overrun'[s]
       /\ overrun'[s] \subseteq overrun[s] \cup {len'[s] \div KPool}
  /\ UNCHANGED <<verify, prompt>>

LEMMA WroteBoth ==
  ASSUME NEW n, NEW good, NEW a, NEW b, \A s \in Slot : n[s] \in Nat, verify \in Nat,
         Wrote(a, PrefillSlots(n), n, good), Wrote(b, DecodeSlots(n), n, good)
  PROVE  Wrote(a \cup b, Slot, n, good)
<1>1. \A s \in Slot : \A t \in 1 .. n[s] : s \in PrefillSlots(n) \/ s \in DecodeSlots(n)
  BY DEF PrefillSlots, DecodeSlots
<1>2. PrefillSlots(n) \subseteq Slot /\ DecodeSlots(n) \subseteq Slot
  BY DEF PrefillSlots, DecodeSlots
<1>3. ASSUME NEW w \in a \cup b
      PROVE  \E s \in Slot : \E t \in 1 .. n[s] :
               (len[s] + t) % KPool = 0 /\ w = WriteAt(s, t, good)
  BY <1>2 DEF Wrote
<1>4. ASSUME NEW s \in Slot, NEW t \in 1 .. n[s], (len[s] + t) % KPool = 0
      PROVE  WriteAt(s, t, good) \in a \cup b
  BY <1>1, <1>4 DEF Wrote
<1> QED
  BY <1>3, <1>4 DEF Wrote

LEMMA CallEffect ==
  ASSUME KpoolTypeOK, Chunked, NEW n, NEW good, Called(n, good), NEW flatten,
         IndexBatch(n, good, flatten)
  PROVE  Effect(n, good)
<1> DEFINE reqs == Decodes(n)
           lens == [b \in 1 .. Len(reqs) |-> n[reqs[b]]]
           dec == Flat(reqs, n, good)
           prefills == Prefills(n)
           chunks == [b \in 1 .. Len(prefills) |-> n[prefills[b]]]
           pre == Flat(prefills, n, good)
           stashed == SeededTail(pre) \cup Range(dec)
           decoded == IF dec = <<>> THEN {} ELSE DecodePools(WriteGroups(dec, lens))
           written == PrefillPools(pre) \cup decoded
<1>1. /\ ring' = RingAfter(stashed) /\ pool' = PoolAfter(written)
      /\ len' = [s \in Slot |-> len[s] + good[s]]
      /\ overrun' = [s \in Slot |->
           IF RunOver(s, len'[s], dec)
             THEN overrun[s] \cup {len'[s] \div KPool} ELSE overrun[s]]
      /\ UNCHANGED <<verify, prompt>>
  BY DEF IndexBatch
<1>2. Listed(reqs, lens, dec, DecodeSlots(n), n, good)
  <2>1. reqs = SetToSeq(DecodeSlots(n)) /\ DecodeSlots(n) \in SUBSET Slot
    BY DEF Decodes, DecodeSlots
  <2> QED
    BY <2>1, FlatLists
<1>3. Listed(prefills, chunks, pre, PrefillSlots(n), n, good)
  <2>1. prefills = SetToSeq(PrefillSlots(n)) /\ PrefillSlots(n) \in SUBSET Slot
    BY DEF Prefills, PrefillSlots
  <2> QED
    BY <2>1, FlatLists
<1> HIDE DEF reqs, lens, dec, prefills, chunks, pre
<1>4. Stashed(stashed, n, good)
  BY <1>2, <1>3, StashIs DEF Batched
<1>5. Wrote(PrefillPools(pre), PrefillSlots(n), n, good)
  BY <1>3, PrefillWrites
<1>6. Wrote(decoded, DecodeSlots(n), n, good)
  <2>1. CASE dec # <<>>
    <3>1. Rows(WriteGroups(dec, lens), reqs, n, good)
      BY <1>2, <2>1, WriteGroupsAreRows
    <3>2. Wrote(DecodePools(WriteGroups(dec, lens)), DecodeSlots(n), n, good)
      BY <1>2, <3>1, DecodeWrites
    <3> QED
      BY <2>1, <3>2
  <2>2. CASE dec = <<>>
    <3>1. ASSUME NEW s \in DecodeSlots(n), NEW t \in 1 .. n[s] PROVE FALSE
      <4>1. PICK b \in 1 .. Len(reqs) : reqs[b] = s
        BY <1>2 DEF Listed
      <4>2. Start(lens, b) + t \in 1 .. Len(dec)
        BY <1>2, <4>1 DEF Listed
      <4>3. Len(dec) = 0
        BY <2>2
      <4> QED
        BY <4>2, <4>3
    <3> QED
      BY <2>2, <3>1 DEF Wrote
  <2> QED
    BY <2>1, <2>2
<1>7. Wrote(written, Slot, n, good)
  <2>1. \A s \in Slot : n[s] \in Nat
    BY CallFacts
  <2>2. verify \in Nat
    BY KpoolAssumption DEF KpoolTypeOK
  <2> HIDE DEF decoded
  <2> QED
    BY <1>5, <1>6, <2>1, <2>2, WroteBoth
<1>8. ASSUME NEW s \in Slot, RanOver(s, n, good)
      PROVE  len'[s] \div KPool \in overrun'[s]
  <2> DEFINE m == len[s] + good[s]
  <2>1. PICK t \in 1 .. n[s] :
          /\ t > good[s] /\ len[s] + t - 1 >= (m \div KPool + 1) * KPool
          /\ (len[s] + t - 1) % KPool < m % KPool
    BY <1>8 DEF RanOver
  <2>0. verify \in Nat
    BY KpoolAssumption DEF KpoolTypeOK
  <2>2. n[s] \in Nat /\ good[s] \in Nat /\ t \in Nat /\ ~(n[s] > verify) /\ n[s] # 0
    BY <2>1, CallFacts
  <2>3. s \in DecodeSlots(n)
    BY <2>0, <2>2 DEF DecodeSlots
  <2>4. PICK b \in 1 .. Len(reqs) : reqs[b] = s
    BY <1>2, <2>3 DEF Listed
  <2> DEFINE i == Start(lens, b) + t
  <2>5. i \in 1 .. Len(dec) /\ dec[i] = TokenAt(s, t, good)
    BY <1>2, <2>4 DEF Listed
  <2> HIDE DEF i
  <2>6. dec[i].slot = s /\ dec[i].pos = len[s] + t - 1 /\ dec[i].good = (t <= good[s])
    BY <2>5 DEF TokenAt
  <2>7. ~ dec[i].good
    <3>1. ~(t <= good[s])
      BY <2>1, <2>2
    <3> QED
      BY <2>6, <3>1, Zenon
  <2>8. len'[s] = m
    BY <1>1
  <2>9. RunOver(s, len'[s], dec)
    <3> HIDE DEF m
    <3>1. /\ dec[i].pos >= (m \div KPool + 1) * KPool
          /\ dec[i].pos % KPool < m % KPool
      BY <2>1, <2>6
    <3>2. RunOver(s, m, dec)
      BY <2>5, <2>6, <2>7, <3>1 DEF RunOver
    <3> QED
      BY <2>8, <3>2
  <2> QED
    BY <1>1, <2>9
<1>9. overrun' = [s \in Slot |-> overrun'[s]]
      /\ \A s \in Slot : /\ overrun[s] \subseteq overrun'[s]
                         /\ overrun'[s] \subseteq overrun[s] \cup {len'[s] \div KPool}
  BY <1>1
<1> QED
  BY <1>1, <1>4, <1>7, <1>8, <1>9 DEF Effect

\* The entry of the ring that a call leaves at an offset of the pool in progress.
LEMMA StashedTokens ==
  ASSUME KpoolTypeOK, Chunked, NEW n, NEW good, Called(n, good),
         NEW stashed, Stashed(stashed, n, good), NEW s \in Slot, NEW tok \in stashed,
         tok.slot = s
  PROVE  \E t \in 1 .. n[s] :
           /\ tok = TokenAt(s, t, good) /\ tok.pos = len[s] + t - 1 /\ tok \in Token
           /\ t \in Nat \ {0} /\ tok.pos \in Nat /\ tok.pos < MaxLen
<1>1. PICK x \in Slot : \E t \in 1 .. n[x] : tok = TokenAt(x, t, good)
  BY DEF Stashed
<1>2. PICK t \in 1 .. n[x] : tok = TokenAt(x, t, good)
  BY <1>1
<1>3. x = s /\ tok.pos = len[x] + t - 1
  BY <1>2 DEF TokenAt
<1>4. t \in Nat \ {0} /\ t <= n[s] /\ len[s] \in Nat /\ len[s] + n[s] <= MaxLen /\ n[s] \in Nat
      /\ MaxLen \in Nat
  BY <1>3, CallFacts, KpoolAssumption
<1>5. tok.pos \in Nat /\ tok.pos < MaxLen
  BY <1>3, <1>4
<1>6. tok \in Token
  BY <1>2, <1>3, TokenTypes
<1> QED
  BY <1>2, <1>3, <1>4, <1>5, <1>6

LEMMA LatestExists ==
  ASSUME NEW m \in Nat, NEW here, here # {},
         \A tok \in here : tok.pos \in Nat /\ tok.pos < m
  PROVE  \E tok \in here : \A other \in here : other.pos <= tok.pos
<1> DEFINE T == {m - tok.pos : tok \in here}
<1>1. T \in SUBSET Nat /\ T # {}
  OBVIOUS
<1>2. PICK d \in T : \A e \in T : d <= e
  BY <1>1, LeastNatural
<1>3. PICK tok \in here : d = m - tok.pos
  BY <1>2
<1>4. \A other \in here : m - tok.pos <= m - other.pos
  BY <1>2, <1>3
<1>5. \A other \in here : other.pos <= tok.pos
  BY <1>4
<1> QED
  BY <1>5

LEMMA RingTypes ==
  ASSUME KpoolTypeOK, Chunked, NEW n, NEW good, Called(n, good),
         NEW stashed, Stashed(stashed, n, good)
  PROVE  RingAfter(stashed) \in [Slot -> [Offset -> Token]]
<1> SUFFICES ASSUME NEW s \in Slot, NEW o \in Offset
             PROVE  RingAfter(stashed)[s][o] \in Token
  BY DEF RingAfter
<1> DEFINE here == {tok \in stashed : tok.slot = s /\ tok.pos % KPool = o}
<1>1. RingAfter(stashed)[s][o]
        = IF here = {} THEN ring[s][o]
          ELSE CHOOSE tok \in here : \A other \in here : other.pos <= tok.pos
  BY DEF RingAfter
<1>2. \A tok \in here : tok.pos \in Nat /\ tok.pos < MaxLen /\ tok \in Token
  BY StashedTokens
<1> HIDE DEF here
<1>3. CASE here = {}
  BY <1>1, <1>3 DEF KpoolTypeOK
<1>4. CASE here # {}
  <2>1. \E tok \in here : \A other \in here : other.pos <= tok.pos
    BY <1>2, <1>4, LatestExists, KpoolAssumption
  <2> QED
    BY <1>1, <1>2, <1>4, <2>1
<1> QED
  BY <1>3, <1>4

\* The ring holds the pool in progress after a call too: a token stashed over it
\* is a rejected draft's.
LEMMA RingStep ==
  ASSUME KpoolTypeOK, Chunked, TailHeld, NEW n, NEW good, Called(n, good), Effect(n, good)
  PROVE  TailHeld'
<1>1. PICK stashed : Stashed(stashed, n, good) /\ ring' = RingAfter(stashed)
  BY DEF Effect
<1> SUFFICES ASSUME NEW s \in Slot, len'[s] \div KPool \notin overrun'[s],
                    NEW o \in 0 .. (len'[s] % KPool) - 1
             PROVE  ring'[s][o] = Committed(s, (len'[s] \div KPool) * KPool + o)
  BY DEF TailHeld
<1> DEFINE l == len[s]
           a == n[s]
           g == good[s]
           m == l + g
           j == m \div KPool
           q == j * KPool
           p == q + o
           here == {tok \in stashed : tok.slot = s /\ tok.pos % KPool = o}
<1>2. /\ l \in Nat /\ a \in Nat /\ g \in 0 .. a /\ m \in Nat
      /\ (a > verify => g = a) /\ verify \in Nat /\ KPool \in Nat \ {0}
  <2>1. l \in Nat /\ a \in Nat /\ g \in 0 .. a /\ (a > verify => g = a)
    BY CallFacts
  <2>2. verify \in Nat /\ KPool \in Nat \ {0}
    BY KpoolAssumption DEF KpoolTypeOK
  <2> QED
    BY <2>1, <2>2
<1>3. len'[s] = m
  BY DEF Effect
<1>4. j \in Nat /\ q \in Nat /\ m = q + (m % KPool) /\ (m % KPool) \in 0 .. KPool - 1
      /\ (j + 1) * KPool = q + KPool
  BY <1>2, DivMod, PoolEnds
<1>5. o \in 0 .. KPool - 1 /\ o < m % KPool /\ o \in Nat
  <2> HIDE DEF m
  <2>1. o \in 0 .. (m % KPool) - 1
    BY <1>3
  <2> QED
    BY <1>2, <1>4, <2>1
<1>6. p \in Nat /\ p % KPool = o /\ p \div KPool = j
  BY <1>2, <1>4, <1>5, PoolOf
<1>7. ring'[s][o] = IF here = {} THEN ring[s][o]
                    ELSE CHOOSE tok \in here : \A other \in here : other.pos <= tok.pos
  BY <1>1, <1>5 DEF RingAfter, Offset
<1>8. ~RanOver(s, n, good)
  BY DEF Effect
<1>9. \A tok \in here : tok \in stashed /\ tok.slot = s /\ tok.pos % KPool = o
  OBVIOUS
<1>10. \A tok \in stashed : tok.slot = s /\ tok.pos % KPool = o => tok \in here
  OBVIOUS
<1>r. \A t \in 1 .. a :
        ~(t > g /\ l + t - 1 >= (j + 1) * KPool /\ (l + t - 1) % KPool < m % KPool)
  BY <1>8, Zenon DEF RanOver
<1>b. p < m /\ m < q + KPool
  <2> HIDE DEF q, m
  <2> QED
    BY <1>2, <1>4, <1>5
<1> HIDE DEF l, a, g, j, q, here
<1>11. \A tok \in here : tok.pos \in Nat /\ tok.pos <= p
  <2> SUFFICES ASSUME NEW tok \in here, p < tok.pos PROVE FALSE
    <3>1. \A tok \in here : tok.pos \in Nat
      BY <1>1, <1>9, StashedTokens
    <3> QED
      BY <1>6, <3>1
  <2>1. PICK t \in 1 .. a : tok.pos = l + t - 1 /\ t \in Nat \ {0} /\ tok.pos \in Nat
    BY <1>1, <1>9, StashedTokens DEF a, l
  <2>2. tok.pos % KPool = o
    BY <1>9
  <2>3. p + KPool <= tok.pos
    BY <1>2, <1>6, <2>1, <2>2, PoolApart
  <2>4. tok.pos >= q + KPool
    BY <1>2, <1>4, <1>5, <2>1, <2>3
  <2>5. tok.pos >= (j + 1) * KPool
    BY <1>4, <2>4
  <2>6. t > g
    <3> HIDE DEF p
    <3> QED
      BY <1>2, <1>4, <1>b, <2>1, <2>4
  <2>7. (l + t - 1) % KPool < m % KPool
    BY <1>5, <2>1, <2>2
  <2> QED
    BY <1>r, <2>1, <2>5, <2>6, <2>7
<1>12. CASE p >= l
  <2> DEFINE t == p - l + 1
  <2>0. p \in Nat /\ p < m /\ m < q + KPool /\ p + KPool = q + o + KPool
    BY <1>2, <1>4, <1>5, <1>6, <1>b
  <2> HIDE DEF p
  <2>1. t \in 1 .. a /\ t <= g /\ l + t - 1 = p
    BY <1>2, <1>12, <2>0
  <2>2. t + KPool > a \/ a <= verify
    <3> SUFFICES ASSUME a > verify PROVE t + KPool > a
      BY <1>2
    <3>1. m = l + a
      BY <1>2
    <3> QED
      BY <1>2, <1>4, <1>5, <2>0, <3>1
  <2>3. TokenAt(s, t, good) \in stashed
    BY <1>1, <2>1, <2>2 DEF Stashed, a
  <2>4. TokenAt(s, t, good).slot = s /\ TokenAt(s, t, good).pos = p
    BY <2>1 DEF TokenAt, l
  <2>5. TokenAt(s, t, good) \in here
    BY <1>6, <1>10, <2>3, <2>4
  <2>6. PICK x \in here : /\ \A other \in here : other.pos <= x.pos
                          /\ ring'[s][o] = x
    <3>1. \E tok \in here : \A other \in here : other.pos <= tok.pos
      BY <1>11, <2>4, <2>5
    <3> QED
      BY <1>7, <2>5, <3>1
  <2>7. x.pos = p
    BY <1>6, <1>11, <2>0, <2>4, <2>5, <2>6
  <2>8. PICK u \in 1 .. a : x = TokenAt(s, u, good) /\ x.pos = l + u - 1
    BY <1>1, <1>9, StashedTokens DEF a, l
  <2>9. u = t
    BY <1>2, <2>0, <2>1, <2>7, <2>8
  <2>10. TokenAt(s, t, good) = Committed(s, p)
    <3>1. len[s] + t - 1 = p /\ (t <= good[s]) = TRUE
      BY <2>1 DEF l, g
    <3> HIDE DEF t
    <3> QED
      BY <3>1, Zenon DEF TokenAt, Committed
  <2> QED
    BY <1>3, <2>6, <2>8, <2>9, <2>10 DEF p, q, j
<1>13. CASE ~(p >= l)
  <2>1. here = {}
    <3> SUFFICES ASSUME NEW tok \in here PROVE FALSE
      OBVIOUS
    <3>1. PICK t \in 1 .. a : tok.pos = l + t - 1
      BY <1>1, <1>9, StashedTokens DEF a, l
    <3> QED
      BY <1>2, <1>6, <1>11, <1>13, <3>1
  <2>2. l \div KPool = j
    <3>1. l \div KPool \in Nat
      BY <1>2, DivMod
    <3>2. p \div KPool <= l \div KPool
      BY <1>2, <1>6, <1>13, DivGrows
    <3>3. l \div KPool <= m \div KPool
      BY <1>2, DivGrows
    <3>4. m \div KPool = j
      BY DEF j, l, g
    <3> HIDE DEF p, m
    <3> QED
      BY <1>4, <1>6, <3>1, <3>2, <3>3, <3>4
  <2>3. l = q + (l % KPool) /\ (l % KPool) \in 0 .. KPool - 1
    <3>1. l = (l \div KPool) * KPool + (l % KPool)
      BY <1>2, PoolEnds
    <3> QED
      BY <1>2, <2>2, <3>1, DivMod DEF q
  <2>4. o \in 0 .. (l % KPool) - 1
    BY <1>2, <1>4, <1>5, <1>13, <2>3
  <2>5. j \notin overrun[s]
    BY <1>3 DEF Effect, j, l, g
  <2>6. ring[s][o] = Committed(s, (len[s] \div KPool) * KPool + o)
    BY <2>2, <2>4, <2>5 DEF TailHeld, l
  <2> QED
    BY <1>3, <1>7, <2>1, <2>2, <2>6 DEF l, g, j
<1> QED
  BY <1>12, <1>13

\* The key of a pool whose tokens are all committed: from the call, the accepted
\* ones, from the ring, those of the pool in progress.
LEMMA KeyKept ==
  ASSUME KpoolTypeOK, Chunked, TailHeld, NEW n, NEW good, Called(n, good),
         NEW s \in Slot, NEW t \in 1 .. good[s], (len[s] + t) % KPool = 0,
         NEW j \in Nat, j = (len[s] + t - 1) \div KPool, j \notin overrun[s]
  PROVE  KeyAt(s, t, good) = [o \in Offset |-> Committed(s, j * KPool + o)]
<1> DEFINE l == len[s]
           g == good[s]
           q == j * KPool
<1>1. l \in Nat /\ g \in Nat /\ t \in Nat \ {0} /\ t <= g /\ KPool \in Nat \ {0}
  BY CallFacts, KpoolAssumption
<1>2. q \in Nat /\ q + KPool = l + t
  <2>1. q + KPool = l + t
    BY <1>1, PoolAtEnd
  <2>2. q \in Nat
    BY <1>1
  <2> QED
    BY <2>1, <2>2
<1> SUFFICES ASSUME NEW o \in Offset
             PROVE  KeyAt(s, t, good)[o] = Committed(s, q + o)
  BY DEF KeyAt
<1> DEFINE p == q + o
           u == p - l + 1
<1>3. KeyAt(s, t, good)[o] = IF p >= l THEN TokenAt(s, u, good) ELSE ring[s][o]
  BY DEF KeyAt
<1>4. o \in 0 .. KPool - 1 /\ p \in Nat /\ p % KPool = o /\ p \div KPool = j
  <2>1. o \in 0 .. KPool - 1
    BY DEF Offset
  <2> QED
    BY <1>1, <2>1, PoolOf
<1>d. (l \div KPool) \in Nat /\ l \div KPool <= j
  <2>1. l <= l + t - 1 /\ l + t - 1 \in Nat
    BY <1>1
  <2> QED
    BY <1>1, <2>1, DivGrows, DivMod
<1>h. \A i \in 0 .. (l % KPool) - 1 :
        l \div KPool = j => ring[s][i] = Committed(s, q + i)
  BY DEF TailHeld
<1> HIDE DEF q
<1>5. CASE p >= l
  <2>0. p \in Nat /\ l \in Nat /\ g \in Nat /\ p < l + t /\ t <= g /\ t \in Nat
    <3>1. p < q + KPool /\ p \in Nat
      <4>1. o \in 0 .. KPool - 1
        BY <1>4
      <4> QED
        BY <1>1, <1>2, <4>1
    <3> HIDE DEF p
    <3> QED
      BY <1>1, <1>2, <3>1
  <2> HIDE DEF p, l, g
  <2>1. l + u - 1 = p
    BY <2>0
  <2>2. u <= g
    BY <2>0
  <2> HIDE DEF u
  <2>3. TokenAt(s, u, good) = Committed(s, p)
    <3>1. (u <= good[s]) = TRUE /\ len[s] + u - 1 = p
      BY <2>1, <2>2 DEF g, l
    <3> QED
      BY <3>1, Zenon DEF TokenAt, Committed
  <2> QED
    BY <1>3, <1>5, <2>3 DEF p
<1>6. CASE ~(p >= l)
  <2> HIDE DEF l
  <2>1. p \div KPool <= l \div KPool
    BY <1>1, <1>4, <1>6, DivGrows
  <2>2. l \div KPool = j
    BY <1>4, <1>d, <2>1
  <2>3. l = q + (l % KPool) /\ (l % KPool) \in 0 .. KPool - 1
    <3>1. l = (l \div KPool) * KPool + (l % KPool)
      BY <1>1, PoolEnds
    <3> QED
      BY <1>1, <2>2, <3>1, DivMod DEF q
  <2>4. o \in 0 .. (l % KPool) - 1
    BY <1>1, <1>2, <1>4, <1>6, <2>3
  <2> QED
    BY <1>3, <1>6, <1>h, <2>2, <2>4
<1> QED
  BY <1>5, <1>6

LEMMA KeyTypes ==
  ASSUME KpoolTypeOK, Chunked, NEW n, NEW good, Called(n, good),
         NEW s \in Slot, NEW t \in 1 .. n[s], (len[s] + t) % KPool = 0
  PROVE  KeyAt(s, t, good) \in [Offset -> Token]
<1> DEFINE l == len[s]
           j == (l + t - 1) \div KPool
           q == j * KPool
<1>1. l \in Nat /\ n[s] \in Nat /\ t \in Nat \ {0} /\ t <= n[s] /\ KPool \in Nat \ {0}
  BY CallFacts, KpoolAssumption
<1>2. q \in Nat /\ q + KPool = l + t
  <2>1. q + KPool = l + t /\ j \in Nat
    BY <1>1, PoolAtEnd
  <2> HIDE DEF j
  <2>2. q \in Nat
    BY <1>1, <2>1
  <2> QED
    BY <2>1, <2>2
<1> SUFFICES ASSUME NEW o \in Offset PROVE KeyAt(s, t, good)[o] \in Token
  BY DEF KeyAt
<1> DEFINE p == q + o
           u == p - l + 1
<1>3. KeyAt(s, t, good)[o] = IF p >= l THEN TokenAt(s, u, good) ELSE ring[s][o]
  BY DEF KeyAt
<1>4. o \in 0 .. KPool - 1 /\ ring[s][o] \in Token
  BY DEF Offset, KpoolTypeOK
<1> HIDE DEF q
<1>5. ASSUME p >= l PROVE TokenAt(s, u, good) \in Token
  <2>1. u \in 1 .. n[s]
    BY <1>1, <1>2, <1>4, <1>5
  <2> HIDE DEF u
  <2> QED
    BY <2>1, TokenTypes
<1> QED
  BY <1>3, <1>4, <1>5

LEMMA PoolTypes ==
  ASSUME KpoolTypeOK, Chunked, NEW n, NEW good, Called(n, good),
         NEW written, Wrote(written, Slot, n, good)
  PROVE  PoolAfter(written) \in [Slot -> [Pool -> [Offset -> Token]]]
<1> SUFFICES ASSUME NEW s \in Slot, NEW j \in Pool
             PROVE  PoolAfter(written)[s][j] \in [Offset -> Token]
  BY DEF PoolAfter
<1> DEFINE here == {w \in written : w.slot = s /\ w.pool = j}
<1>1. PoolAfter(written)[s][j] = IF here = {} THEN pool[s][j] ELSE (CHOOSE w \in here : TRUE).key
  BY DEF PoolAfter
<1>2. pool[s][j] \in [Offset -> Token]
  BY DEF KpoolTypeOK
<1>3. ASSUME NEW w \in here PROVE w.key \in [Offset -> Token]
  <2>x. PICK x \in Slot : \E t \in 1 .. n[x] :
          (len[x] + t) % KPool = 0 /\ w = WriteAt(x, t, good)
    BY DEF Wrote
  <2>1. PICK t \in 1 .. n[x] : (len[x] + t) % KPool = 0 /\ w = WriteAt(x, t, good)
    BY <2>x
  <2>2. w.key = KeyAt(x, t, good)
    BY <2>1 DEF WriteAt
  <2> QED
    BY <2>1, <2>2, KeyTypes
<1> HIDE DEF here
<1> QED
  BY <1>1, <1>2, <1>3

LEMMA SamePool ==
  ASSUME NEW m \in Nat \ {0}, NEW a \in Nat, NEW b \in Nat, a * m + m = b * m + m
  PROVE  a = b
<1>1. a * m = b * m
  OBVIOUS
<1>2. (a * m + 0) \div m = a /\ (b * m + 0) \div m = b
  BY PoolOf
<1>3. a * m + 0 = b * m + 0
  BY <1>1
<1> QED
  BY <1>2, <1>3, Zenon

\* A complete pool that is not run over has its own tokens after a call too.
LEMMA PoolStep ==
  ASSUME KpoolTypeOK, Chunked, TailHeld, PoolsAreOwn, NEW n, NEW good, Called(n, good),
         Effect(n, good)
  PROVE  PoolsAreOwn'
<1>1. PICK written : Wrote(written, Slot, n, good) /\ pool' = PoolAfter(written)
  BY DEF Effect
<1> SUFFICES ASSUME NEW s \in Slot, NEW j \in Pool,
                    (j + 1) * KPool <= len'[s], j \notin overrun'[s]
             PROVE  pool'[s][j] = [o \in Offset |-> Committed(s, j * KPool + o)]
  BY DEF PoolsAreOwn
<1> DEFINE l == len[s]
           g == good[s]
           q == j * KPool
           here == {w \in written : w.slot = s /\ w.pool = j}
<1>2. l \in Nat /\ g \in 0 .. n[s] /\ n[s] \in Nat /\ KPool \in Nat \ {0} /\ len'[s] = l + g
  BY CallFacts, KpoolAssumption DEF Effect
<1>3. j \in Nat /\ q \in Nat /\ (j + 1) * KPool = q + KPool /\ q + KPool <= l + g
  <2>1. j \in Nat
    BY DEF Pool
  <2>2. q \in Nat /\ (j + 1) * KPool = q + KPool
    BY <1>2, <2>1
  <2> HIDE DEF q
  <2> QED
    BY <1>2, <2>1, <2>2
<1>4. j \notin overrun[s]
  BY DEF Effect
<1>5. pool'[s][j] = IF here = {} THEN pool[s][j] ELSE (CHOOSE w \in here : TRUE).key
  BY <1>1 DEF PoolAfter
<1>6. \A w \in here : w \in written /\ w.slot = s /\ w.pool = j
  OBVIOUS
<1>7. \A w \in written : w.slot = s /\ w.pool = j => w \in here
  OBVIOUS
<1>o. (j + 1) * KPool <= l => pool[s][j] = [o \in Offset |-> Committed(s, j * KPool + o)]
  BY <1>4 DEF PoolsAreOwn
<1> HIDE DEF here
<1>8. ASSUME NEW w \in here
      PROVE  \E t \in 1 .. n[s] : /\ w = WriteAt(s, t, good) /\ q + KPool = l + t
                                  /\ t \in Nat \ {0}
  <2>x. PICK x \in Slot : \E t \in 1 .. n[x] :
          (len[x] + t) % KPool = 0 /\ w = WriteAt(x, t, good)
    BY <1>1, <1>6 DEF Wrote
  <2>1. PICK t \in 1 .. n[x] : (len[x] + t) % KPool = 0 /\ w = WriteAt(x, t, good)
    BY <2>x
  <2>2. x = s /\ j = (len[x] + t - 1) \div KPool
    BY <1>6, <2>1 DEF WriteAt
  <2>3. t \in 1 .. n[s] /\ t \in Nat \ {0} /\ (l + t) % KPool = 0
        /\ j = (l + t - 1) \div KPool
    BY <1>2, <2>1, <2>2
  <2>4. q + KPool = l + t
    BY <1>2, <2>3, PoolAtEnd
  <2> QED
    BY <2>1, <2>2, <2>3, <2>4
<1>9. CASE q + KPool <= l
  <2>1. here = {}
    <3> HIDE DEF q, l
    <3> QED
      BY <1>2, <1>8, <1>9
  <2>2. (j + 1) * KPool <= l
    BY <1>3, <1>9
  <2> QED
    BY <1>5, <1>o, <2>1, <2>2
<1>10. CASE ~(q + KPool <= l)
  <2> DEFINE t == q + KPool - l
  <2> HIDE DEF l, q
  <2>1. t \in 1 .. g /\ t \in 1 .. n[s] /\ l + t = q + KPool /\ t \in Nat \ {0}
    BY <1>2, <1>3, <1>10
  <2> HIDE DEF t
  <2>2. (l + t) % KPool = 0
    <3>1. ((j + 1) * KPool + 0) % KPool = 0
      <4>1. j + 1 \in Nat /\ 0 \in 0 .. KPool - 1
        BY <1>2, <1>3
      <4> QED
        BY <1>2, <4>1, PoolOf
    <3>2. (j + 1) * KPool + 0 = l + t
      BY <1>2, <1>3, <2>1
    <3> QED
      BY <3>1, <3>2
  <2>3. j = (l + t - 1) \div KPool
    <3> DEFINE i == (l + t - 1) \div KPool
    <3>1. i \in Nat /\ i * KPool + KPool = l + t
      BY <1>2, <2>1, <2>2, PoolAtEnd
    <3> HIDE DEF i
    <3>2. i * KPool + KPool = j * KPool + KPool
      BY <2>1, <3>1 DEF q
    <3>3. i = j
      BY <1>2, <1>3, <3>1, <3>2, SamePool
    <3> QED
      BY <3>3 DEF i
  <2>4. WriteAt(s, t, good) \in here
    <3>1. WriteAt(s, t, good) \in written
      BY <1>1, <2>1, <2>2 DEF Wrote, l
    <3>2. WriteAt(s, t, good).slot = s /\ WriteAt(s, t, good).pool = j
      BY <2>3 DEF WriteAt, l
    <3> QED
      BY <1>7, <3>1, <3>2
  <2>5. \A w \in here : w = WriteAt(s, t, good)
    <3> TAKE w \in here
    <3>1. PICK u \in 1 .. n[s] : /\ w = WriteAt(s, u, good) /\ q + KPool = l + u
                                 /\ u \in Nat \ {0}
      BY <1>8
    <3>2. u = t
      BY <1>2, <2>1, <3>1
    <3> QED
      BY <3>1, <3>2
  <2>6. pool'[s][j] = KeyAt(s, t, good)
    <3>1. (CHOOSE w \in here : TRUE) = WriteAt(s, t, good)
      BY <2>4, <2>5
    <3>2. WriteAt(s, t, good).key = KeyAt(s, t, good)
      BY DEF WriteAt
    <3> QED
      BY <1>5, <2>4, <3>1, <3>2
  <2>7. KeyAt(s, t, good) = [o \in Offset |-> Committed(s, j * KPool + o)]
    <3>1. t \in 1 .. good[s] /\ (len[s] + t) % KPool = 0
          /\ j = (len[s] + t - 1) \div KPool
      BY <2>1, <2>2, <2>3 DEF g, l
    <3> QED
      BY <1>3, <1>4, <3>1, KeyKept
  <2> QED
    BY <2>6, <2>7
<1> QED
  BY <1>9, <1>10

LEMMA ChunksStep ==
  ASSUME KpoolTypeOK, Chunked, NEW n, NEW good, Called(n, good), Effect(n, good)
  PROVE  Chunked'
<1> SUFFICES ASSUME NEW s \in Slot
             PROVE  /\ len'[s] < prompt[s] => len'[s] % KPool = 0
                    /\ prompt[s] = 0 => len'[s] = 0
  BY DEF Chunked, Effect
<1>1. len'[s] = len[s] + good[s]
  BY DEF Effect
<1>2. len[s] + good[s] < prompt[s] => (len[s] + good[s]) % KPool = 0
  BY CallFacts
<1>3. ASSUME prompt[s] = 0 PROVE len[s] + good[s] = 0
  <2>1. n[s] = 0 /\ good[s] = 0 /\ len[s] = 0
    BY <1>3, CallFacts DEF Chunked
  <2> QED
    BY <2>1
<1> QED
  BY <1>1, <1>2, <1>3

LEMMA TypesOfCall ==
  ASSUME KpoolTypeOK, Chunked, NEW n, NEW good, Called(n, good), Effect(n, good),
         grid' \in 0 .. NumSlots * MaxVerify
  PROVE  KpoolTypeOK'
<1>1. \A s \in Slot : /\ len[s] + good[s] \in 0 .. MaxLen
                      /\ (len[s] + good[s]) \div KPool \in 0 .. MaxLen \div KPool
  <2> TAKE s \in Slot
  <2>1. len[s] + good[s] \in 0 .. MaxLen /\ MaxLen \in Nat /\ KPool \in Nat \ {0}
    <3>1. len[s] \in Nat /\ n[s] \in Nat /\ good[s] \in 0 .. n[s] /\ len[s] + n[s] <= MaxLen
          /\ MaxLen \in Nat /\ KPool \in Nat \ {0}
      BY CallFacts, KpoolAssumption
    <3> QED
      BY <3>1
  <2> DEFINE m == len[s] + good[s]
  <2> HIDE DEF m
  <2>2. m \in Nat /\ m <= MaxLen
    BY <2>1 DEF m
  <2>3. m \div KPool \in Nat /\ MaxLen \div KPool \in Nat /\ m \div KPool <= MaxLen \div KPool
    BY <2>1, <2>2, DivGrows, DivMod
  <2> QED
    BY <2>1, <2>3 DEF m
<1>2. len' \in [Slot -> 0 .. MaxLen]
  BY <1>1 DEF Effect
<1>3. overrun' \in [Slot -> SUBSET (0 .. MaxLen \div KPool)]
  <2>1. \A s \in Slot : overrun'[s] \subseteq overrun[s] \cup {(len[s] + good[s]) \div KPool}
    BY DEF Effect
  <2>2. \A s \in Slot : overrun'[s] \in SUBSET (0 .. MaxLen \div KPool)
    BY <1>1, <2>1 DEF KpoolTypeOK
  <2>3. overrun' = [s \in Slot |-> overrun'[s]]
    BY DEF Effect
  <2> QED
    BY <2>2, <2>3
<1>4. ring' \in [Slot -> [Offset -> Token]]
  BY RingTypes DEF Effect
<1>5. pool' \in [Slot -> [Pool -> [Offset -> Token]]]
  BY PoolTypes DEF Effect
<1>6. verify' \in 1 .. MaxVerify /\ prompt' \in [Slot -> 0 .. MaxLen]
  BY DEF Effect, KpoolTypeOK
<1> QED
  BY <1>2, <1>3, <1>4, <1>5, <1>6 DEF KpoolTypeOK

-----------------------------------------------------------------------------
(* KpoolIndexer: the rows of a call.                                       *)

Shape(dec, lens, flatten) == IF flatten THEN [i \in 1 .. Len(dec) |-> 1] ELSE lens

\* The decode row of the t-th token of entry b of the shape.
RowPut(dec, flat, lens, flatten, b, t) ==
  LET padded == ~flatten /\ ~Uniform(lens)
      shape == Shape(dec, lens, flatten)
      n == Longest(shape)
      tok == dec[Start(shape, b) + t]
  IN Row(tok, (tok.pos + 1) \div KPool, SeqLens(flat, shape, n, padded)[(b - 1) * n + t], FALSE)

LEMMA RowsOfDecodes ==
  ASSUME NEW dec, NEW flat, NEW lens, NEW flatten \in BOOLEAN,
         NEW row \in DecodeRows(dec, flat, lens, flatten)
  PROVE  \E b \in 1 .. Len(Shape(dec, lens, flatten)) :
           \E t \in 1 .. Shape(dec, lens, flatten)[b] :
             row = RowPut(dec, flat, lens, flatten, b, t)
<1>1. PICK b \in 1 .. Len(Shape(dec, lens, flatten)) :
         row \in {RowPut(dec, flat, lens, flatten, b, t) :
                    t \in 1 .. Shape(dec, lens, flatten)[b]}
  BY DEF DecodeRows, Shape, RowPut
<1>2. PICK t \in 1 .. Shape(dec, lens, flatten)[b] : row = RowPut(dec, flat, lens, flatten, b, t)
  BY <1>1
<1> QED
  BY <1>2

\* The length that a decode row is given is that of its own token.
LEMMA RowLengths ==
  ASSUME KpoolTypeOK, Chunked, NEW n, NEW good, Called(n, good), NEW reqs, NEW lens, NEW dec,
         Listed(reqs, lens, dec, DecodeSlots(n), n, good), dec # <<>>,
         NEW pre \in Seq(Token), NEW flatten \in BOOLEAN,
         NEW b \in 1 .. Len(Shape(dec, lens, flatten)),
         NEW t \in 1 .. Shape(dec, lens, flatten)[b]
  PROVE  LET shape == Shape(dec, lens, flatten)
             x == Longest(shape)
             padded == ~flatten /\ ~Uniform(lens)
             i == Start(shape, b) + t
         IN  /\ i \in 1 .. Len(dec)
             /\ SeqLens(dec \o pre, shape, x, padded)[(b - 1) * x + t] = dec[i].pos + 1
<1> DEFINE flat == dec \o pre
<1>1. dec \in Seq(Token) /\ Len(dec) \in Nat \ {0}
  <2>1. dec \in Seq(Token)
    BY DEF Listed
  <2> QED
    BY <2>1, EmptySeq
<1>2. flat \in Seq(Token) /\ \A i \in 1 .. Len(dec) : flat[i] = dec[i] /\ flat[i] \in Token
  BY <1>1, ConcatProperties
<1> HIDE DEF flat
<1>3. CASE flatten
  <2> DEFINE shape == [i \in 1 .. Len(dec) |-> 1]
  <2>1. Shape(dec, lens, flatten) = shape
    BY <1>3 DEF Shape
  <2>2. Len(shape) = Len(dec) /\ DOMAIN shape = 1 .. Len(dec) /\ \A c \in 1 .. Len(dec) : shape[c] = 1
    BY <1>1
  <2>3. b \in 1 .. Len(dec) /\ t = 1
    <3>1. b \in 1 .. Len(dec)
      BY <2>1, <2>2
    <3>2. t \in 1 .. 1
      BY <2>1, <2>2, <3>1
    <3> QED
      BY <3>1, <3>2
  <2> HIDE DEF shape
  <2>4. Longest(shape) = 1
    <3>1. Longest(shape) \in 1 .. 1
      <4>1. 1 \in Nat /\ \A c \in 1 .. Len(shape) : shape[c] \in 1 .. 1
        BY <2>2
      <4> QED
        BY <1>1, <2>2, <4>1, LongestIs
    <3> QED
      BY <3>1
  <2>5. Start(shape, b) = b - 1
    <3>1. 1 \in Nat /\ b \in 1 .. Len(shape) + 1
          /\ \A c \in 1 .. Len(shape) : shape[c] \in 0 .. 1 /\ shape[c] = 1
      BY <1>1, <2>2, <2>3
    <3>2. Start(shape, b) = (b - 1) * 1
      BY <1>1, <2>2, <3>1, StartsWithin
    <3> QED
      BY <2>3, <3>2
  <2>6. Start(shape, b) + t = b /\ (b - 1) * 1 + t = b
    BY <1>1, <2>3, <2>5
  <2>7. SeqLens(flat, shape, 1, FALSE)[b] = flat[b].pos + 1
    <3>1. SeqLens(flat, shape, 1, FALSE) = [r \in 1 .. Len(shape) * 1 |-> flat[r].pos + 1]
      BY DEF SeqLens
    <3>2. Len(shape) * 1 = Len(dec)
      <4>1. \A i \in Nat : i * 1 = i
        OBVIOUS
      <4> QED
        BY <1>1, <2>2, <4>1, Zenon
    <3> QED
      BY <2>3, <3>1, <3>2
  <2> QED
    BY <1>2, <1>3, <2>1, <2>3, <2>4, <2>6, <2>7 DEF flat
<1>4. CASE ~flatten
  <2> DEFINE x == Longest(lens)
             k == Len(lens)
             a == Start(lens, b)
             r == (b - 1) * x + t
  <2>1. Shape(dec, lens, flatten) = lens
    BY <1>4 DEF Shape
  <2>2. b \in 1 .. k /\ t \in 1 .. lens[b]
    BY <2>1
  <2>3. /\ k \in Nat /\ k \in 1 .. NumSlots /\ NumSlots \in Nat
        /\ x \in 1 .. verify /\ verify \in Nat /\ lens[b] \in 1 .. verify
        /\ lens[b] <= x /\ lens[b] = n[reqs[b]] /\ k = Len(reqs)
    <3>1. NumSlots \in Nat /\ verify \in Nat /\ Len(lens) = Len(reqs)
      BY KpoolAssumption DEF Listed, KpoolTypeOK
    <3>2. k \in 1 .. NumSlots /\ x \in 1 .. verify
      BY DecodeLengths
    <3>3. lens[b] \in 1 .. verify /\ lens[b] = n[reqs[b]] /\ lens[b] <= x
      BY <2>2, DecodeLengths
    <3> QED
      BY <3>1, <3>2, <3>3
  <2>4. a \in Nat /\ \A u \in 1 .. lens[b] : a + u \in 1 .. Len(dec)
    BY <2>2, <2>3 DEF Listed
  <2>u. Uniform(lens) => Len(dec) = k * x /\ a = (b - 1) * x
    BY <2>2, DecodeLengths, Zenon
  <2> HIDE DEF k, a, x
  <2>5. x \in Nat \ {0} /\ t \in 1 .. x /\ lens[b] \in Nat
    BY <2>2, <2>3
  <2>6. r \in 1 .. k * x
    <3>1. b - 1 \in Nat /\ x * (b - 1) \in Nat /\ (b - 1) * x = x * (b - 1)
      BY <2>2, <2>3, <2>5
    <3>2. x * b <= x * k /\ x * b = x * (b - 1) + x /\ x * k = k * x
      <4>1. b \in Nat /\ b <= k
        BY <2>2, <2>3
      <4>2. x * b <= x * k
        BY <2>3, <2>5, <4>1, Grows
      <4>3. x * b = x * (b - 1) + x
        BY <2>5, <4>1
      <4>4. x * k = k * x
        BY <2>3, <2>5
      <4> QED
        BY <4>2, <4>3, <4>4
    <3> DEFINE y == x * (b - 1)
               z == k * x
    <3>3. y \in Nat /\ y + x <= z /\ r = y + t /\ z \in Int
      <4>1. z \in Int
        BY <2>3, <2>5
      <4> QED
        BY <3>1, <3>2, <4>1
    <3> HIDE DEF y, z, r
    <3>4. r \in 1 .. z
      BY <2>5, <3>3
    <3> QED
      BY <3>4 DEF z
  <2>7. a + t \in 1 .. Len(dec)
    BY <2>2, <2>4
  <2>8. CASE Uniform(lens)
    <3>1. SeqLens(flat, lens, x, FALSE) = [i \in 1 .. Len(lens) * x |-> flat[i].pos + 1]
      BY DEF SeqLens
    <3>2. a + t = r
      BY <2>8, <2>u
    <3> HIDE DEF r
    <3>3. SeqLens(flat, lens, x, FALSE)[r] = flat[r].pos + 1
      BY <2>6, <3>1 DEF k
    <3>4. flat[r] = dec[a + t]
      BY <1>2, <2>7, <3>2
    <3>5. (~flatten /\ ~Uniform(lens)) = FALSE
      BY <2>8
    <3> QED
      BY <2>1, <2>7, <3>3, <3>4, <3>5 DEF x, a, r, flat
  <2>9. CASE ~Uniform(lens)
    <3> DEFINE rows == Scatter(flat, lens)
               Cell(i) == LET c == (i - 1) \div x + 1
                              u == ((i - 1) % x) + 1
                          IN IF u <= lens[c] THEN rows[c][u].pos + 1 ELSE 0
    <3>1. SeqLens(flat, lens, x, TRUE) = [i \in 1 .. Len(lens) * x |-> Cell(i)]
      BY DEF SeqLens
    <3>2. (r - 1) \div x = b - 1 /\ (r - 1) % x = t - 1
      <4>1. b - 1 \in Nat /\ t - 1 \in 0 .. x - 1
        BY <2>2, <2>3, <2>5
      <4>2. ((b - 1) * x + (t - 1)) \div x = b - 1 /\ ((b - 1) * x + (t - 1)) % x = t - 1
        BY <2>5, <4>1, PoolOf
      <4>3. r - 1 = (b - 1) * x + (t - 1)
        <5>1. (b - 1) * x \in Int /\ t \in Int
          BY <2>2, <2>3, <2>5
        <5> QED
          BY <5>1
      <4> QED
        BY <4>2, <4>3
    <3>3. Cell(r) = rows[b][t].pos + 1
      <4>1. (r - 1) \div x + 1 = b /\ ((r - 1) % x) + 1 = t
        BY <2>2, <2>3, <2>5, <3>2
      <4>2. t <= lens[b]
        BY <2>2, <2>5
      <4> HIDE DEF r, rows
      <4> QED
        BY <4>1, <4>2
    <3>4. rows[b] = SubSeq(flat, a + 1, a + lens[b])
      BY <2>2 DEF Scatter, a, k
    <3>5. SubSeq(flat, a + 1, a + lens[b])[t] = flat[a + t]
      <4>1. \A i \in a + 1 .. a + lens[b] : flat[i] \in Token
        <5> TAKE i \in a + 1 .. a + lens[b]
        <5>1. i - a \in 1 .. lens[b] /\ a + (i - a) = i
          BY <2>4, <2>5
        <5>2. i \in 1 .. Len(dec)
          BY <2>4, <5>1
        <5> QED
          BY <1>2, <5>2
      <4>2. a + 1 \in Int /\ a + lens[b] \in Int
        BY <2>4, <2>5
      <4>3. \A i \in 1 .. (a + lens[b]) - (a + 1) + 1 :
              SubSeq(flat, a + 1, a + lens[b])[i] = flat[(a + 1) + i - 1]
        BY <4>1, <4>2, SubSeqProperties
      <4>4. t \in 1 .. (a + lens[b]) - (a + 1) + 1 /\ (a + 1) + t - 1 = a + t
        BY <2>2, <2>4, <2>5
      <4> QED
        BY <4>3, <4>4
    <3>6. flat[a + t] = dec[a + t]
      BY <1>2, <2>7
    <3> HIDE DEF Cell, rows, r
    <3>7. SeqLens(flat, lens, x, TRUE)[r] = Cell(r)
      BY <2>6, <3>1 DEF k
    <3>8. SeqLens(flat, lens, x, TRUE)[r] = dec[a + t].pos + 1
      BY <3>3, <3>4, <3>5, <3>6, <3>7
    <3>9. (~flatten /\ ~Uniform(lens)) = TRUE
      BY <1>4, <2>9
    <3> QED
      BY <2>1, <2>7, <3>8, <3>9 DEF x, a, r, flat
  <2> QED
    BY <2>8, <2>9
<1> QED
  BY <1>3, <1>4

LEMMA RowsStep ==
  ASSUME KpoolTypeOK, Chunked, NEW n, NEW good, Called(n, good), NEW flatten \in BOOLEAN,
         IndexBatch(n, good, flatten)
  PROVE  RowsExact' /\ GridFits' /\ grid' \in 0 .. NumSlots * MaxVerify
<1> DEFINE reqs == Decodes(n)
           lens == [b \in 1 .. Len(reqs) |-> n[reqs[b]]]
           dec == Flat(reqs, n, good)
           prefills == Prefills(n)
           chunks == [b \in 1 .. Len(prefills) |-> n[prefills[b]]]
           pre == Flat(prefills, n, good)
<1>1. /\ buffer' = PrefillRows(pre) \cup
             (IF dec = <<>> THEN {} ELSE DecodeRows(dec, dec \o pre, lens, flatten))
      /\ grid' = IF dec = <<>> THEN 0
                 ELSE IF flatten THEN Len(dec) ELSE Len(lens) * Longest(lens)
      /\ verify' = verify
  BY DEF IndexBatch
<1>2. Listed(reqs, lens, dec, DecodeSlots(n), n, good)
  <2>1. reqs = SetToSeq(DecodeSlots(n)) /\ DecodeSlots(n) \in SUBSET Slot
    BY DEF Decodes, DecodeSlots
  <2> QED
    BY <2>1, FlatLists
<1>3. Listed(prefills, chunks, pre, PrefillSlots(n), n, good)
  <2>1. prefills = SetToSeq(PrefillSlots(n)) /\ PrefillSlots(n) \in SUBSET Slot
    BY DEF Prefills, PrefillSlots
  <2> QED
    BY <2>1, FlatLists
<1> HIDE DEF reqs, lens, dec, prefills, chunks, pre
<1>4. pre \in Seq(Token) /\ dec \in Seq(Token)
  BY <1>2, <1>3 DEF Listed
<1>p. \A tok \in Token : tok.pos \in Pos
  BY DEF Token
<1>5. ASSUME NEW row \in PrefillRows(pre)
      PROVE  /\ row.pos \in Pos
             /\ row.pools = (row.pos + 1) \div KPool /\ row.seqlen = row.pos + 1
             /\ row.full => row.pos + 1 <= TopK
  <2> DEFINE short == \A i \in 1 .. Len(pre) : pre[i].pos + 1 <= TopK
  <2>1. PICK i \in 1 .. Len(pre) :
          row = Row(pre[i], (pre[i].pos + 1) \div KPool, pre[i].pos + 1, short)
    BY DEF PrefillRows
  <2>2. short => pre[i].pos + 1 <= TopK
    OBVIOUS
  <2> HIDE DEF short
  <2>3. /\ row.pos = pre[i].pos /\ row.pools = (pre[i].pos + 1) \div KPool
        /\ row.seqlen = pre[i].pos + 1 /\ row.full = short
    BY <2>1 DEF Row
  <2>4. pre[i].pos \in Pos
    BY <1>4, <1>p
  <2>5. row.full => row.pos + 1 <= TopK
    BY <2>2, <2>3, Zenon
  <2> QED
    BY <2>3, <2>4, <2>5, Zenon
<1>6. ASSUME dec # <<>>, NEW row \in DecodeRows(dec, dec \o pre, lens, flatten)
      PROVE  /\ row.pos \in Pos
             /\ row.pools = (row.pos + 1) \div KPool /\ row.seqlen = row.pos + 1
             /\ row.full => row.pos + 1 <= TopK
  <2> DEFINE shape == Shape(dec, lens, flatten)
             flat == dec \o pre
  <2>1. PICK b \in 1 .. Len(shape) :
          \E t \in 1 .. shape[b] : row = RowPut(dec, flat, lens, flatten, b, t)
    BY <1>6, RowsOfDecodes
  <2>2. PICK t \in 1 .. shape[b] : row = RowPut(dec, flat, lens, flatten, b, t)
    BY <2>1
  <2> DEFINE i == Start(shape, b) + t
             x == Longest(shape)
             padded == ~flatten /\ ~Uniform(lens)
             seqlen == SeqLens(flat, shape, x, padded)[(b - 1) * x + t]
  <2>3. i \in 1 .. Len(dec) /\ seqlen = dec[i].pos + 1
    BY <1>2, <1>4, <1>6, RowLengths
  <2>4. row = Row(dec[i], (dec[i].pos + 1) \div KPool, seqlen, FALSE)
    BY <2>2 DEF RowPut
  <2> HIDE DEF i, seqlen
  <2>5. /\ row.pos = dec[i].pos /\ row.pools = (dec[i].pos + 1) \div KPool
        /\ row.seqlen = seqlen /\ row.full = FALSE
    BY <2>4 DEF Row
  <2>6. dec[i].pos \in Pos
    BY <1>4, <1>p, <2>3
  <2> QED
    BY <2>3, <2>5, <2>6, Zenon
<1>7. RowsExact'
  <2>1. ASSUME NEW row \in buffer'
        PROVE  row \in PrefillRows(pre)
               \/ (dec # <<>> /\ row \in DecodeRows(dec, dec \o pre, lens, flatten))
    BY <1>1
  <2>2. \A row \in buffer' :
          /\ row.pos \in Pos
          /\ row.pools = (row.pos + 1) \div KPool /\ row.seqlen = row.pos + 1
          /\ row.full => row.pos + 1 <= TopK
    BY <1>5, <1>6, <2>1
  <2> QED
    BY <2>2 DEF RowsExact
<1>8. /\ verify \in 1 .. MaxVerify /\ verify \in Nat /\ MaxVerify \in Nat /\ NumSlots \in Nat
      /\ NumSlots * verify \in Nat /\ NumSlots * verify <= NumSlots * MaxVerify
  <2>1. verify \in 1 .. MaxVerify /\ verify \in Nat /\ MaxVerify \in Nat /\ NumSlots \in Nat
    BY KpoolAssumption DEF KpoolTypeOK
  <2>2. verify <= MaxVerify
    BY <2>1
  <2> QED
    BY <2>1, <2>2, Grows
<1>9. grid' \in Nat /\ grid' <= NumSlots * verify
  <2>1. CASE dec = <<>>
    BY <1>1, <1>8, <2>1
  <2>2. CASE dec # <<>>
    <3> DEFINE k == Len(lens)
               x == Longest(lens)
    <3>1. k \in 1 .. NumSlots /\ x \in 1 .. verify /\ Len(dec) <= k * verify
      BY <1>2, <2>2, DecodeLengths
    <3>l. Len(dec) \in Nat
      BY <1>4
    <3>g. grid' = IF flatten THEN Len(dec) ELSE k * x
      BY <1>1, <2>2
    <3> HIDE DEF k, x
    <3>2. k \in Nat /\ x \in Nat /\ k <= NumSlots /\ x <= verify
      BY <1>8, <3>1
    <3>3. k * x \in Nat /\ k * x <= k * verify
      BY <1>8, <3>2, Grows
    <3>4. verify * k <= verify * NumSlots
      BY <1>8, <3>2, Grows
    <3>5. verify * k = k * verify /\ verify * NumSlots = NumSlots * verify
      BY <1>8, <3>2
    <3> DEFINE y == k * verify
               z == NumSlots * verify
               w == k * x
    <3>6. y <= z /\ w <= y /\ w \in Nat /\ y \in Int /\ z \in Int /\ Len(dec) <= y
      <4>1. y \in Int
        BY <1>8, <3>2
      <4> QED
        BY <1>8, <3>1, <3>3, <3>4, <3>5, <4>1
    <3>7. grid' = IF flatten THEN Len(dec) ELSE w
      BY <3>g
    <3> HIDE DEF y, z, w
    <3>8. grid' \in Nat /\ grid' <= z
      BY <3>6, <3>7, <3>l
    <3> QED
      BY <3>8 DEF z
  <2> QED
    BY <2>1, <2>2
<1>10. GridFits'
  BY <1>1, <1>9 DEF GridFits
<1>11. grid' \in 0 .. NumSlots * MaxVerify
  <2> DEFINE y == NumSlots * verify
             z == NumSlots * MaxVerify
  <2>1. y \in Nat /\ y <= z /\ z \in Int /\ grid' \in Nat /\ grid' <= y
    BY <1>8, <1>9
  <2> HIDE DEF y, z
  <2>2. grid' \in 0 .. z
    BY <2>1
  <2> QED
    BY <2>2 DEF z
<1> QED
  BY <1>7, <1>10, <1>11

-----------------------------------------------------------------------------
(* KpoolIndexer: the theorems.                                             *)

LEMMA KpoolInitially ==
  KpoolInit => KpoolInv
<1> SUFFICES ASSUME KpoolInit PROVE KpoolInv
  OBVIOUS
<1>k. /\ KPool \in Nat \ {0} /\ MaxLen \in Nat \ {0} /\ NumSlots \in Nat /\ MaxVerify \in Nat
      /\ MaxLen \div KPool \in Nat
  BY KpoolAssumption, DivMod
<1>0. \A s \in Slot : len[s] = 0 /\ prompt[s] = 0
  BY DEF KpoolInit
<1>1. Stale \in Token
  BY <1>k DEF Stale, Token, Pos
<1>2. ring \in [Slot -> [Offset -> Token]] /\ pool \in [Slot -> [Pool -> [Offset -> Token]]]
  BY <1>1 DEF KpoolInit
<1>3. 0 \in 0 .. NumSlots * MaxVerify /\ 0 \in 0 .. MaxLen
  <2>1. NumSlots * MaxVerify \in Nat
    BY <1>k
  <2> HIDE DEF KpoolInit
  <2> QED
    BY <1>k, <2>1
<1>4. KpoolTypeOK
  BY <1>2, <1>3 DEF KpoolInit, KpoolTypeOK
<1>5. PoolsAreOwn
  <2> SUFFICES ASSUME NEW s \in Slot, NEW j \in Pool, (j + 1) * KPool <= len[s] PROVE FALSE
    BY DEF PoolsAreOwn
  <2>1. j \in Nat /\ len[s] = 0
    BY <1>0 DEF Pool
  <2>2. (j + 1) * KPool = j * KPool + KPool /\ j * KPool \in Nat
    BY <1>k, <2>1
  <2> QED
    BY <1>k, <2>1, <2>2
<1>6. 0 % KPool = 0
  BY <1>k
<1>7. Chunked /\ TailHeld
  BY <1>0, <1>6 DEF Chunked, TailHeld
<1>8. RowsExact
  BY DEF RowsExact, KpoolInit
<1>9. GridFits
  <2>1. verify \in Nat /\ NumSlots * verify \in Nat
    BY <1>k DEF KpoolInit
  <2> QED
    BY <2>1 DEF GridFits, KpoolInit
<1> QED
  BY <1>4, <1>5, <1>7, <1>8, <1>9 DEF KpoolInv

LEMMA AdmitStep ==
  ASSUME KpoolInv, NEW s \in Slot, Admit(s)
  PROVE  KpoolInv'
<1>k. KPool \in Nat \ {0} /\ MaxLen \in Nat \ {0}
  BY KpoolAssumption
<1>1. UNCHANGED <<verify, len, ring, pool, overrun, buffer, grid>>
  BY DEF Admit
<1>2. PICK p \in 1 .. MaxLen - 1 : prompt' = [prompt EXCEPT ![s] = p]
  BY DEF Admit
<1>3. KpoolTypeOK'
  BY <1>k, <1>1, <1>2 DEF KpoolInv, KpoolTypeOK
<1>4. Chunked'
  <2> SUFFICES ASSUME NEW x \in Slot
               PROVE  /\ len[x] < prompt'[x] => len[x] % KPool = 0
                      /\ prompt'[x] = 0 => len[x] = 0
    BY <1>1 DEF Chunked
  <2>1. prompt'[x] = IF x = s THEN p ELSE prompt[x]
    BY <1>2 DEF KpoolInv, KpoolTypeOK
  <2>2. CASE x = s
    <3>1. len[x] = 0 /\ 0 % KPool = 0
      BY <1>k, <2>2 DEF Admit, KpoolInv, Chunked
    <3> QED
      BY <3>1
  <2>3. CASE x # s
    BY <2>1, <2>3 DEF KpoolInv, Chunked
  <2> QED
    BY <2>2, <2>3
<1>5. PoolsAreOwn' /\ TailHeld' /\ RowsExact' /\ GridFits'
  BY <1>1 DEF KpoolInv, PoolsAreOwn, TailHeld, RowsExact, GridFits
<1> QED
  BY <1>3, <1>4, <1>5 DEF KpoolInv

LEMMA ReleaseStep ==
  ASSUME KpoolInv, NEW s \in Slot, Release(s)
  PROVE  KpoolInv'
<1>k. /\ KPool \in Nat \ {0} /\ MaxLen \in Nat \ {0} /\ NumSlots \in Nat /\ MaxVerify \in Nat
  BY KpoolAssumption
<1>t. KpoolTypeOK
  BY DEF KpoolInv
<1>0. Stale \in Token
  BY <1>k DEF Stale, Token, Pos
<1>1. /\ prompt' = [prompt EXCEPT ![s] = 0] /\ len' = [len EXCEPT ![s] = 0]
      /\ ring' = [ring EXCEPT ![s] = [o \in Offset |-> Stale]]
      /\ pool' = [pool EXCEPT ![s] = [j \in Pool |-> [o \in Offset |-> Stale]]]
      /\ overrun' = [overrun EXCEPT ![s] = {}]
      /\ buffer' = {} /\ grid' = 0 /\ verify' = verify
  BY DEF Release
<1>2. /\ len'[s] = 0 /\ prompt'[s] = 0
      /\ \A x \in Slot : x # s =>
           /\ len'[x] = len[x] /\ prompt'[x] = prompt[x] /\ ring'[x] = ring[x]
           /\ pool'[x] = pool[x] /\ overrun'[x] = overrun[x]
  BY <1>1, <1>t DEF KpoolTypeOK
<1>3. KpoolTypeOK'
  <2>1. prompt' \in [Slot -> 0 .. MaxLen] /\ len' \in [Slot -> 0 .. MaxLen]
    BY <1>k, <1>1, <1>t DEF KpoolTypeOK
  <2>2. ring' \in [Slot -> [Offset -> Token]]
    BY <1>0, <1>1, <1>t DEF KpoolTypeOK
  <2>3. pool' \in [Slot -> [Pool -> [Offset -> Token]]]
    <3>1. [j \in Pool |-> [o \in Offset |-> Stale]] \in [Pool -> [Offset -> Token]]
      BY <1>0
    <3> QED
      BY <1>1, <1>t, <3>1 DEF KpoolTypeOK
  <2>4. overrun' \in [Slot -> SUBSET (0 .. MaxLen \div KPool)]
    BY <1>1, <1>t DEF KpoolTypeOK
  <2>5. verify' \in 1 .. MaxVerify
    BY <1>1, <1>t DEF KpoolTypeOK
  <2>6. grid' \in 0 .. NumSlots * MaxVerify
    <3>1. NumSlots * MaxVerify \in Nat
      BY <1>k
    <3> QED
      BY <1>1, <3>1
  <2> QED
    BY <2>1, <2>2, <2>3, <2>4, <2>5, <2>6 DEF KpoolTypeOK
<1>6. 0 % KPool = 0
  BY <1>k
<1>4. PoolsAreOwn'
  <2> SUFFICES ASSUME NEW x \in Slot, NEW j \in Pool,
                      (j + 1) * KPool <= len'[x], j \notin overrun'[x]
               PROVE  pool'[x][j] = [o \in Offset |-> Committed(x, j * KPool + o)]
    BY DEF PoolsAreOwn
  <2>1. CASE x = s
    <3>1. j \in Nat /\ len'[x] = 0
      BY <1>2, <2>1 DEF Pool
    <3>2. (j + 1) * KPool = j * KPool + KPool /\ j * KPool \in Nat
      BY <1>k, <3>1
    <3> QED
      BY <1>k, <3>1, <3>2
  <2>2. CASE x # s
    BY <1>2, <2>2 DEF KpoolInv, PoolsAreOwn
  <2> QED
    BY <2>1, <2>2
<1>5. Chunked' /\ TailHeld'
  <2>1. \A x \in Slot : /\ len'[x] < prompt'[x] => len'[x] % KPool = 0
                        /\ prompt'[x] = 0 => len'[x] = 0
    BY <1>2, <1>6 DEF KpoolInv, Chunked
  <2>2. ASSUME NEW x \in Slot, len'[x] \div KPool \notin overrun'[x],
               NEW o \in 0 .. (len'[x] % KPool) - 1
        PROVE  ring'[x][o] = Committed(x, (len'[x] \div KPool) * KPool + o)
    <3>1. CASE x = s
      BY <1>2, <1>6, <2>2, <3>1
    <3>2. CASE x # s
      BY <1>2, <2>2, <3>2 DEF KpoolInv, TailHeld
    <3> QED
      BY <3>1, <3>2
  <2> QED
    BY <2>1, <2>2 DEF Chunked, TailHeld
<1>7. RowsExact'
  BY <1>1 DEF RowsExact
<1>8. GridFits'
  <2>1. verify \in Nat /\ NumSlots * verify \in Nat
    BY <1>k, <1>t DEF KpoolTypeOK
  <2> QED
    BY <1>1, <2>1 DEF GridFits
<1> QED
  BY <1>3, <1>4, <1>5, <1>7, <1>8 DEF KpoolInv

LEMMA CallStep ==
  ASSUME KpoolInv, NEW n, NEW good, Called(n, good), NEW flatten \in BOOLEAN,
         IndexBatch(n, good, flatten)
  PROVE  KpoolInv'
<1>0. KpoolTypeOK /\ PoolsAreOwn /\ Chunked /\ TailHeld
  BY DEF KpoolInv
<1>1. Effect(n, good)
  BY <1>0, CallEffect
<1>2. RowsExact' /\ GridFits' /\ grid' \in 0 .. NumSlots * MaxVerify
  BY <1>0, RowsStep
<1>3. KpoolTypeOK' /\ Chunked'
  BY <1>0, <1>1, <1>2, TypesOfCall, ChunksStep
<1>4. TailHeld' /\ PoolsAreOwn'
  BY <1>0, <1>1, RingStep, PoolStep
<1> QED
  BY <1>2, <1>3, <1>4 DEF KpoolInv

\* The inductive invariant: the pools are the requests' own because the ring holds
\* the pool in progress, and it does because a prompt's chunks end with pools.
THEOREM KpoolInvariance == KpoolSpec => []KpoolInv
<1>1. KpoolInit => KpoolInv
  BY KpoolInitially
<1>2. KpoolInv /\ [KpoolNext]_kpoolVars => KpoolInv'
  <2> SUFFICES ASSUME KpoolInv, [KpoolNext]_kpoolVars PROVE KpoolInv'
    OBVIOUS
  <2>1. ASSUME NEW n \in [Slot -> 0 .. MaxLen], Schedulable(n),
               NEW good \in [Slot -> 0 .. MaxLen], NEW flatten \in BOOLEAN,
               IndexBatch(n, good, flatten)
        PROVE  KpoolInv'
    <3>1. Called(n, good)
      BY <2>1 DEF Called, IndexBatch
    <3> QED
      BY <2>1, <3>1, CallStep
  <2>2. CASE \E s \in Slot : Admit(s)
    BY <2>2, AdmitStep
  <2>3. CASE \E s \in Slot : Release(s)
    BY <2>3, ReleaseStep
  <2>4. CASE UNCHANGED kpoolVars
    BY <2>4 DEF kpoolVars, KpoolInv, KpoolTypeOK, PoolsAreOwn, Chunked, TailHeld, RowsExact,
                GridFits
  <2> QED
    BY <2>1, <2>2, <2>3, <2>4 DEF KpoolNext
<1> QED
  BY <1>1, <1>2, PTL DEF KpoolSpec

\* The variables keep their types: the ring and the pools hold tokens, the run-over
\* pools are pools, and no decode grid has more rows than the requests can bring.
THEOREM KpoolTypeCorrect == KpoolSpec => []KpoolTypeOK
<1>1. KpoolInv => KpoolTypeOK
  BY DEF KpoolInv
<1> QED
  BY <1>1, KpoolInvariance, PTL

\* Every complete pool of a request that no rejected draft ran over is compressed
\* from the request's own committed tokens in their order (_kpool_compress_insert,
\* kpool_seed_tail_cache, kpool_decode_update_and_maybe_write_cache_batched).
THEOREM PoolsAlwaysOwn == KpoolSpec => []PoolsAreOwn
<1>1. KpoolInv => PoolsAreOwn
  BY DEF KpoolInv
<1> QED
  BY <1>1, KpoolInvariance, PTL

\* What a row attends to, whichever pools score best.
LEMMA AttendedRows ==
  ASSUME NEW row, RowsExact, row \in buffer, NEW best \in Selections(row)
  PROVE  LET begun == ((row.pos + 1) \div KPool) * KPool
         IN /\ Attended(row, best) \subseteq 0 .. row.pos
            /\ begun .. row.pos \subseteq Attended(row, best)
            /\ row.pos + 1 <= TopK => Attended(row, best) = 0 .. row.pos
<1> DEFINE l == row.pos + 1
           c == l \div KPool
           q == c * KPool
<1>k. KPool \in Nat \ {0} /\ MaxLen \in Nat \ {0} /\ TopK \in Nat
  BY KpoolAssumption
<1>1. /\ row.pos \in Nat /\ l \in Nat /\ row.pos = l - 1 /\ row.pos < MaxLen
      /\ row.pools = c /\ row.seqlen = l
  <2>1. row.pos \in Pos /\ row.pools = c /\ row.seqlen = l
    BY DEF RowsExact
  <2> QED
    BY <1>k, <2>1 DEF Pos
<1>2. c \in Nat /\ q \in Nat /\ q <= l /\ KPool * c = q
  <2>1. c \in Nat /\ q \in Nat /\ l = q + (l % KPool) /\ (l % KPool) \in 0 .. KPool - 1
    BY <1>k, <1>1, DivMod, PoolEnds
  <2>2. KPool * c = q
    <3> HIDE DEF c
    <3> QED
      BY <1>k, <2>1
  <2> HIDE DEF c, q, l
  <2> QED
    BY <1>1, <2>1, <2>2
<1>3. Expanded(row, best) =
        {p \in 0 .. MaxLen : p \div KPool \in best /\ p \div KPool < c} \cup q .. l - 1
  BY <1>1 DEF Expanded
<1>s. best \in SUBSET (0 .. c - 1)
      /\ Cardinality(best) = IF SelectK < c THEN SelectK ELSE c
  BY <1>1 DEF Selections
<1>t. l <= TopK => SelectK \in Nat /\ c <= SelectK
  BY <1>k, <1>1, DivGrows, DivMod DEF SelectK
<1> HIDE DEF c, l, q
<1>4. \A p \in Nat : p \div KPool \in Nat /\ (p \div KPool < c <=> p < q)
  <2> TAKE p \in Nat
  <2> DEFINE d == p \div KPool
  <2>1. d \in Nat /\ p = KPool * d + (p % KPool) /\ (p % KPool) \in 0 .. KPool - 1
    BY <1>k, DivMod
  <2> HIDE DEF d
  <2>2. KPool * d \in Nat /\ KPool * (d + 1) = KPool * d + KPool
    BY <1>k, <2>1
  <2>3. ASSUME d < c PROVE p < q
    <3>1. d + 1 \in Nat /\ d + 1 <= c
      BY <1>2, <2>1, <2>3
    <3>2. KPool * (d + 1) <= KPool * c
      BY <1>k, <1>2, <3>1, Grows
    <3> QED
      BY <1>k, <1>2, <2>1, <2>2, <3>2
  <2>4. ASSUME ~(d < c) PROVE ~(p < q)
    <3>1. c <= d
      BY <1>2, <2>1, <2>4
    <3>2. KPool * c <= KPool * d
      BY <1>k, <1>2, <2>1, <3>1, Grows
    <3> QED
      BY <1>k, <1>2, <2>1, <2>2, <3>2
  <2> QED
    BY <2>1, <2>3, <2>4 DEF d
<1>5. CASE row.full
  <2>1. Attended(row, best) = 0 .. row.pos
    BY <1>5 DEF Attended
  <2>2. q .. row.pos \subseteq 0 .. row.pos
    BY <1>1, <1>2
  <2> QED
    BY <2>1, <2>2 DEF q, c, l
<1>6. CASE ~row.full
  <2>1. Attended(row, best) = Expanded(row, best)
    BY <1>6 DEF Attended
  <2>2. Expanded(row, best) \subseteq 0 .. row.pos
    BY <1>1, <1>2, <1>3, <1>4
  <2>3. q .. row.pos \subseteq Expanded(row, best)
    BY <1>1, <1>3
  <2>4. ASSUME l <= TopK PROVE 0 .. row.pos \subseteq Expanded(row, best)
    <3>1. Cardinality(best) = c
      BY <1>2, <1>s, <1>t, <2>4
    <3>2. best = 0 .. c - 1
      <4>1. IsFiniteSet(0 .. c - 1) /\ Cardinality(0 .. c - 1) = c
        <5>1. 0 \in Int /\ c - 1 \in Int /\ c - 1 - 0 + 1 = c
          BY <1>2
        <5>2. /\ IsFiniteSet(0 .. c - 1)
              /\ Cardinality(0 .. c - 1) = IF 0 > c - 1 THEN 0 ELSE c - 1 - 0 + 1
          BY <5>1, FS_Interval
        <5> QED
          BY <1>2, <5>1, <5>2
      <4> QED
        BY <1>s, <3>1, <4>1, FS_Subset
    <3> SUFFICES ASSUME NEW p \in 0 .. row.pos, ~(p \in q .. l - 1)
                 PROVE  p \in 0 .. MaxLen /\ p \div KPool \in best /\ p \div KPool < c
      BY <1>3
    <3>3. p \in Nat /\ p < q /\ p \in 0 .. MaxLen
      BY <1>k, <1>1, <1>2
    <3>4. p \div KPool \in Nat /\ p \div KPool < c
      BY <1>4, <3>3
    <3> QED
      BY <1>2, <3>2, <3>3, <3>4
  <2> QED
    BY <2>1, <2>2, <2>3, <2>4 DEF q, c, l
<1> QED
  BY <1>5, <1>6

\* Whatever the grid of the decodes and the path of the prefills, a row attends to
\* its own past only, to all of the pool in progress, and to all of a context that
\* fits topk_tokens (_decode_topk_seq_lens, expand_pools_and_append_tail).
THEOREM RowsAttendOwnPast == KpoolSpec => []AttendsOwnPast
<1>1. KpoolInv => AttendsOwnPast
  BY AttendedRows DEF KpoolInv, AttendsOwnPast
<1> QED
  BY <1>1, KpoolInvariance, PTL

\* The memory profile of max_num_seqs decodes counts for the logits of every call,
\* the rows that pad a grid of unequal requests included.
THEOREM ProfileAlwaysCovers == KpoolSpec => []ProfileCoversLogits
<1>1. KpoolInv => ProfileCoversLogits
  <2> SUFFICES ASSUME KpoolInv, NumSlots * verify <= MaxBatched
               PROVE  grid <= WorstDecodeTokens
    BY DEF ProfileCoversLogits
  <2> DEFINE z == NumSlots * verify
             S == {z, MaxBatched}
             m == CHOOSE x \in S : \A y \in S : x <= y
  <2>1. grid <= z /\ z \in Nat /\ MaxBatched \in Nat
    <3>1. NumSlots \in Nat /\ verify \in Nat /\ MaxBatched \in Nat
      BY KpoolAssumption DEF KpoolInv, KpoolTypeOK
    <3>2. z \in Nat
      BY <3>1
    <3> QED
      BY <3>1, <3>2 DEF KpoolInv, GridFits
  <2>2. WorstDecodeTokens = m
    BY DEF WorstDecodeTokens, Min
  <2> HIDE DEF z
  <2>3. m = z
    <3>0. z <= MaxBatched
      BY DEF z
    <3>1. z \in S /\ \A y \in S : z <= y
      BY <2>1, <3>0
    <3>2. m \in S /\ \A y \in S : m <= y
      BY <3>1
    <3> HIDE DEF m
    <3> QED
      BY <2>1, <3>1, <3>2
  <2> QED
    BY <2>1, <2>2, <2>3
<1> QED
  BY <1>1, KpoolInvariance, PTL
=============================================================================
