------------------------- MODULE EnvRegistry_proofs -------------------------
(***************************************************************************)
(* What the cache of environment variables keeps and what compile_factors  *)
(* reads, for every registry, tree of processes and number of changes; the *)
(* agreement of the buffer name for the one variable that is made up.      *)
(***************************************************************************)
EXTENDS EnvRegistry, FiniteSetTheorems, SequenceTheorems, TLAPS

\* What a getter returns, what os.environ holds, what a layer of the cache has.
Returned(v) == IF v \in Generated THEN Name ELSE Value
Environ == [Var -> Setting \cup Name]
Layer == [Var -> {Nothing} \cup Value \cup Name]

Types ==
  /\ environ \in [Proc -> Environ]
  /\ \A p \in Proc, v \in Var :
       environ[p][v] \in (IF v \in Generated THEN Name \cup {Unset} ELSE Setting)
  /\ caches \in [Proc -> Seq(Layer)]
  /\ \A p \in Proc : \A i \in 1 .. Len(caches[p]) : \A v \in Var :
       caches[p][i][v] \in {Nothing} \cup Returned(v)
  /\ DOMAIN frozen = Proc /\ DOMAIN disabled = Proc
  /\ told \in [Proc -> SUBSET Name] /\ inherited \in [Proc -> SUBSET Name]
  /\ names \in 0 .. MaxNames

\* There is one layer at most; a full one is the only one, and none is left
\* by disable_envs_cache.
Layers ==
  \A p \in Proc :
    /\ Len(caches[p]) <= 1
    /\ frozen[p] # Nothing =>
         /\ Len(caches[p]) = 1
         /\ \A v \in Var : caches[p][1][v] # Nothing /\ caches[p][1][v] = frozen[p][v]
    /\ disabled[p] => Len(caches[p]) = 0

CacheInv == Types /\ Layers

-----------------------------------------------------------------------------
(* What a read returns.                                                    *)

\* A function on 1 .. n is a sequence of n elements.
LEMMA SequenceOf ==
  ASSUME NEW S, NEW n \in Nat, NEW f \in [1 .. n -> S]
  PROVE  f \in Seq(S) /\ Len(f) = n
  OBVIOUS

\* A number of layers that is at most one.
LEMMA OneLayer ==
  ASSUME NEW n \in Nat, n <= 1
  PROVE  /\ n = 0 \/ n = 1
         /\ \A i \in 1 .. n : i = 1 /\ n = 1
  OBVIOUS

\* A getter raises or it does not.
LEMMA RaisesBoolean ==
  ASSUME NEW env, NEW v \in Var
  PROVE  Raises(env, v) \in BOOLEAN
<1>1. Entry(v).kind \in {"checked", "derived", "generated"}
  BY RegistryAssumption
<1> QED
  BY <1>1 DEF Raises, RaisesChecked

\* Without a layer a read is a call of the getter.
LEMMA Uncached ==
  ASSUME NEW p, NEW v \in Var, Len(caches[p]) = 0
  PROVE  /\ Hits(p, v) = {}
         /\ Lookup(p, v) = Getter(environ[p], v)
         /\ LookupRaises(p, v) = Raises(environ[p], v)
<1>1. \A i \in 1 .. Len(caches[p]) : FALSE
  OBVIOUS
<1>2. Hits(p, v) = {}
  BY <1>1 DEF Hits
<1>3. Lookup(p, v) = Getter(environ[p], v)
  BY <1>2 DEF Lookup
<1>4. LookupRaises(p, v) = Raises(environ[p], v)
  BY <1>2, RaisesBoolean, Zenon DEF LookupRaises
<1> QED
  BY <1>2, <1>3, <1>4

\* With one layer it is what the layer has.
LEMMA Cached ==
  ASSUME NEW p, NEW v, Len(caches[p]) = 1, caches[p][1][v] # Nothing
  PROVE  /\ Hits(p, v) = {1}
         /\ Lookup(p, v) = caches[p][1][v]
<1>1. Hits(p, v) = {1}
  BY DEF Hits
<1>2. (CHOOSE i \in Hits(p, v) : \A j \in Hits(p, v) : j <= i) = 1
  BY <1>1
<1> QED
  BY <1>1, <1>2 DEF Lookup

\* A getter that does not raise returns a value of its kind.
LEMMA GetterReturns ==
  ASSUME NEW env \in Environ, NEW v \in Var,
         env[v] \in (IF v \in Generated THEN Name \cup {Unset} ELSE Setting),
         names \in 0 .. MaxNames,
         v \in Generated /\ env[v] = Unset => names < MaxNames,
         ~Raises(env, v)
  PROVE  Getter(env, v) \in Returned(v)
<1>1. Entry(v).kind \in {"checked", "derived", "generated"}
  BY RegistryAssumption
<1>2. CASE Entry(v).kind = "checked"
  <2>1. v \notin Generated /\ env[v] # Bad
    BY <1>2 DEF Generated, Raises, RaisesChecked
  <2>2. Default(env, v) = "0"
    BY <1>2 DEF Default
  <2> QED
    BY <1>2, <2>1, <2>2, ValueAssumption DEF Getter, Returned, Setting
<1>3. CASE Entry(v).kind = "derived"
  <2>1. v \notin Generated
    BY <1>3 DEF Generated
  <2> QED
    BY <1>3, <2>1, ValueAssumption DEF Getter, Returned
<1>4. CASE Entry(v).kind = "generated"
  <2>1. v \in Generated
    BY <1>4 DEF Generated
  <2>2. CASE env[v] = Unset
    <3>1. names + 1 \in 1 .. MaxNames
      BY <2>1, <2>2, ValueAssumption
    <3>2. Getter(env, v) = <<"name", names + 1>>
      BY <1>4, <2>2 DEF Getter
    <3> QED
      BY <2>1, <3>1, <3>2 DEF Returned, Name
  <2>3. CASE env[v] # Unset
    BY <1>4, <2>1, <2>3 DEF Getter, Returned
  <2> QED
    BY <2>2, <2>3
<1> QED
  BY <1>1, <1>2, <1>3, <1>4

\* So does a read, from the cache or not.
LEMMA LookupReturns ==
  ASSUME CacheInv, NEW p \in Proc, NEW v \in Var, ~LookupRaises(p, v),
         Hits(p, v) = {} /\ v \in Generated /\ environ[p][v] = Unset => names < MaxNames
  PROVE  Lookup(p, v) \in Returned(v)
<1>1. CASE Hits(p, v) = {}
  <2>1. Getter(environ[p], v) \in Returned(v)
    BY <1>1, GetterReturns DEF CacheInv, Types, LookupRaises
  <2> QED
    BY <1>1, <2>1 DEF Lookup
<1>2. CASE Hits(p, v) # {}
  <2>1. Len(caches[p]) = 1 /\ caches[p][1][v] # Nothing
    <3>1. PICK i \in 1 .. Len(caches[p]) : caches[p][i][v] # Nothing
      BY <1>2 DEF Hits
    <3>2. Len(caches[p]) \in Nat /\ Len(caches[p]) <= 1
      BY DEF CacheInv, Types, Layers
    <3>3. i = 1 /\ Len(caches[p]) = 1
      BY <3>1, <3>2, OneLayer
    <3> QED
      BY <3>1, <3>3
  <2>2. caches[p][1][v] \in Returned(v)
    BY <2>1 DEF CacheInv, Types
  <2> QED
    BY <2>1, <2>2, Cached
<1> QED
  BY <1>1, <1>2

-----------------------------------------------------------------------------
(* The steps.                                                              *)

\* What reads that do not raise do to os.environ and to what was told.
LEMMA EffectsTypes ==
  ASSUME CacheInv, NEW p \in Proc, NEW read \in SUBSET Var,
         \A v \in read : ~LookupRaises(p, v), Effects(p, read)
  PROVE  /\ \A v \in read : Lookup(p, v) \in Returned(v)
         /\ environ' \in [Proc -> Environ]
         /\ \A q \in Proc, v \in Var :
              environ'[q][v] \in (IF v \in Generated THEN Name \cup {Unset} ELSE Setting)
         /\ told' \in [Proc -> SUBSET Name]
         /\ names' \in 0 .. MaxNames
<1>1. \A v \in read :
        Hits(p, v) = {} /\ v \in Generated /\ environ[p][v] = Unset => names < MaxNames
  BY DEF Effects, MadeUp, Run
<1>2. \A v \in read : Lookup(p, v) \in Returned(v)
  BY <1>1, LookupReturns
<1>3. names' \in 0 .. MaxNames
  BY ValueAssumption DEF Effects, CacheInv, Types
<1>4. told' \in [Proc -> SUBSET Name]
  <2>1. {Lookup(p, v) : v \in read \cap Generated} \subseteq Name
    BY <1>2 DEF Returned
  <2> QED
    BY <2>1 DEF Effects, ToldAfter, CacheInv, Types
<1>5. \A v \in Run(p, read) \cap Generated : Getter(environ[p], v) \in Name
  <2> SUFFICES ASSUME NEW v \in Run(p, read) \cap Generated
               PROVE  Getter(environ[p], v) \in Name
    OBVIOUS
  <2>1. v \in read /\ Hits(p, v) = {}
    BY DEF Run
  <2>2. Lookup(p, v) = Getter(environ[p], v)
    BY <2>1 DEF Lookup
  <2> QED
    BY <1>2, <2>1, <2>2 DEF Returned
<1>6. /\ EnvironAfter(environ[p], Run(p, read)) \in Environ
      /\ \A v \in Var : EnvironAfter(environ[p], Run(p, read))[v] \in
           (IF v \in Generated THEN Name \cup {Unset} ELSE Setting)
  BY <1>5 DEF EnvironAfter, WritesBack, CacheInv, Types, Environ
<1>7. environ' = [environ EXCEPT ![p] = EnvironAfter(environ[p], Run(p, read))]
  BY DEF Effects
<1> QED
  BY <1>2, <1>3, <1>4, <1>6, <1>7 DEF CacheInv, Types

\* A read fills what is missing in the layers and changes nothing else there.
LEMMA ReadStep ==
  ASSUME CacheInv, NEW p \in Proc, NEW v \in Var, Read(p, v)
  PROVE  CacheInv'
<1> DEFINE filled == [i \in 1 .. Len(caches[p]) |->
       IF caches[p][i][v] = Nothing THEN [caches[p][i] EXCEPT ![v] = Lookup(p, v)]
       ELSE caches[p][i]]
<1>1. /\ caches' = [caches EXCEPT ![p] = filled]
      /\ UNCHANGED <<frozen, disabled, inherited>>
  BY DEF Read
<1>2. /\ Lookup(p, v) \in Returned(v)
      /\ environ' \in [Proc -> Environ]
      /\ \A q \in Proc, u \in Var :
           environ'[q][u] \in (IF u \in Generated THEN Name \cup {Unset} ELSE Setting)
      /\ told' \in [Proc -> SUBSET Name]
      /\ names' \in 0 .. MaxNames
  BY EffectsTypes DEF Read
<1>3. Len(caches[p]) \in Nat /\ \A i \in 1 .. Len(caches[p]) : caches[p][i] \in Layer
  BY DEF CacheInv, Types
<1>4. \A i \in 1 .. Len(caches[p]) :
        /\ filled[i] \in Layer
        /\ \A u \in Var : /\ filled[i][u] \in {Nothing} \cup Returned(u)
                          /\ caches[p][i][u] # Nothing => filled[i][u] = caches[p][i][u]
  <2> SUFFICES ASSUME NEW i \in 1 .. Len(caches[p])
      PROVE  /\ filled[i] \in Layer
             /\ \A u \in Var : /\ filled[i][u] \in {Nothing} \cup Returned(u)
                               /\ caches[p][i][u] # Nothing => filled[i][u] = caches[p][i][u]
    BY Zenon
  <2>1. /\ caches[p][i] \in Layer
        /\ \A u \in Var : caches[p][i][u] \in {Nothing} \cup Returned(u)
    BY <1>3 DEF CacheInv, Types
  <2>2. Returned(v) \subseteq Value \cup Name
    BY DEF Returned
  <2> QED
    BY <1>2, <2>1, <2>2 DEF Layer
<1>5. filled \in Seq(Layer) /\ Len(filled) = Len(caches[p])
  <2>1. filled \in [1 .. Len(caches[p]) -> Layer]
    BY <1>4
  <2> QED
    BY <1>3, <2>1, SequenceOf
<1> HIDE DEF filled
<1>6. Types'
  BY <1>1, <1>2, <1>4, <1>5 DEF CacheInv, Types, Returned
<1>7. Layers'
  <2> SUFFICES ASSUME NEW q \in Proc
      PROVE  /\ Len(caches'[q]) <= 1
             /\ frozen'[q] # Nothing =>
                  /\ Len(caches'[q]) = 1
                  /\ \A u \in Var : caches'[q][1][u] # Nothing /\ caches'[q][1][u] = frozen'[q][u]
             /\ disabled'[q] => Len(caches'[q]) = 0
    BY DEF Layers
  <2>1. CASE q = p
    BY <1>1, <1>4, <1>5, <2>1 DEF CacheInv, Types, Layers
  <2>2. CASE q # p
    BY <1>1, <2>2 DEF CacheInv, Types, Layers
  <2> QED
    BY <2>1, <2>2
<1> QED
  BY <1>6, <1>7 DEF CacheInv

\* The variables that enable_envs_cache reads do not raise.
LEMMA PopulatedReads ==
  ASSUME NEW p
  PROVE  Populated(p) \in SUBSET Var /\ \A v \in Populated(p) : ~LookupRaises(p, v)
<1>1. Populated(p) \in SUBSET Var
  BY DEF Populated, Var
<1>2. ASSUME NEW v \in Populated(p) PROVE ~LookupRaises(p, v)
  <2>1. PICK i \in 1 .. Len(Registry) :
          v = Registry[i].name /\ \A k \in 1 .. i : ~LookupRaises(p, Registry[k].name)
    BY DEF Populated
  <2>2. i \in 1 .. i
    BY <2>1
  <2> QED
    BY <2>1, <2>2
<1> QED
  BY <1>1, <1>2

\* enable_envs_cache reads variables none of which raises: a layer of them, and
\* where all were read a full one.
LEMMA EnableStep ==
  ASSUME CacheInv, NEW p \in Proc, EnableEnvsCache(p)
  PROVE  CacheInv'
<1> DEFINE layer == CachedByEnable(p)
<1>1. /\ Len(caches[p]) = 0
      /\ Effects(p, Populated(p))
      /\ caches' = [caches EXCEPT ![p] = Append(caches[p], layer)]
      /\ frozen' = [frozen EXCEPT ![p] =
           IF Populated(p) = Var THEN [v \in Var |-> Lookup(p, v)] ELSE Nothing]
      /\ disabled' = [disabled EXCEPT ![p] = FALSE]
      /\ inherited' = inherited
  BY DEF EnableEnvsCache, Enabled, CacheInv, Types
<1>2. Populated(p) \in SUBSET Var /\ \A v \in Populated(p) : ~LookupRaises(p, v)
  BY PopulatedReads
<1>4. /\ \A v \in Populated(p) : Lookup(p, v) \in Returned(v)
      /\ environ' \in [Proc -> Environ]
      /\ \A q \in Proc, v \in Var :
           environ'[q][v] \in (IF v \in Generated THEN Name \cup {Unset} ELSE Setting)
      /\ told' \in [Proc -> SUBSET Name]
      /\ names' \in 0 .. MaxNames
  BY <1>1, <1>2, EffectsTypes
<1>5. /\ layer \in Layer
      /\ \A v \in Var : layer[v] \in {Nothing} \cup Returned(v)
  BY <1>4 DEF CachedByEnable, Layer, Returned
<1>6. \A v \in Populated(p) : Lookup(p, v) # Nothing
  BY <1>2, <1>4, ValueAssumption DEF Returned
<1>7. Populated(p) = Var => \A v \in Var : layer[v] = Lookup(p, v) /\ layer[v] # Nothing
  BY <1>6 DEF CachedByEnable
<1> HIDE DEF layer
<1>8. /\ Append(caches[p], layer) \in Seq(Layer)
      /\ Len(Append(caches[p], layer)) = 1
      /\ Append(caches[p], layer)[1] = layer
  BY <1>1, <1>5 DEF CacheInv, Types
<1>9. Types'
  <2>1. caches' \in [Proc -> Seq(Layer)]
    BY <1>1, <1>8 DEF CacheInv, Types
  <2>2. \A q \in Proc : \A i \in 1 .. Len(caches'[q]) : \A v \in Var :
          caches'[q][i][v] \in {Nothing} \cup Returned(v)
    <3> SUFFICES ASSUME NEW q \in Proc, NEW i \in 1 .. Len(caches'[q]), NEW v \in Var
                 PROVE  caches'[q][i][v] \in {Nothing} \cup Returned(v)
      OBVIOUS
    <3>1. CASE q = p
      <4>1. caches'[q] = Append(caches[p], layer)
        BY <1>1, <3>1 DEF CacheInv, Types
      <4>2. i = 1
        BY <1>8, <4>1
      <4> QED
        BY <1>5, <1>8, <4>1, <4>2
    <3>2. CASE q # p
      <4>1. caches'[q] = caches[q]
        BY <1>1, <3>2 DEF CacheInv, Types
      <4> QED
        BY <4>1 DEF CacheInv, Types
    <3> QED
      BY <3>1, <3>2
  <2> QED
    BY <1>1, <1>4, <2>1, <2>2 DEF CacheInv, Types, Returned
<1>10. Layers'
  <2> SUFFICES ASSUME NEW q \in Proc
      PROVE  /\ Len(caches'[q]) <= 1
             /\ frozen'[q] # Nothing =>
                  /\ Len(caches'[q]) = 1
                  /\ \A u \in Var : caches'[q][1][u] # Nothing /\ caches'[q][1][u] = frozen'[q][u]
             /\ disabled'[q] => Len(caches'[q]) = 0
    BY DEF Layers
  <2>1. CASE q = p
    <3>1. caches'[q] = Append(caches[p], layer) /\ disabled'[q] = FALSE
      BY <1>1, <2>1 DEF CacheInv, Types
    <3>2. CASE Populated(p) = Var
      <4>1. frozen'[q] = [v \in Var |-> Lookup(p, v)]
        BY <1>1, <2>1, <3>2 DEF CacheInv, Types
      <4> QED
        BY <1>7, <1>8, <3>1, <3>2, <4>1
    <3>3. CASE Populated(p) # Var
      <4>1. frozen'[q] = Nothing
        BY <1>1, <2>1, <3>3 DEF CacheInv, Types
      <4> QED
        BY <1>8, <3>1, <4>1
    <3> QED
      BY <3>2, <3>3
  <2>2. CASE q # p
    BY <1>1, <2>2 DEF CacheInv, Types, Layers
  <2> QED
    BY <2>1, <2>2
<1> QED
  BY <1>9, <1>10 DEF CacheInv

\* disable_envs_cache unwraps the only layer.
LEMMA DisableStep ==
  ASSUME CacheInv, NEW p \in Proc, DisableEnvsCache(p)
  PROVE  CacheInv'
<1> DEFINE rest == SubSeq(caches[p], 1, Len(caches[p]) - 1)
<1>1. /\ caches[p] # <<>>
      /\ caches' = [caches EXCEPT ![p] = rest]
      /\ frozen' = [frozen EXCEPT ![p] = Nothing]
      /\ disabled' = [disabled EXCEPT ![p] = TRUE]
      /\ UNCHANGED <<environ, told, inherited, names>>
  BY DEF DisableEnvsCache
<1>2. Len(caches[p]) = 1
  <2>1. caches[p] \in Seq(Layer) /\ Len(caches[p]) <= 1
    BY DEF CacheInv, Types, Layers
  <2>2. Len(caches[p]) # 0
    BY <1>1, <2>1, EmptySeq
  <2>3. Len(caches[p]) \in Nat
    BY <2>1
  <2> QED
    BY <2>1, <2>2, <2>3, OneLayer
<1>3. rest \in Seq(Layer) /\ Len(rest) = 0
  BY <1>2 DEF CacheInv, Types
<1> HIDE DEF rest
<1>4. Types'
  <2>1. caches' \in [Proc -> Seq(Layer)]
    BY <1>1, <1>3 DEF CacheInv, Types
  <2>2. \A q \in Proc : \A i \in 1 .. Len(caches'[q]) : \A v \in Var :
          caches'[q][i][v] \in {Nothing} \cup Returned(v)
    BY <1>1, <1>3 DEF CacheInv, Types
  <2> QED
    BY <1>1, <2>1, <2>2 DEF CacheInv, Types, Returned
<1>5. Layers'
  BY <1>1, <1>3 DEF CacheInv, Types, Layers
<1> QED
  BY <1>4, <1>5 DEF CacheInv

\* An assignment to os.environ leaves the caches alone.
LEMMA SetEnvStep ==
  ASSUME CacheInv, NEW p \in Proc, NEW v \in Settable, NEW x \in Setting, SetEnv(p, v, x)
  PROVE  CacheInv'
<1>1. /\ environ' = [environ EXCEPT ![p][v] = x]
      /\ UNCHANGED <<caches, frozen, disabled, told, inherited, names>>
  BY DEF SetEnv
<1>2. v \in Var /\ v \notin Generated
  BY DEF Settable
<1>3. environ' \in [Proc -> Environ]
  BY <1>1, <1>2 DEF CacheInv, Types, Environ
<1>4. \A q \in Proc, u \in Var :
        environ'[q][u] \in (IF u \in Generated THEN Name \cup {Unset} ELSE Setting)
  BY <1>1, <1>2 DEF CacheInv, Types, Environ
<1> QED
  BY <1>1, <1>3, <1>4 DEF CacheInv, Types, Layers, Returned

\* A child has a copy of its parent's environment, and of its caches or of none.
LEMMA StartStep ==
  ASSUME CacheInv, NEW p \in Proc, NEW q \in Proc, NEW method \in {"fork", "spawn"},
         StartProcess(p, q, method)
  PROVE  CacheInv'
<1>1. /\ environ' = [environ EXCEPT ![q] = environ[p]]
      /\ inherited' = [inherited EXCEPT ![q] = told[p]]
      /\ UNCHANGED <<told, names>>
  BY DEF StartProcess
<1>2. CASE method = "fork"
  <2>1. /\ caches' = [caches EXCEPT ![q] = caches[p]]
        /\ frozen' = [frozen EXCEPT ![q] = frozen[p]]
        /\ disabled' = [disabled EXCEPT ![q] = disabled[p]]
    BY <1>2 DEF StartProcess
  <2>2. Types'
    BY <1>1, <2>1 DEF CacheInv, Types, Returned
  <2>3. Layers'
    BY <2>1 DEF CacheInv, Types, Layers
  <2> QED
    BY <2>2, <2>3 DEF CacheInv
<1>3. CASE method # "fork"
  <2>1. UNCHANGED <<caches, frozen, disabled>>
    BY <1>3 DEF StartProcess
  <2>2. Types'
    BY <1>1, <2>1 DEF CacheInv, Types, Returned
  <2> QED
    BY <2>1, <2>2 DEF CacheInv, Layers
<1> QED
  BY <1>2, <1>3

\* The first process starts without a cache.
LEMMA InitCache == Init => CacheInv
<1> SUFFICES ASSUME Init PROVE CacheInv
  OBVIOUS
<1>1. PICK env \in [Settable -> Setting] :
        environ = [p \in Proc |-> [v \in Var |-> IF v \in Settable THEN env[v] ELSE Unset]]
  BY DEF Init
<1>2. /\ environ \in [Proc -> Environ]
      /\ \A p \in Proc, v \in Var :
           environ[p][v] \in (IF v \in Generated THEN Name \cup {Unset} ELSE Setting)
  BY <1>1 DEF Environ, Settable, Setting
<1>3. /\ caches = [p \in Proc |-> <<>>]
      /\ frozen = [p \in Proc |-> Nothing] /\ disabled = [p \in Proc |-> FALSE]
      /\ told = [p \in Proc |-> {}] /\ inherited = [p \in Proc |-> {}] /\ names = 0
  BY DEF Init
<1>4. \A p \in Proc : caches[p] \in Seq(Layer) /\ Len(caches[p]) = 0
  BY <1>3
<1>5. Types
  BY <1>2, <1>3, <1>4, ValueAssumption DEF Types
<1>6. Layers
  BY <1>3, <1>4 DEF Layers
<1> QED
  BY <1>5, <1>6 DEF CacheInv

\* Every step keeps the invariant.
LEMMA CacheStep == CacheInv /\ [Next]_vars => CacheInv'
<1> SUFFICES ASSUME CacheInv, [Next]_vars PROVE CacheInv'
  OBVIOUS
<1>1. CASE UNCHANGED vars
  BY <1>1 DEF vars, CacheInv, Types, Layers, Returned
<1> QED
  BY <1>1, ReadStep, EnableStep, DisableStep, SetEnvStep, StartStep DEF Next

\* The cache's layers are as Layers says in every reachable state.
LEMMA CacheInvariant == Spec => []CacheInv
  BY InitCache, CacheStep, PTL DEF Spec

-----------------------------------------------------------------------------
\* Only processes of the tree are started.
LEMMA AliveTyped == Spec => [](alive \subseteq Proc)
<1>1. Init => alive \subseteq Proc
  BY ValueAssumption DEF Init
<1>2. alive \subseteq Proc /\ [Next]_vars => (alive \subseteq Proc)'
  BY DEF Next, vars, Read, EnableEnvsCache, DisableEnvsCache, SetEnv, StartProcess
<1> QED
  BY <1>1, <1>2, PTL DEF Spec

\* What enable_envs_cache found is what every later read returns, until the
\* cache is disabled (enable_envs_cache, __getattr__).
THEOREM EnabledStaysFrozen == Spec => []FrozenAfterEnable
<1>1. ASSUME CacheInv, NEW p \in alive, alive \subseteq Proc, frozen[p] # Nothing, NEW v \in Var
      PROVE  Lookup(p, v) = frozen[p][v]
  BY <1>1, Cached DEF CacheInv, Layers
<1>2. CacheInv /\ alive \subseteq Proc => FrozenAfterEnable
  BY <1>1 DEF FrozenAfterEnable
<1> QED
  BY <1>2, AliveTyped, CacheInvariant, PTL

\* After disable_envs_cache every read is the getter's, raising or not
\* (disable_envs_cache).
THEOREM DisabledIsLive == Spec => []DisabledReadsLive
<1>1. ASSUME CacheInv, NEW p \in Proc, disabled[p], NEW v \in Var
      PROVE  /\ LookupRaises(p, v) = Raises(environ[p], v)
             /\ Lookup(p, v) = Getter(environ[p], v)
  BY <1>1, Uncached DEF CacheInv, Layers
<1>2. CacheInv /\ alive \subseteq Proc => DisabledReadsLive
  BY <1>1 DEF DisabledReadsLive
<1> QED
  BY <1>2, AliveTyped, CacheInvariant, PTL

-----------------------------------------------------------------------------
(* compile_factors                                                         *)

\* Getters of variables that are not made up agree where the settings do.
LEMMA GettersAgree ==
  ASSUME NEW e, NEW f, \A u \in Settable : e[u] = f[u], NEW v \in Settable
  PROVE  Raises(e, v) = Raises(f, v) /\ Getter(e, v) = Getter(f, v)
<1>1. v \in Var /\ Entry(v).kind \in {"checked", "derived"} /\ e[v] = f[v]
  BY RegistryAssumption DEF Settable, Generated
<1>2. CASE Entry(v).kind = "checked"
  BY <1>1, <1>2 DEF Raises, RaisesChecked, Getter, Default
<1>3. CASE Entry(v).kind = "derived"
  <2>1. Entry(v).from \in Settable
    BY <1>1, <1>3, RegistryAssumption DEF Settable, Generated
  <2>2. e[Entry(v).from] = f[Entry(v).from]
    BY <2>1
  <2> QED
    BY <1>1, <1>3, <2>2 DEF Raises, RaisesChecked, Getter, Default
<1> QED
  BY <1>1, <1>2, <1>3

\* Where the variables that are made up are ignored, processes with the same
\* settings have the same compile factors, whatever is cached in them
\* (compile_factors).
THEOREM FactorsAgree ==
  ASSUME \A v \in Generated : Ignored(v)
  PROVE  Spec => []FactorsAligned
<1>1. FactorsAligned
  <2> SUFFICES ASSUME NEW p \in alive, NEW q \in alive,
                      \A v \in Settable : environ[p][v] = environ[q][v]
               PROVE  CompileFactors(p) = CompileFactors(q)
    BY DEF FactorsAligned
  <2>1. \A v \in Settable : /\ Raises(environ[p], v) = Raises(environ[q], v)
                            /\ Getter(environ[p], v) = Getter(environ[q], v)
    BY GettersAgree
  <2>2. \A v \in Var : ~Ignored(v) => v \in Settable
    BY DEF Settable
  <2> DEFINE keys(r) == {u \in Var : ~Ignored(u) /\ ~Raises(environ[r], u)}
  <2>3. keys(p) = keys(q)
    BY <2>1, <2>2
  <2>4. \A v \in keys(p) : Getter(environ[p], v) = Getter(environ[q], v)
    BY <2>1, <2>2
  <2>5. /\ CompileFactors(p) = [v \in keys(p) |-> Getter(environ[p], v)]
        /\ CompileFactors(q) = [v \in keys(q) |-> Getter(environ[q], v)]
    BY DEF CompileFactors
  <2> HIDE DEF keys
  <2> QED
    BY <2>3, <2>4, <2>5
<1> QED
  BY <1>1, PTL

-----------------------------------------------------------------------------
(* The name that is made up.                                               *)

\* Of the variable g, os.environ has what was told, inherited or cached; a
\* process that was not started was told nothing.
NameInv(g) ==
  \A p \in Proc :
    /\ told[p] \subseteq {environ[p][g]}
    /\ inherited[p] \subseteq {environ[p][g]}
    /\ \A i \in 1 .. Len(caches[p]) : caches[p][i][g] \in {Nothing, environ[p][g]}
    /\ p \notin alive => told[p] = {} /\ Len(caches[p]) = 0

\* A name once there is not replaced, and a read tells the one that is there
\* after it.
LEMMA EffectsName ==
  ASSUME CacheInv, NEW g \in Var, Generated = {g}, NameInv(g),
         NEW p \in Proc, NEW read \in SUBSET Var, Effects(p, read),
         \A v \in read : Lookup(p, v) \in Returned(v)
  PROVE  /\ environ[p][g] # Unset => environ'[p][g] = environ[p][g]
         /\ g \in read => Lookup(p, g) = environ'[p][g]
         /\ \A q \in Proc : q # p => environ'[q] = environ[q] /\ told'[q] = told[q]
         /\ told'[p] \subseteq {environ'[p][g]}
<1>1. environ' = [environ EXCEPT ![p] = EnvironAfter(environ[p], Run(p, read))]
  BY DEF Effects
<1>2. environ'[p][g] = IF g \in Run(p, read) THEN Getter(environ[p], g) ELSE environ[p][g]
  BY <1>1 DEF EnvironAfter, WritesBack, CacheInv, Types
<1>3. environ[p][g] # Unset => Getter(environ[p], g) = environ[p][g]
  BY DEF Getter, Generated
<1>4. environ[p][g] # Unset => environ'[p][g] = environ[p][g]
  BY <1>2, <1>3
<1>5. g \in read => Lookup(p, g) = environ'[p][g]
  <2> SUFFICES ASSUME g \in read PROVE Lookup(p, g) = environ'[p][g]
    OBVIOUS
  <2>1. CASE Hits(p, g) = {}
    <3>1. g \in Run(p, read) /\ Lookup(p, g) = Getter(environ[p], g)
      BY <2>1 DEF Run, Lookup
    <3> QED
      BY <1>2, <3>1
  <2>2. CASE Hits(p, g) # {}
    <3>1. PICK i \in 1 .. Len(caches[p]) : caches[p][i][g] # Nothing
      BY <2>2 DEF Hits
    <3>2. Len(caches[p]) \in Nat /\ Len(caches[p]) <= 1
      BY DEF CacheInv, Types, Layers
    <3>3. i = 1 /\ Len(caches[p]) = 1
      BY <3>1, <3>2, OneLayer
    <3>4. Lookup(p, g) = caches[p][1][g]
      BY <3>1, <3>3, Cached
    <3>5. caches[p][1][g] = environ[p][g]
      BY <3>1, <3>3 DEF NameInv
    <3>6. g \notin Run(p, read)
      BY <2>2 DEF Run
    <3> QED
      BY <1>2, <3>4, <3>5, <3>6
  <2> QED
    BY <2>1, <2>2
<1>6. /\ told' = [told EXCEPT ![p] = told[p] \cup {Lookup(p, v) : v \in read \cap {g}}]
  BY DEF Effects, ToldAfter
<1>7. told[p] \subseteq {environ'[p][g]}
  <2>1. told[p] # {} => environ[p][g] # Unset
    BY ValueAssumption DEF NameInv, CacheInv, Types
  <2> QED
    BY <1>4, <2>1 DEF NameInv
<1>8. told'[p] \subseteq {environ'[p][g]}
  BY <1>5, <1>6, <1>7 DEF CacheInv, Types
<1>9. \A q \in Proc : q # p => environ'[q] = environ[q] /\ told'[q] = told[q]
  BY <1>1, <1>6 DEF CacheInv, Types
<1> QED
  BY <1>4, <1>5, <1>8, <1>9

\* What was inherited or cached stays what os.environ has, after an effect that
\* does not replace it.
LEMMA NameKept ==
  ASSUME CacheInv, NEW g \in Var, Generated = {g}, NameInv(g), NEW q \in Proc,
         environ[q][g] # Unset => environ'[q][g] = environ[q][g]
  PROVE  /\ inherited[q] \subseteq {environ'[q][g]}
         /\ \A i \in 1 .. Len(caches[q]) : caches[q][i][g] \in {Nothing, environ'[q][g]}
<1>1. inherited[q] # {} => environ[q][g] # Unset
  BY ValueAssumption DEF NameInv, CacheInv, Types
<1>2. \A i \in 1 .. Len(caches[q]) : caches[q][i][g] # Nothing => environ[q][g] # Unset
  BY ValueAssumption DEF NameInv, CacheInv, Types, Returned
<1> QED
  BY <1>1, <1>2 DEF NameInv

\* Every step keeps the name.
LEMMA NameStep ==
  ASSUME NEW g \in Var, Generated = {g}
  PROVE  CacheInv /\ NameInv(g) /\ [Next]_vars => NameInv(g)'
<1> SUFFICES ASSUME CacheInv, NameInv(g), [Next]_vars PROVE NameInv(g)'
  OBVIOUS
<1>1. ASSUME NEW p \in Proc, NEW v \in Var, Read(p, v) PROVE NameInv(g)'
  <2>1. /\ Effects(p, {v}) /\ p \in alive /\ ~LookupRaises(p, v)
        /\ caches' = [caches EXCEPT ![p] =
             [i \in 1 .. Len(caches[p]) |->
               IF caches[p][i][v] = Nothing THEN [caches[p][i] EXCEPT ![v] = Lookup(p, v)]
               ELSE caches[p][i]]]
        /\ UNCHANGED <<alive, inherited>>
    BY <1>1 DEF Read
  <2>2. Lookup(p, v) \in Returned(v)
    BY <2>1, EffectsTypes
  <2>3. /\ environ[p][g] # Unset => environ'[p][g] = environ[p][g]
        /\ v = g => Lookup(p, g) = environ'[p][g]
        /\ \A q \in Proc : q # p => environ'[q] = environ[q] /\ told'[q] = told[q]
        /\ told'[p] \subseteq {environ'[p][g]}
    BY <2>1, <2>2, EffectsName
  <2> SUFFICES ASSUME NEW q \in Proc
      PROVE  /\ told'[q] \subseteq {environ'[q][g]}
             /\ inherited'[q] \subseteq {environ'[q][g]}
             /\ \A i \in 1 .. Len(caches'[q]) : caches'[q][i][g] \in {Nothing, environ'[q][g]}
             /\ q \notin alive' => told'[q] = {} /\ Len(caches'[q]) = 0
    BY DEF NameInv
  <2>4. CASE q = p
    <3>1. /\ inherited[p] \subseteq {environ'[p][g]}
          /\ \A i \in 1 .. Len(caches[p]) : caches[p][i][g] \in {Nothing, environ'[p][g]}
      BY <2>3, NameKept
    <3> DEFINE filled == [i \in 1 .. Len(caches[p]) |->
               IF caches[p][i][v] = Nothing THEN [caches[p][i] EXCEPT ![v] = Lookup(p, v)]
               ELSE caches[p][i]]
    <3>2. Len(caches[p]) \in Nat /\ Len(filled) = Len(caches[p])
      BY DEF CacheInv, Types
    <3>3. \A i \in 1 .. Len(caches[p]) : filled[i][g] \in {Nothing, environ'[p][g]}
      <4> SUFFICES ASSUME NEW i \in 1 .. Len(caches[p])
                   PROVE  filled[i][g] \in {Nothing, environ'[p][g]}
        OBVIOUS
      <4>1. caches[p][i] \in Layer
        BY DEF CacheInv, Types
      <4>2. filled[i][g] = IF caches[p][i][v] = Nothing /\ v = g THEN Lookup(p, v)
                           ELSE caches[p][i][g]
        BY <4>1 DEF Layer
      <4> QED
        BY <2>3, <3>1, <4>2
    <3>4. caches'[p] = filled
      BY <2>1 DEF CacheInv, Types
    <3> HIDE DEF filled
    <3> QED
      BY <2>1, <2>3, <2>4, <3>1, <3>2, <3>3, <3>4
  <2>5. CASE q # p
    BY <2>1, <2>3, <2>5 DEF NameInv, CacheInv, Types
  <2> QED
    BY <2>4, <2>5
<1>2. ASSUME NEW p \in Proc, EnableEnvsCache(p) PROVE NameInv(g)'
  <2> DEFINE layer == CachedByEnable(p)
  <2>1. /\ Len(caches[p]) = 0 /\ p \in alive
        /\ Effects(p, Populated(p))
        /\ caches' = [caches EXCEPT ![p] = Append(caches[p], layer)]
        /\ UNCHANGED <<alive, inherited>>
    BY <1>2 DEF EnableEnvsCache, Enabled, CacheInv, Types
  <2>2. Populated(p) \in SUBSET Var /\ \A v \in Populated(p) : ~LookupRaises(p, v)
    BY PopulatedReads
  <2>3. \A v \in Populated(p) : Lookup(p, v) \in Returned(v)
    BY <2>1, <2>2, EffectsTypes
  <2>4. /\ environ[p][g] # Unset => environ'[p][g] = environ[p][g]
        /\ g \in Populated(p) => Lookup(p, g) = environ'[p][g]
        /\ \A q \in Proc : q # p => environ'[q] = environ[q] /\ told'[q] = told[q]
        /\ told'[p] \subseteq {environ'[p][g]}
    BY <2>1, <2>2, <2>3, EffectsName
  <2>5. layer[g] \in {Nothing, environ'[p][g]}
    BY <2>4 DEF CachedByEnable
  <2> HIDE DEF layer
  <2>6. /\ Len(Append(caches[p], layer)) = 1
        /\ Append(caches[p], layer)[1] = layer
    BY <2>1 DEF CacheInv, Types
  <2> SUFFICES ASSUME NEW q \in Proc
      PROVE  /\ told'[q] \subseteq {environ'[q][g]}
             /\ inherited'[q] \subseteq {environ'[q][g]}
             /\ \A i \in 1 .. Len(caches'[q]) : caches'[q][i][g] \in {Nothing, environ'[q][g]}
             /\ q \notin alive' => told'[q] = {} /\ Len(caches'[q]) = 0
    BY DEF NameInv
  <2>7. CASE q = p
    <3>1. inherited[p] \subseteq {environ'[p][g]}
      BY <2>4, NameKept
    <3>2. caches'[p] = Append(caches[p], layer)
      BY <2>1 DEF CacheInv, Types
    <3> QED
      BY <2>1, <2>4, <2>5, <2>6, <2>7, <3>1, <3>2
  <2>8. CASE q # p
    BY <2>1, <2>4, <2>8 DEF NameInv, CacheInv, Types
  <2> QED
    BY <2>7, <2>8
<1>3. ASSUME NEW p \in Proc, DisableEnvsCache(p) PROVE NameInv(g)'
  <2> DEFINE rest == SubSeq(caches[p], 1, Len(caches[p]) - 1)
  <2>1. /\ caches' = [caches EXCEPT ![p] = rest]
        /\ UNCHANGED <<alive, environ, told, inherited>>
    BY <1>3 DEF DisableEnvsCache
  <2>2. Len(rest) = 0
    <3>1. caches[p] \in Seq(Layer) /\ caches[p] # <<>> /\ Len(caches[p]) <= 1
      BY <1>3 DEF DisableEnvsCache, CacheInv, Types, Layers
    <3>2. Len(caches[p]) \in Nat \ {0}
      BY <3>1, EmptySeq
    <3>3. Len(caches[p]) = 1
      BY <3>1, <3>2, OneLayer
    <3> QED
      BY <3>1, <3>3
  <2> HIDE DEF rest
  <2> QED
    BY <2>1, <2>2 DEF NameInv, CacheInv, Types
<1>4. ASSUME NEW p \in Proc, NEW v \in Settable, NEW x \in Setting, SetEnv(p, v, x)
      PROVE  NameInv(g)'
  <2>1. /\ environ' = [environ EXCEPT ![p][v] = x]
        /\ UNCHANGED <<alive, caches, told, inherited>>
    BY <1>4 DEF SetEnv
  <2>2. v # g
    BY DEF Settable
  <2>3. \A q \in Proc : environ'[q][g] = environ[q][g]
    BY <2>1, <2>2 DEF CacheInv, Types, Environ
  <2> QED
    BY <2>1, <2>3 DEF NameInv
<1>5. ASSUME NEW p \in Proc, NEW q \in Proc, NEW method \in {"fork", "spawn"},
             StartProcess(p, q, method)
      PROVE  NameInv(g)'
  <2>1. /\ q \notin alive /\ alive' = alive \cup {q}
        /\ environ' = [environ EXCEPT ![q] = environ[p]]
        /\ inherited' = [inherited EXCEPT ![q] = told[p]]
        /\ told' = told
        /\ caches' = caches \/ caches' = [caches EXCEPT ![q] = caches[p]]
    BY <1>5 DEF StartProcess
  <2>2. told[q] = {} /\ Len(caches[q]) = 0
    BY <2>1 DEF NameInv
  <2> SUFFICES ASSUME NEW r \in Proc
      PROVE  /\ told'[r] \subseteq {environ'[r][g]}
             /\ inherited'[r] \subseteq {environ'[r][g]}
             /\ \A i \in 1 .. Len(caches'[r]) : caches'[r][i][g] \in {Nothing, environ'[r][g]}
             /\ r \notin alive' => told'[r] = {} /\ Len(caches'[r]) = 0
    BY DEF NameInv
  <2>3. CASE r = q
    <3>1. environ'[q] = environ[p] /\ inherited'[q] = told[p]
      BY <2>1 DEF CacheInv, Types
    <3>2. caches'[q] = caches[p] \/ Len(caches'[q]) = 0
      BY <2>1, <2>2 DEF CacheInv, Types
    <3> QED
      BY <2>1, <2>2, <2>3, <3>1, <3>2 DEF NameInv
  <2>4. CASE r # q
    BY <2>1, <2>4 DEF NameInv, CacheInv, Types
  <2> QED
    BY <2>3, <2>4
<1>6. CASE UNCHANGED vars
  BY <1>6 DEF vars, NameInv
<1> QED
  BY <1>1, <1>2, <1>3, <1>4, <1>5, <1>6 DEF Next

\* With one variable that is made up, as in the code, a process is told one
\* name, and the one its parent had been told before (get_env_or_set_default).
THEOREM OneNamePerTree ==
  ASSUME NEW g \in Var, Generated = {g}
  PROVE  Spec => []NameAgrees
<1>1. Init => NameInv(g)
  <2> SUFFICES ASSUME Init PROVE NameInv(g)
    OBVIOUS
  <2>1. \A p \in Proc : told[p] = {} /\ inherited[p] = {} /\ Len(caches[p]) = 0
    BY DEF Init
  <2>2. \A p \in Proc : \A i \in 1 .. Len(caches[p]) : FALSE
    BY <2>1
  <2> QED
    BY <2>1, <2>2 DEF NameInv
<1>2. CacheInv /\ NameInv(g) /\ [Next]_vars => NameInv(g)'
  BY NameStep
<1>3. NameInv(g) /\ alive \subseteq Proc => NameAgrees
  <2> SUFFICES ASSUME NameInv(g), NEW p \in Proc
      PROVE  /\ Cardinality(told[p]) <= 1
             /\ inherited[p] # {} => told[p] \subseteq inherited[p]
    BY DEF NameAgrees
  <2>1. told[p] = {} \/ told[p] = {environ[p][g]}
    BY DEF NameInv
  <2>2. Cardinality(told[p]) <= 1
    <3>1. CASE told[p] = {}
      BY <3>1, FS_EmptySet
    <3>2. CASE told[p] = {environ[p][g]}
      <4>1. Cardinality({environ[p][g]}) = 1
        BY FS_Singleton
      <4> QED
        BY <3>2, <4>1
    <3> QED
      BY <2>1, <3>1, <3>2
  <2> QED
    BY <2>2 DEF NameInv
<1>4. Spec => [](alive \subseteq Proc)
  BY AliveTyped
<1> QED
  BY <1>1, <1>2, <1>3, <1>4, CacheInvariant, PTL DEF Spec
=============================================================================
