---------------------------- MODULE EnvRegistry ----------------------------
(***************************************************************************)
(* The registry of environment variables (envs.py) in a tree of processes. *)
(* A variable is read through its getter, which takes it from os.environ   *)
(* at that moment, until enable_envs_cache wraps __getattr__ in a cache.   *)
(* A child starts with a copy of its parent's os.environ and, forked, of   *)
(* its parent's caches.                                                    *)
(*                                                                         *)
(* The registry's entries are abstracted to what a getter does beyond      *)
(* reading its variable: it raises on an invalid value, it takes its       *)
(* default from another variable, or it makes its default up and writes it *)
(* back.  What is done with the values is outside this module.             *)
(***************************************************************************)
EXTENDS Integers, Sequences, FiniteSets

CONSTANTS
  Proc,      \* processes of the tree
  Root,      \* the first of them
  Registry,  \* the entries of environment_variables, in their order
  Value,     \* the valid values
  Bad,       \* a value that is no number, or none of the choices
  Unset,     \* not in os.environ
  Nothing,   \* not in a cache, no cache
  MaxSets,   \* bound: the changes of os.environ after the start
  MaxNames   \* bound: the names made up

Var == {Registry[i].name : i \in 1 .. Len(Registry)}
Entry(v) == Registry[CHOOSE i \in 1 .. Len(Registry) : Registry[i].name = v]

\* `kind' of an entry: checked, derived from the checked variable `from', or
\* generated; `ignored': one of the ignored_factors.
ASSUME RegistryAssumption ==
  /\ \A i, j \in 1 .. Len(Registry) : Registry[i].name = Registry[j].name => i = j
  /\ \A v \in Var :
       /\ Entry(v).kind \in {"checked", "derived", "generated"}
       /\ Entry(v).ignored \in BOOLEAN
       /\ Entry(v).kind = "derived" =>
            Entry(v).from \in Var /\ Entry(Entry(v).from).kind = "checked"

Name == {<<"name", i>> : i \in 1 .. MaxNames}   \* uuid4: no two are the same

ASSUME ValueAssumption ==
  /\ Root \in Proc /\ {"0", "1"} \subseteq Value
  /\ Bad \notin Value /\ Unset \notin Value \cup {Bad} /\ Unset \notin Name
  /\ Nothing \notin Value /\ Nothing \notin Name
  /\ MaxSets \in Nat /\ MaxNames \in Nat

Generated == {v \in Var : Entry(v).kind = "generated"}
Settable == Var \ Generated
Setting == Value \cup {Bad, Unset}

VARIABLES
  alive,      \* the processes that were started
  environ,    \* os.environ of each
  caches,     \* the layers of functools.cache around __getattr__, outermost last
  frozen,     \* the values when its enable_envs_cache ran through, or Nothing
  disabled,   \* its disable_envs_cache ran last (history)
  told,       \* the names each process was told (history)
  inherited,  \* the names its parent had been told when it started (history)
  sets,       \* the changes of os.environ so far
  names       \* the names made up so far

vars == <<alive, environ, caches, frozen, disabled, told, inherited, sets, names>>

Init ==
  /\ alive = {Root}
  /\ \E env \in [Settable -> Setting] :
       environ = [p \in Proc |-> [v \in Var |-> IF v \in Settable THEN env[v] ELSE Unset]]
  /\ caches = [p \in Proc |-> <<>>]
  /\ frozen = [p \in Proc |-> Nothing]
  /\ disabled = [p \in Proc |-> FALSE]
  /\ told = [p \in Proc |-> {}] /\ inherited = [p \in Proc |-> {}]
  /\ sets = 0 /\ names = 0

-----------------------------------------------------------------------------
(* The getters.                                                            *)

\* int(), env_with_choices, env_list_with_choices, env_set_with_choices and
\* get_vllm_port raise on a value that is set and invalid.
RaisesChecked(env, v) == env[v] = Bad

\* use_aot_compile works out its default in any
\* case, from a variable that may raise.
Raises(env, v) ==
  CASE Entry(v).kind = "checked" -> RaisesChecked(env, v)
    [] Entry(v).kind = "derived" -> RaisesChecked(env, Entry(v).from)
    [] OTHER -> FALSE

Default(env, v) ==
  IF Entry(v).kind = "derived" /\ env[Entry(v).from] = "1" THEN "0"
  ELSE IF Entry(v).kind = "derived" THEN "1" ELSE "0"

\* What the getter returns where it does not raise: a generated variable that
\* is not set gets the next name.  A derived one compares with "1".
Getter(env, v) ==
  IF Entry(v).kind = "generated" THEN (IF env[v] = Unset THEN <<"name", names + 1>> ELSE env[v])
  ELSE LET set == IF env[v] = Unset THEN Default(env, v) ELSE env[v]
       IN IF Entry(v).kind = "derived" THEN (IF set = "1" THEN "1" ELSE "0") ELSE set

\* Mutant: a name made up is not written to os.environ.
WritesBackNot(v) == FALSE

\* get_env_or_set_default writes what it made up.
WritesBack(v) == v \in Generated

\* os.environ after the getters of `read' have run.
EnvironAfter(env, read) ==
  [v \in Var |-> IF v \in read /\ WritesBack(v) THEN Getter(env, v) ELSE env[v]]

MadeUp(env, read) == \E v \in read \cap Generated : env[v] = Unset

-----------------------------------------------------------------------------
(* __getattr__ and its cache.                                              *)

Hits(p, v) == {i \in 1 .. Len(caches[p]) : caches[p][i][v] # Nothing}

\* What a read returns: the outermost layer that has it, or the getter.
Lookup(p, v) ==
  IF Hits(p, v) = {} THEN Getter(environ[p], v)
  ELSE caches[p][CHOOSE i \in Hits(p, v) : \A j \in Hits(p, v) : j <= i][v]

LookupRaises(p, v) == Hits(p, v) = {} /\ Raises(environ[p], v)

\* The getters that a read of each of `read' runs.
Run(p, read) == {v \in read : Hits(p, v) = {}}

ToldAfter(p, read) ==
  [told EXCEPT ![p] = @ \cup {Lookup(p, v) : v \in read \cap Generated}]

\* A read by p of the variables in `read', none of which raises.
Effects(p, read) ==
  /\ MadeUp(environ[p], Run(p, read)) => names < MaxNames
  /\ names' = IF MadeUp(environ[p], Run(p, read)) THEN names + 1 ELSE names
  /\ environ' = [environ EXCEPT ![p] = EnvironAfter(@, Run(p, read))]
  /\ told' = ToldAfter(p, read)

\* envs.X: every layer the read passes keeps what it returns; an exception is
\* not kept.
Read(p, v) ==
  /\ p \in alive /\ ~LookupRaises(p, v)
  /\ Effects(p, {v})
  /\ caches' = [caches EXCEPT ![p] =
       [i \in 1 .. Len(@) |-> IF @[i][v] = Nothing THEN [@[i] EXCEPT ![v] = Lookup(p, v)] ELSE @[i]]]
  /\ UNCHANGED <<alive, frozen, disabled, inherited, sets>>

\* Mutant: a cache around a cache.
EnabledNever(p) == FALSE

\* _is_envs_cache_enabled
Enabled(p) == caches[p] # <<>>

\* The entries that enable_envs_cache reads: those up to the first that raises.
Populated(p) ==
  {Registry[i].name : i \in {j \in 1 .. Len(Registry) :
     \A k \in 1 .. j : ~LookupRaises(p, Registry[k].name)}}

\* Mutant: the cache is left to fill as variables are read.
CachedByEnableNone(p) == [v \in Var |-> Nothing]

CachedByEnable(p) ==
  [v \in Var |-> IF v \in Populated(p) THEN Lookup(p, v) ELSE Nothing]

\* enable_envs_cache wraps __getattr__ first; where a getter raises, so does it,
\* and the wrapped __getattr__ stays.
EnableEnvsCache(p) ==
  /\ p \in alive /\ ~Enabled(p)
  /\ Effects(p, Populated(p))
  /\ caches' = [caches EXCEPT ![p] = Append(@, CachedByEnable(p))]
  /\ frozen' = [frozen EXCEPT ![p] =
       IF Populated(p) = Var THEN [v \in Var |-> Lookup(p, v)] ELSE Nothing]
  /\ disabled' = [disabled EXCEPT ![p] = FALSE]
  /\ UNCHANGED <<alive, inherited, sets>>

\* disable_envs_cache unwraps one layer.
DisableEnvsCache(p) ==
  /\ p \in alive /\ caches[p] # <<>>
  /\ caches' = [caches EXCEPT ![p] = SubSeq(@, 1, Len(@) - 1)]
  /\ frozen' = [frozen EXCEPT ![p] = Nothing]
  /\ disabled' = [disabled EXCEPT ![p] = TRUE]
  /\ UNCHANGED <<alive, environ, told, inherited, sets, names>>

-----------------------------------------------------------------------------
(* The processes.                                                          *)

\* Something assigns to os.environ, or deletes from it.
SetEnv(p, v, x) ==
  /\ p \in alive /\ sets < MaxSets /\ environ[p][v] # x
  /\ environ' = [environ EXCEPT ![p][v] = x]
  /\ sets' = sets + 1
  /\ UNCHANGED <<alive, caches, frozen, disabled, told, inherited, names>>

\* p starts q, by the VLLM_WORKER_MULTIPROC_METHOD.
StartProcess(p, q, method) ==
  /\ p \in alive /\ q \notin alive
  /\ alive' = alive \cup {q}
  /\ environ' = [environ EXCEPT ![q] = environ[p]]
  /\ IF method = "fork"
       THEN /\ caches' = [caches EXCEPT ![q] = caches[p]]
            /\ frozen' = [frozen EXCEPT ![q] = frozen[p]]
            /\ disabled' = [disabled EXCEPT ![q] = disabled[p]]
       ELSE UNCHANGED <<caches, frozen, disabled>>
  /\ inherited' = [inherited EXCEPT ![q] = told[p]]
  /\ UNCHANGED <<told, sets, names>>

Next ==
  \/ \E p \in Proc, v \in Var : Read(p, v)
  \/ \E p \in Proc : EnableEnvsCache(p) \/ DisableEnvsCache(p)
  \/ \E p \in Proc, v \in Settable, x \in Setting : SetEnv(p, v, x)
  \/ \E p, q \in Proc, method \in {"fork", "spawn"} : StartProcess(p, q, method)

Spec == Init /\ [][Next]_vars

-----------------------------------------------------------------------------
(* compile_factors                                                         *)

\* Mutant: a generated name is part of the compile cache's key.
IgnoredNotGenerated(v) == Entry(v).ignored /\ v \notin Generated

Ignored(v) == Entry(v).ignored

\* The factors of p's compile cache key: the getters are called past the cache,
\* an entry that raises is skipped.
CompileFactors(p) ==
  [v \in {u \in Var : ~Ignored(u) /\ ~Raises(environ[p], u)} |-> Getter(environ[p], v)]

-----------------------------------------------------------------------------
(* Properties.                                                             *)

TypeOK ==
  /\ alive \subseteq Proc
  /\ \A p \in Proc, v \in Var :
       environ[p][v] \in (IF v \in Generated THEN Name \cup {Unset} ELSE Setting)
  /\ \A p \in Proc : \A i \in 1 .. Len(caches[p]) : \A v \in Var :
       caches[p][i][v] \in {Nothing} \cup (IF v \in Generated THEN Name ELSE Value)
  /\ disabled \in [Proc -> BOOLEAN]
  /\ told \in [Proc -> SUBSET Name] /\ inherited \in [Proc -> SUBSET Name]
  /\ sets \in 0 .. MaxSets /\ names \in 0 .. MaxNames

\* After an enable_envs_cache that ran through, every variable keeps the value
\* it had then, whatever is set in os.environ later, in the process and in those
\* it forks, until the cache is disabled.
FrozenAfterEnable ==
  \A p \in alive : frozen[p] # Nothing =>
    \A v \in Var : Lookup(p, v) = frozen[p][v]

\* After disable_envs_cache nothing is cached: every variable is what
\* os.environ says, whatever was enabled, half enabled and forked before.
DisabledReadsLive ==
  \A p \in alive : disabled[p] =>
    \A v \in Var : LookupRaises(p, v) = Raises(environ[p], v) /\
                   (~Raises(environ[p], v) => Lookup(p, v) = Getter(environ[p], v))

\* The buffer name is one per process tree, as far as the getter can see to it:
\* a process is told one name only, and the one its parent had been told
\* before it was started.
NameAgrees ==
  \A p \in alive :
    /\ Cardinality(told[p]) <= 1
    /\ inherited[p] # {} => told[p] \subseteq inherited[p]

\* Processes whose settings agree have the same compile factors, whichever of
\* them enabled the cache and when, and whichever made up the buffer name.
FactorsAligned ==
  \A p, q \in alive :
    (\A v \in Settable : environ[p][v] = environ[q][v]) =>
      CompileFactors(p) = CompileFactors(q)
=============================================================================
