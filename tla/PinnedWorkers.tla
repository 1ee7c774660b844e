---------------------------- MODULE PinnedWorkers ----------------------------
(***************************************************************************)
(* EngineCache with -use-affinity: a worker takes a core of the pool in    *)
(* its first game and keeps it; the engines it starts are pinned to it.    *)
(* The reason for a cache per thread is in playGame: an engine must be     *)
(* used by no other worker than the one on whose core it runs.             *)
(***************************************************************************)
EXTENDS EngineCache, Affinity, Sequences

CONSTANTS
    Machines,   \* the machines looked at
    Selected,   \* the processors named by -use-affinity, <<>> for all
    Options,    \* the options configured for the engines, as sequences of configurations
    NoCpus      \* a worker or a process without processors of its own

\* The physical cores of a machine, and the one that a processor belongs to.
Cores(m) == {CoreOf(p) : p \in Processors(m)}
PhysicalCore(m, id) == CoreOf(CHOOSE p \in Processors(m) : p.id = id)
OnOtherCores(m, a, b) == \A x \in a, y \in b : PhysicalCore(m, x) # PhysicalCore(m, y)

\* At most two processors to a core.
TwoWay(m) ==
    \A c \in Cores(m) : Cardinality({p \in Processors(m) : CoreOf(p) = c}) <= 2

\* What setupCores and setupSelectedCores make of a machine: entries with a processor
\* each and no processor twice, a physical core each before any core comes again.
Spread(p, m) ==
    /\ \A i, j \in DOMAIN p : i # j => p[i].cpus \cap p[j].cpus = {}
    /\ TwoWay(m) /\ SameCores(p, SetupCores(m)) =>
         \A i, j \in DOMAIN p :
            i # j /\ i <= Cardinality(Cores(m)) /\ j <= Cardinality(Cores(m))
               => OnOtherCores(m, p[i].cpus, p[j].cpus)

SoundPool(m, selected) ==
    LET p == NewPool(TRUE, m, selected)
    IN /\ p \in Seq([cpus : (SUBSET Int) \ {{}}, available : {TRUE}])
       /\ \A i \in DOMAIN p : p[i].cpus # NoCpus
       /\ Spread(p, m)

\* The numbers of the processors are different, and the user names different ones.
MachineOK(m) ==
    /\ m \in Seq([id : Int, package : Int, core : Int])
    /\ \A i, j \in DOMAIN m : m[i].id = m[j].id => i = j
    /\ \A i \in DOMAIN m : {m[i].id} # NoCpus

SelectedOK(selected) ==
    /\ selected \in Seq(Int)
    /\ \A i, j \in DOMAIN selected : selected[i] = selected[j] => i = j
    /\ \A i \in DOMAIN selected : {selected[i]} # NoCpus

ASSUME PinnedAssumption ==
    /\ NoCpus # {}
    /\ \A m \in Machines : MachineOK(m)
    /\ \A selected \in Selected : SelectedOK(selected)

VARIABLES
    machine,    \* the machine, constant
    pinning,    \* use_affinity_ of the manager, constant
    pool,       \* cores_
    cpus,       \* the thread_local cpus of playGame
    pinned      \* the processors each entry's process runs on

affinityVars == <<machine, pinning, pool, cpus, pinned>>
allVars == <<vars, affinityVars>>

PinnedInit ==
    /\ Init
    /\ machine \in Machines
    /\ \E selected \in Selected, configs \in Options :
         /\ pinning = Enabled(affinity, GetMaxAffinity(configs))
         /\ pool = NewPool(pinning, machine, selected)
    /\ cpus = [w \in Workers |-> NoCpus]
    /\ pinned = [e \in {} |-> NoCpus]

\* The start of playGame: cores_->consume(), which throws when every core is taken,
\* and gives no core when affinity has been disabled.
BeginPinned(w, white, black) ==
    /\ Begin(w, white, black)
    /\ IF cpus[w] # NoCpus \/ ~affinity
       THEN UNCHANGED <<pool, cpus>>
       ELSE IF pinning
       THEN LET i == FirstAvailable(pool)
            IN i # 0 /\ pool' = Consume(pool, i) /\ cpus' = [cpus EXCEPT ![w] = pool[i].cpus]
       ELSE pool' = pool /\ cpus' = [cpus EXCEPT ![w] = {}]
    /\ UNCHANGED <<machine, pinning, pinned>>

\* No core is left: the exception ends the game, the worker stays.
BeginWithoutCore(w) ==
    /\ pc[w] = "idle" /\ games < MaxGames
    /\ affinity /\ pinning /\ cpus[w] = NoCpus /\ FirstAvailable(pool) = 0
    /\ games' = games + 1
    /\ UNCHANGED <<config, stop, cache, next, pc, game, held, affinityVars>>

\* start(cpus): a process inherits the processors of the thread that spawns it and is
\* then set to them. One that runs already is left alone.
StartPinned(w) ==
    /\ StartMatch(w)
    /\ pinned' = [e \in DOMAIN cache |->
                     IF ~cache[e].started /\ cache'[e].started THEN cpus[w]
                     ELSE IF e \in DOMAIN pinned THEN pinned[e] ELSE NoCpus]
    /\ UNCHANGED <<machine, pinning, pool, cpus>>

Unpinned(w) ==
    \/ \E side \in Sides : GetEntry(w, side) \/ DeleteEntry(w, side) \/ ReleaseEntry(w, side)
    \/ ReturnEarly(w) \/ EndMatch(w) \/ AbandonMatch(w)
    \/ \E dead \in SUBSET Sides : RecoverMatch(w, dead)

PinnedNext ==
    \/ \E w \in Workers, white, black \in Engines : BeginPinned(w, white, black)
    \/ \E w \in Workers : BeginWithoutCore(w) \/ StartPinned(w)
    \/ (\E w \in Workers : Unpinned(w)) /\ UNCHANGED affinityVars
    \/ StopTournament /\ UNCHANGED affinityVars

PinnedSpec == PinnedInit /\ [][PinnedNext]_allVars

-----------------------------------------------------------------------------
Pinned == {w \in Workers : cpus[w] \notin {NoCpus, {}}}

\* The pool made of each whole machine.
WholePool == [m \in Machines |-> SetupCores(m)]

\* Two workers never share a processor, and they share a physical core only when there
\* are more of them than cores: what the two groups of hyperthreads are for. It needs
\* at most two processors to a core, and the pool of the whole machine.
WorkersApart ==
    /\ \A v, w \in Pinned : v # w => cpus[v] \cap cpus[w] = {}
    /\ TwoWay(machine) /\ SameCores(pool, WholePool[machine])
          /\ Cardinality(Pinned) <= Cardinality(Cores(machine)) =>
       \A v, w \in Pinned : v # w => OnOtherCores(machine, cpus[v], cpus[w])

(* With affinity every engine in a game runs on the processors of the worker that plays
   it, in its first game with this process and in all later ones, and no other worker
   has any of these: two games do not disturb each other's clocks. *)
EnginesOnOwnCores ==
    /\ affinity => \A w \in Workers, s \in Sides :
           pc[w] = "play" /\ held[<<w, s>>] # NoEntry => pinned[held[<<w, s>>]] = cpus[w]
    /\ WorkersApart
=============================================================================
