------------------------------ MODULE Affinity ------------------------------
(***************************************************************************)
(* The cores of the machine and the pool that AffinityManager makes of     *)
(* them. A machine is the sequence of its processors as /proc/cpuinfo      *)
(* lists them, each with the package and the core it belongs to; a pool is *)
(* a sequence of entries, those of group HT_1 before those of HT_2.        *)
(***************************************************************************)
LOCAL INSTANCE Integers
LOCAL INSTANCE FiniteSets
LOCAL INSTANCE Sequences

CoreOf(p) == <<p.package, p.core>>

\* getCpuInfo files the processors under their cores in the order they are listed;
\* std::map orders packages, and the cores of one, by their numbers.
EarlierOnCore(machine, i) == {j \in 1..(i - 1) : CoreOf(machine[j]) = CoreOf(machine[i])}
Precedes(machine, i, j) ==
    LET p == machine[i]
        q == machine[j]
    IN \/ p.package < q.package
       \/ p.package = q.package /\ p.core < q.core
       \/ CoreOf(p) = CoreOf(q) /\ i < j

Unused(p) == [cpus |-> {p}, available |-> TRUE]

\* setupCores: the processors of each core go to the two groups in turn, each group
\* keeps the order of the map.
InGroup(machine, g) == {i \in DOMAIN machine : Cardinality(EarlierOnCore(machine, i)) % 2 = g}
Place(machine, g, i) == Cardinality({j \in InGroup(machine, g) : Precedes(machine, j, i)}) + 1
AtPlace(machine, g, k) == CHOOSE i \in InGroup(machine, g) : Place(machine, g, i) = k
Group(machine, g) ==
    [k \in 1..Cardinality(InGroup(machine, g)) |-> Unused(machine[AtPlace(machine, g, k)].id)]

SetupCores(machine) == Group(machine, 0) \o Group(machine, 1)

SetupSelectedCores(cpus) == [i \in DOMAIN cpus |-> Unused(cpus[i])]

\* The constructor; tpe is the number of threads of an engine as getMaxAffinity gives it.
Enabled(use, tpe) == use /\ tpe <= 1
NewPool(enabled, machine, selected) ==
    CASE ~enabled -> <<>>
      [] enabled /\ selected = <<>> -> SetupCores(machine)
      [] OTHER -> SetupSelectedCores(selected)

\* Two pools of the same processors, in the same order.
SameCores(p, q) == Len(p) = Len(q) /\ \A i \in DOMAIN p : p[i].cpus = q[i].cpus
Processors(machine) == {machine[i] : i \in DOMAIN machine}

\* consume: the first entry available, 0 if there is none and an exception ends the game.
Available(pool) == {i \in DOMAIN pool : pool[i].available}
FirstAvailable(pool) ==
    IF Available(pool) = {} THEN 0
    ELSE CHOOSE i \in Available(pool) : \A j \in Available(pool) : i <= j

Consume(pool, i) == [pool EXCEPT ![i].available = FALSE]

\* getMaxAffinity: the first value given for Threads counts, 1 if none is given. It
\* is never above 1, so Enabled never disables what -use-affinity asked for.
ThreadsOf(options) ==
    LET given == {i \in DOMAIN options : options[i][1] = "Threads"}
    IN IF given = {} THEN 1 ELSE options[CHOOSE i \in given : \A j \in given : i <= j][2]
GetMaxAffinity(configs) ==
    IF \E i \in DOMAIN configs : ThreadsOf(configs[i]) # 1 THEN 0 ELSE ThreadsOf(configs[1])
=============================================================================
