--------------------------- MODULE MCEngineCache ---------------------------
(* Two workers and two engines, one of which may be restarted after each game, *)
(* on a machine of two cores and three processors, or on one of these alone.    *)
EXTENDS PinnedWorkers, TLC

CONSTANTS w1, w2, A, B

MCWorkers == {w1, w2}
MCEngines == {A, B}
MCRestartSets == {{}, {A}}

Processor(id, package, core) == [id |-> id, package |-> package, core |-> core]
MCMachines == {<<Processor(0, 0, 0), Processor(1, 0, 0), Processor(2, 0, 1)>>}
MCSelected == {<<>>, <<2>>}
MCOptions == {<< <<>>, <<>> >>, << << <<"Threads", 2>> >>, <<>> >>}

\* What the pool of a machine is like, of more machines than the run looks at: all with up to
\* five processors on two packages of two cores, whatever the order they are listed in.
Topologies == UNION {[1..n -> (0..1) \X (0..1)] : n \in 1..5}
ASSUME PoolsAreSound ==
    \A t \in Topologies :
        SoundPool([i \in DOMAIN t |-> Processor(i - 1, t[i][1], t[i][2])], <<>>)

Symmetry == Permutations(MCWorkers)
=============================================================================
