---------------------------- MODULE MCScheduler ----------------------------
(* Instances of Scheduler: every small tournament of two to five engines.  *)
EXTENDS Scheduler

Fresh == [kind : {"roundrobin", "gauntlet"}, players : 2..5, seeds : 1..4, rounds : 1..3,
          games : 1..2, book : {0, 2, 4, 5}, played : {0}]

\* Only the results of two engines are kept when a saved config is loaded; a third engine
\* may be named after it.
Resumed == [kind : {"roundrobin"}, players : {2, 3}, seeds : {1}, rounds : 3..5, games : 1..2,
            book : {0, 3, 4, 7}, played : 1..6]

Legal(c) == /\ c.kind = "roundrobin" => c.seeds = 1
            /\ c.played <= c.rounds * c.games

FreshConfigs   == {c \in Fresh : Legal(c)}
ResumedConfigs == {c \in Resumed : Legal(c)}
AllConfigs     == FreshConfigs \cup ResumedConfigs
=============================================================================
