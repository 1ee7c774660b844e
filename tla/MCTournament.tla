---------------------------- MODULE MCTournament ----------------------------
(* Two workers and three games. There is no symmetry set: liveness is checked. *)
EXTENDS Tournament

CONSTANTS w1, w2

MCWorkers == {w1, w2}

Plain == [recover |-> FALSE, sprt |-> FALSE, interval |-> 0, initial |-> 0, faults |-> {}]

\* One thing goes wrong at a time, with every setting that matters to it; and three pairs.
MCConfigs ==
    { [Plain EXCEPT !.interval = 1, !.initial = 1],
      [Plain EXCEPT !.sprt = TRUE],
      [Plain EXCEPT !.faults = {"stall"}],
      [Plain EXCEPT !.faults = {"stall"}, !.recover = TRUE],
      [Plain EXCEPT !.faults = {"late"}, !.recover = TRUE],
      [Plain EXCEPT !.faults = {"startup"}],
      [Plain EXCEPT !.faults = {"error"}],
      [Plain EXCEPT !.faults = {"moveError"}],
      [Plain EXCEPT !.faults = {"signal"}],
      [Plain EXCEPT !.faults = {"stall", "signal"}, !.recover = TRUE, !.interval = 2],
      [Plain EXCEPT !.faults = {"stall", "late"}, !.recover = TRUE],
      [Plain EXCEPT !.faults = {"late", "startup"}, !.recover = TRUE] }

PlainConfigs == {Plain}
=============================================================================
