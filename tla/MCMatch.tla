------------------------------ MODULE MCMatch ------------------------------
(* Games of up to five plies: one configuration for each clock and for each  *)
(* adjudication. Times are scaled down, with a margin of one instead of 100. *)
EXTENDS Match

Unclocked == [time |-> 0, increment |-> 0, fixed_time |-> 0, moves |-> 0, timemargin |-> 0]

Cp(v) == [type |-> "cp", value |-> v]
Mate(v) == [type |-> "mate", value |-> v]

\* Engines search a number of nodes and nothing is adjudicated.
Plain ==
    [limits |-> [c \in Colors |-> Unclocked], endless |-> [c \in Colors |-> TRUE],
     draw |-> [enabled |-> FALSE, move_number |-> 0, move_count |-> 1, score |-> 0],
     resign |-> [enabled |-> FALSE, move_count |-> 1, score |-> 0, twosided |-> FALSE],
     maxmoves |-> [enabled |-> FALSE, move_count |-> 1],
     tb |-> {}, first |-> "white", fullMove |-> 1, throws |-> FALSE,
     scores |-> {NoScore}, elapsed |-> {0}, zeroing |-> {FALSE}]

Clocked(limits) ==
    [Plain EXCEPT !.limits = [c \in Colors |-> limits], !.endless = [c \in Colors |-> FALSE],
                  !.elapsed = {0, 2, 5}]

ClockConfigs ==
    { Clocked([Unclocked EXCEPT !.time = 3, !.increment = 1, !.timemargin = 1]),
      Clocked([Unclocked EXCEPT !.time = 3, !.moves = 2, !.timemargin = 1]),
      Clocked([Unclocked EXCEPT !.fixed_time = 2, !.timemargin = 1]),
      Clocked([Unclocked EXCEPT !.increment = 2]),
      [Clocked([Unclocked EXCEPT !.time = 3]) EXCEPT !.endless = [white |-> TRUE, black |-> FALSE],
                                                     !.throws = TRUE] }

ScoreSet == {NoScore, Cp(0), Cp(3), Cp(-3), Mate(1), Mate(-1)}

ResignConfigs ==
    { [Plain EXCEPT !.scores = ScoreSet, !.first = "black",
                    !.resign = [enabled |-> TRUE, move_count |-> 2, score |-> s, twosided |-> b]]
      : b \in BOOLEAN, s \in {0, 2} }

DrawConfigs ==
    { [Plain EXCEPT !.scores = {NoScore, Cp(0), Cp(3), Mate(1)}, !.zeroing = BOOLEAN,
                    !.draw = [enabled |-> TRUE, move_number |-> 2, move_count |-> 1, score |-> 1]],
      [Plain EXCEPT !.scores = {Cp(0)}, !.zeroing = BOOLEAN, !.tb = {"win_loss", "draw"},
                    !.maxmoves = [enabled |-> TRUE, move_count |-> 2]],
      [Plain EXCEPT !.scores = {Cp(0)}, !.zeroing = BOOLEAN, !.tb = {"draw"}] }

MCConfigs == ClockConfigs \cup ResignConfigs \cup DrawConfigs
=============================================================================
