---------------------------- MODULE MCScoreBoard ----------------------------
(* Instances of ScoreBoard: three engines that meet once, two that meet      *)
(* twice, every combination of the flags the scoreboard depends on.          *)
EXTENDS ScoreBoard

\* Names of one and of two words, one the beginning of another.
A == <<"dev">>
B == <<"dev", "old">>
C == <<"base">>

MCEngines == {A, B, C}

Flags == [penta : BOOLEAN, noswap : BOOLEAN, reverse : BOOLEAN, games : {1, 2},
          encounters : {<< <<A, B>>, <<A, C>>, <<B, C>> >>, << <<A, B>>, <<A, B>> >>}]

\* -report penta needs two games per pairing; of three engines only the tournaments
\* without -reverse, to keep the state space small.
MCOptions == {o \in Flags : /\ o.penta => o.games = 2
                            /\ Len(o.encounters) = 3 => ~o.reverse /\ o.penta = (o.games = 2)}
=============================================================================
