------------------------------- MODULE Stats -------------------------------
(***************************************************************************)
(* The tally of one engine against another (class Stats) and its algebra:  *)
(* games won, lost and drawn, and pairs of games by their two results.     *)
(***************************************************************************)
EXTENDS Integers

StatsFields == {"wins", "losses", "draws", "WW", "WD", "WL", "DD", "LD", "LL"}

StatsType == [StatsFields -> Nat]

ZeroStats == [f \in StatsFields |-> 0]

AddStats(s, t) == [f \in StatsFields |-> s[f] + t[f]]

\* The field that holds, for the opponent, what f holds for the engine; and the
\* same with the pentanomial fields forgotten.
MirrorGamesOnly(f) == CASE f = "wins" -> "losses" [] f = "losses" -> "wins" [] OTHER -> f
Mirror(f) == CASE f = "wins" -> "losses" [] f = "losses" -> "wins"
               [] f = "WW" -> "LL" [] f = "LL" -> "WW"
               [] f = "WD" -> "LD" [] f = "LD" -> "WD"
               [] OTHER -> f

\* operator~ : the same games seen by the opponent.
InvertStats(s) == [f \in StatsFields |-> s[Mirror(f)]]

\* Stats(MatchData): one game, by the result of White.
GameResults == {"win", "lose", "draw"}

GameField(result) == CASE result = "win" -> "wins" [] result = "lose" -> "losses"
                       [] result = "draw" -> "draws"

OneGame(result) == [ZeroStats EXCEPT ![GameField(result)] = 1]

GamesOf(s) == s.wins + s.losses + s.draws

PairsOf(s) == s.WW + s.WD + s.WL + s.DD + s.LD + s.LL

\* Half points: two for a win, one for a draw.
HalfPoints(s) == 2 * s.wins + s.draws

PentaHalfPoints(s) == 4 * s.WW + 3 * s.WD + 2 * s.WL + 2 * s.DD + s.LD

\* The pentanomial counts and the game counts tell the same story: two games to
\* a pair, and the points of the pairs are the points of the games.
PentaConsistent(s) == /\ GamesOf(s) = 2 * PairsOf(s)
                      /\ HalfPoints(s) = PentaHalfPoints(s)
=============================================================================
