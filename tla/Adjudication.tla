---------------------------- MODULE Adjudication ----------------------------
(***************************************************************************)
(* The trackers that end a game early, each a counter updated after every  *)
(* move from the score the engine reported with it. A score is a number of *)
(* centipawns or of moves to mate, from the point of view of the engine.   *)
(***************************************************************************)
EXTENDS Integers

CONSTANT NoScore      \* a move without a (readable) score

Score == [type : {"cp", "mate"}, value : Int]

DrawConfig == [enabled : BOOLEAN, move_number : Nat, move_count : Nat, score : Nat]
ResignConfig == [enabled : BOOLEAN, move_count : Nat, score : Nat, twosided : BOOLEAN]
MaxMovesConfig == [enabled : BOOLEAN, move_count : Nat]

Colors == {"white", "black"}
Other(c) == IF c = "white" THEN "black" ELSE "white"

Abs(n) == IF n < 0 THEN -n ELSE n

-----------------------------------------------------------------------------
(* Draws.                                                                  *)

Drawish(draw, score) == score # NoScore /\ score.type = "cp" /\ Abs(score.value) <= draw.score

\* zeroed: the move was a capture or a pawn move.
DrawMovesKept(draw, count, score, zeroed) ==
    IF draw.move_count > 0 /\ Drawish(draw, score) THEN count + 1 ELSE 0
DrawMoves(draw, count, score, zeroed) ==
    LET before == IF zeroed THEN 0 ELSE count
    IN  CASE score = NoScore -> 0
          [] score # NoScore /\ draw.move_count = 0 -> before
          [] OTHER -> IF Drawish(draw, score) THEN before + 1 ELSE 0

DrawAdjudicatable(draw, count, moveNumber) ==
    moveNumber >= draw.move_number /\ count >= 2 * draw.move_count

-----------------------------------------------------------------------------
(* Resignations: a counter for each engine, or one for both.               *)

Decisive(resign, score) ==
    score # NoScore /\ (score.type = "mate" \/ Abs(score.value) >= resign.score)

Losing(resign, score) ==
    /\ score # NoScore
    /\ \/ score.type = "cp" /\ score.value <= -resign.score
       \/ score.type = "mate" /\ score.value < 0

NewResignTracker == [both |-> 0, white |-> 0, black |-> 0]

ResignMoves(resign, tracker, score, mover) ==
    IF resign.twosided
    THEN [tracker EXCEPT !.both = IF Decisive(resign, score) THEN @ + 1 ELSE 0]
    ELSE [tracker EXCEPT ![mover] = IF Losing(resign, score) THEN @ + 1 ELSE 0]

Resignable(resign, tracker) ==
    IF resign.twosided
    THEN tracker.both >= 2 * resign.move_count
    ELSE tracker.white >= resign.move_count \/ tracker.black >= resign.move_count

-----------------------------------------------------------------------------
MaxMovesReached(maxmoves, count) == count >= 2 * maxmoves.move_count
=============================================================================
