---------------------------- MODULE SearchOutput ----------------------------
(***************************************************************************)
(* What UciEngine makes of the lines an engine writes during a search.     *)
(* A line is a record: its word ("info", "bestmove" or another one);       *)
(* string, whether it is an info string; score and multipv, absent         *)
(* when the line has none; bound; and the tokens after pv or bestmove.     *)
(***************************************************************************)
EXTENDS Integers, Sequences, SequencesExt

CONSTANTS
    UciMoves,   \* the tokens isUciMove accepts
    Absent      \* no value

ASSUME AbsentAssumption == Absent \notin UciMoves

\* The score of a line that has one but cannot be read.
Unreadable == [type |-> "err", value |-> 0]

Searching(line) == line.word = "info" /\ ~line.string
Scored(line) == Searching(line) /\ line.score # Absent

\* The line holds " multipv 1", or no multipv: the number is compared by its first digit.
FirstDigit(n) == IF n < 10 THEN n ELSE IF n < 100 THEN n \div 10 ELSE n \div 100
FirstPvByText(line) == line.multipv = Absent \/ FirstDigit(line.multipv) = 1

\* lastInfoLine: the last exact one, else the last bound; 0 if there is none.
LastInfoLineAnyPv(lines) ==
    LET exact == SelectLastInSeq(lines, LAMBDA l : Scored(l) /\ ~l.bound)
    IN IF exact # 0 THEN exact ELSE SelectLastInSeq(lines, LAMBDA l : Scored(l))
LastInfoLine(lines) ==
    LET exact == SelectLastInSeq(lines, LAMBDA l : Scored(l) /\ FirstPvByText(l) /\ ~l.bound)
    IN IF exact # 0 THEN exact ELSE SelectLastInSeq(lines, LAMBDA l : Scored(l) /\ FirstPvByText(l))

\* parseInfo: an unreadable score is none, and the principal variation ends at the first
\* token that is no move. The fields that only fill comments are left out.
ParseInfo(line) ==
    LET stop == SelectInSeq(line.tokens, LAMBDA t : t \notin UciMoves)
    IN [score |-> IF line.score = Unreadable THEN Absent ELSE line.score,
        multipv |-> line.multipv, bound |-> line.bound,
        pv |-> IF stop = 0 THEN line.tokens ELSE SubSeq(line.tokens, 1, stop - 1)]

\* getScore, getPv and lastScore.
ScoreOf(line) == ParseInfo(line).score
PvOf(line) == ParseInfo(line).pv
LastScore(lines) ==
    LET i == LastInfoLine(lines) IN IF i = 0 THEN Absent ELSE ScoreOf(lines[i])

\* bestmove: the token after the word, if it starts the last line.
BestMove(lines) ==
    IF lines = <<>> \/ Last(lines).word # "bestmove" \/ Last(lines).tokens = <<>> THEN Absent
    ELSE Head(Last(lines).tokens)
=============================================================================
