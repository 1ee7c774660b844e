----------------------------- MODULE GameRecord -----------------------------
(***************************************************************************)
(* A game as moves: what is read from a book, checked in a variation,      *)
(* written to the PGN and EPD files and read back from a PGN.              *)
(*                                                                         *)
(* The chess library is outside: a position is the sequence of moves that  *)
(* leads to it from the starting position of the game, Lines is the set of *)
(* all that can be played, and Status says how the game stands in each. A  *)
(* start is the position fen itself with its full move number, whether     *)
(* Black begins and whether the variant is fischerandom.                   *)
(***************************************************************************)
EXTENDS SearchOutput, TLC

CONSTANTS
    Lines,    \* closed under prefixes
    Status,   \* function from Lines to Statuses
    STARTPOS, \* chess::constants::STARTPOS
    Named     \* the positions of EPD_TO_OPENING, as fen and moves from there

Statuses == {"going on", "checkmate", "stalemate", "threefold", "fifty", "insufficient"}

ASSUME RulesAssumption ==
    /\ Status \in [Lines -> Statuses]
    /\ \A line \in Lines : Status[line] \in {"checkmate", "stalemate"} =>
           \A m \in UciMoves : Append(line, m) \notin Lines

\* movegen::legalmoves, and the games isGameOver ends.
Legal(line, move) == Append(line, move) \in Lines
Over(line) == Status[line] # "going on"

-----------------------------------------------------------------------------
(* Warnings about the principal variation of a line.                       *)

\* isGameOverSimple: a draw by insufficient material does not end a variation.
OverSimple(line) == Over(line) /\ Status[line] # "insufficient"

Warning(status) ==
    CASE status = "threefold" -> "ContinuesAfterThreefoldRepetition"
      [] status = "fifty" -> "ContinuesAfterFiftyMoveRule"
      [] status = "checkmate" -> "ContinuesAfterCheckmate"
      [] status = "stalemate" -> "ContinuesAfterStalemate"
      [] OTHER -> "IllegalMove"

\* The first move of the variation that cannot be played, 0 if there is none.
PlayedUpTo(line, pv, n) == line \o SubSeq(pv, 1, n - 1)
StopsAt(line, pv) ==
    SelectInSeq([n \in DOMAIN pv |-> n],
                LAMBDA n : ~Legal(PlayedUpTo(line, pv, n), pv[n]) \/ OverSimple(PlayedUpTo(line, pv, n)))

\* The length a mating variation must have; a mate in 0 is one of no moves.
MatePliesOfWinner(score) == IF score.value > 0 THEN 2 * score.value - 1 ELSE -2 * score.value - 1
MatePliesOf(score) == IF score.value > 0 THEN 2 * score.value - 1 ELSE -2 * score.value

Warn(warning, move) == <<[warning |-> warning, move |-> move]>>

\* checkParsedPvLine
CheckPvLine(line, info, checkMates) ==
    LET pv == PvOf(info)
        stop == StopsAt(line, pv)
        plies == MatePliesOf(ScoreOf(info))
        claimed == /\ stop = 0 /\ pv # <<>> /\ checkMates /\ ~info.bound
                   /\ ScoreOf(info) # Absent /\ ScoreOf(info).type = "mate"
    IN CASE stop # 0 -> LET before == PlayedUpTo(line, pv, stop)
                        IN Warn(IF OverSimple(before) THEN Warning(Status[before]) ELSE "IllegalMove", pv[stop])
         [] claimed /\ Len(pv) < plies -> Warn("IncompleteMatingPv", Absent)
         [] claimed /\ Len(pv) > plies -> Warn("TooLongMatingPv", Absent)
         [] claimed /\ Len(pv) = plies /\ Status[line \o pv] # "checkmate" ->
                Warn("MatingPvDoesNotEndWithCheckmate", Absent)
         [] OTHER -> <<>>

\* checkParsedBestmovePv
CheckBestMovePv(info, best) ==
    IF info.bound \/ PvOf(info) = <<>> \/ Head(PvOf(info)) = best THEN <<>>
    ELSE Warn("BestmoveMismatch", best)

\* verifyPvLines: all variations, and the last line of the first one, exact or not,
\* against the move played. best is absent for an illegal move.
FirstPv(info) == info.multipv = Absent \/ info.multipv = 1
VerifyPvLines(line, lines, best, checkMates) ==
    LET infos == SelectSeq(lines, Scored)
        last == SelectLastInSeq(infos, FirstPv)
    IN FlattenSeq([i \in DOMAIN infos |-> CheckPvLine(line, infos[i], checkMates)])
         \o (IF best = Absent \/ last = 0 THEN <<>> ELSE CheckBestMovePv(infos[last], best))

\* checkMateScoreSignMismatch, after the move of the second engine has been recorded.
Mates(record) == record.score # Absent /\ record.score.type = "mate"
SignMismatch(moves) ==
    /\ Len(moves) > 1
    /\ LET them == moves[Len(moves) - 1]
           us == moves[Len(moves)]
       IN ~them.book /\ Mates(them) /\ Mates(us) /\ them.score.value * us.score.value > 0

-----------------------------------------------------------------------------
(* The record of a game.                                                   *)

NoInfo == [move |-> Absent, book |-> FALSE, legal |-> TRUE, score |-> Absent]

\* addMoveData: with no line but the bestmove nothing else is recorded. What only goes
\* into comments (depth, nodes, variation, clock) is left out.
MoveData(lines, move, legal) ==
    LET i == LastInfoLine(lines)
        data == [NoInfo EXCEPT !.move = move, !.legal = legal]
    IN IF Len(lines) <= 1 \/ i = 0 THEN data
       ELSE [data EXCEPT !.score = ScoreOf(lines[i])]

\* Match::Match
BookMove(move) == [NoInfo EXCEPT !.move = move, !.book = TRUE]

LegalPart(moves) ==
    LET illegal == SelectInSeq(moves, LAMBDA m : ~m.legal)
    IN IF illegal = 0 THEN moves ELSE SubSeq(moves, 1, illegal - 1)
LineOf(moves) == [i \in DOMAIN moves |-> moves[i].move]

\* EpdBuilder
Epd(moves) == LineOf(LegalPart(moves))

\* getOpeningClassification: the last position of the game that has a name.
Opening(start, moves) ==
    LET line == Epd(moves)
        named == {n \in 0..Len(line) : [from |-> start.fen, moves |-> SubSeq(line, 1, n)] \in Named}
    IN IF start.frc \/ named = {} THEN Absent ELSE SubSeq(line, 1, Max(named))

\* UciEngine::position: every move of the record, from start_position_.
Position(start, moves) ==
    [from |-> IF start.fen = STARTPOS THEN "startpos" ELSE start.fen, moves |-> LineOf(moves)]

\* The headers of a PGN that say where the game begins: none at the usual position.
HeadersOf(start) ==
    (IF start.fen # STARTPOS \/ start.frc THEN [setup |-> "1", fen |-> start.fen] ELSE <<>>)
      @@ (IF start.frc THEN [variant |-> "Chess960"] ELSE <<>>)

\* PgnBuilder and PGNGenerator: the tokens of the movetext. A number comes with every move
\* of White and with the first token. The comment of the last move tells why the game
\* ended, and which move was illegal.
Token(start, i, move, comment) ==
    LET counter == 2 * start.number - (IF start.black THEN 0 ELSE 1) + i - 1
        white == (i % 2 = 1) # start.black
    IN [number |-> IF white \/ i = 1 THEN (counter + 1) \div 2 ELSE 0, dots |-> ~white /\ i = 1,
        san |-> move, comment |-> comment]

Comment(moves, i, min) ==
    IF min THEN <<>>
    ELSE IF moves[i].book THEN <<"book">>
    ELSE IF i < Len(LegalPart(moves)) THEN <<"info">>
    ELSE IF i < Len(moves) THEN <<"info", "reason", moves[i + 1].move>> ELSE <<"info", "reason">>

Pgn(start, moves, min) ==
    IF moves # <<>> /\ ~Head(moves).legal
    THEN <<[number |-> 0, dots |-> FALSE, san |-> Absent, comment |-> <<"reason", Head(moves).move>>]>>
    ELSE [i \in DOMAIN LegalPart(moves) |-> Token(start, i, moves[i].move, Comment(moves, i, min))]

-----------------------------------------------------------------------------
(* PGNVisitor: a reader that stops at the first move it cannot play or that *)
(* ends the game, and after plies moves if plies is not -1.                 *)

NewReader == [from |-> STARTPOS, line |-> <<>>, moves |-> <<>>, count |-> 0, stopped |-> FALSE]

ReadHeaders(reader, headers) ==
    IF "fen" \in DOMAIN headers THEN [reader EXCEPT !.from = headers.fen] ELSE reader

ReadMoveToTheEnd(reader, move, plies) ==
    IF reader.stopped \/ ~Legal(reader.line, move) THEN [reader EXCEPT !.stopped = TRUE]
    ELSE [reader EXCEPT !.line = Append(@, move), !.moves = Append(@, move)]
ReadMove(reader, move, plies) ==
    IF reader.stopped THEN reader
    ELSE IF reader.count >= plies /\ plies # -1 THEN [reader EXCEPT !.count = @ + 1]
    ELSE IF ~Legal(reader.line, move) THEN [reader EXCEPT !.stopped = TRUE, !.count = @ + 1]
    ELSE LET line == Append(reader.line, move)
             read == [reader EXCEPT !.line = line, !.count = @ + 1]
         IN IF Over(line) THEN [read EXCEPT !.stopped = TRUE] ELSE [read EXCEPT !.moves = Append(@, move)]

\* The opening: where it starts and its moves.
ReadPgn(headers, sans, plies) ==
    LET read == FoldLeft(LAMBDA reader, move : ReadMove(reader, move, plies),
                         ReadHeaders(NewReader, headers), sans)
    IN [from |-> read.from, moves |-> read.moves]

SansOf(pgn) == LET tokens == SelectSeq(pgn, LAMBDA t : t.san # Absent)
               IN [i \in DOMAIN tokens |-> tokens[i].san]
=============================================================================
