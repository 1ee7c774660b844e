----------------------------- MODULE OpeningBook -----------------------------
(***************************************************************************)
(* book::OpeningBook from the file to the opening of a game: the readers   *)
(* of EPD and PGN files, the shuffle, the rotation to the place where a    *)
(* resumed tournament goes on, and the cut to the number of rounds.        *)
(* Scheduler has the same book as numbers only.                            *)
(***************************************************************************)
EXTENDS Integers, Sequences, SequencesExt

CONSTANTS
    Text,        \* function: a file that can be opened -> its characters, of which LF
                 \* and CR end lines and any other stands for the rest of its line
    GamesIn,     \* function: a file that can be opened -> the openings PGNVisitor makes of it
    Gzipped,     \* files whose name ends in .gz
    Zlib,        \* the program was built with USE_ZLIB
    Mersenne     \* function: seed -> the numbers mersenne_rand then returns

LineEnd == {"LF", "CR"}

\* safeGetline from a place in the text: the line, and the place of the next one.
EndOfLine(text, at) == CHOOSE i \in at..(Len(text) + 1) :
    /\ i <= Len(text) => text[i] \in LineEnd
    /\ \A j \in at..(i - 1) : text[j] \notin LineEnd
NextLine(text, stop) ==
    IF stop < Len(text) /\ text[stop] = "CR" /\ text[stop + 1] = "LF" THEN stop + 2 ELSE stop + 1

\* EpdReader: the lines that are not empty.
EpdOpenings(text) ==
    LET from[at \in 1..(Len(text) + 2)] ==
            IF at > Len(text) THEN <<>>
            ELSE LET stop == EndOfLine(text, at)
                 IN (IF stop = at THEN <<>> ELSE <<SubSeq(text, at, stop - 1)>>) \o from[NextLine(text, stop)]
    IN from[1]

\* Both readers throw when they cannot open the file, and when it holds no opening.
CanOpen(file) == file \in DOMAIN Text /\ (file \in Gzipped => Zlib)
EpdReader(file) == EpdOpenings(Text[file])
PgnReader(file) == GamesIn[file]

Exchange(vec, i, j) == [vec EXCEPT ![i] = vec[j], ![j] = vec[i]]
Shuffle(vec, seed) ==
    FoldLeft(LAMBDA v, i : Exchange(v, i, i + (Mersenne[seed][i] % (Len(v) - i + 1))),
             vec, [i \in 1..(Len(vec) - 1) |-> i])
Rotate(vec, offset) ==
    LET start == offset % Len(vec) IN SubSeq(vec, start + 1, Len(vec)) \o SubSeq(vec, 1, start)
Truncate(vec, rounds) == IF Len(vec) > rounds THEN SubSeq(vec, 1, rounds) ELSE vec

Offset(cfg, played) == cfg.opening_start - 1 + played \div cfg.games

ArrangeRotatedFirst(cfg, played, openings) ==
    LET rotated == Rotate(openings, Offset(cfg, played))
    IN Truncate(IF cfg.opening_order = "random" THEN Shuffle(rotated, cfg.seed) ELSE rotated, cfg.rounds)
\* The openings in the order they are played, from the one a resumed tournament needs next.
Arrange(cfg, played, openings) ==
    LET shuffled == IF cfg.opening_order = "random" THEN Shuffle(openings, cfg.seed) ELSE openings
    IN Truncate(Rotate(shuffled, Offset(cfg, played)), cfg.rounds)

NoBook == [ok |-> TRUE, openings |-> <<>>]
BookFailed == [ok |-> FALSE, openings |-> <<>>]

\* OpeningBook::setup. Without a format the file is not even opened.
Setup(cfg, played) ==
    LET file == cfg.opening_file
        read == IF cfg.opening_format = "pgn" THEN PgnReader(file) ELSE EpdReader(file)
    IN IF file = "" \/ cfg.opening_format = "none" THEN NoBook
       ELSE IF ~CanOpen(file) \/ read = <<>> THEN BookFailed
       ELSE [ok |-> TRUE, openings |-> Arrange(cfg, played, read)]

\* fetchId for the n-th pair of the session, and operator[]; STARTPOS without a book.
OpeningOf(openings, n, startpos) ==
    IF openings = <<>> THEN startpos ELSE openings[(n % Len(openings)) + 1]
=============================================================================
