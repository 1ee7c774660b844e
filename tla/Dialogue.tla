------------------------------ MODULE Dialogue ------------------------------
(***************************************************************************)
(* What one engine and fastchess tell each other, word by word: the engine *)
(* declares its options, they are set before every game, it searches and   *)
(* comments on its search, and what it said ends up in the record of the   *)
(* game, in the trackers and in the warnings. The engine may die at any    *)
(* time and is replaced, it may print anything, and the moves of its       *)
(* opponent are like its own. UciSession has the waiting and the order of  *)
(* calls that this module leaves out.                                      *)
(***************************************************************************)
EXTENDS GameRecord, EngineOptions, FiniteSets

CONSTANTS
    Setups,     \* the dialogues looked at
    MaxGames,   \* bound on the games of the engine
    MaxPlies    \* bound on the moves of a game after the book

\* A setup: declared, the lines before uciok; configured, the user's options as name and
\* text; book and plies, the movetext of the opening in a PGN book and plies= of the book;
\* start, its position, which a book names if it is not the usual one; outputs, what a search may
\* print; mates, -check-mate-pvs; min, -pgnout min=true. An engine does not declare a name twice.
IsSeq(s) == s \in Seq(ToSet(s))
IsSetup(s) ==
    /\ IsSeq(s.declared) /\ IsSeq(s.configured) /\ IsSeq(s.book)
    /\ \A i, j \in DOMAIN s.declared : s.declared[i].name = s.declared[j].name => i = j
    /\ \A i \in DOMAIN s.configured : DOMAIN s.configured[i] = {"name", "text"}
    /\ \A output \in s.outputs : IsSeq(output) /\ \A i \in DOMAIN output : output[i].bound \in BOOLEAN

ASSUME SetupsAssumption == \A s \in Setups : IsSetup(s)

VARIABLES
    setup,        \* constant
    phase,        \* where the thread is
    step,         \* how many lines or options of the phase are done
    alive,        \* the process runs
    initialized,  \* initialized_
    options,      \* uci_options_
    holds,        \* external: the text the engine holds for each option it has declared
    games,        \* games begun
    line,         \* board_: the moves made
    moves,        \* data_.moves
    told,         \* external: the last position the engine was told
    lines,        \* output_ of the engine that moved last
    judged,       \* the score the trackers were given for the last move
    warnings,     \* warnings about the last move
    reason        \* data_.reason

game == <<line, moves, told, lines, judged, warnings, reason>>
engine == <<alive, initialized, options, holds>>
vars == <<setup, phase, step, engine, games, game>>

\* What a new process holds: its defaults.
OptionLines == {l \in ToSet(setup.declared) : l.type \in Types}
Declared(name) == CHOOSE l \in OptionLines : l.name = name
Fresh == [n \in {l.name : l \in OptionLines} |-> DefaultOf(Declared(n))]
ToSend == OrderOfSending(setup.configured, setup.start.frc)

-----------------------------------------------------------------------------
\* playGame takes the engine from the cache; the opening has been read from the book.
Init ==
    /\ setup \in Setups
    /\ phase = "idle" /\ step = 0
    /\ alive = FALSE /\ initialized = FALSE /\ options = <<>> /\ holds = Fresh
    /\ games = 0
    /\ line = <<>> /\ moves = <<>> /\ told = Absent /\ lines = <<>> /\ judged = Absent /\ warnings = <<>>
    /\ reason = "none"

\* Match::Match and UciEngine::start, which does nothing after the first call.
BeginGame ==
    /\ phase = "idle" /\ games < MaxGames
    /\ games' = games + 1
    /\ line' = ReadPgn(HeadersOf(setup.start), setup.book, setup.plies).moves
    /\ moves' = [i \in DOMAIN line' |-> BookMove(line'[i])]
    /\ judged' = Absent /\ warnings' = <<>> /\ reason' = "none"
    /\ IF initialized THEN phase' = "refresh" /\ UNCHANGED <<alive, initialized, holds>>
       ELSE phase' = "uciok" /\ alive' = TRUE /\ initialized' = TRUE /\ holds' = Fresh
    /\ step' = 0
    /\ UNCHANGED <<setup, options, told, lines>>

\* uciok: the lines are parsed one after the other once all are there. An exception ends
\* the game; the lines after it are never parsed.
ParseLine ==
    /\ phase = "uciok" /\ step < Len(setup.declared)
    /\ LET declared == setup.declared[step + 1] IN
          IF Malformed(declared) THEN phase' = "over" /\ UNCHANGED <<step, options>>
          ELSE /\ step' = step + 1
               /\ \/ OptionsOf(declared) = {} /\ UNCHANGED options
                  \/ \E option \in OptionsOf(declared) : options' = Append(options, option)
               /\ UNCHANGED phase
    /\ UNCHANGED <<setup, alive, initialized, holds, games, game>>

AllParsed ==
    /\ phase = "uciok" /\ step = Len(setup.declared)
    /\ phase' = "refresh" /\ step' = 0
    /\ UNCHANGED <<setup, engine, games, game>>

\* sendSetoption: unknown options, invalid values and exceptions only lose the one option.
\* A write to a dead process fails and leaves the value that is shown as it was.
Rejected(sent) ==
    LET i == Find(options, sent.name)
    IN i = 0 \/ Throws(options[i], sent.text) \/ ~IsValid(options[i], sent.text)
Accepted(sent) == sent # Skipped /\ ~Rejected(sent)

\* An accepted value reaches the engine and is shown.
Set(sent) ==
    LET i == Find(options, sent.name)
    IN /\ holds' = [holds EXCEPT ![sent.name] = sent.text]
       /\ options' = [options EXCEPT ![i].value = ValueOf(options[i], sent.text)]

SendOptionUntilThrow ==
    /\ phase = "refresh" /\ step < Len(ToSend)
    /\ LET sent == ToSend[step + 1]
           throws == sent # Skipped /\ LET i == Find(options, sent.name)
                                      IN i # 0 /\ Throws(options[i], sent.text)
       IN /\ step' = IF throws THEN Len(ToSend) ELSE step + 1
          /\ IF Accepted(sent) /\ alive THEN Set(sent) ELSE UNCHANGED <<holds, options>>
    /\ UNCHANGED <<setup, phase, alive, initialized, games, game>>
SendOption ==
    /\ phase = "refresh" /\ step < Len(ToSend)
    /\ step' = step + 1
    /\ LET sent == ToSend[step + 1]
       IN IF Accepted(sent) /\ alive THEN Set(sent) ELSE UNCHANGED <<holds, options>>
    /\ UNCHANGED <<setup, phase, alive, initialized, games, game>>

\* ucinewgame
NewGame ==
    /\ phase = "refresh" /\ step = Len(ToSend)
    /\ IF alive THEN phase' = "turn" /\ UNCHANGED reason
               ELSE phase' = "over" /\ reason' = "disconnects"
    /\ UNCHANGED <<setup, step, engine, games, line, moves, told, lines, judged, warnings>>

EngineDies ==
    /\ alive /\ phase # "idle"
    /\ alive' = FALSE
    /\ UNCHANGED <<setup, phase, step, initialized, options, holds, games, game>>

-----------------------------------------------------------------------------
\* The game ends between two moves: by the rules, by an adjudication or a broken engine.
EndGame ==
    /\ phase = "turn"
    /\ phase' = "over"
    /\ reason' = IF ~alive THEN "disconnects" ELSE IF Over(line) THEN "rules" ELSE "adjudication"
    /\ UNCHANGED <<setup, step, engine, games, line, moves, told, lines, judged, warnings>>

\* The engine whose turn it is searches.
Searches(output) ==
    /\ phase = "turn" /\ alive /\ ~Over(line) /\ Len(SelectSeq(moves, LAMBDA m : ~m.book)) < MaxPlies
    /\ output \in setup.outputs
    /\ told' = Position(setup.start, moves)
    /\ lines' = output
    /\ UNCHANGED <<setup, step, engine, games>>

IsLegal(best) == best \in UciMoves /\ Legal(line, best)

\* addMoveData, with verifyPvLines at its end.
Records(output, legal) ==
    /\ moves' = Append(moves, MoveData(output, BestMove(output), legal))
    /\ warnings' = IF Len(output) <= 1 THEN <<>>
                   ELSE VerifyPvLines(line, output, IF legal THEN BestMove(output) ELSE Absent, setup.mates)

NoMove ==
    \E output \in setup.outputs :
        /\ Searches(output)
        /\ BestMove(output) = Absent
        /\ phase' = "over" /\ reason' \in {"time", "illegal"}
        /\ UNCHANGED <<line, moves, judged, warnings>>

IllegalMove ==
    \E output \in setup.outputs :
        /\ Searches(output)
        /\ BestMove(output) # Absent /\ ~IsLegal(BestMove(output))
        /\ Records(output, FALSE)
        /\ phase' = "over" /\ reason' = "illegal"
        /\ UNCHANGED <<line, judged>>

\* A legal move that comes too late is recorded but not made.
LateMove ==
    \E output \in setup.outputs :
        /\ Searches(output)
        /\ IsLegal(BestMove(output))
        /\ Records(output, TRUE)
        /\ phase' = "over" /\ reason' = "time"
        /\ UNCHANGED <<line, judged>>

PlayMove ==
    \E output \in setup.outputs :
        /\ Searches(output)
        /\ IsLegal(BestMove(output))
        /\ moves' = Append(moves, MoveData(output, BestMove(output), TRUE))
        /\ line' = Append(line, BestMove(output))
        /\ judged' = LastScore(output)
        /\ warnings' =
              (IF Len(output) <= 1 THEN <<>> ELSE VerifyPvLines(line, output, BestMove(output), setup.mates))
                \o (IF SignMismatch(moves') THEN Warn("SignMismatch", Absent) ELSE <<>>)
        /\ UNCHANGED <<phase, reason>>

-----------------------------------------------------------------------------
\* The engine goes back to the cache; a dead one is replaced by a new object.
Return ==
    /\ phase = "over"
    /\ phase' = "idle" /\ step' = 0
    /\ IF alive THEN UNCHANGED engine
       ELSE /\ initialized' = FALSE /\ options' = <<>>
            /\ UNCHANGED <<alive, holds>>
    /\ UNCHANGED <<setup, games, game>>

Next ==
    \/ BeginGame \/ ParseLine \/ AllParsed \/ SendOption \/ NewGame \/ EngineDies
    \/ EndGame \/ NoMove \/ IllegalMove \/ LateMove \/ PlayMove \/ Return

Spec == Init /\ [][Next]_vars

-----------------------------------------------------------------------------
(* Properties.                                                             *)

(* When a game begins the engine holds, for every option fastchess knows it to have, the
   last valid value the user gave, whatever was wrong with the values around it and however
   often the engine has been replaced; and the value printed with the results is that one. *)
Given == setup.configured \o Chess960(setup.start.frc)
Suits(sent, option) == sent.name = option.name /\ ~Throws(option, sent.text) /\ IsValid(option, sent.text)
OptionsReachEngine ==
    phase = "turn" => \A i \in DOMAIN options :
        LET valid == {n \in DOMAIN Given : Suits(Given[n], options[i])}
            name == options[i].name
        IN /\ holds[name] = IF valid = {} THEN DefaultOf(Declared(name)) ELSE Given[Max(valid)].text
           /\ valid # {} => options[i].value = ValueOf(options[i], holds[name])

(* The score of a move, the one in the record and the one the adjudications are given, is
   that of the last exact line of the first variation, or of its last bound if there is no
   exact one: not of another variation and not of an earlier search. It holds for engines
   that show fewer than ten variations: FirstPvByText looks at one digit. *)
FirstPvs(bounds) == {i \in DOMAIN lines : Scored(lines[i]) /\ FirstPv(lines[i]) /\ lines[i].bound \in bounds}
LastOf(S) == CHOOSE i \in S : \A j \in S : j <= i
JustMoved == phase = "turn" /\ moves # <<>> /\ ~Last(moves).book
FewVariations == \A i \in DOMAIN lines : lines[i].multipv = Absent \/ lines[i].multipv \in 1..9
ScoreIsOfFirstPv ==
    JustMoved /\ FewVariations =>
        /\ judged = Last(moves).score
        /\ judged = CASE FirstPvs({FALSE}) # {} -> ScoreOf(lines[LastOf(FirstPvs({FALSE}))])
                      [] FirstPvs({FALSE}) = {} /\ FirstPvs({TRUE}) # {} ->
                            ScoreOf(lines[LastOf(FirstPvs({TRUE}))])
                      [] OTHER -> Absent

(* A variation is complained about exactly if it cannot be played from the position of the
   search or goes on after the end of the game; an exact mate score exactly if its
   variation does not end in mate with the last of the moves it promises the winner. *)
Playable(pv) == /\ Front(line) \o pv \in Lines
                /\ \A n \in DOMAIN pv : ~OverSimple(Front(line) \o SubSeq(pv, 1, n - 1))
Infos == {i \in DOMAIN lines : Scored(lines[i]) /\ PvOf(lines[i]) # <<>>}
MovesOfWinner(pv, wins) == IF wins THEN (Len(pv) + 1) \div 2 ELSE Len(pv) \div 2
Promises(info) ==
    LET pv == PvOf(info)
        wins == ScoreOf(info).value > 0
    IN /\ Status[Front(line) \o pv] = "checkmate"
       /\ (Len(pv) % 2 = 1) = wins
       /\ MovesOfWinner(pv, wins) = IF wins THEN ScoreOf(info).value ELSE -ScoreOf(info).value
MateClaims == {i \in Infos : Playable(PvOf(lines[i])) /\ ~lines[i].bound /\ Mates([score |-> ScoreOf(lines[i])])}

Issued(kinds) == Cardinality({n \in DOMAIN warnings : warnings[n].warning \in kinds})
PlayWarnings == {Warning(s) : s \in Statuses}
MateWarnings == {"IncompleteMatingPv", "TooLongMatingPv", "MatingPvDoesNotEndWithCheckmate"}
WarningsAreTrue ==
    JustMoved =>
        /\ Issued(PlayWarnings) = Cardinality({i \in Infos : ~Playable(PvOf(lines[i]))})
        /\ Issued(MateWarnings) =
               IF setup.mates THEN Cardinality({i \in MateClaims : ~Promises(lines[i])}) ELSE 0

(* The engine, the reader of the PGN and the EPD get one game: an engine is told the moves
   that were made and nothing else; the PGN, used as a book, gives the start and the moves
   that were played, up to an illegal one and without the one that ended the game, so that
   a game can begin there; every number in it is that of the position; the reason of the
   end is its last comment, unless the game ended with its book; the opening it names is the
   last one that a reader of it comes by; and the EPD is the last position. *)
Written == phase = "over" /\ reason # "none"
FromStart == [from |-> IF setup.start.fen = STARTPOS THEN "startpos" ELSE setup.start.fen, moves |-> Front(line)]
IsNamed(read, n) == [from |-> read.from, moves |-> SubSeq(read.moves, 1, n)] \in Named
OpeningIsOf(read, opening) ==
    IF opening = Absent THEN \A n \in 0..Len(read.moves) : ~IsNamed(read, n)
    ELSE /\ IsPrefix(opening, read.moves) /\ IsNamed(read, Len(opening))
         /\ \A n \in (Len(opening) + 1)..Len(read.moves) : ~IsNamed(read, n)

\* An engine that has just moved was told the start and the moves before its own.
ToldIsPlayed == JustMoved => told = FromStart

\* The EPD is of the last position, or of the one a move that came too late leads to.
EpdIsPlayed ==
    Written => \/ Epd(moves) = line
               \/ reason = "time" /\ Len(moves) > Len(line) /\ Front(Epd(moves)) = line

PgnReplays ==
    /\ ToldIsPlayed /\ EpdIsPlayed
    /\ Written =>
        LET pgn == Pgn(setup.start, moves, setup.min)
            read == ReadPgn(HeadersOf(setup.start), SansOf(pgn), -1)
            last == Epd(moves)
        IN /\ read.from = setup.start.fen
           /\ read.moves = IF Over(last) /\ last # <<>> THEN Front(last) ELSE last
           /\ ~setup.start.frc => OpeningIsOf(read, Opening(setup.start, moves))
           /\ \A i \in DOMAIN pgn : pgn[i].number # 0 =>
                  pgn[i].number = setup.start.number + (i - 1 + (IF setup.start.black THEN 1 ELSE 0)) \div 2
           /\ ~setup.min /\ (\E i \in DOMAIN pgn : ~moves[i].book) => "reason" \in ToSet(Last(pgn).comment)
=============================================================================
