------------------------------- MODULE Match -------------------------------
(***************************************************************************)
(* One game, Match::start, played by one thread: two engines are started,  *)
(* refreshed and asked in turn for a move until the rules, the clock, an   *)
(* adjudication, a broken engine or the end of the tournament stops them.  *)
(* Engines and the chess board are the environment: an engine answers, or  *)
(* not, with a legal move or another one, after any time and with any      *)
(* score; after any move the game may be over.                             *)
(***************************************************************************)
EXTENDS TimeControl, Adjudication, Sequences, FiniteSets

CONSTANTS
    Configs,     \* the games looked at
    MaxPlies     \* bound on the length of a game

\* limits of either engine; endless: it searches nodes or plies, so nothing is waited for
\* in vain; tb: the results tablebases adjudicate; first and fullMove: of the position
\* after the book; throws: processing a move may throw; scores, elapsed and zeroing: what
\* the moves may be like.
Config == [limits : [Colors -> Limits], endless : [Colors -> BOOLEAN],
           draw : DrawConfig, resign : ResignConfig, maxmoves : MaxMovesConfig,
           tb : SUBSET {"win_loss", "draw"}, first : Colors, fullMove : Nat \ {0},
           throws : BOOLEAN, scores : SUBSET (Score \cup {NoScore}), elapsed : SUBSET Nat,
           zeroing : SUBSET BOOLEAN]

\* An engine has a clock or a fixed time per move (validateEngine).
Playable(limits) == limits.fixed_time # 0 => limits.time = 0 /\ limits.increment = 0

ASSUME MatchAssumption ==
    /\ Configs \subseteq Config
    /\ \A config \in Configs, c \in Colors : Playable(config.limits[c])
    /\ MaxPlies \in Nat

VARIABLES
    conf,         \* the configuration, constant
    stop,         \* atomic::stop
    phase,        \* where the thread is
    side,         \* board_.sideToMove()
    fullMove,     \* board_.fullMoveNumber()
    zeroed,       \* board_.halfMoveClock() = 0
    clock,        \* time_control_ of each player
    used,         \* history: the answers of each engine, their time and that of the last
    lastScore,    \* lastScore() of each engine, that of its last game at first
    told,         \* external: the last command to search
    status,       \* how the last wait for a move ended
    drawMoves,    \* draw_tracker_
    resignMoves,  \* resign_tracker_
    maxMoves,     \* maxmoves_tracker_
    moves,        \* data_.moves without the book
    result,       \* result of each player
    termination,  \* data_.termination
    reason,       \* data_.reason
    broken        \* stall_or_disconnect_

board == <<side, fullMove, zeroed>>
timing == <<clock, used>>
trackers == <<drawMoves, resignMoves, maxMoves>>
verdict == <<result, termination, reason, broken>>
vars == <<conf, stop, phase, board, timing, lastScore, told, status, trackers, moves, verdict>>

InGame == {"turn", "prepare", "search", "answer"}
Phases == {"start", "refreshWhite", "refreshBlack", "ping", "done"} \cup InGame
Terminations == {"None", "NORMAL", "ADJUDICATION", "TIMEOUT", "DISCONNECT", "STALL",
                 "ILLEGAL_MOVE", "INTERRUPT"}

\* A reason names the winner or the loser of the game, or nobody.
WinnerReasons == {"mates", "adjudication", "tablebase"}
LoserReasons == {"time", "disconnects", "stalls", "illegal"}
DrawReasons == {"draw by rule", "draw by adjudication", "draw by tablebase"}
Reason == [text : WinnerReasons \cup LoserReasons \cup DrawReasons \cup {"none", "interrupted"},
           color : Colors \cup {"nobody"}]

Move == [by : Colors, elapsed : Nat, legal : BOOLEAN, score : Score \cup {NoScore}, zeroing : BOOLEAN]

us == side
them == Other(side)
Because(text, color) == [text |-> text, color |-> color]

-----------------------------------------------------------------------------
(* What the players are told.                                              *)

\* UciEngine::go: the limits of the search and the clocks as White's and Black's.
\* An engine without time of its own is told no clock, and no clock is told that
\* has no time.
Keeps(c) == conf.limits[c].time + conf.limits[c].increment # 0
NoCommand == [movetime |-> 0, time |-> <<>>, inc |-> <<>>, movestogo |-> 0]
GoCommand ==
    LET fixed == conf.limits[us].fixed_time # 0
        shown == IF fixed \/ ~Keeps(us) THEN {} ELSE {c \in Colors : Keeps(c)}
    IN [movetime |-> IF fixed THEN conf.limits[us].fixed_time ELSE 0,
        time |-> [c \in shown |-> clock[c].time_left],
        inc |-> [c \in {d \in shown : conf.limits[d].increment # 0} |-> conf.limits[c].increment],
        movestogo |-> IF fixed THEN 0 ELSE clock[us].moves_left]

\* getResultFromWhiteMatch: the result of the game in the PGN.
PgnResult == CASE result["white"] = "win" -> "1-0" [] result["white"] = "lose" -> "0-1"
               [] result["white"] = "draw" -> "1/2-1/2" [] OTHER -> "*"

-----------------------------------------------------------------------------
Init ==
    /\ conf \in Configs
    /\ stop = FALSE
    /\ phase = "start"
    /\ side = conf.first /\ fullMove = conf.fullMove /\ zeroed \in BOOLEAN
    /\ clock = [c \in Colors |-> NewClock(conf.limits[c])]
    /\ used = [c \in Colors |-> [answers |-> 0, time |-> 0, last |-> 0]]
    /\ lastScore \in [Colors -> conf.scores]
    /\ told = NoCommand
    /\ status = "none"
    /\ drawMoves = 0 /\ resignMoves = NewResignTracker /\ maxMoves = 0
    /\ moves = <<>>
    /\ result = [c \in Colors |-> "none"]
    /\ termination = "None"
    /\ reason = Because("none", "nobody")
    /\ broken = FALSE

Loses(c) == result' = [result EXCEPT ![c] = "lose", ![Other(c)] = "win"]
Draws == result' = [c \in Colors |-> "draw"]
Terminates(kind, why) == termination' = kind /\ reason' = why

\* setEngineCrashStatus
Crashes(c) ==
    /\ Loses(c)
    /\ broken' = TRUE
    /\ IF stop THEN Terminates("INTERRUPT", Because("interrupted", "nobody"))
               ELSE Terminates("DISCONNECT", Because("disconnects", side))

\* setEngineStallStatus
StallsUnnoticed(c) ==
    /\ Loses(c)
    /\ UNCHANGED broken
    /\ Terminates("STALL", Because("stalls", side))
Stalls(c) ==
    /\ Loses(c)
    /\ broken' = TRUE
    /\ Terminates("STALL", Because("stalls", side))

\* The engine of c fails validConnection: it does not answer isready in time, or is gone.
LosesConnection(c) == Stalls(c) \/ Crashes(c)

-----------------------------------------------------------------------------
(* Before the first move.                                                  *)

\* A failure to start stops the tournament.
StartFails ==
    /\ phase = "start"
    /\ stop' = TRUE
    /\ phase' = "done"
    /\ UNCHANGED <<conf, board, timing, lastScore, told, status, trackers, moves, verdict>>

EnginesStart ==
    /\ phase = "start"
    /\ phase' = IF stop THEN "done" ELSE "refreshWhite"
    /\ UNCHANGED <<conf, stop, board, timing, lastScore, told, status, trackers, moves, verdict>>

\* A failure to refresh does not keep the other engine from being refreshed.
Refresh(c, here, next) ==
    /\ phase = here
    /\ phase' = next
    /\ Crashes(c) \/ UNCHANGED verdict
    /\ UNCHANGED <<conf, stop, board, timing, lastScore, told, status, trackers, moves>>

RefreshEngines == Refresh("white", "refreshWhite", "refreshBlack") \/ Refresh("black", "refreshBlack", "ping")

\* validConnection(white_player, black_player)
FirstPing ==
    /\ phase = "ping"
    /\ \/ LosesConnection("white") /\ phase' = "done"
       \/ UNCHANGED verdict /\ phase' = IF termination = "None" THEN "turn" ELSE "done"
    /\ UNCHANGED <<conf, stop, board, timing, lastScore, told, status, trackers, moves>>

-----------------------------------------------------------------------------
(* The beginning of a move.                                                *)

Ends ==
    /\ phase' = "done"
    /\ UNCHANGED <<conf, stop, board, timing, lastScore, told, status, trackers, moves>>

TurnInterrupted ==
    /\ phase = "turn" /\ stop
    /\ Terminates("INTERRUPT", Because("interrupted", "nobody"))
    /\ Ends
    /\ UNCHANGED <<result, broken>>

\* board_.isGameOver(): the side to move is mated, or the game is drawn.
GameOver ==
    /\ phase = "turn" /\ ~stop
    /\ \/ Loses(us) /\ Terminates("NORMAL", Because("mates", them))
       \/ Draws /\ Terminates("NORMAL", Because("draw by rule", "nobody"))
    /\ Ends
    /\ UNCHANGED broken

\* adjudicate(them, us), in which the engine that made the last move is called us.
\* probe is the verdict of the tablebases for the side to move.
TbDecides(probe) ==
    zeroed /\ \/ probe \in {"win", "loss"} /\ "win_loss" \in conf.tb
              \/ probe = "draw" /\ "draw" \in conf.tb

Resigns ==
    /\ conf.resign.enabled
    /\ Resignable(conf.resign, resignMoves)
    /\ lastScore[them] # NoScore /\ lastScore[them].value < 0

DrawnByScores == conf.draw.enabled /\ DrawAdjudicatable(conf.draw, drawMoves, fullMove - 1)
DrawnByLength == conf.maxmoves.enabled /\ MaxMovesReached(conf.maxmoves, maxMoves)

AdjudicateTb ==
    \E probe \in {"win", "loss", "draw"} :
        /\ phase = "turn" /\ ~stop
        /\ TbDecides(probe)
        /\ \/ probe = "win" /\ Loses(them) /\ Terminates("ADJUDICATION", Because("tablebase", us))
           \/ probe = "loss" /\ Loses(us) /\ Terminates("ADJUDICATION", Because("tablebase", them))
           \/ probe = "draw" /\ Draws
              /\ Terminates("ADJUDICATION", Because("draw by tablebase", "nobody"))
        /\ Ends
        /\ UNCHANGED broken

AdjudicateResignOther ==
    /\ phase = "turn" /\ ~stop
    /\ Resigns
    /\ Loses(them)
    /\ Terminates("ADJUDICATION", Because("adjudication", them))
    /\ Ends
    /\ UNCHANGED broken
AdjudicateResign ==
    /\ phase = "turn" /\ ~stop
    /\ Resigns
    /\ Loses(them)
    /\ Terminates("ADJUDICATION", Because("adjudication", us))
    /\ Ends
    /\ UNCHANGED broken

AdjudicateDraw ==
    /\ phase = "turn" /\ ~stop
    /\ ~Resigns
    /\ DrawnByScores \/ DrawnByLength
    /\ Draws
    /\ Terminates("ADJUDICATION", Because("draw by adjudication", "nobody"))
    /\ Ends
    /\ UNCHANGED broken

GoesOn ==
    /\ phase = "turn" /\ ~stop
    /\ ~Resigns /\ ~DrawnByScores /\ ~DrawnByLength
    /\ phase' = "prepare"
    /\ UNCHANGED <<conf, stop, board, timing, lastScore, told, status, trackers, moves, verdict>>

-----------------------------------------------------------------------------
(* The search.                                                             *)

\* The connection is tested, the position and the command to search are written.
Prepare ==
    /\ phase = "prepare"
    /\ phase' = "search"
    /\ told' = GoCommand
    /\ UNCHANGED <<conf, stop, board, timing, lastScore, status, trackers, moves, verdict>>

\* One of the two pings or of the two writes before the search fails, or the search ends
\* with an error, or the ping after it fails.
BreaksDown ==
    /\ phase \in {"prepare", "answer"}
    /\ LosesConnection(us)
    /\ Ends

\* An exception thrown while a move is processed, caught by gameLoop.
Throws ==
    /\ conf.throws
    /\ phase \in {"prepare", "search", "answer"} \/ (phase = "turn" /\ ~stop)
    /\ Loses(us)
    /\ Terminates("INTERRUPT", Because("interrupted", "nobody"))
    /\ Ends
    /\ UNCHANGED broken

\* stop is set while the engine searches.
SearchInterrupted ==
    /\ phase = "search" /\ stop
    /\ termination' = "INTERRUPT"
    /\ Ends
    /\ UNCHANGED <<result, reason, broken>>

SearchReturns ==
    /\ phase = "search" /\ ~stop
    /\ phase' = "answer"
    /\ UNCHANGED <<conf, stop, board, timing, lastScore, told, status, trackers, moves, verdict>>

\* A line that starts with bestmove came, or nothing came for as long as the threshold.
Threshold == TimeoutThreshold(conf.limits[us], clock[us])
Replies ==
    [status : {"OK"}, elapsed : conf.elapsed] \cup
    (IF conf.endless[us] THEN {}
     ELSE [status : {"TIMEOUT"}, elapsed : {e + Threshold : e \in conf.elapsed}])

TimedOut(elapsed) ==
    HasTimeControl(conf.limits[us]) /\ ~InTime(conf.limits[us], clock[us], elapsed)

ClockAfter(elapsed) ==
    IF HasTimeControl(conf.limits[us]) THEN UpdateTime(conf.limits[us], clock[us], elapsed) ELSE clock[us]

\* What every answer changes: the output of the engine and its clock.
Answers(reply, score) ==
    /\ phase = "answer"
    /\ reply \in Replies
    /\ score \in conf.scores
    /\ status' = reply.status
    /\ lastScore' = [lastScore EXCEPT ![us] = score]
    /\ clock' = [clock EXCEPT ![us] = ClockAfter(reply.elapsed)]
    /\ used' = [used EXCEPT ![us] = [answers |-> @.answers + 1, time |-> @.time + reply.elapsed,
                                     last |-> reply.elapsed]]

\* addMoveData
Recorded(reply, score, legal, zeroing) ==
    moves' = Append(moves, [by |-> us, elapsed |-> reply.elapsed, legal |-> legal,
                            score |-> score, zeroing |-> zeroing])

LosesOnTime == Loses(us) /\ Terminates("TIMEOUT", Because("time", us))
LosesByIllegalMove == Loses(us) /\ Terminates("ILLEGAL_MOVE", Because("illegal", us))

NoMove ==
    \E reply \in Replies, score \in conf.scores :
        /\ Answers(reply, score)
        /\ IF TimedOut(reply.elapsed) THEN LosesOnTime ELSE LosesByIllegalMove
        /\ phase' = "done"
        /\ UNCHANGED <<conf, stop, board, told, trackers, moves, broken>>

IllegalMove ==
    \E reply \in Replies, score \in conf.scores :
        /\ Answers(reply, score)
        /\ Recorded(reply, score, FALSE, FALSE)
        /\ LosesByIllegalMove
        /\ phase' = "done"
        /\ UNCHANGED <<conf, stop, board, told, trackers, broken>>

\* A partial last line counts as a move too when the wait times out.
LateMove ==
    \E reply \in Replies, score \in conf.scores :
        /\ Answers(reply, score)
        /\ TimedOut(reply.elapsed)
        /\ Recorded(reply, score, TRUE, FALSE)
        /\ LosesOnTime
        /\ phase' = "done"
        /\ UNCHANGED <<conf, stop, board, told, trackers, broken>>

PlayMove ==
    \E reply \in Replies, score \in conf.scores, zeroing \in conf.zeroing :
        /\ Answers(reply, score)
        /\ ~TimedOut(reply.elapsed)
        /\ Len(moves) < MaxPlies
        /\ Recorded(reply, score, TRUE, zeroing)
        /\ side' = them
        /\ fullMove' = fullMove + (IF us = "black" THEN 1 ELSE 0)
        /\ zeroed' = zeroing
        /\ drawMoves' = DrawMoves(conf.draw, drawMoves, score, zeroing)
        /\ resignMoves' = ResignMoves(conf.resign, resignMoves, score, us)
        /\ maxMoves' = maxMoves + 1
        /\ phase' = "turn"
        /\ UNCHANGED <<conf, stop, told, verdict>>

-----------------------------------------------------------------------------
\* The tournament is stopped by another game, by the SPRT or by the user.
Stop ==
    /\ ~stop /\ phase # "done"
    /\ stop' = TRUE
    /\ UNCHANGED <<conf, phase, board, timing, lastScore, told, status, trackers, moves, verdict>>

Next ==
    \/ StartFails \/ EnginesStart \/ RefreshEngines \/ FirstPing
    \/ TurnInterrupted \/ GameOver \/ AdjudicateTb \/ AdjudicateResign \/ AdjudicateDraw \/ GoesOn
    \/ Prepare \/ BreaksDown \/ Throws \/ SearchInterrupted \/ SearchReturns
    \/ NoMove \/ IllegalMove \/ LateMove \/ PlayMove
    \/ Stop

Spec == Init /\ [][Next]_vars

-----------------------------------------------------------------------------
(* Properties.                                                             *)

TypeOK ==
    /\ conf \in Configs
    /\ stop \in BOOLEAN /\ zeroed \in BOOLEAN /\ broken \in BOOLEAN
    /\ phase \in Phases
    /\ side \in Colors /\ fullMove \in Nat \ {0}
    /\ clock \in [Colors -> Clock]
    /\ used \in [Colors -> [answers : Nat, time : Nat, last : Nat]]
    /\ lastScore \in [Colors -> Score \cup {NoScore}]
    /\ status \in {"none", "OK", "TIMEOUT"}
    /\ drawMoves \in Nat /\ resignMoves \in [both : Nat, white : Nat, black : Nat] /\ maxMoves \in Nat
    /\ moves \in Seq(Move)
    /\ result \in [Colors -> {"none", "win", "lose", "draw"}]
    /\ termination \in Terminations
    /\ reason \in Reason

Outcomes == {[white |-> "win", black |-> "lose"], [white |-> "lose", black |-> "win"],
             [white |-> "draw", black |-> "draw"]}

\* What playGame reads off a match that has ended: a result for the scoreboard unless it
\* was interrupted, which needs a cause, and whether an engine has to be restarted.
EndIsAccountedFor ==
    phase = "done" =>
        /\ termination = "None" => stop
        /\ termination = "INTERRUPT" => stop \/ conf.throws
        /\ termination \notin {"None", "INTERRUPT"} => result \in Outcomes
        /\ broken => termination \in {"DISCONNECT", "STALL"} \/ (termination = "INTERRUPT" /\ stop)
        /\ termination \in {"DISCONNECT", "STALL"} => broken

\* The last n moves justify a draw by adjudication.
DrawRun(n) ==
    /\ n <= Len(moves)
    /\ \A i \in Len(moves) - n + 1 .. Len(moves) :
          /\ Drawish(conf.draw, moves[i].score)
          /\ i > Len(moves) - n + 1 => ~moves[i].zeroing

\* The moves a draw by adjudication has to be earned with, for each engine as many.
DrawEarned ==
    conf.draw.enabled /\ fullMove > conf.draw.move_number /\ DrawRun(2 * conf.draw.move_count)

LengthReached == conf.maxmoves.enabled /\ Len(moves) >= 2 * conf.maxmoves.move_count

\* A game is adjudicated a draw for its last moves or for its length when, and as soon
\* as, all of these moves justify it.
DrawIsExact ==
    /\ phase = "prepare" => ~DrawEarned /\ ~LengthReached
    /\ reason.text = "draw by adjudication" => DrawEarned \/ LengthReached

\* Both engines took the last n moves of the game to decide it.
DecisiveRun(n) ==
    n <= Len(moves) /\ \A i \in Len(moves) - n + 1 .. Len(moves) : Decisive(conf.resign, moves[i].score)

\* Engine c took its own last n moves to lose.
MovesBy(c) == {i \in 1..Len(moves) : moves[i].by = c}
LosingRun(c, n) ==
    /\ Cardinality(MovesBy(c)) >= n
    /\ \A i \in MovesBy(c) :
          Cardinality({j \in MovesBy(c) : j > i}) < n => Losing(conf.resign, moves[i].score)

\* An engine resigns for its own last moves; with twosided both engines have to agree
\* that the game is decided. With score=0 a move of score 0 is losing for both, and
\* either of them may have made the moves.
ResignIsEarned ==
    reason.text = "adjudication" =>
        LET n == conf.resign.move_count
        IN  IF conf.resign.twosided THEN DecisiveRun(2 * n)
            ELSE \E c \in Colors : LosingRun(c, n) /\ (conf.resign.score > 0 => c = Other(reason.color))

AdjudicationIsEarned == DrawIsExact /\ ResignIsEarned

\* The time an engine has for its first n moves.
Budget(limits, n) ==
    limits.time * (1 + (IF limits.moves = 0 THEN 0 ELSE n \div limits.moves)) + limits.increment * n

\* While a game goes on no clock is negative, no engine has used more than its time and
\* the margins, and what its clock shows is at least the time it has not used.
ClockIsKept ==
    phase # "done" =>
        \A c \in Colors :
            LET limits == conf.limits[c]
                n == used[c].answers
            IN  HasTimeControl(limits) =>
                /\ clock[c].time_left >= 0
                /\ IF limits.fixed_time # 0
                   THEN used[c].time <= n * (limits.fixed_time + limits.timemargin)
                   ELSE /\ used[c].time <= Budget(limits, n) + n * limits.timemargin
                        /\ clock[c].time_left >= Budget(limits, n) + limits.increment - used[c].time

\* An engine that loses on time, with a move or without, has used more than it was given,
\* and more for this move than it was told that it had.
ToldTime == IF told.movetime # 0 THEN told.movetime ELSE told.time[us]
TimeLossIsEarned ==
    termination = "TIMEOUT" =>
        LET limits == conf.limits[us]
        IN  /\ used[us].last > ToldTime + limits.timemargin
            /\ limits.fixed_time = 0 =>
                   used[us].time > Budget(limits, used[us].answers) + limits.timemargin

ReasonFits ==
    /\ reason.text \in LoserReasons => result[reason.color] = "lose"
    /\ reason.text \in WinnerReasons => result[reason.color] = "win"
    /\ reason.text \in DrawReasons => \A c \in Colors : result[c] = "draw"
    /\ PgnResult = CASE reason.text \in DrawReasons -> "1/2-1/2"
                      [] reason.text \in WinnerReasons -> IF reason.color = "white" THEN "1-0" ELSE "0-1"
                      [] reason.text \in LoserReasons -> IF reason.color = "white" THEN "0-1" ELSE "1-0"
                      [] OTHER -> PgnResult

\* Once the first move is begun, the reason of the end names the engine the result is
\* about, from whichever perspective it was found, and so does the result in the PGN.
ReasonIsTrue ==
    [][phase' = "done" /\ phase \in InGame => ReasonFits']_vars
=============================================================================
