----------------------------- MODULE UciSession -----------------------------
(***************************************************************************)
(* One engine of the cache through the games it plays: UciEngine, and the  *)
(* calls playGame and Match make of it. The other engine of a game and the *)
(* rest of the tournament are the environment.                             *)
(*                                                                         *)
(* A call is a label of pc; phase says how far it is, so that the test of  *)
(* alive(), the write and the read of one call are three steps.            *)
(***************************************************************************)
EXTENDS EngineProcess, FiniteSets

CONSTANTS
    Configs,    \* the sessions looked at
    MaxGames,   \* bound on the games of the engine
    MaxMoves    \* bound on its moves in a game

\* timed: a search is waited for with a threshold; forgiving: the clock may be in time when
\* the threshold is not (the last move of a time control); obeys: a search that is told to
\* stop answers within the ten seconds it is given; chatty: info lines without end;
\* recover: -recover.
Config == [timed : BOOLEAN, forgiving : BOOLEAN, obeys : BOOLEAN, chatty : BOOLEAN,
           recover : BOOLEAN]

ASSUME SessionAssumption == Configs \subseteq Config /\ MaxGames \in Nat /\ MaxMoves \in Nat

VARIABLES
    conf,         \* the configuration, constant
    stop,         \* atomic::stop
    torn,         \* writeToOpenPipes has run
    pc,           \* where the worker is
    phase,        \* how far the call at pc is
    code,         \* process::Status of a call that has returned
    initialized,  \* initialized_
    white,        \* the engine plays white in this game
    answer,       \* the move in output_: the "go" it belongs to, or 0
    verdict,      \* data_.termination
    broken,       \* stall_or_disconnect_
    games, moves, asked,   \* games begun, moves of this game, searches this process was asked for
    greeted,      \* history: this process has said uciok
    refreshed,    \* history: it has answered in this game to ucinewgame
    missed        \* history: pings that failed since the last answer to a "go"

call == <<pc, phase, code>>
game == <<white, verdict, broken, games, moves>>
history == <<greeted, refreshed, missed>>
vars == <<process, conf, stop, torn, call, initialized, answer, asked, game, history>>

Pings == {"newgame", "connect", "before_position", "before_go", "after_search", "recover"}
Writes == {"uci", "ucinewgame", "position", "go", "stop", "close_stop", "close_quit"}
Reads == {"uciok", "search", "drain"}
Playing == {"turn", "before_position", "position", "before_go", "go", "search", "after_search",
            "judge", "stop", "drain"}
Points == Pings \cup Writes \cup Reads \cup Playing \cup
          {"idle", "start", "started", "ended", "terminate", "over", "killed"}

FirstPhase(point) ==
    CASE point \in Pings -> "alive" [] point \in Writes -> "test" [] point \in Reads -> "read"
      [] OTHER -> "none"
Goto(point) == pc' = point /\ phase' = FirstPhase(point) /\ code' = "none"

Command ==
    CASE pc \in Pings -> Line("isready")
      [] pc = "go" -> Go(asked + 1)
      [] pc = "close_stop" -> Line("stop")
      [] pc = "close_quit" -> Line("quit")
      [] OTHER -> Line(pc)
Awaited ==
    CASE pc \in Pings -> "readyok" [] pc = "uciok" -> "uciok" [] OTHER -> "bestmove"

-----------------------------------------------------------------------------
Init ==
    /\ conf \in Configs
    /\ life = "none" /\ stdin = <<>> /\ stdout = <<>> /\ searching = 0 /\ interrupt = FALSE
    /\ stop = FALSE /\ torn = FALSE
    /\ pc = "idle" /\ phase = "none" /\ code = "none"
    /\ initialized = FALSE
    /\ white = TRUE /\ verdict = "none" /\ broken = FALSE /\ games = 0 /\ moves = 0
    /\ answer = 0 /\ asked = 0
    /\ greeted = FALSE /\ refreshed = FALSE /\ missed = 0

-----------------------------------------------------------------------------
(* Calls: isready, writeEngine and readEngine.                             *)

Continue(next) == phase' = next /\ UNCHANGED <<pc, code>>
Return(result) ==
    /\ phase' = "returned" /\ code' = result /\ UNCHANGED pc
    /\ missed' = IF pc \in Pings /\ result # "OK" THEN missed + 1 ELSE missed

\* isready asks first whether the process is alive.
CheckAlive ==
    /\ phase = "alive"
    /\ IF Alive THEN Continue("test") /\ UNCHANGED missed ELSE Return("ERR")
    /\ UNCHANGED <<process, conf, stop, torn, initialized, answer, asked, game, greeted, refreshed>>

\* writeInput does too; isready goes on to read even if this fails.
TestWrite ==
    /\ phase = "test"
    /\ IF Alive THEN Continue("send") /\ UNCHANGED missed
       ELSE IF pc \in Pings THEN Continue("read") /\ UNCHANGED missed
       ELSE Return("ERR")
    /\ UNCHANGED <<process, conf, stop, torn, initialized, answer, asked, game, greeted, refreshed>>

\* The write itself. SIGPIPE is not ignored: with nobody at the other end it ends the program.
Send ==
    /\ phase = "send"
    /\ \/ /\ Write(Command)
          /\ asked' = IF pc = "go" THEN asked + 1 ELSE asked
          /\ IF pc \in Pings THEN Continue("read") /\ UNCHANGED missed ELSE Return("OK")
       \/ /\ BrokenPipe
          /\ Goto("killed")
          /\ UNCHANGED <<asked, missed>>
    /\ UNCHANGED <<conf, stop, torn, initialized, answer, game, greeted, refreshed>>

ReadFails ==
    /\ phase = "read"
    /\ Interrupted \/ HungUp
    /\ Return("ERR")
    /\ answer' = IF pc = "search" THEN 0 ELSE answer
    /\ UNCHANGED <<conf, stop, torn, initialized, asked, game, greeted, refreshed>>

ReadGoesOn ==
    /\ phase = "read"
    /\ ReadLines(Awaited, Line("none"))
    /\ UNCHANGED <<conf, stop, torn, call, initialized, answer, asked, game, history>>

ReadFinds ==
    /\ phase = "read"
    /\ \E n \in 0..asked :
          /\ ReadLines(Awaited, [word |-> Awaited, of |-> n])
          /\ answer' = IF pc = "search" THEN n ELSE answer
          /\ phase' = "returned" /\ code' = "OK" /\ UNCHANGED pc
          /\ missed' = IF pc = "search" /\ n = asked THEN 0 ELSE missed
    /\ UNCHANGED <<conf, stop, torn, initialized, asked, game, greeted, refreshed>>

\* poll has seen nothing for as long as it was told to wait.
MayTimeOut ==
    /\ Silent
    /\ pc = "search" => conf.timed
    /\ pc = "drain" /\ conf.obeys => stdin = <<>> /\ searching = 0

\* What there is of an unfinished line counts as one, and may hold the whole move.
ReadTimesOut ==
    /\ phase = "read"
    /\ MayTimeOut
    /\ Return("TIMEOUT")
    /\ \/ /\ answer' = IF pc = "search" THEN 0 ELSE answer
          /\ UNCHANGED searching
       \/ /\ pc = "search" /\ searching # 0
          /\ answer' = searching
          /\ searching' = 0
    /\ UNCHANGED <<life, pipes, interrupt, conf, stop, torn, initialized, asked, game, greeted,
                   refreshed>>

Call == CheckAlive \/ TestWrite \/ Send \/ ReadFails \/ ReadGoesOn \/ ReadFinds \/ ReadTimesOut

Returned(point) == pc = point /\ phase = "returned"
Succeeded(point) == Returned(point) /\ code = "OK"
Failed(point) == Returned(point) /\ code # "OK"

-----------------------------------------------------------------------------
(* playGame, start and refreshUci.                                         *)

\* A game begins unless the tournament has been stopped.
BeginGame ==
    /\ pc = "idle" /\ ~stop /\ games < MaxGames
    /\ games' = games + 1
    /\ Goto(IF initialized THEN "started" ELSE "start")
    /\ UNCHANGED <<process, conf, stop, torn, initialized, answer, asked, white, verdict, broken, moves,
                   history>>

\* A game that has not started stops the tournament.
StartFailsUnnoticed == Goto("idle") /\ UNCHANGED stop
StartFails == Goto("idle") /\ stop' = TRUE

StartProcess ==
    /\ pc = "start"
    /\ \/ /\ Spawn
          /\ initialized' = TRUE
          /\ Goto("uci")
          /\ UNCHANGED stop
       \/ /\ StartFails
          /\ UNCHANGED <<process, initialized>>
    /\ UNCHANGED <<conf, torn, answer, asked, game, history>>

AskUci ==
    /\ Returned("uci")
    /\ IF code = "OK" THEN Goto("uciok") /\ UNCHANGED stop ELSE StartFails
    /\ UNCHANGED <<process, conf, torn, initialized, answer, asked, game, history>>

ReadUciok ==
    /\ Returned("uciok")
    /\ IF code = "OK" THEN Goto("started") /\ UNCHANGED stop ELSE StartFails
    /\ greeted' = (code = "OK")
    /\ UNCHANGED <<process, conf, torn, initialized, answer, asked, game, refreshed, missed>>

\* The other engine has started too, or stop says that it has not.
BothStarted ==
    /\ pc = "started"
    /\ IF stop THEN Goto("idle") /\ UNCHANGED white ELSE Goto("ucinewgame") /\ white' \in BOOLEAN
    /\ UNCHANGED <<process, conf, stop, torn, initialized, answer, asked, verdict, broken, games, moves,
                   history>>

\* setEngineCrashStatus, setEngineStallStatus.
Breaks(stalled) ==
    /\ broken' = TRUE
    /\ verdict' = IF stop /\ ~stalled THEN "interrupted" ELSE "ended"
    /\ UNCHANGED <<white, games, moves>>

\* The first player is pinged even if it has failed already.
Connect == Goto(IF white THEN "connect" ELSE IF verdict' = "none" THEN "turn" ELSE "ended")
Ucinewgame ==
    /\ Returned("ucinewgame")
    /\ IF code = "OK" THEN Goto("newgame") /\ UNCHANGED game ELSE Breaks(FALSE) /\ Connect
    /\ UNCHANGED <<process, conf, stop, torn, initialized, answer, asked, history>>

Refresh ==
    /\ Returned("newgame")
    /\ IF code = "OK" THEN UNCHANGED game ELSE Breaks(FALSE)
    /\ Connect
    /\ refreshed' = (code = "OK")
    /\ UNCHANGED <<process, conf, stop, torn, initialized, answer, asked, greeted, missed>>

-----------------------------------------------------------------------------
(* gameLoop and playMove.                                                  *)

\* A ping, or a write, of a game: on to next, or the game is over. Only a ping can stall.
Proceed(point, next) ==
    /\ Returned(point)
    /\ IF code = "OK" THEN Goto(next) /\ UNCHANGED game
       ELSE Breaks(code = "TIMEOUT") /\ Goto("ended")
    /\ UNCHANGED <<process, conf, stop, torn, initialized, answer, asked, history>>

FirstPing == Proceed("connect", IF verdict = "none" THEN "turn" ELSE "ended")

Ends(why) == verdict' = why /\ UNCHANGED <<white, broken, games, moves>>
TurnInterrupted ==
    /\ pc = "turn" /\ stop
    /\ Ends("interrupted")
    /\ Goto("ended")
    /\ UNCHANGED <<process, conf, stop, torn, initialized, answer, asked, history>>

\* The rules, an adjudication or the other engine, which may be broken.
GameOver ==
    /\ pc = "turn"
    /\ Ends("ended") \/ Breaks(FALSE) \/ Breaks(TRUE)
    /\ Goto("ended")
    /\ UNCHANGED <<process, conf, stop, torn, initialized, answer, asked, history>>

TakeTurn ==
    /\ pc = "turn" /\ ~stop /\ moves < MaxMoves
    /\ Goto("before_position")
    /\ UNCHANGED <<process, conf, stop, torn, initialized, answer, asked, game, history>>

Prepare ==
    \/ Proceed("before_position", "position")
    \/ Proceed("position", "before_go")
    \/ Proceed("before_go", "go")
    \/ Proceed("go", "search")

\* stop is looked at before the result of the wait.
SearchReturns ==
    /\ Returned("search")
    /\ CASE stop -> Ends("interrupted") /\ Goto("ended")
         [] ~stop /\ code = "ERR" -> Breaks(FALSE) /\ Goto("ended")
         [] OTHER -> UNCHANGED game /\ Goto("after_search")
    /\ UNCHANGED <<process, conf, stop, torn, initialized, answer, asked, history>>

StillReady == Proceed("after_search", "judge")

PlayMove ==
    /\ pc = "judge" /\ answer # 0
    /\ moves' = moves + 1
    /\ Goto("turn")
    /\ UNCHANGED <<process, conf, stop, torn, initialized, answer, asked, white, verdict, broken,
                   games, history>>

\* setEngineTimeoutStatus: the engine is told to stop, and waited for if it has not answered.
LosesOnTimeAlone ==
    /\ pc = "judge"
    /\ Ends("ended")
    /\ Goto("ended")
    /\ UNCHANGED <<process, conf, stop, torn, initialized, answer, asked, history>>
LosesOnTime ==
    /\ pc = "judge"
    /\ Ends("ended")
    /\ Goto("stop")
    /\ UNCHANGED <<process, conf, stop, torn, initialized, answer, asked, history>>

\* setEngineIllegalMoveStatus: also for no move at all, if the clock forgives it.
LosesByIllegalMove ==
    /\ pc = "judge" /\ (answer # 0 \/ conf.forgiving)
    /\ Ends("ended")
    /\ Goto("ended")
    /\ UNCHANGED <<process, conf, stop, torn, initialized, answer, asked, history>>

Drain ==
    /\ \/ Returned("stop") /\ Goto(IF answer = 0 THEN "drain" ELSE "ended")
       \/ Returned("drain") /\ Goto("ended")
    /\ UNCHANGED <<process, conf, stop, torn, initialized, answer, asked, game, history>>

-----------------------------------------------------------------------------
(* The end of playGame, restartEngine and ~UciEngine.                      *)

\* Without -recover a broken engine stops the tournament. The match is over and forgotten.
EndGame ==
    /\ pc = "ended"
    /\ stop' = (stop \/ (broken /\ ~conf.recover))
    /\ Goto(IF broken /\ conf.recover THEN "recover" ELSE "idle")
    /\ white' = TRUE /\ verdict' = "none" /\ broken' = FALSE /\ moves' = 0 /\ answer' = 0
    /\ refreshed' = FALSE
    /\ UNCHANGED <<process, conf, torn, initialized, asked, games, greeted, missed>>

Recover ==
    /\ Returned("recover")
    /\ Goto(IF code = "OK" THEN "idle" ELSE "close_stop")
    /\ UNCHANGED <<process, conf, stop, torn, initialized, answer, asked, game, history>>

\* The cache goes when all games are over.
CloseSession ==
    /\ pc = "idle" /\ (torn \/ games = MaxGames)
    /\ Goto(IF initialized THEN "close_stop" ELSE "over")
    /\ UNCHANGED <<process, conf, stop, torn, initialized, answer, asked, game, history>>

Quit ==
    /\ \/ Returned("close_stop") /\ Goto("close_quit")
       \/ Returned("close_quit") /\ Goto("terminate")
    /\ UNCHANGED <<process, conf, stop, torn, initialized, answer, asked, game, history>>

\* The old engine is gone; the new one starts with its first game.
Reap ==
    /\ pc = "terminate"
    /\ Terminate
    /\ initialized' = FALSE
    /\ asked' = 0
    /\ greeted' = FALSE /\ refreshed' = FALSE /\ missed' = 0
    /\ Goto("idle")
    /\ UNCHANGED <<conf, stop, torn, answer, game>>

-----------------------------------------------------------------------------
(* The environment.                                                        *)

StopTournament ==
    /\ ~stop /\ pc \notin {"over", "killed"}
    /\ stop' = TRUE
    /\ UNCHANGED <<process, conf, torn, call, initialized, answer, asked, game, history>>

\* The main thread leaves its loop when it sees stop.
WakeReadersFirst ==
    /\ ~torn /\ pc \notin {"over", "killed"}
    /\ torn' = TRUE
    /\ Wake
    /\ UNCHANGED <<conf, stop, call, initialized, answer, asked, game, history>>
WakeReaders ==
    /\ stop /\ ~torn /\ pc \notin {"over", "killed"}
    /\ torn' = TRUE
    /\ Wake
    /\ UNCHANGED <<conf, stop, call, initialized, answer, asked, game, history>>

Elsewhere == UNCHANGED <<conf, stop, torn, call, initialized, answer, asked, game, history>>
EngineObeys == Obey /\ Elsewhere
EngineExits == Exit /\ Elsewhere
EngineActs == (FinishSearch \/ Crash \/ (conf.chatty /\ Chat)) /\ Elsewhere

Session ==
    \/ Call
    \/ BeginGame \/ StartProcess \/ AskUci \/ ReadUciok \/ BothStarted \/ Ucinewgame \/ Refresh
    \/ FirstPing \/ TurnInterrupted \/ GameOver \/ TakeTurn \/ Prepare \/ SearchReturns
    \/ StillReady \/ PlayMove \/ LosesOnTime \/ LosesByIllegalMove \/ Drain
    \/ EndGame \/ Recover \/ CloseSession \/ Quit \/ Reap

Next == Session \/ StopTournament \/ WakeReaders \/ EngineObeys \/ EngineExits \/ EngineActs

Spec == Init /\ [][Next]_vars

\* Threads are scheduled, timers expire and a process that has closed its descriptors ends.
\* Nothing is assumed of an engine, but that one that obeys reads its commands.
Fairness ==
    /\ WF_vars(Session)
    /\ WF_vars(WakeReaders)
    /\ WF_vars(EngineExits)
    /\ WF_vars(conf.obeys /\ pc = "drain" /\ EngineObeys)
FairSpec == Spec /\ Fairness

-----------------------------------------------------------------------------
TypeOK ==
    /\ conf \in Configs
    /\ life \in Lives
    /\ stdin \in Seq(Lines(Commands)) /\ stdout \in Seq(Lines(Answers))
    /\ searching \in 0..asked /\ answer \in 0..asked /\ asked \in Nat
    /\ interrupt \in BOOLEAN /\ stop \in BOOLEAN /\ torn \in BOOLEAN /\ initialized \in BOOLEAN
    /\ white \in BOOLEAN /\ broken \in BOOLEAN /\ greeted \in BOOLEAN /\ refreshed \in BOOLEAN
    /\ pc \in Points
    /\ phase \in {"none", "alive", "test", "send", "read", "returned"}
    /\ code \in {"none", "OK", "ERR", "TIMEOUT"}
    /\ verdict \in {"none", "interrupted", "ended"}
    /\ games \in 0..MaxGames /\ moves \in 0..MaxMoves
    /\ missed \in Nat
    /\ initialized <=> life # "none"

\* playMove looks for the first line that begins with "bestmove". If engines stop when they
\* are told to and no clock forgives a missing answer, the move it judges answers the "go" of
\* this move, and not one of an earlier move or game, as long as no ping has failed since the
\* last answer: an engine that recovers from a stall has not been told to stop.
MoveIsFresh ==
    pc = "judge" /\ answer # 0 /\ conf.obeys /\ ~conf.forgiving /\ missed = 0 => answer = asked

Count(word, lines) == Cardinality({i \in DOMAIN lines : lines[i].word = word})
Owed == Count("isready", stdin) + Count("readyok", stdout)

\* A readyok is taken for the answer to the ping in progress. More answers are under way
\* than pings in progress only as far as pings have failed, and none at all once a search
\* has been answered: reading the move skips them. Hence a session that has recovered from
\* a slow ping is in step again at its next move.
\* And a move is only asked of a process that has said uciok, and has answered to the
\* ucinewgame of this game. start() returns true for any process begun before, so this rests
\* on stop being set before the entry of an engine that failed to start is given back.
AnswersInStep ==
    /\ Alive => Owed <= missed + (IF pc \in Pings /\ phase = "read" THEN 1 ELSE 0)
    /\ pc \in Playing => greeted /\ refreshed

\* writeToOpenPipes has run, the ping has no interrupt left to take, and the engine is busy
\* with an old search and need not stop writing about it: readOutput polls again after every
\* chunk, for the whole of its timeout.
Flooded ==
    /\ pc \in {"connect", "recover"} /\ phase = "read"
    /\ torn /\ ~interrupt
    /\ conf.chatty /\ searching # 0

\* The tournament is stopped: every session ends, also one that waits without a timeout for
\* an engine that hangs or reads what an engine writes without end. An interrupt is kept until
\* a read takes it, and after that neither a search is waited for nor an answer to "stop":
\* what is left are pings, which time out if the engine is silent. The exception is a second
\* ping of an engine that never stops talking, which stays in its read as long as the engine
\* writes: the first one has taken the interrupt, and validConnection and playGame with
\* -recover ask again without a test of stop.
StopEndsSession ==
    stop ~> (pc \in {"over", "killed"} \/ ([]Flooded /\ []<>(stdout # <<>>)))

\* writeEngine: "Returns false in case of failure."
CrashIsContained == pc # "killed"
=============================================================================
