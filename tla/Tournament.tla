----------------------------- MODULE Tournament -----------------------------
(***************************************************************************)
(* A tournament from RoundRobin::start to the exit of the program: the     *)
(* main thread that queues the first games, waits and tears down, the      *)
(* workers that play, the flags they share (atomic::stop and               *)
(* atomic::abnormal_termination), the signal handler, the game counters,   *)
(* the PGN file, the scoreboard and the saved state.                       *)
(*                                                                         *)
(* The thread pool is the abstract TaskPool that ThreadPool is shown to    *)
(* implement. The pairing generator is a counter, since it hands out       *)
(* consecutive game ids (Scheduler). Which engines play is the business of *)
(* EngineCache, which points go where is that of ScoreBoard.               *)
(***************************************************************************)
EXTENDS Integers, Sequences, FiniteSets

CONSTANTS
    Workers,     \* threads of the pool
    Main,        \* the main thread
    Nobody,      \* no thread, in handling
    NoGame,      \* no game in hand
    Total,       \* final_matchcount_
    Prefetch,    \* pool_.getNumThreads(), which is twice the number of threads
    Configs      \* the configurations looked at

Faults == {"stall", "late", "startup", "error", "moveError", "signal"}

\* initial games are already played, in a tournament that is resumed; faults are the
\* things that may go wrong.
Config == [recover : BOOLEAN, sprt : BOOLEAN, interval : Nat, initial : 0..Total,
           faults : SUBSET Faults]

ASSUME TournamentAssumption ==
    /\ IsFiniteSet(Workers)
    /\ Main \notin Workers
    /\ Nobody \notin Workers \cup {Main}
    /\ Total \in Nat /\ Prefetch \in Nat
    /\ NoGame \notin Nat
    /\ Configs \subseteq Config

VARIABLES
    conf,        \* the configuration, constant
    stop,        \* atomic::stop
    abnormal,    \* atomic::abnormal_termination
    generated,   \* games the generator has handed out, those already played included
    queue,       \* games waiting in the pool
    running,     \* games whose task has started and not returned
    submitted,   \* games ever queued
    closed,      \* the pool was killed
    pc,          \* what each thread does
    game,        \* the game each thread has in hand
    outcome,     \* how each worker's match ended
    calls,       \* calls of startNext made by create
    matchCount,  \* match_count_
    written,     \* games in the PGN file
    scored,      \* games on the scoreboard
    saved,       \* the scoreboard as last saved
    saveIter,    \* save_iter
    torn,        \* ~RoundRobin has run, ~BaseTournament has begun
    aborted,     \* a pure virtual call has ended the program
    handling,    \* the thread that runs the signal handler
    failure,     \* the exit code of the program
    tracker,     \* tracker_: timeouts and disconnects reported, of all engines
    failed       \* history: number of games an engine lost by its clock or by failing

pool == <<queue, running, submitted, closed>>
flags == <<stop, abnormal>>
results == <<matchCount, written, scored>>
mainVars == <<calls, saved, saveIter, torn, failure>>
blame == <<tracker, failed>>
vars == <<conf, flags, generated, pool, pc, game, outcome, results, mainVars, aborted, handling, blame>>

Threads == Workers \cup {Main}
Games == 1..Total

Pool == INSTANCE TaskPool WITH Tasks <- Games

WorkerLabels == {"idle", "begin", "start", "play", "startupFailed", "over", "judge", "write",
                 "finish", "sprt", "count", "abandoned", "tail", "throw", "thrown", "end", "exit"}
StartNextLabels == {"next", "lock", "generate", "enqueue"}
MainLabels == {"create", "wait", "teardown", "kill", "join", "save", "manager", "report", "done"}
Outcomes == {"none", "normal", "late", "interrupt", "broken", "brokenByStop"}

-----------------------------------------------------------------------------
Init ==
    /\ conf \in Configs
    /\ stop = FALSE /\ abnormal = FALSE
    /\ generated = conf.initial
    /\ Pool!Init
    /\ pc = [t \in Threads |-> IF t = Main THEN "create" ELSE "idle"]
    /\ game = [t \in Threads |-> NoGame]
    /\ outcome = [w \in Workers |-> "none"]
    /\ calls = 0
    /\ matchCount = conf.initial
    /\ written = {} /\ scored = {} /\ saved = {}
    /\ saveIter = conf.initial + conf.interval
    /\ torn = FALSE /\ aborted = FALSE
    /\ handling = Nobody
    /\ failure = FALSE
    /\ tracker = 0 /\ failed = 0

\* A thread moves on, unless the signal handler runs on it.
At(t, label) == pc[t] = label /\ handling # t
Goto(t, label) == pc' = [pc EXCEPT ![t] = label]

\* output_mutex_ and game_gen_mutex_ are free.
OutputFree == \A w \in Workers : pc[w] \notin {"sprt", "count"}
GenFree == \A t \in Threads : pc[t] \notin {"generate", "enqueue"}

-----------------------------------------------------------------------------
(* startNext, called by the main thread at the beginning and by a worker   *)
(* after each game.                                                        *)

Return(t) ==
    IF t = Main
    THEN Goto(t, "create") /\ calls' = calls + 1
    ELSE Goto(t, "tail") /\ UNCHANGED calls

\* The call is virtual: once ~RoundRobin has run it reaches the pure function of
\* the base class and the program aborts.
CallStartNext(t) ==
    /\ At(t, "next")
    /\ IF torn THEN aborted' = TRUE /\ UNCHANGED pc ELSE Goto(t, "lock") /\ UNCHANGED aborted
    /\ UNCHANGED <<conf, flags, generated, pool, game, outcome, results, mainVars, handling, blame>>

\* game_gen_mutex_, and the test of stop under it.
LockGenerator(t) ==
    /\ At(t, "lock")
    /\ GenFree
    /\ IF stop THEN Return(t) ELSE Goto(t, "generate") /\ UNCHANGED calls
    /\ UNCHANGED <<conf, flags, generated, pool, game, outcome, results, saved, saveIter, torn,
                   failure, aborted, handling, blame>>

\* generator_->next()
Generate(t) ==
    /\ At(t, "generate")
    /\ IF generated < Total
       THEN generated' = generated + 1 /\ Goto(t, "enqueue") /\ UNCHANGED calls
       ELSE UNCHANGED generated /\ Return(t)
    /\ UNCHANGED <<conf, flags, pool, game, outcome, results, saved, saveIter, torn, failure,
                   aborted, handling, blame>>

\* pool_.enqueue, which throws once the pool is killed; still under game_gen_mutex_,
\* so the game is the last one generated.
Enqueue(t) ==
    /\ At(t, "enqueue")
    /\ IF closed
       THEN Goto(t, "throw") /\ UNCHANGED <<calls, pool>>
       ELSE Pool!Submit(generated) /\ Return(t)
    /\ UNCHANGED <<conf, flags, generated, game, outcome, results, saved, saveIter, torn, failure,
                   aborted, handling, blame>>

-----------------------------------------------------------------------------
(* A worker.                                                               *)

TakeCopies(w) ==
    /\ At(w, "idle")
    /\ queue # <<>>
    /\ game' = [game EXCEPT ![w] = Head(queue)]
    /\ outcome' = [outcome EXCEPT ![w] = "none"]
    /\ Goto(w, "begin")
    /\ UNCHANGED <<conf, flags, generated, pool, results, mainVars, aborted, handling, blame>>
Take(w) ==
    /\ At(w, "idle")
    /\ Pool!Start
    /\ game' = [game EXCEPT ![w] = Head(queue)]
    /\ outcome' = [outcome EXCEPT ![w] = "none"]
    /\ Goto(w, "begin")
    /\ UNCHANGED <<conf, flags, generated, results, mainVars, aborted, handling, blame>>

\* createMatch and playGame up to the test of stop.
Begin(w) ==
    /\ At(w, "begin")
    /\ Goto(w, IF stop THEN "end" ELSE "start")
    /\ UNCHANGED <<conf, flags, generated, pool, game, outcome, results, mainVars, aborted, handling, blame>>

\* The start callback.
Start(w) ==
    /\ At(w, "start")
    /\ OutputFree
    /\ Goto(w, "play")
    /\ UNCHANGED <<conf, flags, generated, pool, game, outcome, results, mainVars, aborted, handling, blame>>

MatchEnds(w, how, label) ==
    /\ At(w, "play")
    /\ outcome' = [outcome EXCEPT ![w] = how]
    /\ failed' = IF how \in {"late", "broken"} THEN failed + 1 ELSE failed
    /\ Goto(w, label)
    /\ UNCHANGED <<conf, generated, pool, game, results, mainVars, aborted, handling, tracker>>

\* By the rules, an adjudication or an illegal move.
EndNormally(w) == MatchEnds(w, "normal", "judge") /\ UNCHANGED flags

\* By the clock.
EndLate(w) == "late" \in conf.faults /\ MatchEnds(w, "late", "judge") /\ UNCHANGED flags

\* The match sees stop between two moves or after a search.
EndInterrupted(w) == stop /\ MatchEnds(w, "interrupt", "judge") /\ UNCHANGED flags

\* An engine stalls or disconnects; a disconnect after stop counts as an interruption.
EndBroken(w) ==
    /\ "stall" \in conf.faults
    /\ \/ MatchEnds(w, "broken", "over")
       \/ stop /\ MatchEnds(w, "brokenByStop", "over")
    /\ UNCHANGED flags

\* An exception in playMove is caught by gameLoop, which calls the match interrupted.
EndByMoveError(w) ==
    /\ "moveError" \in conf.faults
    /\ MatchEnds(w, "interrupt", "judge")
    /\ UNCHANGED flags

\* An engine does not start: Match::start returns early, and stops the tournament.
FailToStart(w) ==
    /\ "startup" \in conf.faults
    /\ IF stop THEN MatchEnds(w, "none", "judge") ELSE MatchEnds(w, "none", "startupFailed")
    /\ stop' = TRUE
    /\ UNCHANGED abnormal

ReportFailedStart(w) ==
    /\ At(w, "startupFailed")
    /\ abnormal' = TRUE
    /\ Goto(w, "judge")
    /\ UNCHANGED <<conf, stop, generated, pool, game, outcome, results, mainVars, aborted, handling, blame>>

\* Any other exception leaves playGame, and startNext's task catches it.
EndByError(w) ==
    /\ "error" \in conf.faults
    /\ MatchEnds(w, "none", "throw")
    /\ UNCHANGED flags

\* A broken match: without -recover the first one to get here stops the tournament
\* and is counted all the same.
Over(w) ==
    /\ At(w, "over")
    /\ IF conf.recover
       THEN Goto(w, "judge") /\ UNCHANGED stop
       ELSE Goto(w, IF stop THEN "end" ELSE "finish") /\ stop' = TRUE
    /\ UNCHANGED <<conf, abnormal, generated, pool, game, outcome, results, mainVars, aborted, handling, blame>>

\* Whether the game counts.
JudgeDropsBroken(w) ==
    /\ At(w, "judge")
    /\ Goto(w, IF outcome[w] = "normal" /\ ~stop THEN "write" ELSE "tail")
    /\ UNCHANGED <<conf, flags, generated, pool, game, outcome, results, mainVars, aborted, handling, blame>>
Judge(w) ==
    /\ At(w, "judge")
    /\ Goto(w, IF outcome[w] \notin {"interrupt", "brokenByStop"} /\ ~stop THEN "write" ELSE "tail")
    /\ UNCHANGED <<conf, flags, generated, pool, game, outcome, results, mainVars, aborted, handling, blame>>

WritePgn(w) ==
    /\ At(w, "write")
    /\ written' = written \cup {game[w]}
    /\ Goto(w, "finish")
    /\ UNCHANGED <<conf, flags, generated, pool, game, outcome, matchCount, scored, mainVars,
                   aborted, handling, blame>>

-----------------------------------------------------------------------------
(* The finish callback, under output_mutex_.                               *)

UpdateScore(w) ==
    /\ At(w, "finish")
    /\ OutputFree
    /\ scored' = scored \cup {game[w]}
    /\ Goto(w, IF conf.sprt THEN "sprt" ELSE "count")
    /\ UNCHANGED <<conf, flags, generated, pool, game, outcome, matchCount, written, mainVars,
                   aborted, handling, blame>>

\* updateSprtStatus: the likelihood ratio may or may not have left its bounds.
UpdateSprtReturns(w) ==
    /\ At(w, "sprt")
    /\ \/ UNCHANGED stop /\ Goto(w, "count")
       \/ stop' = TRUE /\ Goto(w, "next")
    /\ UNCHANGED <<conf, abnormal, generated, pool, game, outcome, results, mainVars, aborted, handling, blame>>
UpdateSprt(w) ==
    /\ At(w, "sprt")
    /\ stop' = TRUE \/ (matchCount # Total /\ UNCHANGED stop)
    /\ Goto(w, "count")
    /\ UNCHANGED <<conf, abnormal, generated, pool, game, outcome, results, mainVars, aborted, handling, blame>>

\* match_count_++ and the end of the critical section.
CountGame(w) ==
    /\ At(w, "count")
    /\ matchCount' = matchCount + 1
    /\ Goto(w, IF outcome[w] = "broken" /\ ~conf.recover THEN "abandoned" ELSE "next")
    /\ UNCHANGED <<conf, flags, generated, pool, game, outcome, written, scored, mainVars, aborted, handling, blame>>

ReportAbandoned(w) ==
    /\ At(w, "abandoned")
    /\ abnormal' = TRUE
    /\ Goto(w, "end")
    /\ UNCHANGED <<conf, stop, generated, pool, game, outcome, results, mainVars, aborted, handling, blame>>

\* The handler of exceptions around createMatch.
CatchSetsStop(w) ==
    /\ At(w, "throw")
    /\ stop' = TRUE
    /\ Goto(w, "end")
    /\ UNCHANGED <<conf, abnormal, generated, pool, game, outcome, results, mainVars, aborted, handling, blame>>
Catch(w) ==
    /\ At(w, "throw")
    /\ stop' = TRUE
    /\ Goto(w, "thrown")
    /\ UNCHANGED <<conf, abnormal, generated, pool, game, outcome, results, mainVars, aborted, handling, blame>>

ReportCaught(w) ==
    /\ At(w, "thrown")
    /\ abnormal' = TRUE
    /\ Goto(w, "end")
    /\ UNCHANGED <<conf, stop, generated, pool, game, outcome, results, mainVars, aborted, handling, blame>>

\* The end of playGame, where who lost by the clock or by failing is put on record,
\* and of the task; the wait after a game is part of it.
Blamed(w) == outcome[w] \in {"late", "broken"}

\* report_timeout and report_disconnect, one count each in the code.
Tracked(w) == tracker + (IF At(w, "tail") /\ Blamed(w) THEN 1 ELSE 0)

EndTask(w) ==
    /\ At(w, "tail") \/ At(w, "end")
    /\ tracker' = Tracked(w)
    /\ Pool!Finish(game[w])
    /\ game' = [game EXCEPT ![w] = NoGame]
    /\ Goto(w, "idle")
    /\ UNCHANGED <<conf, flags, generated, outcome, results, mainVars, aborted, handling, failed>>

Exit(w) ==
    /\ At(w, "idle")
    /\ closed
    /\ Goto(w, "exit")
    /\ UNCHANGED <<conf, flags, generated, pool, game, outcome, results, mainVars, aborted, handling, blame>>

-----------------------------------------------------------------------------
(* The main thread.                                                        *)

\* create()
Create ==
    /\ At(Main, "create")
    /\ Goto(Main, IF calls < Prefetch THEN "next" ELSE "wait")
    /\ UNCHANGED <<conf, flags, generated, pool, game, outcome, results, mainVars, aborted, handling, blame>>

GamesLeft == matchCount < Total /\ ~stop

\* One round of the loop of RoundRobin::start in which a save is due.
Autosave ==
    /\ At(Main, "wait")
    /\ GamesLeft
    /\ conf.interval > 0 /\ matchCount >= saveIter
    /\ saved' = scored
    /\ saveIter' = saveIter + conf.interval
    /\ UNCHANGED <<conf, flags, generated, pool, pc, game, outcome, results, calls, torn, failure,
                   aborted, handling, blame>>

LeaveLoopWhenAllPlayed ==
    /\ At(Main, "wait")
    /\ matchCount >= Total
    /\ Goto(Main, "teardown")
    /\ UNCHANGED <<conf, flags, generated, pool, game, outcome, results, mainVars, aborted, handling, blame>>
LeaveLoop ==
    /\ At(Main, "wait")
    /\ ~GamesLeft
    /\ Goto(Main, "teardown")
    /\ UNCHANGED <<conf, flags, generated, pool, game, outcome, results, mainVars, aborted, handling, blame>>

\* ~RoundRobin, and writeToOpenPipes, which makes engines that are read from wake up.
TearDown ==
    /\ At(Main, "teardown")
    /\ torn' = TRUE
    /\ Goto(Main, "kill")
    /\ UNCHANGED <<conf, flags, generated, pool, game, outcome, results, calls, saved, saveIter,
                   failure, aborted, handling, blame>>

KillPool ==
    /\ At(Main, "kill")
    /\ Pool!Close
    /\ Goto(Main, "join")
    /\ UNCHANGED <<conf, flags, generated, game, outcome, results, mainVars, aborted, handling, blame>>

JoinWorkers ==
    /\ At(Main, "join")
    /\ \A w \in Workers : pc[w] = "exit"
    /\ Goto(Main, "save")
    /\ UNCHANGED <<conf, flags, generated, pool, game, outcome, results, mainVars, aborted, handling, blame>>

FinalSaveSkipped ==
    /\ At(Main, "save")
    /\ Goto(Main, "manager")
    /\ UNCHANGED <<conf, flags, generated, pool, game, outcome, results, mainVars, aborted, handling, blame>>
FinalSave ==
    /\ At(Main, "save")
    /\ saved' = scored
    /\ Goto(Main, "manager")
    /\ UNCHANGED <<conf, flags, generated, pool, game, outcome, results, calls, saveIter, torn,
                   failure, aborted, handling, blame>>

\* ~TournamentManager
StopAtTheEnd ==
    /\ At(Main, "manager")
    /\ stop' = TRUE
    /\ Goto(Main, "report")
    /\ UNCHANGED <<conf, abnormal, generated, pool, game, outcome, results, mainVars, aborted, handling, blame>>

\* The end of main().
Report ==
    /\ At(Main, "report")
    /\ failure' = abnormal
    /\ Goto(Main, "done")
    /\ UNCHANGED <<conf, flags, generated, pool, game, outcome, results, calls, saved, saveIter,
                   torn, aborted, handling, blame>>

-----------------------------------------------------------------------------
\* consoleHandlerAction, on any thread that is still there; once per behaviour.
Signal(t) ==
    /\ "signal" \in conf.faults
    /\ ~abnormal /\ handling = Nobody
    /\ pc[t] \notin {"exit", "done"}
    /\ stop' = TRUE
    /\ handling' = t
    /\ UNCHANGED <<conf, abnormal, generated, pool, pc, game, outcome, results, mainVars, aborted, blame>>

SignalReturns ==
    /\ handling # Nobody
    /\ abnormal' = TRUE
    /\ handling' = Nobody
    /\ UNCHANGED <<conf, stop, generated, pool, pc, game, outcome, results, mainVars, aborted, blame>>

-----------------------------------------------------------------------------
StartNext(t) == CallStartNext(t) \/ LockGenerator(t) \/ Generate(t) \/ Enqueue(t)

PlayMatch(w) ==
    \/ Take(w) \/ Begin(w) \/ Start(w)
    \/ EndNormally(w) \/ EndLate(w) \/ EndInterrupted(w) \/ EndBroken(w) \/ EndByMoveError(w) \/ EndByError(w)
    \/ FailToStart(w) \/ ReportFailedStart(w)

FinishMatch(w) ==
    \/ Over(w) \/ Judge(w) \/ WritePgn(w)
    \/ UpdateScore(w) \/ UpdateSprt(w) \/ CountGame(w) \/ ReportAbandoned(w)

LeaveMatch(w) == Catch(w) \/ ReportCaught(w) \/ EndTask(w) \/ Exit(w)

Worker(w) == PlayMatch(w) \/ FinishMatch(w) \/ StartNext(w) \/ LeaveMatch(w)

MainThread ==
    \/ Create \/ StartNext(Main)
    \/ Autosave \/ LeaveLoop
    \/ TearDown \/ KillPool \/ JoinWorkers \/ FinalSave
    \/ StopAtTheEnd \/ Report

Next ==
    /\ ~aborted
    /\ \/ \E w \in Workers : Worker(w)
       \/ MainThread
       \/ (\E t \in Threads : Signal(t)) \/ SignalReturns

Spec == Init /\ [][Next]_vars

\* Threads are scheduled, the signal handler returns, and a match in progress comes
\* to an end: clocks, ping timeouts and stop bound every wait of a game with a clock.
FairSpec ==
    /\ Spec
    /\ \A w \in Workers : WF_vars(~aborted /\ Worker(w))
    /\ WF_vars(~aborted /\ MainThread)
    /\ WF_vars(~aborted /\ SignalReturns)

-----------------------------------------------------------------------------
(* Properties.                                                             *)

TypeOK ==
    /\ conf \in Configs
    /\ stop \in BOOLEAN /\ abnormal \in BOOLEAN /\ closed \in BOOLEAN
    /\ torn \in BOOLEAN /\ aborted \in BOOLEAN /\ failure \in BOOLEAN
    /\ generated \in 0..Total
    /\ queue \in Seq(Games) /\ running \subseteq Games /\ submitted \subseteq Games
    /\ pc \in [Threads -> WorkerLabels \cup StartNextLabels \cup MainLabels]
    /\ game \in [Threads -> Games \cup {NoGame}]
    /\ outcome \in [Workers -> Outcomes]
    /\ calls \in 0..Prefetch
    /\ matchCount \in 0..Total
    /\ written \subseteq Games /\ scored \subseteq Games /\ saved \subseteq Games
    /\ saveIter \in Nat
    /\ handling \in Threads \cup {Nobody}
    /\ failed \in 0..Total /\ tracker \in 0..failed

\* The PGN file and the scoreboard hold the same games, but for those between the two
\* and for one game a stall has ended without -recover.
WrittenAreScored ==
    /\ written \ scored \subseteq {game[w] : w \in {v \in Workers : pc[v] = "finish"}}
    /\ Cardinality(scored \ written) <= 1
    /\ scored \ written # {} => stop /\ ~conf.recover

\* match_count_ is the number of games on the scoreboard, except for the one the
\* holder of output_mutex_ is about to count: the loop of the main thread, the print
\* intervals and the SPRT all trust it; and it holds the games of the PGN file.
CountIsScored ==
    /\ matchCount + Cardinality({w \in Workers : pc[w] \in {"sprt", "count"}})
           = conf.initial + Cardinality(scored)
    /\ WrittenAreScored

\* While the tournament goes on every game handed out by the generator is queued, in
\* the hands of one thread, or scored. (An exception in playMove loses its game.)
GameIsSomewhere ==
    ~stop /\ "moveError" \notin conf.faults =>
        \A g \in (conf.initial + 1)..generated :
            \/ \E i \in DOMAIN queue : queue[i] = g
            \/ \E w \in Workers : game[w] = g
            \/ \E t \in Threads : pc[t] = "enqueue" /\ g = generated
            \/ g \in scored

\* Nor is a game played twice or by two workers: it is always in one place.
GameIsInOnePlace ==
    /\ GameIsSomewhere
    /\ \A v, w \in Workers : game[v] # NoGame /\ game[v] = game[w] => v = w
    /\ \A i \in DOMAIN queue :
          /\ \A w \in Workers : game[w] # queue[i]
          /\ queue[i] \notin scored

\* The summary names every engine that lost by its clock or by failing, of counted and
\* of uncounted games. (Without -recover the game that ends the tournament is not in it,
\* nor is one whose startNext throws because the pool was killed meanwhile: by the end of
\* the SPRT, by a signal, or after an engine that did not start or an exception.)
SummaryIsComplete ==
    (conf.recover /\ ~conf.sprt /\ {"signal", "startup", "error"} \cap conf.faults = {}) =>
        tracker = failed

\* When the program ends, the saved state holds every game that was scored, the summary
\* every fault, and no worker is left that could add to them.
FinalSaveIsComplete ==
    pc[Main] \in {"manager", "report", "done"} =>
        /\ saved = scored
        /\ \A w \in Workers : pc[w] = "exit"
        /\ SummaryIsComplete

\* A tournament that ends before its last game, other than by the SPRT, says so.
IncompleteIsFailure ==
    pc[Main] = "done" /\ ~conf.sprt /\ matchCount < Total => failure

\* Every tournament ends, however it ends, if no exception is thrown inside a move.
EndsEventually == "moveError" \notin conf.faults => <>(pc[Main] = "done" \/ aborted)

\* Without a cause to stop, all games are played.
AllGamesPlayed ==
    (~conf.sprt /\ conf.faults \subseteq (IF conf.recover THEN {"stall"} ELSE {})) =>
        <>(matchCount = Total)

\* "Wait for games to finish" (RoundRobin::start): no game is still being played or
\* finished when the loop has ended and the tournament is destroyed.
GamesFinishedBeforeTeardown ==
    torn => \A w \in Workers :
                pc[w] \notin {"start", "write", "finish", "sprt", "count", "next", "lock", "generate", "enqueue"}
=============================================================================
