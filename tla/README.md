# fastchess: a verification project

TLA+ modules, TLC configurations and TLAPS proofs kept beside the C++ sources of
fastchess, a program that plays tournaments between chess engines. Paths below are
relative to `app/src/` of the repository.

To check a module, run TLC on `MC<Module>.tla` with the configuration of the same name
(`MCTournamentTeardown.cfg` and `MCUciSessionBrokenPipe.cfg` belong to the module their
name begins with). To check the proofs, run `tlapm` on a `*_proofs` module.
`PROJECT.json` lists the components, the runs, what each definition translates, the
hazards of the code with the properties aimed at them, and the theorems.

## 1. The system

A main thread reads the configuration, builds a tournament, queues the first games on a
thread pool and sleeps until enough games are counted. A worker that takes a game
borrows two engine processes from a cache, plays the game over the UCI protocol, writes
PGN and EPD records, feeds the scoreboard, counts the game and asks for the next one.
Ctrl-C, the end of an SPRT test, an engine that does not start, an engine that breaks
without `-recover`, and an exception in a game stop everything through one atomic flag.
What was played is saved, and a later session resumes it.

| Component | Source | State | Operations | Talks to | What makes it correct |
|---|---|---|---|---|---|
| Command line and settings | `cli`, `core/config`, `types` | one configuration, list of engines, the saved file | parse, `-each`, load and save, `sanitize` | everything | options combine independently of their order, what is accepted is usable, a saved file reads back |
| Pairing scheduler | `matchmaking/tournament/schedule`, `roundrobin/scheduler.hpp`, `gauntlet` | round, players, game and pair counters, opening id | `next`, `total` | called by `startNext` under `game_gen_mutex_` | every encounter once per round, games of a pairing belong together, ids without gaps |
| Opening book | `game/book` | list of openings, index | read, shuffle, rotate, truncate, `fetchId` | scheduler, Match | resuming continues the book |
| Scoreboard | `matchmaking/scoreboard.hpp`, `stats.hpp` | results per (white, black), cache of half-finished pairs | `updatePair`, `updateNonPair`, `getStats`, `setResults` | finish callback, autosave, SPRT | the score is the tally of the games, whatever order they end in |
| Engine cache | `core/memory/cache.hpp`, `scope_guard.hpp` | list of entries, `available_` flag of each | `getEntry`, `deleteFromCache`, release by guard | `playGame`, one cache or one per thread | a process is in one game; none is lost |
| CPU affinity | `affinity` | the pool of cores | `consume` | a worker's first game | two games do not share a core |
| Thread pool | `core/threading/threadpool.hpp` | queue, threads, `stop_` | `enqueue`, `resize`, `kill`, `work` | main thread and the games themselves | no wakeup lost, nothing starts after a kill, `kill` returns |
| Tournament driver | `matchmaking/tournament/base`, `roundrobin`, `tournament_manager.cpp`, `main.cpp`, `core/globals`, `timeout_tracker.hpp` | `match_count_`, two atomic flags, files, saved config, summary | `start`, `startNext`, `playGame`, finish callback, autosave, destructors, signal handler | everything above | games counted once, files and scoreboard agree, the tournament ends, the exit code is true |
| Match | `matchmaking/match`, `player.hpp` | board, clocks, trackers, verdict | `start`, `gameLoop`, `playMove`, `adjudicate`, the `setEngine...Status` family | two engines, `atomic::stop` | each end has a cause, a result and a true reason |
| Time control, adjudication | `game/timecontrol`, trackers of `match.hpp`, `matchmaking/syzygy.cpp` | clocks, counters of consecutive scores | `updateTime`, read threshold, `update`, `adjudicatable`, `resignable` | Match | clock and verdict follow from the moves played |
| Game record | `types/match_data.hpp`, `game/pgn`, `game/epd`, warnings of `match.cpp` | the list of moves | `addMoveData`, `verifyPvLines`, builders | Match, `playGame` | files replay the game that was played; warnings are true |
| UCI session | `engine/uci_engine.*` | last output, `initialized_` | `start`, `isready`, `ucinewgame`, `go`, reading | Match, `playGame` | an answer belongs to the question it is taken for |
| Engine options | `engine/option` | type, bounds, value | parse, `isValid`, `setValue` | UCI session | the engine holds what the user asked for |
| Engine process | `engine/process`, `core/threading/thread_vector.hpp`, `core/globals` | pipes, partial line, interrupt descriptor, list of processes | `init`, `readOutput`, `writeInput`, `alive`, `terminate` | UCI session, teardown | no line lost or read twice, interruptible, nothing left behind |
| File writer | `core/filesystem`, `core/crc32.hpp` | file, checksum | append, `initCrc` | finish callback | the checksum is that of the file |
| SPRT and Elo, output tables, logger, helpers, compliance | the other directories | none, or the log file | estimates, formatting, appending | finish callback | numerical, or formatting |

What is hard here, and to test: workers race with the main thread at the end of a
tournament; five actors write two stop flags; one callback must queue the next game on
every path; the two games of a pair finish in either order and a save may fall between
them; an engine may answer late, never, partly or after its process is gone; processes
inherit each other's pipes; counters of several moves decide games; a clock credits,
subtracts, forgives and tests in a certain order; a tournament is killed and resumed in
the middle of a pairing, with a file, a checksum, a book and options to continue.

## 2. Modules

    Settings  FileWriter--Crc32  OpeningBook            Stats
          \       |            /                            |
              CommandLine ----------------+            ScoreBoard
                                          |                |
    EngineCache   Affinity                |        ScoreBoard_proofs
             \      /                     |
           PinnedWorkers                  |  Scheduler    TaskPool
                 |                        |    |           ^    ^
        EngineCache_proofs                |    |  ThreadPool    Tournament
                                          |    |    |               |
                              GamesAndSessions_proofs       Tournament_proofs

    TimeControl  Adjudication     EngineOptions  SearchOutput   EngineProcess
             \      /                      \         |               |
              Match                        |     GameRecord     UciSession
                |                           \      /                |
          Match_proofs                      Dialogue        UciSession_proofs
                                               |
        Processes -- Processes_proofs   Dialogue_proofs

`TaskPool` is the abstract queue: tasks start in order, once each, none after a
shutdown. `ThreadPool`, with its mutex, condition variable and threads, is shown to
implement it, and `Tournament` uses it in place of the threads: `Pool == INSTANCE
TaskPool`. `Tournament` replaces the generator by a counter because `Scheduler` shows
that it hands out consecutive ids, a match by its kinds of end because `Match` shows
which there are, and the scoreboard by a set of games because `ScoreBoard` shows that
games add up. `Match` takes each call of an engine to succeed, fail or time out;
`UciSession` shows what those answers are worth, `Dialogue` what they contain, and
`Processes` what becomes of the processes behind them.

The configuration is a variable `conf` (`opt` in `ScoreBoard`, `setup` in `Dialogue`;
`affinity` and `restart` in `EngineCache`) that is chosen in `Init` and never changes, so
that one run covers a set of configurations and a theorem covers every set.

**Settings.** The command line as tables from key to setting, after `registerOptions`;
the options that do more than store a value (`-tc`, `-quick`, `-each`, `-config`,
`-variant`, ...) have an operator. `Deferred` is the dispatch of `-each`. `Saved`,
`LoadJson` and `ParseConfig` are the configuration file, with the members its macros
leave out. `FixConfig`, `SetDefaults`, `AdjustConcurrency`, `ValidateConfig` and
`SanitizeEngines` are `sanitize.cpp` in its order. Words are values of small sets;
unsigned numbers wrap at `SizeModulus` and `WaitModulus`, and a fraction is counted in
thousandths.

**Crc32, FileWriter, OpeningBook.** Operators. A word of the checksum is the set of its
one bits, so that the table and the shift are set operations; the reference it is checked
against, `Checksum`, is the remainder of a polynomial division. A file is a sequence of
texts. `OpeningBook` goes from the characters of an EPD file to the opening of a game:
line ends, what the readers refuse, shuffle, rotation, truncation.

**CommandLine.** The sessions of one tournament: `Launch` (parse and sanitize),
`BeginTournament` (tablebases, book, game files, in that order), `PlayGame`, `Autosave`,
`EndSession`, `Stall`, the end that an engine forces without `-recover`, and `Die`, the kill
that saves nothing. `disk` and `files` are what survives. `unwritten` counts the games of
the stalls, which `playGame` hands to `finish` and not to the writers.

**Scheduler.** Variables have the names of the fields of `TournamentSchedulerBase`;
`issued` is a history of the pairings returned. `NextPairing` is a call of `next()` that
returns a pairing, `NoMorePairings` one that returns nothing. `Seeds`, `GetPlayer1Limit`
and `Total` distinguish the two subclasses. An opening is its id; which line of the file
that is, `OpeningBook` says.

**Stats, ScoreBoard.** `Stats` holds the nine counters, their sum and `operator~`.
`ScoreBoard` adds the colours `createMatch` gives (`-noswap`, `-reverse`), `updatePair`
as `FinishFirstOfPair` and `FinishSecondOfPair`, `updateNonPair` as `FinishSingle`, and
`SaveAndResume`: `saveJson`, the keys `"A vs B"` of the file, their reading, which drops
the results of more than two engines (`StatsDropped`), and a new process that calls
`setResults`. A name is a sequence of words. `outcome` is a history: who really won.

**EngineCache.** A worker goes through `playGame`: `Begin`, two `GetEntry`, `StartMatch`
or `ReturnEarly` (stop is set), one of three ends, two `DeleteEntry`, two `ReleaseEntry`
in the order of the destructors. An entry is a number; its `owner` is the shared cache
or the thread it was made by. `getEntry` and `deleteFromCache` are critical sections of
the cache's mutex and hence one step; a release is a store to an atomic and one too.

**Affinity, PinnedWorkers.** `Affinity` is the pool made of a machine's processors, in
the two groups of hyperthreads, and `consume`. The nested maps and loops of `setupCores`
are an order on the list of processors (`Precedes`) and the rank in it (`Place`): the
k-th entry of a group is for the processor whose rank is k. `PinnedWorkers` composes it with
`EngineCache`: a worker takes its core in its first game (`BeginPinned`, or
`BeginWithoutCore` when `consume` throws) and a process keeps the core of the worker that
started it.

**ThreadPool.** Every critical section of `queue_mutex_` is a step, and so is every read
of `stop_` outside one. `enqueue` is two steps (store, then notify), from the main
thread or from a running task. A wait is `Sleep`; notifications and spurious wakeups
move a worker back to `lock`. `Resize` is `kill`, `Joined` and `Grow`; the last leaves a
vector of twice the size (`threadpool.hpp:43-49`), which `size` shows.

**Tournament.** A label of `pc` for every point between two accesses to shared state, of
the workers and of the main thread. `StartNext` (`CallStartNext`, `LockGenerator`,
`Generate`, `Enqueue`) is shared by both. `playGame` is `Begin` ... `EndTask`, the finish
callback `UpdateScore`, `UpdateSprt`, `CountGame` under `output_mutex_`; `Blamed` and
`Tracked` are what the timeout tracker is told and when. The main thread is `Create`, the
loop (`Autosave`, `LeaveLoop`), the destructors (`TearDown`, `KillPool`, `JoinWorkers`,
`FinalSave`), `StopAtTheEnd` of the manager and `Report`. `Signal` runs the handler on
any thread, which stands still until it returns. The two stores to the flags are two
steps everywhere. `torn` and `aborted` model the pure virtual call a worker makes when
the main thread has destroyed `RoundRobin` under it.

**TimeControl, Adjudication.** Operators only, named after the methods. `Match` keeps
their state.

**Match.** `start`, then in turns `turn` (the tests before a move), `prepare`, `search`
and `answer`. The guards follow the order of `playMove`: the rules, tablebases, resign,
draw and length, connection, search, stop, connection, answer. `GoCommand` is what the
engine is told of the clocks. An engine answers with any move, score and time of the
configuration, or times out after the threshold. `Stop` is anybody else setting the flag.
`used` and `moves` are histories, of the time an engine has taken and of what it has
played; the properties compare clocks and counters with them. `Playable` is what
`validateEngine` lets pass: `st` together with `tc` is refused.

**EngineOptions, SearchOutput, GameRecord, Dialogue.** The contents of what an engine
and fastchess say to each other. `EngineOptions` has the option lines, the five types and
their validation; `SearchOutput` the choice and the reading of the info line that counts;
`GameRecord` the legality of moves and variations, the warnings, the record, the PGN and
EPD made of it, and `PGNVisitor`, which reads a PGN as a book. `Dialogue` is the process:
`BeginGame`, `ParseLine` for each line before `uciok`, `SendOption` for each option of
`refreshUci`, the four outcomes of a move, and `Return`, with the death of the engine at
any moment. A position is the sequence of moves that leads to it; the rules are the
constants `Lines` and `Status`.

**EngineProcess.** The POSIX process: `life`, two pipes as sequences of lines, and the
event that interrupts a read. An engine that ends is first `closing` (its descriptors
are gone) and then `exited` (`waitpid` sees it). A read takes any prefix of the lines
there are and drops what follows the line it looks for, as one chunk does in
`readOutput`; event, hang-up, lines and silence are told apart in the order of the code.
A partial line is not kept as state: all that is left of `flushPartial` is that a search
that times out may come back with a whole move. The second half of the module is what an
engine may do, on its side of the pipes.

**UciSession.** One engine through the games it plays. `pc` is the call of `playGame` or
`Match` in progress, `phase` how far it is: the test of `alive()`, the one in
`writeInput`, the write and the wait are steps of their own, because an engine may die
between them. `Breaks` is `setEngineCrashStatus` or `setEngineStallStatus`,
`LosesOnTime` and `Drain` are `setEngineTimeoutStatus` with its `stop` and its wait of ten
seconds, `Recover`, `Quit` and `Reap` are `restartEngine` and `~UciEngine`. The numbers
in `go` and `bestmove` are not in the protocol; they say which search a move belongs to.
The other engine, the rules and whoever stops the tournament are the environment
(`BothStarted`, `GameOver`, `StopTournament`).

**Processes.** All engine processes with what they share of the operating system. A pipe
is made in two steps, `CreatePipe` and `CloseOnExec`, so that a `Spawn` of another worker
may fall between them and inherit its ends (`strangers` remembers that). `Acquire` takes
the semaphore of starting engines; `Attach` is the rest of `Process::init`, with the
event, the entry in the list and the closing of the child's ends; `Quit`, `Unlist`,
`Wait` and `Close` are the destructors, run by workers that replace an engine and by the
main thread in `TakeDown`; `WakeReaders` and `Exit` are what the main thread does with the
list.

## 3. Runs

| Run | What it asks | Instance |
|---|---|---|
| `settings` | does the order of independent options matter; is what is accepted usable; does a saved file read back; does a resumed session keep games, checksum and book | two or three engines and up to two of 74 options in any place, 20 or 64 descriptors, 4 processors, up to 3 sessions of up to 3 games |
| `scheduler` | does the generator cover each encounter once and keep pairings together | 2 to 5 engines, up to 3 rounds, gauntlets with 1 to 4 seeds, books smaller and larger than the rounds; resumed tournaments of 2 or 3 engines |
| `scoreboard` | is the reported score the real tally, in every order of completion, after a restart at any point | 3 engines once or 2 engines twice, with 1 or 2 games each, all flags |
| `engine_cache` | is a process ever shared or lost; do engines run on the core of the game they are in | 2 workers, 2 engines, 4 games, shared and per-thread caches, `restart=on` for none or one, a machine of two cores and three processors or one processor of it, an engine of one or two threads |
| `thread_pool` | lost wakeups, refinement of `TaskPool`, progress | 2 threads, 3 tasks |
| `tournament` | games lost, doubled or not counted, PGN against scoreboard, final save and summary, exit code, termination | 2 workers, 3 games, twelve configurations |
| `tournament_teardown` | violation: games are over when the tournament is destroyed | 2 workers, 2 games |
| `match` | is every end accounted for, every adjudication and time loss earned, every reason true | up to 5 plies, five clocks, seven settings of the adjudications |
| `dialogue` | do options reach the engine; is the right line scored; are warnings true; do PGN and EPD replay the game | 47 dialogues of 2 games and 2 moves, trees of 4 plies with an end of every kind |
| `uci_session` | do moves and pings answer what was asked, is every move asked of an engine that greeted, does a stop end the session | 2 games of 2 moves; an engine that may be silent or never stop talking, with a clock, without one, and one that ignores `stop` without `-recover` |
| `uci_session_broken_pipe` | violation: the death of an engine ends its game at most | 2 games of 1 move |
| `processes` | is the list of processes true, is a death seen, does the shutdown end and leave nothing behind | 2 workers with an engine each, 3 process objects, one start at a time |

**Bounds, and why they are enough.** `Scheduler` is deterministic after `Init`, so a run
is a set of configurations; with five engines the rows of pairings of a round have four
different lengths, and a gauntlet with several seeds ends before the last row. Two workers
are enough to interleave any two critical sections; the third actor of a race is the main
thread. Three games let two be in progress and one in the queue. `Prefetch` is
`getNumThreads()`, twice the number of threads; the tournament run takes 2 so that games
remain to be generated by workers, the teardown run 4. In `Match` five plies hold one
complete count of every tracker for both colours and two time controls of two moves.
Times are scaled: `MARGIN` is 1 instead of 100, and answers take 0, 2 or 5 units or the
threshold and more, so that each side of every comparison is reached. In `CommandLine`
two options beside the engines reach every interaction of two; three sessions let a
resumed one be resumed; three openings and a start inside the book make it wrap; and 20
descriptors are fewer than two games need, 64 are plenty. In `Dialogue` two games show
what survives from one to the next and two moves what a score inherits; variations of up
to three moves hold a mate in two for the mover and a mate in one against it. In
`Processes` a third object allows one replacement, after which `CanReplace` is false and a
death stops the tournament as it does without `-recover`; `GameSize` 1 keeps the two
workers' starts independent, and the loop over `seats` is there for more. `MaxGames`,
`MaxRestarts`, `MaxPlies`, `MaxMoves`, `MaxSessions` and `MaxOutput` bound what the code
does not; they stand in guards. In `UciSession` two moves and two games are enough for an
answer to be late for its move, its game, or both; a session writes a bounded number of
commands, and an engine that writes without end (`Chat`) does so into a pipe of
`MaxOutput` lines. One line is enough to keep a read going; two come with the end of a search,
so that one chunk may hold a part of what there is.
`CHECK_DEADLOCK FALSE` stands where a behaviour ends (all games played, `done`,
`aborted`, a match over, a pool killed, a session closed, a program ended). Symmetry is
used for the workers of `EngineCache` only, whose run checks invariants.

**Fairness.** `ThreadPool`: weak fairness of each worker and of the main thread inside
`kill` and `resize`. The operating system schedules threads and the tasks are games,
which end. Nothing is assumed of the calls of `enqueue`, `kill` and `resize`, nor of
spurious wakeups. `Tournament`: weak fairness of each worker, of the main thread and of
the return of the signal handler. That a match in progress ends is justified by the
waits of `Match`, each bounded by a ping timeout or a read threshold when the game has a
clock and its engines do not write for ever; a game on nodes or depth alone relies on its
engines. `UciSession`: weak fairness of the worker, whose timeouts are steps, of the
destructor that wakes the readers, and of the exit of a process that has closed its
descriptors. Of an engine only this is assumed, and only where `conf.obeys`: it reads its
commands while it is waited for after `stop`. `Processes`: weak fairness of the threads,
but not of an engine that answers; the wait for `uciok` ends by its timeout
(`NotGreeted`), that for a move only by an interrupt or a hang-up, and the wait for a
process to exit by the kill after a minute.

## 4. What the code does otherwise than it says

Each of these is a run that TLC ends with a counterexample, and an entry under "findings".

- `tournament_teardown`: `match_count_++` releases the main thread while the worker still
  holds `output_mutex_` and goes on to `startNext`; the mutexes and the virtual table
  belong to the object being destroyed.
- `uci_session_broken_pipe`: an engine that dies between the test of `alive()` and the
  write raises SIGPIPE, which nothing ignores, and the whole program ends; the comment of
  `writeEngine` and `-recover` in the manual promise otherwise.

Found by earlier runs of these models, and not kept as runs. The models still behave this
way, and the properties are stated around it:

- `updatePair` inverts the first game of a pair although with `-noswap` colours do not
  change; with pentanomial statistics wins are credited to the wrong engine
  (`scoreboard.hpp:128`). `PairsSwap` excepts the combination from the
  three tallies.
- An exception in `playMove` ends the game as an interruption without setting `stop`. The
  game is not counted, no next game is queued, and the loop "Wait for games to finish"
  does not end (`match.cpp:413`, `roundrobin.cpp:43`). Hence `moveError` in
  `EndsEventually` and `GameIsSomewhere`.
- `readOutput` polls with the whole threshold again after every chunk
  (`process_posix.hpp:289`), so an engine that keeps writing info lines is never timed out,
  neither in a search nor in a ping; `iprocess.hpp:61` promises a timeout, and the Windows
  implementation measures from the beginning. A stop interrupts each process only once
  (`tournament.cpp:66`). If a ping takes that interrupt, the next one, of `-recover`
  (`tournament.cpp:253`) or of `validConnection` after `ucinewgame` has failed
  (`match.cpp:363-371`), has nothing left to end it, and `pool_.kill()` joins its worker for
  ever: a tournament that is stopped hangs. `Flooded` is this read, and `StopEndsSession`
  says that a session that is stopped ends, or stays in it while the engine writes on.
- The saved configuration leaves out the startup, ucinewgame and ping times, the cores of
  `-use-affinity`, `test_env`, `strict` and the result type of the tablebases
  (`types/tournament.hpp:85`, `tb_adjudication.hpp:20`), so a resumed tournament has their
  defaults. `ReloadIsStable` speaks of `SavedSettings`.
- `lastInfoLine` looks for the text " multipv 1", which the lines of variations 10 to 19
  contain as well (`uci_engine.cpp:404`): `ScoreIsOfFirstPv` holds below ten variations.
- The descriptors needed are computed as 12 and 6 for each further game
  (`fd_limit.hpp:45`), but two games of two engines under construction hold 27, and the
  cache keeps a process per engine and worker.

Observed while modelling:

*Command line and settings.*
- `-config discard=false` is refused although the manual documents it (`man.md:197`, at
  the root); `discard=true` still saves to the old `config_name`; `outname=` before
  `file=` is lost.
- `tc=` after `st=` or `timemargin=` wipes them; a repeated `-pgnout` or `-epdout` resets
  the file name; `-variant standard` does not take back `fischerandom`. `Independent`
  allows no option to be exchanged with itself for this reason.
- `-games 0` is accepted and divides by zero in the book; negative `-rounds` and `-games`
  wrap; `-concurrency -N` with at least as many processors leaves no worker.
- Engines named A, A and A_2 end up as A, A_2 and A_2 (`NameClash` in
  `SanitizedIsUsable`).
- With `stats=false` and `append=false` the game file is truncated although the old
  configuration file still counts its games (`discarded`).
  Results of more than two engines are not resumed at all.
- An opening file of unknown extension and no format is silently not used. `FileWriter`
  never checks that its file could be opened.
- Engine names that contain " vs " are split in the wrong place when results are read.

*Tournament and match.*
- The manual says each round has one opening (`man.md:37`); the code takes one per
  pairing, and cuts the book to `rounds` openings although more than two engines need
  more (`opening_book.hpp:35-38`).
- A tournament saved in the middle of a pairing replays that pairing, and its game ids
  run past `total()` (`base_scheduler.hpp:28`). The part of
  `CompleteWhenExhausted` that is about ids is stated for tournaments that are new or were
  saved after whole pairings; that every encounter has its games holds for all.
- Without `-recover` a stalled game is scored but not written to the PGN file, and is not
  in the timeout summary (`tournament.cpp:237-248`). A tournament resumed after it counts one
  game more than its files have (`unwritten` in `CommandLine`). Not in the summary either is a game whose `startNext`
  throws, because the pool was killed meanwhile by the end of the SPRT, a signal, an engine
  that does not start or an exception. `WrittenAreScored` and `SummaryIsComplete` leave
  out exactly these.
- `updateSprtStatus` compares `match_count_` before the game is counted.
- An interrupted game has no result, against the assertions at `match.cpp:423-425`.
- A worker past the test of `stop` enqueues on a killed pool; the exception marks a
  successful SPRT as an abnormal termination (`roundrobin.cpp:57`, `threadpool.hpp:35`).
- The last move of a time control is credited before it is judged, so an engine that
  sends nothing loses by an "illegal move" and is never told to stop (`conf.forgiving` in
  `MoveIsFresh`). An engine that has an increment and no time is never timed.
- With `score=0` zero scores count as losing for both engines, and either of them may be
  taken for the one that resigns; `ResignIsEarned` names the loser for positive scores.
- Before the first move, the reason of a disconnect names the side to move, not the
  engine that failed, and a second failure overwrites the first (`match.cpp:363-381`).
  `ReasonIsTrue` is stated from the first move.
- `getMaxAffinity` returns 0 for more than one thread, "affinity is disabled", but the
  manager disables it only above 1; it reads the first value given for Threads, the
  engine gets the last. The two groups keep workers on cores of their own only with at
  most two processors to a core (`TwoWay`).

*Engines.*
- An engine that stalls in the ping after its search and answers the ping of `-recover`
  is kept without being told to stop, so that its old `bestmove` can be judged in its next
  game. Hence `missed = 0` in `MoveIsFresh`.
- `POLLHUP` is tested before the bytes that came with it are read: an engine that answers
  and exits has disconnected (`process_posix.hpp:305-308`).
- A process that another one is spawned beside may keep the pipes of the first, whose
  death is then not seen, although `process_posix.hpp:197-199` promises it (`strangers`
  in `DeathIsSeen`). After `alive()` has waited for a process, `terminate` finds nothing
  and logs a crash as a normal exit. `stopProcesses` always finds the list empty.
- An option line that cannot be parsed ends the game by an exception, which also stops the
  tournament (`roundrobin.cpp:71`). The engine counts as initialised and its guard releases
  it before `stop` is set, so that a worker that borrows it just then plays with the options
  before that line. An integer spin takes "2.5" for 2 and sends the text; a combo value of
  several words is never valid.
- `parseInfo` stops at `pv`, so a score after it is not seen.

*Files.*
- A late move is recorded as legal and written to the PGN and EPD although it was not
  played; a PGN with `notation=uci` is not read back; the number of plies counts an
  illegal move; a game that ends with its book has no reason in its PGN, against
  `match_data.hpp:121`.
- `checkMateScoreSignMismatch` may warn although both claims are true: the scores are of
  different positions. No property of it is stated.

## 5. Proofs

`tlapm` proves the theorems below for every value of the constants that satisfies the
ASSUMEs of the modules. TLC had checked the inductive invariants first. Each proof
consists of `Init => IInv`, one step per action for `IInv /\ [Next]_vars => IInv'`, and
`IInv => Inv`, joined by a temporal step.

**GamesAndSessions_proofs** is about the two parts that deal the games to the threads, and
about the sessions. Of the scheduler it assumes that configurations are well formed and
have at least two engines, one round and one game per pairing. `TypeCorrect`, then an invariant that
bounds everything issued by the present state: a pairing already issued has a smaller
pairing id, or the present one with the present players, round and opening, and lies
before (round, player1, player2) in the order of the generator. From it follow
`PairsAreConsistent` (`PairingIdIsEncounter`: an encounter that comes again would lie
before itself) and, with the cardinality of a set that grows by one,
`GameIdsAreConsecutive`. None of these is inductive alone: they speak of the set issued,
and a step needs to know what the counters say about it. `EveryEncounterIsPlayed`
(`CompleteWhenExhausted`) adds `EncountersCounted`, which says for each encounter of each
open round how many of its games are issued, by its place before, at or after the present
one, and `IdsCounted`, which computes the last game id from that place. Each step moves to
the successor in that order (`NextEncounter`), which adds one to the number of pairings
before it (`PairingsFacts`); a round is a triangle of them with the rows that a gauntlet
does not play cut off, and `TotalFacts` finds the same number in both `total()`s.

Of the pool, in the same module (`PoolTypeCorrect` and what follows it): the invariant
`PoolInv` has three parts. `ControlInv`: types, `stop` is set
exactly from `kill` to the growth of the pool (or for ever), a stopped pool has an empty
queue, and a joined one is quiet. `DataInv`: every task that was submitted is held once,
in the queue or by one worker. `NoLostWakeup` itself: its steps are counts of sets that
lose or gain one worker. `QuietAfterKill` follows from the first part. `PoolRefinesTaskPool`
maps the queue to `tasks`, the running set to the tasks of busy workers and `closed` to
`stop`; the second part makes each step of a worker one of the abstract queue.

Of the sessions, `CountedGames` (`CountedGamesAreOnFile`): for any command lines that are
sequences (`LinesAssumption`), any number of sessions and of games, and a kill at any
moment. The property speaks of a running session. What carries it from one session to the
next is in `FilesInv`: the count in every saved file is covered by the game file it names
(`SavedIsOnFile`), and so is that of the running tournament (`CountedIsOnFile`), but for
`unwritten` games; a session that has been launched holds the results of some saved file or
none (`ResumesWhatIsSaved`). The last is a fact about the parser: of all options only
`-config` touches the results, and it reads them from a file or clears them
(`HandleKeepsStats`, `ConfigKeyResumes`), `sanitize` leaves them alone. The parser is a fold
over the options, and `-config` one over its keys; `FoldLeft` is a recursive function on the
sets of indices, so that there is one has to be shown first (`LineExists`, `ConfigExists`),
and then that each of its values `Resumes`, by induction on the largest index
(`NatSetInduction`, `LessMax`). With more results than none the game files are kept whatever
`append` says (`OpenGameFilesFacts`), and a game makes its file longer by one before it is
counted (`WriteGameFacts`).

Two theorems are about `sanitize` alone, for every number of descriptors and all settings
that have the members of `TournamentDefaults`, with the types of the ones it computes with.
`SanitizeIsSound`: what passes is a `UsableConfig`, and every engine a `UsableEngine`; these
are the parts of `SanitizedIsUsable` that do not speak of names. `SanitizeIsStable`:
`SanitizeConfig` does not change what it has accepted, provided that there is a worker, as
`BeginTournament` demands; without one, a negative number of them is counted from the
processors again. It is what makes `ReloadIsStable` true once a saved file reads back as
what it was.

**ScoreBoard_proofs**. `TypeCorrect` needs that a finished first game is a record of one
game. `PentaIsConsistent` (two games and equal points per pair counted) needs that the
cache only holds one game per pair: the second one then makes two, in one of six classes.
`ScoreIsTrue` (`ScoreIsTally`) and `PentaIsTrue` (`PentaIsTally`) compare the entries with
the history of all games. The invariant they need is `PairsTogether`: the games of a pair
are counted together, and while one waits for the other, the entry of the cache is that
game, seen by its opponent, and the only one of its pair that was played. So when a game
finishes, the set of games newly counted is empty, that game, or the pair, and the entry
of White grows by their tally (`NewGamesTally`, `NewPairWorth`), since the two games have
different colours (`TwoToAPair`). A restart reads back exactly what was written
(`SplitKeyText`: the text of two names is split where it was joined; `ReloadExact`), and of
two engines only one order is on file (`ResumedStats`); this needs the assumption that no
two engines meet in both orders, which holds of the pairs the scheduler makes.
`RatingIsTrue` (`RatingIsTally`) is about all the entries of an engine together.
`getAllStats` folds over the pairs on the scoreboard, and a fold takes them in an order that
CHOOSE makes. It is first shown to exist and to be the same in every order, by induction on
the number of pairs, through the least number at which it would fail (`SumExists`,
`SumOfAny`); then to grow with the opponents one by one like the tally of the games against
them (`OpponentsTally`), where `NoOneMeetsItself` keeps the two entries of a pair apart. It
needs the engines to be a finite set, as they are a list of the configuration
(`EnginesAssumption`).

**EngineCache_proofs**. `MutualExclusion`, `BorrowingIsSafe` and `NothingIsLost` are
proved together. The invariant adds to them that a worker has a game in hand except
when idle and which slots are filled at each label; that a filled slot points to an
entry in use is `BorrowedEntryIsValid`, and that the next number is new is part of the types.
Mutual exclusion alone is not inductive: `getEntry` gives out an entry marked available,
so the flag must imply that nobody holds it. `EnginesKeepTheirCores`
(`EnginesOnOwnCores`) and `CacheIsSafeWithCores` are about `PinnedSpec`, the cache with the
pool of cores. `TakenInOrder`: the entries taken are the first ones and as many as there
are workers with a core; `CoresAreTaken`: what a worker has comes from an entry taken. An
entry given out next is therefore nobody's, and while the workers are not more than the
cores all of theirs lie in the part of the pool where no core comes twice. `Owned`,
`StartedOnOwn` and `PlayedIsStarted` say that a process that runs does so on the processors
of the owner of its entry, which is the worker that plays with it. What a pool must be
like (`SoundPool`: no processor twice, every core once before any comes again) is not
assumed but proved of every machine, whatever its size and shape and the order of its list
(`PoolsAreSound`, and `PoolIsWhole`: every processor is in it). The place of a processor is
a count of those before it, so places differ, and by the pigeonhole none is free
(`PlaceFacts`); the first processor of each core is in group HT_1, hence that group is
no shorter than the list of cores (`CoresAreFinite`), and of two processors of a core
only one is in it (`OneOfCoreInGroup`). `PinnedAssumption` asks only that the processors
of a machine have different numbers, and those that the user names too. TLC had checked
`SoundPool` of every list of up to five processors on two packages of two cores
(`MCEngineCache`), and the invariant on the 2 478 995 states
of the run.

**Tournament_proofs** assumes a finite set of workers, and proves the types
(`TypeCorrect`) and the four safety properties: `ScoreIsCounted` (`CountIsScored`),
`NoGameIsLost` (`GameIsInOnePlace`), `NothingIsForgotten` (`FinalSaveIsComplete`) and
`EndingEarlyIsReported` (`IncompleteIsFailure`). None is inductive, because each is about
a number or a file that lags behind what the threads do. The parts of the invariant say
how far behind each may be. `Control`: the two mutexes exclude, the pool is closed and the
workers are joined exactly while the main thread tears down, and it does so only after a
stop or the last game. `Numbers` and `Places`: an id is queued once; a game is queued or
with one worker, and scored and written only at the points meant for it. `Fates`: a game
that ends uncounted leaves `stop` behind. `Writing`: one game at most is scored and not
written. `Counted`: `match_count_` and the scoreboard, up to who is inside
`output_mutex_`. `GameIsSomewhere` itself. `Causes`: who set `stop` has set, or is about to
set, `abnormal_termination`. `SavedIsScored`, and `FailedAreNotOpen` with `Blames`: the
faults committed are those the summary knows of and those of workers on their way to tell
it. TLC checked them with every pair of faults in one tournament.

**Processes_proofs** takes any number of workers, of engine processes, of engines in a
game and of starts at a time; `TypeCorrect`, `StopReachesEveryReader` (`EntriesAreLive`),
`DeathHangsUp` (`DeathIsSeen`) and `ShutdownLeavesNothing` (`NothingLeftBehind`). The
invariant follows whose an engine is: in a seat of one worker, in the hands of the one
thread that has just made it or destroys it, or nobody's (`Whereabouts`, `Ownership`,
`DeadIsSeated`). `Lives` is how far its process has come; `Holdings`, who can hold an end of
a pipe: a running process, its own ones or, as a stranger, those it inherited. `Listed`,
`Unlisted`, `SeatIsListed` and `ListedIsOwned` tie the list to the owners, `OrphansAreGone`
and `OverIsEmpty` say that what is nobody's has neither process nor descriptor. Ownership
is what makes `EntriesAreLive` inductive: a destructor takes an entry out because no other
thread can have put it back. TLC checked the invariant on the 233 670 states of the run.

**UciSession_proofs**: `TypeCorrect`, `PingsStayInStep` (`AnswersInStep`) and
`MoveAnswersItsGo` (`MoveIsFresh`), for any number of games and moves and any length of
the pipes. Both properties are about the line just read and hold because of all the lines
still under way. `PipesOrdered`: searches are asked for, worked on and answered in order,
so the answer to the last `go` is the last one. `PingsAhead`: while it is waited for, every
ping is ahead of its `go`. `InStep` bounds the answers to pings under way by the pings that
failed and the one in progress; `Clean` and `Fresh` say that nothing of an earlier search
is under way when the next begins, if no ping has failed and the engine obeys. `ByPhase`,
`Bounds`, `Wakes`, `EmptyWhenNone`, `Greets` and `Failures` are what the session knows at
each point. The lemmas count the lines of a kind in a sequence as one is added or some are
taken away. TLC checked the invariant on the 977 141 states
of the run.

**Match_proofs**: `TypeCorrect`, `EveryEndHasACause` (`EndIsAccountedFor`),
`TrackersAreFair` (`AdjudicationIsEarned`), `ClocksAddUp` (`ClockIsKept`),
`NobodyLosesEarly` (`TimeLossIsEarned`) and the action property `ReasonNamesTheLoser`
(`ReasonIsTrue`), for every set of playable configurations and games of any length. The
code keeps counters where the properties speak of moves and of time, so the invariant says
what each counter stands for. `DrawsCounted`, `LengthCounted` and `ResignCounted`: the
counter of a tracker is the length of a run of moves at the end of the game, of either
engine or of one. `NotResigned`: nobody has had reason to resign before its own last move,
without which the code could blame the other one. `ClocksRun`: the moves left of a clock
are what division of the answers by the moves of a time control leaves over, and its time
lies between the budget less the time used, and that plus a margin for each answer.
`ToldIsTrue`: the engine searches by the clock it is judged by. `Causes` and `Undecided`
are the verdict. TLC checked these parts on the 2 454 024 states of the run.

**Dialogue_proofs**: `OptionsAreSet` (`OptionsReachEngine`), `ScoreIsTrue`
(`ScoreIsOfFirstPv`), `EngineIsToldTheGame` and `EpdIsTheGame` (the first two conjuncts of
`PgnReplays`), for any set of setups: option lines, values, books and outputs of any length.
`SetupsAssumption` says that these are sequences, that an engine declares no name twice and
that a value has a name and a text; `AbsentAssumption`, that no value is no move. `RecordInv`
ties the record of the game to the board: while nothing is decided, the moves of the record
are those on the line and all legal; once the game is over, the EPD is of the line, or of the
line and a last move that came too late. It needs the opening of a book to be a sequence of
moves, which `ReadPgnSeq` finds by induction over the tokens of the fold (`ReadExists`), and
`RecordedScore`: the line `lastInfoLine` finds backwards by its text is the last of those
whose number is 1, if there are fewer than ten variations (`ScoreByNumber`). `OptionsInv`
says of every moment of `refreshUci` that an option holds the last of the values sent so far
that suits it, or its default, that the options come from lines the engine declared, and
that no two have one name, so that `getOption` finds the one that is meant. It is about the
order of sending; the property is about the order of the user's configuration. `LastValue`
joins them: an option is sent in one of the two passes only, so which of its values is the
last does not change.

**Only model-checked.** Liveness (`QueueIsServed`, `KillReturns`, `EndsEventually`,
`AllGamesPlayed`, `StopEndsSession`, `ShutdownCompletes`): fairness and ENABLED are beyond
the prover.
`OptionsCommute`, the rest of `ReloadIsStable` and what `SanitizedIsUsable` says of the names
of engines compare what the parser makes of two command lines or of names put
together from texts, `CrcIsOfFile` two algorithms on bits, `BookContinues`, `WarningsAreTrue`
and the rest of `PgnReplays` what several folds make of one text; these are about data rather
than steps, and the provers know nothing of texts. That the settings a command line leads to
have the types `SanitizeIsSound` asks for is `SessionsTypeOK`, which stands in the module and
not in the configuration.

## 6. What is not modelled

The components marked `not_modelled` or `partly` in `PROJECT.json` say why. In short:
floating-point statistics, tables and the text of logs are out of the reach of these tools
or not worth it; Windows and macOS variants repeat the POSIX ones; the table of opening
names is data. Inside the modules: `Settings` leaves out the help texts and the branches of
`sanitize` for Windows; `Tournament` leaves out printing, the cache, exceptions in the file
writers and in the finish callback; `UciSession` leaves out standard error, the
values of options (`Dialogue` has them) and the other processes (`Processes` has them);
`GameRecord` leaves out the notation of moves, the wrapping of lines and the headers that
do not say where a game begins. Engines, the rules of chess, random numbers and the
operating system are the environment.

## 7. Plan

Modelled and checked: the components above, from the command line to the processes of the
engines. What is left, in the order of importance to a tournament:

1. Games of two engines in `Processes`, on a machine that holds the state space.
