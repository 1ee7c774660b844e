------------------------- MODULE Tournament_proofs -------------------------
(***************************************************************************)
(* Proofs about a tournament, for any number of workers, any number of     *)
(* games and any set of configurations: its types, and the four safety     *)
(* properties of Tournament.                                               *)
(*                                                                         *)
(* None of the four is inductive. What makes them so is, in this order:    *)
(*   Control      what each thread may be doing, given the flags: the two  *)
(*                mutexes exclude, the pool is closed and the workers are  *)
(*                joined exactly while the main thread tears down, and it  *)
(*                does so only after a stop or the last game;              *)
(*   Numbers      ids are queued once, below the counter of the generator; *)
(*   Places       a game is queued, or held by one worker, or neither; it  *)
(*                is scored and written only at the point meant for it;    *)
(*   Fates        a game that ends uncounted leaves the flag stop behind;  *)
(*   Writing      one game at most is scored and not written;              *)
(*   Counted      match_count_ and the scoreboard, up to output_mutex_;    *)
(*   Causes       who set stop has set, or will set, abnormal_termination; *)
(*   Blames       faults committed, and those the summary knows about.     *)
(* The steps of a worker are taken in four groups (PlayMatch, FinishMatch, *)
(* StartNext, LeaveMatch); a lemma named Outside... says what all steps    *)
(* but a few leave alone.                                                  *)
(***************************************************************************)
EXTENDS Tournament, FiniteSetTheorems, TLAPS

\* Types, but for the bounds of the counters.
Typed ==
    /\ conf \in Configs
    /\ stop \in BOOLEAN /\ abnormal \in BOOLEAN /\ closed \in BOOLEAN
    /\ torn \in BOOLEAN /\ aborted \in BOOLEAN /\ failure \in BOOLEAN
    /\ generated \in 0..Total
    /\ queue \in Seq(Games) /\ running \subseteq Games /\ submitted \subseteq Games
    /\ pc \in [Threads -> WorkerLabels \cup StartNextLabels \cup MainLabels]
    /\ game \in [Threads -> Games \cup {NoGame}]
    /\ outcome \in [Workers -> Outcomes]
    /\ calls \in Nat
    /\ matchCount \in Nat
    /\ written \subseteq Games /\ scored \subseteq Games /\ saved \subseteq Games
    /\ saveIter \in Nat
    /\ handling \in Threads \cup {Nobody}
    /\ failed \in Nat /\ tracker \in Nat

\* Where a thread may be, and what it then has in hand.
Points ==
    /\ \A w \in Workers : pc[w] \in WorkerLabels \cup StartNextLabels
    /\ pc[Main] \in MainLabels \cup StartNextLabels
    /\ game[Main] = NoGame
    /\ \A t \in Threads : pc[t] = "enqueue" => generated \in Games
    /\ \A w \in Workers : game[w] = NoGame <=> pc[w] \in {"idle", "exit"}
    /\ closed => pc[Main] \in {"join", "save", "manager", "report", "done"}

\* The constants.
LEMMA ThreadFacts ==
  /\ Workers \subseteq Threads /\ Main \in Threads /\ Main \notin Workers
  /\ Nobody \notin Threads /\ NoGame \notin Games /\ Games \subseteq Nat
  /\ \A t \in Threads : t = Main \/ t \in Workers
  BY TournamentAssumption DEF Threads, Games

LEMMA ConfFacts ==
  ASSUME Typed
  PROVE  /\ conf.recover \in BOOLEAN /\ conf.sprt \in BOOLEAN
         /\ conf.interval \in Nat /\ conf.initial \in 0..Total /\ conf.faults \subseteq Faults
  BY TournamentAssumption DEF Typed, Config

\* A sequence that grows at its end, and one that loses its head.
LEMMA SeqAppend ==
  ASSUME NEW S, NEW s \in Seq(S), NEW e \in S
  PROVE  /\ Append(s, e) \in Seq(S)
         /\ DOMAIN s = 1..Len(s) /\ Len(s) \in Nat
         /\ DOMAIN Append(s, e) = 1..(Len(s) + 1)
         /\ \A i \in DOMAIN s : Append(s, e)[i] = s[i]
         /\ Append(s, e)[Len(s) + 1] = e
  OBVIOUS

LEMMA SeqTail ==
  ASSUME NEW S, NEW s \in Seq(S), s # <<>>
  PROVE  /\ Head(s) \in S /\ Head(s) = s[1] /\ 1 \in DOMAIN s
         /\ Tail(s) \in Seq(S)
         /\ DOMAIN s = 1..Len(s) /\ Len(s) \in Nat /\ Len(s) > 0
         /\ DOMAIN Tail(s) = 1..(Len(s) - 1)
         /\ \A i \in DOMAIN Tail(s) : i + 1 \in DOMAIN s /\ Tail(s)[i] = s[i + 1]
  OBVIOUS

\* Types are kept.
LEMMA StepTyped == ASSUME Typed, Points, [Next]_vars PROVE Typed'
  <1> USE ThreadFacts DEF Typed
  <1> USE DEF flags, pool, results, mainVars, blame, Goto, WorkerLabels, StartNextLabels, MainLabels
  <1>1. ASSUME NEW w \in Workers, Take(w) PROVE Typed'
    <2>1. Head(queue) \in Games /\ Tail(queue) \in Seq(Games)
      BY <1>1, SeqTail DEF Take, Pool!Start
    <2> QED BY <1>1, <2>1 DEF Take, Pool!Start, Outcomes
  <1>2. ASSUME NEW w \in Workers, Begin(w) \/ Start(w) PROVE Typed'
    <2>1. CASE Begin(w) BY <2>1 DEF Begin
    <2>2. CASE Start(w) BY <2>2 DEF Start
    <2> QED BY <1>2, <2>1, <2>2
  <1>4. ASSUME NEW w \in Workers,
               EndNormally(w) \/ EndLate(w) \/ EndInterrupted(w) \/ EndBroken(w) \/ EndByMoveError(w) \/ EndByError(w) \/ FailToStart(w)
        PROVE Typed'
    <2>1. PICK how \in Outcomes, label \in WorkerLabels : MatchEnds(w, how, label)
      BY <1>4 DEF EndNormally, EndLate, EndInterrupted, EndBroken, EndByMoveError, EndByError, FailToStart, Outcomes
    <2>2. stop' \in BOOLEAN /\ abnormal' = abnormal
      BY <1>4 DEF EndNormally, EndLate, EndInterrupted, EndBroken, EndByMoveError, EndByError, FailToStart
    <2> QED BY <2>1, <2>2 DEF MatchEnds
  <1>5. ASSUME NEW w \in Workers, ReportFailedStart(w) \/ ReportAbandoned(w) \/ Catch(w) \/ ReportCaught(w)
        PROVE  Typed'
    <2>1. CASE ReportFailedStart(w) BY <2>1 DEF ReportFailedStart
    <2>2. CASE ReportAbandoned(w) BY <2>2 DEF ReportAbandoned
    <2>3. CASE Catch(w) BY <2>3 DEF Catch
    <2>4. CASE ReportCaught(w) BY <2>4 DEF ReportCaught
    <2> QED BY <1>5, <2>1, <2>2, <2>3, <2>4
  <1>6. ASSUME NEW w \in Workers, Over(w) PROVE Typed'
    <2>1. stop' \in BOOLEAN /\ pc' \in [Threads -> WorkerLabels \cup StartNextLabels \cup MainLabels]
      BY <1>6, ConfFacts DEF Over
    <2> QED BY <1>6, <2>1 DEF Over
  <1>7. ASSUME NEW w \in Workers, Judge(w) \/ Exit(w) PROVE Typed'
    <2>1. CASE Judge(w) BY <2>1 DEF Judge
    <2>2. CASE Exit(w) BY <2>2 DEF Exit
    <2> QED BY <1>7, <2>1, <2>2
  <1>8. ASSUME NEW w \in Workers, WritePgn(w) \/ UpdateScore(w) PROVE Typed'
    <2>1. game[w] \in Games
      BY <1>8 DEF WritePgn, UpdateScore, Points, At
    <2>2. CASE WritePgn(w) BY <2>1, <2>2 DEF WritePgn
    <2>3. CASE UpdateScore(w)
      <3>1. scored' \in SUBSET Games /\ pc' \in [Threads -> WorkerLabels \cup StartNextLabels \cup MainLabels]
        BY <2>1, <2>3 DEF UpdateScore
      <3> QED BY <2>3, <3>1 DEF UpdateScore
    <2> QED BY <1>8, <2>2, <2>3
  <1>9. ASSUME NEW w \in Workers, UpdateSprt(w) PROVE Typed'
    BY <1>9 DEF UpdateSprt
  <1>9a. ASSUME NEW w \in Workers, CountGame(w) PROVE Typed'
    BY <1>9a DEF CountGame
  <1>10. ASSUME NEW w \in Workers, EndTask(w) PROVE Typed'
    <2>1. tracker' \in Nat /\ running' \subseteq Games
      <3>1. tracker' = tracker \/ tracker' = tracker + 1
        BY <1>10 DEF EndTask, Tracked, At, Blamed
      <3>2. running' = running \ {game[w]}
        BY <1>10 DEF EndTask, Pool!Finish
      <3>3. tracker' \in Nat
        BY <3>1
      <3>4. running' \subseteq Games
        BY <3>2
      <3> QED BY <3>3, <3>4
    <2>2. pc' \in [Threads -> WorkerLabels \cup StartNextLabels \cup MainLabels]
      BY <1>10 DEF EndTask
    <2> QED BY <1>10, <2>1, <2>2 DEF EndTask, Pool!Finish
  <1>11. ASSUME NEW t \in Threads, CallStartNext(t) PROVE Typed'
    BY <1>11 DEF CallStartNext
  <1>11a. ASSUME NEW t \in Threads, LockGenerator(t) PROVE Typed'
    BY <1>11a DEF LockGenerator, Return
  <1>12. ASSUME NEW t \in Threads, Generate(t) PROVE Typed'
    BY <1>12, TournamentAssumption DEF Generate, Return
  <1>13. ASSUME NEW t \in Threads, Enqueue(t) PROVE Typed'
    <2>1. generated \in Games /\ Append(queue, generated) \in Seq(Games)
      BY <1>13, SeqAppend DEF Enqueue, Points, At
    <2>2. pc' \in [Threads -> WorkerLabels \cup StartNextLabels \cup MainLabels] /\ calls' \in Nat
      BY <1>13 DEF Enqueue, Return
    <2>3. queue' \in Seq(Games) /\ submitted' \subseteq Games /\ UNCHANGED <<running, closed>>
      BY <1>13, <2>1 DEF Enqueue, Pool!Submit
    <2> QED BY <1>13, <2>2, <2>3 DEF Enqueue
  <1>14. CASE Create \/ LeaveLoop \/ TearDown \/ JoinWorkers \/ FinalSave \/ StopAtTheEnd \/ Report
    <2>1. CASE Create BY <2>1 DEF Create
    <2>2. CASE LeaveLoop BY <2>2 DEF LeaveLoop
    <2>3. CASE TearDown BY <2>3 DEF TearDown
    <2>4. CASE JoinWorkers BY <2>4 DEF JoinWorkers
    <2>5. CASE FinalSave BY <2>5 DEF FinalSave
    <2>6. CASE StopAtTheEnd BY <2>6 DEF StopAtTheEnd
    <2>7. CASE Report BY <2>7 DEF Report
    <2> QED BY <1>14, <2>1, <2>2, <2>3, <2>4, <2>5, <2>6, <2>7
  <1>15. CASE Autosave
    <2>1. saveIter' \in Nat /\ saved' \subseteq Games
      BY <1>15, ConfFacts DEF Autosave
    <2> QED BY <1>15, <2>1 DEF Autosave
  <1>15a. CASE KillPool
    BY <1>15a DEF KillPool, Pool!Close
  <1>16. CASE (\E t \in Threads : Signal(t)) \/ SignalReturns
    <2>1. ASSUME NEW t \in Threads, Signal(t) PROVE Typed'
      BY <2>1 DEF Signal
    <2>2. CASE SignalReturns
      BY <2>2 DEF SignalReturns
    <2> QED BY <1>16, <2>1, <2>2
  <1>17. CASE UNCHANGED vars
    BY <1>17 DEF vars
  <1> QED BY <1>1, <1>2, <1>4, <1>5, <1>6, <1>7, <1>8, <1>9, <1>10, <1>11, <1>12, <1>13, <1>14, <1>15, <1>15a, <1>16, <1>17, <1>9a, <1>11a
       DEF Next, Worker, PlayMatch, FinishMatch, LeaveMatch, StartNext, MainThread

-----------------------------------------------------------------------------
\* What no step of a worker touches: the other threads, and what belongs to the main
\* thread; the flags are never lowered.
LEMMA WorkerFrame ==
  ASSUME Typed, NEW w \in Workers, Worker(w)
  PROVE  /\ handling # w /\ pc[w] # "exit"
         /\ UNCHANGED <<conf, calls, torn, closed, saved, saveIter, failure, handling>>
         /\ stop => stop'
         /\ abnormal => abnormal'
         /\ \A t \in Threads : t # w => pc'[t] = pc[t] /\ game'[t] = game[t]
         /\ \A v \in Workers : v # w => outcome'[v] = outcome[v]
         /\ matchCount' >= matchCount
  <1> USE ThreadFacts DEF Typed, At, Goto, flags, pool, results, mainVars, blame
  <1>1. CASE PlayMatch(w)
    <2> USE <1>1 DEF PlayMatch, Take, Begin, Start, EndNormally, EndLate, EndInterrupted, EndBroken,
                     EndByMoveError, EndByError, FailToStart, MatchEnds, ReportFailedStart, Pool!Start
    <2>1. handling # w /\ pc[w] # "exit"
      OBVIOUS
    <2>2. UNCHANGED <<conf, calls, torn, closed, saved, saveIter, failure, handling, matchCount>>
      OBVIOUS
    <2>3. (stop => stop') /\ (abnormal => abnormal')
      OBVIOUS
    <2>4. \A t \in Threads : t # w => pc'[t] = pc[t] /\ game'[t] = game[t]
      OBVIOUS
    <2>5. \A v \in Workers : v # w => outcome'[v] = outcome[v]
      OBVIOUS
    <2> QED BY <2>1, <2>2, <2>3, <2>4, <2>5
  <1>2. CASE FinishMatch(w)
    <2> USE <1>2 DEF FinishMatch, Over, Judge, WritePgn, UpdateScore, UpdateSprt, CountGame, ReportAbandoned
    <2>1. handling # w /\ pc[w] # "exit"
      OBVIOUS
    <2>2. UNCHANGED <<conf, calls, torn, closed, saved, saveIter, failure, handling, outcome>>
      OBVIOUS
    <2>3. (stop => stop') /\ (abnormal => abnormal')
      OBVIOUS
    <2>4. \A t \in Threads : t # w => pc'[t] = pc[t] /\ game'[t] = game[t]
      OBVIOUS
    <2>5. matchCount' >= matchCount
      OBVIOUS
    <2> QED BY <2>1, <2>2, <2>3, <2>4, <2>5
  <1>3. CASE StartNext(w)
    <2> USE <1>3 DEF StartNext, CallStartNext, LockGenerator, Generate, Enqueue, Return, Pool!Submit
    <2>1. handling # w /\ pc[w] # "exit"
      OBVIOUS
    <2>2. UNCHANGED <<conf, calls, torn, closed, saved, saveIter, failure, handling, matchCount, outcome, game, stop, abnormal>>
      OBVIOUS
    <2>4. \A t \in Threads : t # w => pc'[t] = pc[t]
      OBVIOUS
    <2> QED BY <2>1, <2>2, <2>4
  <1>4. CASE LeaveMatch(w)
    <2> USE <1>4 DEF LeaveMatch, Catch, ReportCaught, EndTask, Exit, Pool!Finish
    <2>1. handling # w /\ pc[w] # "exit"
      OBVIOUS
    <2>2. UNCHANGED <<conf, calls, torn, closed, saved, saveIter, failure, handling, matchCount, outcome>>
      OBVIOUS
    <2>3. (stop => stop') /\ (abnormal => abnormal')
      OBVIOUS
    <2>4. \A t \in Threads : t # w => pc'[t] = pc[t] /\ game'[t] = game[t]
      OBVIOUS
    <2> QED BY <2>1, <2>2, <2>3, <2>4
  <1> QED BY <1>1, <1>2, <1>3, <1>4 DEF Worker

\* What the main thread leaves alone.
LEMMA MainFrame ==
  ASSUME Typed, MainThread
  PROVE  /\ handling # Main /\ pc[Main] # "done"
         /\ UNCHANGED <<conf, abnormal, game, outcome, results, handling, blame, running>>
         /\ stop => stop'
         /\ \A w \in Workers : pc'[w] = pc[w]
  <1> USE ThreadFacts DEF Typed, At, Goto, flags, pool, results, mainVars, blame
  <1>1. CASE StartNext(Main)
    BY <1>1 DEF StartNext, CallStartNext, LockGenerator, Generate, Enqueue, Return, Pool!Submit
  <1>2. CASE Create \/ Autosave \/ LeaveLoop \/ TearDown \/ KillPool
    BY <1>2 DEF Create, Autosave, LeaveLoop, TearDown, KillPool, Pool!Close
  <1>3. CASE JoinWorkers \/ FinalSave \/ StopAtTheEnd \/ Report
    BY <1>3 DEF JoinWorkers, FinalSave, StopAtTheEnd, Report
  <1> QED BY <1>1, <1>2, <1>3 DEF MainThread

\* The signal handler changes the flags and nothing else.
LEMMA SignalFrame ==
  ASSUME Typed, (\E t \in Threads : Signal(t)) \/ SignalReturns
  PROVE  /\ UNCHANGED <<conf, generated, pool, pc, game, outcome, results, mainVars, aborted, blame>>
         /\ stop => stop'
         /\ abnormal => abnormal'
  BY DEF Signal, SignalReturns, Typed

GenPoints == {"lock", "generate", "enqueue"}

\* Only startNext hands out and queues games.
LEMMA OutsideStartNext ==
  ASSUME Typed, NEW w \in Workers, PlayMatch(w) \/ FinishMatch(w) \/ LeaveMatch(w)
  PROVE  /\ UNCHANGED <<generated, submitted>>
         /\ pc[w] \notin GenPoints /\ pc'[w] \notin GenPoints
  <1> USE ThreadFacts DEF Typed, At, Goto, flags, pool, results, mainVars, blame, GenPoints
  <1>1. CASE PlayMatch(w)
    BY <1>1 DEF PlayMatch, Take, Begin, Start, EndNormally, EndLate, EndInterrupted, EndBroken,
                EndByMoveError, EndByError, FailToStart, MatchEnds, ReportFailedStart, Pool!Start
  <1>2. CASE FinishMatch(w)
    BY <1>2 DEF FinishMatch, Over, Judge, WritePgn, UpdateScore, UpdateSprt, CountGame, ReportAbandoned
  <1>3. CASE LeaveMatch(w)
    BY <1>3 DEF LeaveMatch, Catch, ReportCaught, EndTask, Exit, Pool!Finish
  <1> QED BY <1>1, <1>2, <1>3

\* Points is kept.
LEMMA StepPoints == ASSUME Typed, Points, [Next]_vars PROVE Points'
  <1> USE ThreadFacts DEF Points
  <1>1. ASSUME NEW w \in Workers, Worker(w) PROVE Points'
    <2> USE WorkerFrame, <1>1
    <2>1. \A t \in Threads : t # w => pc'[t] = pc[t] /\ game'[t] = game[t]
      OBVIOUS
    <2>2. pc'[w] \in WorkerLabels \cup StartNextLabels /\ (game'[w] = NoGame <=> pc'[w] \in {"idle", "exit"})
      <3> USE DEF Typed, At, Goto, flags, pool, results, mainVars, blame, WorkerLabels, StartNextLabels
      <3>1. CASE PlayMatch(w)
        <4>1. Take(w) => game'[w] # NoGame
          BY SeqTail DEF Take, Pool!Start
        <4> QED BY <3>1, <4>1 DEF PlayMatch, Take, Begin, Start, EndNormally, EndLate, EndInterrupted, EndBroken,
                     EndByMoveError, EndByError, FailToStart, MatchEnds, ReportFailedStart, Pool!Start
      <3>2. CASE FinishMatch(w)
        <4>1. CASE Over(w) BY <4>1 DEF Over
        <4>2. CASE Judge(w) BY <4>2 DEF Judge
        <4>3. CASE WritePgn(w) BY <4>3 DEF WritePgn
        <4>4. CASE UpdateScore(w) BY <4>4 DEF UpdateScore
        <4>5. CASE UpdateSprt(w) BY <4>5 DEF UpdateSprt
        <4>6. CASE CountGame(w) BY <4>6 DEF CountGame
        <4>7. CASE ReportAbandoned(w) BY <4>7 DEF ReportAbandoned
        <4> QED BY <3>2, <4>1, <4>2, <4>3, <4>4, <4>5, <4>6, <4>7 DEF FinishMatch
      <3>3. CASE StartNext(w)
        BY <3>3 DEF StartNext, CallStartNext, LockGenerator, Generate, Enqueue, Return
      <3>4. CASE LeaveMatch(w)
        BY <3>4 DEF LeaveMatch, Catch, ReportCaught, EndTask, Exit
      <3> QED BY <1>1, <3>1, <3>2, <3>3, <3>4 DEF Worker
    <2>3. \A t \in Threads : pc'[t] = "enqueue" => generated' \in Games
      <3>1. CASE StartNext(w)
        BY <3>1, <2>1, TournamentAssumption
           DEF StartNext, CallStartNext, LockGenerator, Generate, Enqueue, Return, Goto, At, Typed, Games
      <3>2. CASE ~StartNext(w)
        BY <3>2, <2>1, OutsideStartNext DEF Worker, GenPoints
      <3> QED BY <3>1, <3>2
    <2> QED BY <2>1, <2>2, <2>3
  <1>2. CASE MainThread
    <2> USE MainFrame, <1>2
    <2>1. pc'[Main] \in MainLabels \cup StartNextLabels
      BY DEF MainThread, StartNext, CallStartNext, LockGenerator, Generate, Enqueue, Return, Create,
             Autosave, LeaveLoop, TearDown, KillPool, JoinWorkers, FinalSave, StopAtTheEnd, Report,
             Goto, At, Typed, MainLabels, StartNextLabels
    <2>2. closed' => pc'[Main] \in {"join", "save", "manager", "report", "done"}
      BY DEF MainThread, StartNext, CallStartNext, LockGenerator, Generate, Enqueue, Return, Create,
             Autosave, LeaveLoop, TearDown, KillPool, JoinWorkers, FinalSave, StopAtTheEnd, Report,
             Goto, At, Typed, pool, Pool!Submit, Pool!Close
    <2>3. \A t \in Threads : pc'[t] = "enqueue" => generated' \in Games
      <3>1. CASE StartNext(Main)
        BY <3>1, TournamentAssumption
           DEF StartNext, CallStartNext, LockGenerator, Generate, Enqueue, Return, Goto, At, Typed, Games
      <3>2. CASE ~StartNext(Main)
        <4>1. UNCHANGED generated /\ pc'[Main] # "enqueue"
          BY <3>2 DEF MainThread, Create,
             Autosave, LeaveLoop, TearDown, KillPool, JoinWorkers, FinalSave, StopAtTheEnd, Report,
             Goto, At, Typed
        <4> QED BY <4>1
      <3> QED BY <3>1, <3>2
    <2> QED BY <2>1, <2>2, <2>3
  <1>3. CASE (\E t \in Threads : Signal(t)) \/ SignalReturns
    BY <1>3, SignalFrame DEF pool
  <1>4. CASE UNCHANGED vars
    BY <1>4 DEF vars, pool
  <1> QED BY <1>1, <1>2, <1>3, <1>4 DEF Next

-----------------------------------------------------------------------------
\* game_gen_mutex_ and output_mutex_ exclude.
GenMutex == \A s, t \in Threads : pc[s] \in {"generate", "enqueue"} /\ pc[t] \in {"generate", "enqueue"} => s = t
Counting == {w \in Workers : pc[w] \in {"sprt", "count"}}
OutputMutex == \A v, w \in Counting : v = w

TornPoints == {"kill", "join", "save", "manager", "report", "done"}
KilledPoints == TornPoints \ {"kill"}
JoinedPoints == KilledPoints \ {"join"}

\* create queues no more games than the pool has threads.
CallsBounded == calls <= Prefetch /\ (pc[Main] \in StartNextLabels => calls < Prefetch)
\* The destructors, and what has been done when they are at a point.
TornKnown == torn <=> pc[Main] \in TornPoints
ClosedKnown == closed <=> pc[Main] \in KilledPoints
\* No worker is left once the pool is joined.
AllJoined == pc[Main] \in JoinedPoints => \A w \in Workers : pc[w] = "exit"
\* The thread under the signal handler has not ended.
HandlerLives == handling # Nobody => pc[handling] \notin {"exit", "done"}
\* The main thread leaves its loop after a stop or the last game.
LoopLeft == pc[Main] \in TornPoints \cup {"teardown"} => stop \/ matchCount >= Total

Control == GenMutex /\ OutputMutex /\ CallsBounded /\ TornKnown /\ ClosedKnown /\ AllJoined /\ HandlerLives /\ LoopLeft

LEMMA StepGenMutex == ASSUME Typed, GenMutex, [Next]_vars PROVE GenMutex'
  <1> USE ThreadFacts DEF GenMutex
  <1>1. ASSUME NEW t \in Threads, StartNext(t), \A s \in Threads : s # t => pc'[s] = pc[s] PROVE GenMutex'
    BY <1>1 DEF StartNext, CallStartNext, LockGenerator, GenFree, Generate, Enqueue, Return, Goto, At, Typed
  <1>2. ASSUME NEW w \in Workers, Worker(w) PROVE GenMutex'
    <2>1. CASE StartNext(w)
      BY <1>1, <1>2, <2>1, WorkerFrame
    <2>2. CASE ~StartNext(w)
      BY <1>2, <2>2, WorkerFrame, OutsideStartNext DEF Worker, GenPoints
    <2> QED BY <2>1, <2>2
  <1>3. CASE MainThread
    <2>1. CASE StartNext(Main)
      BY <1>1, <1>3, <2>1, MainFrame
    <2>2. CASE ~StartNext(Main)
      <3>1. pc'[Main] \notin {"generate", "enqueue"}
        BY <1>3, <2>2 DEF MainThread, Create, Autosave, LeaveLoop, TearDown, KillPool, JoinWorkers,
                          FinalSave, StopAtTheEnd, Report, Goto, At, Typed
      <3> QED BY <1>3, <3>1, MainFrame
    <2> QED BY <2>1, <2>2
  <1>4. CASE (\E t \in Threads : Signal(t)) \/ SignalReturns
    BY <1>4, SignalFrame
  <1>5. CASE UNCHANGED vars
    BY <1>5 DEF vars
  <1> QED BY <1>2, <1>3, <1>4, <1>5 DEF Next

\* Only UpdateScore and CountGame change the score and the count, and enter and leave
\* the counting.
LEMMA OutsideOutput ==
  ASSUME Typed, NEW w \in Workers, Worker(w), ~UpdateScore(w), ~CountGame(w)
  PROVE  /\ UNCHANGED <<matchCount, scored>>
         /\ pc'[w] \in {"sprt", "count"} <=> pc[w] \in {"sprt", "count"}
  <1> USE ThreadFacts DEF Typed, At, Goto, flags, pool, results, mainVars, blame
  <1>1. CASE PlayMatch(w)
    BY <1>1 DEF PlayMatch, Take, Begin, Start, EndNormally, EndLate, EndInterrupted, EndBroken,
                EndByMoveError, EndByError, FailToStart, MatchEnds, ReportFailedStart
  <1>2. CASE FinishMatch(w)
    BY <1>2 DEF FinishMatch, Over, Judge, WritePgn, UpdateSprt, ReportAbandoned
  <1>3. CASE LeaveMatch(w)
    BY <1>3 DEF LeaveMatch, Catch, ReportCaught, EndTask, Exit
  <1>4. CASE StartNext(w)
    BY <1>4 DEF StartNext, CallStartNext, LockGenerator, Generate, Enqueue, Return
  <1> QED BY <1>1, <1>2, <1>3, <1>4 DEF Worker

LEMMA StepOutputMutex == ASSUME Typed, OutputMutex, [Next]_vars PROVE OutputMutex'
  <1> USE ThreadFacts DEF OutputMutex, Counting
  <1>1. ASSUME NEW w \in Workers, Worker(w) PROVE OutputMutex'
    <2>1. CASE UpdateScore(w)
      BY <1>1, <2>1, WorkerFrame DEF UpdateScore, OutputFree
    <2>2. CASE CountGame(w)
      BY <1>1, <2>2, WorkerFrame DEF CountGame, Goto, Typed
    <2>3. CASE ~UpdateScore(w) /\ ~CountGame(w)
      BY <1>1, <2>3, WorkerFrame, OutsideOutput
    <2> QED BY <2>1, <2>2, <2>3
  <1>2. CASE MainThread
    BY <1>2, MainFrame
  <1>3. CASE (\E t \in Threads : Signal(t)) \/ SignalReturns
    BY <1>3, SignalFrame
  <1>4. CASE UNCHANGED vars
    BY <1>4 DEF vars
  <1> QED BY <1>1, <1>2, <1>3, <1>4 DEF Next

LEMMA StepControl == ASSUME Typed, Points, Control, [Next]_vars PROVE Control'
  <1>a. GenMutex' /\ OutputMutex'
    BY StepGenMutex, StepOutputMutex DEF Control
  <1> USE ThreadFacts, TournamentAssumption DEF CallsBounded, TornKnown, ClosedKnown, AllJoined, HandlerLives, LoopLeft,
          TornPoints, KilledPoints, JoinedPoints, StartNextLabels
  <1>1. ASSUME NEW w \in Workers, Worker(w)
        PROVE CallsBounded' /\ TornKnown' /\ ClosedKnown' /\ AllJoined' /\ HandlerLives' /\ LoopLeft'
    <2>1. CallsBounded' /\ TornKnown' /\ ClosedKnown'
      BY <1>1, WorkerFrame DEF Control
    <2>2. AllJoined'
      BY <1>1, WorkerFrame DEF Control
    <2>3. HandlerLives'
      BY <1>1, WorkerFrame DEF Control, Typed
    <2>4. LoopLeft'
      <3>1. (stop => stop') /\ pc'[Main] = pc[Main]
        BY <1>1, WorkerFrame
      <3>2. matchCount \in Nat /\ matchCount' \in Nat /\ matchCount' >= matchCount /\ Total \in Nat
        BY <1>1, WorkerFrame, StepTyped DEF Typed
      <3>3. matchCount >= Total => matchCount' >= Total
        BY <3>2
      <3>4. LoopLeft
        BY DEF Control
      <3> HIDE TournamentAssumption DEF TornPoints
      <3> QED BY <3>1, <3>3, <3>4
    <2> QED BY <2>1, <2>2, <2>3, <2>4
  <1>2. CASE MainThread
    <2>1. CallsBounded'
      BY <1>2 DEF Control, MainThread, StartNext, CallStartNext, LockGenerator, Generate, Enqueue, Return, Create,
             Autosave, LeaveLoop, TearDown, KillPool, JoinWorkers, FinalSave, StopAtTheEnd, Report,
             Goto, At, Typed, mainVars
    <2>2. TornKnown'
      BY <1>2 DEF Control, MainThread, StartNext, CallStartNext, LockGenerator, Generate, Enqueue, Return, Create,
             Autosave, LeaveLoop, TearDown, KillPool, JoinWorkers, FinalSave, StopAtTheEnd, Report,
             Goto, At, Typed, mainVars
    <2>3. ClosedKnown'
      BY <1>2 DEF Control, MainThread, StartNext, CallStartNext, LockGenerator, Generate, Enqueue, Return, Create,
             Autosave, LeaveLoop, TearDown, KillPool, JoinWorkers, FinalSave, StopAtTheEnd, Report,
             Goto, At, Typed, pool, Pool!Submit, Pool!Close
    <2>4. AllJoined'
      BY <1>2, MainFrame DEF Control, MainThread, StartNext, CallStartNext, LockGenerator, Generate, Enqueue, Return, Create,
             Autosave, LeaveLoop, TearDown, KillPool, JoinWorkers, FinalSave, StopAtTheEnd, Report,
             Goto, At, Typed
    <2>5. HandlerLives'
      BY <1>2, MainFrame DEF Control, Typed
    <2>6. LoopLeft'
      BY <1>2 DEF Control, MainThread, StartNext, CallStartNext, LockGenerator, Generate, Enqueue, Return, Create,
             Autosave, LeaveLoop, GamesLeft, TearDown, KillPool, JoinWorkers, FinalSave, StopAtTheEnd, Report,
             Goto, At, Typed, flags, results
    <2> QED BY <1>a, <2>1, <2>2, <2>3, <2>4, <2>5, <2>6 DEF Control
  <1>3. CASE (\E t \in Threads : Signal(t)) \/ SignalReturns
    <2>1. HandlerLives'
      BY <1>3 DEF Signal, SignalReturns, Control
    <2> QED BY <1>a, <1>3, <2>1, SignalFrame DEF Control, mainVars, pool, results
  <1>4. CASE UNCHANGED vars
    BY <1>a, <1>4 DEF vars, Control, mainVars, pool, results, flags
  <1> QED BY <1>a, <1>1, <1>2, <1>3, <1>4 DEF Next, Control

-----------------------------------------------------------------------------
\* Ids come from the counter and are queued once.
Numbers ==
    /\ conf.initial <= generated
    /\ submitted \subseteq (conf.initial + 1)..generated
    /\ \A t \in Threads : pc[t] = "enqueue" => conf.initial < generated /\ generated \notin submitted

LEMMA StepNumbers == ASSUME Typed, Control, Numbers, [Next]_vars PROVE Numbers'
  <1> USE ThreadFacts, ConfFacts DEF Numbers
  <1>i. conf.initial \in Nat /\ generated \in Nat
    BY TournamentAssumption DEF Typed
  <1>1. ASSUME NEW t \in Threads, StartNext(t), \A s \in Threads : s # t => pc'[s] = pc[s], conf' = conf
        PROVE  Numbers'
    <2> USE DEF Goto, At, Typed, Return, pool
    <2>1. CASE CallStartNext(t) \/ LockGenerator(t)
      BY <1>1, <2>1 DEF CallStartNext, LockGenerator
    <2>2. CASE Generate(t)
      <3>1. \A s \in Threads : pc'[s] = "enqueue" => s = t
        BY <1>1, <2>2 DEF Generate, Control, GenMutex
      <3>2. CASE generated < Total
        <4>1. generated' = generated + 1 /\ submitted' = submitted
          BY <2>2, <3>2 DEF Generate
        <4> QED BY <1>1, <1>i, <3>1, <4>1
      <3>3. CASE ~(generated < Total)
        <4>1. generated' = generated /\ submitted' = submitted /\ pc'[t] # "enqueue"
          BY <2>2, <3>3 DEF Generate
        <4> QED BY <1>1, <1>i, <3>1, <4>1
      <3> QED BY <3>2, <3>3
    <2>3. CASE Enqueue(t)
      <3>1. \A s \in Threads : pc'[s] # "enqueue"
        BY <1>1, <2>3 DEF Enqueue, Control, GenMutex
      <3>2. generated' = generated /\ submitted' \subseteq submitted \cup {generated}
        BY <2>3 DEF Enqueue, Pool!Submit
      <3>3. conf.initial < generated
        BY <2>3 DEF Enqueue
      <3> QED BY <1>1, <1>i, <3>1, <3>2, <3>3
    <2> QED BY <1>1, <2>1, <2>2, <2>3 DEF StartNext
  <1>2. ASSUME NEW w \in Workers, Worker(w) PROVE Numbers'
    <2>1. CASE StartNext(w)
      BY <1>1, <1>2, <2>1, WorkerFrame
    <2>2. CASE ~StartNext(w)
      BY <1>2, <2>2, WorkerFrame, OutsideStartNext DEF Worker, GenPoints
    <2> QED BY <2>1, <2>2
  <1>3. CASE MainThread
    <2>1. CASE StartNext(Main)
      BY <1>1, <1>3, <2>1, MainFrame
    <2>2. CASE ~StartNext(Main)
      <3>1. pc'[Main] # "enqueue" /\ UNCHANGED <<generated, submitted>>
        BY <1>3, <2>2 DEF MainThread, Create, Autosave, LeaveLoop, TearDown, KillPool, JoinWorkers,
                          FinalSave, StopAtTheEnd, Report, Goto, At, Typed, pool, Pool!Close
      <3> QED BY <1>3, <3>1, MainFrame
    <2> QED BY <2>1, <2>2
  <1>4. CASE (\E t \in Threads : Signal(t)) \/ SignalReturns
    BY <1>4, SignalFrame DEF pool
  <1>5. CASE UNCHANGED vars
    BY <1>5 DEF vars, pool
  <1> QED BY <1>2, <1>3, <1>4, <1>5 DEF Next

-----------------------------------------------------------------------------
\* Points at which a game in hand is not yet written.
Unplayed == {"begin", "start", "play", "startupFailed", "over", "judge", "write"}

\* Where games are.
OneHolder == \A v, w \in Workers : game[v] # NoGame /\ game[v] = game[w] => v = w
QueueDistinct == \A i, j \in DOMAIN queue : queue[i] = queue[j] => i = j
QueueApart == \A i \in DOMAIN queue : \A w \in Workers : game[w] # queue[i]
Accepted ==
    /\ \A i \in DOMAIN queue : queue[i] \in submitted
    /\ \A w \in Workers : game[w] # NoGame => game[w] \in submitted
    /\ scored \cup written \subseteq submitted
QueueUnplayed == \A i \in DOMAIN queue : queue[i] \notin scored \cup written
\* How far the game of a worker has come.
HeldAsTold ==
    /\ \A w \in Workers : pc[w] \in Unplayed => game[w] \notin scored \cup written
    /\ \A w \in Workers : pc[w] = "finish" => game[w] \notin scored
    /\ \A w \in Counting : game[w] \in scored

Places == OneHolder /\ QueueDistinct /\ QueueApart /\ Accepted /\ QueueUnplayed /\ HeldAsTold

\* The five steps that move games, and all the others.
LEMMA OutsidePlaces ==
  ASSUME Typed, NEW w \in Workers, Worker(w), ~Take(w), ~EndTask(w), ~Enqueue(w), ~WritePgn(w), ~UpdateScore(w)
  PROVE  /\ UNCHANGED <<queue, submitted, game, written, scored>>
         /\ pc'[w] \in Unplayed => pc[w] \in Unplayed
         /\ pc'[w] = "finish" => pc[w] \in Unplayed
         /\ pc'[w] \in {"sprt", "count"} => pc[w] \in {"sprt", "count"}
  <1> USE ThreadFacts DEF Typed, At, Goto, flags, pool, results, mainVars, blame, Unplayed
  <1>1. CASE PlayMatch(w)
    BY <1>1 DEF PlayMatch, Begin, Start, EndNormally, EndLate, EndInterrupted, EndBroken,
                EndByMoveError, EndByError, FailToStart, MatchEnds, ReportFailedStart
  <1>2. CASE FinishMatch(w)
    BY <1>2 DEF FinishMatch, Over, Judge, UpdateSprt, CountGame, ReportAbandoned
  <1>3. CASE LeaveMatch(w)
    BY <1>3 DEF LeaveMatch, Catch, ReportCaught, Exit
  <1>4. CASE StartNext(w)
    BY <1>4 DEF StartNext, CallStartNext, LockGenerator, Generate, Return
  <1> QED BY <1>1, <1>2, <1>3, <1>4 DEF Worker

LEMMA TakePlaces == ASSUME Typed, Points, Places, NEW w \in Workers, Take(w) PROVE Places'
  <1>1. /\ queue # <<>> /\ queue \in Seq(Games) /\ queue' = Tail(queue)
        /\ UNCHANGED <<submitted, scored, written>>
        /\ game[w] = NoGame
    BY DEF Take, Pool!Start, Typed, At, Points, results
  <1>2. /\ 1 \in DOMAIN queue /\ queue[1] \in Games
        /\ \A i \in DOMAIN queue' : i \in Int /\ i >= 1 /\ i + 1 \in DOMAIN queue /\ queue'[i] = queue[i + 1]
    BY <1>1, SeqTail
  <1>3. /\ game'[w] = queue[1] /\ pc'[w] = "begin"
        /\ \A v \in Workers : v # w => game'[v] = game[v] /\ pc'[v] = pc[v]
    BY <1>1, SeqTail, ThreadFacts DEF Take, Goto, Typed
  <1>4. \A i \in DOMAIN queue' : queue'[i] # queue[1]
    BY <1>2 DEF Places, QueueDistinct
  <1>5. OneHolder'
    BY <1>2, <1>3 DEF Places, OneHolder, QueueApart
  <1>6. QueueDistinct'
    BY <1>2 DEF Places, QueueDistinct
  <1>7. QueueApart'
    BY <1>2, <1>3, <1>4 DEF Places, QueueApart
  <1>8. Accepted' /\ QueueUnplayed'
    BY <1>1, <1>2, <1>3 DEF Places, Accepted, QueueUnplayed
  <1>9. HeldAsTold'
    BY <1>1, <1>2, <1>3 DEF Places, HeldAsTold, QueueUnplayed, Counting, Unplayed
  <1> QED BY <1>5, <1>6, <1>7, <1>8, <1>9 DEF Places

LEMMA EnqueuePlaces ==
  ASSUME Typed, Points, Numbers, Places, NEW t \in Threads, Enqueue(t), game' = game, written' = written, scored' = scored,
         \A w \in Workers : pc'[w] = pc[w] \/ pc'[w] \notin Unplayed \cup {"finish", "sprt", "count"}
  PROVE  Places'
  <1>1. CASE closed
    BY <1>1 DEF Enqueue, pool, Places, OneHolder, QueueDistinct, QueueApart, Accepted, QueueUnplayed, HeldAsTold, Counting
  <1>2. CASE ~closed
    <2>1. /\ generated \notin submitted /\ generated \in Games
          /\ queue' = Append(queue, generated) /\ submitted' = submitted \cup {generated}
      BY <1>2 DEF Enqueue, Pool!Submit, At, Numbers, Points
    <2>2. /\ DOMAIN queue = 1..Len(queue) /\ Len(queue) \in Nat
          /\ DOMAIN queue' = 1..(Len(queue) + 1)
          /\ \A i \in DOMAIN queue : queue'[i] = queue[i]
          /\ queue'[Len(queue) + 1] = generated
      BY <2>1, SeqAppend DEF Typed
    <2>3. \A i \in DOMAIN queue' : i \in DOMAIN queue \/ i = Len(queue) + 1
      BY <2>2
    <2>4. OneHolder'
      BY DEF Places, OneHolder
    <2>5. QueueDistinct'
      BY <2>1, <2>2, <2>3 DEF Places, QueueDistinct, Accepted
    <2>6. QueueApart'
      <3>1. \A w \in Workers : game[w] # generated
        BY <2>1, ThreadFacts DEF Places, Accepted
      <3> QED BY <2>2, <2>3, <3>1 DEF Places, QueueApart
    <2>7. Accepted' /\ QueueUnplayed'
      BY <2>1, <2>2, <2>3 DEF Places, Accepted, QueueUnplayed
    <2>8. HeldAsTold'
      BY DEF Places, HeldAsTold, Counting
    <2> QED BY <2>4, <2>5, <2>6, <2>7, <2>8 DEF Places
  <1> QED BY <1>1, <1>2

\* No step puts a game in two places.
LEMMA StepPlaces == ASSUME Typed, Points, Control, Numbers, Places, [Next]_vars PROVE Places'
  <1> USE ThreadFacts
  <1>1. ASSUME NEW w \in Workers, Worker(w) PROVE Places'
    <2> USE WorkerFrame, <1>1
    <2>1. CASE Take(w)
      BY <2>1, TakePlaces
    <2>2. CASE Enqueue(w)
      BY <2>2, EnqueuePlaces DEF Enqueue, results, Return, Goto, Typed, Unplayed
    <2>3. CASE EndTask(w)
      <3>1. /\ UNCHANGED <<queue, submitted, written, scored>>
            /\ game'[w] = NoGame /\ pc'[w] = "idle"
        BY <2>3 DEF EndTask, Pool!Finish, Goto, Typed, results
      <3>2. \A i \in DOMAIN queue : queue[i] # NoGame
        BY DEF Typed
      <3> QED BY <3>1, <3>2 DEF Places, OneHolder, QueueDistinct, QueueApart, Accepted, QueueUnplayed, HeldAsTold, Counting, Unplayed
    <2>4. CASE WritePgn(w) \/ UpdateScore(w)
      <3>1. /\ UNCHANGED <<queue, submitted, game>>
            /\ written' \subseteq written \cup {game[w]} /\ scored' \subseteq scored \cup {game[w]}
            /\ game[w] # NoGame
            /\ scored \subseteq scored'
        BY <2>4 DEF WritePgn, UpdateScore, Goto, At, Typed, Points, pool
      <3>a. /\ pc'[w] \in {"finish", "sprt", "count"}
            /\ (pc'[w] = "finish" => (scored' = scored /\ pc[w] = "write"))
            /\ (pc'[w] # "finish" => game[w] \in scored')
        BY <2>4 DEF WritePgn, UpdateScore, Goto, At, Typed, results
      <3>2. OneHolder' /\ QueueDistinct' /\ QueueApart'
        BY <3>1 DEF Places, OneHolder, QueueDistinct, QueueApart
      <3>3. Accepted' /\ QueueUnplayed'
        BY <3>1 DEF Places, Accepted, QueueUnplayed, QueueApart
      <3>b. \A v \in Workers : v # w => game[v] # game[w] /\ game'[v] = game[v] /\ pc'[v] = pc[v]
        BY <3>1 DEF Places, OneHolder
      <3>4. HeldAsTold'
        BY <3>1, <3>a, <3>b DEF Places, HeldAsTold, Counting, Unplayed
      <3> QED BY <3>2, <3>3, <3>4 DEF Places
    <2>5. CASE ~Take(w) /\ ~Enqueue(w) /\ ~EndTask(w) /\ ~WritePgn(w) /\ ~UpdateScore(w)
      BY <2>5, OutsidePlaces DEF Places, OneHolder, QueueDistinct, QueueApart, Accepted, QueueUnplayed, HeldAsTold, Counting
    <2> QED BY <2>1, <2>2, <2>3, <2>4, <2>5
  <1>2. CASE MainThread
    <2> USE MainFrame, <1>2
    <2>1. CASE Enqueue(Main)
      BY <2>1, EnqueuePlaces DEF results
    <2>2. CASE ~Enqueue(Main)
      <3>1. submitted' = submitted /\ queue' \in {queue, <<>>}
        BY <2>2 DEF MainThread, StartNext, CallStartNext, LockGenerator, Generate, Create, Autosave, LeaveLoop, TearDown, KillPool, JoinWorkers,
                          FinalSave, StopAtTheEnd, Report, pool, Pool!Close
      <3> QED BY <3>1 DEF results, Places, OneHolder, QueueDistinct, QueueApart, Accepted, QueueUnplayed, HeldAsTold, Counting
    <2> QED BY <2>1, <2>2
  <1>3. CASE (\E t \in Threads : Signal(t)) \/ SignalReturns
    BY <1>3, SignalFrame DEF pool, results, Places, OneHolder, QueueDistinct, QueueApart, Accepted, QueueUnplayed, HeldAsTold, Counting
  <1>4. CASE UNCHANGED vars
    BY <1>4 DEF vars, pool, results, Places, OneHolder, QueueDistinct, QueueApart, Accepted, QueueUnplayed, HeldAsTold, Counting
  <1> QED BY <1>1, <1>2, <1>3, <1>4 DEF Next

-----------------------------------------------------------------------------
\* What an outcome says of the flag stop.
StopOfBroken == \A w \in Workers : outcome[w] = "brokenByStop" => stop \/ pc[w] \in {"idle", "exit"}
StopOfInterrupt == \A w \in Workers : outcome[w] = "interrupt" => stop \/ "moveError" \in conf.faults
OverIsBroken == \A w \in Workers : pc[w] = "over" => outcome[w] \in {"broken", "brokenByStop"}
FreshOutcome == \A w \in Workers : pc[w] \in {"begin", "start", "play"} => outcome[w] = "none"
\* Points a worker reaches when its match is over: the game is scored, or a stop is why
\* not, or the exception in playMove that nobody hears of.
Ended == {"tail", "end", "sprt", "count", "next", "lock", "generate", "enqueue", "abandoned", "thrown"}
Kept == \A w \in Workers : pc[w] \in Ended => game[w] \in scored \/ stop \/ "moveError" \in conf.faults

Fates == StopOfBroken /\ StopOfInterrupt /\ OverIsBroken /\ FreshOutcome /\ Kept

\* A worker that gives up a game uncounted does so because of a stop.
LEMMA WorkerFate ==
  ASSUME Typed, Points, Fates, NEW w \in Workers, Worker(w)
  PROVE  /\ outcome'[w] = "brokenByStop" => stop' \/ pc'[w] \in {"idle", "exit"}
         /\ outcome'[w] = "interrupt" => stop' \/ "moveError" \in conf.faults
         /\ pc'[w] = "over" => outcome'[w] \in {"broken", "brokenByStop"}
         /\ pc'[w] \in {"begin", "start", "play"} => outcome'[w] = "none"
         /\ pc'[w] \in Ended => game'[w] \in scored' \/ stop' \/ "moveError" \in conf.faults
         /\ scored \subseteq scored'
  <1> USE ThreadFacts DEF Typed, At, Goto, flags, pool, results, mainVars, blame, Points,
                          Fates, StopOfBroken, StopOfInterrupt, OverIsBroken, FreshOutcome, Kept, Ended
  <1>1. CASE PlayMatch(w)
    <2> USE <1>1 DEF PlayMatch, Take, Begin, Start, EndNormally, EndLate, EndInterrupted, EndBroken,
                EndByMoveError, EndByError, FailToStart, MatchEnds, ReportFailedStart
    <2>1. outcome'[w] = "brokenByStop" => stop'
      OBVIOUS
    <2>2. outcome'[w] = "interrupt" => stop' \/ "moveError" \in conf.faults
      OBVIOUS
    <2>3. pc'[w] = "over" => outcome'[w] \in {"broken", "brokenByStop"}
      OBVIOUS
    <2>4. pc'[w] \in {"begin", "start", "play"} => outcome'[w] = "none"
      OBVIOUS
    <2>5. pc'[w] \in Ended => stop'
      OBVIOUS
    <2>6. scored' = scored
      OBVIOUS
    <2> QED BY <2>1, <2>2, <2>3, <2>4, <2>5, <2>6
  <1>2. CASE FinishMatch(w)
    <2> USE <1>2 DEF FinishMatch, Over, Judge, WritePgn, UpdateScore, UpdateSprt, CountGame, ReportAbandoned
    <2>1. outcome' = outcome /\ game' = game /\ scored \subseteq scored' /\ (stop => stop')
      OBVIOUS
    <2>2. pc[w] \notin {"idle", "exit"} /\ pc'[w] \notin {"over", "begin", "start", "play"}
      OBVIOUS
    <2>3. pc'[w] \in Ended => pc[w] \in Ended \/ game[w] \in scored' \/ stop' \/ outcome[w] \in {"interrupt", "brokenByStop"}
      OBVIOUS
    <2> QED BY <2>1, <2>2, <2>3
  <1>3. CASE LeaveMatch(w)
    <2> USE <1>3 DEF LeaveMatch, Catch, ReportCaught, EndTask, Exit
    <2>1. outcome' = outcome /\ scored' = scored /\ (stop => stop')
      OBVIOUS
    <2>2. pc'[w] \in {"idle", "exit"} \/ (stop' /\ pc'[w] = "thrown") \/ (pc[w] = "thrown" /\ game' = game /\ pc'[w] = "end")
      OBVIOUS
    <2>3. pc[w] \in {"idle", "exit"} => pc'[w] \in {"idle", "exit"}
      OBVIOUS
    <2> QED BY <2>1, <2>2, <2>3
  <1>4. CASE StartNext(w)
    <2> USE <1>4 DEF StartNext, CallStartNext, LockGenerator, Generate, Enqueue, Return
    <2>1. outcome' = outcome /\ game' = game /\ scored' = scored /\ stop' = stop
      OBVIOUS
    <2>2. pc[w] \in Ended /\ pc'[w] \in Ended \cup {"throw"}
      OBVIOUS
    <2> QED BY <2>1, <2>2
  <1> QED BY <1>1, <1>2, <1>3, <1>4 DEF Worker

LEMMA StepFates == ASSUME Typed, Points, Fates, [Next]_vars PROVE Fates'
  <1> USE ThreadFacts DEF Fates, StopOfBroken, StopOfInterrupt, OverIsBroken, FreshOutcome, Kept
  <1>1. ASSUME NEW w \in Workers, Worker(w) PROVE Fates'
    BY <1>1, WorkerFate, WorkerFrame
  <1>2. CASE MainThread
    BY <1>2, MainFrame DEF results
  <1>3. CASE (\E t \in Threads : Signal(t)) \/ SignalReturns
    BY <1>3, SignalFrame DEF results
  <1>4. CASE UNCHANGED vars
    BY <1>4 DEF vars, results, flags
  <1> QED BY <1>1, <1>2, <1>3, <1>4 DEF Next

-----------------------------------------------------------------------------
\* Games that are, or are about to be, scored without being written.
Unwritten == (scored \ written) \cup {game[w] : w \in {v \in Workers : pc[v] = "finish" /\ game[v] \notin written}}

\* A written game is scored, or about to be.
WrittenFirst == \A g \in written \ scored : \E w \in Workers : pc[w] = "finish" /\ game[w] = g
\* A game that is scored unwritten was ended by the stall that stopped the tournament,
\* and so it is the only one.
UnwrittenIsBroken == \A w \in Workers : pc[w] = "finish" /\ game[w] \notin written => outcome[w] = "broken"
OneUnwritten == \A g, h \in Unwritten : g = h
UnwrittenStops == Unwritten # {} => stop /\ ~conf.recover

Writing == WrittenFirst /\ UnwrittenIsBroken /\ OneUnwritten /\ UnwrittenStops

\* Only Over, WritePgn and UpdateScore matter to it.
LEMMA OutsideWriting ==
  ASSUME Typed, NEW w \in Workers, Worker(w), ~WritePgn(w), ~UpdateScore(w), ~Over(w)
  PROVE  /\ UNCHANGED <<written, scored>>
         /\ pc[w] # "finish" /\ pc'[w] # "finish"
  <1> USE ThreadFacts DEF Typed, At, Goto, flags, pool, results, mainVars, blame
  <1>1. CASE PlayMatch(w)
    BY <1>1 DEF PlayMatch, Take, Begin, Start, EndNormally, EndLate, EndInterrupted, EndBroken,
                EndByMoveError, EndByError, FailToStart, MatchEnds, ReportFailedStart
  <1>2. CASE FinishMatch(w)
    BY <1>2 DEF FinishMatch, Judge, UpdateSprt, CountGame, ReportAbandoned
  <1>3. CASE LeaveMatch(w)
    BY <1>3 DEF LeaveMatch, Catch, ReportCaught, EndTask, Exit
  <1>4. CASE StartNext(w)
    BY <1>4 DEF StartNext, CallStartNext, LockGenerator, Generate, Enqueue, Return
  <1> QED BY <1>1, <1>2, <1>3, <1>4 DEF Worker

\* At most one game is ever scored unwritten: who scores one has raised stop.
LEMMA StepWriting == ASSUME Typed, Points, Places, Fates, Writing, [Next]_vars PROVE Writing'
  <1> USE ThreadFacts
  <1>1. ASSUME NEW w \in Workers, Worker(w) PROVE Writing'
    <2>f. /\ conf' = conf /\ (stop => stop')
          /\ \A v \in Workers : v # w => pc'[v] = pc[v] /\ game'[v] = game[v] /\ outcome'[v] = outcome[v]
      BY <1>1, WorkerFrame
    <2>1. CASE ~WritePgn(w) /\ ~UpdateScore(w) /\ ~Over(w)
      <3>1. /\ UNCHANGED <<written, scored>>
            /\ pc[w] # "finish" /\ pc'[w] # "finish"
        BY <1>1, <2>1, OutsideWriting
      <3>2. Unwritten' \subseteq Unwritten
        BY <2>f, <3>1 DEF Unwritten
      <3>3. WrittenFirst' /\ UnwrittenIsBroken'
        BY <2>f, <3>1 DEF Writing, WrittenFirst, UnwrittenIsBroken
      <3> QED BY <2>f, <3>2, <3>3 DEF Writing, OneUnwritten, UnwrittenStops
    <2>2. CASE WritePgn(w)
      <3>1. /\ game' = game /\ outcome' = outcome /\ scored' = scored /\ written' = written \cup {game[w]}
            /\ pc[w] = "write" /\ pc'[w] = "finish"
        BY <2>2, <2>f DEF WritePgn, At, Goto, Typed
      <3>2. Unwritten' \subseteq Unwritten
        BY <2>f, <3>1 DEF Unwritten
      <3>3. WrittenFirst'
        BY <2>f, <3>1 DEF Writing, WrittenFirst
      <3>4. UnwrittenIsBroken'
        BY <2>f, <3>1 DEF Writing, UnwrittenIsBroken
      <3> QED BY <2>f, <3>2, <3>3, <3>4 DEF Writing, OneUnwritten, UnwrittenStops
    <2>3. CASE UpdateScore(w)
      <3>1. /\ game' = game /\ outcome' = outcome /\ written' = written /\ scored' = scored \cup {game[w]}
            /\ pc[w] = "finish" /\ pc'[w] \in {"sprt", "count"}
        BY <2>3, <2>f DEF UpdateScore, At, Goto, Typed
      <3>2. Unwritten' \subseteq Unwritten
        BY <2>f, <3>1 DEF Unwritten
      <3>3. WrittenFirst'
        BY <2>f, <3>1 DEF Writing, WrittenFirst
      <3>4. UnwrittenIsBroken'
        BY <2>f, <3>1 DEF Writing, UnwrittenIsBroken
      <3> QED BY <2>f, <3>2, <3>3, <3>4 DEF Writing, OneUnwritten, UnwrittenStops
    <2>4. CASE Over(w)
      <3>1. /\ game' = game /\ outcome' = outcome /\ UNCHANGED <<written, scored>>
            /\ pc[w] = "over"
        BY <2>4 DEF Over, At, results
      <3>2. CASE pc'[w] # "finish"
        <4>2. Unwritten' \subseteq Unwritten
          BY <2>f, <3>1, <3>2 DEF Unwritten
        <4>3. WrittenFirst' /\ UnwrittenIsBroken'
          BY <2>f, <3>1, <3>2 DEF Writing, WrittenFirst, UnwrittenIsBroken
        <4> QED BY <2>f, <4>2, <4>3 DEF Writing, OneUnwritten, UnwrittenStops
      <3>3. CASE pc'[w] = "finish"
        <4>1. ~stop /\ stop' /\ ~conf.recover
          BY <2>4, <3>3 DEF Over, Goto, Typed
        <4>2. outcome[w] = "broken"
          BY <3>1, <4>1 DEF Fates, OverIsBroken, StopOfBroken
        <4>3. Unwritten = {}
          BY <4>1 DEF Writing, UnwrittenStops
        <4>4. Unwritten' \subseteq {game[w]}
          BY <2>f, <3>1, <4>3 DEF Unwritten
        <4>5. WrittenFirst' /\ UnwrittenIsBroken'
          BY <2>f, <3>1, <4>2 DEF Writing, WrittenFirst, UnwrittenIsBroken
        <4>6. OneUnwritten'
          BY <4>4 DEF OneUnwritten
        <4> QED BY <2>f, <4>1, <4>5, <4>6 DEF Writing, UnwrittenStops
      <3> QED BY <3>2, <3>3
    <2> QED BY <2>1, <2>2, <2>3, <2>4
  <1>o. ASSUME UNCHANGED <<conf, game, outcome, results>>, stop => stop', \A w \in Workers : pc'[w] = pc[w]
        PROVE  Writing'
    <2>1. Unwritten' = Unwritten
      BY <1>o DEF Unwritten, results
    <2>2. WrittenFirst' /\ UnwrittenIsBroken'
      BY <1>o DEF Writing, WrittenFirst, UnwrittenIsBroken, results
    <2> QED BY <1>o, <2>1, <2>2 DEF Writing, OneUnwritten, UnwrittenStops
  <1>2. CASE MainThread
    BY <1>2, <1>o, MainFrame
  <1>3. CASE (\E t \in Threads : Signal(t)) \/ SignalReturns
    BY <1>3, <1>o, SignalFrame
  <1>4. CASE UNCHANGED vars
    BY <1>4, <1>o DEF vars, flags
  <1> QED BY <1>1, <1>2, <1>3, <1>4 DEF Next

\* What CountIsScored says of the PGN file.
LEMMA WritingImplies == ASSUME Typed, Writing PROVE WrittenAreScored
  <1>1. written \ scored \subseteq {game[w] : w \in {v \in Workers : pc[v] = "finish"}}
    BY DEF Writing, WrittenFirst
  <1>2. Cardinality(scored \ written) <= 1
    <2>1. CASE scored \ written = {}
      BY <2>1, FS_EmptySet
    <2>2. CASE scored \ written # {}
      <3>1. PICK g : scored \ written = {g}
        BY <2>2 DEF Writing, OneUnwritten, Unwritten
      <3>2. Cardinality(scored \ written) = 1
        BY <3>1, FS_Singleton
      <3> QED BY <3>2
    <2> QED BY <2>1, <2>2
  <1>3. scored \ written # {} => stop /\ ~conf.recover
    BY DEF Writing, UnwrittenStops, Unwritten
  <1> QED BY <1>1, <1>2, <1>3 DEF WrittenAreScored

-----------------------------------------------------------------------------
\* What CountIsScored says of match_count_.
Counted == matchCount + Cardinality(Counting) = conf.initial + Cardinality(scored)

LEMMA FiniteParts ==
  ASSUME Typed
  PROVE  /\ IsFiniteSet(Counting) /\ Cardinality(Counting) \in Nat
         /\ IsFiniteSet(scored) /\ Cardinality(scored) \in Nat
         /\ IsFiniteSet(submitted) /\ Cardinality(submitted) \in Nat
         /\ conf.initial \in Nat /\ Total \in Nat /\ matchCount \in Nat
  <1>1. IsFiniteSet(Games)
    BY FS_Interval, TournamentAssumption DEF Games
  <1>2. IsFiniteSet(scored) /\ IsFiniteSet(submitted)
    BY <1>1, FS_Subset DEF Typed
  <1>3. IsFiniteSet(Counting)
    BY TournamentAssumption, FS_Subset DEF Counting
  <1>4. conf.initial \in Nat /\ Total \in Nat /\ matchCount \in Nat
    BY ConfFacts, TournamentAssumption DEF Typed
  <1> QED BY <1>2, <1>3, <1>4, FS_CardinalityType

\* The count follows the score, except while output_mutex_ is held.
LEMMA StepCounted == ASSUME Typed, Points, Places, Counted, [Next]_vars PROVE Counted'
  <1> USE ThreadFacts
  <1>n. /\ Cardinality(Counting) \in Nat /\ Cardinality(scored) \in Nat
        /\ conf.initial \in Nat /\ matchCount \in Nat
        /\ IsFiniteSet(Counting) /\ IsFiniteSet(scored)
    BY FiniteParts
  <1>o. ASSUME conf' = conf, matchCount' = matchCount, scored' = scored,
               \A v \in Workers : pc'[v] \in {"sprt", "count"} <=> pc[v] \in {"sprt", "count"}
        PROVE  Counted'
    <2>1. Counting' = Counting
      BY <1>o DEF Counting
    <2> QED BY <1>o, <2>1 DEF Counted
  <1>1. ASSUME NEW w \in Workers, Worker(w) PROVE Counted'
    <2>f. conf' = conf /\ \A v \in Workers : v # w => pc'[v] = pc[v]
      BY <1>1, WorkerFrame
    <2>1. CASE UpdateScore(w)
      <3>1. /\ matchCount' = matchCount /\ scored' = scored \cup {game[w]}
            /\ pc[w] = "finish" /\ pc'[w] \in {"sprt", "count"}
        BY <2>1 DEF UpdateScore, At, Goto, Typed
      <3>2. game[w] \notin scored /\ w \notin Counting
        BY <3>1 DEF Places, HeldAsTold, Counting
      <3>3. Counting' = Counting \cup {w}
        BY <2>f, <3>1 DEF Counting
      <3>4. Cardinality(Counting') = Cardinality(Counting) + 1 /\ Cardinality(scored') = Cardinality(scored) + 1
        BY <1>n, <3>1, <3>2, <3>3, FS_AddElement
      <3> QED BY <1>n, <2>f, <3>1, <3>4 DEF Counted
    <2>2. CASE CountGame(w)
      <3>1. /\ matchCount' = matchCount + 1 /\ scored' = scored
            /\ pc[w] = "count" /\ pc'[w] \notin {"sprt", "count"}
        BY <2>2 DEF CountGame, At, Goto, Typed
      <3>2. Counting' = Counting \ {w} /\ w \in Counting
        BY <2>f, <3>1 DEF Counting
      <3>3. Cardinality(Counting') = Cardinality(Counting) - 1
        BY <1>n, <3>2, FS_RemoveElement
      <3> QED BY <1>n, <2>f, <3>1, <3>3 DEF Counted
    <2>3. CASE ~UpdateScore(w) /\ ~CountGame(w)
      <3>1. /\ UNCHANGED <<matchCount, scored>>
            /\ pc'[w] \in {"sprt", "count"} <=> pc[w] \in {"sprt", "count"}
        BY <1>1, <2>3, OutsideOutput
      <3> QED BY <1>o, <2>f, <3>1
    <2> QED BY <2>1, <2>2, <2>3
  <1>2. CASE MainThread
    BY <1>2, <1>o, MainFrame DEF results
  <1>3. CASE (\E t \in Threads : Signal(t)) \/ SignalReturns
    BY <1>3, <1>o, SignalFrame DEF results
  <1>4. CASE UNCHANGED vars
    BY <1>4, <1>o DEF vars, results
  <1> QED BY <1>1, <1>2, <1>3, <1>4 DEF Next

\* No more games are counted than there are, and all of them are scored when the count is
\* complete.
LEMMA ScoredBound ==
  ASSUME Typed, Numbers, Places, Counted
  PROVE  /\ matchCount <= Total
         /\ scored \subseteq (conf.initial + 1)..Total
         /\ matchCount >= Total => scored = (conf.initial + 1)..Total
  <1> DEFINE All == (conf.initial + 1)..Total
  <1>1. conf.initial \in 0..Total /\ Total \in Nat /\ generated \in 0..Total
    BY ConfFacts, TournamentAssumption DEF Typed
  <1>2. scored \subseteq All
    <2>1. scored \subseteq (conf.initial + 1)..generated
      BY DEF Places, Accepted, Numbers
    <2>2. (conf.initial + 1)..generated \subseteq All
      BY <1>1
    <2> QED BY <2>1, <2>2
  <1>3. IsFiniteSet(All) /\ Cardinality(All) = Total - conf.initial
    <2>1. conf.initial + 1 \in Int /\ Total \in Int
      BY <1>1
    <2>2. IsFiniteSet(All) /\ Cardinality(All) = IF conf.initial + 1 > Total THEN 0 ELSE Total - (conf.initial + 1) + 1
      BY <2>1, FS_Interval
    <2> QED BY <1>1, <2>2
  <1>4. Cardinality(scored) <= Total - conf.initial /\ (Cardinality(scored) = Total - conf.initial => scored = All)
    BY <1>2, <1>3, FS_Subset
  <1>5. Cardinality(Counting) \in Nat /\ Cardinality(scored) \in Nat /\ conf.initial \in Nat /\ matchCount \in Nat
    BY FiniteParts
  <1>6. matchCount <= Total /\ (matchCount >= Total => Cardinality(scored) = Total - conf.initial)
    BY <1>1, <1>4, <1>5 DEF Counted
  <1> QED BY <1>2, <1>4, <1>6

-----------------------------------------------------------------------------
\* A game handed out is not lost on its way into the queue: a pool that refuses it was
\* closed after a stop or after the last game.
LEMMA SomewhereStartNext ==
  ASSUME Typed, Points, Control, Numbers, Places, Counted, GameIsSomewhere,
         NEW t \in Threads, StartNext(t), \A s \in Threads : s # t => pc'[s] = pc[s],
         UNCHANGED <<conf, game, scored, stop>>
  PROVE  GameIsSomewhere'
  <1> USE ThreadFacts DEF Goto, At, Typed, Return
  <1>i. conf.initial \in Nat /\ generated \in Nat /\ Total \in Nat
    BY TournamentAssumption, ConfFacts DEF Typed
  <1> SUFFICES ASSUME ~stop, "moveError" \notin conf.faults, NEW g \in (conf.initial + 1)..generated'
               PROVE  \/ \E i \in DOMAIN queue' : queue'[i] = g
                      \/ \E w \in Workers : game[w] = g
                      \/ \E s \in Threads : pc'[s] = "enqueue" /\ g = generated'
                      \/ g \in scored
    BY DEF GameIsSomewhere
  <1>0. g \in (conf.initial + 1)..generated =>
          \/ \E i \in DOMAIN queue : queue[i] = g
          \/ \E w \in Workers : game[w] = g
          \/ \E s \in Threads : pc[s] = "enqueue" /\ g = generated
          \/ g \in scored
    BY DEF GameIsSomewhere
  <1>1. CASE CallStartNext(t) \/ LockGenerator(t)
    <2>1. UNCHANGED <<queue, generated>> /\ pc[t] # "enqueue"
      BY <1>1 DEF CallStartNext, LockGenerator, pool
    <2> QED BY <1>0, <2>1
  <1>2. CASE Generate(t)
    <2>1. queue' = queue /\ pc[t] = "generate"
      BY <1>2 DEF Generate, pool
    <2>2. \A s \in Threads : pc[s] # "enqueue"
      BY <2>1 DEF Control, GenMutex
    <2>3. CASE generated' = generated
      BY <1>0, <2>1, <2>2, <2>3
    <2>4. CASE generated' # generated
      <3>1. generated' = generated + 1 /\ pc'[t] = "enqueue"
        BY <1>2, <2>4 DEF Generate
      <3>2. CASE g = generated'
        BY <3>1, <3>2
      <3>3. CASE g # generated'
        <4>1. g \in (conf.initial + 1)..generated
          BY <1>i, <3>1, <3>3
        <4> QED BY <1>0, <2>1, <2>2, <4>1
      <3> QED BY <3>2, <3>3
    <2> QED BY <2>3, <2>4
  <1>3. CASE Enqueue(t)
    <2>1. generated' = generated /\ pc[t] = "enqueue"
      BY <1>3 DEF Enqueue
    <2>2. CASE closed
      <3>1. matchCount >= Total
        BY <2>2 DEF Control, ClosedKnown, LoopLeft, KilledPoints, TornPoints
      <3>2. scored = (conf.initial + 1)..Total
        BY <3>1, ScoredBound
      <3> QED BY <1>i, <2>1, <3>2 DEF Typed
    <2>3. CASE ~closed
      <3>1. queue' = Append(queue, generated) /\ generated \in Games
        BY <1>3, <2>3 DEF Enqueue, Pool!Submit, Points
      <3>2. /\ DOMAIN queue = 1..Len(queue) /\ Len(queue) \in Nat
            /\ DOMAIN queue' = 1..(Len(queue) + 1)
            /\ \A i \in DOMAIN queue : queue'[i] = queue[i]
            /\ queue'[Len(queue) + 1] = generated
        BY <3>1, SeqAppend DEF Typed
      <3>3. \A i \in DOMAIN queue : i \in DOMAIN queue' /\ queue'[i] = queue[i]
        BY <3>2
      <3>4. Len(queue) + 1 \in DOMAIN queue'
        BY <3>2
      <3> QED BY <1>0, <2>1, <3>2, <3>3, <3>4
    <2> QED BY <2>2, <2>3
  <1> QED BY <1>1, <1>2, <1>3 DEF StartNext

\* The steps of a worker that leave queue and games in hand alone.
LEMMA OutsideSomewhere ==
  ASSUME Typed, NEW w \in Workers, Worker(w), ~Take(w), ~EndTask(w), ~StartNext(w)
  PROVE  UNCHANGED <<queue, game, generated>> /\ pc[w] # "enqueue" /\ scored \subseteq scored'
  <1> USE ThreadFacts DEF Typed, At, Goto, flags, pool, results, mainVars, blame
  <1>1. CASE PlayMatch(w)
    BY <1>1 DEF PlayMatch, Begin, Start, EndNormally, EndLate, EndInterrupted, EndBroken,
                EndByMoveError, EndByError, FailToStart, MatchEnds, ReportFailedStart
  <1>2. CASE FinishMatch(w)
    BY <1>2 DEF FinishMatch, Over, Judge, WritePgn, UpdateScore, UpdateSprt, CountGame, ReportAbandoned
  <1>3. CASE LeaveMatch(w)
    BY <1>3 DEF LeaveMatch, Catch, ReportCaught, Exit
  <1> QED BY <1>1, <1>2, <1>3 DEF Worker

\* No step loses a game, unless stop is set.
LEMMA StepSomewhere ==
  ASSUME Typed, Points, Control, Numbers, Places, Fates, Counted, GameIsSomewhere, [Next]_vars
  PROVE  GameIsSomewhere'
  <1> USE ThreadFacts
  <1>1. ASSUME NEW w \in Workers, Worker(w) PROVE GameIsSomewhere'
    <2>f. /\ conf' = conf /\ (stop => stop')
          /\ \A s \in Threads : s # w => pc'[s] = pc[s] /\ game'[s] = game[s]
      BY <1>1, WorkerFrame
    <2>1. CASE StartNext(w)
      <3>1. UNCHANGED <<game, scored, stop>>
        BY <2>1 DEF StartNext, CallStartNext, LockGenerator, Generate, Enqueue, flags, results
      <3> QED BY <2>1, <2>f, <3>1, SomewhereStartNext
    <2>2. CASE ~StartNext(w) /\ ~Take(w) /\ ~EndTask(w)
      <3>1. UNCHANGED <<queue, game, generated>> /\ pc[w] # "enqueue" /\ scored \subseteq scored'
        BY <1>1, <2>2, OutsideSomewhere
      <3> QED BY <2>f, <3>1 DEF GameIsSomewhere
    <2>3. CASE Take(w)
      <3>1. /\ queue # <<>> /\ queue \in Seq(Games) /\ queue' = Tail(queue) /\ game'[w] = Head(queue)
            /\ UNCHANGED <<generated, scored, stop>> /\ pc[w] = "idle" /\ game[w] = NoGame
        BY <2>3 DEF Take, Pool!Start, Typed, At, flags, results, Points
      <3>2. /\ DOMAIN queue = 1..Len(queue) /\ Len(queue) \in Nat /\ game'[w] = queue[1]
            /\ DOMAIN Tail(queue) = 1..(Len(queue) - 1)
            /\ \A i \in DOMAIN Tail(queue) : Tail(queue)[i] = queue[i + 1]
        BY <3>1, SeqTail
      <3>3. \A i \in DOMAIN queue : i = 1 \/ (i - 1 \in DOMAIN queue' /\ queue'[i - 1] = queue[i])
        BY <3>1, <3>2
      <3>4. \A g \in (conf.initial + 1)..generated : (\E i \in DOMAIN queue : queue[i] = g) =>
               game'[w] = g \/ \E i \in DOMAIN queue' : queue'[i] = g
        BY <3>2, <3>3
      <3>5. \A g \in (conf.initial + 1)..generated : g # NoGame
        BY ConfFacts, TournamentAssumption DEF Typed
      <3> QED BY <2>f, <3>1, <3>4, <3>5 DEF GameIsSomewhere
    <2>4. CASE EndTask(w)
      <3>1. UNCHANGED <<queue, generated, scored, stop>> /\ pc[w] \in {"tail", "end"}
        BY <2>4 DEF EndTask, At, flags, results, Pool!Finish
      <3>2. game[w] \in scored \/ stop \/ "moveError" \in conf.faults
        BY <3>1 DEF Fates, Kept, Ended
      <3> QED BY <2>f, <3>1, <3>2 DEF GameIsSomewhere
    <2> QED BY <2>1, <2>2, <2>3, <2>4
  <1>2. CASE MainThread
    <2>f. UNCHANGED <<conf, game, scored>> /\ (stop => stop') /\ \A w \in Workers : pc'[w] = pc[w]
      BY <1>2, MainFrame DEF results
    <2>1. CASE StartNext(Main)
      <3>1. stop' = stop
        BY <2>1 DEF StartNext, CallStartNext, LockGenerator, Generate, Enqueue, flags
      <3> QED BY <2>1, <2>f, <3>1, SomewhereStartNext
    <2>2. CASE KillPool
      <3>1. generated' = generated /\ pc[Main] = "kill"
        BY <2>2 DEF KillPool, At
      <3>2. stop \/ scored = (conf.initial + 1)..Total
        BY <3>1, ScoredBound DEF Control, LoopLeft, TornPoints
      <3>3. \A g \in (conf.initial + 1)..generated : g \in (conf.initial + 1)..Total
        BY ConfFacts, TournamentAssumption DEF Typed
      <3> QED BY <2>f, <3>1, <3>2, <3>3 DEF GameIsSomewhere
    <2>3. CASE ~StartNext(Main) /\ ~KillPool
      <3>1. UNCHANGED <<queue, generated>> /\ pc[Main] # "enqueue"
        BY <1>2, <2>3 DEF MainThread, Create, Autosave, LeaveLoop, TearDown, JoinWorkers,
                          FinalSave, StopAtTheEnd, Report, At, pool
      <3> QED BY <2>f, <3>1 DEF GameIsSomewhere
    <2> QED BY <2>1, <2>2, <2>3
  <1>3. CASE (\E t \in Threads : Signal(t)) \/ SignalReturns
    BY <1>3, SignalFrame DEF GameIsSomewhere, pool, results
  <1>4. CASE UNCHANGED vars
    BY <1>4 DEF vars, pool, results, flags, GameIsSomewhere
  <1> QED BY <1>1, <1>2, <1>3, <1>4 DEF Next

-----------------------------------------------------------------------------
\* A worker that has set stop and is yet to set abnormal_termination.
Reports(w) ==
    \/ pc[w] \in {"startupFailed", "thrown"}
    \/ pc[w] \in {"finish", "sprt", "count", "abandoned"} /\ outcome[w] = "broken" /\ ~conf.recover
\* Whoever set stop has told, or will; or else the tournament is over.
StopHasCause ==
    stop /\ ~conf.sprt =>
        \/ abnormal \/ handling # Nobody
        \/ \E w \in Workers : Reports(w)
        \/ pc[Main] \in {"report", "done"} /\ matchCount >= Total
\* Only a broken game without -recover is abandoned.
AbandonedIsBroken == \A w \in Workers : pc[w] = "abandoned" => outcome[w] = "broken" /\ ~conf.recover
SprtIsConfigured == \A w \in Workers : pc[w] = "sprt" => conf.sprt
\* The exit code is that of the flag.
FailureKnown == pc[Main] = "done" => failure = abnormal

Causes == StopHasCause /\ AbandonedIsBroken /\ SprtIsConfigured /\ FailureKnown

\* A worker that sets stop reports it, and goes on to report it until it has.
LEMMA WorkerCause ==
  ASSUME Typed, Fates, Causes, NEW w \in Workers, Worker(w)
  PROVE  /\ Reports(w) => Reports(w)' \/ abnormal'
         /\ stop' /\ ~conf.sprt => stop \/ Reports(w)'
         /\ pc'[w] = "abandoned" => outcome'[w] = "broken" /\ ~conf.recover
         /\ pc'[w] = "sprt" => conf.sprt
  <1> USE ThreadFacts DEF Typed, At, Goto, flags, pool, results, mainVars, blame, Causes, AbandonedIsBroken, SprtIsConfigured
  <1>c. conf' = conf
    BY WorkerFrame
  <1>1. CASE PlayMatch(w)
    <2> USE <1>1, <1>c DEF PlayMatch, Take, Begin, Start, EndNormally, EndLate, EndInterrupted, EndBroken,
                EndByMoveError, EndByError, FailToStart, MatchEnds, ReportFailedStart
    <2>1. Reports(w) => abnormal'
      BY DEF Reports
    <2>2. stop' => stop \/ Reports(w)'
      BY DEF Reports
    <2>3. pc'[w] \notin {"abandoned", "sprt"}
      OBVIOUS
    <2> QED BY <2>1, <2>2, <2>3
  <1>2. CASE FinishMatch(w)
    <2> USE <1>2, <1>c DEF FinishMatch, Over, Judge, WritePgn, UpdateScore, UpdateSprt, CountGame, ReportAbandoned
    <2>1. Reports(w) => Reports(w)' \/ abnormal'
      BY DEF Reports
    <2>2. stop' /\ ~conf.sprt => stop \/ Reports(w)'
      BY DEF Reports, Fates, OverIsBroken, StopOfBroken
    <2>3. pc'[w] = "abandoned" => outcome'[w] = "broken" /\ ~conf.recover
      OBVIOUS
    <2>4. pc'[w] = "sprt" => conf.sprt
      OBVIOUS
    <2> QED BY <2>1, <2>2, <2>3, <2>4
  <1>3. CASE LeaveMatch(w)
    <2> USE <1>3, <1>c DEF LeaveMatch, Catch, ReportCaught, EndTask, Exit
    <2>1. Reports(w) => Reports(w)' \/ abnormal'
      BY DEF Reports
    <2>2. stop' => stop \/ Reports(w)'
      BY DEF Reports
    <2>3. pc'[w] \notin {"abandoned", "sprt"}
      OBVIOUS
    <2> QED BY <2>1, <2>2, <2>3
  <1>4. CASE StartNext(w)
    <2> USE <1>4 DEF StartNext, CallStartNext, LockGenerator, Generate, Enqueue, Return
    <2>1. stop' = stop /\ ~Reports(w)
      BY DEF Reports
    <2>2. pc'[w] \notin {"abandoned", "sprt"}
      OBVIOUS
    <2> QED BY <2>1, <2>2
  <1> QED BY <1>1, <1>2, <1>3, <1>4 DEF Worker

\* Every stop has a cause on record, or about to be.
LEMMA StepCauses == ASSUME Typed, Control, Fates, Causes, [Next]_vars PROVE Causes'
  <1> USE ThreadFacts
  <1>1. ASSUME NEW w \in Workers, Worker(w) PROVE Causes'
    <2>f. /\ handling # w /\ pc[w] # "exit"
          /\ UNCHANGED <<conf, failure, handling>>
          /\ abnormal => abnormal'
          /\ \A t \in Threads : t # w => pc'[t] = pc[t]
          /\ \A v \in Workers : v # w => outcome'[v] = outcome[v]
      BY <1>1, WorkerFrame
    <2>w. /\ Reports(w) => Reports(w)' \/ abnormal'
          /\ stop' /\ ~conf.sprt => stop \/ Reports(w)'
          /\ pc'[w] = "abandoned" => outcome'[w] = "broken" /\ ~conf.recover
          /\ pc'[w] = "sprt" => conf.sprt
      BY <1>1, WorkerCause
    <2>n. pc[Main] \notin {"report", "done"}
      BY <2>f DEF Control, AllJoined, JoinedPoints, KilledPoints, TornPoints
    <2>1. \A v \in Workers : v # w => (Reports(v)' <=> Reports(v))
      BY <2>f DEF Reports
    <2>2. (\E v \in Workers : Reports(v)) => abnormal' \/ \E v \in Workers : Reports(v)'
      BY <2>1, <2>w
    <2>3. stop' /\ ~conf.sprt => abnormal' \/ handling # Nobody \/ \E v \in Workers : Reports(v)'
      BY <2>2, <2>w, <2>f, <2>n DEF Causes, StopHasCause
    <2>4. StopHasCause'
      BY <2>3, <2>f DEF StopHasCause
    <2>5. AbandonedIsBroken' /\ SprtIsConfigured' /\ FailureKnown'
      BY <2>f, <2>w, <2>n DEF Causes, AbandonedIsBroken, SprtIsConfigured, FailureKnown
    <2> QED BY <2>4, <2>5 DEF Causes
  <1>o. ASSUME UNCHANGED <<conf, outcome>>, \A w \in Workers : pc'[w] = pc[w]
        PROVE  AbandonedIsBroken' /\ SprtIsConfigured' /\ \A w \in Workers : Reports(w)' <=> Reports(w)
    BY <1>o DEF Causes, AbandonedIsBroken, SprtIsConfigured, Reports
  <1>2. CASE MainThread
    <2>f. /\ UNCHANGED <<conf, abnormal, outcome, matchCount, handling>> /\ pc[Main] # "done"
          /\ \A w \in Workers : pc'[w] = pc[w]
      BY <1>2, MainFrame DEF results
    <2>1. AbandonedIsBroken' /\ SprtIsConfigured' /\ \A w \in Workers : Reports(w)' <=> Reports(w)
      BY <1>o, <2>f
    <2>2. /\ pc'[Main] = "done" => failure' = abnormal
          /\ stop' => stop \/ (pc[Main] = "manager" /\ pc'[Main] = "report")
          /\ pc[Main] = "report" => pc'[Main] = "done"
      BY <1>2 DEF MainThread, StartNext, CallStartNext, LockGenerator, Generate, Enqueue, Return, Create,
             Autosave, LeaveLoop, TearDown, KillPool, JoinWorkers, FinalSave, StopAtTheEnd, Report,
             Goto, At, Typed, flags
    <2>3. pc[Main] = "manager" => stop \/ matchCount >= Total
      BY DEF Control, LoopLeft, TornPoints
    <2>4. FailureKnown'
      BY <2>2, <2>f DEF FailureKnown
    <2>5. StopHasCause'
      <3>1. CASE stop
        BY <3>1, <2>1, <2>2, <2>f DEF Causes, StopHasCause
      <3>2. CASE ~stop
        BY <3>2, <2>2, <2>3, <2>f DEF StopHasCause
      <3> QED BY <3>1, <3>2
    <2> QED BY <2>1, <2>4, <2>5 DEF Causes
  <1>3. CASE (\E t \in Threads : Signal(t)) \/ SignalReturns
    <2>1. AbandonedIsBroken' /\ SprtIsConfigured'
      BY <1>3, <1>o, SignalFrame
    <2>2. StopHasCause'
      <3>1. CASE \E t \in Threads : Signal(t)
        BY <3>1 DEF Signal, StopHasCause
      <3>2. CASE SignalReturns
        BY <3>2 DEF SignalReturns, StopHasCause
      <3> QED BY <1>3, <3>1, <3>2
    <2>3. FailureKnown'
      <3>1. pc[Main] = "done" => handling = Nobody /\ \A t \in Threads : pc[t] \in {"exit", "done"}
        BY DEF Control, AllJoined, HandlerLives, JoinedPoints, KilledPoints, TornPoints, Typed
      <3>2. pc' = pc /\ failure' = failure
        BY <1>3, SignalFrame DEF mainVars
      <3>3. pc[Main] # "done"
        BY <1>3, <3>1 DEF Signal, SignalReturns
      <3> QED BY <3>2, <3>3 DEF FailureKnown
    <2> QED BY <2>1, <2>2, <2>3 DEF Causes
  <1>4. CASE UNCHANGED vars
    <2>1. UNCHANGED <<conf, stop, abnormal, pc, outcome, matchCount, handling, failure>>
      BY <1>4 DEF vars, flags, results, mainVars
    <2> QED BY <2>1, <1>o DEF Causes, StopHasCause, FailureKnown
  <1> QED BY <1>1, <1>2, <1>3, <1>4 DEF Next

-----------------------------------------------------------------------------
\* The final save holds what was scored.
SavedIsScored == pc[Main] \in {"manager", "report", "done"} => saved = scored

LEMMA StepSaved == ASSUME Typed, Control, SavedIsScored, [Next]_vars PROVE SavedIsScored'
  <1> USE ThreadFacts DEF SavedIsScored
  <1>1. ASSUME NEW w \in Workers, Worker(w) PROVE SavedIsScored'
    BY <1>1, WorkerFrame DEF Control, AllJoined, JoinedPoints, KilledPoints, TornPoints
  <1>2. CASE MainThread
    BY <1>2 DEF MainThread, StartNext, CallStartNext, LockGenerator, Generate, Enqueue, Return, Create,
             Autosave, LeaveLoop, TearDown, KillPool, JoinWorkers, FinalSave, StopAtTheEnd, Report,
             Goto, At, Typed, mainVars, results
  <1>3. CASE (\E t \in Threads : Signal(t)) \/ SignalReturns
    BY <1>3, SignalFrame DEF mainVars, results
  <1>4. CASE UNCHANGED vars
    BY <1>4 DEF vars, mainVars, results
  <1> QED BY <1>1, <1>2, <1>3, <1>4 DEF Next

-----------------------------------------------------------------------------
\* Games queued or being played, which nobody has lost yet: they bound the faults.
Playing == {w \in Workers : pc[w] \in {"begin", "start", "play"}}
Open == {queue[i] : i \in DOMAIN queue} \cup {game[w] : w \in Playing}
FailedAreNotOpen == failed + Cardinality(Open) <= Cardinality(submitted)

\* Open games were queued, so there are finitely many.
LEMMA FiniteOpen ==
  ASSUME Typed, Points, Places
  PROVE  /\ IsFiniteSet(Open) /\ Cardinality(Open) \in Nat
         /\ IsFiniteSet(submitted) /\ Cardinality(submitted) \in Nat
         /\ Open \subseteq submitted
  <1>1. Open \subseteq submitted
    BY ThreadFacts DEF Open, Playing, Places, Accepted, Points, Typed
  <1> QED BY <1>1, FiniteParts, FS_Subset, FS_CardinalityType

\* A game ends once.
LEMMA OutsideOpen ==
  ASSUME Typed, Points, NEW w \in Workers, Worker(w), ~Take(w), ~Enqueue(w)
  PROVE  /\ UNCHANGED <<queue, submitted>>
         /\ pc'[w] \in {"begin", "start", "play"} => game'[w] = game[w] /\ pc[w] \in {"begin", "start", "play"}
         /\ failed' = failed \/ (failed' = failed + 1 /\ pc[w] = "play" /\ pc'[w] \notin {"begin", "start", "play"})
  <1> USE ThreadFacts DEF Typed, At, Goto, flags, pool, results, mainVars, blame, Points
  <1>1. CASE PlayMatch(w)
    BY <1>1 DEF PlayMatch, Begin, Start, EndNormally, EndLate, EndInterrupted, EndBroken,
                EndByMoveError, EndByError, FailToStart, MatchEnds, ReportFailedStart
  <1>2. CASE FinishMatch(w)
    BY <1>2 DEF FinishMatch, Over, Judge, WritePgn, UpdateScore, UpdateSprt, CountGame, ReportAbandoned
  <1>3. CASE LeaveMatch(w)
    BY <1>3 DEF LeaveMatch, Catch, ReportCaught, EndTask, Exit, Pool!Finish
  <1>4. CASE StartNext(w)
    BY <1>4 DEF StartNext, CallStartNext, LockGenerator, Generate, Return
  <1> QED BY <1>1, <1>2, <1>3, <1>4 DEF Worker

\* A game queued is one more that may fail.
LEMMA EnqueueOpen ==
  ASSUME Typed, Points, Numbers, Places, FailedAreNotOpen, NEW t \in Threads, Enqueue(t), game' = game,
         \A w \in Workers : pc'[w] = pc[w] \/ pc'[w] \notin {"begin", "start", "play"}
  PROVE  FailedAreNotOpen'
  <1>1. CASE closed
    <2>1. UNCHANGED <<queue, submitted, failed>>
      BY <1>1 DEF Enqueue, pool, blame
    <2>2. Open' \subseteq Open
      BY <2>1 DEF Open, Playing
    <2>3. Cardinality(Open') <= Cardinality(Open) /\ Cardinality(Open) \in Nat /\ Cardinality(Open') \in Nat /\ Cardinality(submitted) \in Nat
      BY <2>2, FiniteOpen, FS_Subset, FS_CardinalityType
    <2> QED BY <2>1, <2>3 DEF FailedAreNotOpen, Typed
  <1>2. CASE ~closed
    <2>1. /\ generated \notin submitted /\ generated \in Games
          /\ queue' = Append(queue, generated) /\ submitted' = submitted \cup {generated}
          /\ failed' = failed
      BY <1>2 DEF Enqueue, Pool!Submit, At, Numbers, Points, blame
    <2>2. /\ DOMAIN queue = 1..Len(queue) /\ Len(queue) \in Nat
          /\ DOMAIN queue' = 1..(Len(queue) + 1)
          /\ \A i \in DOMAIN queue : queue'[i] = queue[i]
          /\ queue'[Len(queue) + 1] = generated
      BY <2>1, SeqAppend DEF Typed
    <2>3. \A i \in DOMAIN queue' : i \in DOMAIN queue \/ i = Len(queue) + 1
      BY <2>2
    <2>4. Open' \subseteq Open \cup {generated}
      BY <2>2, <2>3 DEF Open, Playing
    <2>5. IsFiniteSet(Open \cup {generated}) /\ Cardinality(Open \cup {generated}) <= Cardinality(Open) + 1
      <3>1. /\ IsFiniteSet(Open \cup {generated})
            /\ Cardinality(Open \cup {generated}) = IF generated \in Open THEN Cardinality(Open) ELSE Cardinality(Open) + 1
        BY FiniteOpen, FS_AddElement
      <3>2. Cardinality(Open) \in Nat
        BY FiniteOpen
      <3> QED BY <3>1, <3>2
    <2>6. Cardinality(Open') <= Cardinality(Open \cup {generated}) /\ Cardinality(Open') \in Nat
      BY <2>4, <2>5, FS_Subset, FS_CardinalityType
    <2>7. Cardinality(Open \cup {generated}) \in Nat
      BY <2>5, FS_CardinalityType
    <2>8. Cardinality(submitted') = Cardinality(submitted) + 1
      BY <2>1, FiniteOpen, FS_AddElement
    <2>9. Cardinality(submitted) \in Nat /\ Cardinality(Open) \in Nat /\ failed \in Nat
      BY FiniteOpen DEF Typed
    <2> QED BY <2>1, <2>5, <2>6, <2>7, <2>8, <2>9 DEF FailedAreNotOpen
  <1> QED BY <1>1, <1>2

\* Each fault uses up an open game.
LEMMA StepOpen == ASSUME Typed, Points, Control, Numbers, Places, FailedAreNotOpen, [Next]_vars PROVE FailedAreNotOpen'
  <1> USE ThreadFacts
  <1>n. /\ IsFiniteSet(Open) /\ Cardinality(Open) \in Nat /\ Cardinality(submitted) \in Nat /\ failed \in Nat
    BY FiniteOpen DEF Typed
  <1>o. ASSUME Open' \subseteq Open, submitted' = submitted, failed' = failed PROVE FailedAreNotOpen'
    <2>1. Cardinality(Open') <= Cardinality(Open) /\ Cardinality(Open') \in Nat
      BY <1>o, <1>n, FS_Subset, FS_CardinalityType
    <2> QED BY <1>o, <1>n, <2>1 DEF FailedAreNotOpen
  <1>1. ASSUME NEW w \in Workers, Worker(w) PROVE FailedAreNotOpen'
    <2>f. \A v \in Workers : v # w => pc'[v] = pc[v] /\ game'[v] = game[v]
      BY <1>1, WorkerFrame
    <2>1. CASE Take(w)
      <3>1. /\ queue # <<>> /\ queue \in Seq(Games) /\ queue' = Tail(queue) /\ game'[w] = Head(queue)
            /\ UNCHANGED <<submitted, failed>> /\ pc[w] = "idle"
        BY <2>1 DEF Take, Pool!Start, Typed, At, blame
      <3>2. 1 \in DOMAIN queue /\ game'[w] = queue[1] /\ \A i \in DOMAIN queue' : i + 1 \in DOMAIN queue /\ queue'[i] = queue[i + 1]
        BY <3>1, SeqTail
      <3>3. Open' \subseteq Open
        BY <2>f, <3>2 DEF Open, Playing
      <3> QED BY <1>o, <3>1, <3>3
    <2>2. CASE Enqueue(w)
      <3>1. game' = game /\ pc'[w] \notin {"begin", "start", "play"}
        BY <2>2 DEF Enqueue, Return, Goto, Typed
      <3> QED BY <2>2, <2>f, <3>1, EnqueueOpen
    <2>3. CASE ~Take(w) /\ ~Enqueue(w)
      <3>1. /\ UNCHANGED <<queue, submitted>>
            /\ pc'[w] \in {"begin", "start", "play"} => game'[w] = game[w] /\ pc[w] \in {"begin", "start", "play"}
            /\ failed' = failed \/ (failed' = failed + 1 /\ pc[w] = "play" /\ pc'[w] \notin {"begin", "start", "play"})
        BY <1>1, <2>3, OutsideOpen
      <3>2. Open' \subseteq Open
        BY <2>f, <3>1 DEF Open, Playing
      <3>3. CASE failed' = failed
        BY <1>o, <3>1, <3>2, <3>3
      <3>4. CASE failed' # failed
        <4>1. failed' = failed + 1 /\ pc[w] = "play" /\ pc'[w] \notin {"begin", "start", "play"}
          BY <3>1, <3>4
        <4>2. game[w] \in Open /\ game[w] # NoGame
          BY <4>1 DEF Open, Playing, Points
        <4>3. game[w] \notin Open'
          <5>1. \A v \in Workers : v # w => game'[v] # game[w]
            BY <2>f, <4>2 DEF Places, OneHolder
          <5>2. \A i \in DOMAIN queue' : queue'[i] # game[w]
            BY <3>1 DEF Places, QueueApart
          <5> QED BY <4>1, <5>1, <5>2 DEF Open, Playing
        <4>4. Open' \subseteq Open \ {game[w]}
          BY <3>2, <4>3
        <4>5. IsFiniteSet(Open \ {game[w]}) /\ Cardinality(Open \ {game[w]}) = Cardinality(Open) - 1
          BY <1>n, <4>2, FS_RemoveElement
        <4>6. Cardinality(Open') <= Cardinality(Open \ {game[w]}) /\ Cardinality(Open') \in Nat
          BY <4>4, <4>5, FS_Subset, FS_CardinalityType
        <4>7. submitted' = submitted
          BY <3>1
        <4> QED BY <1>n, <4>1, <4>5, <4>6, <4>7 DEF FailedAreNotOpen
      <3> QED BY <3>3, <3>4
    <2> QED BY <2>1, <2>2, <2>3
  <1>2. CASE MainThread
    <2>f. game' = game /\ failed' = failed /\ \A w \in Workers : pc'[w] = pc[w]
      BY <1>2, MainFrame DEF blame
    <2>1. CASE Enqueue(Main)
      BY <2>1, <2>f, EnqueueOpen
    <2>2. CASE ~Enqueue(Main)
      <3>1. submitted' = submitted /\ queue' \in {queue, <<>>}
        BY <1>2, <2>2 DEF MainThread, StartNext, CallStartNext, LockGenerator, Generate, Create, Autosave, LeaveLoop, TearDown, KillPool, JoinWorkers,
                          FinalSave, StopAtTheEnd, Report, pool, Pool!Close
      <3>2. Open' \subseteq Open
        BY <2>f, <3>1 DEF Open, Playing
      <3> QED BY <1>o, <2>f, <3>1, <3>2
    <2> QED BY <2>1, <2>2
  <1>3. ASSUME UNCHANGED <<pool, pc, game, blame>> PROVE FailedAreNotOpen'
    <2>1. Open' = Open /\ submitted' = submitted /\ failed' = failed
      BY <1>3 DEF pool, blame, Open, Playing
    <2> QED BY <1>o, <2>1
  <1>4. CASE (\E t \in Threads : Signal(t)) \/ SignalReturns
    BY <1>3, <1>4, SignalFrame
  <1>5. CASE UNCHANGED vars
    BY <1>3, <1>5 DEF vars
  <1> QED BY <1>1, <1>2, <1>4, <1>5 DEF Next

\* There are no more faults than games.
LEMMA FailedBound == ASSUME Typed, Points, Places, FailedAreNotOpen PROVE failed <= Total
  <1>1. Cardinality(Open) \in Nat /\ Cardinality(submitted) \in Nat /\ failed \in Nat
    BY FiniteOpen DEF Typed
  <1>2. IsFiniteSet(Games) /\ Cardinality(Games) = Total
    <2>1. Total \in Nat
      BY TournamentAssumption
    <2>2. IsFiniteSet(Games) /\ Cardinality(Games) = IF 1 > Total THEN 0 ELSE Total - 1 + 1
      BY <2>1, FS_Interval DEF Games
    <2> QED BY <2>1, <2>2
  <1>3. Cardinality(submitted) <= Total
    BY <1>2, FS_Subset DEF Typed
  <1>4. Total \in Nat
    BY TournamentAssumption
  <1> QED BY <1>1, <1>3, <1>4 DEF FailedAreNotOpen

-----------------------------------------------------------------------------
\* Configurations in which nothing can raise stop before the end.
Quiet == conf.recover /\ ~conf.sprt /\ {"signal", "startup", "error"} \cap conf.faults = {}
\* Workers that have yet to report a fault.
Blaming == {w \in Workers : Blamed(w) /\ pc[w] \notin {"idle", "exit"}}

\* The summary against the faults.
TrackedAreFailed == tracker + Cardinality(Blaming) <= failed
QuietIsTracked == Quiet => tracker + Cardinality(Blaming) = failed
\* In a quiet configuration no worker gives up.
QuietGoesOn ==
    Quiet => /\ stop => pc[Main] \in {"report", "done"}
             /\ \A w \in Workers : pc[w] \notin {"startupFailed", "abandoned", "throw", "thrown", "end"}

Blames == TrackedAreFailed /\ QuietIsTracked /\ QuietGoesOn

LEMMA FiniteBlaming == Typed => IsFiniteSet(Blaming) /\ Cardinality(Blaming) \in Nat
  BY TournamentAssumption, FS_Subset, FS_CardinalityType DEF Blaming

\* A fault is committed by a worker that had none.
LEMMA OutsideBlame ==
  ASSUME Typed, Points, Fates, NEW w \in Workers, Worker(w), ~EndTask(w)
  PROVE  /\ tracker' = tracker
         /\ \/ failed' = failed /\ (w \in Blaming' <=> w \in Blaming)
            \/ failed' = failed + 1 /\ w \in Blaming' /\ w \notin Blaming
  <1> USE ThreadFacts DEF Typed, At, Goto, flags, pool, results, mainVars, blame, Blaming, Blamed, Fates, FreshOutcome
  <1>1. CASE PlayMatch(w)
    <2> USE <1>1 DEF PlayMatch, Take, Begin, Start, EndNormally, EndLate, EndInterrupted, EndBroken,
                EndByMoveError, EndByError, FailToStart, MatchEnds, ReportFailedStart
    <2>1. tracker' = tracker
      OBVIOUS
    <2>2. failed' \in {failed, failed + 1}
      OBVIOUS
    <2>3. CASE pc[w] = "play"
      <3>1. failed' = failed => (w \in Blaming' <=> w \in Blaming)
        BY <2>3
      <3>2. failed' = failed + 1 => w \in Blaming' /\ w \notin Blaming
        BY <2>3
      <3> QED BY <2>1, <2>2, <3>1, <3>2
    <2>4. CASE pc[w] # "play"
      <3>1. failed' = failed
        BY <2>4
      <3>2. w \in Blaming' <=> w \in Blaming
        BY <2>4
      <3> QED BY <2>1, <3>1, <3>2
    <2> QED BY <2>3, <2>4
  <1>2. CASE FinishMatch(w)
    BY <1>2 DEF FinishMatch, Over, Judge, WritePgn, UpdateScore, UpdateSprt, CountGame, ReportAbandoned
  <1>3. CASE LeaveMatch(w)
    BY <1>3 DEF LeaveMatch, Catch, ReportCaught, Exit
  <1>4. CASE StartNext(w)
    BY <1>4 DEF StartNext, CallStartNext, LockGenerator, Generate, Enqueue, Return
  <1> QED BY <1>1, <1>2, <1>3, <1>4 DEF Worker

\* In a quiet configuration a worker neither stops the tournament nor finds the pool closed:
\* a closed pool means that all games are scored, and the one in its hands is not.
LEMMA WorkerQuiet ==
  ASSUME Typed, Points, Control, Numbers, Places, Counted, Causes, QuietGoesOn, Quiet, NEW w \in Workers, Worker(w)
  PROVE  /\ stop' = stop
         /\ pc'[w] \notin {"startupFailed", "abandoned", "throw", "thrown", "end"}
  <1> USE ThreadFacts DEF Typed, At, Goto
  <1>q. conf.recover /\ ~conf.sprt /\ "startup" \notin conf.faults /\ "error" \notin conf.faults
    BY DEF Quiet
  <1>s. ~stop /\ pc[w] \notin {"startupFailed", "abandoned", "throw", "thrown", "end", "sprt"}
    <2>1. pc[w] # "exit"
      BY WorkerFrame
    <2>2. pc[Main] \notin {"report", "done"}
      BY <2>1 DEF Control, AllJoined, JoinedPoints, KilledPoints, TornPoints
    <2> QED BY <1>q, <2>2 DEF QuietGoesOn, Causes, SprtIsConfigured
  <1>1. CASE PlayMatch(w)
    BY <1>1, <1>q, <1>s DEF PlayMatch, Take, Begin, Start, EndNormally, EndLate, EndInterrupted, EndBroken,
                EndByMoveError, EndByError, FailToStart, MatchEnds, ReportFailedStart, flags
  <1>2. CASE FinishMatch(w)
    BY <1>2, <1>q, <1>s DEF FinishMatch, Over, Judge, WritePgn, UpdateScore, UpdateSprt, CountGame, ReportAbandoned, flags
  <1>3. CASE LeaveMatch(w)
    BY <1>3, <1>s DEF LeaveMatch, Catch, ReportCaught, EndTask, Exit, flags
  <1>4. CASE StartNext(w)
    <2>1. stop' = stop
      BY <1>4 DEF StartNext, CallStartNext, LockGenerator, Generate, Enqueue, flags
    <2>2. Enqueue(w) => ~closed
      <3>1. SUFFICES ASSUME Enqueue(w), closed PROVE FALSE
        OBVIOUS
      <3>2. matchCount >= Total
        BY <3>1, <1>s DEF Control, ClosedKnown, LoopLeft, KilledPoints
      <3>3. scored = (conf.initial + 1)..Total
        BY <3>2, ScoredBound
      <3>4. generated \notin submitted /\ conf.initial < generated /\ generated \in Nat /\ generated <= Total
        BY <3>1, TournamentAssumption DEF Enqueue, Numbers
      <3>5. generated \in scored
        BY <3>3, <3>4, ConfFacts, TournamentAssumption
      <3> QED BY <3>4, <3>5 DEF Places, Accepted
    <2>3. pc'[w] \notin {"startupFailed", "abandoned", "throw", "thrown", "end"}
      BY <1>4, <2>2 DEF StartNext, CallStartNext, LockGenerator, Generate, Enqueue, Return
    <2> QED BY <2>1, <2>3
  <1> QED BY <1>1, <1>2, <1>3, <1>4 DEF Worker

\* No fault is reported twice, and none is dropped in a quiet configuration.
LEMMA StepBlames ==
  ASSUME Typed, Points, Control, Numbers, Places, Fates, Counted, Causes, Blames, [Next]_vars
  PROVE  Blames'
  <1> USE ThreadFacts
  <1>n. IsFiniteSet(Blaming) /\ Cardinality(Blaming) \in Nat /\ tracker \in Nat /\ failed \in Nat
    BY FiniteBlaming DEF Typed
  <1>1. ASSUME NEW w \in Workers, Worker(w) PROVE Blames'
    <2>f. /\ conf' = conf /\ pc[w] # "exit"
          /\ \A t \in Threads : t # w => pc'[t] = pc[t]
          /\ \A v \in Workers : v # w => outcome'[v] = outcome[v]
      BY <1>1, WorkerFrame
    <2>v. \A v \in Workers : v # w => (v \in Blaming' <=> v \in Blaming)
      BY <2>f DEF Blaming, Blamed
    <2>1. QuietGoesOn'
      <3>1. Quiet' <=> Quiet
        BY <2>f DEF Quiet
      <3>2. Quiet => stop' = stop /\ pc'[w] \notin {"startupFailed", "abandoned", "throw", "thrown", "end"}
        BY <1>1, WorkerQuiet DEF Blames
      <3> QED BY <2>f, <3>1, <3>2 DEF Blames, QuietGoesOn
    <2>2. CASE ~EndTask(w)
      <3>1. /\ tracker' = tracker
            /\ \/ failed' = failed /\ (w \in Blaming' <=> w \in Blaming)
               \/ failed' = failed + 1 /\ w \in Blaming' /\ w \notin Blaming
        BY <1>1, <2>2, OutsideBlame
      <3>2. CASE failed' = failed /\ (w \in Blaming' <=> w \in Blaming)
        <4>1. Blaming' = Blaming
          BY <2>v, <3>2 DEF Blaming
        <4> QED BY <2>1, <2>f, <3>1, <3>2, <4>1 DEF Blames, TrackedAreFailed, QuietIsTracked, Quiet
      <3>3. CASE failed' = failed + 1 /\ w \in Blaming' /\ w \notin Blaming
        <4>1. Blaming' = Blaming \cup {w}
          BY <2>v, <3>3 DEF Blaming
        <4>2. Cardinality(Blaming') = Cardinality(Blaming) + 1
          BY <1>n, <3>3, <4>1, FS_AddElement
        <4>3. TrackedAreFailed'
          BY <1>n, <3>1, <3>3, <4>2 DEF Blames, TrackedAreFailed
        <4>4. tracker + Cardinality(Blaming) = failed => tracker' + Cardinality(Blaming') = failed'
          BY <1>n, <3>1, <3>3, <4>2
        <4>5. QuietIsTracked'
          BY <2>f, <4>4 DEF Blames, QuietIsTracked, Quiet
        <4> QED BY <2>1, <4>3, <4>5 DEF Blames
      <3> QED BY <3>1, <3>2, <3>3
    <2>3. CASE EndTask(w)
      <3>1. /\ pc[w] \in {"tail", "end"} /\ pc'[w] = "idle" /\ failed' = failed
            /\ tracker' = IF pc[w] = "tail" /\ Blamed(w) THEN tracker + 1 ELSE tracker
        BY <1>n, <2>3, <2>f DEF EndTask, At, Goto, Typed, Tracked
      <3>2. Blaming' = Blaming \ {w} /\ (w \in Blaming <=> Blamed(w))
        BY <2>v, <3>1 DEF Blaming
      <3>3. Cardinality(Blaming') = IF Blamed(w) THEN Cardinality(Blaming) - 1 ELSE Cardinality(Blaming)
        BY <1>n, <3>2, FS_RemoveElement
      <3>4. Cardinality(Blaming') \in Nat
        BY <1>n, <3>2, FS_RemoveElement, FS_CardinalityType
      <3>5. tracker' + Cardinality(Blaming') <= tracker + Cardinality(Blaming)
        <4>1. CASE Blamed(w)
          BY <1>n, <3>1, <3>3, <4>1
        <4>2. CASE ~Blamed(w)
          BY <1>n, <3>1, <3>3, <4>2
        <4> QED BY <4>1, <4>2
      <3>6. pc[w] = "tail" => tracker' + Cardinality(Blaming') = tracker + Cardinality(Blaming)
        <4>1. CASE Blamed(w)
          BY <1>n, <3>1, <3>3, <4>1
        <4>2. CASE ~Blamed(w)
          BY <1>n, <3>1, <3>3, <4>2
        <4> QED BY <4>1, <4>2
      <3>7. Quiet => pc[w] = "tail"
        BY <3>1 DEF Blames, QuietGoesOn
      <3>8. tracker' \in Nat
        BY <1>n, <3>1
      <3>9. TrackedAreFailed'
        BY <1>n, <3>1, <3>4, <3>5, <3>8 DEF Blames, TrackedAreFailed
      <3>10. QuietIsTracked'
        BY <2>f, <3>1, <3>6, <3>7 DEF Blames, QuietIsTracked, Quiet
      <3> QED BY <2>1, <3>9, <3>10 DEF Blames
    <2> QED BY <2>2, <2>3
  <1>o. ASSUME UNCHANGED <<conf, outcome, tracker, failed>>, \A w \in Workers : pc'[w] = pc[w]
        PROVE  TrackedAreFailed' /\ QuietIsTracked' /\ (Quiet' <=> Quiet)
    <2>1. Blaming' = Blaming
      BY <1>o DEF Blaming, Blamed
    <2> QED BY <1>o, <2>1 DEF Blames, TrackedAreFailed, QuietIsTracked, Quiet
  <1>2. CASE MainThread
    <2>f. UNCHANGED <<conf, outcome, tracker, failed>> /\ \A w \in Workers : pc'[w] = pc[w]
      BY <1>2, MainFrame DEF blame
    <2>1. /\ stop' => stop \/ pc'[Main] = "report"
          /\ pc[Main] \in {"report", "done"} => pc'[Main] = "done"
      BY <1>2 DEF MainThread, StartNext, CallStartNext, LockGenerator, Generate, Enqueue, Return, Create,
             Autosave, LeaveLoop, TearDown, KillPool, JoinWorkers, FinalSave, StopAtTheEnd, Report,
             Goto, At, Typed, flags
    <2>2. QuietGoesOn'
      BY <1>o, <2>f, <2>1 DEF Blames, QuietGoesOn
    <2> QED BY <1>o, <2>f, <2>2 DEF Blames
  <1>3. CASE (\E t \in Threads : Signal(t)) \/ SignalReturns
    <2>1. UNCHANGED <<conf, outcome, tracker, failed, pc>>
      BY <1>3, SignalFrame DEF blame
    <2>2. Quiet => stop' = stop
      BY <1>3 DEF Signal, SignalReturns, Quiet
    <2>3. QuietGoesOn'
      BY <1>o, <2>1, <2>2 DEF Blames, QuietGoesOn
    <2> QED BY <1>o, <2>1, <2>3 DEF Blames
  <1>4. CASE UNCHANGED vars
    <2>1. UNCHANGED <<conf, outcome, tracker, failed, pc, stop>>
      BY <1>4 DEF vars, flags, blame
    <2> QED BY <1>o, <2>1 DEF Blames, QuietGoesOn
  <1> QED BY <1>1, <1>2, <1>3, <1>4 DEF Next

-----------------------------------------------------------------------------
\* The inductive invariant.
IInv == /\ Typed /\ Points /\ Control /\ Numbers /\ Places /\ Fates /\ Writing /\ Counted
        /\ GameIsSomewhere /\ Causes /\ SavedIsScored /\ FailedAreNotOpen /\ Blames

LEMMA InitIInv == Init => IInv
  <1> SUFFICES ASSUME Init PROVE IInv
    OBVIOUS
  <1> USE ThreadFacts, TournamentAssumption DEF Init
  <1>c. conf \in Config
    OBVIOUS
  <1>i. conf.initial \in 0..Total /\ conf.interval \in Nat
    BY <1>c DEF Config
  <1>q. queue = <<>> /\ running = {} /\ submitted = {} /\ closed = FALSE /\ DOMAIN queue = {}
    BY DEF Pool!Init
  <1>p. pc[Main] = "create" /\ \A w \in Workers : pc[w] = "idle" /\ game[w] = NoGame /\ outcome[w] = "none"
    OBVIOUS
  <1>1. Typed
    <2>1. pc \in [Threads -> WorkerLabels \cup StartNextLabels \cup MainLabels]
      BY DEF WorkerLabels, MainLabels
    <2>2. game \in [Threads -> Games \cup {NoGame}] /\ outcome \in [Workers -> Outcomes]
      BY DEF Outcomes
    <2>3. generated \in 0..Total /\ matchCount \in Nat /\ saveIter \in Nat
      BY <1>i
    <2>4. queue \in Seq(Games) /\ running \subseteq Games /\ submitted \subseteq Games /\ closed \in BOOLEAN
      <3>1. <<>> \in Seq(Games)
        OBVIOUS
      <3> QED BY <1>q, <3>1
    <2>5. calls \in Nat /\ failed \in Nat /\ tracker \in Nat
      OBVIOUS
    <2>6. /\ conf \in Configs /\ handling \in Threads \cup {Nobody}
          /\ stop \in BOOLEAN /\ abnormal \in BOOLEAN /\ torn \in BOOLEAN /\ aborted \in BOOLEAN /\ failure \in BOOLEAN
          /\ written \subseteq Games /\ scored \subseteq Games /\ saved \subseteq Games
      OBVIOUS
    <2> QED BY <2>1, <2>2, <2>3, <2>4, <2>5, <2>6 DEF Typed
  <1>2. Points
    BY <1>p, <1>q DEF Points, WorkerLabels, MainLabels
  <1>3. Control
    BY <1>p, <1>q DEF Control, GenMutex, OutputMutex, Counting, CallsBounded, TornKnown, ClosedKnown, AllJoined,
                      HandlerLives, LoopLeft, TornPoints, KilledPoints, JoinedPoints, StartNextLabels
  <1>4. Numbers
    BY <1>i, <1>p, <1>q DEF Numbers
  <1>5. Places
    BY <1>p, <1>q DEF Places, OneHolder, QueueDistinct, QueueApart, Accepted, QueueUnplayed, HeldAsTold, Counting, Unplayed
  <1>6. Fates
    BY <1>p DEF Fates, StopOfBroken, StopOfInterrupt, OverIsBroken, FreshOutcome, Kept, Ended
  <1>7. Writing
    <2>1. Unwritten = {}
      BY <1>p DEF Unwritten
    <2> QED BY <1>p, <2>1 DEF Writing, WrittenFirst, UnwrittenIsBroken, OneUnwritten, UnwrittenStops
  <1>8. Counted
    <2>1. Counting = {}
      BY <1>p DEF Counting
    <2> QED BY <1>i, <2>1, FS_EmptySet DEF Counted
  <1>9. GameIsSomewhere
    <2>1. (conf.initial + 1)..generated = {}
      BY <1>i
    <2> QED BY <2>1 DEF GameIsSomewhere
  <1>10. Causes
    BY <1>p DEF Causes, StopHasCause, AbandonedIsBroken, SprtIsConfigured, FailureKnown
  <1>11. SavedIsScored
    BY <1>p DEF SavedIsScored
  <1>12. FailedAreNotOpen
    <2>1. Open = {}
      BY <1>p, <1>q DEF Open, Playing
    <2> QED BY <1>q, <2>1, FS_EmptySet DEF FailedAreNotOpen
  <1>13. Blames
    <2>1. Blaming = {}
      BY <1>p DEF Blaming
    <2> QED BY <1>p, <2>1, FS_EmptySet DEF Blames, TrackedAreFailed, QuietIsTracked, QuietGoesOn
  <1> QED BY <1>1, <1>2, <1>3, <1>4, <1>5, <1>6, <1>7, <1>8, <1>9, <1>10, <1>11, <1>12, <1>13 DEF IInv

LEMMA StepIInv == IInv /\ [Next]_vars => IInv'
  BY StepTyped, StepPoints, StepControl, StepNumbers, StepPlaces, StepFates, StepWriting, StepCounted,
     StepSomewhere, StepCauses, StepSaved, StepOpen, StepBlames DEF IInv

\* It always holds.
LEMMA AlwaysIInv == Spec => []IInv
  BY InitIInv, StepIInv, PTL DEF Spec

\* The fields have the types of their declarations; the counters stay within the number
\* of games and of calls, and no more faults are reported than were committed.
THEOREM TypeCorrect == Spec => []TypeOK
  <1>1. IInv => TypeOK
    <2> SUFFICES ASSUME IInv PROVE TypeOK
      OBVIOUS
    <2>1. Typed
      BY DEF IInv
    <2>2. matchCount \in 0..Total
      <3>1. matchCount <= Total /\ matchCount \in Nat
        BY ScoredBound DEF IInv, Typed
      <3> QED BY <3>1, TournamentAssumption
    <2>3. calls \in 0..Prefetch
      <3>1. calls <= Prefetch /\ calls \in Nat
        BY DEF IInv, Control, CallsBounded, Typed
      <3> QED BY <3>1, TournamentAssumption
    <2>4. failed \in 0..Total
      <3>1. failed <= Total /\ failed \in Nat
        BY FailedBound DEF IInv, Typed
      <3> QED BY <3>1, TournamentAssumption
    <2>5. tracker \in 0..failed
      <3>1. tracker + Cardinality(Blaming) <= failed /\ Cardinality(Blaming) \in Nat
        BY <2>1, FiniteBlaming DEF IInv, Blames, TrackedAreFailed
      <3>2. tracker \in Nat /\ failed \in Nat
        BY <2>1 DEF Typed
      <3> QED BY <3>1, <3>2
    <2> QED BY <2>1, <2>2, <2>3, <2>4, <2>5 DEF Typed, TypeOK
  <1> QED BY <1>1, AlwaysIInv, PTL

\* match_count_ is the number of scored games, up to the one that the holder of
\* output_mutex_ counts next, and the PGN file has the games of the scoreboard.
THEOREM ScoreIsCounted == Spec => []CountIsScored
  <1>1. IInv => CountIsScored
    BY WritingImplies DEF IInv, Counted, Counting, CountIsScored
  <1> QED BY <1>1, AlwaysIInv, PTL

\* Until something stops the tournament, every game the generator handed out is queued, in
\* the hands of one thread or scored; and it is never in two places.
THEOREM NoGameIsLost == Spec => []GameIsInOnePlace
  <1>1. IInv => GameIsInOnePlace
    BY DEF IInv, Places, OneHolder, QueueApart, QueueUnplayed, GameIsInOnePlace
  <1> QED BY <1>1, AlwaysIInv, PTL

\* When the program ends, the saved state holds every scored game, no worker is left, and
\* the summary names every fault.
THEOREM NothingIsForgotten == Spec => []FinalSaveIsComplete
  <1>1. IInv => FinalSaveIsComplete
    <2> SUFFICES ASSUME IInv, pc[Main] \in {"manager", "report", "done"}
                 PROVE  saved = scored /\ (\A w \in Workers : pc[w] = "exit") /\ SummaryIsComplete
      BY DEF FinalSaveIsComplete
    <2>1. saved = scored
      BY DEF IInv, SavedIsScored
    <2>2. \A w \in Workers : pc[w] = "exit"
      BY DEF IInv, Control, AllJoined, JoinedPoints, KilledPoints, TornPoints
    <2>3. SummaryIsComplete
      <3>1. Cardinality(Blaming) = 0
        BY <2>2, FS_EmptySet DEF Blaming
      <3>2. Quiet => tracker + Cardinality(Blaming) = failed
        BY DEF IInv, Blames, QuietIsTracked
      <3>3. tracker \in Nat
        BY DEF IInv, Typed
      <3>4. Quiet => tracker = failed
        BY <3>1, <3>2, <3>3
      <3> QED BY <3>4 DEF SummaryIsComplete, Quiet
    <2> QED BY <2>1, <2>2, <2>3
  <1> QED BY <1>1, AlwaysIInv, PTL

\* A tournament that ends before its last game, other than by the SPRT, exits with an error.
THEOREM EndingEarlyIsReported == Spec => []IncompleteIsFailure
  <1>1. IInv => IncompleteIsFailure
    <2> SUFFICES ASSUME IInv, pc[Main] = "done", ~conf.sprt, matchCount < Total PROVE failure
      BY DEF IncompleteIsFailure
    <2>0. ~(matchCount >= Total)
      BY TournamentAssumption DEF IInv, Typed
    <2>1. stop /\ \A w \in Workers : pc[w] = "exit"
      BY <2>0 DEF IInv, Control, LoopLeft, AllJoined, JoinedPoints, KilledPoints, TornPoints
    <2>2. handling = Nobody
      BY <2>1, ThreadFacts DEF IInv, Control, HandlerLives, Typed
    <2>3. \A w \in Workers : ~Reports(w)
      BY <2>1 DEF Reports
    <2>4. abnormal
      BY <2>0, <2>1, <2>2, <2>3 DEF IInv, Causes, StopHasCause
    <2> QED BY <2>4 DEF IInv, Causes, FailureKnown
  <1> QED BY <1>1, AlwaysIInv, PTL
=============================================================================
