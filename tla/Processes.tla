----------------------------- MODULE Processes -----------------------------
(***************************************************************************)
(* The processes of all engines, with what fastchess and they share of the *)
(* operating system: the ends of their pipes, the events that wake their   *)
(* readers, the list the main thread works from, and what waitpid and kill *)
(* do. Workers create, start, use, replace and leave engines at the same   *)
(* time; the main thread stops them and takes the engines down.            *)
(*                                                                         *)
(* An engine is an object of class Process, used once. What is said        *)
(* through the pipes is the subject of UciSession. Each worker has a cache *)
(* of its own, as with -use-affinity, so objects are made without a lock   *)
(* between the workers; EngineCache has the shared one.                    *)
(***************************************************************************)
EXTENDS Naturals, FiniteSets, Sequences, SequencesExt, FiniteSetsExt

CONSTANTS
    Workers,        \* threads of the pool, concurrency of them
    Main,           \* the main thread
    Engines,        \* bound: the objects that may be created
    GameSize,       \* engines in a game
    MaxStarting,    \* the semaphore's 16
    Logs,           \* Logger::should_log_
    Recover,        \* -recover
    NoEngine

Threads == Workers \cup {Main}

ASSUME ProcessesAssumption ==
    /\ Main \notin Workers /\ NoEngine \notin Engines
    /\ GameSize \in Nat \ {0} /\ MaxStarting \in Nat \ {0}
    /\ {Logs, Recover} \subseteq BOOLEAN

VARIABLES
    stop,       \* atomic::stop
    torn,       \* writeToOpenPipes has run
    pc,         \* where each thread is
    seats,      \* the engines each worker has in its cache
    ends,       \* the ends of the pipes of an engine that the parent has open
    open,       \* pipes that are not yet closed on exec
    event,      \* interrupt_: "closed", "clear" or "set"
    list,       \* process_list, by engine
    life,       \* external: "none", "running", "zombie" or "reaped"
    held,       \* external: ends of pipes, by engine, that a process holds
    waited,     \* exit_code_ is known
    strangers   \* history: pipes inherited by the process of another engine

parent == <<ends, open, event, list, waited>>
children == <<life, held, strangers>>
vars == <<stop, torn, pc, seats, parent, children>>

Pipes == <<"in", "out", "err">>
Both(pipe) == {<<pipe, "r">>, <<pipe, "w">>}
ErrPipes == IF Logs THEN {"err"} ELSE {}

\* What the process of an engine is given, and what the parent then closes.
Given == {<<"in", "w">>, <<"out", "r">>} \cup {<<p, "w">> : p \in ErrPipes}

At(place, engine) == [at |-> place, engine |-> engine, pipes |-> <<>>, attempt |-> 0]
Idle == At("idle", NoEngine)
Go(t, place) == pc' = [pc EXCEPT ![t] = place]
Fresh(e) ==
    /\ e \notin UNION {ToSet(seats[w]) : w \in Workers}
    /\ \A t \in Threads : pc[t].engine # e
    /\ life[e] = "none" /\ ends[e] = {} /\ ~waited[e]

Init ==
    /\ stop = FALSE /\ torn = FALSE
    /\ pc = [t \in Threads |-> Idle]
    /\ seats = [w \in Workers |-> <<>>]
    /\ ends = [e \in Engines |-> {}] /\ open = {}
    /\ event = [e \in Engines |-> "closed"]
    /\ list = {}
    /\ life = [e \in Engines |-> "none"] /\ held = [e \in Engines |-> {}]
    /\ waited = [e \in Engines |-> FALSE]
    /\ strangers = {}

-----------------------------------------------------------------------------
(* Pipes. A pipe is created in two steps, and a process that is spawned    *)
(* between them has both its ends.                                         *)

\* Pipe::Pipe and Pipe::operator=, which closes the old pipe first. (The temporary that
\* "= {}" assigns from is a pipe too; nobody reads or writes it.)
CreatePipe(t) ==
    LET e == pc[t].engine
        pipe == Head(pc[t].pipes)
    IN /\ pc[t].pipes # <<>> /\ <<e, pipe>> \notin open
       /\ ends' = [ends EXCEPT ![e] = @ \cup Both(pipe)]
       /\ held' = [f \in Engines |-> held[f] \ {<<e, p>> : p \in Both(pipe)}]
       /\ strangers' = strangers \ {<<e, pipe>>}
       /\ open' = open \cup {<<e, pipe>>}
       /\ UNCHANGED <<stop, torn, pc, seats, event, list, waited, life>>

CloseOnExec(t) ==
    /\ pc[t].pipes # <<>> /\ <<pc[t].engine, Head(pc[t].pipes)>> \in open
    /\ open' = open \ {<<pc[t].engine, Head(pc[t].pipes)>>}
    /\ Go(t, [pc[t] EXCEPT !.pipes = Tail(@)])
    /\ UNCHANGED <<stop, torn, seats, ends, event, list, waited, children>>

Reaches(t, place) == pc[t].at = place /\ pc[t].pipes = <<>>

\* getEntry: a new object, whose pipes are created with it.
Construct(w) ==
    /\ Reaches(w, "idle") /\ ~stop /\ Len(seats[w]) < GameSize
    /\ \E e \in Engines : Fresh(e) /\ Go(w, [At("built", e) EXCEPT !.pipes = Pipes])
    /\ UNCHANGED <<stop, torn, seats, parent, children>>

TakeSeat(w) ==
    /\ Reaches(w, "built")
    /\ seats' = [seats EXCEPT ![w] = Append(@, pc[w].engine)]
    /\ Go(w, Idle)
    /\ UNCHANGED <<stop, torn, parent, children>>

-----------------------------------------------------------------------------
(* UciEngine::start and Process::init.                                     *)

Started(e) == life[e] # "none"
Seated(w) == Len(seats[w]) = GameSize
Starting == {t \in Workers : pc[t].at \in {"spawn", "attach", "uciok"}}

\* The pipes are created anew for each attempt; without a log the third one goes.
Attempt(e, n) == [At("spawn", e) EXCEPT !.pipes = <<"out", "in">> \o SetToSeq(ErrPipes), !.attempt = n]
DropErr(e) == ends' = [ends EXCEPT ![e] = @ \ (IF Logs THEN {} ELSE Both("err"))]

Unstarted(w) == SelectInSeq(seats[w], LAMBDA e : ~Started(e))

BeginGame(w) ==
    /\ Reaches(w, "idle") /\ ~stop /\ Seated(w) /\ Unstarted(w) # 0
    /\ Go(w, At("acquire", seats[w][Unstarted(w)]))
    /\ UNCHANGED <<stop, torn, seats, parent, children>>

\* The semaphore is held until start returns.
Acquire(w) ==
    /\ Reaches(w, "acquire")
    /\ Cardinality(Starting) < MaxStarting
    /\ Go(w, Attempt(pc[w].engine, 1))
    /\ DropErr(pc[w].engine)
    /\ UNCHANGED <<stop, torn, seats, open, event, list, waited, children>>

\* posix_spawn: the new process has its three ends and whatever is not closed on exec.
Inherited(e) == {<<f, p>> : f \in Engines \ {e}, p \in {"in", "out", "err"}} \cap open
Spawn(w) ==
    LET e == pc[w].engine IN
    /\ Reaches(w, "spawn")
    /\ life' = [life EXCEPT ![e] = "running"]
    /\ held' = [held EXCEPT ![e] = {<<e, p>> : p \in Given}
                                      \cup UNION {{<<x[1], p>> : p \in Both(x[2])} : x \in Inherited(e)}]
    /\ strangers' = strangers \cup Inherited(e)
    /\ Go(w, At("attach", e))
    /\ UNCHANGED <<stop, torn, seats, parent>>

\* posix_spawnp, then posix_spawn; then the start has failed, the tournament stops and the
\* worker leaves with it.
SpawnFails(w) ==
    /\ Reaches(w, "spawn")
    /\ IF pc[w].attempt = 1 THEN Go(w, Attempt(pc[w].engine, 2)) /\ UNCHANGED stop
                            ELSE Go(w, At("done", NoEngine)) /\ stop' = TRUE
    /\ UNCHANGED <<torn, seats, parent, children>>

AttachKeepingEnds(w) ==
    LET e == pc[w].engine IN
    /\ Reaches(w, "attach")
    /\ event' = [event EXCEPT ![e] = "clear"]
    /\ list' = list \cup {e}
    /\ Go(w, At("uciok", e))
    /\ UNCHANGED <<stop, torn, seats, ends, open, waited, children>>
\* The rest of init: the event, the entry in the list, the ends that belong to the child.
Attach(w) ==
    LET e == pc[w].engine IN
    /\ Reaches(w, "attach")
    /\ event' = [event EXCEPT ![e] = "clear"]
    /\ list' = list \cup {e}
    /\ ends' = [ends EXCEPT ![e] = @ \ Given]
    /\ Go(w, At("uciok", e))
    /\ UNCHANGED <<stop, torn, seats, open, waited, children>>

\* uciok comes, and the other engine of the game is started without a look at stop; or a
\* hang-up, the timeout or an interrupt ends the wait.
Greeted(w) ==
    /\ Reaches(w, "uciok") /\ life[pc[w].engine] = "running"
    /\ Go(w, IF Unstarted(w) = 0 THEN Idle ELSE At("acquire", seats[w][Unstarted(w)]))
    /\ UNCHANGED <<stop, torn, seats, parent, children>>

NotGreeted(w) ==
    LET e == pc[w].engine IN
    /\ Reaches(w, "uciok")
    /\ Go(w, At("done", NoEngine))
    /\ stop' = TRUE
    /\ event' = [event EXCEPT ![e] = IF @ = "set" THEN "clear" ELSE @]
    /\ UNCHANGED <<torn, seats, ends, open, list, waited, children>>

-----------------------------------------------------------------------------
(* A game.                                                                 *)

\* alive: waitpid without waiting.
Reap(e) ==
    /\ life' = [life EXCEPT ![e] = IF @ = "zombie" THEN "reaped" ELSE @]
    /\ waited' = [waited EXCEPT ![e] = @ \/ life[e] \in {"zombie", "reaped"}]

TurnAnyway(w) ==
    /\ Reaches(w, "idle")
    /\ Seated(w) /\ Unstarted(w) = 0
    /\ \E i \in 1..GameSize :
          LET e == seats[w][i] IN
          /\ Reap(e)
          /\ Go(w, At(IF life[e] = "running" THEN "search" ELSE "broken", e))
    /\ UNCHANGED <<stop, torn, seats, ends, open, event, list, held, strangers>>
\* gameLoop looks at stop; writeEngine asks whether the engine is alive.
Turn(w) ==
    /\ Reaches(w, "idle") /\ ~stop
    /\ Seated(w) /\ Unstarted(w) = 0
    /\ \E i \in 1..GameSize :
          LET e == seats[w][i] IN
          /\ Reap(e)
          /\ Go(w, At(IF life[e] = "running" THEN "search" ELSE "broken", e))
    /\ UNCHANGED <<stop, torn, seats, ends, open, event, list, held, strangers>>

Answers(w) ==
    /\ Reaches(w, "search") /\ life[pc[w].engine] = "running"
    /\ Go(w, Idle)
    /\ UNCHANGED <<stop, torn, seats, parent, children>>

Interrupted(w) ==
    LET e == pc[w].engine IN
    /\ Reaches(w, "search") /\ event[e] = "set"
    /\ event' = [event EXCEPT ![e] = "clear"]
    /\ Go(w, Idle)
    /\ UNCHANGED <<stop, torn, seats, ends, open, list, waited, children>>

\* poll reports a hang-up when nobody has the other end of the pipe.
HungUp(e) == <<"in", "w">> \notin ends[e] /\ \A f \in Engines : <<e, <<"in", "w">> >> \notin held[f]
Disconnected(w) ==
    /\ Reaches(w, "search") /\ event[pc[w].engine] # "set" /\ HungUp(pc[w].engine)
    /\ Go(w, At("broken", pc[w].engine))
    /\ UNCHANGED <<stop, torn, seats, parent, children>>

\* isready of the broken engine, and restartEngine: the new object exists before the old one
\* goes. Without -recover, and here when no further object may be created, the tournament
\* stops.
CanReplace == Recover /\ \E f \in Engines : Fresh(f)
Restart(w) ==
    LET e == pc[w].engine IN
    /\ Reaches(w, "broken")
    /\ Reap(e)
    /\ IF CanReplace
       THEN /\ \E f \in Engines : Fresh(f) /\ Go(w, [At("replace", f) EXCEPT !.pipes = Pipes])
            /\ UNCHANGED stop
       ELSE stop' = TRUE /\ Go(w, Idle)
    /\ UNCHANGED <<torn, seats, ends, open, event, list, held, strangers>>

Replace(w) ==
    LET dead == SelectInSeq(seats[w], LAMBDA e : waited[e]) IN
    /\ Reaches(w, "replace")
    /\ seats' = [seats EXCEPT ![w][dead] = pc[w].engine]
    /\ Go(w, At("quit", seats[w][dead]))
    /\ UNCHANGED <<stop, torn, parent, children>>

Leave(w) ==
    /\ Reaches(w, "idle") /\ stop
    /\ Go(w, At("done", NoEngine))
    /\ UNCHANGED <<stop, torn, seats, parent, children>>

-----------------------------------------------------------------------------
(* ~UciEngine, ~Process and the destructors of its members.                *)

\* quit writes twice, and asks each time whether the process is alive.
Quit(t) ==
    LET e == pc[t].engine IN
    /\ pc[t].at = "quit"
    /\ IF Started(e) THEN Reap(e) /\ Go(t, At("unlist", e))
                     ELSE Go(t, At("close", e)) /\ UNCHANGED <<life, waited>>
    /\ UNCHANGED <<stop, torn, seats, ends, open, event, list, held, strangers>>

UnlistUnlessReaped(t) ==
    LET e == pc[t].engine IN
    /\ pc[t].at = "unlist"
    /\ list' = IF waited[e] THEN list ELSE list \ {e}
    /\ Go(t, At("wait", e))
    /\ UNCHANGED <<stop, torn, seats, ends, open, event, waited, children>>
\* Process::terminate
Unlist(t) ==
    LET e == pc[t].engine IN
    /\ pc[t].at = "unlist"
    /\ list' = list \ {e}
    /\ Go(t, At("wait", e))
    /\ UNCHANGED <<stop, torn, seats, ends, open, event, waited, children>>

WaitForNone(t) ==
    LET e == pc[t].engine IN
    /\ pc[t].at = "wait"
    /\ IF waited[e] \/ life[e] # "zombie" THEN UNCHANGED <<life, waited>> ELSE Reap(e)
    /\ held' = [held EXCEPT ![e] = {}]
    /\ Go(t, At("close", e))
    /\ UNCHANGED <<stop, torn, seats, ends, open, event, list, strangers>>
\* wait_with_timeout_or_kill: it ends by itself, or is killed after a minute.
Wait(t) ==
    LET e == pc[t].engine IN
    /\ pc[t].at = "wait"
    /\ life' = [life EXCEPT ![e] = "reaped"]
    /\ held' = [held EXCEPT ![e] = {}]
    /\ waited' = [waited EXCEPT ![e] = TRUE]
    /\ Go(t, At("close", e))
    /\ UNCHANGED <<stop, torn, seats, ends, open, event, list, strangers>>

Close(t) ==
    LET e == pc[t].engine IN
    /\ pc[t].at = "close"
    /\ event' = [event EXCEPT ![e] = "closed"]
    /\ ends' = [ends EXCEPT ![e] = {}]
    /\ waited' = [waited EXCEPT ![e] = TRUE]
    /\ open' = {x \in open : x[1] # e}
    /\ Go(t, Idle)
    /\ UNCHANGED <<stop, torn, seats, list, children>>

-----------------------------------------------------------------------------
(* The main thread.                                                        *)

\* writeToOpenPipes
WakeReaders ==
    /\ stop /\ ~torn
    /\ torn' = TRUE
    /\ event' = [e \in Engines |-> IF e \in list THEN "set" ELSE event[e]]
    /\ UNCHANGED <<stop, pc, seats, ends, open, list, waited, children>>

\* The workers have been joined; the caches go, and the engines with them.
TakeDown ==
    /\ torn /\ pc[Main] = Idle /\ \A w \in Workers : pc[w].at = "done"
    /\ \E w \in Workers :
          /\ seats[w] # <<>>
          /\ seats' = [seats EXCEPT ![w] = Tail(@)]
          /\ Go(Main, At("quit", Head(seats[w])))
    /\ UNCHANGED <<stop, torn, parent, children>>

\* stopProcesses, for what is still in the list, and the end of the program.
Exit ==
    /\ torn /\ pc[Main] = Idle /\ \A w \in Workers : pc[w].at = "done" /\ seats[w] = <<>>
    /\ Go(Main, At("over", NoEngine))
    /\ life' = [e \in Engines |-> IF e \in list /\ life[e] = "running" THEN "zombie" ELSE life[e]]
    /\ held' = [e \in Engines |-> IF e \in list THEN {} ELSE held[e]]
    /\ UNCHANGED <<stop, torn, seats, parent, strangers>>

-----------------------------------------------------------------------------
(* The environment.                                                        *)

StopTournament == ~stop /\ stop' = TRUE /\ UNCHANGED <<torn, pc, seats, parent, children>>

\* An engine ends, at any time and by any cause.
Dies(e) ==
    /\ life[e] = "running"
    /\ life' = [life EXCEPT ![e] = "zombie"]
    /\ held' = [held EXCEPT ![e] = {}]
    /\ UNCHANGED <<stop, torn, pc, seats, parent, strangers>>

WorkerSteps(w) ==
    \/ CreatePipe(w) \/ CloseOnExec(w) \/ Construct(w) \/ TakeSeat(w)
    \/ BeginGame(w) \/ Acquire(w) \/ Spawn(w) \/ SpawnFails(w) \/ Attach(w) \/ NotGreeted(w)
    \/ Turn(w) \/ Interrupted(w) \/ Disconnected(w) \/ Restart(w) \/ Replace(w) \/ Leave(w)
    \/ Quit(w) \/ Unlist(w) \/ Wait(w) \/ Close(w)
MainSteps == WakeReaders \/ TakeDown \/ Quit(Main) \/ Unlist(Main) \/ Wait(Main) \/ Close(Main) \/ Exit

Next ==
    \/ \E w \in Workers : WorkerSteps(w) \/ Greeted(w) \/ Answers(w)
    \/ MainSteps
    \/ StopTournament
    \/ \E e \in Engines : Dies(e)

\* Threads are scheduled; an engine need never answer.
Fairness == WF_vars(MainSteps) /\ \A w \in Workers : WF_vars(WorkerSteps(w))
Spec == Init /\ [][Next]_vars /\ Fairness

-----------------------------------------------------------------------------
(* Properties.                                                             *)

(* Every engine that a worker may be waiting for is in the list and has an event, so that a
   stop reaches it; and no entry is left of an event that is closed, whose descriptor may
   belong to something else by then. *)
EntriesAreLive ==
    /\ \A e \in list : event[e] # "closed"
    /\ \A w \in Workers : pc[w].at \in {"uciok", "search"} => pc[w].engine \in list

(* "Close the parent's duplicates of the child-owned pipe ends so EOF/HUP is observable when
   the child exits": it is, unless the process of another engine has inherited the pipe
   between its creation and its mark, and as long as that one lives. *)
DeathIsSeen ==
    \A w \in Workers : Reaches(w, "search") =>
        LET e == pc[w].engine IN
        life[e] # "running" /\ <<e, "in">> \notin strangers => HungUp(e)

(* "we want to make really sure we don't leave any processes hanging around (zombies)": when
   the program ends every process it spawned has ended and has been waited for, the list is
   empty, and every descriptor is closed, of replaced and of never started engines too. *)
NothingLeftBehind ==
    pc[Main].at = "over" =>
        /\ list = {}
        /\ \A e \in Engines : life[e] \in {"none", "reaped"} /\ ends[e] = {} /\ event[e] = "closed"

(* The tournament is stopped: the program ends, whatever engines do not answer, and whoever
   waits for the semaphore. *)
ShutdownCompletes == stop ~> pc[Main].at = "over"
=============================================================================
