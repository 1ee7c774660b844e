----------------------------- MODULE ThreadPool -----------------------------
(***************************************************************************)
(* util::ThreadPool: worker threads that take tasks from one queue. Every  *)
(* critical section of queue_mutex_ is one step; so is every read of the   *)
(* atomic stop_ outside of it. A wait on the condition variable puts the   *)
(* worker to sleep and releases the mutex in one step, a notification (or a*)
(* spurious wakeup) sends it back to the mutex to look again.              *)
(*                                                                         *)
(* enqueue is called by the main thread and by running tasks, in two       *)
(* critical sections: it stores the task, then it notifies. Only the main  *)
(* thread resizes and kills the pool.                                      *)
(***************************************************************************)
EXTENDS Integers, Sequences, FiniteSets

CONSTANTS
    Threads,   \* worker threads
    Tasks,     \* tasks, each of them enqueued at most once
    NoTask     \* a worker without a task

ASSUME PoolAssumption ==
    /\ IsFiniteSet(Threads)
    /\ Threads # {}
    /\ NoTask \notin Tasks

VARIABLES
    tasks,      \* tasks_
    submitted,  \* the tasks enqueued so far
    stop,       \* stop_
    size,       \* workers_.size()
    pc,         \* where each worker is in work()
    task,       \* the task each worker holds
    mpc,        \* what the main thread does with the pool
    target      \* the threads a resize is to start, none when the pool is killed

poolVars == <<tasks, submitted, stop, size, pc, task, mpc, target>>

WorkerLabels == {"off", "test", "lock", "asleep", "run", "notify", "exit"}
MainLabels == {"idle", "notify", "join", "grow", "done"}

-----------------------------------------------------------------------------
\* ThreadPool{1}, the initializer of BaseTournament::pool_.
PoolInit ==
    /\ tasks = <<>>
    /\ submitted = {}
    /\ stop = FALSE
    /\ size = 1
    /\ \E w \in Threads : pc = [v \in Threads |-> IF v = w THEN "test" ELSE "off"]
    /\ task = [w \in Threads |-> NoTask]
    /\ mpc = "idle"
    /\ target = {}

Goto(w, label) == pc' = [pc EXCEPT ![w] = label]

\* notify_one wakes one sleeping worker if there is one.
NotifyOne(p) ==
    IF \E w \in Threads : p[w] = "asleep"
    THEN {[p EXCEPT ![w] = "lock"] : w \in {v \in Threads : p[v] = "asleep"}}
    ELSE {p}

NotifyAll(p) == [w \in Threads |-> IF p[w] = "asleep" THEN "lock" ELSE p[w]]

\* The first critical section of enqueue.
Accept(t) ==
    /\ ~stop
    /\ t \notin submitted
    /\ tasks' = Append(tasks, t)
    /\ submitted' = submitted \cup {t}

\* enqueue on a stopped pool throws into the task and leaves the pool as it is.
WorkerEmplaceOnly(w, t) ==
    /\ pc[w] = "run"
    /\ Accept(t)
    /\ UNCHANGED <<stop, size, pc, task, mpc, target>>
WorkerEmplace(w, t) ==
    /\ pc[w] = "run"
    /\ Accept(t)
    /\ Goto(w, "notify")
    /\ UNCHANGED <<stop, size, task, mpc, target>>

WorkerNotify(w) ==
    /\ pc[w] = "notify"
    /\ pc' \in NotifyOne([pc EXCEPT ![w] = "run"])
    /\ UNCHANGED <<tasks, submitted, stop, size, task, mpc, target>>

MainEmplaceOnly(t) ==
    /\ mpc = "idle"
    /\ Accept(t)
    /\ UNCHANGED <<stop, size, pc, task, mpc, target>>
MainEmplace(t) ==
    /\ mpc = "idle"
    /\ Accept(t)
    /\ mpc' = "notify"
    /\ UNCHANGED <<stop, size, pc, task, target>>

MainNotify ==
    /\ mpc = "notify"
    /\ pc' \in NotifyOne(pc)
    /\ mpc' = "idle"
    /\ UNCHANGED <<tasks, submitted, stop, size, task, target>>

-----------------------------------------------------------------------------
(* work()                                                                  *)

\* while (!stop_)
Test(w) ==
    /\ pc[w] = "test"
    /\ Goto(w, IF stop THEN "exit" ELSE "lock")
    /\ UNCHANGED <<tasks, submitted, stop, size, task, mpc, target>>

\* The predicate of the wait is false.
Sleep(w) ==
    /\ pc[w] = "lock"
    /\ ~stop
    /\ tasks = <<>>
    /\ Goto(w, "asleep")
    /\ UNCHANGED <<tasks, submitted, stop, size, task, mpc, target>>

Leave(w) ==
    /\ pc[w] = "lock"
    /\ stop
    /\ tasks = <<>>
    /\ Goto(w, "exit")
    /\ UNCHANGED <<tasks, submitted, stop, size, task, mpc, target>>

Take(w) ==
    /\ pc[w] = "lock"
    /\ tasks # <<>>
    /\ task' = [task EXCEPT ![w] = Head(tasks)]
    /\ tasks' = Tail(tasks)
    /\ Goto(w, "run")
    /\ UNCHANGED <<submitted, stop, size, mpc, target>>

\* The task returns, and is destroyed with the scope of the loop.
Finish(w) ==
    /\ pc[w] = "run"
    /\ task' = [task EXCEPT ![w] = NoTask]
    /\ Goto(w, "test")
    /\ UNCHANGED <<tasks, submitted, stop, size, mpc, target>>

SpuriousWakeup(w) ==
    /\ pc[w] = "asleep"
    /\ Goto(w, "lock")
    /\ UNCHANGED <<tasks, submitted, stop, size, task, mpc, target>>

-----------------------------------------------------------------------------
(* kill() and resize()                                                     *)

\* The critical section of kill: stop, drop the queue, wake everybody.
KillKeepsQueue(newTarget) ==
    /\ mpc = "idle"
    /\ stop' = TRUE
    /\ pc' = NotifyAll(pc)
    /\ mpc' = "join"
    /\ target' = newTarget
    /\ UNCHANGED <<tasks, submitted, size, task>>
KillSilently(newTarget) ==
    /\ mpc = "idle"
    /\ stop' = TRUE
    /\ tasks' = <<>>
    /\ mpc' = "join"
    /\ target' = newTarget
    /\ UNCHANGED <<submitted, size, pc, task>>
Kill(newTarget) ==
    /\ mpc = "idle"
    /\ stop' = TRUE
    /\ tasks' = <<>>
    /\ pc' = NotifyAll(pc)
    /\ mpc' = "join"
    /\ target' = newTarget
    /\ UNCHANGED <<submitted, size, task>>

\* Asked for as many threads as the vector has places, resize does nothing.
Resize(newTarget) ==
    /\ newTarget # {}
    /\ Cardinality(newTarget) # size
    /\ Kill(newTarget)

\* join() on every worker, workers_.clear().
Joined ==
    /\ mpc = "join"
    /\ \A w \in Threads : pc[w] \in {"off", "exit"}
    /\ pc' = [w \in Threads |-> "off"]
    /\ size' = 0
    /\ mpc' = IF target = {} THEN "done" ELSE "grow"
    /\ UNCHANGED <<tasks, submitted, stop, task, target>>

\* workers_.resize(n) makes n empty threads and the loop adds n running ones: the
\* vector has twice the size that was asked for.
Grow ==
    /\ mpc = "grow"
    /\ stop' = FALSE
    /\ size' = size + 2 * Cardinality(target)
    /\ pc' = [w \in Threads |-> IF w \in target THEN "test" ELSE pc[w]]
    /\ mpc' = "idle"
    /\ target' = {}
    /\ UNCHANGED <<tasks, submitted, task>>

-----------------------------------------------------------------------------
Worker(w) ==
    \/ WorkerNotify(w) \/ Test(w) \/ Sleep(w) \/ Leave(w) \/ Take(w) \/ Finish(w)

PoolNext ==
    \/ \E w \in Threads : Worker(w) \/ SpuriousWakeup(w) \/ \E t \in Tasks : WorkerEmplace(w, t)
    \/ MainNotify \/ Joined \/ Grow
    \/ \E t \in Tasks : MainEmplace(t)
    \/ Kill({}) \/ \E new \in SUBSET Threads : Resize(new)

PoolSpec == PoolInit /\ [][PoolNext]_poolVars

\* Every thread that can take a step takes one: the mutex is fair enough, and a
\* task, which is a game with clocks and timeouts, returns.
Fairness ==
    /\ \A w \in Threads : WF_poolVars(Worker(w))
    /\ WF_poolVars(MainNotify \/ Joined \/ Grow)

FairSpec == PoolSpec /\ Fairness

-----------------------------------------------------------------------------
(* Properties.                                                             *)

Busy == {w \in Threads : pc[w] \in {"run", "notify"}}

PoolTypeOK ==
    /\ tasks \in Seq(Tasks)
    /\ submitted \subseteq Tasks
    /\ stop \in BOOLEAN
    /\ size \in Nat /\ size <= 2 * Cardinality(Threads)
    /\ pc \in [Threads -> WorkerLabels]
    /\ task \in [Threads -> Tasks \cup {NoTask}]
    /\ mpc \in MainLabels
    /\ target \subseteq Threads

\* The threads that will look at the queue by themselves, and the notifications
\* that are still to be sent.
Looking == {w \in Threads : pc[w] \in {"test", "lock"}}
Notifying == {w \in Threads : pc[w] = "notify"}

\* Work conservation: a worker sleeps only while every queued task already has
\* somebody coming for it, so no wakeup is lost and no core idles beside a queue.
NoLostWakeup ==
    (\E w \in Threads : pc[w] = "asleep") =>
        Len(tasks) <= Cardinality(Looking) + Cardinality(Notifying)
                      + (IF mpc = "notify" THEN 1 ELSE 0)

\* No task starts on a stopped pool: kill only waits for the games in progress.
NothingStartsAfterKill == [][stop => Busy' \subseteq Busy]_poolVars

\* The pool implements TaskPool.
Abstract == INSTANCE TaskPool WITH
    queue <- tasks,
    running <- {task[w] : w \in Busy},
    closed <- stop

ImplementsTaskPool == Abstract!Spec

\* A task that is queued is started, unless the pool is killed.
QueueIsServed == \A t \in Tasks :
    (\E i \in DOMAIN tasks : tasks[i] = t) ~> ~(\E i \in DOMAIN tasks : tasks[i] = t)

\* kill and resize return: no worker sleeps through them.
KillReturns == (mpc = "join") ~> (mpc \in {"idle", "done"})
=============================================================================
