------------------------------ MODULE TaskPool ------------------------------
(***************************************************************************)
(* What util::ThreadPool promises its user, without threads, locks and     *)
(* condition variables: tasks start in the order they were submitted, each *)
(* of them once, and after a shutdown nothing starts any more.             *)
(***************************************************************************)
EXTENDS Sequences

CONSTANT Tasks   \* the tasks there are

VARIABLES
    queue,       \* submitted and not started
    running,     \* started and not finished
    submitted,   \* every task accepted so far
    closed       \* shut down

vars == <<queue, running, submitted, closed>>

Init == queue = <<>> /\ running = {} /\ submitted = {} /\ closed = FALSE

\* enqueue; on a closed pool it throws and changes nothing.
Submit(t) ==
    /\ ~closed
    /\ t \notin submitted
    /\ queue' = Append(queue, t)
    /\ submitted' = submitted \cup {t}
    /\ UNCHANGED <<running, closed>>

Start ==
    /\ queue # <<>>
    /\ running' = running \cup {Head(queue)}
    /\ queue' = Tail(queue)
    /\ UNCHANGED <<submitted, closed>>

Finish(t) ==
    /\ t \in running
    /\ running' = running \ {t}
    /\ UNCHANGED <<queue, submitted, closed>>

\* What was waiting is dropped, what was running goes on.
Close ==
    /\ ~closed
    /\ closed' = TRUE
    /\ queue' = <<>>
    /\ UNCHANGED <<running, submitted>>

\* The pool is open again, after a change of its size, only once it is quiet.
Reopen ==
    /\ closed
    /\ running = {}
    /\ closed' = FALSE
    /\ UNCHANGED <<queue, running, submitted>>

Next == (\E t \in Tasks : Submit(t) \/ Finish(t)) \/ Start \/ Close \/ Reopen

Spec == Init /\ [][Next]_vars
=============================================================================
