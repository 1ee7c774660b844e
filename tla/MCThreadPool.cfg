CONSTANTS
    t1 = t1
    t2 = t2
    a = a
    b = b
    c = c
    Threads <- MCThreads
    Tasks <- MCTasks
    NoTask = NoTask
SPECIFICATION FairSpec
CHECK_DEADLOCK FALSE
INVARIANTS
    NoLostWakeup
PROPERTIES
    ImplementsTaskPool
    QueueIsServed
    KillReturns
