\* All threads may be waiting in Dequeue() on an empty queue.
CHECK_DEADLOCK FALSE
SPECIFICATION Spec
CONSTANTS
    t1 = t1
    t2 = t2
    t3 = t3
    e1 = e1
    e2 = e2
    Threads <- MCThreads
    Entries <- MCEntries
    MaxLen = 3
    SemMax = 3
INVARIANTS
    TypeOK
    PopHasEntry
    PermitsExact
    NoStrandedWaiter
PROPERTIES
    ImplementsDeque
