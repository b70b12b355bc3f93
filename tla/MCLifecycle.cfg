\* Two requests, two threads in the pool, the destructor at any moment, in the
\* four kinds of mode.
SPECIFICATION FairSpec
CONSTANTS
    r1 = r1
    r2 = r2
    l1 = l1
    l2 = l2
    Workers = {w1, w2}
    NoTask = NoTask
    Requests <- TwoRequests
    Loops <- TwoLoops
    Tasks <- AllTasks
    Modes = {"SERIAL", "LOCKING", "CALVIN_CONT", "CALVIN_EPOCH"}
INVARIANTS
    OnlyThePoolOutlivesTheMembers
PROPERTIES
    ImplementsTaskPool
    DestructorReturns
    RequestsServed
CHECK_DEADLOCK FALSE
