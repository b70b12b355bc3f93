\* Both locking modes: three transactions in every arrival order, two workers,
\* the destructor at any moment.  Once the processor is stopped nothing moves,
\* so deadlock is not checked; EveryRequestAnswered finds halts before that.
SPECIFICATION FairSpec
CONSTANTS
    t1 = t1
    t2 = t2
    t3 = t3
    w1 = w1
    w2 = w2
    Main = Main
    NoTxn = NoTxn
    Unread = Unread
    Txns <- ThreeTxns
    Keys = {1, 2}
    Threads <- ThreeThreads
    readset <- ThreeReadsets
    writeset <- ThreeWritesets
    MayAbort <- FirstMayAbort
    MayStop = TRUE
INVARIANTS
    ExecutesWithAllLocks
    ConflictsExcluded
    ReadsInArrivalOrder
PROPERTIES
    ImplementsSerialDB
    EveryRequestAnswered
CHECK_DEADLOCK FALSE
