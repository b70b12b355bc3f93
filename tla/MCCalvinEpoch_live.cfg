\* Liveness of CALVIN_EPOCH, and the destructor at any moment: three
\* transactions, two executors.  After the destructor an epoch may stay
\* unfinished (see MCCalvinEpoch_destructor.cfg), so deadlock is not checked.
SPECIFICATION FairSpec
CONSTANTS
    t1 = t1
    t2 = t2
    t3 = t3
    t4 = t4
    e1 = e1
    e2 = e2
    NoTxn = NoTxn
    Unread = Unread
    Txns <- ThreeTxns
    Keys = {1, 2}
    Threads <- Executors
    readset <- ThreeReadsets
    writeset <- ThreeWritesets
    MayAbort <- FirstMayAbort
    MayStop = TRUE
INVARIANT
    NobodyBusyAfterJoins
PROPERTY
    EveryRequestAnswered
CHECK_DEADLOCK FALSE
