\* The destructor's documentation against what the scheduler does in the
\* middle of an epoch: two transactions, two executors.
SPECIFICATION FairSpec
CONSTANTS
    t1 = t1
    t2 = t2
    t3 = t3
    t4 = t4
    e1 = e1
    e2 = e2
    NoTxn = NoTxn
    Unread = Unread
    Txns <- TwoTxns
    Keys = {1, 2}
    Threads <- Executors
    readset <- TwoReadsets
    writeset <- TwoWritesets
    MayAbort <- NoneMayAbort
    MayStop = TRUE
PROPERTY
    DestructorStopsThreads
CHECK_DEADLOCK FALSE
