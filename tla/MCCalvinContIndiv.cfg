\* CALVIN_CONT_INDIV: three transactions in every arrival order, two
\* executors, the destructor at any moment.  Terminating leaves only real
\* deadlocks.
SPECIFICATION FairSpec
CONSTANTS
    t1 = t1
    t2 = t2
    t3 = t3
    e1 = e1
    e2 = e2
    Main = Main
    NoTxn = NoTxn
    Unread = Unread
    Threads <- ThreeThreads
    Txns <- ThreeTxns
    Keys = {1, 2}
    readset <- ThreeReadsets
    writeset <- ThreeWritesets
    MayAbort <- ReaderMayAbort
    MayStop = TRUE
INVARIANTS
    IndegreeCountsPending
    EachRequestInOnePlace
    OrderedKeysReadSerially
PROPERTIES
    EveryRequestAnswered
