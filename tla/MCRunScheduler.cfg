\* All five modes: three transactions in every order, two workers.
SPECIFICATION FairSpec
CONSTANTS
    t1 = t1
    t2 = t2
    t3 = t3
    w1 = w1
    w2 = w2
    Main = Main
    NoTxn = NoTxn
    Unread = Unread
    Txns <- ThreeTxns
    Keys = {1, 2}
    Threads <- ThreeThreads
    readset <- ThreeReadsets
    writeset <- ThreeWritesets
    MayAbort <- FirstMayAbort
    Modes <- AllModes
    MaxId <- EnoughIds
INVARIANTS
    EachRequestInOnePlace
    OnlyFirstCommitMissed
    ConcurrentAppliesCompatible
    NoHalfInstalledReads
PROPERTIES
    NewVersionsOnTop
    EveryRequestAnswered
CHECK_DEADLOCK FALSE
