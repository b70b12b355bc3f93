\* What a reader sees of the writer before it: two transactions, one key.
SPECIFICATION Spec
CONSTANTS
    t1 = t1
    t2 = t2
    t3 = t3
    e1 = e1
    e2 = e2
    Main = Main
    NoTxn = NoTxn
    Unread = Unread
    Threads <- ThreeThreads
    Txns <- TwoTxns
    Keys = {1}
    readset <- TwoReadsets
    writeset <- TwoWritesets
    MayAbort <- NoneMayAbort
    MayStop = FALSE
INVARIANT
    SeparatedKeysReadSerially
