\* Safety of CALVIN_EPOCH: four transactions in every arrival order and every
\* division into epochs, two executors, two keys, one transaction that may
\* abort; no destructor, so any halt before all are answered is a deadlock.
SPECIFICATION Spec
CONSTANTS
    t1 = t1
    t2 = t2
    t3 = t3
    t4 = t4
    e1 = e1
    e2 = e2
    NoTxn = NoTxn
    Unread = Unread
    Txns <- FourTxns
    Keys = {1, 2}
    Threads <- Executors
    readset <- FourReadsets
    writeset <- FourWritesets
    MayAbort <- FirstMayAbort
    MayStop = FALSE
SYMMETRY SymmetricExecutors
INVARIANTS
    TypeOK
    NoUseOfFreedDag
    IndegreeCountsPending
    PredecessorsDecided
    EpochBarrier
    EachRequestInOnePlace
    DagIsConflictOrder
    SeparatedKeysReadSerially
    ClientOwnsResults
PROPERTIES
    DecidedIsFinal
