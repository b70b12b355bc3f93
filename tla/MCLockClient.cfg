\* Both lock managers under every sequence of calls of four transactions on
\* two records, each call at most once per transaction and record.
SPECIFICATION Spec
CONSTANTS
    Txns = {t1, t2, t3, t4}
    Keys = {1, 2}
SYMMETRY SymmetricTxns
INVARIANTS
    WaitsAreExact
    ReadyWhenGranted
    StatusNamesOwners
CHECK_DEADLOCK FALSE
