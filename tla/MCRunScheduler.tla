--------------------------- MODULE MCRunScheduler ---------------------------
(* Instances of RunScheduler for TLC. *)
EXTENDS RunScheduler

CONSTANTS t1, t2, t3    \* the transactions
CONSTANTS w1, w2        \* the pool's workers

\* Two transactions that conflict twice, each way round, and a writer of both
\* records.
ThreeTxns == {t1, t2, t3}
ThreeReadsets  == [t \in ThreeTxns |-> IF t = t1 THEN {1} ELSE IF t = t2 THEN {2} ELSE {}]
ThreeWritesets == [t \in ThreeTxns |-> IF t = t1 THEN {2} ELSE IF t = t2 THEN {1} ELSE {1, 2}]

ThreeThreads == {Main, w1, w2}
FirstMayAbort == {t1}

AllModes == {"SERIAL", "OCC", "P_OCC", "MVCC", "MVCC_SSI"}
\* In OCC and MVCC three transactions are restarted three times at most, since
\* each restart takes the commit of another one; P_OCC has no such bound.
EnoughIds == [m \in Modes |-> IF m = "P_OCC" THEN 4 ELSE 6]
=============================================================================
