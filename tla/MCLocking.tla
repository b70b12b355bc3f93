----------------------------- MODULE MCLocking -----------------------------
(* Instances of LockingScheduler for TLC. *)
EXTENDS LockingScheduler, TLC

CONSTANTS t1, t2, t3    \* the transactions
CONSTANTS w1, w2        \* the pool's workers

\* Two records and three transactions: two that conflict twice, each way
\* round, and a reader of both records.
ThreeTxns == {t1, t2, t3}
ThreeReadsets  == t1 :> {1} @@ t2 :> {2} @@ t3 :> {1, 2}
ThreeWritesets == t1 :> {2} @@ t2 :> {1} @@ t3 :> {}

ThreeThreads == {Main, w1, w2}
FirstMayAbort == {t1}
=============================================================================
