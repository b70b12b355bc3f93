------------------------- MODULE MCCalvinContIndiv -------------------------
(* Instances of CalvinContIndiv for TLC. *)
EXTENDS CalvinContIndiv, TLC

CONSTANTS t1, t2, t3    \* the transactions
CONSTANTS e1, e2        \* the executors

\* Two transactions that conflict twice, each way round, and another writer of
\* key 1, next to its writer or with a reader between, before or after them.
ThreeTxns == {t1, t2, t3}
ThreeReadsets  == t1 :> {2} @@ t2 :> {1} @@ t3 :> {}
ThreeWritesets == t1 :> {1} @@ t2 :> {2} @@ t3 :> {1}

ThreeThreads == {Main, e1, e2}
ReaderMayAbort == {t2}
=============================================================================
