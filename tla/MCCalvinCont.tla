---------------------------- MODULE MCCalvinCont ----------------------------
(* Instances of CalvinCont for TLC. *)
EXTENDS CalvinCont, TLC

CONSTANTS t1, t2, t3    \* the transactions
CONSTANTS e1, e2        \* the executors

\* Two transactions that conflict twice, each way round, and a reader of one
\* of the keys, so that a writer can have two readers before it.
ThreeTxns == {t1, t2, t3}
ThreeReadsets  == t1 :> {2} @@ t2 :> {1} @@ t3 :> {1}
ThreeWritesets == t1 :> {1} @@ t2 :> {2} @@ t3 :> {}

\* A writer and a reader of one key.
TwoTxns == {t1, t2}
TwoReadsets  == t1 :> {} @@ t2 :> {1}
TwoWritesets == t1 :> {1} @@ t2 :> {}

ThreeThreads == {Main, e1, e2}
ReaderMayAbort == {t3}
NoneMayAbort == {}
=============================================================================
