--------------------------- MODULE MCCalvinEpoch ---------------------------
(* Instances of CalvinEpoch for TLC. *)
EXTENDS CalvinEpoch, TLC

CONSTANTS t1, t2, t3, t4    \* the transactions
CONSTANTS e1, e2            \* the executors

\* Two read-modify-write transactions on one key, which no edge orders.
TwoTxns == {t1, t2}
TwoReadsets  == t1 :> {} @@ t2 :> {}
TwoWritesets == t1 :> {1} @@ t2 :> {1}

\* Three transactions, two keys: every kind of conflict, and a chain of edges
\* through both keys.  They are submitted in every order; some orders separate
\* the writers of key 1 by a reader, others do not.
ThreeTxns == {t1, t2, t3}
ThreeReadsets  == t1 :> {} @@ t2 :> {1} @@ t3 :> {2}
ThreeWritesets == t1 :> {1} @@ t2 :> {2} @@ t3 :> {1}

\* Four transactions: two writers of key 1, a reader of both keys, and two
\* transactions (t2, t4) that conflict twice, each way round.
FourTxns == ThreeTxns \cup {t4}
FourReadsets  == t1 :> {} @@ t2 :> {1} @@ t3 :> {1, 2} @@ t4 :> {2}
FourWritesets == t1 :> {1} @@ t2 :> {2} @@ t3 :> {} @@ t4 :> {1}

Executors == {e1, e2}
SymmetricExecutors == Permutations(Executors)
FirstMayAbort == {t1}
NoneMayAbort == {}
=============================================================================
