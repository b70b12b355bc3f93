------------------------------ MODULE SerialDB ------------------------------
(***************************************************************************)
(* What a serializable TxnProcessor promises: each transaction runs once,  *)
(* alone and at one moment, or aborts.  Values are the transactions that   *)
(* wrote them, as in TxnCore.                                              *)
(***************************************************************************)
CONSTANTS Txns, Keys, readset, writeset, MayAbort, NoTxn, Unread

VARIABLES
    db,         \* the value of each record
    seen,       \* what each transaction has read, Unread before it ran
    outcome     \* whether it has run, and how it ended

vars == <<db, seen, outcome>>

Init ==
    /\ db = [k \in Keys |-> NoTxn]
    /\ seen = [t \in Txns |-> [k \in Keys |-> Unread]]
    /\ outcome = [t \in Txns |-> "none"]

\* A transaction reads its writeset as well as its readset.
Execute(t) ==
    /\ outcome[t] = "none"
    /\ seen' = [seen EXCEPT ![t] =
                  [k \in Keys |-> IF k \in readset[t] \cup writeset[t] THEN db[k] ELSE Unread]]

CommitTxn(t) ==
    /\ Execute(t)
    /\ outcome' = [outcome EXCEPT ![t] = "committed"]
    /\ db' = [k \in Keys |-> IF k \in writeset[t] THEN t ELSE db[k]]

AbortTxn(t) ==
    /\ t \in MayAbort
    /\ Execute(t)
    /\ outcome' = [outcome EXCEPT ![t] = "aborted"]
    /\ UNCHANGED db

Next == \E t \in Txns : CommitTxn(t) \/ AbortTxn(t)

Spec == Init /\ [][Next]_vars
=============================================================================
