----------------------------- MODULE LockClient -----------------------------
(***************************************************************************)
(* A lock manager under any client that keeps the contract of              *)
(* lock_manager.h, as lock_manager_test.cc does: no transaction asks twice *)
(* for a record, and one may release or cancel its requests in any order,  *)
(* whether they have been granted or not.  A transaction here first asks   *)
(* for its records, then gives them up.                                    *)
(***************************************************************************)
EXTENDS LockManager

VARIABLES
    asked,      \* the pairs <<t, k>> for which a lock was asked
    blocked,    \* the transactions to which some call returned false
    givingUp,   \* the transactions that have called Release
    cancelled   \* those that have called it for a lock they did not have

clientVars == <<asked, blocked, givingUp, cancelled>>
vars       == <<lockVars, clientVars>>

Ready(t) == \E i \in DOMAIN readyTxns : readyTxns[i] = t

TypeOK ==
    /\ LockTypeOK
    /\ asked \subseteq Txns \X Keys
    /\ blocked \subseteq Txns
    /\ cancelled \subseteq givingUp
    /\ givingUp \subseteq Txns

Init ==
    /\ LockInit
    /\ asked = {}
    /\ blocked = {}
    /\ givingUp = {}
    /\ cancelled = {}

Ask(t, k) ==
    /\ <<t, k>> \notin asked
    /\ t \notin givingUp
    /\ ~Ready(t)
    /\ asked' = asked \cup {<<t, k>>}
    /\ \E granted \in BOOLEAN :
         /\ WriteLock(t, k, granted) \/ ReadLock(t, k, granted)
         /\ blocked' = IF granted THEN blocked ELSE blocked \cup {t}
    /\ UNCHANGED <<givingUp, cancelled>>

GiveUp(t, k) ==
    /\ <<t, k>> \in asked
    /\ Release(t, k)
    /\ givingUp' = givingUp \cup {t}
    /\ cancelled' = IF Owns(t, k) THEN cancelled
                    ELSE cancelled \cup {u \in {t} : k \in AsksFor(t)}
    /\ UNCHANGED <<asked, blocked>>

Next == \E t \in Txns, k \in Keys : Ask(t, k) \/ GiveUp(t, k)

Spec == Init /\ [][Next]_vars
-----------------------------------------------------------------------------
\* txn_waits_ counts, over all records, the conflicting requests a transaction
\* has to wait for, whatever the others release or cancel.  Release invalidates
\* the count of a transaction that cancels one of its own (lock_manager.h:104).
WaitsAreExact ==
    \A t \in Txns \ cancelled : txnWaits[t] = Cardinality(Waits(t))

\* The ready queue gets a transaction, once, when and only when it had to wait
\* and then has every lock it asked for and did not give up (lock_manager.h:98-100).
ReadyWhenGranted ==
    \A t \in Txns \ cancelled :
        Cardinality({i \in DOMAIN readyTxns : readyTxns[i] = t})
            = IF t \in blocked /\ OwnsAll(t) THEN 1 ELSE 0

\* Status tells who really has the lock.
StatusNamesOwners ==
    \A k \in Keys : Status(k).owners = {t \in Txns : Owns(t, k)}
=============================================================================
