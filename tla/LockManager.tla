---------------------------- MODULE LockManager ----------------------------
(***************************************************************************)
(* The lock managers of modes LOCKING_EXCLUSIVE_ONLY (LockManagerA) and    *)
(* LOCKING (LockManagerB).  Their calls come from one thread, so each call *)
(* is one step of whoever makes it.  LockManagerA is LockManagerB with     *)
(* every request EXCLUSIVE: the two classes differ in nothing else.        *)
(*                                                                         *)
(* txn_waits_ has no entry for a transaction where txnWaits is 0: looking  *)
(* up an absent entry creates it with 0, and an entry is erased at 0.      *)
(***************************************************************************)
EXTENDS Database, RequestQueues

ASSUME LockAssumption == IsFiniteSet(Keys)

VARIABLES
    manager,    \* the class of lm_, "A" or "B"
    lockTable,  \* [Keys -> Seq(LockRequest)], lock_table_
    txnWaits,   \* [Txns -> Int], txn_waits_
    readyTxns   \* *ready_txns_, the scheduler's own deque

lockVars == <<manager, lockTable, txnWaits, readyTxns>>

LockRequest == [txn : Txns, mode : {"SHARED", "EXCLUSIVE"}]

LockTypeOK ==
    /\ manager \in {"A", "B"}
    /\ lockTable \in [Keys -> Seq(LockRequest)]
    /\ txnWaits \in [Txns -> Nat]
    /\ readyTxns \in Seq(Txns)

LockInit ==
    /\ manager \in {"A", "B"}
    /\ lockTable = [k \in Keys |-> <<>>]
    /\ txnWaits = [t \in Txns |-> 0]
    /\ readyTxns = <<>>

-----------------------------------------------------------------------------
\* Both calls return whether the lock is granted at once.
Lock(t, k, m, granted) ==
    /\ granted = (NumBefore(lockTable[k], m) = 0)
    /\ lockTable' = [lockTable EXCEPT ![k] = Append(@, [txn |-> t, mode |-> m])]
    /\ txnWaits' = [txnWaits EXCEPT ![t] = @ + NumBefore(lockTable[k], m)]
    /\ UNCHANGED <<manager, readyTxns>>

WriteLock(t, k, granted) == Lock(t, k, "EXCLUSIVE", granted)

ReadLock(t, k, granted) ==
    Lock(t, k, IF manager = "A" THEN "EXCLUSIVE" ELSE "SHARED", granted)

\* Release, whether t held the lock or only waited for it: its request goes,
\* and those it unblocks wait for one request less.  A transaction that waits
\* for none any more, on any key, is ready.  Of t's own count nothing is taken.
ReleaseAt(t, k, i) ==
    LET q == lockTable[k]
    IN  /\ lockTable' = [lockTable EXCEPT ![k] = Erase(q, i)]
        /\ txnWaits' = [u \in Txns |-> txnWaits[u] - Cardinality(UnblockedOf(q, i, u))]
        /\ \E now \in InQueueOrder(LastWaits(q, i, txnWaits)) :
               readyTxns' = readyTxns \o TxnsAt(q, now)
        /\ UNCHANGED manager

Release(t, k) ==
    \/ /\ RequestsOf(lockTable[k], t) = {}
       /\ UNCHANGED lockVars
    \/ \E i \in RequestsOf(lockTable[k], t) :
         /\ \A j \in RequestsOf(lockTable[k], t) : i <= j
         /\ ReleaseAt(t, k, i)

Status_AnyShared(k) ==
    LET q == lockTable[k]
    IN  IF q = <<>> THEN [mode |-> "UNLOCKED", owners |-> {}]
        ELSE IF q[1].mode = "EXCLUSIVE" THEN [mode |-> "EXCLUSIVE", owners |-> {q[1].txn}]
        ELSE [mode   |-> "SHARED",
              owners |-> {q[i].txn : i \in {j \in DOMAIN q : q[j].mode = "SHARED"}}]

\* Status(k): the mode in which the record is locked, and its owners.  (For a
\* key never asked for, LockManagerB leaves the caller's vector as it was.)
Status(k) ==
    LET q == lockTable[k]
    IN  IF q = <<>> THEN [mode |-> "UNLOCKED", owners |-> {}]
        ELSE IF q[1].mode = "EXCLUSIVE" THEN [mode |-> "EXCLUSIVE", owners |-> {q[1].txn}]
        ELSE [mode   |-> "SHARED",
              owners |-> {q[i].txn : i \in {j \in DOMAIN q : \A h \in 1..j : q[h].mode = "SHARED"}}]

-----------------------------------------------------------------------------
\* t has asked for a lock on k and has it.
Owns(t, k) == RequestsOf(lockTable[k], t) # {} /\ WaitsIn(lockTable[k], t) = {}
AsksFor(t) == {k \in Keys : RequestsOf(lockTable[k], t) # {}}
OwnsAll(t) == \A k \in AsksFor(t) : Owns(t, k)

\* All that t waits for, on any record: txn_waits_ counts it.
Waits(t) == WaitsInTable(lockTable, t)
=============================================================================
