------------------------------ MODULE TxnCore ------------------------------
(***************************************************************************)
(* The part of class TxnProcessor that every concurrency-control mode      *)
(* shares: the client's two calls (NewTxnRequest, GetTxnResult), the       *)
(* execution of one transaction by one thread (ExecuteTxn) and the         *)
(* installation of its buffered writes (ApplyWrites), over the             *)
(* single-version Storage.  A mode module EXTENDS this one, adds its own   *)
(* scheduler and composes these steps into the handlers of its threads.    *)
(*                                                                         *)
(* Data are abstracted to their provenance: the value stored under a key   *)
(* is the transaction that wrote it, NoTxn being what InitStorage put      *)
(* there.  Keys are integers because ExecuteTxn and ApplyWrites visit the  *)
(* std::set / std::map of keys in ascending order.                         *)
(***************************************************************************)
EXTENDS Database, Integers, Sequences, FiniteSets

CONSTANTS
    Threads,    \* the threads that run transaction code
    readset,    \* [Txns -> SUBSET Keys], Txn::readset_
    writeset,   \* [Txns -> SUBSET Keys], Txn::writeset_
    MayAbort,   \* the transactions whose program may vote ABORT (Expect)
    NoTxn,      \* no transaction; as a value, the one InitStorage wrote
    Unread      \* reads_ holds nothing for this key

ASSUME CoreAssumption ==
    /\ IsFiniteSet(Txns)
    /\ Keys \subseteq Int
    /\ IsFiniteSet(Keys)
    /\ readset \in [Txns -> SUBSET Keys]
    /\ writeset \in [Txns -> SUBSET Keys]
    /\ MayAbort \subseteq Txns
    /\ NoTxn \notin Txns
    /\ Unread \notin Txns \cup {NoTxn}

VARIABLES
    nextUniqueId,   \* next_unique_id_
    uniqueId,       \* [Txns -> Nat], Txn::unique_id_; 0 before NewTxnRequest
    txnRequests,    \* AtomicQueue txn_requests_
    txnResults,     \* AtomicQueue txn_results_
    returned,       \* the Txns the client owns again (GetTxnResult)
    status,         \* [Txns -> TxnStatus], Txn::status_
    reads,          \* [Txns -> [Keys -> Values or Unread]], what reads_ got
                    \* from the storage
    storage,        \* [Keys -> Values], Storage::data_
    completedTxns,  \* AtomicQueue completed_txns_
    committedTxns,  \* AtomicVector committed_txns_
    pc,             \* where each thread is in its code
    cur,            \* the local variable txn of each thread
    todo            \* the keys or neighbours its current loop still visits

clientVars == <<nextUniqueId, uniqueId, returned>>
dataVars   == <<status, reads, storage, completedTxns, committedTxns>>
threadVars == <<pc, cur, todo>>
coreVars   == <<clientVars, txnRequests, txnResults, dataVars, threadVars>>

Values     == Txns \cup {NoTxn}
TxnStatus  == {"INCOMPLETE", "COMPLETED_C", "COMPLETED_A", "COMMITTED", "ABORTED"}
Decided(t) == status[t] \in {"COMMITTED", "ABORTED"}
Accesses(t) == readset[t] \cup writeset[t]

ClientTypeOK ==
    /\ nextUniqueId \in Nat \ {0}
    /\ uniqueId \in [Txns -> Nat]
    /\ txnRequests \in Seq(Txns)
    /\ txnResults \in Seq(Txns)
    /\ returned \subseteq Txns

DataTypeOK ==
    /\ status \in [Txns -> TxnStatus]
    /\ reads \in [Txns -> [Keys -> Values \cup {Unread}]]
    /\ storage \in [Keys -> Values]
    /\ completedTxns \in Seq(Txns)
    /\ committedTxns \in Seq(Txns)

ThreadTypeOK ==
    /\ cur \in [Threads -> Values]
    /\ todo \in [Threads -> SUBSET (Keys \cup Txns)]

CoreTypeOK == ClientTypeOK /\ DataTypeOK /\ ThreadTypeOK

CoreInit(pc0) ==
    /\ nextUniqueId = 1
    /\ uniqueId = [t \in Txns |-> 0]
    /\ txnRequests = <<>>
    /\ txnResults = <<>>
    /\ returned = {}
    /\ status = [t \in Txns |-> "INCOMPLETE"]
    /\ reads = [t \in Txns |-> [k \in Keys |-> Unread]]
    /\ storage = [k \in Keys |-> NoTxn]
    /\ completedTxns = <<>>
    /\ committedTxns = <<>>
    /\ pc = [w \in Threads |-> pc0]
    /\ cur = [w \in Threads |-> NoTxn]
    /\ todo = [w \in Threads |-> {}]

-----------------------------------------------------------------------------
(* The client. *)

\* NewTxnRequest numbers the transaction and queues it under one mutex, so
\* that the numbers give the order of txn_requests_.
NewTxnRequest(t) ==
    /\ uniqueId[t] = 0
    /\ uniqueId' = [uniqueId EXCEPT ![t] = nextUniqueId]
    /\ nextUniqueId' = nextUniqueId + 1
    /\ txnRequests' = Append(txnRequests, t)
    /\ UNCHANGED <<txnResults, returned, dataVars, threadVars>>

\* GetTxnResult waits for a result; its caller owns the Txn from then on, and
\* may delete it.
GetTxnResult ==
    /\ txnResults # <<>>
    /\ returned' = returned \cup {Head(txnResults)}
    /\ txnResults' = Tail(txnResults)
    /\ UNCHANGED <<nextUniqueId, uniqueId, txnRequests, dataVars, threadVars>>

-----------------------------------------------------------------------------
(* One thread executing one transaction. *)

Goto(w, label) == pc' = [pc EXCEPT ![w] = label]

\* Iteration of a std::set<Key>: k is the next key thread w's loop visits.
NextKey(w, k) == k \in todo[w] /\ \A j \in todo[w] : k <= j

\* ExecuteTxn(t) begins: the first loop is about to visit the readset.
StartExecute(w, t) ==
    /\ Goto(w, "readset")
    /\ cur' = [cur EXCEPT ![w] = t]
    /\ todo' = [todo EXCEPT ![w] = readset[t]]

\* One iteration of either read loop.  Every key of a transaction is a record
\* InitStorage created, so Storage::Read succeeds.
ReadRecord(w) ==
    /\ pc[w] \in {"readset", "writeset"}
    /\ \E k \in Keys :
         /\ NextKey(w, k)
         /\ reads' = [reads EXCEPT ![cur[w]][k] = storage[k]]
         /\ todo' = [todo EXCEPT ![w] = todo[w] \ {k}]
    /\ UNCHANGED <<status, storage, completedTxns, committedTxns, pc, cur>>

\* From the loop over the readset to the one over the writeset.
EndReadset(w) ==
    /\ pc[w] = "readset"
    /\ todo[w] = {}
    /\ Goto(w, "writeset")
    /\ todo' = [todo EXCEPT ![w] = writeset[cur[w]]]
    /\ UNCHANGED <<cur, dataVars>>

\* Txn::Run() votes, and the transaction enters completed_txns_.
Run(w, next) ==
    /\ pc[w] = "writeset"
    /\ todo[w] = {}
    /\ \E vote \in {"COMPLETED_C"} \cup (IF cur[w] \in MayAbort THEN {"COMPLETED_A"} ELSE {}) :
         status' = [status EXCEPT ![cur[w]] = vote]
    /\ completedTxns' = Append(completedTxns, cur[w])
    /\ Goto(w, next)
    /\ UNCHANGED <<reads, storage, committedTxns, cur, todo>>

\* A voter to commit: ApplyWrites starts; its program wrote all its writeset.
StartApply(w) ==
    /\ pc[w] = "decide"
    /\ status[cur[w]] = "COMPLETED_C"
    /\ Goto(w, "apply")
    /\ todo' = [todo EXCEPT ![w] = writeset[cur[w]]]
    /\ UNCHANGED <<cur, dataVars>>

\* One iteration of ApplyWrites' loop.
ApplyWrite(w) ==
    /\ pc[w] = "apply"
    /\ \E k \in Keys :
         /\ NextKey(w, k)
         /\ storage' = [storage EXCEPT ![k] = cur[w]]
         /\ todo' = [todo EXCEPT ![w] = todo[w] \ {k}]
    /\ UNCHANGED <<status, reads, completedTxns, committedTxns, pc, cur>>

\* ApplyWrites has returned: committed_txns_.Push and COMMITTED.
Commit(w, next) ==
    /\ pc[w] = "apply"
    /\ todo[w] = {}
    /\ committedTxns' = Append(committedTxns, cur[w])
    /\ status' = [status EXCEPT ![cur[w]] = "COMMITTED"]
    /\ Goto(w, next)
    /\ UNCHANGED <<reads, storage, completedTxns, cur, todo>>

\* A voter to abort: nothing is installed.
Abort(w, next) ==
    /\ pc[w] = "decide"
    /\ status[cur[w]] = "COMPLETED_A"
    /\ status' = [status EXCEPT ![cur[w]] = "ABORTED"]
    /\ Goto(w, next)
    /\ UNCHANGED <<reads, storage, completedTxns, committedTxns, cur, todo>>

\* txn_results_.Push(txn) ends the handler; the thread pops its next work.
PushResult(w) ==
    /\ pc[w] = "result"
    /\ txnResults' = Append(txnResults, cur[w])
    /\ Goto(w, "idle")
    /\ cur' = [cur EXCEPT ![w] = NoTxn]
    /\ UNCHANGED <<clientVars, txnRequests, dataVars, todo>>

-----------------------------------------------------------------------------
(* Properties' vocabulary. *)

Earlier(p, t) == 0 < uniqueId[p] /\ uniqueId[p] < uniqueId[t]

\* What t must have read under k if the transactions had run one at a time in
\* the order of their unique ids: the write of the last committed one before it.
SerialValue(t, k) ==
    LET W == {p \in Txns : /\ k \in writeset[p]
                           /\ Earlier(p, t)
                           /\ status[p] = "COMMITTED"}
    IN  IF W = {} THEN NoTxn
        ELSE CHOOSE p \in W : \A q \in W : uniqueId[q] <= uniqueId[p]

ReadsSerially(t, k) ==
    (status[t] # "INCOMPLETE" /\ k \in Accesses(t)) => reads[t][k] = SerialValue(t, k)
=============================================================================
