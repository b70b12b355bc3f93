---------------------------- MODULE PooledModes ----------------------------
(***************************************************************************)
(* What the modes have in common whose scheduler runs a transaction itself *)
(* or hands it to the thread pool, with no lock manager and no DAG:        *)
(* SERIAL, OCC, P_OCC and MVCC.  A transaction of the last three that      *)
(* fails its validation is restarted with a new id.                        *)
(*                                                                         *)
(* Main is the scheduler's thread, the other Threads are the pool's        *)
(* workers, each with a queue of tasks.  They are followed until the       *)
(* destructor is called, so stopped_ is false and no scheduler's loop      *)
(* ends; how they end is the subject of Lifecycle.                         *)
(***************************************************************************)
EXTENDS TxnCore, Queues

CONSTANTS
    Main,       \* the scheduler's thread
    Modes,      \* the modes the processor may be constructed with
    MaxId       \* a bound of the model: in each mode, no restart takes a greater id

ASSUME PoolAssumption ==
    /\ Main \in Threads
    /\ Modes \subseteq {"SERIAL", "OCC", "P_OCC", "MVCC", "MVCC_SSI"}
    /\ MaxId \in [Modes -> Nat]

VARIABLES
    mode,       \* mode_
    writes,     \* [Txns -> SUBSET Keys], the keys of Txn::writes_
    tasks       \* [Workers -> Seq(Txns)], StaticThreadPool::queues_

Workers    == Threads \ {Main}
poolVars   == <<mode, writes, tasks>>
clientSide == <<clientVars, txnRequests, txnResults>>

PoolTypeOK ==
    /\ mode \in Modes
    /\ writes \in [Txns -> SUBSET Keys]
    /\ tasks \in [Workers -> Seq(Txns)]

PoolInit ==
    /\ CoreInit("idle")
    /\ mode \in Modes
    /\ writes = [t \in Txns |-> {}]
    /\ tasks = [w \in Workers |-> <<>>]

-----------------------------------------------------------------------------
\* The scheduler hands its next request to the pool: AddTask puts it into the
\* queue of a worker chosen at random.
PassRequest(from) ==
    /\ pc[Main] = from
    /\ txnRequests # <<>>
    /\ txnRequests' = Tail(txnRequests)
    /\ \E w \in Workers : tasks' = [tasks EXCEPT ![w] = Append(@, Head(txnRequests))]
    /\ Goto(Main, "idle")
    /\ UNCHANGED <<clientVars, txnResults, dataVars, cur, todo, mode, writes>>

\* A worker takes the task of t from its queue.
TakeTask(w, t) ==
    /\ pc[w] = "idle"
    /\ tasks[w] # <<>>
    /\ t = Head(tasks[w])
    /\ tasks' = [tasks EXCEPT ![w] = Tail(@)]
    /\ UNCHANGED <<clientSide, dataVars, mode, writes>>

\* A program that votes to abort does so before it writes anything, as Expect
\* does: Txn::Write has no effect afterwards.
Written(t) ==
    writes' = [writes EXCEPT ![t] = IF status'[t] = "COMPLETED_C" THEN writeset[t] ELSE {}]

\* Txn::Run() where the caller keeps the transaction.
Vote(w) ==
    /\ \E vote \in {"COMPLETED_C"} \cup (IF cur[w] \in MayAbort THEN {"COMPLETED_A"} ELSE {}) :
         status' = [status EXCEPT ![cur[w]] = vote]
    /\ Written(cur[w])
    /\ UNCHANGED <<clientSide, reads, storage, completedTxns, committedTxns, cur, mode,
                   tasks>>

\* The transaction is final, whatever it voted.
MarkCommitted(w) ==
    /\ committedTxns' = Append(committedTxns, cur[w])
    /\ status' = [status EXCEPT ![cur[w]] = "COMMITTED"]
    /\ Goto(w, "result")
    /\ UNCHANGED <<clientSide, reads, storage, completedTxns, cur, todo, poolVars>>

\* Clean up, and back into the queue of requests with a new id.
Restart_Answered(w) ==
    /\ nextUniqueId <= MaxId[mode]
    /\ reads' = [reads EXCEPT ![cur[w]] = [k \in Keys |-> Unread]]
    /\ writes' = [writes EXCEPT ![cur[w]] = {}]
    /\ status' = [status EXCEPT ![cur[w]] = "INCOMPLETE"]
    /\ uniqueId' = [uniqueId EXCEPT ![cur[w]] = nextUniqueId]
    /\ nextUniqueId' = nextUniqueId + 1
    /\ txnRequests' = Append(txnRequests, cur[w])
    /\ txnResults' = Append(txnResults, cur[w])
    /\ Goto(w, "idle")
    /\ cur' = [cur EXCEPT ![w] = NoTxn]
    /\ UNCHANGED <<returned, storage, completedTxns, committedTxns, todo, mode, tasks>>
Restart(w) ==
    /\ nextUniqueId <= MaxId[mode]
    /\ reads' = [reads EXCEPT ![cur[w]] = [k \in Keys |-> Unread]]
    /\ writes' = [writes EXCEPT ![cur[w]] = {}]
    /\ status' = [status EXCEPT ![cur[w]] = "INCOMPLETE"]
    /\ uniqueId' = [uniqueId EXCEPT ![cur[w]] = nextUniqueId]
    /\ nextUniqueId' = nextUniqueId + 1
    /\ txnRequests' = Append(txnRequests, cur[w])
    /\ Goto(w, "idle")
    /\ cur' = [cur EXCEPT ![w] = NoTxn]
    /\ UNCHANGED <<returned, txnResults, storage, completedTxns, committedTxns, todo, mode,
                   tasks>>
=============================================================================
