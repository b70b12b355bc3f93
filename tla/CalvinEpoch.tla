---------------------------- MODULE CalvinEpoch ----------------------------
(***************************************************************************)
(* CALVIN_EPOCH mode.  A sequencer thread cuts the stream of requests into *)
(* epochs; the scheduler thread turns each epoch into a dependency DAG,    *)
(* hands its roots to the executors and waits until the epoch is over      *)
(* before it frees the DAG; executor threads run ready transactions and    *)
(* release their neighbours in the DAG.  Threads are the executors: the    *)
(* THREAD_COUNT loops of CalvinEpochExecutorFunc in the pool.              *)
(*                                                                         *)
(* The loops poll.  A failed Pop changes nothing and is not a step; a      *)
(* thread that read stopped_ as false may still pop once after the         *)
(* destructor has set it, which is why the pops have no guard on stopped.  *)
(***************************************************************************)
EXTENDS TxnCore, Queues

CONSTANT MayStop    \* whether the client may call the destructor

ASSUME EpochAssumption == MayStop \in BOOLEAN

VARIABLES
    stopped,        \* stopped_
    seqPc,          \* the sequencer: "running", "closing" (its last round), "exited"
    currentEpoch,   \* the sequencer's current_epoch
    epochQueue,     \* AtomicQueue epoch_queue
    schedPc,        \* the scheduler: "idle", "build", "dispatch", "exited"
    currEpoch,      \* the scheduler's curr_epoch
    sharedHolders,  \* [Keys -> SUBSET Txns], shared_holders
    lastExcl,       \* [Keys -> Values], last_excl, NoTxn when absent
    dagTxns,        \* the keys of dag->adj_list and dag->indegree
    adjList,        \* [Txns -> SUBSET Txns], dag->adj_list
    indegree,       \* [Txns -> Int], dag->indegree
    rootTxns,       \* dag->root_txns
    currentDag,     \* current_epoch_dag # NULL
    numLeft,        \* num_txns_left_in_epoch
    readyTxns       \* AtomicQueue calvin_ready_txns_

seqVars   == <<seqPc, currentEpoch>>
buildVars == <<currEpoch, sharedHolders, lastExcl>>
dagVars   == <<dagTxns, adjList, indegree, rootTxns>>
epochVars == <<stopped, seqVars, epochQueue, schedPc, buildVars, dagVars,
               currentDag, numLeft, readyTxns>>
vars      == <<coreVars, epochVars>>

Idle       == [k \in Keys |-> NoTxn]
NoHolders  == [k \in Keys |-> {}]
NoEdges    == [t \in Txns |-> {}]
Zeros      == [t \in Txns |-> 0]

\* Where an executor is between the Pop of its transaction and the countdown
\* that tells the scheduler it is done with the DAG.
BusyPcs == {"readset", "writeset", "decide", "apply", "neighbors", "unblock"}
Busy(w) == pc[w] \in BusyPcs

EpochTypeOK ==
    /\ stopped \in BOOLEAN
    /\ seqPc \in {"running", "closing", "exited"}
    /\ currentEpoch \in Seq(Txns)
    /\ epochQueue \in Seq(Seq(Txns))
    /\ schedPc \in {"idle", "build", "dispatch", "exited"}
    /\ currEpoch \in Seq(Txns)
    /\ sharedHolders \in [Keys -> SUBSET Txns]
    /\ lastExcl \in [Keys -> Values]
    /\ dagTxns \subseteq Txns
    /\ adjList \in [Txns -> SUBSET Txns]
    /\ indegree \in [Txns -> Int]
    /\ rootTxns \in Seq(Txns)
    /\ currentDag \in BOOLEAN
    /\ numLeft \in Nat
    /\ readyTxns \in Seq(Txns)

TypeOK ==
    /\ CoreTypeOK
    /\ pc \in [Threads -> BusyPcs \cup {"idle", "result", "exited"}]
    /\ EpochTypeOK

Init ==
    /\ CoreInit("idle")
    /\ stopped = FALSE
    /\ seqPc = "running"
    /\ currentEpoch = <<>>
    /\ epochQueue = <<>>
    /\ schedPc = "idle"
    /\ currEpoch = <<>>
    /\ sharedHolders = NoHolders
    /\ lastExcl = Idle
    /\ dagTxns = {}
    /\ adjList = NoEdges
    /\ indegree = Zeros
    /\ rootTxns = <<>>
    /\ currentDag = FALSE
    /\ numLeft = 0
    /\ readyTxns = <<>>

-----------------------------------------------------------------------------
(* The client and the destructor. *)

Submit(t) == NewTxnRequest(t) /\ ~stopped /\ UNCHANGED epochVars

TakeResult == GetTxnResult /\ ~stopped /\ UNCHANGED epochVars

\* The destructor's first statement; what follows it is two joins.
Stop ==
    /\ MayStop
    /\ ~stopped
    /\ stopped' = TRUE
    /\ UNCHANGED <<coreVars, seqVars, epochQueue, schedPc, buildVars, dagVars,
                   currentDag, numLeft, readyTxns>>

-----------------------------------------------------------------------------
(* The sequencer. *)

SequencerPop ==
    /\ seqPc = "running"
    /\ txnRequests # <<>>
    /\ currentEpoch' = Append(currentEpoch, Head(txnRequests))
    /\ txnRequests' = Tail(txnRequests)
    /\ seqPc' = IF stopped THEN "closing" ELSE seqPc
    /\ UNCHANGED <<clientVars, txnResults, dataVars, threadVars, stopped, epochQueue,
                   schedPc, buildVars, dagVars, currentDag, numLeft, readyTxns>>

CloseEpoch_KeepsEpoch ==
    /\ seqPc \in {"running", "closing"}
    /\ currentEpoch # <<>>
    /\ epochQueue' = Append(epochQueue, currentEpoch)
    /\ seqPc' = IF stopped THEN "exited" ELSE seqPc
    /\ UNCHANGED <<coreVars, stopped, currentEpoch, schedPc, buildVars, dagVars,
                   currentDag, numLeft, readyTxns>>

\* More than 5 ms have passed since the last close; an empty epoch is kept.
CloseEpoch ==
    /\ seqPc \in {"running", "closing"}
    /\ currentEpoch # <<>>
    /\ epochQueue' = Append(epochQueue, currentEpoch)
    /\ currentEpoch' = <<>>
    /\ seqPc' = IF stopped THEN "exited" ELSE seqPc
    /\ UNCHANGED <<coreVars, stopped, schedPc, buildVars, dagVars, currentDag,
                   numLeft, readyTxns>>

SequencerExit ==
    /\ stopped
    /\ seqPc # "exited"
    /\ seqPc' = "exited"
    /\ UNCHANGED <<coreVars, stopped, currentEpoch, epochQueue, schedPc, buildVars,
                   dagVars, currentDag, numLeft, readyTxns>>

-----------------------------------------------------------------------------
(* The scheduler. *)

PopEpoch ==
    /\ schedPc = "idle"
    /\ epochQueue # <<>>
    /\ currEpoch' = Head(epochQueue)
    /\ epochQueue' = Tail(epochQueue)
    /\ schedPc' = "build"
    /\ UNCHANGED <<coreVars, stopped, seqVars, sharedHolders, lastExcl, dagVars,
                   currentDag, numLeft, readyTxns>>

\* shared_holders after the loop over t's readset.
HoldersAfterReads(t) ==
    [k \in Keys |-> sharedHolders[k] \cup {p \in {t} : k \in readset[t]}]

\* shared_holders after the loop over t's writeset, and last_excl.
HoldersAfterWrites_NotCleared(t) == HoldersAfterReads(t)
HoldersAfterWrites(t) ==
    [k \in Keys |-> IF k \in writeset[t] THEN {} ELSE HoldersAfterReads(t)[k]]

LastExclAfter(t) == [k \in Keys |-> IF k \in writeset[t] THEN t ELSE lastExcl[k]]

\* The transactions that get an edge to t: the last writer of each key t
\* reads, and, for each key t writes, the readers since its last writer.  The
\* writer before t of a key t writes is not among them.
ReadPredecessors(t)  == {lastExcl[k] : k \in readset[t]} \ {NoTxn}
WritePredecessors(t) == UNION {HoldersAfterReads(t)[k] : k \in writeset[t]}
Predecessors_ReadsOnly(t) == ReadPredecessors(t)
Predecessors(t)      == ReadPredecessors(t) \cup WritePredecessors(t)

\* One increment per new edge: adj_list->at(p).contains(t) is tested first.
EdgesInto_PerKey(t) == Cardinality(ReadPredecessors(t)) + Cardinality(WritePredecessors(t))
EdgesInto(t) == Cardinality(Predecessors(t))

\* One iteration of the loop that builds the DAG.
AddToDag ==
    /\ schedPc = "build"
    /\ currEpoch # <<>>
    /\ LET t     == Head(currEpoch)
           preds == Predecessors(t)
       IN  /\ currEpoch' = Tail(currEpoch)
           /\ dagTxns' = dagTxns \cup {t}
           /\ adjList' = [p \in Txns |-> adjList[p] \cup {s \in {t} : p \in preds}]
           /\ indegree' = [indegree EXCEPT ![t] = EdgesInto(t)]
           /\ sharedHolders' = HoldersAfterWrites(t)
           /\ lastExcl' = LastExclAfter(t)
           /\ rootTxns' = IF preds = {} THEN Append(rootTxns, t) ELSE rootTxns
    /\ UNCHANGED <<coreVars, stopped, seqVars, epochQueue, schedPc, currentDag,
                   numLeft, readyTxns>>

\* num_txns_left_in_epoch = current_epoch_dag->adj_list->size()
EpochSize_Roots == Len(rootTxns)
EpochSize == Cardinality(dagTxns)

\* CalvinExecuteSingleEpoch begins.
PublishDag ==
    /\ schedPc = "build"
    /\ currEpoch = <<>>
    /\ schedPc' = "dispatch"
    /\ currentDag' = TRUE
    /\ numLeft' = EpochSize
    /\ UNCHANGED <<coreVars, stopped, seqVars, epochQueue, buildVars, dagVars, readyTxns>>

PushRoot ==
    /\ schedPc = "dispatch"
    /\ rootTxns # <<>>
    /\ readyTxns' = Append(readyTxns, Head(rootTxns))
    /\ rootTxns' = Tail(rootTxns)
    /\ UNCHANGED <<coreVars, stopped, seqVars, epochQueue, schedPc, buildVars, dagTxns,
                   adjList, indegree, currentDag, numLeft>>

\* The condition of the wait, which does not mention stopped_.
EpochOver_NoWait == TRUE
EpochOver_OrStopped == stopped \/ ~(numLeft > 0)
EpochOver == ~(numLeft > 0)

\* The wait is over: the DAG is deleted, and with the end of the scope
\* shared_holders and last_excl.
FreeDag ==
    /\ schedPc = "dispatch"
    /\ rootTxns = <<>>
    /\ EpochOver
    /\ schedPc' = IF stopped THEN "exited" ELSE "idle"
    /\ currentDag' = FALSE
    /\ dagTxns' = {}
    /\ adjList' = NoEdges
    /\ indegree' = Zeros
    /\ sharedHolders' = NoHolders
    /\ lastExcl' = Idle
    /\ UNCHANGED <<coreVars, stopped, seqVars, epochQueue, currEpoch, rootTxns, numLeft,
                   readyTxns>>

SchedulerExit ==
    /\ stopped
    /\ schedPc = "idle"
    /\ schedPc' = "exited"
    /\ UNCHANGED <<coreVars, stopped, seqVars, epochQueue, buildVars, dagVars, currentDag,
                   numLeft, readyTxns>>

-----------------------------------------------------------------------------
(* The executors. *)

PopReady(w) ==
    /\ pc[w] = "idle"
    /\ readyTxns # <<>>
    /\ StartExecute(w, Head(readyTxns))
    /\ readyTxns' = Tail(readyTxns)
    /\ UNCHANGED <<clientVars, txnRequests, txnResults, dataVars, stopped, seqVars,
                   epochQueue, schedPc, buildVars, dagVars, currentDag, numLeft>>

\* ExecuteTxn, ApplyWrites and the decision.
ExecuteAndDecide(w) ==
    /\ \/ ReadRecord(w)
       \/ EndReadset(w)
       \/ Run(w, "decide")
       \/ StartApply(w)
       \/ ApplyWrite(w)
       \/ Commit(w, "neighbors")
       \/ Abort(w, "neighbors")
    /\ UNCHANGED <<clientVars, txnRequests, txnResults, epochVars>>

\* auto neighbors = current_epoch_dag->adj_list->at(txn), a copy.
CopyNeighbors(w) ==
    /\ pc[w] = "neighbors"
    /\ Goto(w, "unblock")
    /\ todo' = [todo EXCEPT ![w] = adjList[cur[w]]]
    /\ UNCHANGED <<clientVars, txnRequests, txnResults, dataVars, cur, epochVars>>

\* indegree->at(t)-- == 1: the post-decrement of the std::atomic<int> hands out
\* the value 1 to one executor only.
Released_Always(t) == TRUE
Released_AtZero(t) == indegree[t] = 0
Released(t) == indegree[t] = 1

\* One iteration of the loop over the neighbours, in the set's own order.
UnblockNeighbor(w, t) ==
    /\ pc[w] = "unblock"
    /\ t \in todo[w]
    /\ todo' = [todo EXCEPT ![w] = todo[w] \ {t}]
    /\ indegree' = [indegree EXCEPT ![t] = indegree[t] - 1]
    /\ readyTxns' = IF Released(t) THEN Append(readyTxns, t) ELSE readyTxns
    /\ UNCHANGED <<clientVars, txnRequests, txnResults, dataVars, pc, cur, stopped,
                   seqVars, epochQueue, schedPc, buildVars, dagTxns, adjList, rootTxns,
                   currentDag, numLeft>>

\* num_txns_left_in_epoch--
CountDown(w) ==
    /\ pc[w] = "unblock"
    /\ todo[w] = {}
    /\ numLeft' = numLeft - 1
    /\ Goto(w, "result")
    /\ UNCHANGED <<clientVars, txnRequests, txnResults, dataVars, cur, todo, stopped,
                   seqVars, epochQueue, schedPc, buildVars, dagVars, currentDag, readyTxns>>

ReturnResult(w) == PushResult(w) /\ UNCHANGED epochVars

ExecutorExit(w) ==
    /\ stopped
    /\ pc[w] = "idle"
    /\ Goto(w, "exited")
    /\ UNCHANGED <<clientVars, txnRequests, txnResults, dataVars, cur, todo, epochVars>>

-----------------------------------------------------------------------------
AllAnswered == \A t \in Txns : t \in returned
AllExited   == seqPc = "exited" /\ schedPc = "exited" /\ \A w \in Threads : pc[w] = "exited"

\* Nothing is left to do; any other state without a successor is a deadlock.
Terminating ==
    /\ IF stopped THEN AllExited ELSE AllAnswered
    /\ UNCHANGED vars

Sequencer == SequencerPop \/ CloseEpoch \/ SequencerExit
Scheduler == PopEpoch \/ AddToDag \/ PublishDag \/ PushRoot \/ FreeDag \/ SchedulerExit
Executor(w) ==
    \/ PopReady(w)
    \/ ExecuteAndDecide(w)
    \/ CopyNeighbors(w)
    \/ \E t \in Txns : UnblockNeighbor(w, t)
    \/ CountDown(w)
    \/ ReturnResult(w)
    \/ ExecutorExit(w)

Next ==
    \/ \E t \in Txns : Submit(t)
    \/ TakeResult
    \/ Stop
    \/ Sequencer
    \/ Scheduler
    \/ \E w \in Threads : Executor(w)
    \/ Terminating

\* Every thread of the process is eventually scheduled, the sequencer's clock
\* advances, and the client polls for its results.  Nobody has to submit or stop.
Fairness ==
    /\ WF_vars(TakeResult)
    /\ WF_vars(SequencerPop)
    /\ WF_vars(CloseEpoch)
    /\ WF_vars(SequencerExit)
    /\ WF_vars(Scheduler)
    /\ \A w \in Threads : WF_vars(Executor(w))

Spec     == Init /\ [][Next]_vars
FairSpec == Spec /\ Fairness
-----------------------------------------------------------------------------
(* Properties. *)

Holds(w, t) == cur[w] = t
Running(t)  == \E w \in Threads : Busy(w) /\ Holds(w, t)

\* The transactions of the epoch that have not been counted down yet.
Undone == {t \in dagTxns : ~Decided(t) \/ Running(t)}

\* p's decrement of its neighbour t's indegree is still to come.
Pending(p, t) ==
    /\ t \in adjList[p]
    /\ p \in Undone
    /\ ~ \E w \in Threads : pc[w] = "unblock" /\ Holds(w, p) /\ t \notin todo[w]

\* The executors dereference current_epoch_dag only while it is the DAG of
\* their own transaction: the scheduler neither frees it nor moves on to the
\* next epoch before the last executor has left it (calvin.cc:480 and 529).
NoUseOfFreedDag == \A w \in Threads : Busy(w) => currentDag /\ cur[w] \in dagTxns

\* A transaction's indegree is always the number of predecessors that have
\* yet to release it, whatever executors are in the middle of their loops.
IndegreeCountsPending ==
    \A t \in dagTxns : indegree[t] = Cardinality({p \in dagTxns : Pending(p, t)})

\* A transaction is handed to the executors, and so reads, only when every
\* transaction with an edge to it is decided and its writes are installed.
PredecessorsDecided ==
    \A p, t \in dagTxns :
        (t \in adjList[p] /\ (t \in Elements(readyTxns) \/ Running(t) \/ Decided(t)))
            => Decided(p)

\* A transaction runs only when those of all earlier epochs are decided.
EpochBarrier ==
    \A w \in Threads : Busy(w) =>
        \A p \in Txns : (Earlier(p, cur[w]) /\ p \notin dagTxns) => Decided(p)

BlockedInDag(t) == t \in dagTxns /\ indegree[t] > 0

\* A submitted transaction is in exactly one place between NewTxnRequest and
\* the client's hands: no step of any of the threads loses it or schedules it
\* twice, although it crosses five queues and the DAG.
EachRequestInOnePlace ==
    \A t \in Txns :
        One(uniqueId[t] > 0) =
            Copies(txnRequests, t) + Copies(currentEpoch, t) + Copies(currEpoch, t)
            + Cardinality({i \in DOMAIN epochQueue : Copies(epochQueue[i], t) > 0})
            + One(BlockedInDag(t)) + Copies(rootTxns, t) + Copies(readyTxns, t)
            + Cardinality({w \in Threads : Holds(w, t)})
            + Copies(txnResults, t) + One(t \in returned)

WriterBetween(p, t, k) ==
    \E q \in dagTxns : k \in writeset[q] /\ Earlier(p, q) /\ Earlier(q, t)

\* The edges calvin.cc's scan adds, said without the scan: from the last
\* writer of a key to its later readers, and from a key's readers to the next
\* writer.  Between two writers there is none (see README), also when the first
\* one reads the key as well: its write takes it out of the key's readers.
ConflictEdge(p, t) ==
    \E k \in Keys :
        \/ /\ k \in writeset[p] /\ k \in readset[t]
           /\ Earlier(p, t)
           /\ ~WriterBetween(p, t, k)
        \/ /\ k \in readset[p] /\ k \in writeset[t]
           /\ (Earlier(p, t) /\ k \notin writeset[p]) \/ p = t
           /\ ~WriterBetween(p, t, k)

\* The DAG has exactly those edges, at every moment of its construction and
\* of its use.
DagIsConflictOrder ==
    \A p, t \in dagTxns : t \in adjList[p] <=> ConflictEdge(p, t)

\* Every two writers of k have a reader of k between them.
WritersSeparated(k) ==
    \A p, t \in Txns :
        (k \in writeset[p] /\ k \in writeset[t] /\ Earlier(p, t)) =>
            \E r \in Txns : k \in readset[r] /\ Earlier(p, r) /\ Earlier(r, t)

\* Under a key whose writers are so separated, every transaction reads what it
\* would have read had the transactions run one at a time in arrival order,
\* whatever the epochs and the interleaving of the executors.
SeparatedKeysReadSerially ==
    \A k \in Keys : WritersSeparated(k) => \A t \in Txns : ReadsSerially(t, k)

\* What the client gets back is COMMITTED or ABORTED (txn_processor.h:59) and
\* no thread of the processor will touch it again: the client may delete it.
ClientOwnsResults ==
    \A t \in returned \cup Elements(txnResults) :
        /\ Decided(t)
        /\ \A w \in Threads : ~Holds(w, t)
        /\ t \notin Elements(readyTxns) \cup Undone

\* Once the destructor's two joins have returned it deletes storage_
\* (txn_processor.cc:97): no executor is still between its Pop and its
\* countdown then, although the destructor has not joined the executors yet.
NobodyBusyAfterJoins ==
    (seqPc = "exited" /\ schedPc = "exited") => \A w \in Threads : ~Busy(w)

\* A decided transaction is never executed again: its status and what it read
\* are final.
DecidedIsFinal ==
    [][\A t \in Txns : Decided(t) => status'[t] = status[t] /\ reads'[t] = reads[t]]_vars

\* Unless the processor is being destroyed, every request is answered and
\* its answer reaches the client.
EveryRequestAnswered ==
    \A t \in Txns : (uniqueId[t] > 0) ~> (t \in returned \/ stopped)

\* src/README.md:5 presents DAGER as a deterministic system: what a
\* transaction reads is fixed by the order in which transactions arrived.
Deterministic == \A t \in Txns, k \in Keys : ReadsSerially(t, k)

\* txn_processor.h:51: the destructor stops all background threads.
DestructorStopsThreads == stopped ~> AllExited
=============================================================================
