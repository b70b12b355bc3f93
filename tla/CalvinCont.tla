----------------------------- MODULE CalvinCont -----------------------------
(***************************************************************************)
(* CALVIN_CONT mode.  The scheduler adds each request to one DAG that      *)
(* never ends, the executors run the transactions whose indegree is zero   *)
(* and release their neighbours; both do so under adj_list_lock and        *)
(* indegree_lock.  An edge is added only from a transaction that the       *)
(* scheduler sees INCOMPLETE, in a field nobody locks.                     *)
(*                                                                         *)
(* Left out: the edges between writers, which line 56 puts into            *)
(* Txn::neighbors, where no thread of this mode looks for them.            *)
(***************************************************************************)
EXTENDS ContinuousDag

VARIABLES
    adjList,        \* [Txns -> SUBSET Txns], adj_list
    adjLock,        \* the threads that hold adj_list_lock
    indLock         \* the threads that hold indegree_lock

dagVars    == <<sharedHolders, lastExcl, adjList, indegree>>
lockVars   == <<adjLock, indLock>>
contVars   == <<stopped, dagVars, lockVars, readyTxns>>
vars       == <<coreVars, contVars>>

TypeOK ==
    /\ CoreTypeOK
    /\ pc \in [Threads -> {"idle", "lockAdj", "lockInd", "scan", "readset", "writeset",
                           "decide", "apply", "unblock", "unlockAdj",
                           "unlockInd", "result", "exited"}]
    /\ ContTypeOK
    /\ adjList \in [Txns -> SUBSET Txns]
    /\ adjLock \subseteq Threads
    /\ indLock \subseteq Threads

Init ==
    /\ ContInit
    /\ adjList = [t \in Txns |-> {}]
    /\ adjLock = {}
    /\ indLock = {}

-----------------------------------------------------------------------------
(* The client and the destructor. *)

Submit(t) == NewTxnRequest(t) /\ ~stopped /\ UNCHANGED contVars

TakeResult == GetTxnResult /\ ~stopped /\ UNCHANGED contVars

Stop ==
    /\ MayStop
    /\ ~stopped
    /\ stopped' = TRUE
    /\ UNCHANGED <<coreVars, dagVars, lockVars, readyTxns>>

-----------------------------------------------------------------------------
(* The two locks, which everybody takes in this order. *)

LockAdj(w) ==
    /\ pc[w] = "lockAdj"
    /\ adjLock = {}
    /\ adjLock' = {w}
    /\ Goto(w, "lockInd")
    /\ UNCHANGED <<clientSide, dataVars, cur, todo, stopped, dagVars, indLock, readyTxns>>

\* Under the second lock an executor first copies adj_list[txn].
LockInd(w) ==
    /\ pc[w] = "lockInd"
    /\ indLock = {}
    /\ indLock' = {w}
    /\ Goto(w, IF w = Main THEN "scan" ELSE "unblock")
    /\ todo' = IF w = Main THEN todo ELSE [todo EXCEPT ![w] = adjList[cur[w]]]
    /\ UNCHANGED <<clientSide, dataVars, cur, stopped, dagVars, adjLock, readyTxns>>

\* The scheduler gives indegree_lock back first, an executor last.
UnlockInd_Kept(w) ==
    /\ pc[w] = "unlockInd"
    /\ Goto(w, IF w = Main THEN "unlockAdj" ELSE "result")
    /\ UNCHANGED <<clientSide, dataVars, cur, todo, stopped, dagVars, lockVars, readyTxns>>
UnlockInd(w) ==
    /\ pc[w] = "unlockInd"
    /\ indLock' = {}
    /\ Goto(w, IF w = Main THEN "unlockAdj" ELSE "result")
    /\ UNCHANGED <<clientSide, dataVars, cur, todo, stopped, dagVars, adjLock, readyTxns>>

UnlockAdj(w) ==
    /\ \/ pc[w] = "unlockAdj"
       \/ pc[w] = "unblock" /\ todo[w] = {}
    /\ adjLock' = {}
    /\ Goto(w, IF w = Main THEN "idle" ELSE "unlockInd")
    /\ cur' = IF w = Main THEN [cur EXCEPT ![w] = NoTxn] ELSE cur
    /\ UNCHANGED <<clientSide, dataVars, todo, stopped, dagVars, indLock, readyTxns>>

-----------------------------------------------------------------------------
(* The scheduler. *)

PopRequest ==
    /\ pc[Main] = "idle"
    /\ txnRequests # <<>>
    /\ txnRequests' = Tail(txnRequests)
    /\ cur' = [cur EXCEPT ![Main] = Head(txnRequests)]
    /\ Goto(Main, "lockAdj")
    /\ UNCHANGED <<clientVars, txnResults, dataVars, todo, contVars>>

\* The transactions whose status the scheduler may still read as INCOMPLETE
\* although they have voted or decided: their executors have written status_
\* without a lock, and have not taken adj_list_lock since.
StatusRacy ==
    {t \in Txns : \E w \in Executors : cur[w] = t /\ pc[w] \in {"decide", "apply", "lockAdj"}}

\* The transactions t conflicts with: the readers, since its last writer, of
\* each key t writes, and the last writer of each key t only reads.
Conflicting_ReadersForgotten(t) ==
    {lastExcl[k] : k \in readset[t] \ writeset[t]} \ {NoTxn}
Conflicting(t) ==
    (UNION {sharedHolders[k] : k \in writeset[t]})
        \cup ({lastExcl[k] : k \in readset[t] \ writeset[t]} \ {NoTxn})

HoldersAfter(t) ==
    [k \in Keys |-> (IF k \in writeset[t] THEN {} ELSE sharedHolders[k])
                        \cup {u \in {t} : k \in readset[t]}]

LastExclAfter(t) == [k \in Keys |-> IF k \in writeset[t] THEN t ELSE lastExcl[k]]

\* One ind++ for each edge that is new: adj_list[p].contains(t) is tested.
Edges_PerKey(t, preds) ==
    Cardinality(preds) + Cardinality({k \in readset[t] : lastExcl[k] \in preds})
Edges(t, preds) == Cardinality(preds)

\* From the creation of adj_list[txn] to the end of the scan.  The statuses
\* are read one after the other while executors vote; what matters of that,
\* and of the race, is which of StatusRacy are seen INCOMPLETE.
AddToDag ==
    /\ pc[Main] = "scan"
    /\ \E stale \in SUBSET StatusRacy :
         LET t     == cur[Main]
             preds == {p \in Conflicting(t) : status[p] = "INCOMPLETE" \/ p \in stale}
             ind   == Edges(t, preds)
         IN  /\ adjList' = [p \in Txns |-> (IF p = t THEN {} ELSE adjList[p])
                                               \cup {u \in {t} : p \in preds}]
             /\ sharedHolders' = HoldersAfter(t)
             /\ lastExcl' = LastExclAfter(t)
             /\ IF ind = 0
                  THEN readyTxns' = Append(readyTxns, t) /\ UNCHANGED indegree
                  ELSE indegree' = [indegree EXCEPT ![t] = ind] /\ UNCHANGED readyTxns
    /\ Goto(Main, "unlockInd")
    /\ UNCHANGED <<clientSide, dataVars, cur, todo, stopped, lockVars>>

SchedulerExit == Exit(Main) /\ UNCHANGED contVars

-----------------------------------------------------------------------------
(* The executors. *)

PopReady(w) ==
    /\ pc[w] = "idle"
    /\ readyTxns # <<>>
    /\ StartExecute(w, Head(readyTxns))
    /\ readyTxns' = Tail(readyTxns)
    /\ UNCHANGED <<clientSide, dataVars, stopped, dagVars, lockVars>>

\* ExecuteTxn, ApplyWrites and the decision.
ExecuteAndDecide(w) == Execution(w, "lockAdj") /\ UNCHANGED <<clientSide, contVars>>

Released_Always(t) == TRUE
Released_BeforeDecrement(t) == indegree[t] = 0
Released(t) == indegree[t] = 1

\* One iteration of the loop over the neighbours.
UnblockNeighbor(w, t) ==
    /\ pc[w] = "unblock"
    /\ t \in todo[w]
    /\ todo' = [todo EXCEPT ![w] = @ \ {t}]
    /\ indegree' = [indegree EXCEPT ![t] = @ - 1]
    /\ readyTxns' = IF Released(t) THEN Append(readyTxns, t) ELSE readyTxns
    /\ UNCHANGED <<clientSide, dataVars, pc, cur, stopped, sharedHolders, lastExcl,
                   adjList, lockVars>>

ReturnResult(w) == PushResult(w) /\ UNCHANGED contVars

ExecutorExit(w) == Exit(w) /\ UNCHANGED contVars

-----------------------------------------------------------------------------
Terminating == Finished /\ UNCHANGED vars

Lock(w)   == LockAdj(w) \/ LockInd(w) \/ UnlockInd(w) \/ UnlockAdj(w)

Scheduler == PopRequest \/ Lock(Main) \/ AddToDag \/ SchedulerExit

Executor(w) ==
    \/ PopReady(w)
    \/ ExecuteAndDecide(w)
    \/ Lock(w)
    \/ \E t \in Txns : UnblockNeighbor(w, t)
    \/ ReturnResult(w)
    \/ ExecutorExit(w)

Next ==
    \/ \E t \in Txns : Submit(t)
    \/ TakeResult
    \/ Stop
    \/ Scheduler
    \/ \E w \in Executors : Executor(w)
    \/ Terminating

\* Every thread is eventually scheduled and the client polls for its results.
\* A thread that waits for a lock may be overtaken, by finitely many requests.
Fairness ==
    /\ WF_vars(TakeResult)
    /\ WF_vars(Scheduler)
    /\ \A w \in Executors : WF_vars(Executor(w))

Spec     == Init /\ [][Next]_vars
FairSpec == Spec /\ Fairness
-----------------------------------------------------------------------------
(* Properties. *)

\* p has still to decrement the indegree of its neighbour t.
Pending(p, t) ==
    PendingIn(adjList, {"readset", "writeset", "decide", "apply", "lockAdj", "lockInd"}, p, t)

\* indegree[t] is the number of transactions that have yet to release t, while
\* the DAG grows under the scheduler and shrinks under the executors.
IndegreeCountsPending ==
    \A t \in Txns : indegree[t] = Cardinality({p \in Txns : Pending(p, t)})

\* A transaction with an edge to it is handed to the executors only when the
\* transaction at the other end is decided and its writes are installed.
PredecessorsDecided ==
    \A p, t \in Txns : t \in adjList[p] /\ HandedOver(t) => Decided(p)

\* A submitted transaction is in exactly one place on its way to the client's
\* hands, although scheduler and executors both decide when it is ready.
EachRequestInOnePlace ==
    \A t \in Txns :
        One(uniqueId[t] > 0) =
            Copies(txnRequests, t) + Cardinality({w \in Threads : cur[w] = t})
            - One(cur[Main] = t /\ pc[Main] \in {"unlockInd", "unlockAdj"})
            + One(indegree[t] > 0) + Copies(readyTxns, t)
            + Copies(txnResults, t) + One(t \in returned)

\* Every two writers of k have a reader of k between them.
WritersSeparated(k) ==
    \A p, t \in Txns :
        (k \in writeset[p] /\ k \in writeset[t] /\ Earlier(p, t)) =>
            \E r \in Txns : k \in readset[r] /\ Earlier(p, r) /\ Earlier(r, t)

\* Under a key whose writers are so separated no transaction reads what a later
\* one writes: a writer never overtakes a reader that has not voted.
NothingReadFromTheFuture ==
    \A k \in Keys : WritersSeparated(k) =>
        \A t \in Txns : reads[t][k] \in Txns => Earlier(reads[t][k], t)

\* txn_processor.h:51: the destructor stops all background threads, whatever
\* locks they hold or wait for when it is called.
DestructorStopsThreads == stopped ~> AllExited

\* calvin.cc:75: "If the last_excl txn is not the current txn, add an edge", so
\* that under separated keys everyone reads as in a serial execution in order
\* of arrival.
SeparatedKeysReadSerially ==
    \A t \in Txns, k \in Keys :
        WritersSeparated(k) /\ (\A p \in Txns : Earlier(p, t) => Decided(p))
            => ReadsSerially(t, k)
=============================================================================
