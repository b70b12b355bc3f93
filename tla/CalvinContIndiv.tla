-------------------------- MODULE CalvinContIndiv --------------------------
(***************************************************************************)
(* CALVIN_CONT_INDIV mode.  The DAG lives in the transactions: each has    *)
(* its neighbors and its indegree, and a mutex for either.  The scheduler  *)
(* keeps the indegree of the transaction it adds locked during the scan    *)
(* and only tries the neighbors_mutex of the others; an executor keeps its *)
(* own neighbors_mutex locked while it releases its neighbours.            *)
(*                                                                         *)
(* A critical section in which nobody else can be seen waiting or trying   *)
(* is one step: the scheduler's under a neighbors_mutex, an executor's     *)
(* under a neighbour's indegree_mutex.                                     *)
(***************************************************************************)
EXTENDS ContinuousDag

VARIABLES
    sharedKeys,     \* the keys shared_holders contains: those ever read
    targets,        \* the transactions the scan still visits for its current key
    neighbors,      \* [Txns -> SUBSET Txns], Txn::neighbors
    neighborsMutex, \* the transactions whose neighbors_mutex an executor holds
    indegreeMutex   \* the transactions whose indegree_mutex the scheduler holds

scanVars   == <<sharedHolders, sharedKeys, lastExcl, targets>>
dagVars    == <<neighbors, indegree>>
mutexVars  == <<neighborsMutex, indegreeMutex>>
indivVars  == <<stopped, scanVars, dagVars, mutexVars, readyTxns>>
vars       == <<coreVars, indivVars>>

TypeOK ==
    /\ CoreTypeOK
    /\ pc \in [Threads -> {"idle", "scanWrites", "scanReads", "readset", "writeset",
                           "decide", "apply", "lock", "unblock", "unlock", "exited"}]
    /\ ContTypeOK
    /\ sharedKeys \subseteq Keys
    /\ targets \subseteq Txns
    /\ neighbors \in [Txns -> SUBSET Txns]
    /\ neighborsMutex \subseteq Txns
    /\ indegreeMutex \subseteq Txns

\* Txn does not initialise indegree; nobody reads it before the scan sets it.
Init ==
    /\ ContInit
    /\ sharedKeys = {}
    /\ targets = {}
    /\ neighbors = [t \in Txns |-> {}]
    /\ neighborsMutex = {}
    /\ indegreeMutex = {}

-----------------------------------------------------------------------------
(* The client and the destructor. *)

Submit(t) == NewTxnRequest(t) /\ ~stopped /\ UNCHANGED indivVars

TakeResult == GetTxnResult /\ ~stopped /\ UNCHANGED indivVars

Stop ==
    /\ MayStop
    /\ ~stopped
    /\ stopped' = TRUE
    /\ UNCHANGED <<coreVars, scanVars, dagVars, mutexVars, readyTxns>>

-----------------------------------------------------------------------------
(* The scheduler. *)

\* Up to the loop over the writeset.
PopRequest ==
    /\ pc[Main] = "idle"
    /\ txnRequests # <<>>
    /\ LET t == Head(txnRequests)
       IN  /\ cur' = [cur EXCEPT ![Main] = t]
           /\ todo' = [todo EXCEPT ![Main] = writeset[t]]
           /\ indegreeMutex' = indegreeMutex \cup {t}
           /\ indegree' = [indegree EXCEPT ![t] = 0]
           /\ neighbors' = [neighbors EXCEPT ![t] = {}]
    /\ txnRequests' = Tail(txnRequests)
    /\ Goto(Main, "scanWrites")
    /\ UNCHANGED <<clientVars, txnResults, dataVars, stopped, scanVars, neighborsMutex,
                   readyTxns>>

\* The transactions to visit for a key t writes: the readers since its last
\* writer once the key has had a reader, else the last writer.
WriteTargets(t, k) ==
    (IF k \in sharedKeys THEN sharedHolders[k] ELSE {lastExcl[k]}) \ {t, NoTxn}

\* The next key of the loop over the writeset, with the changes of the
\* scheduler's own maps that end its iteration.
ScanWrite ==
    /\ pc[Main] = "scanWrites"
    /\ targets = {}
    /\ \E k \in Keys :
         /\ NextKey(Main, k)
         /\ targets' = WriteTargets(cur[Main], k)
         /\ sharedHolders' = [sharedHolders EXCEPT ![k] = {}]
         /\ lastExcl' = [lastExcl EXCEPT ![k] = cur[Main]]
         /\ todo' = [todo EXCEPT ![Main] = @ \ {k}]
    /\ UNCHANGED <<clientSide, dataVars, pc, cur, stopped, sharedKeys, dagVars, mutexVars,
                   readyTxns>>

EndWrites ==
    /\ pc[Main] = "scanWrites"
    /\ targets = {}
    /\ todo[Main] = {}
    /\ Goto(Main, "scanReads")
    /\ todo' = [todo EXCEPT ![Main] = readset[cur[Main]]]
    /\ UNCHANGED <<clientSide, dataVars, cur, indivVars>>

ScanRead ==
    /\ pc[Main] = "scanReads"
    /\ targets = {}
    /\ \E k \in Keys :
         /\ NextKey(Main, k)
         /\ targets' = {lastExcl[k]} \ {cur[Main], NoTxn}
         /\ sharedHolders' = [sharedHolders EXCEPT ![k] = @ \cup {cur[Main]}]
         /\ sharedKeys' = sharedKeys \cup {k}
         /\ todo' = [todo EXCEPT ![Main] = @ \ {k}]
    /\ UNCHANGED <<clientSide, dataVars, pc, cur, stopped, lastExcl, dagVars, mutexVars,
                   readyTxns>>

\* What the scheduler may find p's status to be, other than COMMITTED and
\* ABORTED: p's executor writes it without a lock, and until it takes p's
\* neighbors_mutex the scheduler may still read what was there before.
StatusRacy(p) == \E w \in Executors : cur[w] = p /\ pc[w] = "lock"
SeenUndecided_Incomplete(p, undecided) ==
    undecided = (status[p] = "INCOMPLETE")
SeenUndecided(p, undecided) ==
    \/ undecided = ~Decided(p)
    \/ undecided /\ StatusRacy(p)

\* An edge from p to t, if there is none yet.
AddEdge_Recount(p, t) ==
    /\ indegree' = [indegree EXCEPT ![t] = @ + 1]
    /\ neighbors' = [neighbors EXCEPT ![p] = @ \cup {t}]
AddEdge(p, t) ==
    IF t \in neighbors[p] THEN UNCHANGED dagVars
    ELSE /\ indegree' = [indegree EXCEPT ![t] = @ + 1]
         /\ neighbors' = [neighbors EXCEPT ![p] = @ \cup {t}]

\* try_lock fails while p's executor releases p's neighbours.
TryEdge_Blocking(p) ==
    /\ p \in targets
    /\ p \notin neighborsMutex
    /\ targets' = targets \ {p}
    /\ \E undecided \in BOOLEAN :
         /\ SeenUndecided(p, undecided)
         /\ IF undecided THEN AddEdge(p, cur[Main]) ELSE UNCHANGED dagVars
    /\ UNCHANGED <<coreVars, stopped, sharedHolders, sharedKeys, lastExcl, mutexVars,
                   readyTxns>>
TryEdge(p) ==
    /\ p \in targets
    /\ targets' = targets \ {p}
    /\ \/ p \in neighborsMutex /\ UNCHANGED dagVars
       \/ /\ p \notin neighborsMutex
          /\ \E undecided \in BOOLEAN :
               /\ SeenUndecided(p, undecided)
               /\ IF undecided THEN AddEdge(p, cur[Main]) ELSE UNCHANGED dagVars
    /\ UNCHANGED <<coreVars, stopped, sharedHolders, sharedKeys, lastExcl, mutexVars,
                   readyTxns>>

EndScan ==
    /\ pc[Main] = "scanReads"
    /\ targets = {}
    /\ todo[Main] = {}
    /\ readyTxns' = IF indegree[cur[Main]] = 0 THEN Append(readyTxns, cur[Main]) ELSE readyTxns
    /\ indegreeMutex' = indegreeMutex \ {cur[Main]}
    /\ Goto(Main, "idle")
    /\ cur' = [cur EXCEPT ![Main] = NoTxn]
    /\ UNCHANGED <<clientSide, dataVars, todo, stopped, scanVars, dagVars, neighborsMutex>>

SchedulerExit == Exit(Main) /\ UNCHANGED indivVars

-----------------------------------------------------------------------------
(* The executors. *)

PopReady(w) ==
    /\ pc[w] = "idle"
    /\ readyTxns # <<>>
    /\ StartExecute(w, Head(readyTxns))
    /\ readyTxns' = Tail(readyTxns)
    /\ UNCHANGED <<clientSide, dataVars, stopped, scanVars, dagVars, mutexVars>>

\* ExecuteTxn, ApplyWrites and the decision.
ExecuteAndDecide(w) == Execution(w, "lock") /\ UNCHANGED <<clientSide, indivVars>>

\* neighbors_mutex.lock(), and the copy of the neighbours.
LockNeighbors(w) ==
    /\ pc[w] = "lock"
    /\ neighborsMutex' = neighborsMutex \cup {cur[w]}
    /\ Goto(w, "unblock")
    /\ todo' = [todo EXCEPT ![w] = neighbors[cur[w]]]
    /\ UNCHANGED <<clientSide, dataVars, cur, stopped, scanVars, dagVars, indegreeMutex,
                   readyTxns>>

\* One iteration of the loop over the neighbours: it waits for the scheduler
\* to end the scan of t.
UnblockNeighbor_Unlocked(w, t) ==
    /\ pc[w] = "unblock"
    /\ t \in todo[w]
    /\ todo' = [todo EXCEPT ![w] = @ \ {t}]
    /\ indegree' = [indegree EXCEPT ![t] = @ - 1]
    /\ readyTxns' = IF indegree[t] = 1 THEN Append(readyTxns, t) ELSE readyTxns
    /\ UNCHANGED <<clientSide, dataVars, pc, cur, stopped, scanVars, neighbors, mutexVars>>
UnblockNeighbor(w, t) ==
    /\ pc[w] = "unblock"
    /\ t \in todo[w]
    /\ t \notin indegreeMutex
    /\ todo' = [todo EXCEPT ![w] = @ \ {t}]
    /\ indegree' = [indegree EXCEPT ![t] = @ - 1]
    /\ readyTxns' = IF indegree[t] = 1 THEN Append(readyTxns, t) ELSE readyTxns
    /\ UNCHANGED <<clientSide, dataVars, pc, cur, stopped, scanVars, neighbors, mutexVars>>

\* The result is pushed before the transaction's mutex is unlocked.
ReturnResult(w) ==
    /\ pc[w] = "unblock"
    /\ todo[w] = {}
    /\ txnResults' = Append(txnResults, cur[w])
    /\ Goto(w, "unlock")
    /\ UNCHANGED <<clientVars, txnRequests, dataVars, cur, todo, indivVars>>

UnlockNeighbors(w) ==
    /\ pc[w] = "unlock"
    /\ neighborsMutex' = neighborsMutex \ {cur[w]}
    /\ Goto(w, "idle")
    /\ cur' = [cur EXCEPT ![w] = NoTxn]
    /\ UNCHANGED <<clientSide, dataVars, todo, stopped, scanVars, dagVars, indegreeMutex,
                   readyTxns>>

ExecutorExit(w) == Exit(w) /\ UNCHANGED indivVars

-----------------------------------------------------------------------------
Terminating == Finished /\ UNCHANGED vars

Scheduler ==
    \/ PopRequest \/ ScanWrite \/ EndWrites \/ ScanRead
    \/ \E p \in Txns : TryEdge(p)
    \/ EndScan \/ SchedulerExit

Executor(w) ==
    \/ PopReady(w)
    \/ ExecuteAndDecide(w)
    \/ LockNeighbors(w)
    \/ \E t \in Txns : UnblockNeighbor(w, t)
    \/ ReturnResult(w)
    \/ UnlockNeighbors(w)
    \/ ExecutorExit(w)

Next ==
    \/ \E t \in Txns : Submit(t)
    \/ TakeResult
    \/ Stop
    \/ Scheduler
    \/ \E w \in Executors : Executor(w)
    \/ Terminating

\* Every thread is eventually scheduled and the client polls for its results.
Fairness ==
    /\ WF_vars(TakeResult)
    /\ WF_vars(Scheduler)
    /\ \A w \in Executors : WF_vars(Executor(w))

Spec     == Init /\ [][Next]_vars
FairSpec == Spec /\ Fairness
-----------------------------------------------------------------------------
(* Properties. *)

\* p has still to decrement the indegree of its neighbour t.
Pending(p, t) ==
    PendingIn(neighbors, {"readset", "writeset", "decide", "apply", "lock"}, p, t)

\* indegree[t] is the number of transactions that have yet to release t, even
\* while the scheduler is still looking for more of them.
IndegreeCountsPending ==
    \A t \in Txns : indegree[t] = Cardinality({p \in Txns : Pending(p, t)})

\* A submitted transaction is in exactly one place on its way to the client's
\* hands: it is not pushed by an executor in the middle of its scan, when its
\* indegree may touch zero, nor by both scheduler and executor.
EachRequestInOnePlace ==
    \A t \in Txns :
        One(uniqueId[t] > 0) =
            Copies(txnRequests, t) + One(cur[Main] = t)
            + One(indegree[t] > 0 /\ t \notin indegreeMutex) + Copies(readyTxns, t)
            + Cardinality({w \in Executors : Holds(w, t) /\ pc[w] # "unlock"})
            + Copies(txnResults, t) + One(t \in returned)

Writers(k) == {t \in Txns : k \in writeset[t]}
Readers(k) == {t \in Txns : k \in readset[t]}

\* Any writer of k and the one before it are ordered by an edge (the key had
\* no reader yet) or by way of a reader between them.
WritersOrdered(k) ==
    \A p, t \in Writers(k) :
        Earlier(p, t) /\ ~(\E q \in Writers(k) : Earlier(p, q) /\ Earlier(q, t))
            => \/ \E r \in Readers(k) : Earlier(p, r) /\ Earlier(r, t)
               \/ ~ \E r \in Readers(k) : Earlier(r, t)

\* Under a key whose writers are so ordered everybody reads what a serial
\* execution in order of arrival gives: an edge the scheduler skips, because it
\* cannot have the mutex or finds the status final, was not needed.
OrderedKeysReadSerially ==
    \A k \in Keys : WritersOrdered(k) => \A t \in Txns : ReadsSerially(t, k)
=============================================================================
