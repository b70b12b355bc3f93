-------------------------- MODULE LockingScheduler --------------------------
(***************************************************************************)
(* Modes LOCKING_EXCLUSIVE_ONLY and LOCKING.  One scheduler thread asks    *)
(* for all the locks of each request in turn, hands the transactions that  *)
(* have theirs to the thread pool, and commits and releases the completed  *)
(* ones; the pool's workers run ExecuteTxn.  The scheduler's thread is     *)
(* called Main; its location "idle" is the head of the loop over           *)
(* completed_txns_.                                                        *)
(***************************************************************************)
EXTENDS TxnCore, LockManager

CONSTANTS
    Main,       \* the scheduler's thread; the other Threads are the pool's
    MayStop     \* whether the client may call the destructor

ASSUME LockingAssumption == Main \in Threads /\ MayStop \in BOOLEAN

VARIABLES
    blocked,    \* RunLockingScheduler's local variable
    tasks,      \* [Workers -> Seq(Txns)], StaticThreadPool::queues_
    stopped     \* stopped_

Workers    == Threads \ {Main}
localVars  == <<blocked, tasks, stopped>>
clientSide == <<clientVars, txnRequests, txnResults>>
vars       == <<coreVars, lockVars, localVars>>

TypeOK ==
    /\ CoreTypeOK
    /\ pc \in [Threads -> {"top", "lockReads", "lockWrites", "idle", "decide", "apply",
                           "unlock", "unlockReads", "unlockWrites", "result", "dispatch",
                           "exited", "readset", "writeset"}]
    /\ LockTypeOK
    /\ blocked \in BOOLEAN
    /\ tasks \in [Workers -> Seq(Txns)]
    /\ stopped \in BOOLEAN

Init ==
    /\ CoreInit("idle")
    /\ LockInit
    /\ blocked = FALSE
    /\ tasks = [w \in Workers |-> <<>>]
    /\ stopped = FALSE

-----------------------------------------------------------------------------
(* The client. *)

Submit(t) == NewTxnRequest(t) /\ ~stopped /\ UNCHANGED <<lockVars, localVars>>

TakeResult == GetTxnResult /\ ~stopped /\ UNCHANGED <<lockVars, localVars>>

Stop ==
    /\ MayStop
    /\ ~stopped
    /\ stopped' = TRUE
    /\ UNCHANGED <<coreVars, lockVars, blocked, tasks>>

-----------------------------------------------------------------------------
(* The scheduler: the next request. *)

PopRequest ==
    /\ pc[Main] = "top"
    /\ txnRequests # <<>>
    /\ txnRequests' = Tail(txnRequests)
    /\ cur' = [cur EXCEPT ![Main] = Head(txnRequests)]
    /\ blocked' = FALSE
    /\ Goto(Main, "lockReads")
    /\ todo' = [todo EXCEPT ![Main] = readset[Head(txnRequests)]]
    /\ UNCHANGED <<clientVars, txnResults, dataVars, lockVars, tasks, stopped>>

NoRequest ==
    /\ pc[Main] = "top"
    /\ txnRequests = <<>>
    /\ Goto(Main, "idle")
    /\ UNCHANGED <<clientSide, dataVars, cur, todo, lockVars, localVars>>

\* One call of ReadLock or WriteLock.
LockKey ==
    /\ pc[Main] \in {"lockReads", "lockWrites"}
    /\ \E k \in Keys, granted \in BOOLEAN :
         /\ NextKey(Main, k)
         /\ IF pc[Main] = "lockReads" THEN ReadLock(cur[Main], k, granted)
                                      ELSE WriteLock(cur[Main], k, granted)
         /\ blocked' = (blocked \/ ~granted)
         /\ todo' = [todo EXCEPT ![Main] = @ \ {k}]
    /\ UNCHANGED <<clientSide, dataVars, pc, cur, tasks, stopped>>

EndLockReads ==
    /\ pc[Main] = "lockReads"
    /\ todo[Main] = {}
    /\ Goto(Main, "lockWrites")
    /\ todo' = [todo EXCEPT ![Main] = writeset[cur[Main]]]
    /\ UNCHANGED <<clientSide, dataVars, cur, lockVars, localVars>>

PushUnlessBlocked_Always == Append(readyTxns, cur[Main])
PushUnlessBlocked == IF blocked THEN readyTxns ELSE Append(readyTxns, cur[Main])

EndLockWrites ==
    /\ pc[Main] = "lockWrites"
    /\ todo[Main] = {}
    /\ readyTxns' = PushUnlessBlocked
    /\ Goto(Main, "idle")
    /\ cur' = [cur EXCEPT ![Main] = NoTxn]
    /\ UNCHANGED <<clientSide, dataVars, todo, manager, lockTable, txnWaits, localVars>>

-----------------------------------------------------------------------------
(* The scheduler: the completed transactions. *)

PopCompleted ==
    /\ pc[Main] = "idle"
    /\ completedTxns # <<>>
    /\ completedTxns' = Tail(completedTxns)
    /\ cur' = [cur EXCEPT ![Main] = Head(completedTxns)]
    /\ Goto(Main, "decide")
    /\ UNCHANGED <<clientSide, status, reads, storage, committedTxns, todo, lockVars, localVars>>

NoCompleted ==
    /\ pc[Main] = "idle"
    /\ completedTxns = <<>>
    /\ Goto(Main, "dispatch")
    /\ UNCHANGED <<clientSide, dataVars, cur, todo, lockVars, localVars>>

Decide ==
    /\ \/ StartApply(Main)
       \/ ApplyWrite(Main)
       \/ Commit(Main, "unlock")
       \/ Abort(Main, "unlock")
    /\ UNCHANGED <<clientSide, lockVars, localVars>>

StartUnlock ==
    /\ pc[Main] = "unlock"
    /\ Goto(Main, "unlockReads")
    /\ todo' = [todo EXCEPT ![Main] = readset[cur[Main]]]
    /\ UNCHANGED <<clientSide, dataVars, cur, lockVars, localVars>>

\* One call of Release.
UnlockKey ==
    /\ pc[Main] \in {"unlockReads", "unlockWrites"}
    /\ \E k \in Keys :
         /\ NextKey(Main, k)
         /\ Release(cur[Main], k)
         /\ todo' = [todo EXCEPT ![Main] = @ \ {k}]
    /\ UNCHANGED <<clientSide, dataVars, pc, cur, localVars>>

EndUnlockReads ==
    /\ pc[Main] = "unlockReads"
    /\ todo[Main] = {}
    /\ Goto(Main, "unlockWrites")
    /\ todo' = [todo EXCEPT ![Main] = writeset[cur[Main]]]
    /\ UNCHANGED <<clientSide, dataVars, cur, lockVars, localVars>>

EndUnlockWrites ==
    /\ pc[Main] = "unlockWrites"
    /\ todo[Main] = {}
    /\ Goto(Main, "result")
    /\ UNCHANGED <<clientSide, dataVars, cur, todo, lockVars, localVars>>

ReturnResult == PushResult(Main) /\ UNCHANGED <<lockVars, localVars>>

-----------------------------------------------------------------------------
(* The scheduler: the transactions that have all their locks. *)

\* AddTask puts the task into the queue of a worker chosen at random.
Dispatch ==
    /\ pc[Main] = "dispatch"
    /\ readyTxns # <<>>
    /\ readyTxns' = Tail(readyTxns)
    /\ \E w \in Workers : tasks' = [tasks EXCEPT ![w] = Append(@, Head(readyTxns))]
    /\ UNCHANGED <<coreVars, manager, lockTable, txnWaits, blocked, stopped>>

\* The loop starts again, unless the destructor has been called.
EndRound ==
    /\ pc[Main] = "dispatch"
    /\ readyTxns = <<>>
    /\ Goto(Main, IF stopped THEN "exited" ELSE "top")
    /\ UNCHANGED <<clientSide, dataVars, cur, todo, lockVars, localVars>>

-----------------------------------------------------------------------------
(* The workers of the pool. *)

PopTask(w) ==
    /\ pc[w] = "idle"
    /\ tasks[w] # <<>>
    /\ StartExecute(w, Head(tasks[w]))
    /\ tasks' = [tasks EXCEPT ![w] = Tail(@)]
    /\ UNCHANGED <<clientSide, dataVars, lockVars, blocked, stopped>>

Execute(w) ==
    /\ ReadRecord(w) \/ EndReadset(w) \/ Run(w, "idle")
    /\ UNCHANGED <<clientSide, lockVars, localVars>>

-----------------------------------------------------------------------------
Scheduler ==
    \/ PopRequest \/ NoRequest \/ LockKey \/ EndLockReads \/ EndLockWrites
    \/ PopCompleted \/ NoCompleted \/ Decide
    \/ StartUnlock \/ UnlockKey \/ EndUnlockReads \/ EndUnlockWrites \/ ReturnResult
    \/ Dispatch \/ EndRound

Worker(w) == PopTask(w) \/ Execute(w)

Next ==
    \/ \E t \in Txns : Submit(t)
    \/ TakeResult
    \/ Stop
    \/ Scheduler
    \/ \E w \in Workers : Worker(w)

\* The scheduler's and the workers' threads are eventually scheduled, and the
\* client polls for its results.
Fairness ==
    /\ WF_vars(TakeResult)
    /\ WF_vars(Scheduler)
    /\ \A w \in Workers : WF_vars(Worker(w))

Spec     == Init /\ [][Next]_vars
FairSpec == Spec /\ Fairness
-----------------------------------------------------------------------------
(* Properties. *)

\* t has been handed over for execution and its locks are not released yet.
Executing(t) ==
    \/ \E i \in DOMAIN readyTxns : readyTxns[i] = t
    \/ \E w \in Workers : \/ \E i \in DOMAIN tasks[w] : tasks[w][i] = t
                          \/ pc[w] # "idle" /\ cur[w] = t
    \/ \E i \in DOMAIN completedTxns : completedTxns[i] = t
    \/ pc[Main] \in {"decide", "apply", "unlock"} /\ cur[Main] = t

Releasing(t) == pc[Main] \in {"unlockReads", "unlockWrites"} /\ cur[Main] = t

Asking(t) == pc[Main] \in {"lockReads", "lockWrites"} /\ cur[Main] = t

\* A transaction executes from when, and only when, it owns all its locks: the
\* scheduler's blocked flag and the lock manager's ready queue agree with the
\* lock table, and none is forgotten or handed over too early.
ExecutesWithAllLocks ==
    \A t \in Txns : ~Asking(t) /\ AsksFor(t) = Accesses(t) /\ Accesses(t) # {}
        => (Executing(t) \/ Releasing(t) <=> OwnsAll(t))

\* Two transactions that execute at the same time do not conflict.
ConflictsExcluded ==
    \A t, u \in Txns : t # u /\ Executing(t) /\ Executing(u) =>
        /\ writeset[t] \cap Accesses(u) = {}
        /\ manager = "A" => Accesses(t) \cap Accesses(u) = {}

\* Every transaction reads what it would have read had the transactions run
\* one at a time in the order of their arrival.
ReadsInArrivalOrder == \A t \in Txns, k \in Keys : ReadsSerially(t, k)

\* Seen as a database, the processor runs a transaction at the moment its
\* first write is applied or its abort decided.
Applying(t) == pc[Main] = "apply" /\ cur[Main] = t
HasRun(t)   == Applying(t) \/ Decided(t)

Abstract == INSTANCE SerialDB WITH
    db      <- [k \in Keys |-> IF pc[Main] = "apply" /\ k \in todo[Main]
                               THEN cur[Main] ELSE storage[k]],
    seen    <- [t \in Txns |-> IF HasRun(t) THEN reads[t] ELSE [k \in Keys |-> Unread]],
    outcome <- [t \in Txns |-> IF ~HasRun(t) THEN "none"
                               ELSE IF status[t] = "ABORTED" THEN "aborted" ELSE "committed"]

ImplementsSerialDB == Abstract!Spec

\* Unless the processor is being destroyed, every request is answered.
EveryRequestAnswered ==
    \A t \in Txns : (uniqueId[t] > 0) ~> (t \in returned \/ stopped)
=============================================================================
