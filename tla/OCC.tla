-------------------------------- MODULE OCC --------------------------------
(***************************************************************************)
(* Modes OCC and P_OCC.  Workers execute transactions without locks.  In   *)
(* OCC the scheduler validates each completed one against those committed  *)
(* since it started, and installs its writes; in P_OCC the worker does     *)
(* that, also against the transactions that are being validated.           *)
(*                                                                         *)
(* In OCC the scheduler's location "idle" is the head of the loop over     *)
(* completed_txns_, which with none of them leads to the top.              *)
(***************************************************************************)
EXTENDS PooledModes

VARIABLES
    occStart,       \* [Txns -> Nat], Txn::occ_start_idx_
    activeSet,      \* AtomicSet active_set_
    finishActive    \* [Workers -> SUBSET Txns], a worker's finish_active

occVars == <<occStart, activeSet, finishActive>>

OCCTypeOK ==
    /\ occStart \in [Txns -> Nat]
    /\ activeSet \subseteq Txns
    /\ finishActive \in [Workers -> SUBSET Txns]

OCCInit ==
    /\ occStart = [t \in Txns |-> 0]
    /\ activeSet = {}
    /\ finishActive = [w \in Workers |-> {}]

-----------------------------------------------------------------------------
(* Both modes. *)

\* The task begins with the size of committed_txns_.
OCCBegin(w) ==
    \E t \in Txns :
        /\ TakeTask(w, t)
        /\ StartExecute(w, t)
        /\ occStart' = [occStart EXCEPT ![t] = Len(committedTxns)]
        /\ UNCHANGED <<activeSet, finishActive>>

OCCRead(w) ==
    /\ ReadRecord(w) \/ EndReadset(w)
    /\ UNCHANGED <<clientSide, poolVars, occVars>>

\* The transactions that validation looks at: the loop runs from
\* occ_start_idx_ + 1, counting from 0.
CommittedSince_SkipTwo(t) ==
    {committedTxns[i] : i \in occStart[t] + 3 .. Len(committedTxns)}
CommittedSince(t) == {committedTxns[i] : i \in occStart[t] + 2 .. Len(committedTxns)}

Overlaps(t, S) == \E u \in S : readset[t] \cap writeset[u] # {}

\* ApplyWrites begins, or the transaction is invalid.
Conclude(w, t, valid) ==
    /\ Goto(w, IF valid THEN "apply" ELSE "invalid")
    /\ todo' = [todo EXCEPT ![w] = IF valid THEN writes[t] ELSE {}]

-----------------------------------------------------------------------------
(* OCC. *)

\* ExecuteTxn ends, and so does the worker's task.
OCCRun(w) ==
    /\ Run(w, "idle")
    /\ Written(cur[w])
    /\ UNCHANGED <<clientSide, mode, tasks, occVars>>

OCCPassRequest == PassRequest("top") /\ UNCHANGED occVars

OCCNoRequest ==
    /\ pc[Main] = "top"
    /\ txnRequests = <<>>
    /\ Goto(Main, "idle")
    /\ UNCHANGED <<clientSide, dataVars, cur, todo, poolVars, occVars>>

\* The scheduler is the only thread that commits.
OCCValidate ==
    /\ pc[Main] = "idle"
    /\ completedTxns # <<>>
    /\ LET t == Head(completedTxns)
       IN  /\ cur' = [cur EXCEPT ![Main] = t]
           /\ Conclude(Main, t, ~Overlaps(t, CommittedSince(t)))
    /\ completedTxns' = Tail(completedTxns)
    /\ UNCHANGED <<clientSide, status, reads, storage, committedTxns, poolVars, occVars>>

OCCRestart == pc[Main] = "invalid" /\ Restart(Main) /\ UNCHANGED occVars

OCCCommit ==
    /\ ApplyWrite(Main) \/ Commit(Main, "result")
    /\ UNCHANGED <<clientSide, poolVars, occVars>>

OCCResult == PushResult(Main) /\ UNCHANGED <<poolVars, occVars>>

\* Out of the loop over completed_txns_, and on to the next round.
OCCEndRound ==
    /\ pc[Main] = "idle"
    /\ completedTxns = <<>>
    /\ Goto(Main, "top")
    /\ UNCHANGED <<clientSide, dataVars, cur, todo, poolVars, occVars>>

OCCScheduler ==
    \/ OCCPassRequest \/ OCCNoRequest \/ OCCValidate \/ OCCRestart \/ OCCCommit
    \/ OCCResult \/ OCCEndRound

OCCWorker(w) == OCCBegin(w) \/ OCCRead(w) \/ OCCRun(w)

-----------------------------------------------------------------------------
(* P_OCC. *)

ParallelRun(w) ==
    /\ pc[w] = "writeset"
    /\ todo[w] = {}
    /\ Vote(w)
    /\ Goto(w, "enter")
    /\ UNCHANGED <<todo, occVars>>

\* The critical section under active_set_mutex_.
EnterActive_CopyLate(w) ==
    /\ pc[w] = "enter"
    /\ finishActive' = [finishActive EXCEPT ![w] = {}]
    /\ activeSet' = activeSet \cup {cur[w]}
    /\ Goto(w, "validate")
    /\ UNCHANGED <<clientSide, dataVars, cur, todo, poolVars, occStart>>
EnterActive(w) ==
    /\ pc[w] = "enter"
    /\ finishActive' = [finishActive EXCEPT ![w] = activeSet]
    /\ activeSet' = activeSet \cup {cur[w]}
    /\ Goto(w, "validate")
    /\ UNCHANGED <<clientSide, dataVars, cur, todo, poolVars, occStart>>

OverlapsActive(t, S) ==
    Overlaps(t, S) \/ \E u \in S : writeset[t] \cap writeset[u] # {}

\* Both checks.  The first grows with committed_txns_ until its loop ends, and
\* counts as of that moment; the second only looks at the copy.
ValidateParallel(w) ==
    /\ pc[w] = "validate"
    /\ LET t == cur[w]
       IN  Conclude(w, t, /\ ~Overlaps(t, CommittedSince(t))
                          /\ ~OverlapsActive(t, finishActive[w]))
    /\ finishActive' = [finishActive EXCEPT ![w] = {}]
    /\ UNCHANGED <<clientSide, dataVars, cur, poolVars, occStart, activeSet>>

ParallelApply(w) == ApplyWrite(w) /\ UNCHANGED <<clientSide, poolVars, occVars>>

\* After its writes, or without them when it is invalid.
EraseActive(w) ==
    /\ pc[w] \in {"apply", "invalid"}
    /\ todo[w] = {}
    /\ activeSet' = activeSet \ {cur[w]}
    /\ Goto(w, IF pc[w] = "apply" THEN "commit" ELSE "restart")
    /\ UNCHANGED <<clientSide, dataVars, cur, todo, poolVars, occStart, finishActive>>

ParallelFinish(w) ==
    /\ \/ pc[w] = "commit" /\ MarkCommitted(w)
       \/ PushResult(w) /\ UNCHANGED poolVars
       \/ pc[w] = "restart" /\ Restart(w)
    /\ UNCHANGED occVars

ParallelScheduler == PassRequest("idle") /\ UNCHANGED occVars

ParallelWorker(w) ==
    \/ OCCBegin(w) \/ OCCRead(w) \/ ParallelRun(w) \/ EnterActive(w)
    \/ ValidateParallel(w) \/ ParallelApply(w) \/ EraseActive(w) \/ ParallelFinish(w)

-----------------------------------------------------------------------------
(* Properties' vocabulary. *)

\* The last of the first n transactions to commit that wrote k.
LastWriter(k, n) ==
    LET W == {i \in 1..n : k \in writes[committedTxns[i]]}
    IN  IF W = {} THEN NoTxn ELSE committedTxns[CHOOSE i \in W : \A j \in W : j <= i]
=============================================================================
