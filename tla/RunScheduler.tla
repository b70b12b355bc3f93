---------------------------- MODULE RunScheduler ----------------------------
(***************************************************************************)
(* RunScheduler's dispatch over the modes SERIAL, OCC, P_OCC, MVCC and     *)
(* MVCC_SSI, with the SERIAL scheduler, the client and the threads of one  *)
(* processor.  The mode is chosen when the processor is constructed; one   *)
(* that RunScheduler has no case for leaves it without a scheduler.        *)
(***************************************************************************)
EXTENDS OCC, MVCC

vars == <<coreVars, poolVars, occVars, mvccVars>>

PcLabels ==
    {"idle", "top", "readset", "writeset", "decide", "apply", "invalid", "restart",
     "enter", "validate", "commit", "result", "exited", "readVersions", "lock",
     "install", "unlock", "unlockFailed"}

\* Every variable keeps its type: the scheduler's and the workers' locations
\* are their own, whatever the mode.
TypeOK ==
    /\ CoreTypeOK /\ PoolTypeOK /\ OCCTypeOK /\ MVCCTypeOK
    /\ pc \in [Threads -> PcLabels]

Init == PoolInit /\ OCCInit /\ MVCCInit

-----------------------------------------------------------------------------
(* The client. *)

Submit(t)  == NewTxnRequest(t) /\ UNCHANGED <<poolVars, occVars, mvccVars>>
TakeResult == GetTxnResult /\ UNCHANGED <<poolVars, occVars, mvccVars>>

-----------------------------------------------------------------------------
(* SERIAL: the scheduler runs each transaction to its end. *)

SerialPop ==
    /\ pc[Main] = "idle"
    /\ txnRequests # <<>>
    /\ StartExecute(Main, Head(txnRequests))
    /\ txnRequests' = Tail(txnRequests)
    /\ UNCHANGED <<clientVars, txnResults, dataVars, poolVars>>

SerialExecute ==
    /\ \/ (ReadRecord(Main) \/ EndReadset(Main)) /\ UNCHANGED writes
       \/ Run(Main, "decide") /\ Written(cur[Main])
    /\ UNCHANGED <<clientSide, mode, tasks>>

SerialDecide ==
    /\ \/ StartApply(Main) \/ ApplyWrite(Main)
       \/ Commit(Main, "result") \/ Abort(Main, "result")
    /\ UNCHANGED <<clientSide, poolVars>>

SerialResult == PushResult(Main) /\ UNCHANGED poolVars

SerialScheduler == SerialPop \/ SerialExecute \/ SerialDecide \/ SerialResult

-----------------------------------------------------------------------------
(* The threads. *)

\* RunScheduler's switch has no case for this mode: the thread ends at once.
NoCase ==
    /\ mode = "MVCC_SSI"
    /\ pc[Main] = "idle"
    /\ Goto(Main, "exited")
    /\ UNCHANGED <<clientSide, dataVars, cur, todo, poolVars, occVars, mvccVars>>

Scheduler ==
    \/ mode = "SERIAL" /\ SerialScheduler /\ UNCHANGED <<occVars, mvccVars>>
    \/ mode = "OCC" /\ OCCScheduler /\ UNCHANGED mvccVars
    \/ mode = "P_OCC" /\ ParallelScheduler /\ UNCHANGED mvccVars
    \/ mode = "MVCC" /\ MVCCScheduler /\ UNCHANGED occVars
    \/ NoCase

Worker(w) ==
    \/ mode = "OCC" /\ OCCWorker(w) /\ UNCHANGED mvccVars
    \/ mode = "P_OCC" /\ ParallelWorker(w) /\ UNCHANGED mvccVars
    \/ mode = "MVCC" /\ MVCCWorker(w) /\ UNCHANGED occVars

Next ==
    \/ \E t \in Txns : Submit(t)
    \/ TakeResult
    \/ Scheduler
    \/ \E w \in Workers : Worker(w)

\* The scheduler's and the workers' threads are eventually scheduled, and the
\* client polls for its results.
Fairness ==
    /\ WF_vars(TakeResult)
    /\ WF_vars(Scheduler)
    /\ \A w \in Workers : WF_vars(Worker(w))

Spec     == Init /\ [][Next]_vars
FairSpec == Spec /\ Fairness
-----------------------------------------------------------------------------
(* Properties. *)

\* Thread w has a transaction in its hands.
Busy(w) == pc[w] \notin {"idle", "top", "exited"}

\* How often t is queued in the pool.
TaskCopies(t) ==
    Cardinality({p \in UNION {{w} \X DOMAIN tasks[w] : w \in Workers} : tasks[p[1]][p[2]] = t})

\* A submitted transaction is in exactly one place on its way to the client's
\* hands, however often it is restarted.  (In SERIAL completed_txns_ only
\* grows.)
EachRequestInOnePlace ==
    \A t \in Txns :
        One(uniqueId[t] > 0) =
            Copies(txnRequests, t) + TaskCopies(t)
            + Cardinality({w \in Threads : Busy(w) /\ cur[w] = t})
            + One(mode = "OCC") * Copies(completedTxns, t)
            + Copies(txnResults, t) + One(t \in returned)

\* What the n-th transaction to commit must have read under k, had they run
\* one at a time in the order of committed_txns_.
CommitOrderValue(k, n) == LastWriter(k, n - 1)

\* In SERIAL and OCC every committed transaction has read, of each record it
\* reads, what was the newest committed value when it committed.
CommittedReadsCurrent ==
    mode \in {"SERIAL", "OCC"} =>
        \A n \in DOMAIN committedTxns : \A k \in readset[committedTxns[n]] :
            reads[committedTxns[n]][k] = CommitOrderValue(k, n)

\* What validation does achieve: the only write a committed transaction can
\* have missed is the first one committed after it started, because that is
\* the one transaction that it never looks at.
OnlyFirstCommitMissed ==
    mode \in {"SERIAL", "OCC"} =>
        \A n \in DOMAIN committedTxns :
            LET t == committedTxns[n]
            IN  \A k \in readset[t] :
                    \/ reads[t][k] = CommitOrderValue(k, n)
                    \/ /\ mode = "OCC"
                       /\ occStart[t] + 1 < n
                       /\ CommitOrderValue(k, n) = committedTxns[occStart[t] + 1]

\* In P_OCC two workers install their writes at the same time only if no
\* record is written by both, and not each has read what the other writes.
ConcurrentAppliesCompatible ==
    \A v, w \in Workers : v # w /\ mode = "P_OCC" /\ pc[v] = "apply" /\ pc[w] = "apply" =>
        /\ writeset[cur[v]] \cap writeset[cur[w]] = {}
        /\ \/ readset[cur[v]] \cap writeset[cur[w]] = {}
           \/ readset[cur[w]] \cap writeset[cur[v]] = {}

\* In MVCC nobody has read from a transaction that is still installing.
NoHalfInstalledReads ==
    \A w \in Workers : mode = "MVCC" /\ pc[w] = "install" =>
        \A t \in Txns, k \in Keys : reads[t][k] # cur[w]

\* In MVCC a version is only ever added in front of all others: between the
\* check of a transaction's keys and its last write nobody gets past it.
NewVersionsOnTop ==
    [][\A k \in Keys : versions'[k] # versions[k] => Tail(versions'[k]) = versions[k]]_vars

\* The client still waits for these; the model's bound keeps these workers from
\* their restarts.
Outstanding == {t \in Txns : uniqueId[t] > 0 /\ t \notin returned}
RestartsOverBound ==
    mode = "P_OCC" /\ \E w \in Workers : pc[w] = "restart" /\ nextUniqueId > MaxId[mode]

\* Every request is answered, in spite of the restarts.  In P_OCC that is so
\* only if restarts are few: a transaction that will be restarted is in the
\* active set meanwhile and makes others restart, so there may always be one
\* more than the bound of the model allows.
EveryRequestAnswered ==
    (Outstanding # {} /\ mode # "MVCC_SSI") ~> (Outstanding = {} \/ RestartsOverBound)
=============================================================================
