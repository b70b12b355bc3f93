--------------------------- MODULE ContinuousDag ---------------------------
(***************************************************************************)
(* What the two modes with one never-ending DAG, CALVIN_CONT and           *)
(* CALVIN_CONT_INDIV, have in common: the scheduler's maps of holders, the *)
(* ready queue, the way an executor takes a transaction to its decision,   *)
(* and when threads stop.  Each mode adds its DAG and its locks.           *)
(*                                                                         *)
(* Main is the scheduler's thread, the other Threads are the executors.    *)
(***************************************************************************)
EXTENDS TxnCore, Queues

CONSTANTS
    Main,       \* the scheduler's thread
    MayStop     \* whether the client may call the destructor

ASSUME ContAssumption == Main \in Threads /\ MayStop \in BOOLEAN

VARIABLES
    stopped,        \* stopped_
    sharedHolders,  \* [Keys -> SUBSET Txns], shared_holders
    lastExcl,       \* [Keys -> Values], last_excl, NoTxn when absent
    indegree,       \* [Txns -> Int], the transactions' indegrees
    readyTxns       \* AtomicQueue calvin_ready_txns_

clientSide == <<clientVars, txnRequests, txnResults>>

Executors == Threads \ {Main}

ContTypeOK ==
    /\ stopped \in BOOLEAN
    /\ sharedHolders \in [Keys -> SUBSET Txns]
    /\ lastExcl \in [Keys -> Values]
    /\ indegree \in [Txns -> Nat]
    /\ readyTxns \in Seq(Txns)

ContInit ==
    /\ CoreInit("idle")
    /\ stopped = FALSE
    /\ sharedHolders = [k \in Keys |-> {}]
    /\ lastExcl = [k \in Keys |-> NoTxn]
    /\ indegree = [t \in Txns |-> 0]
    /\ readyTxns = <<>>

-----------------------------------------------------------------------------
\* ExecuteTxn, ApplyWrites and the decision; the executor goes on at next.
Execution(w, next) ==
    \/ ReadRecord(w)
    \/ EndReadset(w)
    \/ Run(w, "decide")
    \/ StartApply(w)
    \/ ApplyWrite(w)
    \/ Commit(w, next)
    \/ Abort(w, next)

\* A thread at the head of its loop finds stopped_ set.
Exit(w) ==
    /\ stopped
    /\ pc[w] = "idle"
    /\ Goto(w, "exited")
    /\ UNCHANGED <<clientSide, dataVars, cur, todo>>

AllAnswered == \A t \in Txns : t \in returned
AllExited   == \A w \in Threads : pc[w] = "exited"

\* Nothing is left to do; any other state without a successor is a deadlock.
Finished == IF stopped THEN AllExited ELSE AllAnswered

-----------------------------------------------------------------------------
(* Properties' vocabulary. *)

Holds(w, t) == w \in Executors /\ cur[w] = t

\* t is where the executors take their work from, or beyond.
HandedOver(t) ==
    \/ t \in Elements(readyTxns)
    \/ \E w \in Executors : Holds(w, t)
    \/ Decided(t)

\* p has still to decrement the indegree of t, one of its neighbours in edges:
\* held are the locations of an executor before its loop over them.
PendingIn(edges, held, p, t) ==
    /\ t \in edges[p]
    /\ \/ ~HandedOver(p)
       \/ p \in Elements(readyTxns)
       \/ \E w \in Executors :
            /\ Holds(w, p)
            /\ pc[w] \in held \/ (pc[w] = "unblock" /\ t \in todo[w])

\* Unless the processor is being destroyed, every request is answered: there
\* comes a moment when none is outstanding.
Outstanding == {t \in Txns : uniqueId[t] > 0} # returned
EveryRequestAnswered == Outstanding ~> (~Outstanding \/ stopped)
=============================================================================
