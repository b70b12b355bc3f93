----------------------------- MODULE Lifecycle ------------------------------
(***************************************************************************)
(* The construction and the destruction of a TxnProcessor over its thread  *)
(* pool.  The owner's thread runs the constructor, the client's calls and  *)
(* the destructor; the scheduler's thread, the sequencer's and the pool's  *)
(* run meanwhile.  What each does with a request is reduced to the order   *)
(* in which it touches what the destructor takes away: the storage and     *)
(* the members (the processor's queues).  The other modules model the rest.*)
(*                                                                         *)
(* LOCKING stands for every mode whose scheduler hands each request to the *)
(* pool, CALVIN_CONT for every one whose executors are tasks that loop.    *)
(***************************************************************************)
EXTENDS ThreadPool, FiniteSets

CONSTANTS
    Requests,   \* the transactions the client will submit
    Loops,      \* the executors' loops, one task each
    Modes       \* the modes the processor may be constructed with

ASSUME LifecycleAssumption ==
    /\ Tasks = Requests \cup Loops
    /\ Requests \cap Loops = {}
    /\ Cardinality(Loops) = Cardinality(Workers)
    /\ Modes \subseteq {"SERIAL", "LOCKING", "CALVIN_CONT", "CALVIN_EPOCH"}

VARIABLES
    mode,       \* mode_
    ownerPc,    \* where the owner is in the constructor or the destructor
    stopped,    \* stopped_: "unset" until the constructor assigns it
    seqKnown,   \* calvin_sequencer_thread has been assigned
    alive,      \* which of "storage" and "members" still exist
    where,      \* [Requests -> Places], the place of each request
    schedPc,    \* where the scheduler is, and the sequencer
    seqPc,
    execPc,     \* [Workers -> ...], where a worker is in its task
    job,        \* [Workers -> Requests \cup {NoTask}], the executor's txn
    pending,    \* for the properties: the requests unanswered at ~TxnProcessor,
    misused,    \* what was used when it was not there, and by whom,
    early       \* and whether a thread ended because stopped_ was not yet set

threadVars == <<schedPc, seqPc, execPc, job>>
history    == <<pending, misused, early>>
vars == <<poolVars, mode, ownerPc, stopped, seqKnown, alive, where, threadVars, history>>

Places == {"client", "queued", "epoch", "ready", "task", "running", "completed", "answered"}

LifecycleTypeOK ==
    /\ mode \in Modes
    /\ stopped \in {"unset", "false", "true"}
    /\ seqKnown \in BOOLEAN
    /\ alive \subseteq {"storage", "members"}
    /\ where \in [Requests -> Places]
    /\ job \in [Workers -> Requests \cup {NoTask}]
    /\ pending \subseteq Requests
    /\ early \in BOOLEAN

\* The member initialisers have run: the pool's threads exist, the storage is
\* filled, stopped_ has never been assigned.
Init ==
    /\ PoolInit
    /\ mode \in Modes
    /\ ownerPc = "create"
    /\ stopped = "unset"
    /\ seqKnown = FALSE
    /\ alive = {"storage", "members"}
    /\ where = [r \in Requests |-> "client"]
    /\ schedPc = "none"
    /\ seqPc = "none"
    /\ execPc = [w \in Workers |-> "top"]
    /\ job = [w \in Workers |-> NoTask]
    /\ pending = {}
    /\ misused = {}
    /\ early = FALSE

-----------------------------------------------------------------------------
(* The owner. *)

OwnerGoto(from, to) == ownerPc = from /\ ownerPc' = to

HasLoops_NotFirst(m) == m = "CALVIN_EPOCH"
HasLoops(m) == m \in {"CALVIN_CONT", "CALVIN_EPOCH"}

CreateScheduler ==
    /\ OwnerGoto("create", "initStopped")
    /\ schedPc' = "start"
    /\ UNCHANGED <<poolVars, mode, stopped, seqKnown, alive, where, seqPc, execPc, job, history>>

InitStopped ==
    /\ OwnerGoto("initStopped", "addLoops")
    /\ stopped' = "false"
    /\ UNCHANGED <<poolVars, mode, seqKnown, alive, where, threadVars, history>>

AddLoop ==
    /\ ownerPc = "addLoops"
    /\ HasLoops(mode)
    /\ \E l \in Loops : Progress(l) = "new" /\ AddTask(l)
    /\ UNCHANGED <<mode, ownerPc, stopped, seqKnown, alive, where, threadVars, history>>

Constructed ==
    /\ OwnerGoto("addLoops", "built")
    /\ HasLoops(mode) => \A l \in Loops : Progress(l) # "new"
    /\ UNCHANGED <<poolVars, mode, stopped, seqKnown, alive, where, threadVars, history>>

Place(r, from, to) == where[r] = from /\ where' = [where EXCEPT ![r] = to]

\* NewTxnRequest.
Submit(r) ==
    /\ ownerPc = "built"
    /\ Place(r, "client", "queued")
    /\ UNCHANGED <<poolVars, mode, ownerPc, stopped, seqKnown, alive, threadVars, history>>

\* ~TxnProcessor.
Stop ==
    /\ OwnerGoto("built", IF mode = "CALVIN_EPOCH" THEN "joinSequencer" ELSE "joinScheduler")
    /\ stopped' = "true"
    /\ pending' = {r \in Requests : where[r] \notin {"client", "answered"}}
    /\ UNCHANGED <<poolVars, mode, seqKnown, alive, where, threadVars, misused, early>>

\* A thread id nobody has assigned: the join may fail or never return.
JoinSequencer ==
    /\ ownerPc = "joinSequencer"
    /\ IF seqKnown
       THEN seqPc = "exited" /\ ownerPc' = "joinScheduler" /\ UNCHANGED misused
       ELSE ownerPc' \in {"joinScheduler", "hung"} /\ misused' = misused \cup {<<"owner", "thread id">>}
    /\ UNCHANGED <<poolVars, mode, stopped, seqKnown, alive, where, threadVars, pending, early>>

JoinScheduler_NoWait ==
    /\ OwnerGoto("joinScheduler", "deleteStorage")
    /\ UNCHANGED <<poolVars, mode, stopped, seqKnown, alive, where, threadVars, history>>
JoinScheduler ==
    /\ OwnerGoto("joinScheduler", "deleteStorage")
    /\ schedPc = "exited"
    /\ UNCHANGED <<poolVars, mode, stopped, seqKnown, alive, where, threadVars, history>>

\* delete storage_; then the members declared after tp_, the last one first.
Deallocate ==
    /\ \/ OwnerGoto("deleteStorage", "destroyMembers") /\ alive' = alive \ {"storage"}
       \/ OwnerGoto("destroyMembers", "stopPool") /\ alive' = alive \ {"members"}
    /\ UNCHANGED <<poolVars, mode, stopped, seqKnown, where, threadVars, history>>

\* ~StaticThreadPool.
DestroyPool ==
    /\ \/ OwnerGoto("stopPool", "joinPool") /\ StopPool
       \/ OwnerGoto("joinPool", "gone") /\ AllJoined /\ UNCHANGED poolVars
    /\ UNCHANGED <<mode, stopped, seqKnown, alive, where, threadVars, history>>

-----------------------------------------------------------------------------
(* What every thread does. *)

\* The values that a read of stopped_ may give.
StoppedRead == IF stopped = "unset" THEN BOOLEAN ELSE {stopped = "true"}

Use(who, what) ==
    misused' = misused \cup {<<who, x>> : x \in {what} \ alive}

\* while (!stopped_) of the scheduler and of the sequencer.
LoopHead(loc, loc2) ==
    /\ loc = "top"
    /\ \E end \in StoppedRead :
         /\ loc2 = (IF end THEN "exited" ELSE "work")
         /\ early' = (early \/ (end /\ stopped = "unset"))

ownerSide == <<mode, ownerPc, stopped, alive, pending>>

-----------------------------------------------------------------------------
(* The scheduler. *)

\* In CALVIN_EPOCH the scheduler first creates the sequencer.
SchedulerStart ==
    /\ schedPc = "start"
    /\ schedPc' = "top"
    /\ IF mode = "CALVIN_EPOCH" THEN seqPc' = "top" /\ seqKnown' = TRUE
                                ELSE UNCHANGED <<seqPc, seqKnown>>
    /\ UNCHANGED <<poolVars, ownerSide, where, execPc, job, misused, early>>

SchedulerCheck ==
    /\ LoopHead(schedPc, schedPc')
    /\ UNCHANGED <<poolVars, ownerSide, seqKnown, where, seqPc, execPc, job, misused>>

AnyAt(place) == \E r \in Requests : where[r] = place

\* What its round takes up, and where it leaves it.
Takes ==
    CASE mode = "SERIAL"       -> {<<"queued", "running">>}
      [] mode = "LOCKING"      -> {<<"queued", "task">>, <<"completed", "running">>}
      [] mode = "CALVIN_CONT"  -> {<<"queued", "ready">>}
      [] mode = "CALVIN_EPOCH" -> {<<"epoch", "ready">>}

SchedulerTake ==
    /\ schedPc = "work"
    /\ \E step \in Takes, r \in Requests :
         /\ Place(r, step[1], step[2])
         /\ IF step[2] = "task" THEN AddTask(r) ELSE UNCHANGED poolVars
         /\ schedPc' = IF step[2] = "running" THEN "apply"
                       ELSE IF mode = "CALVIN_EPOCH" THEN "wait" ELSE "top"
    /\ Use("scheduler", "members")
    /\ UNCHANGED <<ownerSide, seqKnown, seqPc, execPc, job, early>>

SchedulerIdle ==
    /\ schedPc = "work"
    /\ \A step \in Takes : ~AnyAt(step[1])
    /\ schedPc' = "top"
    /\ Use("scheduler", "members")
    /\ UNCHANGED <<poolVars, ownerSide, seqKnown, where, seqPc, execPc, job, early>>

\* The writes and the answer of a transaction that the scheduler ends itself.
SchedulerApply ==
    /\ schedPc = "apply"
    /\ \E r \in Requests : Place(r, "running", "answered")
    /\ schedPc' = "top"
    /\ Use("scheduler", "storage")
    /\ UNCHANGED <<poolVars, ownerSide, seqKnown, seqPc, execPc, job, early>>

\* The wait for num_txns_left_in_epoch to be 0, which an executor counts down
\* before it pushes the result.
SchedulerWait_PoppedOnly ==
    /\ schedPc = "wait"
    /\ ~AnyAt("ready")
    /\ schedPc' = "top"
    /\ UNCHANGED <<poolVars, ownerSide, seqKnown, where, seqPc, execPc, job, misused, early>>
SchedulerWait ==
    /\ schedPc = "wait"
    /\ ~AnyAt("ready")
    /\ \A w \in Workers : execPc[w] \notin {"storage", "count"}
    /\ schedPc' = "top"
    /\ UNCHANGED <<poolVars, ownerSide, seqKnown, where, seqPc, execPc, job, misused, early>>

Scheduler ==
    \/ SchedulerStart \/ SchedulerCheck \/ SchedulerTake \/ SchedulerIdle
    \/ SchedulerApply \/ SchedulerWait

\* The sequencer: an epoch of its own for each request is enough here.
Sequencer ==
    /\ \/ /\ LoopHead(seqPc, seqPc')
          /\ UNCHANGED <<where, misused>>
       \/ /\ seqPc = "work"
          /\ \/ \E r \in Requests : Place(r, "queued", "epoch")
             \/ ~AnyAt("queued") /\ UNCHANGED where
          /\ seqPc' = "top"
          /\ Use("sequencer", "members")
          /\ UNCHANGED early
    /\ UNCHANGED <<poolVars, ownerSide, seqKnown, schedPc, execPc, job>>

-----------------------------------------------------------------------------
(* The pool's threads. *)

ExecGoto(w, to) == execPc' = [execPc EXCEPT ![w] = to]
fixed           == <<ownerSide, seqKnown, schedPc, seqPc, early>>

\* while (!stopped_) of an executor's loop, which is its task's end.
LoopCheck_Forgotten(w) ==
    /\ Running(w) /\ task[w] \in Loops /\ execPc[w] = "top"
    /\ ExecGoto(w, "pop")
    /\ UNCHANGED <<poolVars, where, job, misused, fixed>>
LoopCheck(w) ==
    /\ Running(w) /\ task[w] \in Loops /\ execPc[w] = "top"
    /\ IF stopped = "true" THEN EndTask(w) /\ UNCHANGED execPc
                           ELSE ExecGoto(w, "pop") /\ UNCHANGED poolVars
    /\ UNCHANGED <<where, job, misused, fixed>>

PopReady(w) ==
    /\ Running(w) /\ execPc[w] = "pop"
    /\ \/ \E r \in Requests : /\ Place(r, "ready", "running")
                              /\ job' = [job EXCEPT ![w] = r]
                              /\ ExecGoto(w, "storage")
       \/ ~AnyAt("ready") /\ ExecGoto(w, "top") /\ UNCHANGED <<where, job>>
    /\ Use(w, "members")
    /\ UNCHANGED <<poolVars, fixed>>

\* A task that is one transaction.
StartTxn(w) ==
    /\ Running(w) /\ task[w] \in Requests /\ execPc[w] = "top"
    /\ job' = [job EXCEPT ![w] = task[w]]
    /\ ExecGoto(w, "storage")
    /\ UNCHANGED <<poolVars, where, misused, fixed>>

UseStorage(w) ==
    /\ Running(w) /\ execPc[w] = "storage"
    /\ ExecGoto(w, IF mode = "CALVIN_EPOCH" THEN "count" ELSE "push")
    /\ Use(w, "storage")
    /\ UNCHANGED <<poolVars, where, job, fixed>>

\* An executor of an epoch counts its transaction down, after the pushes of it
\* into committed_txns_ and of its neighbours into the ready queue.
CountDown(w) ==
    /\ Running(w) /\ execPc[w] = "count"
    /\ ExecGoto(w, "push")
    /\ Use(w, "members")
    /\ UNCHANGED <<poolVars, where, job, fixed>>

\* The transaction is handed back: to the scheduler by a task of its own, to
\* the client by an executor.
PushTxn(w) ==
    /\ Running(w) /\ execPc[w] = "push"
    /\ IF task[w] \in Loops
       THEN Place(job[w], "running", "answered") /\ UNCHANGED poolVars
       ELSE Place(job[w], "task", "completed") /\ EndTask(w)
    /\ job' = [job EXCEPT ![w] = NoTask]
    /\ ExecGoto(w, "top")
    /\ Use(w, "members")
    /\ UNCHANGED fixed

Worker(w) ==
    \/ RunThread(w) /\ UNCHANGED <<where, execPc, job, misused, fixed>>
    \/ LoopCheck(w) \/ PopReady(w)
    \/ StartTxn(w) \/ UseStorage(w) \/ CountDown(w) \/ PushTxn(w)

-----------------------------------------------------------------------------
Owner ==
    \/ CreateScheduler \/ InitStopped \/ AddLoop \/ Constructed
    \/ JoinSequencer \/ JoinScheduler \/ Deallocate \/ DestroyPool

Next ==
    \/ Owner
    \/ \E r \in Requests : Submit(r)
    \/ Stop
    \/ Scheduler
    \/ Sequencer
    \/ \E w \in Workers : Worker(w)

\* Every thread is eventually scheduled; whether and when the client submits
\* or destroys is its own affair.
Fairness ==
    /\ WF_vars(Owner)
    /\ WF_vars(Scheduler)
    /\ WF_vars(Sequencer)
    /\ \A w \in Workers : WF_vars(Worker(w))

Spec     == Init /\ [][Next]_vars
FairSpec == Spec /\ Fairness
-----------------------------------------------------------------------------
(* Properties. *)

Abstract == INSTANCE TaskPool WITH
    progress <- [t \in Tasks |-> Progress(t)],
    open     <- ownerPc # "gone"

\* The pool of a processor that is being constructed, used and destroyed keeps
\* what a thread pool promises: no task is lost in the queue of a thread that
\* ends, none is run twice, and the destructor waits for all of them.
ImplementsTaskPool == Abstract!Spec

\* The order of the destructor protects whom it joins first: unless the
\* sequencer's thread id was missing, neither the scheduler nor the sequencer
\* uses what is gone, and a worker does so only if a request was unanswered
\* when the destructor was called, or to poll for work once more.  The count of
\* an epoch keeps its executors from using the storage so, though not from
\* pushing a result into a queue that is gone.
OnlyThePoolOutlivesTheMembers ==
    <<"owner", "thread id">> \notin misused =>
        \A use \in misused :
            /\ use[1] \in Workers
            /\ use[2] = "storage" => pending # {} /\ mode # "CALVIN_EPOCH"
            /\ use[2] = "members" => pending # {} \/ HasLoops(mode)

Destroying == stopped = "true" /\ ownerPc # "gone"

\* The destructor returns, also with requests unanswered: every thread that it
\* joins sees one of the two stopped_ flags, whatever it is doing, and the
\* executors' loops end although the next of them only starts then.  (Except
\* in an epoch that is never counted down and a join of a thread id nobody has
\* set; what is used when it is gone is taken to be as it was.)
DestructorReturns ==
    Destroying ~> \/ ownerPc \in {"gone", "hung"}
                  \/ mode = "CALVIN_EPOCH" /\ pending # {}

\* Every request is answered before the destructor is called, on whatever
\* queues the executors' loops have landed, unless a thread took the flag
\* the constructor had not set yet for true.
RequestsServed ==
    \A r \in Requests :
        (where[r] = "queued") ~> (where[r] = "answered" \/ stopped = "true" \/ early)
=============================================================================
