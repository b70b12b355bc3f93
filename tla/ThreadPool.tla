----------------------------- MODULE ThreadPool -----------------------------
(***************************************************************************)
(* StaticThreadPool: a fixed number of threads, each with a queue of its   *)
(* own, and a destructor that lets every thread empty its queue.  A task   *)
(* of one queue is never run by the thread of another.                     *)
(*                                                                         *)
(* A PopNonBlocking that fails because the queue's mutex is taken is the   *)
(* same as one that came before the AddTask that has it.                   *)
(***************************************************************************)
EXTENDS Queues

CONSTANTS
    Workers,    \* the pool's threads
    Tasks,      \* the tasks that may be added, each once
    NoTask      \* no task

ASSUME PoolAssumption == NoTask \notin Tasks

VARIABLES
    queues,         \* [Workers -> Seq(Tasks)], queues_
    poolStopped,    \* the pool's own stopped_
    threadPc,       \* [Workers -> ThreadPcs], where RunThread is
    task,           \* [Workers -> Tasks \cup {NoTask}], its variable task
    ended           \* for the properties: the tasks that have returned

poolVars  == <<queues, poolStopped, threadPc, task, ended>>
ThreadPcs == {"poll", "run", "check", "drain", "drainRun", "exited"}

PoolTypeOK ==
    /\ queues \in [Workers -> Seq(Tasks)]
    /\ poolStopped \in BOOLEAN
    /\ threadPc \in [Workers -> ThreadPcs]
    /\ task \in [Workers -> Tasks \cup {NoTask}]
    /\ ended \subseteq Tasks

\* Start() has created the threads.
PoolInit ==
    /\ queues = [w \in Workers |-> <<>>]
    /\ poolStopped = FALSE
    /\ threadPc = [w \in Workers |-> "poll"]
    /\ task = [w \in Workers |-> NoTask]
    /\ ended = {}

\* Into a queue chosen at random.
AddTask(t) ==
    /\ ~poolStopped
    /\ \E w \in Workers : queues' = [queues EXCEPT ![w] = Append(@, t)]
    /\ UNCHANGED <<poolStopped, threadPc, task, ended>>

Running(w) == threadPc[w] \in {"run", "drainRun"}

\* The thread takes the next task of its queue, in its loop or at its end.
PopTask(w) ==
    /\ threadPc[w] \in {"poll", "drain"}
    /\ queues[w] # <<>>
    /\ task' = [task EXCEPT ![w] = Head(queues[w])]
    /\ queues' = [queues EXCEPT ![w] = Tail(@)]
    /\ threadPc' = [threadPc EXCEPT ![w] = IF @ = "poll" THEN "run" ELSE "drainRun"]
    /\ UNCHANGED <<poolStopped, ended>>

\* task() returns.
EndTask(w) ==
    /\ threadPc' = [threadPc EXCEPT ![w] = IF @ = "run" THEN "check" ELSE "drain"]
    /\ ended' = ended \cup {task[w]}
    /\ task' = [task EXCEPT ![w] = NoTask]
    /\ UNCHANGED <<queues, poolStopped>>

\* The loop goes on, unless the pool is being destroyed.
CheckStopped_NoDrain(w) ==
    /\ threadPc[w] = "check"
    /\ threadPc' = [threadPc EXCEPT ![w] = IF poolStopped THEN "exited" ELSE "poll"]
    /\ UNCHANGED <<queues, poolStopped, task, ended>>
CheckStopped(w) ==
    /\ threadPc[w] = "check"
    /\ threadPc' = [threadPc EXCEPT ![w] = IF poolStopped THEN "drain" ELSE "poll"]
    /\ UNCHANGED <<queues, poolStopped, task, ended>>

\* An empty queue: to the check from the loop, to the end from the last one.
FindNone(w) ==
    /\ threadPc[w] \in {"poll", "drain"}
    /\ queues[w] = <<>>
    /\ threadPc' = [threadPc EXCEPT ![w] = IF @ = "poll" THEN "check" ELSE "exited"]
    /\ UNCHANGED <<queues, poolStopped, task, ended>>

RunThread(w) == PopTask(w) \/ CheckStopped(w) \/ FindNone(w)

\* The destructor.
StopPool ==
    /\ poolStopped' = TRUE
    /\ UNCHANGED <<queues, threadPc, task, ended>>

AllJoined == \A w \in Workers : threadPc[w] = "exited"

-----------------------------------------------------------------------------
(* As a task pool; closed is the end of the destructor. *)

Progress(t) ==
    IF \E w \in Workers : task[w] = t THEN "running"
    ELSE IF t \in ended THEN "done"
    ELSE IF \E w \in Workers : t \in Elements(queues[w]) THEN "added" ELSE "new"
=============================================================================
