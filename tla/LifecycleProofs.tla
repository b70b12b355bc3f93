-------------------------- MODULE LifecycleProofs ---------------------------
(***************************************************************************)
(* For any number of requests and any size of the pool: the pool of a      *)
(* processor keeps what a thread pool promises while the processor is      *)
(* constructed, used and destroyed, and the order of the destructor        *)
(* protects everybody but the pool's threads.                              *)
(***************************************************************************)
EXTENDS Lifecycle, QueueLemmas

-----------------------------------------------------------------------------
(* The inductive invariant: the pool. *)

Queued(t) == \E w \in Workers : t \in Elements(queues[w])
Taken(t)  == \E w \in Workers : task[w] = t

\* Nothing is in two queues, or twice in one.
QueuesApart ==
    /\ \A w \in Workers : Distinct(queues[w])
    /\ \A v, w \in Workers : \A t \in Elements(queues[v]) \cap Elements(queues[w]) : v = w

\* Each task that was added is in one queue, or in the hands of one thread, or
\* has ended; a thread that has ended leaves no task in its queue.
PoolInv ==
    /\ PoolTypeOK
    /\ QueuesApart
    /\ \A w \in Workers : Running(w) <=> task[w] # NoTask
    /\ \A v, w \in Workers : task[v] = task[w] /\ task[v] # NoTask => v = w
    /\ \A t \in Tasks : Queued(t) => t \notin ended /\ ~Taken(t)
    /\ \A t \in ended : ~Taken(t)
    /\ \A w \in Workers : threadPc[w] \in {"drain", "drainRun", "exited"} => poolStopped
    /\ \A w \in Workers : threadPc[w] = "exited" => queues[w] = <<>>

-----------------------------------------------------------------------------
(* The inductive invariant: the processor. *)

Unstored == {"destroyMembers", "stopPool", "joinPool", "gone"}
PastJoin == {"deleteStorage"} \cup Unstored

LocationsOK ==
    /\ ownerPc \in {"create", "initStopped", "addLoops", "built", "joinSequencer",
                    "joinScheduler", "hung"} \cup PastJoin
    /\ schedPc \in {"none", "start", "top", "work", "apply", "wait", "exited"}
    /\ seqPc \in {"none", "top", "work", "exited"}
    /\ execPc \in [Workers -> {"top", "pop", "storage", "count", "push"}]

\* What the destructor has done so far.
DestructorOrder ==
    /\ stopped = "true" <=> ownerPc \in {"joinSequencer", "joinScheduler", "hung"} \cup PastJoin
    /\ "storage" \notin alive => ownerPc \in Unstored
    /\ "members" \notin alive => ownerPc \in Unstored \ {"destroyMembers"}
    /\ poolStopped <=> ownerPc \in {"joinPool", "gone"}
    /\ ownerPc = "gone" => AllJoined
    /\ ownerPc \in PastJoin => schedPc = "exited"
    /\ ownerPc = "create" => schedPc = "none"

\* The sequencer is the scheduler's child.
SequencerJoined ==
    /\ seqKnown => schedPc \notin {"none", "start"}
    /\ seqPc # "none" => seqKnown /\ mode = "CALVIN_EPOCH"
    /\ mode = "CALVIN_EPOCH" /\ ownerPc \in {"joinScheduler"} \cup PastJoin
         => seqPc = "exited" \/ <<"owner", "thread id">> \in misused

\* Where a request is, and whether the pool has it.
RequestsPlaced ==
    /\ \A r \in Requests : Queued(r) \/ Taken(r) => where[r] = "task"
    /\ \A r \in Requests \cap ended : where[r] \in {"completed", "running", "answered"}
    /\ \A l \in Loops : Queued(l) \/ Taken(l) => HasLoops(mode)
    /\ schedPc = "apply" => ~HasLoops(mode)

AtWork(w) == execPc[w] \in {"storage", "count", "push"}

\* What the pool's threads have in their hands.
WorkersPlaced ==
    /\ \A w \in Workers : execPc[w] # "top" => Running(w)
    /\ \A w \in Workers : execPc[w] = "pop" => task[w] \in Loops
    /\ \A w \in Workers : AtWork(w) =>
          /\ job[w] \in Requests
          /\ \/ task[w] \in Loops /\ where[job[w]] = "running"
             \/ task[w] \in Requests /\ job[w] = task[w]
    /\ \A v, w \in Workers : AtWork(v) /\ AtWork(w) /\ job[v] = job[w] => v = w

\* The scheduler waits for the executors of its epoch until they have counted
\* their transactions down.
EpochCounted ==
    mode = "CALVIN_EPOCH" =>
       /\ \A r \in Requests : where[r] # "task"
       /\ \A r \in Requests : where[r] = "ready" => schedPc = "wait"
       /\ \A w \in Workers : execPc[w] \in {"storage", "count"} => schedPc = "wait"

\* Nothing is misused before the destructor, and nobody works after it when
\* nothing was pending.
NothingPending ==
    /\ stopped # "true" => misused = {}
    /\ stopped = "true" /\ pending = {} => \A r \in Requests : where[r] \in {"client", "answered"}

Inv ==
    /\ PoolInv
    /\ LifecycleTypeOK
    /\ LocationsOK
    /\ DestructorOrder
    /\ SequencerJoined
    /\ RequestsPlaced
    /\ WorkersPlaced
    /\ EpochCounted
    /\ NothingPending
    /\ OnlyThePoolOutlivesTheMembers

-----------------------------------------------------------------------------
(* What the pool's steps do to a task. *)

LEMMA PoolFrame ==
  ASSUME UNCHANGED <<queues, task, ended>>
  PROVE  \A t : /\ Progress(t)' = Progress(t)
                /\ Queued(t)' <=> Queued(t)
                /\ Taken(t)' <=> Taken(t)
  BY DEF Progress, Queued, Taken

\* Progress as the three conditions.
LEMMA ProgressIs ==
  ASSUME PoolInv, NEW t \in Tasks
  PROVE  /\ Progress(t) = "new" <=> ~Queued(t) /\ ~Taken(t) /\ t \notin ended
         /\ Progress(t) = "added" <=> Queued(t)
         /\ Progress(t) = "running" <=> Taken(t)
         /\ Progress(t) = "done" <=> t \in ended
         /\ Progress(t) \in {"new", "added", "running", "done"}
  BY DEF PoolInv, Progress, Queued, Taken

\* Task t goes to its next state, and no other task moves.
Moves(t, from, to) ==
    /\ Progress(t) = from
    /\ \A u \in Tasks : Progress(u)' = IF u = t THEN to ELSE Progress(u)

LEMMA AddMove ==
  ASSUME PoolInv, NEW t \in Tasks, Progress(t) = "new", AddTask(t)
  PROVE  /\ PoolInv' /\ Moves(t, "new", "added") /\ ~poolStopped /\ ended' = ended
         /\ \A u \in Tasks : /\ Queued(u)' <=> Queued(u) \/ u = t
                             /\ Taken(u)' <=> Taken(u)
<1>0. /\ PoolTypeOK /\ QueuesApart
      /\ ~Queued(t) /\ ~Taken(t) /\ t \notin ended
  BY ProgressIs DEF PoolInv
<1>1. /\ ~poolStopped /\ UNCHANGED <<poolStopped, threadPc, task, ended>>
  BY DEF AddTask
<1>2. PICK w \in Workers : queues' = [queues EXCEPT ![w] = Append(@, t)]
  BY DEF AddTask
<1>3. /\ QueuesApart' /\ queues' \in [Workers -> Seq(Tasks)]
      /\ \A v \in Workers : Elements(queues'[v]) = Elements(queues[v]) \cup (IF v = w THEN {t} ELSE {})
  <2>1. queues \in [Workers -> Seq(Tasks)] /\ \A v \in Workers : t \notin Elements(queues[v])
    BY <1>0 DEF PoolTypeOK, Queued
  <2>2. \A v \in Workers : queues'[v] = IF v = w THEN Append(queues[w], t) ELSE queues[v]
    BY <1>2, <2>1
  <2>3. /\ Elements(Append(queues[w], t)) = Elements(queues[w]) \cup {t}
        /\ Distinct(Append(queues[w], t))
    BY <1>0, <2>1, ElementsAppend, DistinctAppend DEF QueuesApart
  <2>4. \A v \in Workers : Elements(queues'[v]) = Elements(queues[v]) \cup (IF v = w THEN {t} ELSE {})
    BY <2>2, <2>3
  <2>5. \A v \in Workers : Distinct(queues'[v])
    BY <1>0, <2>2, <2>3 DEF QueuesApart
  <2>6. \A v, u \in Workers : \A x \in Elements(queues'[v]) \cap Elements(queues'[u]) : v = u
    <3>1. \A v \in Workers : t \notin Elements(queues[v])
      BY <2>1
    <3> QED
      BY <1>0, <2>4, <3>1 DEF QueuesApart
  <2>7. QueuesApart'
    BY <2>5, <2>6 DEF QueuesApart
  <2> QED
    BY <1>2, <2>1, <2>4, <2>7
<1>4. \A u \in Tasks : (Queued(u)' <=> Queued(u) \/ u = t) /\ (Taken(u)' <=> Taken(u))
  BY <1>1, <1>3 DEF Queued, Taken
<1>5. PoolTypeOK'
  BY <1>0, <1>1, <1>3 DEF PoolTypeOK
<1>6. PoolInv'
  BY <1>0, <1>1, <1>3, <1>4, <1>5 DEF PoolInv, Running, Taken, PoolTypeOK
<1>7. \A u \in Tasks : Progress(u)' = IF u = t THEN "added" ELSE Progress(u)
  BY <1>0, <1>1, <1>4 DEF Progress, Queued, Taken
<1> QED
  BY <1>1, <1>4, <1>6, <1>7 DEF Moves

LEMMA TakeMove ==
  ASSUME PoolInv, PoolAssumption, NEW w \in Workers, PopTask(w)
  PROVE  /\ PoolInv' /\ ~Running(w) /\ Running(w)'
         /\ \A v \in Workers \ {w} : task'[v] = task[v] /\ (Running(v)' <=> Running(v))
         /\ UNCHANGED <<poolStopped, ended>>
         /\ task'[w] \in Tasks /\ Moves(task'[w], "added", "running")
         /\ \A u \in Tasks : /\ Queued(u)' <=> Queued(u) /\ u # task'[w]
                             /\ Taken(u)' <=> Taken(u) \/ u = task'[w]
<1>0. PoolTypeOK /\ QueuesApart /\ NoTask \notin Tasks
  BY PoolAssumption DEF PoolInv
<1>1. PICK h : h = Head(queues[w])
  OBVIOUS
<1>2. /\ threadPc[w] \in {"poll", "drain"} /\ queues[w] # <<>> /\ UNCHANGED <<poolStopped, ended>>
      /\ task' = [task EXCEPT ![w] = h] /\ queues' = [queues EXCEPT ![w] = Tail(@)]
      /\ threadPc' = [threadPc EXCEPT ![w] = IF @ = "poll" THEN "run" ELSE "drainRun"]
  BY <1>1 DEF PopTask
<1>3. /\ QueuesApart' /\ queues' \in [Workers -> Seq(Tasks)] /\ h \in Tasks
      /\ \A v \in Workers : h \in Elements(queues[v]) <=> v = w
      /\ \A v \in Workers : Elements(queues'[v]) = Elements(queues[v]) \ {h}
  <2>1. queues \in [Workers -> Seq(Tasks)]
    BY <1>0 DEF PoolTypeOK
  <2>2. \A v \in Workers : queues'[v] = IF v = w THEN Tail(queues[w]) ELSE queues[v]
    BY <1>2, <2>1
  <2>3. /\ h \in Tasks /\ Elements(queues[w]) = Elements(Tail(queues[w])) \cup {h}
        /\ h \notin Elements(Tail(queues[w])) /\ Distinct(Tail(queues[w]))
    BY <1>0, <1>1, <1>2, <2>1, ElementsTail, DistinctTail DEF QueuesApart
  <2>4. \A v \in Workers : h \in Elements(queues[v]) <=> v = w
    BY <1>0, <2>3 DEF QueuesApart
  <2>5. \A v \in Workers : Elements(queues'[v]) = Elements(queues[v]) \ {h}
    BY <2>2, <2>3, <2>4
  <2>6. QueuesApart'
    BY <1>0, <2>2, <2>3, <2>5 DEF QueuesApart
  <2> QED
    BY <1>2, <2>1, <2>3, <2>4, <2>5, <2>6
<1>4. Queued(h) /\ ~Taken(h) /\ h \notin ended
  BY <1>3 DEF PoolInv, Queued
<1>5. \A v \in Workers : task'[v] = IF v = w THEN h ELSE task[v]
  BY <1>0, <1>2 DEF PoolTypeOK
<1>6. task[w] = NoTask
  BY <1>2 DEF PoolInv, Running
<1>7. \A u \in Tasks : (Queued(u)' <=> Queued(u) /\ u # h) /\ (Taken(u)' <=> Taken(u) \/ u = h)
  BY <1>0, <1>3, <1>5, <1>6 DEF Queued, Taken
<1>8. PoolTypeOK'
  BY <1>0, <1>2, <1>3 DEF PoolTypeOK, ThreadPcs
<1>9. \A v \in Workers : Running(v)' <=> Running(v) \/ v = w
  BY <1>0, <1>2 DEF Running, PoolTypeOK
<1>10. \A v \in Workers : Running(v)' <=> task'[v] # NoTask
  BY <1>0, <1>3, <1>5, <1>9 DEF PoolInv
<1>11. \A v, u \in Workers : task'[v] = task'[u] /\ task'[v] # NoTask => v = u
  BY <1>4, <1>5 DEF PoolInv, Taken
<1>12. \A v \in Workers : threadPc'[v] \in {"drain", "drainRun", "exited"} => poolStopped'
  BY <1>0, <1>2 DEF PoolInv, PoolTypeOK
<1>13. \A v \in Workers : threadPc'[v] = "exited" => queues'[v] = <<>>
  BY <1>0, <1>2 DEF PoolInv, PoolTypeOK
<1>14. \A t \in Tasks : Queued(t)' => t \notin ended' /\ ~Taken(t)'
  BY <1>2, <1>7 DEF PoolInv
<1>15. \A t \in ended' : ~Taken(t)'
  BY <1>0, <1>2, <1>4, <1>7 DEF PoolInv, PoolTypeOK
<1>16. PoolInv'
  BY <1>3, <1>8, <1>10, <1>11, <1>12, <1>13, <1>14, <1>15 DEF PoolInv
<1>17. \A u \in Tasks : Progress(u)' = IF u = h THEN "running" ELSE Progress(u)
  BY <1>2, <1>4, <1>7 DEF Progress, Queued, Taken
<1>18. Progress(h) = "added"
  BY <1>3, <1>4, ProgressIs
<1>19. ~Running(w)
  BY <1>2 DEF Running
<1> QED
  BY <1>2, <1>3, <1>5, <1>7, <1>9, <1>16, <1>17, <1>18, <1>19 DEF Moves

LEMMA EndMove ==
  ASSUME PoolInv, PoolAssumption, NEW w \in Workers, Running(w), EndTask(w)
  PROVE  /\ PoolInv' /\ ~Running(w)' /\ UNCHANGED poolStopped
         /\ \A v \in Workers \ {w} : task'[v] = task[v] /\ (Running(v)' <=> Running(v))
         /\ task[w] \in Tasks /\ Moves(task[w], "running", "done")
         /\ ended' = ended \cup {task[w]}
         /\ \A u \in Tasks : /\ Queued(u)' <=> Queued(u)
                             /\ Taken(u)' <=> Taken(u) /\ u # task[w]
<1>0. PoolTypeOK /\ QueuesApart /\ NoTask \notin Tasks
  BY PoolAssumption DEF PoolInv
<1>1. PICK h \in Tasks : h = task[w]
  BY <1>0 DEF PoolInv, PoolTypeOK
<1>2. /\ threadPc[w] \in {"run", "drainRun"} /\ UNCHANGED <<queues, poolStopped>>
      /\ threadPc' = [threadPc EXCEPT ![w] = IF @ = "run" THEN "check" ELSE "drain"]
      /\ ended' = ended \cup {h} /\ task' = [task EXCEPT ![w] = NoTask]
  BY <1>1 DEF EndTask, Running
<1>3. Taken(h) /\ ~Queued(h) /\ h \notin ended
  BY <1>1 DEF PoolInv, Taken
<1>4. \A v \in Workers : task'[v] = IF v = w THEN NoTask ELSE task[v]
  BY <1>0, <1>2 DEF PoolTypeOK
<1>5. \A v \in Workers : task[v] = h <=> v = w
  BY <1>0, <1>1 DEF PoolInv
<1>6. \A u \in Tasks : (Queued(u)' <=> Queued(u)) /\ (Taken(u)' <=> Taken(u) /\ u # h)
  BY <1>0, <1>1, <1>2, <1>4, <1>5 DEF Queued, Taken
<1>7. PoolTypeOK'
  BY <1>0, <1>2 DEF PoolTypeOK, ThreadPcs
<1>8. \A v \in Workers : Running(v)' <=> Running(v) /\ v # w
  BY <1>0, <1>2 DEF Running, PoolTypeOK
<1>9. \A v \in Workers : Running(v)' <=> task'[v] # NoTask
  BY <1>4, <1>8 DEF PoolInv
<1>10. \A v, u \in Workers : task'[v] = task'[u] /\ task'[v] # NoTask => v = u
  BY <1>4 DEF PoolInv
<1>11. \A v \in Workers : threadPc'[v] \in {"drain", "drainRun", "exited"} => poolStopped'
  BY <1>0, <1>2 DEF PoolInv, PoolTypeOK
<1>12. \A v \in Workers : threadPc'[v] = "exited" => queues'[v] = <<>>
  BY <1>0, <1>2 DEF PoolInv, PoolTypeOK
<1>13. \A t \in Tasks : Queued(t)' => t \notin ended' /\ ~Taken(t)'
  BY <1>2, <1>3, <1>6 DEF PoolInv
<1>14. \A t \in ended' : ~Taken(t)'
  BY <1>0, <1>2, <1>6 DEF PoolInv, PoolTypeOK
<1>15. PoolInv'
  BY <1>0, <1>2, <1>7, <1>9, <1>10, <1>11, <1>12, <1>13, <1>14 DEF PoolInv, QueuesApart
<1>16. \A u \in Tasks : Progress(u)' = IF u = h THEN "done" ELSE Progress(u)
  BY <1>2, <1>3, <1>6 DEF Progress, Queued, Taken
<1>17. Progress(h) = "running"
  BY <1>3, ProgressIs
<1> QED
  BY <1>1, <1>2, <1>4, <1>6, <1>8, <1>15, <1>16, <1>17 DEF Moves

\* The other steps move no task.
LEMMA RestMove ==
  ASSUME PoolInv, StopPool \/ \E w \in Workers : CheckStopped(w) \/ FindNone(w)
  PROVE  /\ PoolInv' /\ UNCHANGED <<queues, task, ended>>
         /\ \A v \in Workers : Running(v)' <=> Running(v)
<1>0. PoolTypeOK
  BY DEF PoolInv
<1>1. CASE StopPool
  <2>1. poolStopped' = TRUE /\ UNCHANGED <<queues, threadPc, task, ended>>
    BY <1>1 DEF StopPool
  <2>2. PoolTypeOK'
    BY <1>0, <2>1 DEF PoolTypeOK
  <2>3. PoolInv'
    BY <2>1, <2>2 DEF PoolInv, QueuesApart, Running, Queued, Taken
  <2> QED
    BY <2>1, <2>3 DEF Running
<1>2. ASSUME NEW w \in Workers, CheckStopped(w) \/ FindNone(w)
      PROVE  /\ PoolInv' /\ UNCHANGED <<queues, task, ended>>
             /\ \A v \in Workers : Running(v)' <=> Running(v)
  <2>1. /\ UNCHANGED <<queues, poolStopped, task, ended>>
        /\ \E l \in ThreadPcs : threadPc' = [threadPc EXCEPT ![w] = l]
        /\ threadPc[w] \in {"check", "poll", "drain"}
        /\ threadPc'[w] \in {"poll", "drain", "check", "exited"}
        /\ threadPc'[w] \in {"drain", "exited"} => poolStopped
        /\ threadPc'[w] = "exited" => queues[w] = <<>>
    BY <1>0, <1>2 DEF CheckStopped, FindNone, PoolTypeOK, ThreadPcs, PoolInv
  <2>2. PoolTypeOK'
    BY <1>0, <2>1 DEF PoolTypeOK
  <2>3. \A v \in Workers \ {w} : threadPc'[v] = threadPc[v]
    BY <1>0, <2>1 DEF PoolTypeOK
  <2>4. \A v \in Workers : Running(v)' <=> Running(v)
    BY <2>1, <2>3 DEF Running
  <2>5. \A t \in Tasks : (Queued(t)' <=> Queued(t)) /\ (Taken(t)' <=> Taken(t))
    BY <2>1 DEF Queued, Taken
  <2>6. PoolInv'
    BY <1>0, <2>1, <2>2, <2>3, <2>4, <2>5 DEF PoolInv, PoolTypeOK, QueuesApart
  <2> QED
    BY <2>1, <2>4, <2>6
<1> QED
  BY <1>1, <1>2

LEMMA PoolInitial == PoolInit => PoolInv
<1> SUFFICES ASSUME PoolInit PROVE PoolInv
  OBVIOUS
<1>1. \A w \in Workers : Elements(queues[w]) = {} /\ Distinct(queues[w])
  BY DEF PoolInit, Elements, Distinct
<1>2. PoolTypeOK
  <2>1. queues \in [Workers -> Seq(Tasks)]
    BY DEF PoolInit
  <2> QED
    BY <2>1 DEF PoolInit, PoolTypeOK, ThreadPcs
<1>3. QueuesApart
  BY <1>1 DEF PoolInit, QueuesApart
<1>4. \A t : ~Queued(t)
  BY <1>1 DEF Queued
<1> QED
  BY <1>2, <1>3, <1>4 DEF PoolInit, PoolInv, Running

-----------------------------------------------------------------------------
(* The processor's steps as the pool sees them. *)

LEMMA TakesAre ==
  ASSUME LifecycleTypeOK, LifecycleAssumption, NEW step \in Takes
  PROVE  \/ mode = "SERIAL" /\ step[1] = "queued" /\ step[2] = "running"
         \/ mode = "LOCKING" /\ step[1] = "queued" /\ step[2] = "task"
         \/ mode = "LOCKING" /\ step[1] = "completed" /\ step[2] = "running"
         \/ mode = "CALVIN_CONT" /\ step[1] = "queued" /\ step[2] = "ready"
         \/ mode = "CALVIN_EPOCH" /\ step[1] = "epoch" /\ step[2] = "ready"
<1>1. mode \in {"SERIAL", "LOCKING", "CALVIN_CONT", "CALVIN_EPOCH"}
  BY LifecycleAssumption DEF LifecycleTypeOK
<1> QED
  BY <1>1 DEF Takes

\* A request that the pool has seen is past its queues.
LEMMA UnseenIsNew ==
  ASSUME Inv, LifecycleAssumption, NEW r \in Requests,
         where[r] \in {"client", "queued", "epoch", "ready"}
  PROVE  Progress(r) = "new"
<1>1. r \in Tasks
  BY LifecycleAssumption
<1> QED
  BY <1>1, ProgressIs DEF Inv, RequestsPlaced

PoolSteps ==
    \/ UNCHANGED poolVars /\ (ownerPc' = "gone" <=> ownerPc = "gone")
    \/ ownerPc' = ownerPc /\ \E t \in Tasks : Progress(t) = "new" /\ AddTask(t)
    \/ ownerPc' = ownerPc /\ \E w \in Workers : RunThread(w)
    \/ ownerPc' = ownerPc /\ \E w \in Workers : Running(w) /\ EndTask(w)
    \/ ownerPc = "stopPool" /\ ownerPc' = "joinPool" /\ StopPool
    \/ ownerPc = "joinPool" /\ ownerPc' = "gone" /\ AllJoined /\ UNCHANGED poolVars

LEMMA StepsOfPool ==
  ASSUME Inv, LifecycleAssumption, [Next]_vars
  PROVE  PoolSteps
<1> USE DEF vars, threadVars, history, ownerSide, fixed, OwnerGoto
<1>1. CASE Owner
  <2>1. CASE AddLoop
    <3>1. PICK l \in Loops : Progress(l) = "new" /\ AddTask(l)
      BY <2>1 DEF AddLoop
    <3>2. l \in Tasks /\ ownerPc' = ownerPc
      BY <2>1, LifecycleAssumption DEF AddLoop
    <3> QED
      BY <3>1, <3>2 DEF PoolSteps
  <2>2. CASE DestroyPool
    BY <2>2 DEF DestroyPool, PoolSteps
  <2>3. CASE CreateScheduler \/ InitStopped \/ Constructed \/ JoinSequencer \/ JoinScheduler \/ Deallocate
    <3>1. UNCHANGED poolVars /\ ownerPc # "gone" /\ ownerPc' # "gone"
      BY <2>3 DEF CreateScheduler, InitStopped, Constructed, JoinSequencer, JoinScheduler, Deallocate
    <3> QED
      BY <3>1 DEF PoolSteps
  <2> QED
    BY <1>1, <2>1, <2>2, <2>3 DEF Owner
<1>2. ASSUME NEW r \in Requests, Submit(r) PROVE PoolSteps
  BY <1>2 DEF Submit, PoolSteps
<1>3. CASE Stop
  <2>1. UNCHANGED poolVars /\ ownerPc = "built" /\ ownerPc' # "gone"
    BY <1>3 DEF Stop
  <2> QED
    BY <2>1 DEF PoolSteps
<1>4. CASE Scheduler
  <2>1. CASE SchedulerTake
    <3>1. PICK step \in Takes, r \in Requests :
             /\ Place(r, step[1], step[2])
             /\ IF step[2] = "task" THEN AddTask(r) ELSE UNCHANGED poolVars
      BY <2>1 DEF SchedulerTake
    <3>2. ownerPc' = ownerPc
      BY <2>1 DEF SchedulerTake
    <3>3. CASE step[2] = "task"
      <4>1. where[r] = "queued"
        BY <3>1, <3>3, TakesAre DEF Inv, Place
      <4> QED
        BY <3>1, <3>2, <3>3, <4>1, UnseenIsNew, LifecycleAssumption DEF PoolSteps
    <3>4. CASE step[2] # "task"
      BY <3>1, <3>2, <3>4 DEF PoolSteps
    <3> QED
      BY <3>3, <3>4
  <2>2. CASE SchedulerStart \/ SchedulerCheck \/ SchedulerIdle \/ SchedulerApply \/ SchedulerWait
    <3>1. UNCHANGED poolVars /\ ownerPc' = ownerPc
      BY <2>2 DEF SchedulerStart, SchedulerCheck, SchedulerIdle, SchedulerApply, SchedulerWait
    <3> QED
      BY <3>1 DEF PoolSteps
  <2> QED
    BY <1>4, <2>1, <2>2 DEF Scheduler
<1>5. CASE Sequencer \/ UNCHANGED vars
  <2>1. UNCHANGED poolVars /\ ownerPc' = ownerPc
    BY <1>5 DEF Sequencer
  <2> QED
    BY <2>1 DEF PoolSteps
<1>6. ASSUME NEW w \in Workers, Worker(w) PROVE PoolSteps
  <2>1. ownerPc' = ownerPc
    BY <1>6 DEF Worker, LoopCheck, PopReady, StartTxn, UseStorage, CountDown, PushTxn
  <2>2. UNCHANGED poolVars \/ RunThread(w) \/ (Running(w) /\ EndTask(w))
    <3>1. CASE RunThread(w)
      BY <3>1
    <3>2. CASE LoopCheck(w)
      BY <3>2 DEF LoopCheck
    <3>3. CASE PopReady(w)
      BY <3>3 DEF PopReady
    <3>4. CASE StartTxn(w) \/ UseStorage(w) \/ CountDown(w)
      BY <3>4 DEF StartTxn, UseStorage, CountDown
    <3>5. CASE PushTxn(w)
      BY <3>5 DEF PushTxn
    <3> QED
      BY <1>6, <3>1, <3>2, <3>3, <3>4, <3>5 DEF Worker
  <2> QED
    BY <2>1, <2>2 DEF PoolSteps
<1> QED
  BY <1>1, <1>2, <1>3, <1>4, <1>5, <1>6 DEF Next

LEMMA PoolStep ==
  ASSUME Inv, PoolAssumption, LifecycleAssumption, [Next]_vars
  PROVE  PoolInv'
<1>1. PoolInv
  BY DEF Inv
<1>2. CASE UNCHANGED poolVars
  BY <1>1, <1>2 DEF PoolInv, PoolTypeOK, QueuesApart, Queued, Taken, Running, poolVars
<1> QED
  BY <1>1, <1>2, StepsOfPool, AddMove, TakeMove, EndMove, RestMove DEF PoolSteps, RunThread

\* Each step of the processor is one of the pool it promises to be, or none.
LEMMA RefinementStep ==
  ASSUME Inv, PoolAssumption, LifecycleAssumption, [Next]_vars
  PROVE  [Abstract!Next]_<<[t \in Tasks |-> Progress(t)], ownerPc # "gone">>
<1> DEFINE progress == [t \in Tasks |-> Progress(t)]
           open == ownerPc # "gone"
<1>1. PoolInv /\ DestructorOrder
  BY DEF Inv
<1>2. ASSUME NEW t \in Tasks, NEW from, NEW to, Moves(t, from, to)
      PROVE  progress[t] = from /\ progress' = [progress EXCEPT ![t] = to]
  BY <1>2 DEF Moves
<1>3. CASE UNCHANGED poolVars /\ (ownerPc' = "gone" <=> ownerPc = "gone")
  <2>1. progress' = progress
    BY <1>3, PoolFrame DEF poolVars
  <2>2. open' = open
    BY <1>3
  <2> QED
    BY <2>1, <2>2
<1>4. ASSUME NEW t \in Tasks, ownerPc' = ownerPc, Progress(t) = "new", AddTask(t)
      PROVE  Abstract!Add(t)
  <2>1. Moves(t, "new", "added") /\ ~poolStopped
    BY <1>1, <1>4, AddMove
  <2>2. open /\ open' = open
    BY <1>1, <1>4, <2>1 DEF DestructorOrder
  <2> QED
    BY <1>2, <2>1, <2>2 DEF Abstract!Add, Abstract!Move
<1>5. ASSUME NEW w \in Workers, ownerPc' = ownerPc, PopTask(w)
      PROVE  \E t \in Tasks : Abstract!Begin(t)
  <2>1. task'[w] \in Tasks /\ Moves(task'[w], "added", "running")
    BY <1>1, <1>5, TakeMove
  <2>2. PICK t \in Tasks : Moves(t, "added", "running")
    BY <2>1
  <2> QED
    BY <1>2, <1>5, <2>2 DEF Abstract!Begin, Abstract!Move
<1>6. ASSUME NEW w \in Workers, ownerPc' = ownerPc, Running(w), EndTask(w)
      PROVE  \E t \in Tasks : Abstract!End(t)
  <2>1. PICK t \in Tasks : Moves(t, "running", "done")
    BY <1>1, <1>6, EndMove
  <2> QED
    BY <1>2, <1>6, <2>1 DEF Abstract!End, Abstract!Move
<1>7. ASSUME StopPool \/ \E w \in Workers : CheckStopped(w) \/ FindNone(w),
             ownerPc' = "gone" <=> ownerPc = "gone"
      PROVE  UNCHANGED <<progress, open>>
  <2>1. progress' = progress
    BY <1>1, <1>7, RestMove, PoolFrame
  <2>2. open' = open
    BY <1>7
  <2> QED
    BY <2>1, <2>2
<1>8. CASE ownerPc = "joinPool" /\ ownerPc' = "gone" /\ AllJoined /\ UNCHANGED poolVars
  <2>1. progress' = progress
    BY <1>8, PoolFrame DEF poolVars
  <2>2. ASSUME NEW t \in Tasks PROVE progress[t] \in {"new", "done"}
    <3>1. \A w \in Workers : queues[w] = <<>> /\ task[w] = NoTask
      BY <1>1, <1>8 DEF PoolInv, AllJoined, Running
    <3>2. ~Queued(t) /\ ~Taken(t)
      BY <3>1, ElementsEmpty, PoolAssumption DEF Queued, Taken
    <3> QED
      BY <1>1, <3>2, ProgressIs
  <2>3. Abstract!Close
    BY <1>8, <2>1, <2>2 DEF Abstract!Close
  <2> QED
    BY <2>3 DEF Abstract!Next
<1>9. CASE \E w \in Workers : ownerPc' = ownerPc /\ RunThread(w)
  BY <1>5, <1>7, <1>9 DEF RunThread, Abstract!Next
<1>10. CASE ownerPc = "stopPool" /\ ownerPc' = "joinPool" /\ StopPool
  BY <1>7, <1>10
<1> QED
  BY <1>3, <1>4, <1>6, <1>8, <1>9, <1>10, StepsOfPool DEF PoolSteps, Abstract!Next

-----------------------------------------------------------------------------
(* The processor's own part of the invariant, one conjunct or two at a time. *)

LEMMA Initial ==
  ASSUME Init, PoolAssumption, LifecycleAssumption
  PROVE  Inv
<1>1. PoolInv
  BY PoolInitial DEF Init
<1>2. \A t : ~Queued(t)
  BY ElementsEmpty DEF Init, PoolInit, Queued
<1>3. \A t \in Tasks : ~Taken(t)
  BY PoolAssumption DEF Init, PoolInit, Taken
<1>4. LifecycleTypeOK /\ LocationsOK
  BY DEF Init, LifecycleTypeOK, LocationsOK, Places
<1>5. DestructorOrder /\ SequencerJoined
  BY DEF Init, PoolInit, DestructorOrder, SequencerJoined, PastJoin, Unstored
<1>6. RequestsPlaced
  BY <1>2, <1>3, LifecycleAssumption DEF Init, PoolInit, RequestsPlaced
<1>7. WorkersPlaced
  BY DEF Init, WorkersPlaced, AtWork
<1>8. NothingPending /\ OnlyThePoolOutlivesTheMembers
  BY DEF Init, NothingPending, OnlyThePoolOutlivesTheMembers
<1>9. EpochCounted
  BY DEF Init, EpochCounted
<1> QED
  BY <1>1, <1>4, <1>5, <1>6, <1>7, <1>8, <1>9 DEF Inv

LEMMA PlaceType ==
  ASSUME LifecycleTypeOK, NEW r \in Requests, NEW from, NEW to \in Places, Place(r, from, to)
  PROVE  /\ where' \in [Requests -> Places] /\ where[r] = from /\ where'[r] = to
         /\ \A q \in Requests : where'[q] = IF q = r THEN to ELSE where[q]
  BY DEF LifecycleTypeOK, Place

\* Which requests a step may move, and from where to where.
WhereSteps ==
    \/ UNCHANGED where
    \/ ownerPc = "built" /\ \E r \in Requests : Place(r, "client", "queued")
    \/ \E step \in Takes, r \in Requests :
           Place(r, step[1], step[2]) /\ (step[2] = "task" => AddTask(r))
    \/ schedPc = "apply" /\ \E r \in Requests : Place(r, "running", "answered")
    \/ \E r \in Requests : Place(r, "queued", "epoch")
    \/ \E r \in Requests : Place(r, "ready", "running")
    \/ \E w \in Workers : execPc[w] = "push" /\ PushTxn(w)

LEMMA StepsOfRequests ==
  ASSUME [Next]_vars
  PROVE  WhereSteps
<1> USE DEF vars, threadVars, history, ownerSide, fixed
<1>1. CASE Owner \/ Stop \/ UNCHANGED vars
  <2>1. UNCHANGED where
    BY <1>1 DEF Owner, CreateScheduler, InitStopped, AddLoop, Constructed, JoinSequencer,
                JoinScheduler, Deallocate, DestroyPool, Stop
  <2> QED
    BY <2>1 DEF WhereSteps
<1>2. ASSUME NEW r \in Requests, Submit(r) PROVE WhereSteps
  BY <1>2 DEF Submit, WhereSteps
<1>3. CASE SchedulerTake
  BY <1>3 DEF SchedulerTake, WhereSteps
<1>4. CASE SchedulerStart \/ SchedulerCheck \/ SchedulerIdle \/ SchedulerWait
  <2>1. UNCHANGED where
    BY <1>4 DEF SchedulerStart, SchedulerCheck, SchedulerIdle, SchedulerWait
  <2> QED
    BY <2>1 DEF WhereSteps
<1>5. CASE SchedulerApply
  BY <1>5 DEF SchedulerApply, WhereSteps
<1>6. CASE Sequencer
  BY <1>6 DEF Sequencer, WhereSteps
<1>7. ASSUME NEW w \in Workers, Worker(w) PROVE WhereSteps
  <2>1. CASE RunThread(w) /\ UNCHANGED where
    BY <2>1 DEF WhereSteps
  <2>2. CASE LoopCheck(w) \/ StartTxn(w) \/ UseStorage(w) \/ CountDown(w)
    <3>1. UNCHANGED where
      BY <2>2 DEF LoopCheck, StartTxn, UseStorage, CountDown
    <3> QED
      BY <3>1 DEF WhereSteps
  <2>3. CASE PopReady(w)
    BY <2>3 DEF PopReady, WhereSteps
  <2>4. CASE PushTxn(w)
    BY <2>4 DEF PushTxn, WhereSteps
  <2> QED
    BY <1>7, <2>1, <2>2, <2>3, <2>4 DEF Worker
<1> QED
  BY <1>1, <1>2, <1>3, <1>4, <1>5, <1>6, <1>7 DEF Next, Scheduler

LEMMA TypeStep ==
  ASSUME Inv, PoolAssumption, LifecycleAssumption, [Next]_vars
  PROVE  LifecycleTypeOK' /\ LocationsOK'
<1> USE DEF vars, threadVars, history, ownerSide, fixed
<1>0. LifecycleTypeOK /\ LocationsOK /\ PoolInv /\ WorkersPlaced
  BY DEF Inv
<1>1. where' \in [Requests -> Places]
  <2>1. \A step \in Takes : step[2] \in Places
    BY <1>0, TakesAre DEF Places
  <2>2. ASSUME NEW w \in Workers, execPc[w] = "push", PushTxn(w)
        PROVE  \E r \in Requests, to \in Places, from \in Places : Place(r, from, to)
    <3>1. job[w] \in Requests
      BY <1>0, <2>2 DEF WorkersPlaced, AtWork
    <3>2. Place(job[w], "running", "answered") \/ Place(job[w], "task", "completed")
      BY <2>2 DEF PushTxn
    <3> QED
      BY <3>1, <3>2 DEF Places
  <2>3. {"queued", "epoch", "running", "answered"} \subseteq Places
    BY DEF Places
  <2>4. UNCHANGED where \/ \E r \in Requests, to \in Places : \E from : Place(r, from, to)
    BY <2>1, <2>2, <2>3, StepsOfRequests DEF WhereSteps
  <2> QED
    BY <1>0, <2>4, PlaceType DEF LifecycleTypeOK
<1>2. CASE Owner \/ Stop
  <2>1. /\ UNCHANGED <<mode, seqKnown, job, early, seqPc, execPc>>
        /\ stopped' \in {"unset", "false", "true"} /\ schedPc' \in {schedPc, "start"}
    BY <1>0, <1>2 DEF Owner, CreateScheduler, InitStopped, AddLoop, Constructed, JoinSequencer,
                JoinScheduler, Deallocate, DestroyPool, Stop, LifecycleTypeOK
  <2>2. alive' \subseteq alive /\ pending' \subseteq Requests
    BY <1>0, <1>2 DEF Owner, CreateScheduler, InitStopped, AddLoop, Constructed, JoinSequencer,
                JoinScheduler, Deallocate, DestroyPool, Stop, LifecycleTypeOK
  <2>3. ownerPc' \in {"create", "initStopped", "addLoops", "built", "joinSequencer",
                    "joinScheduler", "hung"} \cup PastJoin
    BY <1>0, <1>2 DEF Owner, OwnerGoto, CreateScheduler, InitStopped, AddLoop, Constructed,
          JoinSequencer, JoinScheduler, Deallocate, DestroyPool, Stop, LocationsOK, PastJoin, Unstored
  <2> QED
    BY <1>0, <1>1, <2>1, <2>2, <2>3 DEF LifecycleTypeOK, LocationsOK
<1>3. ASSUME NEW r \in Requests, Submit(r) PROVE LifecycleTypeOK' /\ LocationsOK'
  BY <1>0, <1>1, <1>3 DEF Submit, LifecycleTypeOK, LocationsOK
<1>4. CASE Scheduler
  <2>1. UNCHANGED <<mode, ownerPc, stopped, alive, pending, job, execPc>>
    BY <1>4 DEF Scheduler, SchedulerStart, SchedulerCheck, SchedulerTake, SchedulerIdle,
                SchedulerApply, SchedulerWait
  <2>2. /\ schedPc' \in {"top", "work", "apply", "wait", "exited"}
        /\ seqPc' \in {seqPc, "top"} /\ seqKnown' \in {seqKnown, TRUE}
    BY <1>4 DEF Scheduler, SchedulerStart, SchedulerCheck, SchedulerTake, SchedulerIdle,
                SchedulerApply, SchedulerWait, LoopHead
  <2>3. early' \in BOOLEAN
    BY <1>0, <1>4 DEF Scheduler, SchedulerStart, SchedulerCheck, SchedulerTake, SchedulerIdle,
                SchedulerApply, SchedulerWait, LoopHead, LifecycleTypeOK
  <2> QED
    BY <1>0, <1>1, <2>1, <2>2, <2>3 DEF LifecycleTypeOK, LocationsOK
<1>5. CASE Sequencer
  <2>1. /\ UNCHANGED <<mode, ownerPc, stopped, alive, pending, job, execPc, schedPc, seqKnown>>
        /\ seqPc' \in {"top", "work", "exited"} /\ early' \in BOOLEAN
    BY <1>0, <1>5 DEF Sequencer, LoopHead, LifecycleTypeOK
  <2> QED
    BY <1>0, <1>1, <2>1 DEF LifecycleTypeOK, LocationsOK
<1>6. ASSUME NEW w \in Workers, Worker(w) PROVE LifecycleTypeOK' /\ LocationsOK'
  <2>1. UNCHANGED <<mode, ownerPc, stopped, alive, pending, seqKnown, schedPc, seqPc, early>>
    BY <1>6 DEF Worker, LoopCheck, PopReady, StartTxn, UseStorage, CountDown, PushTxn
  <2>2. execPc' \in [Workers -> {"top", "pop", "storage", "count", "push"}]
    <3>1. UNCHANGED execPc \/ \E l \in {"top", "pop", "storage", "count", "push"} : ExecGoto(w, l)
      <4>1. CASE LoopCheck(w)
        BY <4>1 DEF LoopCheck
      <4>2. CASE PopReady(w)
        BY <4>2 DEF PopReady
      <4>3. CASE StartTxn(w) \/ UseStorage(w) \/ CountDown(w)
        BY <4>3 DEF StartTxn, UseStorage, CountDown
      <4>4. CASE PushTxn(w)
        BY <4>4 DEF PushTxn
      <4> QED
        BY <1>6, <4>1, <4>2, <4>3, <4>4 DEF Worker
    <3> QED
      BY <1>0, <3>1 DEF LocationsOK, ExecGoto
  <2>3. job' \in [Workers -> Requests \cup {NoTask}]
    <3>1. UNCHANGED job \/ \E r \in Requests \cup {NoTask} : job' = [job EXCEPT ![w] = r]
      <4>1. CASE LoopCheck(w) \/ UseStorage(w) \/ CountDown(w)
        BY <4>1 DEF LoopCheck, UseStorage, CountDown
      <4>2. CASE PopReady(w)
        BY <4>2 DEF PopReady
      <4>3. CASE StartTxn(w)
        BY <4>3 DEF StartTxn
      <4>4. CASE PushTxn(w)
        BY <4>4 DEF PushTxn
      <4> QED
        BY <1>6, <4>1, <4>2, <4>3, <4>4 DEF Worker
    <3> QED
      BY <1>0, <3>1 DEF LifecycleTypeOK
  <2> QED
    BY <1>0, <1>1, <2>1, <2>2, <2>3 DEF LifecycleTypeOK, LocationsOK
<1>7. CASE UNCHANGED vars
  BY <1>0, <1>7 DEF LifecycleTypeOK, LocationsOK
<1> QED
  BY <1>2, <1>3, <1>4, <1>5, <1>6, <1>7 DEF Next

LEMMA OrderStep ==
  ASSUME Inv, PoolAssumption, LifecycleAssumption, [Next]_vars
  PROVE  DestructorOrder' /\ SequencerJoined'
<1> USE DEF vars, threadVars, history, ownerSide, fixed, PastJoin, Unstored
<1>0. LocationsOK /\ DestructorOrder /\ SequencerJoined /\ PoolInv /\ LifecycleTypeOK
  BY DEF Inv
<1>1. ASSUME NEW w \in Workers, AllJoined PROVE ~RunThread(w) /\ ~Running(w)
  BY <1>1 DEF AllJoined, RunThread, PopTask, CheckStopped, FindNone, Running
<1>2. ASSUME UNCHANGED <<stopped, ownerPc, alive>>, schedPc = "exited" => schedPc' = "exited",
             schedPc' = "none" \/ schedPc # "none"
      PROVE  DestructorOrder'
  <2>1. poolStopped' = poolStopped
    BY <1>2, StepsOfPool DEF PoolSteps, AddTask, RunThread, PopTask, CheckStopped, FindNone, EndTask, poolVars
  <2>2. ownerPc = "gone" => AllJoined'
    <3>1. SUFFICES ASSUME ownerPc = "gone" PROVE AllJoined'
      OBVIOUS
    <3>2. AllJoined
      BY <1>0, <3>1 DEF DestructorOrder
    <3>3. threadPc' = threadPc
      BY <1>0, <1>1, <1>2, <3>1, <3>2, StepsOfPool DEF PoolSteps, AddTask, poolVars
    <3> QED
      BY <3>2, <3>3 DEF AllJoined
  <2> QED
    BY <1>0, <1>2, <2>1, <2>2 DEF DestructorOrder
<1>3. CASE Owner
  <2>1. CASE CreateScheduler \/ InitStopped \/ Constructed
    <3>1. /\ UNCHANGED <<poolVars, mode, seqKnown, seqPc, alive, misused>>
          /\ ownerPc \in {"create", "initStopped", "addLoops"}
          /\ ownerPc' \in {"initStopped", "addLoops", "built"}
          /\ stopped' \in {stopped, "false"}
          /\ schedPc' = schedPc \/ (ownerPc = "create" /\ schedPc' = "start")
      BY <2>1 DEF CreateScheduler, InitStopped, Constructed, OwnerGoto
    <3>2. DestructorOrder'
      BY <1>0, <3>1 DEF DestructorOrder, poolVars
    <3>3. SequencerJoined'
      BY <1>0, <3>1 DEF DestructorOrder, SequencerJoined
    <3> QED
      BY <3>2, <3>3
  <2>2. CASE AddLoop
    BY <1>0, <1>2, <2>2 DEF AddLoop, SequencerJoined
  <2>3. CASE JoinSequencer
    BY <1>0, <2>3 DEF JoinSequencer, DestructorOrder, SequencerJoined, poolVars
  <2>4. CASE JoinScheduler
    BY <1>0, <2>4 DEF JoinScheduler, OwnerGoto, DestructorOrder, SequencerJoined, poolVars
  <2>5. CASE Deallocate
    BY <1>0, <2>5 DEF Deallocate, OwnerGoto, DestructorOrder, SequencerJoined, poolVars
  <2>6. CASE DestroyPool
    <3>1. AllJoined' <=> AllJoined
      BY <1>0, <2>6 DEF DestroyPool, StopPool, AllJoined, poolVars
    <3> QED
      BY <1>0, <2>6, <3>1 DEF DestroyPool, StopPool, OwnerGoto, DestructorOrder, SequencerJoined, poolVars
  <2> QED
    BY <1>3, <2>1, <2>2, <2>3, <2>4, <2>5, <2>6 DEF Owner
<1>4. CASE Stop
  BY <1>0, <1>4 DEF Stop, OwnerGoto, DestructorOrder, SequencerJoined, poolVars
<1>5. ASSUME NEW r \in Requests, Submit(r) PROVE DestructorOrder' /\ SequencerJoined'
  BY <1>0, <1>2, <1>5 DEF Submit, SequencerJoined
<1>6. CASE Scheduler
  <2>1. /\ UNCHANGED <<mode, stopped, ownerPc, alive>> /\ schedPc # "exited" /\ schedPc # "none"
        /\ misused \subseteq misused'
    BY <1>6 DEF Scheduler, SchedulerStart, SchedulerCheck, SchedulerTake, SchedulerIdle,
                SchedulerApply, SchedulerWait, LoopHead, Use
  <2>2. DestructorOrder'
    BY <1>2, <2>1
  <2>3. CASE SchedulerStart
    <3>1. schedPc = "start" /\ schedPc' = "top" /\ UNCHANGED misused
      BY <2>3 DEF SchedulerStart
    <3>2. CASE mode = "CALVIN_EPOCH"
      <4>1. seqPc' = "top" /\ seqKnown' = TRUE
        BY <2>3, <3>2 DEF SchedulerStart
      <4>2. seqPc = "none"
        BY <1>0, <3>1 DEF SequencerJoined
      <4> QED
        BY <1>0, <2>1, <3>1, <3>2, <4>1, <4>2, <2>2 DEF SequencerJoined
    <3>3. CASE mode # "CALVIN_EPOCH"
      <4>1. UNCHANGED <<seqPc, seqKnown>>
        BY <2>3, <3>3 DEF SchedulerStart
      <4> QED
        BY <1>0, <2>1, <3>1, <3>3, <4>1, <2>2 DEF SequencerJoined
    <3> QED
      BY <3>2, <3>3
  <2>4. CASE ~SchedulerStart
    <3>1. UNCHANGED <<seqKnown, seqPc>> /\ schedPc' \notin {"none", "start"} /\ schedPc # "start"
      BY <1>6, <2>4 DEF Scheduler, SchedulerCheck, SchedulerTake, SchedulerIdle,
                SchedulerApply, SchedulerWait, LoopHead
    <3> QED
      BY <1>0, <2>1, <2>2, <3>1 DEF SequencerJoined
  <2> QED
    BY <2>2, <2>3, <2>4 DEF SequencerJoined
<1>7. CASE Sequencer
  <2>1. /\ UNCHANGED <<mode, stopped, ownerPc, alive, schedPc, seqKnown>>
        /\ seqPc \in {"top", "work"} /\ misused \subseteq misused'
    BY <1>7 DEF Sequencer, LoopHead, Use
  <2> QED
    BY <1>0, <1>2, <2>1 DEF SequencerJoined
<1>8. ASSUME NEW w \in Workers, Worker(w) PROVE DestructorOrder' /\ SequencerJoined'
  <2>1. /\ UNCHANGED <<mode, stopped, ownerPc, alive, schedPc, seqKnown, seqPc>>
        /\ misused \subseteq misused'
    BY <1>8 DEF Worker, LoopCheck, PopReady, StartTxn, UseStorage, CountDown, PushTxn, Use
  <2> QED
    BY <1>0, <1>2, <2>1 DEF SequencerJoined
<1>9. CASE UNCHANGED vars
  BY <1>0, <1>2, <1>9 DEF SequencerJoined
<1> QED
  BY <1>3, <1>4, <1>5, <1>6, <1>7, <1>8, <1>9 DEF Next

LEMMA PlacedStep ==
  ASSUME Inv, PoolAssumption, LifecycleAssumption, [Next]_vars
  PROVE  RequestsPlaced'
<1> USE DEF vars, threadVars, history, ownerSide, fixed
<1>0. /\ LocationsOK /\ LifecycleTypeOK /\ PoolInv /\ RequestsPlaced /\ WorkersPlaced
      /\ Tasks = Requests \cup Loops /\ Requests \cap Loops = {}
  BY LifecycleAssumption DEF Inv
<1>1. ASSUME UNCHANGED mode, schedPc' = "apply" => ~HasLoops(mode), ended' = ended,
             \A t \in Tasks : Queued(t)' \/ Taken(t)' => Queued(t) \/ Taken(t),
             \A r \in Requests : \/ where'[r] = where[r]
                                 \/ where[r] \in {"client", "queued", "epoch", "ready"}
                                 \/ /\ where[r] \in {"completed", "running"}
                                    /\ where'[r] \in {"completed", "running", "answered"}
      PROVE  RequestsPlaced'
  BY <1>0, <1>1 DEF RequestsPlaced, HasLoops
<1>2. ASSUME UNCHANGED <<poolVars, where, mode>>, schedPc' = "apply" => schedPc = "apply"
      PROVE  RequestsPlaced'
  <2>1. \A t \in Tasks : (Queued(t)' <=> Queued(t)) /\ (Taken(t)' <=> Taken(t))
    BY <1>2, PoolFrame DEF poolVars
  <2> QED
    BY <1>0, <1>1, <1>2, <2>1 DEF RequestsPlaced, poolVars
<1>3. ASSUME UNCHANGED <<poolVars, mode>>, schedPc' = "apply" => ~HasLoops(mode),
             NEW r \in Requests, NEW from, NEW to \in Places, Place(r, from, to),
             \/ from \in {"client", "queued", "epoch", "ready"}
             \/ from \in {"completed", "running"} /\ to \in {"completed", "running", "answered"}
      PROVE  RequestsPlaced'
  <2>1. \A t \in Tasks : (Queued(t)' <=> Queued(t)) /\ (Taken(t)' <=> Taken(t))
    BY <1>3, PoolFrame DEF poolVars
  <2>2. where[r] = from /\ where'[r] = to /\ \A q \in Requests \ {r} : where'[q] = where[q]
    BY <1>0, <1>3, PlaceType
  <2> QED
    BY <1>1, <1>3, <2>1, <2>2 DEF poolVars
<1>4. CASE Owner \/ Stop
  <2>1. CASE AddLoop
    <3>1. PICK l \in Loops : Progress(l) = "new" /\ AddTask(l)
      BY <2>1 DEF AddLoop
    <3>2. UNCHANGED <<mode, schedPc, where>> /\ HasLoops(mode) /\ HasLoops(mode')
      BY <2>1 DEF AddLoop
    <3>3. /\ ended' = ended
          /\ \A u \in Tasks : (Queued(u)' <=> Queued(u) \/ u = l) /\ (Taken(u)' <=> Taken(u))
      BY <1>0, <3>1, AddMove
    <3> QED
      BY <1>0, <3>2, <3>3 DEF RequestsPlaced
  <2>2. CASE DestroyPool
    <3>1. UNCHANGED <<queues, task, ended, where, mode, schedPc>>
      BY <2>2 DEF DestroyPool, StopPool, poolVars
    <3>2. \A t \in Tasks : (Queued(t)' <=> Queued(t)) /\ (Taken(t)' <=> Taken(t))
      BY <3>1, PoolFrame
    <3> QED
      BY <1>0, <1>1, <3>1, <3>2 DEF RequestsPlaced
  <2>3. CASE ~AddLoop /\ ~DestroyPool
    <3>1. UNCHANGED <<poolVars, where, mode>> /\ (schedPc' = "apply" => schedPc = "apply")
      BY <1>4, <2>3 DEF Owner, CreateScheduler, InitStopped, Constructed, JoinSequencer,
                        JoinScheduler, Deallocate, Stop
    <3> QED
      BY <1>2, <3>1
  <2> QED
    BY <2>1, <2>2, <2>3
<1>5. ASSUME NEW r \in Requests, Submit(r) PROVE RequestsPlaced'
  <2>1. UNCHANGED <<poolVars, mode, schedPc>> /\ Place(r, "client", "queued")
    BY <1>5 DEF Submit
  <2> QED
    BY <1>0, <1>3, <2>1 DEF RequestsPlaced, Places
<1>6. CASE Scheduler
  <2>1. CASE SchedulerTake
    <3>1. PICK step \in Takes, r \in Requests :
             /\ Place(r, step[1], step[2])
             /\ IF step[2] = "task" THEN AddTask(r) ELSE UNCHANGED poolVars
             /\ schedPc' = "apply" => step[2] = "running"
      BY <2>1 DEF SchedulerTake
    <3>2. mode' = mode
      BY <2>1 DEF SchedulerTake
    <3>3. /\ step[1] \in {"queued", "completed", "epoch"} /\ step[2] \in Places
          /\ step[1] = "completed" => step[2] = "running"
          /\ step[2] \in {"running", "task"} => ~HasLoops(mode)
      BY <1>0, TakesAre DEF HasLoops, Places
    <3>4. CASE step[2] = "task"
      <4>1. where[r] \in {"queued", "epoch"}
        BY <3>1, <3>3, <3>4 DEF Place
      <4>2. /\ ended' = ended
            /\ \A u \in Tasks : (Queued(u)' <=> Queued(u) \/ u = r) /\ (Taken(u)' <=> Taken(u))
        BY <1>0, <3>1, <3>4, <4>1, UnseenIsNew, LifecycleAssumption, AddMove
      <4>3. where'[r] = "task" /\ \A q \in Requests \ {r} : where'[q] = where[q]
        BY <1>0, <3>1, <3>3, <3>4, PlaceType
      <4>4. schedPc' # "apply"
        BY <3>1, <3>4
      <4>5. r \notin ended
        BY <1>0, <4>1 DEF RequestsPlaced
      <4> QED
        BY <1>0, <3>2, <4>2, <4>3, <4>4, <4>5 DEF RequestsPlaced, HasLoops
    <3>5. CASE step[2] # "task"
      BY <1>3, <3>1, <3>2, <3>3, <3>5
    <3> QED
      BY <3>4, <3>5
  <2>2. CASE SchedulerApply
    <3>1. PICK r \in Requests : Place(r, "running", "answered")
      BY <2>2 DEF SchedulerApply
    <3>2. UNCHANGED <<poolVars, mode>> /\ schedPc' # "apply"
      BY <2>2 DEF SchedulerApply
    <3> QED
      BY <1>3, <3>1, <3>2 DEF Places
  <2>3. CASE SchedulerStart \/ SchedulerCheck \/ SchedulerIdle \/ SchedulerWait
    <3>1. UNCHANGED <<poolVars, where, mode>> /\ schedPc' # "apply"
      BY <2>3 DEF SchedulerStart, SchedulerCheck, LoopHead, SchedulerIdle, SchedulerWait
    <3> QED
      BY <1>2, <3>1
  <2> QED
    BY <1>6, <2>1, <2>2, <2>3 DEF Scheduler
<1>7. CASE Sequencer
  <2>1. UNCHANGED <<poolVars, mode, schedPc>>
    BY <1>7 DEF Sequencer
  <2>2. UNCHANGED where \/ \E r \in Requests : Place(r, "queued", "epoch")
    BY <1>7 DEF Sequencer
  <2>3. \A r \in Requests : Place(r, "queued", "epoch") => RequestsPlaced'
    BY <1>0, <1>3, <2>1 DEF RequestsPlaced, Places
  <2> QED
    BY <1>2, <2>1, <2>2, <2>3
<1>8. ASSUME NEW w \in Workers, Worker(w) PROVE RequestsPlaced'
  <2>0. UNCHANGED <<mode, schedPc>>
    BY <1>8 DEF Worker, LoopCheck, PopReady, StartTxn, UseStorage, CountDown, PushTxn
  <2>1. CASE RunThread(w) /\ UNCHANGED where
    <3>1. ended' = ended /\ \A t \in Tasks : Queued(t)' \/ Taken(t)' => Queued(t) \/ Taken(t)
      <4>1. CASE PopTask(w)
        <5>1. PICK h \in Tasks : h = task'[w] /\ Moves(h, "added", "running")
          BY <1>0, <4>1, TakeMove
        <5>2. Queued(h)
          BY <1>0, <5>1, ProgressIs DEF Moves
        <5>3. /\ ended' = ended
              /\ \A u \in Tasks : /\ Queued(u)' <=> Queued(u) /\ u # h
                                  /\ Taken(u)' <=> Taken(u) \/ u = h
          BY <1>0, <4>1, <5>1, TakeMove
        <5> QED
          BY <5>2, <5>3
      <4>2. CASE CheckStopped(w) \/ FindNone(w)
        BY <1>0, <4>2, RestMove, PoolFrame
      <4> QED
        BY <2>1, <4>1, <4>2 DEF RunThread
    <3> QED
      BY <1>0, <1>1, <2>0, <2>1, <3>1 DEF RequestsPlaced
  <2>2. CASE LoopCheck(w)
    <3>1. CASE stopped = "true"
      <4>1. Running(w) /\ EndTask(w) /\ task[w] \in Loops /\ UNCHANGED where
        BY <2>2, <3>1 DEF LoopCheck
      <4>2. /\ ended' = ended \cup {task[w]}
            /\ \A t \in Tasks : Queued(t)' \/ Taken(t)' => Queued(t) \/ Taken(t)
        BY <1>0, <4>1, EndMove
      <4> QED
        BY <1>0, <2>0, <4>1, <4>2 DEF RequestsPlaced, HasLoops
    <3>2. CASE stopped # "true"
      <4>1. UNCHANGED <<poolVars, where>>
        BY <2>2, <3>2 DEF LoopCheck
      <4> QED
        BY <1>2, <2>0, <4>1
    <3> QED
      BY <3>1, <3>2
  <2>3. CASE PopReady(w)
    <3>1. UNCHANGED poolVars /\ (UNCHANGED where \/ \E r \in Requests : Place(r, "ready", "running"))
      BY <2>3 DEF PopReady
    <3>2. \A r \in Requests : Place(r, "ready", "running") => RequestsPlaced'
      BY <1>0, <1>3, <2>0, <3>1 DEF RequestsPlaced, Places
    <3> QED
      BY <1>2, <2>0, <3>1, <3>2
  <2>4. CASE StartTxn(w) \/ UseStorage(w) \/ CountDown(w)
    <3>1. UNCHANGED <<poolVars, where>>
      BY <2>4 DEF StartTxn, UseStorage, CountDown
    <3> QED
      BY <1>2, <2>0, <3>1
  <2>5. CASE PushTxn(w)
    <3>1. Running(w) /\ execPc[w] = "push" /\ job[w] \in Requests
      BY <1>0, <2>5 DEF PushTxn, WorkersPlaced, AtWork
    <3>2. PICK r \in Requests : r = job[w]
      BY <3>1
    <3>3. CASE task[w] \in Loops
      <4>1. UNCHANGED poolVars /\ Place(r, "running", "answered")
        BY <2>5, <3>2, <3>3 DEF PushTxn
      <4> QED
        BY <1>0, <1>3, <2>0, <4>1 DEF RequestsPlaced, Places
    <3>4. CASE task[w] \notin Loops
      <4>1. EndTask(w) /\ Place(r, "task", "completed")
        BY <2>5, <3>2, <3>4 DEF PushTxn
      <4>2. task[w] = r
        BY <1>0, <3>1, <3>2, <3>4 DEF WorkersPlaced, AtWork
      <4>3. /\ ended' = ended \cup {r}
            /\ \A u \in Tasks : (Queued(u)' <=> Queued(u)) /\ (Taken(u)' <=> Taken(u) /\ u # r)
        BY <1>0, <3>1, <4>1, <4>2, EndMove
      <4>4. where'[r] = "completed" /\ \A q \in Requests \ {r} : where'[q] = where[q]
        BY <1>0, <4>1, PlaceType DEF Places
      <4>5. ~Queued(r) /\ Taken(r)
        BY <1>0, <4>2 DEF PoolInv, Taken
      <4>6. \A q \in Requests : Queued(q)' \/ Taken(q)' => where'[q] = "task"
        BY <1>0, <4>3, <4>4, <4>5 DEF RequestsPlaced
      <4>7. \A q \in Requests \cap ended' : where'[q] \in {"completed", "running", "answered"}
        BY <1>0, <4>3, <4>4 DEF RequestsPlaced
      <4>8. \A l \in Loops : Queued(l)' \/ Taken(l)' => HasLoops(mode')
        BY <1>0, <2>0, <4>3 DEF RequestsPlaced
      <4>9. schedPc' = "apply" => ~HasLoops(mode')
        BY <1>0, <2>0 DEF RequestsPlaced
      <4> QED
        BY <4>6, <4>7, <4>8, <4>9 DEF RequestsPlaced, HasLoops
    <3> QED
      BY <3>3, <3>4
  <2> QED
    BY <1>8, <2>1, <2>2, <2>3, <2>4, <2>5 DEF Worker
<1>9. CASE UNCHANGED vars
  BY <1>2, <1>9
<1> QED
  BY <1>4, <1>5, <1>6, <1>7, <1>8, <1>9 DEF Next

LEMMA WorkersStep ==
  ASSUME Inv, PoolAssumption, LifecycleAssumption, [Next]_vars
  PROVE  WorkersPlaced'
<1> USE DEF vars, threadVars, history, ownerSide, fixed
<1>0. /\ LocationsOK /\ LifecycleTypeOK /\ PoolInv /\ RequestsPlaced /\ WorkersPlaced
      /\ Requests \cap Loops = {} /\ Requests \subseteq Tasks /\ Loops \subseteq Tasks
  BY LifecycleAssumption DEF Inv
<1>1. ASSUME NEW w \in Workers
      PROVE  /\ task[w] \in Loops => HasLoops(mode)
             /\ task[w] \in Requests => where[task[w]] = "task"
  <2>1. PICK t : t = task[w]
    OBVIOUS
  <2>2. Taken(t)
    BY <2>1 DEF Taken
  <2> QED
    BY <1>0, <2>1, <2>2 DEF RequestsPlaced
\* Nobody's hands move.
<1>2. ASSUME UNCHANGED <<execPc, job>>,
             \A w \in Workers : execPc[w] # "top" => task'[w] = task[w] /\ (Running(w)' <=> Running(w)),
             \A r \in Requests : where[r] = "running" => where'[r] = "running" \/ ~HasLoops(mode)
      PROVE  WorkersPlaced'
  BY <1>0, <1>1, <1>2 DEF WorkersPlaced, AtWork
\* One worker's hands move.
<1>3. ASSUME NEW w \in Workers,
             \A v \in Workers \ {w} : /\ task'[v] = task[v] /\ (Running(v)' <=> Running(v))
                                      /\ job'[v] = job[v] /\ execPc'[v] = execPc[v]
             , \A r \in Requests : where[r] = "running" =>
                   where'[r] = "running" \/ (AtWork(w) /\ r = job[w]) \/ ~HasLoops(mode),
             execPc'[w] = "top" \/
               /\ Running(w)'
               /\ execPc'[w] = "pop" => task'[w] \in Loops
               /\ AtWork(w)' =>
                     /\ job'[w] \in Requests
                     /\ \/ task'[w] \in Loops /\ where'[job'[w]] = "running"
                        \/ task'[w] \in Requests /\ job'[w] = task'[w]
                     /\ \A v \in Workers \ {w} : AtWork(v) => job[v] # job'[w]
      PROVE  WorkersPlaced'
  <2>1. \A v \in Workers \ {w} : AtWork(v)' <=> AtWork(v)
    BY <1>3 DEF AtWork
  <2>2. execPc'[w] = "top" => ~AtWork(w)'
    BY DEF AtWork
  <2>3. \A v \in Workers : execPc'[v] # "top" => Running(v)'
    BY <1>0, <1>3 DEF WorkersPlaced
  <2>4. \A v \in Workers : execPc'[v] = "pop" => task'[v] \in Loops
    BY <1>0, <1>3 DEF WorkersPlaced
  <2>5. \A v \in Workers : AtWork(v)' =>
          /\ job'[v] \in Requests
          /\ \/ task'[v] \in Loops /\ where'[job'[v]] = "running"
             \/ task'[v] \in Requests /\ job'[v] = task'[v]
    <3>1. SUFFICES ASSUME NEW v \in Workers \ {w}, AtWork(v)
                   PROVE  /\ job'[v] \in Requests
                          /\ \/ task'[v] \in Loops /\ where'[job'[v]] = "running"
                             \/ task'[v] \in Requests /\ job'[v] = task'[v]
      BY <1>3, <2>1, <2>2
    <3>2. AtWork(w) => job[v] # job[w]
      BY <1>0, <3>1 DEF WorkersPlaced
    <3> QED
      BY <1>0, <1>1, <1>3, <3>1, <3>2 DEF WorkersPlaced
  <2>6. \A u, v \in Workers : AtWork(u)' /\ AtWork(v)' /\ job'[u] = job'[v] => u = v
    BY <1>0, <1>3, <2>1, <2>2 DEF WorkersPlaced
  <2> QED
    BY <2>3, <2>4, <2>5, <2>6 DEF WorkersPlaced
\* A step of anyone but the pool's threads.
<1>4. ASSUME UNCHANGED <<execPc, job, task, threadPc>>,
             UNCHANGED where \/ \E r \in Requests, to \in Places : \E from :
                 Place(r, from, to) /\ (from # "running" \/ ~HasLoops(mode))
      PROVE  WorkersPlaced'
  <2>1. \A r \in Requests : where[r] = "running" => where'[r] = "running" \/ ~HasLoops(mode)
    BY <1>0, <1>4, PlaceType
  <2> QED
    BY <1>2, <1>4, <2>1 DEF Running
<1>5. CASE Owner \/ Stop \/ UNCHANGED vars
  <2>1. UNCHANGED <<execPc, job, where>>
    BY <1>5 DEF Owner, CreateScheduler, InitStopped, AddLoop, Constructed, JoinSequencer,
                JoinScheduler, Deallocate, DestroyPool, Stop
  <2>2. UNCHANGED <<task, threadPc>>
    BY <1>5 DEF Owner, CreateScheduler, InitStopped, AddLoop, AddTask, Constructed, JoinSequencer,
                JoinScheduler, Deallocate, DestroyPool, StopPool, Stop, poolVars
  <2> QED
    BY <1>4, <2>1, <2>2
<1>6. ASSUME NEW r \in Requests, Submit(r) PROVE WorkersPlaced'
  <2>1. UNCHANGED <<execPc, job, task, threadPc>> /\ Place(r, "client", "queued") /\ "queued" \in Places
    BY <1>6 DEF Submit, poolVars, Places
  <2> QED
    BY <1>4, <2>1
<1>7. CASE Scheduler
  <2>1. CASE SchedulerTake
    <3>1. PICK step \in Takes, r \in Requests :
             /\ Place(r, step[1], step[2])
             /\ IF step[2] = "task" THEN AddTask(r) ELSE UNCHANGED poolVars
      BY <2>1 DEF SchedulerTake
    <3>2. UNCHANGED <<execPc, job, task, threadPc>>
      BY <2>1, <3>1 DEF SchedulerTake, AddTask, poolVars
    <3>3. step[1] # "running" /\ step[2] \in Places
      BY <1>0, TakesAre DEF Places
    <3> QED
      BY <1>4, <3>1, <3>2, <3>3
  <2>2. CASE SchedulerApply
    <3>1. PICK r \in Requests : Place(r, "running", "answered")
      BY <2>2 DEF SchedulerApply
    <3>2. UNCHANGED <<execPc, job, task, threadPc>> /\ ~HasLoops(mode) /\ "answered" \in Places
      BY <1>0, <2>2 DEF SchedulerApply, poolVars, RequestsPlaced, Places
    <3> QED
      BY <1>4, <3>1, <3>2
  <2>3. CASE SchedulerStart \/ SchedulerCheck \/ SchedulerIdle \/ SchedulerWait
    <3>1. UNCHANGED <<execPc, job, task, threadPc, where>>
      BY <2>3 DEF SchedulerStart, SchedulerCheck, SchedulerIdle, SchedulerWait, poolVars
    <3> QED
      BY <1>4, <3>1
  <2> QED
    BY <1>7, <2>1, <2>2, <2>3 DEF Scheduler
<1>8. CASE Sequencer
  <2>1. UNCHANGED <<execPc, job, task, threadPc>> /\ "epoch" \in Places
    BY <1>8 DEF Sequencer, poolVars, Places
  <2>2. UNCHANGED where \/ \E r \in Requests : Place(r, "queued", "epoch")
    BY <1>8 DEF Sequencer
  <2> QED
    BY <1>4, <2>1, <2>2
<1>9. ASSUME NEW w \in Workers, Worker(w) PROVE WorkersPlaced'
  <2>1. CASE RunThread(w) /\ UNCHANGED <<where, execPc, job>>
    <3>1. \A v \in Workers : execPc[v] # "top" => task'[v] = task[v] /\ (Running(v)' <=> Running(v))
      <4>1. CASE PopTask(w)
        BY <1>0, <4>1, TakeMove DEF WorkersPlaced
      <4>2. CASE CheckStopped(w) \/ FindNone(w)
        BY <1>0, <4>2, RestMove
      <4> QED
        BY <2>1, <4>1, <4>2 DEF RunThread
    <3> QED
      BY <1>2, <2>1, <3>1
  <2>2. CASE LoopCheck(w)
    <3>1. Running(w) /\ task[w] \in Loops /\ execPc[w] = "top" /\ UNCHANGED <<where, job>>
      BY <2>2 DEF LoopCheck
    <3>2. CASE stopped = "true"
      <4>1. EndTask(w) /\ UNCHANGED execPc
        BY <2>2, <3>2 DEF LoopCheck
      <4>2. \A v \in Workers \ {w} : task'[v] = task[v] /\ (Running(v)' <=> Running(v))
        BY <1>0, <3>1, <4>1, EndMove
      <4> QED
        BY <1>2, <3>1, <4>1, <4>2
    <3>3. CASE stopped # "true"
      <4>1. ExecGoto(w, "pop") /\ UNCHANGED poolVars
        BY <2>2, <3>3 DEF LoopCheck
      <4>2. execPc'[w] = "pop" /\ \A v \in Workers \ {w} : execPc'[v] = execPc[v]
        BY <1>0, <4>1 DEF ExecGoto, LocationsOK
      <4>3. ~AtWork(w)' /\ UNCHANGED task /\ \A v \in Workers : Running(v)' <=> Running(v)
        BY <4>1, <4>2 DEF AtWork, Running, poolVars
      <4> QED
        BY <1>3, <3>1, <4>2, <4>3
    <3> QED
      BY <3>2, <3>3
  <2>3. CASE PopReady(w)
    <3>1. Running(w) /\ execPc[w] = "pop" /\ UNCHANGED poolVars /\ task[w] \in Loops
      BY <1>0, <2>3 DEF PopReady, WorkersPlaced
    <3>2. UNCHANGED task /\ \A v \in Workers : Running(v)' <=> Running(v)
      BY <3>1 DEF poolVars, Running
    <3>3. CASE ExecGoto(w, "top") /\ UNCHANGED <<where, job>>
      <4>1. execPc'[w] = "top" /\ \A v \in Workers \ {w} : execPc'[v] = execPc[v]
        BY <1>0, <3>3 DEF ExecGoto, LocationsOK
      <4> QED
        BY <1>3, <3>2, <3>3, <4>1
    <3>4. ASSUME NEW r \in Requests, Place(r, "ready", "running"), job' = [job EXCEPT ![w] = r],
                 ExecGoto(w, "storage")
          PROVE  WorkersPlaced'
      <4>1. execPc'[w] = "storage" /\ \A v \in Workers \ {w} : execPc'[v] = execPc[v]
        BY <1>0, <3>4 DEF ExecGoto, LocationsOK
      <4>2. job'[w] = r /\ \A v \in Workers \ {w} : job'[v] = job[v]
        BY <1>0, <3>4 DEF LifecycleTypeOK
      <4>3. where[r] = "ready" /\ where'[r] = "running" /\ \A q \in Requests \ {r} : where'[q] = where[q]
        BY <1>0, <3>4, PlaceType DEF Places
      <4>4. \A v \in Workers : AtWork(v) => job[v] # r
        BY <1>0, <1>1, <4>3 DEF WorkersPlaced
      <4> QED
        BY <1>3, <3>1, <3>2, <4>1, <4>2, <4>3, <4>4
    <3> QED
      BY <2>3, <3>3, <3>4 DEF PopReady
  <2>4. CASE StartTxn(w)
    <3>1. /\ Running(w) /\ task[w] \in Requests /\ UNCHANGED <<poolVars, where>>
          /\ job' = [job EXCEPT ![w] = task[w]] /\ ExecGoto(w, "storage")
      BY <2>4 DEF StartTxn
    <3>2. UNCHANGED task /\ \A v \in Workers : Running(v)' <=> Running(v)
      BY <3>1 DEF poolVars, Running
    <3>3. execPc'[w] = "storage" /\ \A v \in Workers \ {w} : execPc'[v] = execPc[v]
      BY <1>0, <3>1 DEF ExecGoto, LocationsOK
    <3>4. job'[w] = task[w] /\ \A v \in Workers \ {w} : job'[v] = job[v]
      BY <1>0, <3>1 DEF LifecycleTypeOK
    <3>5. ASSUME NEW v \in Workers \ {w}, AtWork(v) PROVE job[v] # task[w]
      <4>1. where[task[w]] = "task"
        BY <1>1, <3>1
      <4>2. task[v] \in Requests => task[v] # task[w]
        BY <1>0, <3>1, PoolAssumption DEF PoolInv
      <4> QED
        BY <1>0, <3>5, <4>1, <4>2 DEF WorkersPlaced
    <3> QED
      BY <1>3, <3>1, <3>2, <3>3, <3>4, <3>5
  <2>5. CASE UseStorage(w) \/ CountDown(w)
    <3>1. /\ Running(w) /\ UNCHANGED <<poolVars, where, job>>
          /\ execPc[w] \in {"storage", "count"} /\ (ExecGoto(w, "count") \/ ExecGoto(w, "push"))
      BY <2>5 DEF UseStorage, CountDown
    <3>2. UNCHANGED task /\ \A v \in Workers : Running(v)' <=> Running(v)
      BY <3>1 DEF poolVars, Running
    <3>3. execPc'[w] \in {"count", "push"} /\ \A v \in Workers \ {w} : execPc'[v] = execPc[v]
      BY <1>0, <3>1 DEF ExecGoto, LocationsOK
    <3>4. AtWork(w)
      BY <3>1 DEF AtWork
    <3> QED
      BY <1>0, <1>3, <3>1, <3>2, <3>3, <3>4 DEF WorkersPlaced
  <2>6. CASE PushTxn(w)
    <3>1. /\ Running(w) /\ execPc[w] = "push"
          /\ job' = [job EXCEPT ![w] = NoTask] /\ ExecGoto(w, "top")
      BY <2>6 DEF PushTxn
    <3>2. execPc'[w] = "top" /\ \A v \in Workers \ {w} : execPc'[v] = execPc[v]
      BY <1>0, <3>1 DEF ExecGoto, LocationsOK
    <3>3. \A v \in Workers \ {w} : job'[v] = job[v]
      BY <1>0, <3>1 DEF LifecycleTypeOK
    <3>4. AtWork(w)
      BY <3>1 DEF AtWork
    <3>5. \A v \in Workers \ {w} : task'[v] = task[v] /\ (Running(v)' <=> Running(v))
      <4>1. UNCHANGED poolVars \/ EndTask(w)
        BY <2>6 DEF PushTxn
      <4>2. UNCHANGED poolVars => UNCHANGED <<task, threadPc>>
        BY DEF poolVars
      <4> QED
        BY <1>0, <3>1, <4>1, <4>2, EndMove DEF Running
    <3>6. \A r \in Requests : where[r] = "running" => where'[r] = "running" \/ r = job[w]
      <4>1. PICK j \in Requests : j = job[w]
        BY <1>0, <3>4 DEF WorkersPlaced
      <4>2. Place(j, "running", "answered") \/ Place(j, "task", "completed")
        BY <2>6, <4>1 DEF PushTxn
      <4> QED
        BY <1>0, <4>1, <4>2, PlaceType DEF Places
    <3> QED
      BY <1>3, <3>2, <3>3, <3>4, <3>5, <3>6
  <2> QED
    BY <1>9, <2>1, <2>2, <2>3, <2>4, <2>5, <2>6 DEF Worker
<1> QED
  BY <1>5, <1>6, <1>7, <1>8, <1>9 DEF Next

LEMMA EpochStep ==
  ASSUME Inv, PoolAssumption, LifecycleAssumption, [Next]_vars
  PROVE  EpochCounted'
<1> USE DEF vars, threadVars, history, ownerSide, fixed
<1>0. LocationsOK /\ LifecycleTypeOK /\ DestructorOrder /\ RequestsPlaced /\ WorkersPlaced /\ EpochCounted
  BY DEF Inv
<1>1. mode' = mode
  BY DEF Next, Owner, CreateScheduler, InitStopped, AddLoop, Constructed, JoinSequencer, JoinScheduler,
         Deallocate, DestroyPool, Submit, Stop, Scheduler, SchedulerStart, SchedulerCheck, SchedulerTake,
         SchedulerIdle, SchedulerApply, SchedulerWait, Sequencer, Worker, LoopCheck, PopReady, StartTxn,
         UseStorage, CountDown, PushTxn
<1> SUFFICES ASSUME mode = "CALVIN_EPOCH"
             PROVE  /\ \A r \in Requests : where'[r] # "task"
                    /\ \A r \in Requests : where'[r] = "ready" => schedPc' = "wait"
                    /\ \A w \in Workers : execPc'[w] \in {"storage", "count"} => schedPc' = "wait"
  BY <1>1 DEF EpochCounted
<1> DEFINE Goal == /\ \A r \in Requests : where'[r] # "task"
                   /\ \A r \in Requests : where'[r] = "ready" => schedPc' = "wait"
                   /\ \A w \in Workers : execPc'[w] \in {"storage", "count"} => schedPc' = "wait"
<1>2. /\ \A r \in Requests : where[r] # "task"
      /\ \A r \in Requests : where[r] = "ready" => schedPc = "wait"
      /\ \A w \in Workers : execPc[w] \in {"storage", "count"} => schedPc = "wait"
  BY <1>0 DEF EpochCounted
\* Only the scheduler makes a request ready.
<1>3. ASSUME NEW r \in Requests, NEW from, NEW to \in Places, Place(r, from, to),
             to = "ready" => schedPc' = "wait", to # "task", UNCHANGED execPc,
             schedPc = "wait" => schedPc' = "wait"
      PROVE  Goal
  BY <1>0, <1>2, <1>3, PlaceType
<1>4. ASSUME UNCHANGED <<where, execPc>>, schedPc = "wait" => schedPc' = "wait" PROVE Goal
  BY <1>2, <1>4
<1>5. CASE Owner \/ Stop \/ UNCHANGED vars
  <2>1. UNCHANGED <<where, execPc>> /\ (schedPc = "wait" => ownerPc # "create")
    BY <1>0, <1>5 DEF Owner, CreateScheduler, InitStopped, AddLoop, Constructed, JoinSequencer,
                 JoinScheduler, Deallocate, DestroyPool, Stop, DestructorOrder
  <2>2. schedPc' = schedPc \/ ownerPc = "create"
    BY <1>5 DEF Owner, OwnerGoto, CreateScheduler, InitStopped, AddLoop, Constructed, JoinSequencer,
                 JoinScheduler, Deallocate, DestroyPool, Stop
  <2> QED
    BY <1>4, <2>1, <2>2
<1>6. ASSUME NEW r \in Requests, Submit(r) PROVE Goal
  <2>1. Place(r, "client", "queued") /\ UNCHANGED <<execPc, schedPc>>
    BY <1>6 DEF Submit
  <2> QED
    BY <1>3, <2>1 DEF Places
<1>7. CASE Scheduler
  <2>1. CASE SchedulerTake
    <3>1. PICK step \in Takes, r \in Requests :
             Place(r, step[1], step[2]) /\ (step[2] # "running" => schedPc' = "wait")
      BY <2>1 DEF SchedulerTake
    <3>2. step[2] = "ready"
      BY <1>0, TakesAre
    <3>3. UNCHANGED execPc /\ schedPc # "wait"
      BY <2>1 DEF SchedulerTake
    <3> QED
      BY <1>3, <3>1, <3>2, <3>3 DEF Places
  <2>2. CASE SchedulerApply
    BY <1>0, <2>2 DEF SchedulerApply, RequestsPlaced, HasLoops
  <2>3. CASE SchedulerWait
    <3>1. /\ UNCHANGED <<where, execPc>> /\ \A r \in Requests : where[r] # "ready"
          /\ \A w \in Workers : execPc[w] \notin {"storage", "count"}
      BY <2>3 DEF SchedulerWait, AnyAt
    <3> QED
      BY <1>2, <3>1
  <2>4. CASE SchedulerStart \/ SchedulerCheck \/ SchedulerIdle
    <3>1. UNCHANGED <<where, execPc>> /\ schedPc # "wait"
      BY <2>4 DEF SchedulerStart, SchedulerCheck, LoopHead, SchedulerIdle
    <3> QED
      BY <1>4, <3>1
  <2> QED
    BY <1>7, <2>1, <2>2, <2>3, <2>4 DEF Scheduler
<1>8. CASE Sequencer
  <2>1. UNCHANGED <<execPc, schedPc>> /\ (UNCHANGED where \/ \E r \in Requests : Place(r, "queued", "epoch"))
    BY <1>8 DEF Sequencer
  <2> QED
    BY <1>3, <1>4, <2>1 DEF Places
<1>9. ASSUME NEW w \in Workers, Worker(w) PROVE Goal
  <2>1. UNCHANGED schedPc
    BY <1>9 DEF Worker, LoopCheck, PopReady, StartTxn, UseStorage, CountDown, PushTxn
  <2>2. ASSUME NEW l, ExecGoto(w, l) PROVE \A v \in Workers : execPc'[v] = IF v = w THEN l ELSE execPc[v]
    BY <1>0, <2>2 DEF ExecGoto, LocationsOK
  <2>3. CASE (RunThread(w) /\ UNCHANGED <<where, execPc>>) \/ LoopCheck(w)
    <3>1. UNCHANGED where /\ (UNCHANGED execPc \/ ExecGoto(w, "pop"))
      BY <2>3 DEF LoopCheck
    <3> QED
      BY <1>2, <2>1, <2>2, <3>1
  <2>4. CASE PopReady(w)
    <3>1. CASE UNCHANGED where /\ ExecGoto(w, "top")
      BY <1>2, <2>1, <2>2, <3>1
    <3>2. ASSUME NEW r \in Requests, Place(r, "ready", "running"), ExecGoto(w, "storage")
          PROVE  Goal
      <4>1. /\ where[r] = "ready" /\ where'[r] = "running"
            /\ \A q \in Requests \ {r} : where'[q] = where[q]
        BY <1>0, <3>2, PlaceType DEF Places
      <4>2. schedPc = "wait"
        BY <1>2, <4>1
      <4> QED
        BY <1>2, <2>1, <2>2, <3>2, <4>1, <4>2
    <3> QED
      BY <2>4, <3>1, <3>2 DEF PopReady
  <2>5. CASE StartTxn(w)
    <3>1. Taken(task[w]) /\ task[w] \in Requests
      BY <2>5 DEF StartTxn, Taken
    <3> QED
      BY <1>0, <1>2, <3>1 DEF RequestsPlaced
  <2>6. CASE UseStorage(w) \/ CountDown(w)
    <3>1. /\ UNCHANGED where /\ execPc[w] \in {"storage", "count"}
          /\ ExecGoto(w, "count") \/ ExecGoto(w, "push")
      BY <2>6 DEF UseStorage, CountDown
    <3> QED
      BY <1>2, <2>1, <2>2, <3>1
  <2>7. CASE PushTxn(w)
    <3>1. ExecGoto(w, "top") /\ execPc[w] = "push"
      BY <2>7 DEF PushTxn
    <3>2. PICK r \in Requests : r = job[w]
      BY <1>0, <3>1 DEF WorkersPlaced, AtWork
    <3>3. Place(r, "running", "answered") \/ Place(r, "task", "completed")
      BY <2>7, <3>2 DEF PushTxn
    <3>4. /\ where'[r] \in {"answered", "completed"}
          /\ \A q \in Requests \ {r} : where'[q] = where[q]
      BY <1>0, <3>3, PlaceType DEF Places
    <3> QED
      BY <1>2, <2>1, <2>2, <3>1, <3>4
  <2> QED
    BY <1>9, <2>3, <2>4, <2>5, <2>6, <2>7 DEF Worker
<1> QED
  BY <1>5, <1>6, <1>7, <1>8, <1>9 DEF Next

\* What a thread that is in the middle of a transaction says of the requests.
LEMMA SomebodyPending ==
  ASSUME Inv, NEW w \in Workers, AtWork(w), stopped = "true"
  PROVE  pending # {}
<1>1. WorkersPlaced /\ RequestsPlaced /\ NothingPending
  BY DEF Inv
<1>2. PICK r \in Requests : r = job[w]
  BY <1>1 DEF WorkersPlaced
<1>3. where[r] \in {"running", "task"}
  <2>1. task[w] = r => Taken(r)
    BY DEF Taken
  <2> QED
    BY <1>1, <1>2, <2>1 DEF WorkersPlaced, RequestsPlaced
<1> QED
  BY <1>1, <1>2, <1>3 DEF NothingPending

LEMMA MisuseStep ==
  ASSUME Inv, PoolAssumption, LifecycleAssumption, [Next]_vars
  PROVE  NothingPending' /\ OnlyThePoolOutlivesTheMembers'
<1> USE DEF vars, threadVars, history, ownerSide, fixed
<1>0. /\ LocationsOK /\ LifecycleTypeOK /\ DestructorOrder /\ SequencerJoined /\ NothingPending
      /\ OnlyThePoolOutlivesTheMembers /\ WorkersPlaced /\ RequestsPlaced /\ EpochCounted
  BY DEF Inv
<1>1. ASSUME UNCHANGED <<stopped, pending, mode>>
      PROVE  stopped' = "true" /\ pending' = {} =>
                \A r \in Requests : where'[r] \in {"client", "answered"}
  <2>1. SUFFICES ASSUME stopped = "true", pending = {} PROVE UNCHANGED where
    BY <1>0, <1>1 DEF NothingPending
  <2>2. \A r \in Requests : where[r] \in {"client", "answered"}
    BY <1>0, <2>1 DEF NothingPending
  <2>3. ownerPc # "built"
    BY <1>0, <2>1 DEF DestructorOrder, PastJoin, Unstored
  <2>4. \A step \in Takes : step[1] \notin {"client", "answered"}
    BY <1>0, TakesAre
  <2>5. ASSUME NEW w \in Workers, execPc[w] = "push" PROVE FALSE
    BY <2>1, <2>5, SomebodyPending DEF AtWork
  <2> QED
    BY <2>2, <2>3, <2>4, <2>5, StepsOfRequests DEF WhereSteps, Place
<1>2. ASSUME UNCHANGED <<misused, stopped, pending, mode>>
      PROVE  NothingPending' /\ OnlyThePoolOutlivesTheMembers'
  BY <1>0, <1>1, <1>2 DEF NothingPending, OnlyThePoolOutlivesTheMembers, HasLoops
\* Whoever uses something has it, or is one of the pool's threads, or had not
\* been joined.
<1>3. ASSUME NEW who, NEW what \in {"storage", "members"}, Use(who, what),
             UNCHANGED <<stopped, pending, mode>>,
             what \notin alive =>
                 \/ <<"owner", "thread id">> \in misused
                 \/ /\ who \in Workers
                    /\ what = "storage" => pending # {} /\ mode # "CALVIN_EPOCH"
                    /\ what = "members" => pending # {} \/ HasLoops(mode)
      PROVE  NothingPending' /\ OnlyThePoolOutlivesTheMembers'
  <2>1. misused' = misused \cup (IF what \in alive THEN {} ELSE {<<who, what>>})
    BY <1>3 DEF Use
  <2>2. stopped # "true" => what \in alive
    BY <1>0 DEF DestructorOrder, PastJoin, Unstored
  <2>3. NothingPending'
    BY <1>0, <1>1, <1>3, <2>1, <2>2 DEF NothingPending
  <2>4. OnlyThePoolOutlivesTheMembers'
    <3>1. SUFFICES ASSUME <<"owner", "thread id">> \notin misused', NEW use \in misused'
                   PROVE  /\ use[1] \in Workers
                          /\ use[2] = "storage" => pending # {} /\ mode # "CALVIN_EPOCH"
                          /\ use[2] = "members" => pending # {} \/ HasLoops(mode)
      BY <1>3 DEF OnlyThePoolOutlivesTheMembers, HasLoops
    <3>2. <<"owner", "thread id">> \notin misused
      BY <2>1, <3>1
    <3>3. CASE use \in misused
      BY <1>0, <3>2, <3>3 DEF OnlyThePoolOutlivesTheMembers
    <3>4. CASE use \notin misused
      <4>1. what \notin alive /\ use = <<who, what>>
        BY <2>1, <3>1, <3>4
      <4> QED
        BY <1>3, <3>2, <4>1
    <3> QED
      BY <3>3, <3>4
  <2> QED
    BY <2>3, <2>4
<1>4. \A what \in {"storage", "members"} : what \notin alive =>
         /\ stopped = "true" /\ schedPc = "exited"
         /\ seqPc \in {"none", "exited"} \/ <<"owner", "thread id">> \in misused
  BY <1>0 DEF DestructorOrder, SequencerJoined, PastJoin, Unstored
<1>5. CASE Owner
  <2>1. CASE JoinSequencer
    <3>1. UNCHANGED <<stopped, pending, mode>> /\ stopped = "true"
      BY <1>0, <2>1 DEF JoinSequencer, DestructorOrder
    <3>2. CASE seqKnown
      BY <1>2, <2>1, <3>1, <3>2 DEF JoinSequencer
    <3>3. CASE ~seqKnown
      <4>1. <<"owner", "thread id">> \in misused'
        BY <2>1, <3>3 DEF JoinSequencer
      <4> QED
        BY <1>1, <3>1, <4>1 DEF NothingPending, OnlyThePoolOutlivesTheMembers
    <3> QED
      BY <3>2, <3>3
  <2>2. CASE InitStopped
    <3>1. stopped # "true" /\ stopped' = "false" /\ UNCHANGED <<misused, pending, mode>>
      BY <1>0, <2>2 DEF InitStopped, OwnerGoto, DestructorOrder, PastJoin, Unstored
    <3> QED
      BY <1>0, <3>1 DEF NothingPending, OnlyThePoolOutlivesTheMembers, HasLoops
  <2>3. CASE CreateScheduler \/ AddLoop \/ Constructed \/ JoinScheduler \/ Deallocate \/ DestroyPool
    <3>1. UNCHANGED <<misused, stopped, pending, mode>>
      BY <2>3 DEF CreateScheduler, AddLoop, Constructed, JoinScheduler, Deallocate, DestroyPool
    <3> QED
      BY <1>2, <3>1
  <2> QED
    BY <1>5, <2>1, <2>2, <2>3 DEF Owner
<1>6. CASE Stop
  <2>1. misused = {} /\ misused' = {}
    BY <1>0, <1>6 DEF Stop, OwnerGoto, DestructorOrder, NothingPending, PastJoin, Unstored
  <2>2. stopped' = "true" /\ where' = where /\ pending' = {r \in Requests : where[r] \notin {"client", "answered"}}
    BY <1>6 DEF Stop
  <2>3. pending' = {} => \A r \in Requests : where[r] \in {"client", "answered"}
    BY <2>2
  <2> QED
    BY <2>1, <2>2, <2>3 DEF NothingPending, OnlyThePoolOutlivesTheMembers
<1>7. ASSUME NEW r \in Requests, Submit(r) PROVE NothingPending' /\ OnlyThePoolOutlivesTheMembers'
  <2>1. UNCHANGED <<misused, stopped, pending, mode>>
    BY <1>7 DEF Submit
  <2> QED
    BY <1>2, <2>1
<1>8. CASE Scheduler
  <2>1. UNCHANGED <<stopped, pending, mode>> /\ schedPc # "exited"
    BY <1>8 DEF Scheduler, SchedulerStart, SchedulerCheck, SchedulerTake, SchedulerIdle,
                SchedulerApply, SchedulerWait, LoopHead
  <2>2. \/ UNCHANGED misused
        \/ \E what \in {"storage", "members"} : Use("scheduler", what)
    <3>1. CASE SchedulerTake \/ SchedulerIdle
      BY <3>1 DEF SchedulerTake, SchedulerIdle
    <3>2. CASE SchedulerApply
      BY <3>2 DEF SchedulerApply
    <3>3. CASE SchedulerStart \/ SchedulerCheck \/ SchedulerWait
      BY <3>3 DEF SchedulerStart, SchedulerCheck, SchedulerWait
    <3> QED
      BY <1>8, <3>1, <3>2, <3>3 DEF Scheduler
  <2>3. CASE UNCHANGED misused
    BY <1>2, <2>1, <2>3
  <2>4. ASSUME NEW what \in {"storage", "members"}, Use("scheduler", what)
        PROVE  NothingPending' /\ OnlyThePoolOutlivesTheMembers'
    <3>1. what \in alive
      BY <1>4, <2>1
    <3> QED
      BY <1>3, <2>1, <2>4, <3>1
  <2> QED
    BY <2>2, <2>3, <2>4
<1>9. CASE Sequencer
  <2>1. UNCHANGED <<stopped, pending, mode>> /\ seqPc \notin {"none", "exited"}
    BY <1>9 DEF Sequencer, LoopHead
  <2>2. UNCHANGED misused \/ Use("sequencer", "members")
    BY <1>9 DEF Sequencer
  <2>3. CASE UNCHANGED misused
    BY <1>2, <2>1, <2>3
  <2>4. CASE Use("sequencer", "members")
    <3>1. "members" \in alive \/ <<"owner", "thread id">> \in misused
      BY <1>4, <2>1
    <3> QED
      BY <1>3, <2>1, <2>4, <3>1
  <2> QED
    BY <2>2, <2>3, <2>4
<1>10. ASSUME NEW w \in Workers, Worker(w) PROVE NothingPending' /\ OnlyThePoolOutlivesTheMembers'
  <2>1. UNCHANGED <<stopped, pending, mode>>
    BY <1>10 DEF Worker, LoopCheck, PopReady, StartTxn, UseStorage, CountDown, PushTxn
  <2>2. CASE UNCHANGED misused
    BY <1>2, <2>1, <2>2
  <2>3. CASE PopReady(w)
    <3>1. Use(w, "members") /\ task[w] \in Loops
      BY <1>0, <2>3 DEF PopReady, WorkersPlaced
    <3>2. PICK l \in Loops : l = task[w]
      BY <3>1
    <3>3. HasLoops(mode)
      <4>1. Taken(l)
        BY <3>2 DEF Taken
      <4> QED
        BY <1>0, <3>2, <4>1 DEF RequestsPlaced
    <3> QED
      BY <1>3, <2>1, <3>1, <3>3
  <2>4. CASE UseStorage(w)
    <3>1. Use(w, "storage") /\ AtWork(w)
      BY <2>4 DEF UseStorage, AtWork
    <3>2. "storage" \notin alive => pending # {} /\ mode # "CALVIN_EPOCH"
      <4>1. mode = "CALVIN_EPOCH" => schedPc = "wait"
        BY <1>0, <2>4 DEF UseStorage, EpochCounted
      <4> QED
        BY <1>4, <3>1, <4>1, SomebodyPending
    <3> QED
      BY <1>3, <2>1, <3>1, <3>2
  <2>5. CASE CountDown(w) \/ PushTxn(w)
    <3>1. Use(w, "members") /\ AtWork(w)
      BY <2>5 DEF CountDown, PushTxn, AtWork
    <3>2. "members" \notin alive => pending # {}
      BY <1>4, <3>1, SomebodyPending
    <3> QED
      BY <1>3, <2>1, <3>1, <3>2
  <2>6. CASE LoopCheck(w) \/ StartTxn(w) \/ (RunThread(w) /\ UNCHANGED misused)
    <3>1. UNCHANGED misused
      BY <2>6 DEF LoopCheck, StartTxn
    <3> QED
      BY <2>2, <3>1
  <2> QED
    BY <1>10, <2>3, <2>4, <2>5, <2>6 DEF Worker
<1>11. CASE UNCHANGED vars
  BY <1>2, <1>11
<1> QED
  BY <1>5, <1>6, <1>7, <1>8, <1>9, <1>10, <1>11 DEF Next

-----------------------------------------------------------------------------
(* The theorems. *)

LEMMA InvStep ==
  ASSUME Inv, PoolAssumption, LifecycleAssumption, [Next]_vars
  PROVE  Inv'
BY PoolStep, TypeStep, OrderStep, PlacedStep, WorkersStep, EpochStep, MisuseStep DEF Inv

\* From the first line of the constructor to the last of the pool's
\* destructor: each task and each request is in one place, no thread that the
\* destructor has joined is still running, and a thread of the pool has in its
\* hands what the place of its request says.
THEOREM LifecycleInvariant == Spec => []Inv
<1>1. Init => Inv
  BY Initial, PoolAssumption, LifecycleAssumption
<1>2. Inv /\ [Next]_vars => Inv'
  BY InvStep, PoolAssumption, LifecycleAssumption
<1> QED
  BY <1>1, <1>2, PTL DEF Spec

\* ~TxnProcessor joins the sequencer and the scheduler before it deletes the
\* storage and lets its queues go, but the pool, its first member, is the last
\* to be destroyed: only the pool's threads can use what is gone, and only for
\* a request left unanswered or to poll once more; the storage not even for
\* such a request when the scheduler waits for its epoch.
THEOREM PoolOutlivesMembers == Spec => []OnlyThePoolOutlivesTheMembers
<1>1. Inv => OnlyThePoolOutlivesTheMembers
  BY DEF Inv
<1> QED
  BY <1>1, LifecycleInvariant, PTL

\* StaticThreadPool, driven by the processor, implements the pool it promises
\* to be: no task is lost in the queue of a thread that ends, none is run
\* twice, and the destructor returns when all of them have.
THEOREM ImplementsPool == Spec => ImplementsTaskPool
<1> DEFINE mapped == <<[t \in Tasks |-> Progress(t)], ownerPc # "gone">>
<1>1. Init => Abstract!Init
  <2>1. SUFFICES ASSUME Init PROVE Abstract!Init
    OBVIOUS
  <2>2. \A t \in Tasks : Progress(t) = "new"
    BY <2>1, ElementsEmpty, PoolAssumption DEF Init, PoolInit, Progress
  <2>3. ownerPc # "gone"
    BY <2>1 DEF Init
  <2> QED
    BY <2>2, <2>3 DEF Abstract!Init
<1>2. Inv /\ [Next]_vars => [Abstract!Next]_mapped
  BY RefinementStep, PoolAssumption, LifecycleAssumption
<1> QED
  BY <1>1, <1>2, LifecycleInvariant, PTL DEF Spec, ImplementsTaskPool, Abstract!Spec
=============================================================================
