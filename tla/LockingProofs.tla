--------------------------- MODULE LockingProofs ---------------------------
(***************************************************************************)
(* What module LockingScheduler says of the locking modes holds for every  *)
(* set of transactions and records, every readset and writeset and any     *)
(* number of workers: a transaction executes with all its locks, conflicts *)
(* exclude each other, the processor implements SerialDB and is            *)
(* deterministic.                                                          *)
(***************************************************************************)
EXTENDS LockingScheduler, QueueLemmas

-----------------------------------------------------------------------------
(* The inductive invariant: where a transaction is. *)

Ready(t)      == t \in Elements(readyTxns)
Tasked(t, w)  == t \in Elements(tasks[w])
Running(t, w) == pc[w] # "idle" /\ cur[w] = t
Done(t)       == t \in Elements(completedTxns)
Pooled(t)     == \E w \in Workers : Tasked(t, w) \/ Running(t, w)
Started(t)    == Ready(t) \/ Pooled(t) \/ Done(t)
Popped(t)     == uniqueId[t] > 0 /\ t \notin Elements(txnRequests)

\* The scheduler has t in its hand, at one of the locations L.
At(t, L) == cur[Main] = t /\ pc[Main] \in L

\* Executing(t), in these words.
Exec(t) == Started(t) \/ At(t, {"decide", "apply", "unlock"})

SchedulerLocations ==
    {"top", "lockReads", "lockWrites", "idle", "decide", "apply", "unlock",
     "unlockReads", "unlockWrites", "result", "dispatch", "exited"}

ThreadsOK ==
    /\ pc[Main] \in SchedulerLocations
    /\ cur[Main] = NoTxn <=> pc[Main] \in {"top", "idle", "dispatch", "exited"}
    /\ pc[Main] \in {"lockReads", "unlockReads"} => todo[Main] \subseteq readset[cur[Main]]
    /\ pc[Main] \in {"lockWrites", "apply", "unlockWrites"} => todo[Main] \subseteq writeset[cur[Main]]
    /\ \A w \in Workers : pc[w] \in {"idle", "readset", "writeset"} /\ (pc[w] # "idle" => cur[w] \in Txns)

\* What has not been popped yet is nowhere else.
ArrivalsOK ==
    /\ Distinct(txnRequests)
    /\ \A t \in Txns : t \in Elements(txnRequests) => uniqueId[t] > 0
    /\ \A t \in Txns : ~Popped(t) => ~Started(t) /\ cur[Main] # t

QueuesDistinct ==
    /\ Distinct(readyTxns) /\ Distinct(completedTxns)
    /\ \A w \in Workers : Distinct(tasks[w])

OneStage ==
    \A t \in Txns :
        /\ cur[Main] = t => ~Started(t)
        /\ Ready(t) => ~Pooled(t) /\ ~Done(t)
        /\ Done(t) => ~Pooled(t)
        /\ \A v, w \in Workers :
             /\ ~(Tasked(t, v) /\ Running(t, w))
             /\ v # w => ~(Tasked(t, v) /\ Tasked(t, w)) /\ ~(Running(t, v) /\ Running(t, w))

PlaceInv == TypeOK /\ ThreadsOK /\ ArrivalsOK /\ QueuesDistinct /\ OneStage

-----------------------------------------------------------------------------
(* The inductive invariant: which locks a transaction has asked for. *)

Asks(t, k)     == RequestsOf(lockTable[k], t) # {}
HasWrite(t, k) == \E i \in RequestsOf(lockTable[k], t) : lockTable[k][i].mode = "EXCLUSIVE"
HasRead(t, k)  == \E i \in RequestsOf(lockTable[k], t) :
                      manager = "A" => lockTable[k][i].mode = "EXCLUSIVE"
HasAll(t)  == (\A k \in readset[t] : HasRead(t, k)) /\ (\A k \in writeset[t] : HasWrite(t, k))
Waiting(t) == Waits(t) # {}

\* A second request of a transaction for a record is for writing: it waits for
\* the first.  The counts are exact.
TableOK ==
    /\ \A k \in Keys : \A i, j \in DOMAIN lockTable[k] :
         i < j /\ lockTable[k][i].txn = lockTable[k][j].txn => lockTable[k][j].mode = "EXCLUSIVE"
    /\ \A t \in Txns : txnWaits[t] = Cardinality(Waits(t))

OnlyWanted == \A t \in Txns, k \in Keys : Asks(t, k) => Popped(t) /\ k \in Accesses(t)

\* The scheduler asks for the locks of t.
AskingOK ==
    \A t \in Txns :
        /\ At(t, {"lockReads"}) =>
             /\ \A k \in Keys : Asks(t, k) => k \in readset[t] \ todo[Main]
             /\ \A k \in readset[t] \ todo[Main] : HasRead(t, k)
        /\ At(t, {"lockWrites"}) =>
             /\ \A k \in readset[t] : HasRead(t, k)
             /\ \A k \in writeset[t] \ todo[Main] : HasWrite(t, k)
        /\ At(t, {"lockReads", "lockWrites"}) => (blocked <=> Waiting(t))

Granted == \A t \in Txns : Exec(t) => ~Waiting(t) /\ HasAll(t)

\* It releases them.
ReleasingOK ==
    \A t \in Txns :
        /\ At(t, {"unlockReads", "unlockWrites", "result"}) => ~Waiting(t)
        /\ At(t, {"unlockReads"}) => \A k \in Keys : Asks(t, k) => k \in todo[Main] \cup writeset[t]
        /\ At(t, {"unlockWrites"}) => \A k \in Keys : Asks(t, k) => k \in todo[Main]
        /\ At(t, {"result"}) => \A k \in Keys : ~Asks(t, k)

\* Any other transaction that is in the table waits.
OthersWait ==
    \A t \in Txns :
        (\E k \in Keys : Asks(t, k))
        /\ ~Exec(t) /\ ~At(t, {"lockReads", "lockWrites", "unlockReads", "unlockWrites"})
            => Waiting(t) /\ HasAll(t)

LockInv == TableOK /\ OnlyWanted /\ AskingOK /\ Granted /\ ReleasingOK /\ OthersWait

-----------------------------------------------------------------------------
(* Steps that touch neither the locks nor the pool. *)

Quiet ==
    /\ UNCHANGED <<lockVars, tasks, completedTxns>>
    /\ \A w \in Workers : /\ cur'[w] = cur[w]
                          /\ pc'[w] = pc[w] \/ (pc[w] = "readset" /\ pc'[w] = "writeset")

\* What such a step does to the scheduler's thread: nothing, or one of its own
\* steps.
Stays == pc'[Main] = pc[Main] /\ cur'[Main] = cur[Main] /\ todo'[Main] = todo[Main] /\ blocked' = blocked

Moves(from, to) == pc[Main] = from /\ pc'[Main] = to

QuietMove ==
    \/ Stays
    \/ /\ Moves("top", "lockReads") /\ ~blocked'
       /\ cur'[Main] \in Txns /\ todo'[Main] = readset[cur'[Main]]
    \/ /\ \/ Moves("top", "idle") \/ Moves("idle", "dispatch")
          \/ Moves("dispatch", "exited") \/ Moves("dispatch", "top")
       /\ cur'[Main] = cur[Main]
    \/ /\ Moves("lockReads", "lockWrites") /\ todo[Main] = {} /\ blocked' = blocked
       /\ cur'[Main] = cur[Main] /\ todo'[Main] = writeset[cur[Main]]
    \/ /\ Moves("decide", "apply")
       /\ cur'[Main] = cur[Main] /\ todo'[Main] = writeset[cur[Main]]
    \/ /\ Moves("apply", "apply")
       /\ cur'[Main] = cur[Main] /\ todo'[Main] \subseteq todo[Main]
    \/ /\ Moves("apply", "unlock") \/ Moves("decide", "unlock")
       /\ cur'[Main] = cur[Main]
    \/ /\ Moves("unlock", "unlockReads")
       /\ cur'[Main] = cur[Main] /\ todo'[Main] = readset[cur[Main]]
    \/ /\ Moves("unlockReads", "unlockWrites") /\ todo[Main] = {}
       /\ cur'[Main] = cur[Main] /\ todo'[Main] = writeset[cur[Main]]
    \/ /\ Moves("unlockWrites", "result") /\ todo[Main] = {}
       /\ cur'[Main] = cur[Main]
    \/ /\ Moves("unlockReads", "unlockReads") \/ Moves("unlockWrites", "unlockWrites")
       /\ cur'[Main] = cur[Main]
       /\ \E k \in Keys : ~Asks(cur[Main], k) /\ todo'[Main] = todo[Main] \ {k}
    \/ /\ Moves("result", "idle")
       /\ cur'[Main] = NoTxn

\* The requests of the client: the same, one more or one less.
Arrivals ==
    /\ Distinct(txnRequests)'
    /\ \A t \in Txns : t \in Elements(txnRequests)' => uniqueId'[t] > 0
    /\ \A t \in Txns : Popped(t)' <=> Popped(t) \/ (Moves("top", "lockReads") /\ cur'[Main] = t)
    /\ Moves("top", "lockReads") => ~Popped(cur'[Main])

LEMMA QuietSame ==
  ASSUME TypeOK, Quiet
  PROVE  /\ \A t \in Txns : /\ Ready(t)' <=> Ready(t)
                            /\ Done(t)' <=> Done(t)
                            /\ Pooled(t)' <=> Pooled(t)
                            /\ Started(t)' <=> Started(t)
                            /\ Waiting(t)' <=> Waiting(t)
                            /\ HasAll(t)' <=> HasAll(t)
         /\ \A t \in Txns, w \in Workers : (Tasked(t, w)' <=> Tasked(t, w)) /\ (Running(t, w)' <=> Running(t, w))
         /\ \A t \in Txns, k \in Keys : /\ Asks(t, k)' <=> Asks(t, k)
                                        /\ HasRead(t, k)' <=> HasRead(t, k)
                                        /\ HasWrite(t, k)' <=> HasWrite(t, k)
         /\ QueuesDistinct' <=> QueuesDistinct
         /\ TableOK' <=> TableOK
<1> USE DEF Quiet, lockVars
<1>1. \A t \in Txns : (Ready(t)' <=> Ready(t)) /\ (Done(t)' <=> Done(t))
  BY DEF Ready, Done
<1>2. \A t \in Txns, w \in Workers : (Tasked(t, w)' <=> Tasked(t, w)) /\ (Running(t, w)' <=> Running(t, w))
  BY DEF Tasked, Running
<1>3. \A t \in Txns, k \in Keys : /\ Asks(t, k)' <=> Asks(t, k)
                                  /\ HasRead(t, k)' <=> HasRead(t, k)
                                  /\ HasWrite(t, k)' <=> HasWrite(t, k)
  BY DEF Asks, HasRead, HasWrite
<1>4. \A t \in Txns : Waiting(t)' <=> Waiting(t)
  BY DEF Waiting, Waits
<1>5. \A t \in Txns : Pooled(t)' <=> Pooled(t)
  BY <1>2 DEF Pooled
<1>6. \A t \in Txns : Started(t)' <=> Started(t)
  BY <1>1, <1>5 DEF Started
<1>7. \A t \in Txns : HasAll(t)' <=> HasAll(t)
  BY DEF HasAll, HasRead, HasWrite
<1>8. QueuesDistinct' <=> QueuesDistinct
  BY DEF QueuesDistinct
<1>9. TableOK' <=> TableOK
  BY DEF TableOK, Waits
<1> QED
  BY <1>1, <1>2, <1>3, <1>4, <1>5, <1>6, <1>7, <1>8, <1>9

\* Who waits has asked.
LEMMA WaitersAsk ==
  ASSUME TypeOK, NEW t \in Txns, \A k \in Keys : ~Asks(t, k)
  PROVE  ~Waiting(t)
<1>1. DOMAIN lockTable = Keys
  BY DEF TypeOK, LockTypeOK
<1>2. \A k \in Keys : WaitsIn(lockTable[k], t) = {}
  BY DEF Asks, RequestsOf, WaitsIn
<1> QED
  BY <1>1, <1>2 DEF Waiting, Waits, WaitsInTable

LEMMA QuietKeeps ==
  ASSUME PlaceInv, LockInv, Quiet, QuietMove, Arrivals, TypeOK'
  PROVE  PlaceInv' /\ LockInv'
<1> USE DEF PlaceInv, LockInv
<1>1. Main \in Threads /\ NoTxn \notin Txns /\ cur[Main] \in Txns \cup {NoTxn}
      /\ readset \in [Txns -> SUBSET Keys] /\ writeset \in [Txns -> SUBSET Keys]
      /\ pc[Main] \in SchedulerLocations
      /\ (cur[Main] = NoTxn <=> pc[Main] \in {"top", "idle", "dispatch", "exited"})
  BY LockingAssumption, CoreAssumption DEF TypeOK, CoreTypeOK, ThreadTypeOK, ThreadsOK, Values
<1>2. ThreadsOK'
  BY <1>1 DEF ThreadsOK, Quiet, QuietMove, Stays, Moves, SchedulerLocations
<1>3. cur'[Main] \in {cur[Main], NoTxn} \/ (cur'[Main] \in Txns /\ ~Popped(cur'[Main]) /\ Moves("top", "lockReads"))
  BY DEF QuietMove, Stays, Moves, Arrivals
<1>4. ArrivalsOK'
  BY <1>1, <1>3, QuietSame DEF ArrivalsOK, Arrivals
<1>5. QueuesDistinct'
  BY QuietSame
<1>6. OneStage'
  <2>1. \A t \in Txns : cur'[Main] = t => ~Started(t)
    BY <1>1, <1>3 DEF OneStage, ArrivalsOK
  <2> QED
    BY <2>1, QuietSame DEF OneStage
<1>7. TableOK'
  BY QuietSame
<1>8. OnlyWanted'
  BY QuietSame DEF OnlyWanted, Accesses, Arrivals
<1>9. AskingOK'
  <2>1. SUFFICES ASSUME NEW t \in Txns
                 PROVE  /\ At(t, {"lockReads"})' =>
                             /\ \A k \in Keys : Asks(t, k) => k \in readset[t] \ todo'[Main]
                             /\ \A k \in readset[t] \ todo'[Main] : HasRead(t, k)
                        /\ At(t, {"lockWrites"})' =>
                             /\ \A k \in readset[t] : HasRead(t, k)
                             /\ \A k \in writeset[t] \ todo'[Main] : HasWrite(t, k)
                        /\ At(t, {"lockReads", "lockWrites"})' => (blocked' <=> Waiting(t))
    BY <1>1, QuietSame DEF AskingOK, At
  <2>2. CASE Stays
    BY <2>2 DEF AskingOK, At, Stays
  <2>3. CASE Moves("top", "lockReads")
    <3>1. /\ cur'[Main] \in Txns /\ ~Popped(cur'[Main])
          /\ pc'[Main] = "lockReads" /\ ~blocked' /\ todo'[Main] = readset[cur'[Main]]
      BY <1>1, <1>3, <2>3 DEF QuietMove, Moves, Stays, Arrivals
    <3>2. \A k \in Keys : ~Asks(cur'[Main], k)
      BY <3>1 DEF OnlyWanted
    <3>3. ~Waiting(cur'[Main])
      BY <3>1, <3>2, WaitersAsk
    <3> QED
      BY <3>1, <3>2, <3>3 DEF At
  <2> QED
    BY <1>1, <2>2, <2>3 DEF AskingOK, At, Moves, QuietMove
<1>10. ASSUME NEW t \in Txns PROVE Exec(t)' => Exec(t)
  BY <1>1, QuietSame DEF Exec, At, QuietMove, Moves, Stays
<1>11. Granted'
  BY <1>10, QuietSame DEF Granted
<1>12. ReleasingOK'
  <2>1. SUFFICES ASSUME NEW t \in Txns
                 PROVE  /\ At(t, {"unlockReads", "unlockWrites", "result"})' => ~Waiting(t)
                        /\ At(t, {"unlockReads"})' =>
                             \A k \in Keys : Asks(t, k) => k \in todo'[Main] \cup writeset[t]
                        /\ At(t, {"unlockWrites"})' => \A k \in Keys : Asks(t, k) => k \in todo'[Main]
                        /\ At(t, {"result"})' => \A k \in Keys : ~Asks(t, k)
    BY QuietSame DEF ReleasingOK, At
  <2>2. /\ \A k \in Keys : Asks(t, k) => k \in readset[t] \cup writeset[t]
        /\ At(t, {"unlock"}) => ~Waiting(t)
    BY DEF OnlyWanted, Accesses, Granted, Exec, At
  <2> QED
    BY <1>1, <2>2 DEF ReleasingOK, At, QuietMove, Moves, Stays
<1>13. OthersWait'
  <2>1. SUFFICES ASSUME NEW t \in Txns, NEW k \in Keys, Asks(t, k), ~Exec(t)',
                        ~At(t, {"lockReads", "lockWrites", "unlockReads", "unlockWrites"})'
                 PROVE  Waiting(t) /\ HasAll(t)
    BY QuietSame DEF OthersWait
  <2>2. /\ At(t, {"unlockWrites"}) => k \in todo[Main]
        /\ ~At(t, {"result"})
    BY <2>1 DEF ReleasingOK
  <2>3. ~Started(t)
    BY <2>1, QuietSame DEF Exec
  <2>4. ~Exec(t) /\ ~At(t, {"lockReads", "lockWrites", "unlockReads", "unlockWrites"})
    BY <1>1, <2>1, <2>2, <2>3 DEF Exec, At, QuietMove, Moves, Stays
  <2> QED
    BY <2>1, <2>4 DEF OthersWait
<1> QED
  BY <1>2, <1>4, <1>5, <1>6, <1>7, <1>8, <1>9, <1>11, <1>12, <1>13

QuietStep ==
    \/ \E t \in Txns : Submit(t)
    \/ TakeResult \/ Stop
    \/ PopRequest \/ NoRequest \/ EndLockReads \/ NoCompleted \/ Decide
    \/ StartUnlock \/ EndUnlockReads \/ EndUnlockWrites \/ ReturnResult \/ EndRound
    \/ \E w \in Workers : ReadRecord(w) /\ UNCHANGED <<clientSide, lockVars, localVars>>
    \/ \E w \in Workers : EndReadset(w) /\ UNCHANGED <<clientSide, lockVars, localVars>>

LEMMA ArrivalsSame ==
  ASSUME PlaceInv, UNCHANGED <<uniqueId, txnRequests>>, ~Moves("top", "lockReads")
  PROVE  Arrivals
BY DEF PlaceInv, ArrivalsOK, Arrivals, Popped

LEMMA QuietSteps ==
  ASSUME PlaceInv, QuietStep
  PROVE  Quiet /\ QuietMove /\ Arrivals /\ TypeOK'
<1> USE DEF PlaceInv
<1> DEFINE Keeps == Quiet /\ QuietMove /\ Arrivals /\ TypeOK'
<1>1. /\ Main \in Threads /\ Main \notin Workers /\ Workers \subseteq Threads
      /\ readset \in [Txns -> SUBSET Keys] /\ writeset \in [Txns -> SUBSET Keys]
      /\ NoTxn \in Values /\ Txns \subseteq Values
  BY LockingAssumption, CoreAssumption DEF Workers, Values
<1>2. /\ cur \in [Threads -> Values] /\ todo \in [Threads -> SUBSET (Keys \cup Txns)]
      /\ pc \in [Threads -> {"top", "lockReads", "lockWrites", "idle", "decide", "apply",
                             "unlock", "unlockReads", "unlockWrites", "result", "dispatch",
                             "exited", "readset", "writeset"}]
      /\ (cur[Main] = NoTxn <=> pc[Main] \in {"top", "idle", "dispatch", "exited"})
  BY DEF TypeOK, CoreTypeOK, ThreadTypeOK, ThreadsOK
<1>3. CASE \E t \in Txns : Submit(t)
  <2>1. PICK t \in Txns : Submit(t)
    BY <1>3
  <2>2. /\ uniqueId[t] = 0 /\ uniqueId' = [uniqueId EXCEPT ![t] = nextUniqueId]
        /\ nextUniqueId' = nextUniqueId + 1 /\ txnRequests' = Append(txnRequests, t)
        /\ UNCHANGED <<txnResults, returned, dataVars, threadVars, lockVars, localVars>>
    BY <2>1 DEF Submit, NewTxnRequest
  <2>3. nextUniqueId \in Nat \ {0} /\ uniqueId \in [Txns -> Nat] /\ txnRequests \in Seq(Txns)
    BY DEF TypeOK, CoreTypeOK, ClientTypeOK
  <2>4. t \notin Elements(txnRequests)
    BY <2>2 DEF ArrivalsOK
  <2>5. Elements(txnRequests') = Elements(txnRequests) \cup {t} /\ Distinct(txnRequests')
    <3>1. Elements(Append(txnRequests, t)) = Elements(txnRequests) \cup {t}
      BY <2>3, ElementsAppend
    <3>2. Distinct(Append(txnRequests, t))
      BY <2>3, <2>4, DistinctAppend DEF ArrivalsOK
    <3> QED
      BY <2>2, <3>1, <3>2
  <2>6. Quiet /\ Stays /\ ~Moves("top", "lockReads")
    BY <2>2 DEF Quiet, dataVars, threadVars, localVars, lockVars, Stays, Moves
  <2>7. TypeOK'
    BY <2>2, <2>3 DEF TypeOK, CoreTypeOK, ClientTypeOK, DataTypeOK, ThreadTypeOK, LockTypeOK,
                      dataVars, threadVars, lockVars, localVars
  <2>8. Arrivals
    BY <2>2, <2>3, <2>4, <2>5, <2>6 DEF Arrivals, Popped, ArrivalsOK
  <2> QED
    BY <2>6, <2>7, <2>8 DEF QuietMove
<1>4. CASE TakeResult
  <2>1. UNCHANGED <<nextUniqueId, uniqueId, txnRequests, dataVars, threadVars, lockVars, localVars>>
    BY <1>4 DEF TakeResult, GetTxnResult
  <2>2. Quiet /\ Stays /\ ~Moves("top", "lockReads")
    BY <2>1 DEF Quiet, dataVars, threadVars, localVars, lockVars, Stays, Moves
  <2>3. txnResults # <<>> /\ txnResults \in Seq(Txns) /\ returned' = returned \cup {Head(txnResults)}
        /\ txnResults' = Tail(txnResults)
    BY <1>4 DEF TakeResult, GetTxnResult, TypeOK, CoreTypeOK, ClientTypeOK
  <2>4. Head(txnResults) \in Txns /\ Tail(txnResults) \in Seq(Txns)
    BY <2>3, ElementsTail
  <2>5. TypeOK'
    BY <2>1, <2>3, <2>4
       DEF TypeOK, CoreTypeOK, ClientTypeOK, DataTypeOK, ThreadTypeOK, LockTypeOK,
           dataVars, threadVars, lockVars, localVars
  <2> QED
    BY <2>1, <2>2, <2>5, ArrivalsSame DEF QuietMove
<1>5. CASE Stop
  <2>1. Quiet /\ Stays /\ ~Moves("top", "lockReads") /\ UNCHANGED <<uniqueId, txnRequests>>
    BY <1>5 DEF Stop, Quiet, coreVars, clientVars, dataVars, threadVars, localVars, lockVars, Stays, Moves
  <2>2. TypeOK'
    BY <1>5 DEF Stop, TypeOK, CoreTypeOK, ClientTypeOK, DataTypeOK, ThreadTypeOK, LockTypeOK,
           coreVars, clientVars, dataVars, threadVars, lockVars
  <2> QED
    BY <2>1, <2>2, ArrivalsSame DEF QuietMove
<1>6. CASE PopRequest
  <2> DEFINE h == Head(txnRequests)
  <2>1. /\ pc[Main] = "top" /\ txnRequests # <<>> /\ txnRequests' = Tail(txnRequests) /\ ~blocked'
        /\ blocked' = FALSE /\ cur' = [cur EXCEPT ![Main] = h]
        /\ pc' = [pc EXCEPT ![Main] = "lockReads"] /\ todo' = [todo EXCEPT ![Main] = readset[h]]
        /\ UNCHANGED <<clientVars, txnResults, dataVars, lockVars, tasks, stopped>>
    BY <1>6 DEF PopRequest, Goto
  <2>2. txnRequests \in Seq(Txns)
    BY DEF TypeOK, CoreTypeOK, ClientTypeOK
  <2>3. /\ h \in Txns /\ txnRequests' \in Seq(Txns)
        /\ Elements(txnRequests) = {h} \cup Elements(txnRequests')
        /\ Distinct(txnRequests') /\ h \notin Elements(txnRequests')
    BY <2>1, <2>2, ElementsTail, DistinctTail DEF ArrivalsOK
  <2> HIDE DEF h
  <2>4. /\ cur'[Main] = h /\ pc'[Main] = "lockReads" /\ todo'[Main] = readset[h]
        /\ \A w \in Workers : pc'[w] = pc[w] /\ cur'[w] = cur[w]
    BY <1>1, <1>2, <2>1
  <2>5. Quiet /\ QuietMove /\ Moves("top", "lockReads")
    BY <2>1, <2>3, <2>4 DEF Quiet, QuietMove, Moves, dataVars, lockVars
  <2>6. TypeOK'
    BY <1>1, <1>2, <2>1, <2>3
       DEF TypeOK, CoreTypeOK, ClientTypeOK, DataTypeOK, ThreadTypeOK, LockTypeOK,
           clientVars, dataVars, lockVars
  <2>7. Arrivals
    BY <2>1, <2>3, <2>4, <2>5 DEF Arrivals, Popped, ArrivalsOK, clientVars
  <2> QED
    BY <2>5, <2>6, <2>7
<1> DEFINE MainOnly ==
      /\ UNCHANGED <<clientVars, txnRequests, reads, completedTxns, lockVars, localVars>>
      /\ \A w \in Workers : pc'[w] = pc[w] /\ cur'[w] = cur[w]
<1>7. ASSUME MainOnly, QuietMove, ~Moves("top", "lockReads"), TypeOK' PROVE Keeps
  BY <1>7, ArrivalsSame DEF Quiet, clientVars, localVars
<1> DEFINE Types == DataTypeOK' /\ ThreadTypeOK'
      /\ pc' \in [Threads -> {"top", "lockReads", "lockWrites", "idle", "decide", "apply",
                             "unlock", "unlockReads", "unlockWrites", "result", "dispatch",
                             "exited", "readset", "writeset"}]
<1>8. ASSUME UNCHANGED <<clientSide, lockVars, localVars>>, Types PROVE TypeOK'
  BY <1>8 DEF TypeOK, CoreTypeOK, ClientTypeOK, LockTypeOK, clientSide, clientVars, lockVars, localVars
<1>9. CASE NoRequest \/ EndLockReads \/ NoCompleted \/ StartUnlock \/ EndUnlockReads \/ EndUnlockWrites \/ EndRound
  <2>1. /\ UNCHANGED <<clientSide, dataVars, cur, lockVars, localVars>>
        /\ \E l \in SchedulerLocations : pc' = [pc EXCEPT ![Main] = l]
        /\ \/ todo' = todo
           \/ todo' = [todo EXCEPT ![Main] = readset[cur[Main]]] /\ cur[Main] # NoTxn
           \/ todo' = [todo EXCEPT ![Main] = writeset[cur[Main]]] /\ cur[Main] # NoTxn
    BY <1>2, <1>9 DEF NoRequest, EndLockReads, NoCompleted, StartUnlock, EndUnlockReads, EndUnlockWrites,
                      EndRound, Goto, SchedulerLocations
  <2>2. Types
    <3>1. DataTypeOK'
      BY <2>1 DEF DataTypeOK, TypeOK, CoreTypeOK, dataVars
    <3>2. todo' \in [Threads -> SUBSET (Keys \cup Txns)]
      <4>1. cur[Main] # NoTxn => cur[Main] \in Txns
        BY <1>1, <1>2 DEF Values
      <4> QED
        BY <1>1, <1>2, <2>1, <4>1
    <3>3. ThreadTypeOK'
      BY <2>1, <3>2 DEF ThreadTypeOK, TypeOK, CoreTypeOK
    <3>4. /\ pc' \in [Threads -> {"top", "lockReads", "lockWrites", "idle", "decide", "apply",
                                  "unlock", "unlockReads", "unlockWrites", "result", "dispatch",
                                  "exited", "readset", "writeset"}]
      BY <1>1, <1>2, <2>1 DEF SchedulerLocations
    <3> QED
      BY <3>1, <3>3, <3>4
  <2>3. MainOnly
    BY <1>1, <1>2, <2>1 DEF clientSide, dataVars
  <2>4. QuietMove /\ ~Moves("top", "lockReads")
    BY <1>1, <1>2, <1>9 DEF NoRequest, EndLockReads, NoCompleted, StartUnlock, EndUnlockReads, EndUnlockWrites,
                      EndRound, Goto, QuietMove, Moves, localVars
  <2> QED
    BY <1>7, <1>8, <2>1, <2>2, <2>3, <2>4
<1>10. CASE Decide
  <2>1. UNCHANGED <<clientSide, lockVars, localVars, cur, reads, completedTxns>>
    BY <1>10 DEF Decide, StartApply, ApplyWrite, Commit, Abort, dataVars
  <2>2. Types
    <3>1. cur[Main] \in Txns
      BY <1>1, <1>2, <1>10 DEF Decide, StartApply, ApplyWrite, Commit, Abort, Values
    <3>2. DataTypeOK /\ ThreadTypeOK
      BY DEF TypeOK, CoreTypeOK
    <3>3. CASE StartApply(Main)
      BY <1>1, <1>2, <3>1, <3>2, <3>3 DEF StartApply, Goto, DataTypeOK, ThreadTypeOK, dataVars
    <3>4. CASE ApplyWrite(Main)
      BY <1>1, <1>2, <3>1, <3>2, <3>4 DEF ApplyWrite, Goto, DataTypeOK, ThreadTypeOK, dataVars
    <3>5. CASE Commit(Main, "unlock")
      BY <1>1, <1>2, <3>1, <3>2, <3>5 DEF Commit, Goto, DataTypeOK, ThreadTypeOK, dataVars, TxnStatus
    <3>6. CASE Abort(Main, "unlock")
      BY <1>1, <1>2, <3>1, <3>2, <3>6 DEF Abort, Goto, DataTypeOK, ThreadTypeOK, dataVars, TxnStatus
    <3> QED
      BY <1>10, <3>3, <3>4, <3>5, <3>6 DEF Decide
  <2>3. MainOnly
    BY <1>1, <1>2, <1>10, <2>1 DEF clientSide, Decide, StartApply, ApplyWrite, Commit, Abort, Goto
  <2>4. QuietMove /\ ~Moves("top", "lockReads")
    BY <1>1, <1>2, <1>10 DEF Decide, StartApply, ApplyWrite, Commit, Abort, Goto, QuietMove, Moves
  <2> QED
    BY <1>7, <1>8, <2>1, <2>2, <2>3, <2>4
<1>11. CASE ReturnResult
  <2>1. /\ pc[Main] = "result" /\ txnResults' = Append(txnResults, cur[Main])
        /\ pc' = [pc EXCEPT ![Main] = "idle"] /\ cur' = [cur EXCEPT ![Main] = NoTxn]
        /\ UNCHANGED <<clientVars, txnRequests, dataVars, todo, lockVars, localVars>>
    BY <1>11 DEF ReturnResult, PushResult, Goto
  <2>2. cur[Main] \in Txns /\ txnResults \in Seq(Txns)
    BY <1>1, <1>2, <2>1 DEF Values, TypeOK, CoreTypeOK, ClientTypeOK
  <2>3. txnResults' \in Seq(Txns)
    BY <2>1, <2>2
  <2>4. TypeOK'
    BY <1>1, <1>2, <2>1, <2>3
       DEF TypeOK, CoreTypeOK, ClientTypeOK, DataTypeOK, ThreadTypeOK, LockTypeOK,
           clientVars, dataVars, lockVars, localVars
  <2>5. MainOnly
    BY <1>1, <1>2, <2>1 DEF dataVars
  <2>6. QuietMove /\ ~Moves("top", "lockReads")
    BY <1>1, <1>2, <2>1 DEF QuietMove, Moves
  <2> QED
    BY <1>7, <2>4, <2>5, <2>6
<1>12. CASE \E w \in Workers : ReadRecord(w) /\ UNCHANGED <<clientSide, lockVars, localVars>>
  <2>1. PICK w \in Workers : ReadRecord(w) /\ UNCHANGED <<clientSide, lockVars, localVars>>
    BY <1>12
  <2>2. cur[w] \in Txns /\ w # Main /\ w \in Threads
    BY <1>1, <2>1 DEF ThreadsOK, ReadRecord
  <2>3. PICK k \in Keys : /\ reads' = [reads EXCEPT ![cur[w]][k] = storage[k]]
                          /\ todo' = [todo EXCEPT ![w] = todo[w] \ {k}]
    BY <2>1 DEF ReadRecord
  <2>4. UNCHANGED <<status, storage, completedTxns, committedTxns, pc, cur>>
    BY <2>1 DEF ReadRecord
  <2>5. Types
    <3>1. reads' \in [Txns -> [Keys -> Values \cup {Unread}]]
      BY <2>2, <2>3 DEF TypeOK, CoreTypeOK, DataTypeOK
    <3>2. todo' \in [Threads -> SUBSET (Keys \cup Txns)]
      BY <1>2, <2>2, <2>3
    <3> QED
      BY <1>2, <2>4, <3>1, <3>2 DEF TypeOK, CoreTypeOK, DataTypeOK, ThreadTypeOK
  <2>6. Quiet /\ Stays /\ ~Moves("top", "lockReads") /\ UNCHANGED <<uniqueId, txnRequests>>
    BY <1>1, <1>2, <2>1, <2>2, <2>3, <2>4
       DEF Quiet, Stays, Moves, clientSide, clientVars, localVars, lockVars
  <2> QED
    BY <1>8, <2>1, <2>5, <2>6, ArrivalsSame DEF QuietMove
<1>13. CASE \E w \in Workers : EndReadset(w) /\ UNCHANGED <<clientSide, lockVars, localVars>>
  <2>1. PICK w \in Workers : EndReadset(w) /\ UNCHANGED <<clientSide, lockVars, localVars>>
    BY <1>13
  <2>2. cur[w] \in Txns /\ w # Main /\ w \in Threads
    BY <1>1, <2>1 DEF ThreadsOK, EndReadset
  <2>3. /\ pc[w] = "readset" /\ pc' = [pc EXCEPT ![w] = "writeset"]
        /\ todo' = [todo EXCEPT ![w] = writeset[cur[w]]]
        /\ UNCHANGED <<cur, dataVars>>
    BY <2>1 DEF EndReadset, Goto
  <2>4. Types
    BY <1>1, <1>2, <2>2, <2>3 DEF TypeOK, CoreTypeOK, DataTypeOK, ThreadTypeOK, dataVars
  <2>5. Quiet /\ Stays /\ ~Moves("top", "lockReads") /\ UNCHANGED <<uniqueId, txnRequests>>
    BY <1>1, <1>2, <2>1, <2>2, <2>3
       DEF Quiet, Stays, Moves, clientSide, clientVars, dataVars, localVars, lockVars
  <2> QED
    BY <1>8, <2>1, <2>4, <2>5, ArrivalsSame DEF QuietMove
<1> QED
  BY <1>3, <1>4, <1>5, <1>6, <1>9, <1>10, <1>11, <1>12, <1>13 DEF QuietStep

-----------------------------------------------------------------------------
(* Steps that hand a transaction on. *)

LocksAsBefore ==
    /\ UNCHANGED <<manager, lockTable, txnWaits, uniqueId, txnRequests>>
    /\ \/ UNCHANGED blocked /\ pc'[Main] = pc[Main] /\ cur'[Main] = cur[Main] /\ todo'[Main] = todo[Main]
       \/ {pc[Main], pc'[Main]} \subseteq {"idle", "decide"}

LEMMA HandOnKeeps ==
  ASSUME LockInv, LocksAsBefore, \A t \in Txns : Exec(t)' <=> Exec(t)
  PROVE  LockInv'
<1> USE DEF LocksAsBefore, LockInv
<1>1. \A t \in Txns, k \in Keys : /\ Asks(t, k)' <=> Asks(t, k)
                                  /\ HasRead(t, k)' <=> HasRead(t, k)
                                  /\ HasWrite(t, k)' <=> HasWrite(t, k)
  BY DEF Asks, HasRead, HasWrite
<1>2. \A t \in Txns : (Waiting(t)' <=> Waiting(t)) /\ (Popped(t)' <=> Popped(t))
  BY DEF Waiting, Waits, Popped
<1>3. \A t \in Txns : HasAll(t)' <=> HasAll(t)
  BY DEF HasAll, HasRead, HasWrite
<1>4. TableOK'
  BY DEF TableOK, Waits
<1>5. OnlyWanted'
  BY <1>1, <1>2 DEF OnlyWanted, Accesses
<1>6. \A t \in Txns :
        /\ At(t, {"lockReads"})' <=> At(t, {"lockReads"})
        /\ At(t, {"lockWrites"})' <=> At(t, {"lockWrites"})
        /\ At(t, {"lockReads", "lockWrites"})' <=> At(t, {"lockReads", "lockWrites"})
        /\ At(t, {"unlockReads"})' <=> At(t, {"unlockReads"})
        /\ At(t, {"unlockWrites"})' <=> At(t, {"unlockWrites"})
        /\ At(t, {"result"})' <=> At(t, {"result"})
        /\ At(t, {"unlockReads", "unlockWrites", "result"})' <=> At(t, {"unlockReads", "unlockWrites", "result"})
        /\ At(t, {"lockReads", "lockWrites", "unlockReads", "unlockWrites"})'
             <=> At(t, {"lockReads", "lockWrites", "unlockReads", "unlockWrites"})
  BY DEF At
<1>7. AskingOK'
  <2>1. ASSUME NEW t \in Txns, At(t, {"lockReads"}) \/ At(t, {"lockWrites"}) \/ At(t, {"lockReads", "lockWrites"})
        PROVE  todo'[Main] = todo[Main] /\ blocked' = blocked
    BY <2>1 DEF At
  <2> QED
    <3>1. SUFFICES ASSUME NEW t \in Txns
                   PROVE  /\ At(t, {"lockReads"}) =>
                               /\ \A k \in Keys : Asks(t, k) => k \in readset[t] \ todo'[Main]
                               /\ \A k \in readset[t] \ todo'[Main] : HasRead(t, k)'
                          /\ At(t, {"lockWrites"}) =>
                               /\ \A k \in readset[t] : HasRead(t, k)'
                               /\ \A k \in writeset[t] \ todo'[Main] : HasWrite(t, k)'
                          /\ At(t, {"lockReads", "lockWrites"}) => (blocked' <=> Waiting(t))
      BY <1>1, <1>2, <1>6 DEF AskingOK
    <3>2. \A k : (HasRead(t, k)' <=> HasRead(t, k)) /\ (HasWrite(t, k)' <=> HasWrite(t, k))
      BY DEF HasRead, HasWrite
    <3> QED
      BY <2>1, <3>2 DEF AskingOK
<1>8. Granted'
  BY <1>2, <1>3 DEF Granted
<1>9. ReleasingOK'
  <2>1. ASSUME NEW t \in Txns, At(t, {"unlockReads"}) \/ At(t, {"unlockWrites"})
        PROVE  todo'[Main] = todo[Main]
    BY <2>1 DEF At
  <2> QED
    BY <1>1, <1>2, <1>6, <2>1 DEF ReleasingOK
<1>10. OthersWait'
  BY <1>1, <1>2, <1>3, <1>6 DEF OthersWait
<1> QED
  BY <1>4, <1>5, <1>7, <1>8, <1>9, <1>10

LEMMA Basics ==
  ASSUME PlaceInv
  PROVE  /\ Main \in Threads /\ Main \notin Workers /\ Workers \subseteq Threads
         /\ readset \in [Txns -> SUBSET Keys] /\ writeset \in [Txns -> SUBSET Keys]
         /\ NoTxn \in Values /\ NoTxn \notin Txns /\ Txns \subseteq Values
         /\ cur \in [Threads -> Values] /\ todo \in [Threads -> SUBSET (Keys \cup Txns)]
         /\ pc \in [Threads -> {"top", "lockReads", "lockWrites", "idle", "decide", "apply",
                                "unlock", "unlockReads", "unlockWrites", "result", "dispatch",
                                "exited", "readset", "writeset"}]
         /\ pc[Main] \in SchedulerLocations
         /\ cur[Main] = NoTxn <=> pc[Main] \in {"top", "idle", "dispatch", "exited"}
         /\ cur[Main] \in Txns \cup {NoTxn}
         /\ readyTxns \in Seq(Txns) /\ completedTxns \in Seq(Txns) /\ txnRequests \in Seq(Txns)
         /\ tasks \in [Workers -> Seq(Txns)] /\ uniqueId \in [Txns -> Nat]
BY LockingAssumption, CoreAssumption
   DEF PlaceInv, Workers, Values, TypeOK, CoreTypeOK, ClientTypeOK, DataTypeOK, ThreadTypeOK, ThreadsOK, LockTypeOK

LEMMA PopCompletedKeeps ==
  ASSUME PlaceInv, LockInv, PopCompleted
  PROVE  PlaceInv' /\ LockInv'
<1> USE DEF PlaceInv
<1>1. PICK h : h = Head(completedTxns)
  OBVIOUS
<1>2. /\ pc[Main] = "idle" /\ completedTxns # <<>> /\ completedTxns' = Tail(completedTxns)
      /\ cur' = [cur EXCEPT ![Main] = h] /\ pc' = [pc EXCEPT ![Main] = "decide"]
      /\ UNCHANGED <<clientSide, status, reads, storage, committedTxns, todo, lockVars, localVars>>
  BY <1>1 DEF PopCompleted, Goto
<1>3. /\ h \in Txns /\ completedTxns' \in Seq(Txns)
      /\ Elements(completedTxns) = {h} \cup Elements(completedTxns')
      /\ Distinct(completedTxns') /\ h \notin Elements(completedTxns')
  BY <1>1, <1>2, Basics, ElementsTail, DistinctTail DEF QueuesDistinct
<1>4. /\ cur'[Main] = h /\ pc'[Main] = "decide"
      /\ \A w \in Workers : pc'[w] = pc[w] /\ cur'[w] = cur[w]
  BY <1>2, Basics
<1>5. /\ \A t \in Txns : (Done(t)' <=> Done(t) /\ t # h) /\ (Ready(t)' <=> Ready(t))
      /\ \A t \in Txns, w \in Workers : (Tasked(t, w)' <=> Tasked(t, w)) /\ (Running(t, w)' <=> Running(t, w))
      /\ \A t \in Txns : Pooled(t)' <=> Pooled(t)
      /\ Done(h) /\ cur[Main] = NoTxn
  BY <1>2, <1>3, <1>4, Basics DEF Done, Ready, Tasked, Running, Pooled, lockVars, localVars
<1>6. TypeOK'
  BY <1>2, <1>3, Basics
     DEF TypeOK, CoreTypeOK, ClientTypeOK, DataTypeOK, ThreadTypeOK, LockTypeOK,
         clientSide, clientVars, lockVars, localVars
<1>7. ThreadsOK'
  BY <1>3, <1>4, Basics DEF ThreadsOK, SchedulerLocations
<1>8. \A t \in Txns : Started(t)' <=> Started(t) /\ t # h
  BY <1>3, <1>5 DEF Started, OneStage
<1>9. Started(h) /\ \A t \in Txns : Popped(t)' <=> Popped(t)
  BY <1>2, <1>5 DEF Started, Popped, clientSide, clientVars
<1>10. ArrivalsOK'
  BY <1>2, <1>4, <1>8, <1>9 DEF ArrivalsOK, clientSide, clientVars
<1>11. QueuesDistinct'
  BY <1>2, <1>3 DEF QueuesDistinct, lockVars, localVars
<1>12. OneStage'
  BY <1>3, <1>4, <1>5, <1>8 DEF OneStage
<1>13. \A t \in Txns : Exec(t)' <=> Exec(t)
  BY <1>2, <1>3, <1>4, <1>5, <1>8, <1>9, Basics DEF Exec, At
<1>14. LocksAsBefore
  BY <1>2, <1>4 DEF LocksAsBefore, clientSide, clientVars, lockVars
<1> QED
  BY <1>6, <1>7, <1>10, <1>11, <1>12, <1>13, <1>14, HandOnKeeps

LEMMA DispatchKeeps ==
  ASSUME PlaceInv, LockInv, Dispatch
  PROVE  PlaceInv' /\ LockInv'
<1> USE DEF PlaceInv
<1>1. PICK h : h = Head(readyTxns)
  OBVIOUS
<1>2. PICK v \in Workers : tasks' = [tasks EXCEPT ![v] = Append(@, h)]
  BY <1>1 DEF Dispatch
<1>3. /\ pc[Main] = "dispatch" /\ readyTxns # <<>> /\ readyTxns' = Tail(readyTxns)
      /\ UNCHANGED <<coreVars, manager, lockTable, txnWaits, blocked, stopped>>
  BY DEF Dispatch
<1>4. /\ h \in Txns /\ readyTxns' \in Seq(Txns)
      /\ Elements(readyTxns) = {h} \cup Elements(readyTxns')
      /\ Distinct(readyTxns') /\ h \notin Elements(readyTxns')
  BY <1>1, <1>3, Basics, ElementsTail, DistinctTail DEF QueuesDistinct
<1>5. UNCHANGED <<uniqueId, txnRequests, completedTxns, pc, cur, todo>>
  BY <1>3 DEF coreVars, clientVars, dataVars, threadVars
<1>6. Ready(h) /\ ~Pooled(h) /\ cur[Main] = NoTxn
  BY <1>3, <1>4, Basics DEF Ready, OneStage
<1>7. /\ tasks'[v] \in Seq(Txns) /\ Elements(tasks'[v]) = Elements(tasks[v]) \cup {h}
      /\ Distinct(tasks'[v])
      /\ \A w \in Workers : w # v => tasks'[w] = tasks[w]
      /\ tasks' \in [Workers -> Seq(Txns)]
  <2>1. tasks[v] \in Seq(Txns) /\ Distinct(tasks[v]) /\ h \notin Elements(tasks[v])
    BY <1>6, Basics DEF QueuesDistinct, Pooled, Tasked
  <2>2. tasks'[v] = Append(tasks[v], h)
    BY <1>2, Basics
  <2>3. Append(tasks[v], h) \in Seq(Txns)
    BY <1>4, <2>1
  <2> QED
    BY <1>2, <1>4, <2>1, <2>2, <2>3, Basics, ElementsAppend, DistinctAppend
<1>8. /\ \A t \in Txns : (Done(t)' <=> Done(t)) /\ (Ready(t)' <=> Ready(t) /\ t # h)
      /\ \A t \in Txns, w \in Workers :
           (Tasked(t, w)' <=> Tasked(t, w) \/ (t = h /\ w = v)) /\ (Running(t, w)' <=> Running(t, w))
  BY <1>4, <1>5, <1>7 DEF Done, Ready, Tasked, Running
<1>9. \A t \in Txns : Pooled(t)' <=> Pooled(t) \/ t = h
  BY <1>2, <1>8 DEF Pooled
<1>10. TypeOK'
  BY <1>3, <1>4, <1>7
     DEF TypeOK, CoreTypeOK, ClientTypeOK, DataTypeOK, ThreadTypeOK, LockTypeOK,
         coreVars, clientVars, dataVars, threadVars
<1>11. ThreadsOK'
  BY <1>5 DEF ThreadsOK
<1>12. \A t \in Txns : (Started(t)' <=> Started(t)) /\ (Popped(t)' <=> Popped(t))
  BY <1>5, <1>6, <1>8, <1>9 DEF Started, Popped
<1>13. ArrivalsOK'
  BY <1>5, <1>12 DEF ArrivalsOK
<1>14. QueuesDistinct'
  BY <1>4, <1>5, <1>7 DEF QueuesDistinct
<1>15. OneStage'
  <2>1. ~Done(h) /\ ~Pooled(h) /\ Started(h)
    BY <1>4, <1>6 DEF OneStage, Started
  <2>2. \A w \in Workers : ~Tasked(h, w) /\ ~Running(h, w)
    BY <2>1 DEF Pooled
  <2> QED
    BY <1>4, <1>5, <1>8, <1>9, <1>12, <2>1, <2>2 DEF OneStage
<1>16. \A t \in Txns : Exec(t)' <=> Exec(t)
  BY <1>5, <1>12 DEF Exec, At
<1>17. LocksAsBefore
  BY <1>3, <1>5 DEF LocksAsBefore
<1> QED
  BY <1>10, <1>11, <1>13, <1>14, <1>15, <1>16, <1>17, HandOnKeeps

LEMMA PopTaskKeeps ==
  ASSUME PlaceInv, LockInv, NEW v \in Workers, PopTask(v)
  PROVE  PlaceInv' /\ LockInv'
<1> USE DEF PlaceInv
<1>1. PICK h : h = Head(tasks[v])
  OBVIOUS
<1>2. /\ pc[v] = "idle" /\ tasks[v] # <<>> /\ tasks' = [tasks EXCEPT ![v] = Tail(@)]
      /\ pc' = [pc EXCEPT ![v] = "readset"] /\ cur' = [cur EXCEPT ![v] = h]
      /\ todo' = [todo EXCEPT ![v] = readset[h]]
      /\ UNCHANGED <<clientSide, dataVars, lockVars, blocked, stopped>>
  BY <1>1 DEF PopTask, StartExecute, Goto
<1>3. /\ v \in Threads /\ v # Main /\ tasks[v] \in Seq(Txns) /\ Distinct(tasks[v])
  BY Basics DEF QueuesDistinct
<1>4. /\ h \in Txns /\ tasks'[v] \in Seq(Txns)
      /\ Elements(tasks[v]) = {h} \cup Elements(tasks'[v])
      /\ Distinct(tasks'[v]) /\ h \notin Elements(tasks'[v])
      /\ \A w \in Workers : w # v => tasks'[w] = tasks[w]
      /\ tasks' \in [Workers -> Seq(Txns)]
  <2>1. /\ h \in Txns /\ Tail(tasks[v]) \in Seq(Txns)
        /\ Elements(tasks[v]) = {h} \cup Elements(Tail(tasks[v]))
        /\ Distinct(Tail(tasks[v])) /\ h \notin Elements(Tail(tasks[v]))
    BY <1>1, <1>2, <1>3, ElementsTail, DistinctTail
  <2> QED
    BY <1>2, <2>1, Basics
<1>5. /\ UNCHANGED <<uniqueId, txnRequests, completedTxns, readyTxns>>
      /\ cur'[v] = h /\ pc'[v] = "readset"
      /\ \A w \in Threads : w # v => pc'[w] = pc[w] /\ cur'[w] = cur[w] /\ todo'[w] = todo[w]
  BY <1>2, <1>3, Basics DEF clientSide, clientVars, dataVars, lockVars
<1>6. /\ \A t \in Txns : (Done(t)' <=> Done(t)) /\ (Ready(t)' <=> Ready(t))
      /\ \A t \in Txns, w \in Workers :
           /\ Tasked(t, w)' <=> Tasked(t, w) /\ ~(t = h /\ w = v)
           /\ Running(t, w)' <=> Running(t, w) \/ (t = h /\ w = v)
      /\ Tasked(h, v)
  BY <1>2, <1>4, <1>5, Basics DEF Done, Ready, Tasked, Running
<1>7. \A t \in Txns : Pooled(t)' <=> Pooled(t)
  BY <1>4, <1>6 DEF Pooled
<1>8. TypeOK'
  BY <1>2, <1>3, <1>4, Basics
     DEF TypeOK, CoreTypeOK, ClientTypeOK, DataTypeOK, ThreadTypeOK, LockTypeOK,
         clientSide, clientVars, dataVars, lockVars
<1>9. ThreadsOK'
  BY <1>3, <1>4, <1>5, Basics DEF ThreadsOK
<1>10. \A t \in Txns : (Started(t)' <=> Started(t)) /\ (Popped(t)' <=> Popped(t))
  BY <1>5, <1>6, <1>7 DEF Started, Popped
<1>11. ArrivalsOK'
  BY <1>3, <1>5, <1>10, Basics DEF ArrivalsOK
<1>12. QueuesDistinct'
  BY <1>4, <1>5 DEF QueuesDistinct
<1>13. OneStage'
  BY <1>3, <1>4, <1>5, <1>6, <1>7, <1>10, Basics DEF OneStage
<1>14. \A t \in Txns : Exec(t)' <=> Exec(t)
  BY <1>3, <1>5, <1>10, Basics DEF Exec, At
<1>15. LocksAsBefore
  BY <1>2, <1>3, <1>5, Basics DEF LocksAsBefore, lockVars
<1> QED
  BY <1>8, <1>9, <1>11, <1>12, <1>13, <1>14, <1>15, HandOnKeeps

LEMMA RunKeeps ==
  ASSUME PlaceInv, LockInv, NEW v \in Workers, Run(v, "idle"), UNCHANGED <<clientSide, lockVars, localVars>>
  PROVE  PlaceInv' /\ LockInv'
<1> USE DEF PlaceInv
<1>1. PICK h : h = cur[v]
  OBVIOUS
<1>2. /\ pc[v] = "writeset" /\ completedTxns' = Append(completedTxns, h)
      /\ pc' = [pc EXCEPT ![v] = "idle"]
      /\ UNCHANGED <<reads, storage, committedTxns, cur, todo>>
  BY <1>1 DEF Run, Goto
<1>3. v \in Threads /\ v # Main /\ h \in Txns
  BY <1>1, <1>2, Basics DEF ThreadsOK
<1>4. Running(h, v) /\ Pooled(h) /\ Started(h) /\ ~Done(h)
  BY <1>1, <1>2, <1>3 DEF Running, Pooled, Started, OneStage
<1>5. /\ completedTxns' \in Seq(Txns) /\ Distinct(completedTxns')
      /\ Elements(completedTxns') = Elements(completedTxns) \cup {h}
  <2>1. completedTxns \in Seq(Txns) /\ Distinct(completedTxns) /\ h \notin Elements(completedTxns)
    BY <1>4, Basics DEF QueuesDistinct, Done
  <2> QED
    BY <1>2, <1>3, <2>1, ElementsAppend, DistinctAppend
<1>6. /\ UNCHANGED <<uniqueId, txnRequests, readyTxns, tasks, cur, todo, blocked, manager, lockTable, txnWaits>>
      /\ pc'[v] = "idle" /\ \A w \in Threads : w # v => pc'[w] = pc[w]
  BY <1>2, <1>3, Basics DEF clientSide, clientVars, lockVars, localVars
<1>7. /\ \A t \in Txns : (Done(t)' <=> Done(t) \/ t = h) /\ (Ready(t)' <=> Ready(t))
      /\ \A t \in Txns, w \in Workers :
           /\ Tasked(t, w)' <=> Tasked(t, w)
           /\ Running(t, w)' <=> Running(t, w) /\ w # v
  BY <1>2, <1>5, <1>6, Basics DEF Done, Ready, Tasked, Running
<1>8. \A t \in Txns : Pooled(t)' <=> Pooled(t) /\ t # h
  <2>1. \A t \in Txns : Running(t, v) => t = h
    BY <1>1 DEF Running
  <2>2. \A w \in Workers : ~Tasked(h, w) /\ (Running(h, w) => w = v)
    BY <1>3, <1>4 DEF OneStage
  <2> QED
    BY <1>3, <1>7, <2>1, <2>2 DEF Pooled
<1>9. TypeOK'
  <2>1. status' \in [Txns -> TxnStatus]
    BY <1>1, <1>3 DEF Run, TypeOK, CoreTypeOK, DataTypeOK, TxnStatus
  <2> QED
    BY <1>2, <1>3, <1>5, <2>1, Basics
       DEF TypeOK, CoreTypeOK, ClientTypeOK, DataTypeOK, ThreadTypeOK, LockTypeOK,
           clientSide, clientVars, lockVars, localVars
<1>10. ThreadsOK'
  BY <1>3, <1>6, Basics DEF ThreadsOK
<1>11. \A t \in Txns : (Started(t)' <=> Started(t)) /\ (Popped(t)' <=> Popped(t))
  BY <1>4, <1>6, <1>7, <1>8 DEF Started, Popped
<1>12. ArrivalsOK'
  BY <1>6, <1>11 DEF ArrivalsOK
<1>13. QueuesDistinct'
  BY <1>5, <1>6 DEF QueuesDistinct
<1>14. OneStage'
  BY <1>3, <1>4, <1>6, <1>7, <1>8, <1>11 DEF OneStage
<1>15. \A t \in Txns : Exec(t)' <=> Exec(t)
  BY <1>3, <1>6, <1>11, Basics DEF Exec, At
<1>16. LocksAsBefore
  BY <1>3, <1>6, Basics DEF LocksAsBefore
<1> QED
  BY <1>9, <1>10, <1>12, <1>13, <1>14, <1>15, <1>16, HandOnKeeps

LEMMA EndLockWritesKeeps ==
  ASSUME PlaceInv, LockInv, EndLockWrites
  PROVE  PlaceInv' /\ LockInv'
<1> USE DEF PlaceInv
<1>1. PICK c : c = cur[Main]
  OBVIOUS
<1>2. /\ pc[Main] = "lockWrites" /\ todo[Main] = {}
      /\ readyTxns' = IF blocked THEN readyTxns ELSE Append(readyTxns, c)
      /\ pc' = [pc EXCEPT ![Main] = "idle"] /\ cur' = [cur EXCEPT ![Main] = NoTxn]
      /\ UNCHANGED <<clientSide, dataVars, todo, manager, lockTable, txnWaits, localVars>>
  BY <1>1 DEF EndLockWrites, PushUnlessBlocked, Goto
<1>3. c \in Txns /\ ~Started(c) /\ Popped(c)
  BY <1>1, <1>2, Basics DEF OneStage, ArrivalsOK
<1>4. /\ cur'[Main] = NoTxn /\ pc'[Main] = "idle"
      /\ \A w \in Workers : pc'[w] = pc[w] /\ cur'[w] = cur[w]
      /\ UNCHANGED <<uniqueId, txnRequests, completedTxns, tasks, manager, lockTable, txnWaits>>
  BY <1>2, Basics DEF clientSide, clientVars, dataVars, localVars
<1>5. /\ readyTxns' \in Seq(Txns) /\ Distinct(readyTxns')
      /\ Elements(readyTxns') = Elements(readyTxns) \cup {t \in {c} : ~blocked}
  <2>1. readyTxns \in Seq(Txns) /\ Distinct(readyTxns) /\ c \notin Elements(readyTxns)
    BY <1>3, Basics DEF QueuesDistinct, Started, Ready
  <2>2. CASE blocked
    BY <1>2, <2>1, <2>2
  <2>3. CASE ~blocked
    <3>1. Elements(Append(readyTxns, c)) = Elements(readyTxns) \cup {c} /\ Distinct(Append(readyTxns, c))
      BY <1>3, <2>1, ElementsAppend, DistinctAppend
    <3> QED
      BY <1>2, <1>3, <2>1, <2>3, <3>1
  <2> QED
    BY <2>2, <2>3
<1>6. /\ \A t \in Txns : (Done(t)' <=> Done(t)) /\ (Ready(t)' <=> Ready(t) \/ (t = c /\ ~blocked))
      /\ \A t \in Txns, w \in Workers : (Tasked(t, w)' <=> Tasked(t, w)) /\ (Running(t, w)' <=> Running(t, w))
      /\ \A t \in Txns : Pooled(t)' <=> Pooled(t)
  BY <1>4, <1>5 DEF Done, Ready, Tasked, Running, Pooled
<1>7. TypeOK'
  BY <1>2, <1>5, Basics
     DEF TypeOK, CoreTypeOK, ClientTypeOK, DataTypeOK, ThreadTypeOK, LockTypeOK,
         clientSide, clientVars, dataVars, localVars
<1>8. ThreadsOK'
  BY <1>4, Basics DEF ThreadsOK, SchedulerLocations
<1>9. \A t \in Txns : (Started(t)' <=> Started(t) \/ (t = c /\ ~blocked)) /\ (Popped(t)' <=> Popped(t))
  BY <1>4, <1>6 DEF Started, Popped
<1>10. ArrivalsOK'
  BY <1>3, <1>4, <1>9, Basics DEF ArrivalsOK
<1>11. QueuesDistinct'
  BY <1>4, <1>5 DEF QueuesDistinct
<1>12. OneStage'
  <2>1. ~Done(c) /\ ~Pooled(c)
    BY <1>3 DEF Started
  <2> QED
    BY <1>3, <1>4, <1>6, <1>9, <2>1, Basics DEF OneStage
<1>13. \A t \in Txns : Exec(t)' <=> Exec(t) \/ (t = c /\ ~blocked)
  BY <1>1, <1>2, <1>3, <1>4, <1>9, Basics DEF Exec, At
<1>14. \A t \in Txns : /\ \A k \in Keys : Asks(t, k)' <=> Asks(t, k)
                       /\ HasAll(t)' <=> HasAll(t)
                       /\ Waiting(t)' <=> Waiting(t)
  BY <1>4 DEF Asks, HasAll, HasRead, HasWrite, Waiting, Waits
<1>15. HasAll(c) /\ (blocked <=> Waiting(c))
  <2>1. At(c, {"lockWrites"}) /\ At(c, {"lockReads", "lockWrites"})
    BY <1>1, <1>2 DEF At
  <2> QED
    BY <1>2, <1>3, <2>1 DEF LockInv, AskingOK, HasAll
<1>16. TableOK' /\ OnlyWanted'
  BY <1>4, <1>9, <1>14 DEF LockInv, TableOK, OnlyWanted, Waits, Accesses
<1>17. AskingOK' /\ ReleasingOK'
  BY <1>4, Basics DEF AskingOK, ReleasingOK, At
<1>18. Granted'
  BY <1>13, <1>14, <1>15 DEF LockInv, Granted
<1>19. OthersWait'
  <2>1. SUFFICES ASSUME NEW t \in Txns, NEW k \in Keys, Asks(t, k), ~Exec(t)' PROVE Waiting(t) /\ HasAll(t)
    BY <1>14 DEF OthersWait
  <2>2. CASE t = c
    BY <1>13, <1>15, <2>1, <2>2
  <2>3. CASE t # c
    BY <1>1, <1>13, <2>1, <2>3 DEF LockInv, OthersWait, At
  <2> QED
    BY <2>2, <2>3
<1> QED
  BY <1>7, <1>8, <1>10, <1>11, <1>12, <1>16, <1>17, <1>18, <1>19 DEF LockInv

-----------------------------------------------------------------------------
(* Asking for a lock. *)

LEMMA TableType ==
  ASSUME TypeOK
  PROVE  /\ lockTable \in Tables(Keys, LockRequest)
         /\ \A r \in LockRequest : r.txn \in Txns
         /\ \A k \in Keys : lockTable[k] \in Seq(LockRequest)
         /\ IsFiniteSet(Keys)
         /\ txnWaits \in [Txns -> Nat]
  BY LockAssumption DEF TypeOK, LockTypeOK, Tables, LockRequest

\* A transaction waits for nothing when it has every lock it asked for.
LEMMA WaitsZero ==
  ASSUME TypeOK, NEW t
  PROVE  /\ IsFiniteSet(Waits(t)) /\ Cardinality(Waits(t)) \in Nat
         /\ Cardinality(Waits(t)) = 0 <=> ~Waiting(t)
         /\ Waiting(t) <=> \E k \in Keys : WaitsIn(lockTable[k], t) # {}
<1>1. /\ IsFiniteSet(Waits(t)) /\ Cardinality(Waits(t)) \in Nat
      /\ Cardinality(Waits(t)) = 0 <=> \A k \in Keys : WaitsIn(lockTable[k], t) = {}
  BY TableType, WaitsNothing, Zenon DEF Waits
<1>2. Cardinality(Waits(t)) = 0 <=> ~Waiting(t)
  BY <1>1, FS_EmptySet DEF Waiting
<1> QED
  BY <1>1, <1>2, Zenon

\* What c's call of ReadLock or WriteLock for k does to the table.
Granting(c, k, m, granted) ==
    /\ lockTable' \in Tables(Keys, LockRequest)
    /\ txnWaits' \in [Txns -> Nat]
    /\ \A j \in Keys : j # k => lockTable'[j] = lockTable[j]
    /\ DOMAIN lockTable'[k] = DOMAIN lockTable[k] \cup {Len(lockTable[k]) + 1}
    /\ \A i \in DOMAIN lockTable[k] : lockTable'[k][i] = lockTable[k][i]
    /\ lockTable'[k][Len(lockTable[k]) + 1] = [txn |-> c, mode |-> m]
    /\ \A u \in Txns : u # c => Waits(u)' = Waits(u)
    /\ Waiting(c)' <=> Waiting(c) \/ ~granted
    /\ (\A u \in Txns : txnWaits[u] = Cardinality(Waits(u)))
          => \A u \in Txns : txnWaits'[u] = Cardinality(Waits(u)')
    /\ UNCHANGED <<manager, readyTxns>>

LEMMA LockEffect ==
  ASSUME TypeOK, NEW c \in Txns, NEW k \in Keys, NEW m \in {"SHARED", "EXCLUSIVE"},
         NEW granted \in BOOLEAN, Lock(c, k, m, granted)
  PROVE  Granting(c, k, m, granted)
<1>1. PICK r : r = [txn |-> c, mode |-> m]
  OBVIOUS
<1>2. r \in LockRequest /\ r.txn = c /\ r.mode = m
  BY <1>1 DEF LockRequest
<1>3. PICK q : q = lockTable[k]
  OBVIOUS
<1>4. q \in Seq(LockRequest)
  BY <1>3, TableType
<1>5. PICK n : n = NumBefore(q, m)
  OBVIOUS
<1>6. /\ \A u : u # c => WaitsIn(Append(q, r), u) = WaitsIn(q, u)
      /\ n \in Nat
      /\ Cardinality(WaitsIn(Append(q, r), c)) = Cardinality(WaitsIn(q, c)) + n
  BY <1>2, <1>4, <1>5, WaitsAppend
<1>7. PICK P : P = lockTable'
  OBVIOUS
<1>8. /\ P \in Tables(Keys, LockRequest)
      /\ P[k] = Append(q, r)
      /\ \A j \in Keys : j # k => P[j] = lockTable[j]
  <2>1. P = [lockTable EXCEPT ![k] = Append(q, r)]
    BY <1>1, <1>3, <1>7 DEF Lock
  <2>2. Append(q, r) \in Seq(LockRequest)
    BY <1>2, <1>4
  <2> QED
    BY <2>1, <2>2, TableType DEF Tables
<1>9. Cardinality(WaitsInTable(P, c)) = Cardinality(Waits(c)) + n
  <2>1. Cardinality(WaitsIn(P[k], c)) = Cardinality(WaitsIn(lockTable[k], c)) + n
    BY <1>3, <1>6, <1>8
  <2>2. /\ P \in Tables(Keys, LockRequest) /\ lockTable \in Tables(Keys, LockRequest)
        /\ \A j \in Keys : j # k => P[j] = lockTable[j]
        /\ n \in Nat /\ IsFiniteSet(Keys)
    BY <1>6, <1>8, TableType
  <2>3. Waits(c) = WaitsInTable(lockTable, c)
    BY DEF Waits
  <2> QED
    BY <2>1, <2>2, <2>3, TableAppend
<1>10. ASSUME NEW u, u # c PROVE WaitsInTable(P, u) = Waits(u)
  <2>1. \A j \in Keys : WaitsIn(P[j], u) = WaitsIn(lockTable[j], u)
    BY <1>3, <1>6, <1>8, <1>10
  <2>2. DOMAIN P = Keys /\ DOMAIN lockTable = Keys
    BY <1>8, TableType DEF Tables
  <2> QED
    BY <2>1, <2>2 DEF Waits, WaitsInTable
<1>11. /\ txnWaits' \in [Txns -> Nat] /\ txnWaits'[c] = txnWaits[c] + n
       /\ \A u \in Txns : u # c => txnWaits'[u] = txnWaits[u]
  <2>1. txnWaits' = [txnWaits EXCEPT ![c] = @ + n]
    BY <1>3, <1>5 DEF Lock
  <2> QED
    BY <1>6, <2>1, TableType
<1>12. (granted <=> n = 0) /\ UNCHANGED <<manager, readyTxns>>
  BY <1>3, <1>5 DEF Lock
<1>13. \A u : Waits(u)' = WaitsInTable(P, u)
  BY <1>7 DEF Waits
<1>14. Waiting(c)' <=> Waiting(c) \/ ~granted
  <2>1. IsFiniteSet(WaitsInTable(P, c)) /\ Cardinality(WaitsInTable(P, c)) \in Nat
    BY <1>8, TableType, WaitsNothing
  <2>2. Cardinality(WaitsInTable(P, c)) = 0 <=> WaitsInTable(P, c) = {}
    BY <2>1, FS_EmptySet
  <2>3. Waiting(c)' <=> WaitsInTable(P, c) # {}
    BY <1>13 DEF Waiting
  <2>4. Cardinality(Waits(c)) \in Nat /\ (Cardinality(Waits(c)) = 0 <=> ~Waiting(c))
    BY WaitsZero
  <2>5. Cardinality(WaitsInTable(P, c)) = 0 <=> Cardinality(Waits(c)) = 0 /\ n = 0
    BY <1>6, <1>9, <2>4
  <2> QED
    BY <1>12, <2>2, <2>3, <2>4, <2>5, Zenon
<1>15. ASSUME \A u \in Txns : txnWaits[u] = Cardinality(Waits(u)), NEW u \in Txns
       PROVE  txnWaits'[u] = Cardinality(WaitsInTable(P, u))
  BY <1>9, <1>10, <1>11, <1>15
<1>16. /\ DOMAIN P[k] = DOMAIN q \cup {Len(q) + 1} /\ P[k][Len(q) + 1] = r
       /\ \A i \in DOMAIN q : P[k][i] = q[i]
  BY <1>4, <1>2, <1>8
<1> QED
  BY <1>1, <1>3, <1>7, <1>8, <1>10, <1>11, <1>12, <1>13, <1>14, <1>15, <1>16 DEF Granting

LEMMA LockKeyKeeps ==
  ASSUME PlaceInv, LockInv, LockKey
  PROVE  PlaceInv' /\ LockInv'
<1> USE DEF PlaceInv
<1>1. PICK c : c = cur[Main]
  OBVIOUS
<1>2. PICK k \in Keys, granted \in BOOLEAN :
        /\ NextKey(Main, k)
        /\ IF pc[Main] = "lockReads" THEN ReadLock(c, k, granted) ELSE WriteLock(c, k, granted)
        /\ blocked' = (blocked \/ ~granted)
        /\ todo' = [todo EXCEPT ![Main] = @ \ {k}]
  BY <1>1 DEF LockKey
<1>3. /\ pc[Main] \in {"lockReads", "lockWrites"}
      /\ UNCHANGED <<clientSide, dataVars, pc, cur, tasks, stopped>>
  BY DEF LockKey
<1>4. c \in Txns /\ ~Started(c) /\ Popped(c) /\ ~Exec(c) /\ At(c, {"lockReads", "lockWrites"})
  BY <1>1, <1>3, Basics DEF OneStage, ArrivalsOK, Exec, At
<1>5. PICK m \in {"SHARED", "EXCLUSIVE"} :
        /\ Lock(c, k, m, granted)
        /\ pc[Main] = "lockReads" => m = IF manager = "A" THEN "EXCLUSIVE" ELSE "SHARED"
        /\ pc[Main] = "lockWrites" => m = "EXCLUSIVE"
  BY <1>2, <1>3 DEF ReadLock, WriteLock
<1>6. Granting(c, k, m, granted)
  BY <1>4, <1>5, LockEffect
<1>7. k \in todo[Main] /\ todo'[Main] = todo[Main] \ {k} /\ \A w \in Workers : todo'[w] = todo[w]
  BY <1>2, Basics DEF NextKey
<1>8. UNCHANGED <<readyTxns, completedTxns, tasks, txnRequests, uniqueId, pc, cur, manager>>
  BY <1>3, <1>6 DEF clientSide, clientVars, dataVars, Granting
<1>9. \A t \in Txns : /\ Ready(t)' <=> Ready(t)
                      /\ Done(t)' <=> Done(t)
                      /\ Pooled(t)' <=> Pooled(t)
                      /\ Started(t)' <=> Started(t)
                      /\ Popped(t)' <=> Popped(t)
                      /\ Exec(t)' <=> Exec(t)
  BY <1>8 DEF Ready, Done, Pooled, Tasked, Running, Started, Popped, Exec, At
<1>10. PlaceInv'
  <2>1. TypeOK'
    <3>1. lockTable' \in [Keys -> Seq(LockRequest)] /\ txnWaits' \in [Txns -> Nat]
      BY <1>6 DEF Granting, Tables
    <3> QED
      BY <1>2, <1>3, <1>8, <3>1, Basics
         DEF TypeOK, CoreTypeOK, ClientTypeOK, DataTypeOK, ThreadTypeOK, LockTypeOK,
             clientSide, clientVars, dataVars
  <2>2. ThreadsOK'
    BY <1>7, <1>8 DEF ThreadsOK
  <2>3. ArrivalsOK' /\ QueuesDistinct'
    BY <1>8, <1>9 DEF ArrivalsOK, QueuesDistinct
  <2>4. OneStage'
    BY <1>8, <1>9 DEF OneStage, Tasked, Running
  <2> QED
    BY <2>1, <2>2, <2>3, <2>4
<1>11. k \in Accesses(c)
  BY <1>1, <1>3, <1>7 DEF ThreadsOK, Accesses
<1>12. pc[Main] = "lockReads" => ~Asks(c, k)
  BY <1>1, <1>4, <1>7 DEF LockInv, AskingOK, At
<1> DEFINE n == Len(lockTable[k]) + 1
<1>13. /\ n \notin DOMAIN lockTable[k] /\ n \in DOMAIN lockTable'[k]
       /\ \A i \in DOMAIN lockTable[k] : i < n
       /\ DOMAIN lockTable'[k] = DOMAIN lockTable[k] \cup {n}
       /\ lockTable'[k][n] = [txn |-> c, mode |-> m]
       /\ \A i \in DOMAIN lockTable[k] : lockTable'[k][i] = lockTable[k][i]
       /\ \A j \in Keys : j # k => lockTable'[j] = lockTable[j]
  <2>1. n \notin DOMAIN lockTable[k] /\ \A i \in DOMAIN lockTable[k] : i < n
    BY TableType
  <2> QED
    BY <1>6, <2>1 DEF Granting
<1> HIDE DEF n
<1>14. ASSUME NEW u \in Txns, NEW j \in Keys
       PROVE  /\ Asks(u, j)' <=> Asks(u, j) \/ (u = c /\ j = k)
              /\ HasRead(u, j) => HasRead(u, j)'
              /\ HasWrite(u, j) => HasWrite(u, j)'
  <2>1. CASE j # k
    BY <1>8, <1>13, <2>1 DEF Asks, HasRead, HasWrite
  <2>2. CASE j = k
    BY <1>8, <1>13, <2>2 DEF Asks, HasRead, HasWrite, RequestsOf
  <2> QED
    BY <2>1, <2>2
<1>15. /\ pc[Main] = "lockReads" => HasRead(c, k)'
       /\ pc[Main] = "lockWrites" => HasWrite(c, k)'
  BY <1>5, <1>8, <1>13 DEF HasRead, HasWrite, RequestsOf
<1>16. \A u \in Txns : HasAll(u) => HasAll(u)'
  BY <1>14, Basics DEF HasAll
<1>17. /\ \A u \in Txns : u # c => (Waiting(u)' <=> Waiting(u))
       /\ Waiting(c)' <=> Waiting(c) \/ ~granted
  BY <1>6 DEF Granting, Waiting
<1>18. TableOK'
  <2>1. \A t \in Txns : txnWaits'[t] = Cardinality(Waits(t)')
    BY <1>6 DEF Granting, LockInv, TableOK
  <2>2. ASSUME NEW j \in Keys, NEW a \in DOMAIN lockTable'[j], NEW b \in DOMAIN lockTable'[j],
               a < b, lockTable'[j][a].txn = lockTable'[j][b].txn
        PROVE  lockTable'[j][b].mode = "EXCLUSIVE"
    <3>1. CASE j # k
      BY <1>13, <2>2, <3>1 DEF LockInv, TableOK
    <3>2. CASE j = k /\ b # n
      <4>1. n \in Nat /\ \A i \in DOMAIN lockTable[k] : i \in Nat
        BY TableType DEF n
      <4>2. a # n
        <5>1. b \in Nat /\ b < n
          BY <1>13, <3>2, <4>1
        <5> QED
          BY <2>2, <4>1, <5>1
      <4> QED
        BY <1>13, <2>2, <3>2, <4>2 DEF LockInv, TableOK
    <3>3. CASE j = k /\ b = n
      <4>1. a # n
        <5>1. n \in Nat
          BY TableType DEF n
        <5> QED
          BY <2>2, <3>3, <5>1
      <4>2. a \in DOMAIN lockTable[k] /\ lockTable[k][a].txn = c
        BY <1>13, <2>2, <3>3, <4>1
      <4>3. Asks(c, k)
        BY <4>2 DEF Asks, RequestsOf
      <4> QED
        BY <1>3, <1>5, <1>12, <1>13, <3>3, <4>3
    <3> QED
      BY <3>1, <3>2, <3>3
  <2> QED
    BY <2>1, <2>2 DEF TableOK
<1>19. OnlyWanted'
  BY <1>4, <1>9, <1>11, <1>14 DEF LockInv, OnlyWanted, Accesses
<1>20. AskingOK'
  <2>1. SUFFICES ASSUME NEW t \in Txns, cur[Main] = t
                 PROVE  /\ pc[Main] = "lockReads" =>
                             /\ \A j \in Keys : Asks(t, j)' => j \in readset[t] \ todo'[Main]
                             /\ \A j \in readset[t] \ todo'[Main] : HasRead(t, j)'
                        /\ pc[Main] = "lockWrites" =>
                             /\ \A j \in readset[t] : HasRead(t, j)'
                             /\ \A j \in writeset[t] \ todo'[Main] : HasWrite(t, j)'
                        /\ blocked' <=> Waiting(t)'
    BY <1>3, <1>8 DEF AskingOK, At
  <2>2. t = c
    BY <1>1, <2>1
  <2>3. blocked' <=> Waiting(c)'
    BY <1>2, <1>4, <1>17 DEF LockInv, AskingOK
  <2>4. CASE pc[Main] = "lockReads"
    <3>1. /\ \A j \in Keys : Asks(c, j) => j \in readset[c] \ todo[Main]
          /\ \A j \in readset[c] \ todo[Main] : HasRead(c, j)
          /\ k \in readset[c]
      BY <1>4, <1>7, <2>1, <2>2, <2>4 DEF LockInv, AskingOK, At, ThreadsOK
    <3>2. \A j \in readset[c] : j \in Keys
      BY <1>4, Basics
    <3> QED
      BY <1>4, <1>7, <1>14, <1>15, <2>2, <2>3, <2>4, <3>1, <3>2
  <2>5. CASE pc[Main] = "lockWrites"
    <3>1. /\ \A j \in readset[c] : HasRead(c, j)
          /\ \A j \in writeset[c] \ todo[Main] : HasWrite(c, j)
      BY <1>4, <2>1, <2>2, <2>5 DEF LockInv, AskingOK, At
    <3>2. (\A j \in readset[c] : j \in Keys) /\ (\A j \in writeset[c] : j \in Keys)
      BY <1>4, Basics
    <3> QED
      BY <1>4, <1>7, <1>14, <1>15, <2>2, <2>3, <2>5, <3>1, <3>2
  <2> QED
    BY <1>3, <2>4, <2>5
<1>21. Granted'
  BY <1>4, <1>9, <1>16, <1>17 DEF LockInv, Granted
<1>22. ReleasingOK'
  BY <1>3, <1>8 DEF ReleasingOK, At
<1>23. OthersWait'
  <2>1. SUFFICES ASSUME NEW t \in Txns, NEW j \in Keys, Asks(t, j)', ~Exec(t),
                        ~At(t, {"lockReads", "lockWrites", "unlockReads", "unlockWrites"})
                 PROVE  Waiting(t)' /\ HasAll(t)'
    BY <1>8, <1>9 DEF OthersWait, At
  <2>2. t # c
    BY <1>4, <2>1 DEF At
  <2>3. Waiting(t) /\ HasAll(t)
    BY <1>14, <2>1, <2>2 DEF LockInv, OthersWait
  <2> QED
    BY <1>16, <1>17, <2>2, <2>3
<1> QED
  BY <1>10, <1>18, <1>19, <1>20, <1>21, <1>22, <1>23 DEF LockInv

-----------------------------------------------------------------------------
(* Releasing a lock. *)

\* What c's call of Release does when its request is the i-th for k: whoever
\* waited, and waits no more, is ready.
Freeing(c, k, i, r) ==
    /\ lockTable' \in Tables(Keys, LockRequest)
    /\ txnWaits' \in [Txns -> Nat]
    /\ \A j \in Keys : j # k => lockTable'[j] = lockTable[j]
    /\ \E f : Shifts(f, lockTable'[k], lockTable[k], i)
    /\ \A u \in Txns : txnWaits'[u] = Cardinality(Waits(u)')
    /\ \A u \in Txns : Waiting(u)' => Waiting(u)
    /\ r \in Seq(Txns) /\ Distinct(r) /\ readyTxns' = readyTxns \o r
    /\ \A u \in Txns : u \in Elements(r) <=> Waiting(u) /\ ~Waiting(u)'
    /\ manager' = manager

LEMMA ReleaseEffect ==
  ASSUME TypeOK, TableOK, NEW c \in Txns, NEW k \in Keys, NEW i \in RequestsOf(lockTable[k], c),
         ~Waiting(c), ReleaseAt(c, k, i)
  PROVE  \E r : Freeing(c, k, i, r)
<1>1. PICK Q : Q = lockTable
  OBVIOUS
<1>2. PICK P : P = lockTable'
  OBVIOUS
<1>3. PICK W : W = txnWaits
  OBVIOUS
<1>4. PICK V : V = txnWaits'
  OBVIOUS
<1>5. /\ P = [Q EXCEPT ![k] = Erase(Q[k], i)]
      /\ V = [u \in Txns |-> W[u] - Cardinality(UnblockedOf(Q[k], i, u))]
      /\ manager' = manager
  BY <1>1, <1>2, <1>3, <1>4 DEF ReleaseAt
<1>6. PICK now : now \in InQueueOrder(LastWaits(Q[k], i, W)) /\ readyTxns' = readyTxns \o TxnsAt(Q[k], now)
  BY <1>1, <1>3 DEF ReleaseAt
<1>7. Q \in Tables(Keys, LockRequest) /\ Q[k] \in Seq(LockRequest) /\ IsFiniteSet(Keys)
      /\ \A x \in LockRequest : x.txn \in Txns
  BY <1>1, TableType
<1>8. i \in DOMAIN Q[k] /\ c = Q[k][i].txn
  BY <1>1 DEF RequestsOf
<1>9. P \in Tables(Keys, LockRequest) /\ P[k] = Erase(Q[k], i) /\ \A j \in Keys : j # k => P[j] = Q[j]
  <2>1. Erase(Q[k], i) \in Seq(LockRequest)
    BY <1>7, <1>8, EraseShifts
  <2> QED
    BY <1>5, <1>7, <2>1 DEF Tables
<1>10. PICK f : Shifts(f, P[k], Q[k], i)
  BY <1>7, <1>8, <1>9, EraseShifts
<1>11. WaitsIn(Q[k], c) = {}
  BY <1>1, WaitsZero
<1>12. UnblockedOf(Q[k], i, c) = {}
  <2>1. SUFFICES ASSUME NEW j \in UnblockedOf(Q[k], i, c) PROVE FALSE
    OBVIOUS
  <2>2. <<j, i>> \in WaitsIn(Q[k], c)
    BY <1>8 DEF UnblockedOf, Unblocked, WaitsIn
  <2> QED
    BY <1>11, <2>2
<1>13. W \in [Txns -> Nat] /\ \A u \in Txns : Cardinality(WaitsInTable(Q, u)) = W[u]
  BY <1>1, <1>3, TableType DEF TableOK, Waits
<1>14. PICK r : r = TxnsAt(Q[k], now)
  OBVIOUS
<1> DEFINE N(u) == Cardinality(UnblockedOf(Q[k], i, u))
<1>15. /\ N(c) = 0
       /\ \A u \in Txns : N(u) \in Nat /\ N(u) <= W[u]
       /\ \A u \in Txns \ {c} :
            Cardinality(WaitsInTable(P, u)) = Cardinality(WaitsInTable(Q, u)) - N(u)
       /\ r \in Seq(Txns) /\ Distinct(r)
       /\ \A u \in Txns : u \in Elements(r) <=> W[u] = 1 /\ N(u) = 1
  <2>1. \A u \in Txns : Cardinality(WaitsInTable(Q, u)) <= W[u]
    <3>1. ASSUME NEW u \in Txns PROVE Cardinality(WaitsInTable(Q, u)) <= W[u]
      <4>1. W[u] \in Nat /\ Cardinality(WaitsInTable(Q, u)) = W[u]
        BY <1>13
      <4> QED
        BY <4>1
    <3> QED
      BY <3>1
  <2>2. Releases(Txns, LockRequest, Keys, Q, P, W, k, i, c)
    BY <1>7, <1>8, <1>9, <1>12, <1>13, <2>1 DEF Releases
  <2>3. Unblocks(Txns, Q, P, W, k, i, c, TxnsAt(Q[k], now))
    BY <1>6, <2>2, TableRelease
  <2> QED
    BY <1>14, <2>3 DEF Unblocks
<1>16. V = [u \in Txns |-> W[u] - N(u)]
  BY <1>5
<1> HIDE DEF N
<1>17. /\ V \in [Txns -> Nat]
       /\ \A u \in Txns : V[u] = W[u] - N(u) /\ V[u] \in Nat
  <2>1. ASSUME NEW u \in Txns PROVE V[u] \in Nat /\ V[u] = W[u] - N(u)
    <3>1. N(u) \in Nat /\ N(u) <= W[u] /\ W[u] \in Nat /\ V[u] = W[u] - N(u)
      BY <1>13, <1>15, <1>16
    <3> QED
      BY <3>1
  <2>2. V \in [Txns -> Nat]
    BY <1>16, <2>1
  <2> QED
    BY <2>1, <2>2
<1>18. W[c] = 0 /\ Cardinality(WaitsInTable(P, c)) = 0
  <2>1. W[c] = 0
    BY <1>1, <1>13, WaitsZero DEF Waits
  <2>2. \A j \in Keys : WaitsIn(P[j], c) = {}
    <3>1. \A j \in Keys : WaitsIn(Q[j], c) = {}
      BY <1>1, WaitsZero
    <3>2. WaitsIn(Erase(Q[k], i), c) = {}
      BY <1>7, <1>8, <1>11, RequestsErase
    <3> QED
      BY <1>9, <3>1, <3>2
  <2> QED
    <3>1. Cardinality(WaitsInTable(P, c)) = 0 <=> \A j \in Keys : WaitsIn(P[j], c) = {}
      BY <1>7, <1>9, WaitsNothing
    <3> QED
      BY <2>1, <2>2, <3>1, Zenon
<1>19. \A u \in Txns : Cardinality(WaitsInTable(P, u)) = V[u]
  <2>1. ASSUME NEW u \in Txns PROVE Cardinality(WaitsInTable(P, u)) = V[u]
    <3>1. CASE u = c
      BY <1>15, <1>17, <1>18, <3>1
    <3>2. CASE u # c
      BY <1>13, <1>15, <1>17, <3>2
    <3> QED
      BY <3>1, <3>2
  <2> QED
    BY <2>1
<1>20. ASSUME NEW u \in Txns
       PROVE  /\ Waiting(u) <=> W[u] # 0
              /\ Waiting(u)' <=> V[u] # 0
  <2>1. Cardinality(Waits(u)) = 0 <=> ~Waiting(u)
    BY WaitsZero
  <2>2. IsFiniteSet(WaitsInTable(P, u))
    BY <1>7, <1>9, WaitsNothing
  <2>3. Cardinality(WaitsInTable(P, u)) = 0 <=> WaitsInTable(P, u) = {}
    BY <2>2, FS_EmptySet
  <2>4. Waits(u) = WaitsInTable(Q, u) /\ (Waiting(u)' <=> WaitsInTable(P, u) # {})
    BY <1>1, <1>2 DEF Waits, Waiting
  <2>5. Waiting(u)' <=> V[u] # 0
    BY <1>19, <2>3, <2>4
  <2>6. Waiting(u) <=> W[u] # 0
    BY <1>13, <2>1, <2>4
  <2> QED
    BY <2>5, <2>6
<1>21. ASSUME NEW u \in Txns, V[u] = 0 PROVE N(u) \in {0, 1}
  <2> DEFINE U == UnblockedOf(Q[k], i, u)
  <2>1. WaitsIn(P[k], u) = {}
    BY <1>7, <1>9, <1>19, <1>21, WaitsNothing
  <2>2. ASSUME NEW a \in U, NEW b \in U, a < b PROVE FALSE
    <3>1. a \in DOMAIN Q[k] /\ b \in DOMAIN Q[k] /\ i < a /\ i < b /\ Q[k][a].txn = u /\ Q[k][b].txn = u
      BY DEF UnblockedOf, Unblocked
    <3>2. Q[k][b].mode = "EXCLUSIVE"
      BY <1>1, <2>2, <3>1 DEF TableOK
    <3>3. a \in Nat /\ b \in Nat /\ i \in Nat
      BY <1>7, <1>8, <3>1
    <3>4. PICK x \in DOMAIN P[k], y \in DOMAIN P[k] : f[x] = a /\ f[y] = b
      BY <1>10, <3>1, <3>3 DEF Shifts
    <3>5. x < y /\ P[k][x] = Q[k][a] /\ P[k][y] = Q[k][b]
      BY <1>10, <2>2, <3>4 DEF Shifts
    <3>6. <<y, x>> \in WaitsIn(P[k], u)
      BY <3>1, <3>2, <3>5 DEF WaitsIn, Conflict
    <3> QED
      BY <2>1, <3>6
  <2>3. U \subseteq Nat
    BY <1>7 DEF UnblockedOf, Unblocked
  <2>4. \A a, b \in U : a = b
    <3>1. SUFFICES ASSUME NEW a \in U, NEW b \in U, a # b PROVE FALSE
      OBVIOUS
    <3>2. a \in Nat /\ b \in Nat
      BY <2>3
    <3>3. a < b \/ b < a
      BY <3>1, <3>2
    <3> QED
      BY <2>2, <3>3
  <2> HIDE DEF U
  <2>5. U = {} \/ \E a : U = {a}
    BY <2>4
  <2> QED
    BY <2>5, FS_EmptySet, FS_Singleton DEF N, U
<1>22. ASSUME NEW u \in Txns PROVE u \in Elements(r) <=> Waiting(u) /\ ~Waiting(u)'
  <2>1. W[u] = 1 /\ N(u) = 1 <=> W[u] # 0 /\ V[u] = 0
    <3>1. W[u] \in Nat /\ N(u) \in Nat /\ V[u] = W[u] - N(u)
      BY <1>13, <1>15, <1>17
    <3> QED
      BY <1>21, <3>1
  <2>2. u \in Elements(r) <=> W[u] = 1 /\ N(u) = 1
    BY <1>15
  <2> QED
    BY <1>20, <2>1, <2>2, Zenon
<1>23. ASSUME NEW u \in Txns, Waiting(u)' PROVE Waiting(u)
  <2>1. V[u] # 0 /\ V[u] = W[u] - N(u) /\ N(u) <= W[u] /\ N(u) \in Nat /\ W[u] \in Nat
    BY <1>13, <1>15, <1>17, <1>20, <1>23
  <2> QED
    BY <1>20, <2>1
<1>24. \A u : Waits(u)' = WaitsInTable(P, u)
  BY <1>2 DEF Waits
<1>25. Freeing(c, k, i, r)
  BY <1>1, <1>2, <1>4, <1>5, <1>6, <1>9, <1>10, <1>14, <1>15, <1>17, <1>19, <1>22, <1>23, <1>24 DEF Freeing
<1> QED
  BY <1>25

LEMMA UnlockKeyKeeps ==
  ASSUME PlaceInv, LockInv, UnlockKey
  PROVE  PlaceInv' /\ LockInv'
<1> USE DEF PlaceInv
<1>1. PICK c : c = cur[Main]
  OBVIOUS
<1>2. PICK k \in Keys : /\ NextKey(Main, k)
                        /\ Release(c, k)
                        /\ todo' = [todo EXCEPT ![Main] = @ \ {k}]
  BY <1>1 DEF UnlockKey
<1>3. /\ pc[Main] \in {"unlockReads", "unlockWrites"}
      /\ UNCHANGED <<clientSide, dataVars, pc, cur, localVars>>
  BY DEF UnlockKey
<1>4. c \in Txns /\ ~Started(c) /\ Popped(c) /\ ~Exec(c) /\ ~Waiting(c)
  BY <1>1, <1>3, Basics DEF OneStage, ArrivalsOK, Exec, At, LockInv, ReleasingOK
<1>5. k \in todo[Main] /\ todo'[Main] = todo[Main] \ {k}
  BY <1>2, Basics DEF NextKey
<1>6. UNCHANGED <<completedTxns, tasks, txnRequests, uniqueId, pc, cur, blocked, stopped>>
  BY <1>3 DEF clientSide, clientVars, dataVars, localVars
<1>7. CASE RequestsOf(lockTable[k], c) = {} /\ UNCHANGED lockVars
  <2>1. Quiet /\ QuietMove /\ ~Moves("top", "lockReads")
    BY <1>1, <1>3, <1>5, <1>6, <1>7 DEF Quiet, QuietMove, Moves, Asks
  <2>2. TypeOK'
    BY <1>2, <1>3, <1>7, Basics
       DEF TypeOK, CoreTypeOK, ClientTypeOK, DataTypeOK, ThreadTypeOK, LockTypeOK,
           clientSide, clientVars, dataVars, lockVars, localVars
  <2> QED
    BY <1>6, <2>1, <2>2, ArrivalsSame, QuietKeeps
<1>8. CASE \E i \in RequestsOf(lockTable[k], c) : ReleaseAt(c, k, i)
  <2>25. PICK i \in RequestsOf(lockTable[k], c) : ReleaseAt(c, k, i)
    BY <1>8
  <2>1. PICK r : Freeing(c, k, i, r)
    BY <1>4, <2>25, ReleaseEffect DEF LockInv
  <2>2. PICK f : Shifts(f, lockTable'[k], lockTable[k], i)
    BY <2>1 DEF Freeing
  <2>3. /\ \A j \in Keys : j # k => lockTable'[j] = lockTable[j]
        /\ \A u \in Txns : Waiting(u)' => Waiting(u)
        /\ r \in Seq(Txns) /\ Distinct(r) /\ readyTxns' = readyTxns \o r
        /\ \A u \in Txns : u \in Elements(r) <=> Waiting(u) /\ ~Waiting(u)'
        /\ manager' = manager
    BY <2>1 DEF Freeing
  <2>4. i \in DOMAIN lockTable[k] /\ lockTable[k][i].txn = c
    BY <2>1 DEF RequestsOf
  <2>5. RequestsOf(lockTable[k], c) = {i}
    <3>1. SUFFICES ASSUME NEW j \in RequestsOf(lockTable[k], c), j # i PROVE FALSE
      BY <2>1
    <3>2. j \in Nat /\ i \in Nat /\ j \in DOMAIN lockTable[k] /\ lockTable[k][j].txn = c
      BY <2>4, TableType DEF RequestsOf
    <3>3. WaitsIn(lockTable[k], c) = {}
      BY <1>4, WaitsZero
    <3>4. CASE i < j
      <4>1. <<j, i>> \in WaitsIn(lockTable[k], c)
        BY <2>4, <3>2, <3>4 DEF LockInv, TableOK, WaitsIn, Conflict
      <4> QED
        BY <3>3, <4>1
    <3>5. CASE j < i
      <4>1. <<i, j>> \in WaitsIn(lockTable[k], c)
        BY <2>4, <3>2, <3>5 DEF LockInv, TableOK, WaitsIn, Conflict
      <4> QED
        BY <3>3, <4>1
    <3> QED
      BY <3>1, <3>2, <3>4, <3>5
  <2>6. /\ f \in [DOMAIN lockTable'[k] -> DOMAIN lockTable[k]]
        /\ \A a \in DOMAIN lockTable'[k] : f[a] # i /\ lockTable'[k][a] = lockTable[k][f[a]]
        /\ \A a, b \in DOMAIN lockTable'[k] : a < b <=> f[a] < f[b]
        /\ \A b \in DOMAIN lockTable[k] : b # i => \E a \in DOMAIN lockTable'[k] : f[a] = b
    BY <2>2 DEF Shifts
  <2>7. ASSUME NEW u \in Txns, NEW j \in Keys
        PROVE  /\ Asks(u, j)' <=> Asks(u, j) /\ ~(u = c /\ j = k)
               /\ u # c => (HasRead(u, j)' <=> HasRead(u, j)) /\ (HasWrite(u, j)' <=> HasWrite(u, j))
    <3>1. CASE j # k
      BY <2>3, <3>1 DEF Asks, HasRead, HasWrite
    <3>2. CASE j = k /\ u = c
      <4>1. RequestsOf(lockTable'[k], c) = {}
        BY <2>5, <2>6 DEF RequestsOf
      <4> QED
        BY <3>2, <4>1 DEF Asks
    <3>3. CASE j = k /\ u # c
      <4>1. \A b \in RequestsOf(lockTable[k], u) : b # i /\ b \in DOMAIN lockTable[k] /\ lockTable[k][b].txn = u
        BY <2>4, <3>3 DEF RequestsOf
      <4>2. \A a \in DOMAIN lockTable'[k] :
               a \in RequestsOf(lockTable'[k], u) <=> f[a] \in RequestsOf(lockTable[k], u)
        BY <2>6 DEF RequestsOf
      <4>3. \A a \in RequestsOf(lockTable'[k], u) :
               f[a] \in RequestsOf(lockTable[k], u) /\ lockTable'[k][a] = lockTable[k][f[a]]
        BY <2>6, <4>2 DEF RequestsOf
      <4>4. \A b \in RequestsOf(lockTable[k], u) :
               \E a \in RequestsOf(lockTable'[k], u) : lockTable'[k][a] = lockTable[k][b]
        BY <2>6, <4>1, <4>2
      <4> QED
        <5>1. Asks(u, k)' <=> Asks(u, k)
          BY <4>3, <4>4 DEF Asks
        <5>2. HasRead(u, k)' <=> HasRead(u, k)
          <6>1. ASSUME HasRead(u, k) PROVE HasRead(u, k)'
            BY <2>3, <4>4, <6>1 DEF HasRead
          <6>2. ASSUME HasRead(u, k)' PROVE HasRead(u, k)
            BY <2>3, <4>3, <6>2 DEF HasRead
          <6> QED
            BY <6>1, <6>2
        <5>3. HasWrite(u, k)' <=> HasWrite(u, k)
          BY <4>3, <4>4 DEF HasWrite
        <5> QED
          BY <3>3, <5>1, <5>2, <5>3
    <3> QED
      BY <3>1, <3>2, <3>3
  <2>8. \A u \in Txns : u # c => (HasAll(u)' <=> HasAll(u))
    BY <2>7, Basics DEF HasAll
  <2>9. ~Waiting(c)'
    BY <1>4, <2>3
  <2>10. ASSUME NEW t \in Txns, t \in Elements(r)
         PROVE  /\ t # c /\ Popped(t) /\ ~Exec(t) /\ ~Started(t) /\ ~Ready(t) /\ ~Pooled(t) /\ ~Done(t)
                /\ HasAll(t) /\ ~Waiting(t)'
    <3>1. Waiting(t) /\ ~Waiting(t)' /\ t # c
      BY <1>4, <2>3, <2>10
    <3>2. \E j \in Keys : Asks(t, j)
      BY <3>1, WaitersAsk
    <3>3. Popped(t) /\ ~Exec(t)
      BY <3>1, <3>2 DEF LockInv, OnlyWanted, Granted
    <3>4. ~Started(t) /\ ~Ready(t) /\ ~Pooled(t) /\ ~Done(t)
      BY <3>3 DEF Exec, Started
    <3>5. HasAll(t)
      BY <1>1, <3>1, <3>2, <3>3 DEF LockInv, OthersWait, At
    <3> QED
      BY <3>1, <3>3, <3>4, <3>5
  <2>11. /\ readyTxns' \in Seq(Txns) /\ Distinct(readyTxns')
         /\ Elements(readyTxns') = Elements(readyTxns) \cup Elements(r)
    <3>1. readyTxns \in Seq(Txns) /\ Distinct(readyTxns)
      BY Basics DEF QueuesDistinct
    <3>2. readyTxns \o r \in Seq(Txns) /\ Elements(readyTxns \o r) = Elements(readyTxns) \cup Elements(r)
      BY <2>3, <3>1, ElementsConcat
    <3>3. Elements(readyTxns) \cap Elements(r) = {}
      <4>1. \A t \in Elements(r) : t \in Txns
        BY <2>3, ElementsType
      <4> QED
        BY <2>10, <4>1 DEF Ready
    <3>4. Distinct(readyTxns \o r)
      BY <2>3, <3>1, <3>3, DistinctConcat
    <3> QED
      BY <2>3, <3>2, <3>4
  <2>12. /\ \A t \in Txns : /\ Ready(t)' <=> Ready(t) \/ t \in Elements(r)
                            /\ Done(t)' <=> Done(t)
                            /\ Pooled(t)' <=> Pooled(t)
                            /\ Popped(t)' <=> Popped(t)
         /\ \A t \in Txns, w \in Workers : (Tasked(t, w)' <=> Tasked(t, w)) /\ (Running(t, w)' <=> Running(t, w))
    BY <1>6, <2>11 DEF Ready, Done, Pooled, Popped, Tasked, Running
  <2>13. \A t \in Txns : /\ Started(t)' <=> Started(t) \/ t \in Elements(r)
                         /\ Exec(t)' <=> Exec(t) \/ t \in Elements(r)
    <3>1. \A t \in Txns : Started(t)' <=> Started(t) \/ t \in Elements(r)
      BY <2>12 DEF Started
    <3> QED
      BY <1>6, <3>1 DEF Exec, At
  <2>14. TypeOK'
    <3>1. lockTable' \in [Keys -> Seq(LockRequest)] /\ txnWaits' \in [Txns -> Nat]
      BY <2>1 DEF Freeing, Tables
    <3> QED
      BY <1>2, <1>3, <2>3, <2>11, <3>1, Basics
         DEF TypeOK, CoreTypeOK, ClientTypeOK, DataTypeOK, ThreadTypeOK, LockTypeOK,
             clientSide, clientVars, dataVars, localVars
  <2>15. ThreadsOK'
    BY <1>5, <1>6 DEF ThreadsOK
  <2>16. ArrivalsOK'
    BY <1>6, <2>10, <2>12, <2>13 DEF ArrivalsOK
  <2>17. QueuesDistinct'
    BY <1>6, <2>11 DEF QueuesDistinct
  <2>18. OneStage'
    BY <1>1, <1>6, <2>10, <2>12, <2>13 DEF OneStage
  <2>19. TableOK'
    <3>1. ASSUME NEW j \in Keys, NEW a \in DOMAIN lockTable'[j], NEW b \in DOMAIN lockTable'[j],
                 a < b, lockTable'[j][a].txn = lockTable'[j][b].txn
          PROVE  lockTable'[j][b].mode = "EXCLUSIVE"
      <4>1. CASE j # k
        BY <2>3, <3>1, <4>1 DEF LockInv, TableOK
      <4>2. CASE j = k
        BY <2>6, <3>1, <4>2 DEF LockInv, TableOK
      <4> QED
        BY <4>1, <4>2
    <3>2. \A t \in Txns : txnWaits'[t] = Cardinality(Waits(t)')
      BY <2>1 DEF Freeing
    <3> QED
      BY <3>1, <3>2 DEF TableOK
  <2>20. OnlyWanted'
    BY <2>7, <2>12 DEF LockInv, OnlyWanted, Accesses
  <2>21. AskingOK'
    BY <1>3, <1>6 DEF AskingOK, At
  <2>22. Granted'
    <3>1. SUFFICES ASSUME NEW t \in Txns, Exec(t)' PROVE ~Waiting(t)' /\ HasAll(t)'
      BY DEF Granted
    <3>2. CASE t \in Elements(r)
      BY <2>8, <2>10, <3>2
    <3>3. CASE Exec(t)
      BY <1>4, <2>3, <2>8, <3>3 DEF LockInv, Granted
    <3> QED
      BY <2>13, <3>1, <3>2, <3>3
  <2>23. ReleasingOK'
    <3>1. SUFFICES ASSUME cur[Main] \in Txns
                   PROVE  /\ ~Waiting(c)'
                          /\ pc[Main] = "unlockReads" =>
                               \A j \in Keys : Asks(c, j)' => j \in todo'[Main] \cup writeset[c]
                          /\ pc[Main] = "unlockWrites" => \A j \in Keys : Asks(c, j)' => j \in todo'[Main]
      BY <1>1, <1>3, <1>4, <1>6 DEF ReleasingOK, At
    <3> QED
      BY <1>1, <1>4, <1>5, <2>7, <2>9 DEF LockInv, ReleasingOK, At
  <2>24. OthersWait'
    <3>1. SUFFICES ASSUME NEW t \in Txns, NEW j \in Keys, Asks(t, j)', ~Exec(t)',
                          ~At(t, {"lockReads", "lockWrites", "unlockReads", "unlockWrites"})
                   PROVE  Waiting(t)' /\ HasAll(t)'
      BY <1>6 DEF OthersWait, At
    <3>2. t # c /\ ~Exec(t) /\ t \notin Elements(r)
      BY <1>1, <1>3, <2>13, <3>1 DEF At
    <3>3. Waiting(t) /\ HasAll(t)
      BY <2>7, <3>1, <3>2 DEF LockInv, OthersWait
    <3> QED
      BY <2>3, <2>8, <3>2, <3>3
  <2> QED
    BY <2>14, <2>15, <2>16, <2>17, <2>18, <2>19, <2>20, <2>21, <2>22, <2>23, <2>24 DEF LockInv
<1> QED
  BY <1>2, <1>7, <1>8 DEF Release

-----------------------------------------------------------------------------
(* The theorems about the locks. *)

BaseInv == PlaceInv /\ LockInv

LEMMA InitBase == Init => BaseInv
<1> SUFFICES ASSUME Init PROVE PlaceInv /\ LockInv
  BY DEF BaseInv
<1> USE DEF Init, CoreInit, LockInit
<1>1. TypeOK
  <2>1. ClientTypeOK
    BY DEF ClientTypeOK
  <2>2. DataTypeOK
    BY DEF DataTypeOK, Values, TxnStatus
  <2>3. ThreadTypeOK /\ pc \in [Threads -> {"idle"}]
    BY DEF ThreadTypeOK, Values
  <2>4. LockTypeOK
    BY DEF LockTypeOK
  <2>5. tasks \in [Workers -> Seq(Txns)]
    OBVIOUS
  <2>6. blocked \in BOOLEAN /\ stopped \in BOOLEAN
    <3>1. blocked = FALSE /\ stopped = FALSE
      BY Zenon
    <3> HIDE DEF Init, CoreInit, LockInit
    <3> QED
      BY <3>1
  <2> HIDE DEF Init, CoreInit, LockInit
  <2> QED
    BY <2>1, <2>2, <2>3, <2>4, <2>5, <2>6 DEF TypeOK, CoreTypeOK
<1>14. Main \in Threads /\ NoTxn \notin Txns /\ Workers \subseteq Threads
  BY CoreAssumption, LockingAssumption DEF Workers
<1>2. /\ Main \in Threads /\ NoTxn \notin Txns
      /\ \A w \in Threads : pc[w] = "idle" /\ cur[w] = NoTxn
      /\ \A w \in Workers : tasks[w] = <<>>
  BY <1>14
<1>3. ThreadsOK
  BY <1>2, <1>14 DEF ThreadsOK, SchedulerLocations
<1>4. \A t \in Txns : /\ ~Ready(t) /\ ~Done(t) /\ ~Pooled(t) /\ ~Started(t)
                      /\ \A w \in Workers : ~Tasked(t, w) /\ ~Running(t, w)
  <2>1. \A t \in Txns : ~Ready(t) /\ ~Done(t)
    BY ElementsEmpty DEF Ready, Done
  <2>2. \A t \in Txns, w \in Workers : ~Tasked(t, w) /\ ~Running(t, w)
    BY <1>2, <1>14, ElementsEmpty DEF Tasked, Running
  <2> QED
    BY <2>1, <2>2 DEF Pooled, Started
<1>5. ArrivalsOK
  BY <1>2, <1>4 DEF ArrivalsOK, Distinct, Elements
<1>6. QueuesDistinct /\ OneStage
  BY <1>2, <1>4 DEF QueuesDistinct, OneStage, Distinct
<1>7. \A t \in Txns : \A k \in Keys : ~Asks(t, k)
  BY DEF Asks, RequestsOf
<1>8. \A t \in Txns : Cardinality(Waits(t)) = 0
  <2>1. ASSUME NEW t \in Txns PROVE Cardinality(Waits(t)) = 0
    <3>1. ~Waiting(t)
      BY <1>1, <1>7, WaitersAsk
    <3> QED
      BY <1>1, <3>1, WaitsZero
  <2> QED
    BY <2>1
<1>9. TableOK
  <2>1. \A t \in Txns : txnWaits[t] = 0
    OBVIOUS
  <2>2. \A k \in Keys : DOMAIN lockTable[k] = {}
    OBVIOUS
  <2> HIDE DEF Init, CoreInit, LockInit
  <2> QED
    BY <1>8, <2>1, <2>2 DEF TableOK
<1>10. OnlyWanted
  BY <1>7 DEF OnlyWanted
<1>11. AskingOK /\ ReleasingOK
  BY <1>2 DEF AskingOK, ReleasingOK, At
<1>12. Granted
  BY <1>2, <1>4 DEF Granted, Exec, At
<1>13. OthersWait
  BY <1>7 DEF OthersWait
<1> QED
  BY <1>1, <1>3, <1>5, <1>6, <1>9, <1>10, <1>11, <1>12, <1>13 DEF PlaceInv, LockInv

LEMMA BaseKept ==
  ASSUME BaseInv, [Next]_vars
  PROVE  BaseInv'
<1> USE DEF BaseInv
<1>1. CASE QuietStep
  BY <1>1, QuietSteps, QuietKeeps
<1>2. CASE EndLockWrites \/ LockKey \/ UnlockKey
  BY <1>2, EndLockWritesKeeps, LockKeyKeeps, UnlockKeyKeeps
<1>3. CASE PopCompleted \/ Dispatch
  BY <1>3, PopCompletedKeeps, DispatchKeeps
<1>4. CASE \E w \in Workers : PopTask(w)
  BY <1>4, PopTaskKeeps
<1>5. CASE \E w \in Workers : Run(w, "idle") /\ UNCHANGED <<clientSide, lockVars, localVars>>
  BY <1>5, RunKeeps
<1>6. CASE UNCHANGED vars
  <2>1. Quiet /\ Stays /\ ~Moves("top", "lockReads") /\ UNCHANGED <<uniqueId, txnRequests>>
    BY <1>6 DEF vars, Quiet, coreVars, clientVars, dataVars, threadVars, localVars, lockVars, Stays, Moves
  <2>2. TypeOK'
    BY <1>6 DEF vars, TypeOK, CoreTypeOK, ClientTypeOK, DataTypeOK, ThreadTypeOK, LockTypeOK, PlaceInv,
                coreVars, clientVars, dataVars, threadVars, localVars, lockVars
  <2> QED
    BY <2>1, <2>2, ArrivalsSame, QuietKeeps DEF QuietMove
<1>7. ASSUME NEW w \in Workers, Execute(w)
      PROVE  \/ QuietStep
             \/ Run(w, "idle") /\ UNCHANGED <<clientSide, lockVars, localVars>>
  BY <1>7 DEF Execute, QuietStep
<1>8. ASSUME Scheduler
      PROVE  QuietStep \/ EndLockWrites \/ LockKey \/ UnlockKey \/ PopCompleted \/ Dispatch
  BY <1>8 DEF Scheduler, QuietStep
<1>9. CASE Next
  BY <1>1, <1>2, <1>3, <1>4, <1>5, <1>7, <1>8, <1>9 DEF Next, Worker, QuietStep
<1> QED
  BY <1>6, <1>9

\* Where each transaction is, what it has asked for, and what it waits for:
\* the scheduler's blocked flag, txn_waits_ and the ready queue agree with the
\* lock table in every state.
THEOREM LockingInvariant == Spec => []BaseInv
<1>1. Init => BaseInv
  BY InitBase
<1>2. BaseInv /\ [Next]_vars => BaseInv'
  BY BaseKept
<1> QED
  BY <1>1, <1>2, PTL DEF Spec

LEMMA ExecIsExecuting ==
  ASSUME NEW t PROVE Exec(t) <=> Executing(t)
BY DEF Exec, Executing, Started, Pooled, Ready, Tasked, Running, Done, At, Elements

\* A transaction executes from when, and only when, it owns all its locks.
THEOREM ExecutionNeedsAllLocks == Spec => []ExecutesWithAllLocks
<1>1. BaseInv => ExecutesWithAllLocks
  <2> SUFFICES ASSUME BaseInv, NEW t \in Txns, ~Asking(t), AsksFor(t) = Accesses(t), Accesses(t) # {}
               PROVE  Executing(t) \/ Releasing(t) <=> OwnsAll(t)
    BY DEF ExecutesWithAllLocks
  <2> USE DEF BaseInv, LockInv
  <2>1. PICK k \in Keys : Asks(t, k)
    BY DEF AsksFor, Asks
  <2>2. OwnsAll(t) <=> ~Waiting(t)
    <3>1. ASSUME NEW j \in Keys, RequestsOf(lockTable[j], t) = {} PROVE WaitsIn(lockTable[j], t) = {}
      BY <3>1 DEF RequestsOf, WaitsIn
    <3>2. OwnsAll(t) <=> \A j \in Keys : WaitsIn(lockTable[j], t) = {}
      BY <3>1 DEF OwnsAll, Owns, AsksFor
    <3> QED
      BY <3>2, WaitsZero DEF PlaceInv
  <2>3. Executing(t) \/ Releasing(t) => ~Waiting(t)
    BY ExecIsExecuting DEF Granted, ReleasingOK, Releasing, At
  <2>4. ~Executing(t) /\ ~Releasing(t) => Waiting(t)
    BY <2>1, ExecIsExecuting DEF OthersWait, At, Asking, Releasing
  <2> QED
    BY <2>2, <2>3, <2>4
<1> QED
  BY <1>1, LockingInvariant, PTL

\* Two transactions that have all they ask for and wait for nothing do not
\* conflict.
LEMMA GrantedDoNotConflict ==
  ASSUME BaseInv, NEW t \in Txns, NEW u \in Txns, t # u, ~Waiting(t), ~Waiting(u), NEW k \in Keys
  PROVE  /\ ~(HasWrite(t, k) /\ Asks(u, k))
         /\ manager = "A" => ~(HasRead(t, k) /\ Asks(u, k))
<1>1. SUFFICES ASSUME NEW i \in RequestsOf(lockTable[k], t), NEW j \in RequestsOf(lockTable[k], u),
                      lockTable[k][i].mode = "EXCLUSIVE"
               PROVE  FALSE
  BY DEF HasWrite, HasRead, Asks
<1>2. /\ i \in DOMAIN lockTable[k] /\ lockTable[k][i].txn = t
      /\ j \in DOMAIN lockTable[k] /\ lockTable[k][j].txn = u
      /\ i \in Nat /\ j \in Nat
  BY TableType DEF RequestsOf, BaseInv, PlaceInv
<1>3. WaitsIn(lockTable[k], t) = {} /\ WaitsIn(lockTable[k], u) = {}
  BY WaitsZero DEF BaseInv, PlaceInv
<1>4. CASE i < j
  <2>1. <<j, i>> \in WaitsIn(lockTable[k], u)
    BY <1>1, <1>2, <1>4 DEF WaitsIn, Conflict
  <2> QED
    BY <1>3, <2>1
<1>5. CASE j < i
  <2>1. <<i, j>> \in WaitsIn(lockTable[k], t)
    BY <1>1, <1>2, <1>5 DEF WaitsIn, Conflict
  <2> QED
    BY <1>3, <2>1
<1> QED
  BY <1>2, <1>4, <1>5

LEMMA HasAllAsks ==
  ASSUME BaseInv, NEW t \in Txns, HasAll(t), NEW k \in Accesses(t)
  PROVE  k \in Keys /\ Asks(t, k) /\ (manager = "A" => HasRead(t, k) \/ HasWrite(t, k))
<1>1. k \in Keys
  BY Basics DEF Accesses, BaseInv
<1>2. HasRead(t, k) \/ HasWrite(t, k)
  BY DEF HasAll, Accesses
<1>3. Asks(t, k)
  BY <1>2 DEF HasRead, HasWrite, Asks
<1> QED
  BY <1>1, <1>2, <1>3

LEMMA ExecutingDoNotConflict ==
  ASSUME BaseInv, NEW t \in Txns, NEW u \in Txns, t # u, Exec(t), Exec(u)
  PROVE  /\ writeset[t] \cap Accesses(u) = {}
         /\ manager = "A" => Accesses(t) \cap Accesses(u) = {}
<1>1. ~Waiting(t) /\ HasAll(t) /\ ~Waiting(u) /\ HasAll(u)
  BY DEF BaseInv, LockInv, Granted
<1>2. ASSUME NEW k \in writeset[t], k \in Accesses(u) PROVE FALSE
  <2>1. k \in Keys /\ Asks(u, k)
    BY <1>1, <1>2, HasAllAsks
  <2>2. HasWrite(t, k)
    BY <1>1 DEF HasAll
  <2> QED
    BY <1>1, <2>1, <2>2, GrantedDoNotConflict
<1>3. ASSUME NEW k \in Accesses(t), k \in Accesses(u), manager = "A" PROVE FALSE
  <2>1. k \in Keys /\ Asks(u, k) /\ Asks(t, k) /\ (HasRead(t, k) \/ HasWrite(t, k))
    BY <1>1, <1>3, HasAllAsks
  <2> QED
    BY <1>1, <1>3, <2>1, GrantedDoNotConflict
<1> QED
  BY <1>2, <1>3

\* Two transactions that execute at the same time do not conflict.
THEOREM ConflictsAreExcluded == Spec => []ConflictsExcluded
<1>1. BaseInv => ConflictsExcluded
  BY ExecutingDoNotConflict, ExecIsExecuting DEF ConflictsExcluded
<1> QED
  BY <1>1, LockingInvariant, PTL

-----------------------------------------------------------------------------
(* The inductive invariant: how far a transaction is, and what it has read. *)

\* t has not been run yet.
Pending(t) ==
    \/ ~Popped(t) \/ At(t, {"lockReads", "lockWrites"})
    \/ Waiting(t) \/ Ready(t) \/ Pooled(t)

StatusOK ==
    \A t \in Txns :
        /\ Pending(t) => status[t] = "INCOMPLETE"
        /\ Done(t) \/ At(t, {"decide", "apply"}) <=> status[t] \in {"COMPLETED_C", "COMPLETED_A"}
        /\ At(t, {"apply"}) => status[t] = "COMPLETED_C"
        /\ At(t, {"unlock", "unlockReads", "unlockWrites", "result"}) => Decided(t)
        /\ status[t] = "COMPLETED_A" => t \in MayAbort

\* What t has read is what the storage holds, and it has read R.
Saw(t, R) == \A k \in Keys : reads[t][k] = IF k \in R THEN storage[k] ELSE Unread

\* The keys the two read loops of worker w have visited.
ToVisit(t, w) == IF pc[w] = "readset" THEN readset[t] ELSE writeset[t]
Visited(t, w) == IF pc[w] = "readset" THEN readset[t] \ todo[w]
                                      ELSE readset[t] \cup (writeset[t] \ todo[w])

ReadsOK ==
    \A t \in Txns :
        /\ status[t] = "INCOMPLETE" /\ (\A w \in Workers : ~Running(t, w)) => Saw(t, {})
        /\ \A w \in Workers :
             Running(t, w) => todo[w] \subseteq ToVisit(t, w) /\ Saw(t, Visited(t, w))
        /\ Done(t) \/ At(t, {"decide"}) => Saw(t, Accesses(t))

DataInv == StatusOK /\ ReadsOK

\* A step of the scheduler, or of the client, that touches no data.
Plain ==
    /\ UNCHANGED <<status, reads, storage, completedTxns>>
    /\ \A w \in Workers : pc'[w] = pc[w] /\ cur'[w] = cur[w] /\ todo'[w] = todo[w]
    /\ \/ /\ pc'[Main] = pc[Main] /\ cur'[Main] = cur[Main]
          /\ pc[Main] = "apply" => todo'[Main] = todo[Main]
       \/ /\ pc[Main] \notin {"decide", "apply"}
          /\ pc'[Main] \notin {"decide", "apply", "unlock"}
          /\ \/ pc[Main] \in {"unlock", "unlockReads", "unlockWrites"} /\ cur'[Main] = cur[Main]
             \/ pc'[Main] \notin {"unlockReads", "unlockWrites", "result"}

WorkerStep(w) == PopTask(w) \/ ReadRecord(w) \/ EndReadset(w) \/ Run(w, "idle")

LEMMA StepKinds ==
  ASSUME BaseInv, [Next]_vars
  PROVE  \/ Plain
         \/ PopCompleted
         \/ Decide
         \/ \E w \in Workers : WorkerStep(w)
<1> USE DEF BaseInv
<1>1. CASE (\E t \in Txns : Submit(t)) \/ TakeResult \/ Stop \/ UNCHANGED vars
  BY <1>1 DEF Submit, NewTxnRequest, TakeResult, GetTxnResult, Stop, vars, Plain,
              coreVars, clientVars, dataVars, threadVars
<1>2. CASE \E w \in Workers : Worker(w)
  BY <1>2 DEF Worker, Execute, WorkerStep
<1>3. CASE PopRequest \/ NoRequest \/ EndLockReads \/ EndLockWrites \/ NoCompleted
  <2>1. /\ UNCHANGED <<status, reads, storage, completedTxns>>
        /\ \A w \in Workers : pc'[w] = pc[w] /\ cur'[w] = cur[w] /\ todo'[w] = todo[w]
        /\ pc[Main] \in {"top", "lockReads", "lockWrites", "idle"}
        /\ pc'[Main] \in {"lockReads", "idle", "lockWrites", "dispatch"}
    BY <1>3, Basics
       DEF PopRequest, NoRequest, EndLockReads, EndLockWrites, NoCompleted, Goto, dataVars
  <2> QED
    BY <2>1 DEF Plain
<1>4. CASE LockKey \/ UnlockKey
  <2>1. /\ UNCHANGED <<status, reads, storage, completedTxns, pc, cur>>
        /\ \A w \in Workers : todo'[w] = todo[w]
        /\ pc[Main] # "apply"
    BY <1>4, Basics DEF LockKey, UnlockKey, dataVars
  <2> QED
    BY <2>1 DEF Plain
<1>5. CASE StartUnlock \/ EndUnlockReads \/ EndUnlockWrites \/ ReturnResult \/ EndRound
  <2>1. /\ UNCHANGED <<status, reads, storage, completedTxns>>
        /\ \A w \in Workers : pc'[w] = pc[w] /\ cur'[w] = cur[w] /\ todo'[w] = todo[w]
        /\ pc[Main] \in {"unlock", "unlockReads", "unlockWrites", "result", "dispatch"}
        /\ \/ pc[Main] \in {"unlock", "unlockReads", "unlockWrites"} /\ cur'[Main] = cur[Main]
              /\ pc'[Main] \in {"unlockReads", "unlockWrites", "result"}
           \/ pc'[Main] \in {"idle", "top", "exited"}
    BY <1>5, Basics
       DEF StartUnlock, EndUnlockReads, EndUnlockWrites, ReturnResult, PushResult, EndRound, Goto, dataVars
  <2> QED
    BY <2>1 DEF Plain
<1>6. CASE Dispatch
  BY <1>6 DEF Dispatch, Plain, coreVars, dataVars, threadVars
<1> QED
  BY <1>1, <1>2, <1>3, <1>4, <1>5, <1>6 DEF Next, Scheduler

\* No transaction becomes pending again.
LEMMA PendingShrinks ==
  ASSUME BaseInv, [Next]_vars, NEW t \in Txns, Pending(t)'
  PROVE  Pending(t)
<1> USE DEF BaseInv
<1>1. CASE QuietStep \/ UNCHANGED vars
  <2>1. Quiet /\ QuietMove /\ Arrivals
    <3>1. CASE UNCHANGED vars
      BY <3>1, ArrivalsSame DEF vars, Quiet, QuietMove, Stays, coreVars, clientVars, dataVars,
                                threadVars, localVars, lockVars, Moves
    <3> QED
      BY <1>1, <3>1, QuietSteps
  <2>2. /\ Ready(t)' <=> Ready(t)
        /\ Pooled(t)' <=> Pooled(t)
        /\ Waiting(t)' <=> Waiting(t)
        /\ ~Popped(t)' => ~Popped(t)
    BY <2>1, QuietSame DEF PlaceInv, Arrivals
  <2>3. ASSUME At(t, {"lockReads", "lockWrites"})' PROVE ~Popped(t) \/ At(t, {"lockReads", "lockWrites"})
    BY <2>1, <2>3 DEF Arrivals, QuietMove, Stays, Moves, At
  <2> QED
    BY <2>2, <2>3 DEF Pending
<1>2. CASE EndLockWrites
  <2>1. Ready(t)' => Ready(t) \/ At(t, {"lockReads", "lockWrites"})
    <3>1. /\ pc[Main] = "lockWrites"
          /\ readyTxns' = readyTxns \/ readyTxns' = Append(readyTxns, cur[Main])
      BY <1>2 DEF EndLockWrites, PushUnlessBlocked
    <3>2. Elements(Append(readyTxns, cur[Main])) = Elements(readyTxns) \cup {cur[Main]}
      BY <3>1, Basics, ElementsAppend
    <3> QED
      BY <3>1, <3>2 DEF Ready, At
  <2>2. UNCHANGED <<lockTable, txnRequests, uniqueId, tasks>>
        /\ \A w \in Workers : pc'[w] = pc[w] /\ cur'[w] = cur[w]
    BY <1>2, Basics DEF EndLockWrites, Goto, clientSide, clientVars, localVars
  <2>3. ~At(t, {"lockReads", "lockWrites"})'
    BY <1>2, Basics DEF EndLockWrites, Goto, At
  <2>4. (Waiting(t)' <=> Waiting(t)) /\ (Popped(t)' <=> Popped(t)) /\ (Pooled(t)' <=> Pooled(t))
    BY <2>2 DEF Waiting, Waits, Popped, Pooled, Tasked, Running
  <2> QED
    BY <2>1, <2>3, <2>4 DEF Pending
<1>3. CASE LockKey
  <2>1. PICK k \in Keys, granted \in BOOLEAN, m \in {"SHARED", "EXCLUSIVE"} : Lock(cur[Main], k, m, granted)
    BY <1>3 DEF LockKey, ReadLock, WriteLock
  <2>2. /\ UNCHANGED <<txnRequests, uniqueId, tasks, pc, cur>>
        /\ pc[Main] \in {"lockReads", "lockWrites"} /\ cur[Main] \in Txns
    BY <1>3, Basics DEF LockKey, clientSide, clientVars
  <2>3. Granting(cur[Main], k, m, granted)
    BY <2>1, <2>2, LockEffect DEF PlaceInv
  <2>4. readyTxns' = readyTxns /\ (t # cur[Main] => (Waiting(t)' <=> Waiting(t)))
    BY <2>3 DEF Granting, Waiting
  <2>5. /\ Popped(t)' <=> Popped(t)
        /\ Pooled(t)' <=> Pooled(t)
        /\ Ready(t)' <=> Ready(t)
        /\ t = cur[Main] => At(t, {"lockReads", "lockWrites"})
        /\ At(t, {"lockReads", "lockWrites"})' <=> At(t, {"lockReads", "lockWrites"})
    BY <2>2, <2>4 DEF Popped, Pooled, Tasked, Running, Ready, At
  <2> QED
    BY <2>4, <2>5 DEF Pending
<1>4. CASE UnlockKey
  <2>1. PICK k \in Keys : Release(cur[Main], k)
    BY <1>4 DEF UnlockKey
  <2>2. /\ UNCHANGED <<txnRequests, uniqueId, tasks, pc, cur>>
        /\ pc[Main] \in {"unlockReads", "unlockWrites"} /\ cur[Main] \in Txns
    BY <1>4, Basics DEF UnlockKey, clientSide, clientVars, localVars
  <2>3. /\ Popped(t)' <=> Popped(t)
        /\ Pooled(t)' <=> Pooled(t)
        /\ At(t, {"lockReads", "lockWrites"})' <=> At(t, {"lockReads", "lockWrites"})
    BY <2>2 DEF Popped, Pooled, Tasked, Running, At
  <2>4. (Waiting(t)' => Waiting(t)) /\ (Ready(t)' => Ready(t) \/ Waiting(t))
    <3>1. CASE UNCHANGED lockVars
      BY <3>1 DEF lockVars, Waiting, Waits, Ready
    <3>2. CASE \E i \in RequestsOf(lockTable[k], cur[Main]) : ReleaseAt(cur[Main], k, i)
      <4>1. PICK i \in RequestsOf(lockTable[k], cur[Main]) : ReleaseAt(cur[Main], k, i)
        BY <3>2
      <4>2. ~Waiting(cur[Main])
        BY <2>2 DEF LockInv, ReleasingOK, At
      <4>3. PICK r : Freeing(cur[Main], k, i, r)
        BY <2>2, <4>1, <4>2, ReleaseEffect DEF LockInv, PlaceInv
      <4>4. /\ r \in Seq(Txns) /\ readyTxns' = readyTxns \o r
            /\ t \in Elements(r) => Waiting(t)
            /\ Waiting(t)' => Waiting(t)
        BY <4>3 DEF Freeing
      <4>5. Elements(readyTxns \o r) = Elements(readyTxns) \cup Elements(r)
        BY <4>4, Basics, ElementsConcat
      <4> QED
        BY <4>4, <4>5 DEF Ready
    <3> QED
      BY <2>1, <3>1, <3>2 DEF Release
  <2> QED
    BY <2>3, <2>4 DEF Pending
<1>5. CASE PopCompleted
  <2>1. /\ UNCHANGED <<lockTable, txnRequests, uniqueId, tasks, readyTxns>>
        /\ \A w \in Workers : pc'[w] = pc[w] /\ cur'[w] = cur[w]
        /\ pc'[Main] = "decide"
    BY <1>5, Basics DEF PopCompleted, Goto, clientSide, clientVars, localVars, lockVars
  <2> QED
    BY <2>1 DEF Pending, Waiting, Waits, Popped, Ready, Pooled, Tasked, Running, At
<1>6. CASE Dispatch
  <2>1. PICK v \in Workers : tasks' = [tasks EXCEPT ![v] = Append(@, Head(readyTxns))]
    BY <1>6 DEF Dispatch
  <2>2. /\ readyTxns # <<>> /\ readyTxns' = Tail(readyTxns)
        /\ UNCHANGED <<lockTable, txnRequests, uniqueId, pc, cur>>
    BY <1>6 DEF Dispatch, coreVars, clientVars, threadVars
  <2>3. Head(readyTxns) \in Txns /\ Elements(readyTxns) = {Head(readyTxns)} \cup Elements(readyTxns')
    BY <2>2, Basics, ElementsTail
  <2>4. \A w \in Workers : Tasked(t, w)' => Tasked(t, w) \/ t = Head(readyTxns)
    <3>1. Elements(Append(tasks[v], Head(readyTxns))) = Elements(tasks[v]) \cup {Head(readyTxns)}
      BY <2>3, Basics, ElementsAppend
    <3> QED
      BY <2>1, <3>1, Basics DEF Tasked
  <2> QED
    BY <2>2, <2>3, <2>4 DEF Pending, Waiting, Waits, Popped, Ready, Pooled, Running, At
<1>7. CASE \E w \in Workers : PopTask(w) \/ (Run(w, "idle") /\ UNCHANGED <<clientSide, lockVars, localVars>>)
  <2>1. PICK v \in Workers : PopTask(v) \/ (Run(v, "idle") /\ UNCHANGED <<clientSide, lockVars, localVars>>)
    BY <1>7
  <2>2. /\ UNCHANGED <<lockTable, txnRequests, uniqueId, readyTxns>>
        /\ pc'[Main] = pc[Main] /\ cur'[Main] = cur[Main]
    BY <2>1, Basics DEF PopTask, Run, StartExecute, Goto, clientSide, clientVars, lockVars
  <2>3. Pooled(t)' => Pooled(t)
    <3>1. CASE PopTask(v)
      <4>1. /\ tasks[v] # <<>> /\ tasks'[v] = Tail(tasks[v]) /\ cur'[v] = Head(tasks[v])
            /\ \A w \in Workers : w # v => tasks'[w] = tasks[w] /\ pc'[w] = pc[w] /\ cur'[w] = cur[w]
        BY <3>1, Basics DEF PopTask, StartExecute, Goto
      <4>2. Elements(tasks[v]) = {Head(tasks[v])} \cup Elements(Tail(tasks[v]))
        BY <4>1, Basics, ElementsTail
      <4> QED
        BY <4>1, <4>2 DEF Pooled, Tasked, Running
    <3>2. CASE Run(v, "idle") /\ UNCHANGED <<clientSide, lockVars, localVars>>
      <4>1. /\ UNCHANGED <<tasks, cur>> /\ pc'[v] = "idle"
            /\ \A w \in Workers : w # v => pc'[w] = pc[w]
        BY <3>2, Basics DEF Run, Goto, localVars
      <4> QED
        BY <4>1 DEF Pooled, Tasked, Running
    <3> QED
      BY <2>1, <3>1, <3>2
  <2> QED
    BY <2>2, <2>3 DEF Pending, Waiting, Waits, Popped, Ready, At
<1>8. ASSUME NEW w \in Workers, Execute(w)
      PROVE  \/ QuietStep
             \/ Run(w, "idle") /\ UNCHANGED <<clientSide, lockVars, localVars>>
  BY <1>8 DEF Execute, QuietStep
<1>9. ASSUME Scheduler
      PROVE  QuietStep \/ EndLockWrites \/ LockKey \/ UnlockKey \/ PopCompleted \/ Dispatch
  BY <1>9 DEF Scheduler, QuietStep
<1>10. CASE Next
  BY <1>1, <1>2, <1>3, <1>4, <1>5, <1>6, <1>7, <1>8, <1>9, <1>10 DEF Next, Worker, QuietStep
<1> QED
  BY <1>1, <1>10

\* What has been run is not pending.
LEMMA PastIsNotPending ==
  ASSUME BaseInv, NEW t \in Txns,
         Done(t) \/ At(t, {"decide", "apply", "unlock", "unlockReads", "unlockWrites", "result"})
  PROVE  ~Pending(t)
<1> USE DEF BaseInv, PlaceInv, LockInv
<1>1. Popped(t) /\ ~At(t, {"lockReads", "lockWrites"}) /\ ~Ready(t) /\ ~Pooled(t)
  BY DEF ArrivalsOK, OneStage, Started, At
<1>2. ~Waiting(t)
  BY DEF Granted, ReleasingOK, Exec, Started, At
<1> QED
  BY <1>1, <1>2 DEF Pending

LEMMA StatusKept ==
  ASSUME BaseInv, StatusOK, [Next]_vars
  PROVE  StatusOK'
<1> USE DEF BaseInv, Decided
<1>0. status \in [Txns -> TxnStatus]
  BY DEF PlaceInv, TypeOK, CoreTypeOK, DataTypeOK
<1>1. CASE Plain
  BY <1>1, PendingShrinks DEF Plain, StatusOK, Done, At
<1>2. CASE PopCompleted
  <2>1. /\ status' = status /\ pc'[Main] = "decide" /\ cur'[Main] = Head(completedTxns)
        /\ pc[Main] = "idle"
        /\ completedTxns # <<>> /\ completedTxns' = Tail(completedTxns)
    BY <1>2, Basics DEF PopCompleted, Goto
  <2>2. Elements(completedTxns) = {Head(completedTxns)} \cup Elements(completedTxns')
    BY <2>1, Basics, ElementsTail
  <2> QED
    BY <2>1, <2>2, PendingShrinks DEF StatusOK, Done, At
<1>3. CASE StartApply(Main) \/ ApplyWrite(Main)
  <2>1. /\ UNCHANGED <<status, completedTxns, cur>>
        /\ (pc'[Main] = "apply" /\ status[cur[Main]] = "COMPLETED_C") \/ pc'[Main] = pc[Main]
    BY <1>3, Basics DEF StartApply, ApplyWrite, Goto, dataVars
  <2> QED
    BY <2>1, PendingShrinks DEF StatusOK, Done, At
<1>4. CASE Commit(Main, "unlock") \/ Abort(Main, "unlock")
  <2>1. PICK c : c = cur[Main]
    OBVIOUS
  <2>2. c \in Txns
    BY <1>4, <2>1, Basics DEF Commit, Abort
  <2>3. /\ UNCHANGED <<completedTxns, cur>> /\ pc'[Main] = "unlock"
        /\ status'[c] \in {"COMMITTED", "ABORTED"}
        /\ \A t \in Txns : t # c => status'[t] = status[t]
        /\ pc[Main] \in {"apply", "decide"}
    BY <1>4, <1>0, <2>1, <2>2, Basics DEF Commit, Abort, Goto
  <2>4. ~Pending(c) /\ ~Done(c)
    <3>1. ~Done(c)
      BY <2>1, <2>2 DEF PlaceInv, OneStage, Started
    <3> QED
      BY <2>1, <2>2, <2>3, <3>1, PastIsNotPending DEF At
  <2>5. \A t \in Txns : (Done(t)' <=> Done(t)) /\ (t # c => ~At(t, SchedulerLocations)')
    BY <2>1, <2>3 DEF Done, At
  <2> QED
    BY <2>1, <2>2, <2>3, <2>4, <2>5, PendingShrinks DEF StatusOK, At
<1>5. CASE \E w \in Workers : PopTask(w) \/ ReadRecord(w) \/ EndReadset(w)
  <2>1. UNCHANGED <<status, completedTxns>> /\ pc'[Main] = pc[Main] /\ cur'[Main] = cur[Main]
    BY <1>5, Basics DEF PopTask, ReadRecord, EndReadset, StartExecute, Goto, dataVars
  <2> QED
    BY <2>1, PendingShrinks DEF StatusOK, Done, At
<1>6. CASE \E w \in Workers : Run(w, "idle")
  <2>1. PICK v \in Workers : Run(v, "idle")
    BY <1>6
  <2>2. PICK h : h = cur[v]
    OBVIOUS
  <2>3. h \in Txns
    BY <2>1, <2>2 DEF Run, PlaceInv, ThreadsOK
  <2>4. /\ \A t \in Txns : t # h => status'[t] = status[t]
        /\ status'[h] = "COMPLETED_C" \/ (status'[h] = "COMPLETED_A" /\ h \in MayAbort)
        /\ completedTxns' = Append(completedTxns, h)
        /\ pc'[Main] = pc[Main] /\ cur'[Main] = cur[Main]
    BY <1>0, <2>1, <2>2, <2>3, Basics DEF Run, Goto
  <2>5. Elements(completedTxns') = Elements(completedTxns) \cup {h}
    BY <2>3, <2>4, Basics, ElementsAppend
  <2>6. ~Pending(h)'
    <3>1. BaseInv' /\ Done(h)'
      BY <2>5, BaseKept DEF Done
    <3> QED
      <4>1. Popped(h)' /\ ~At(h, {"lockReads", "lockWrites"})' /\ ~Ready(h)' /\ ~Pooled(h)'
        BY <2>3, <3>1 DEF PlaceInv, ArrivalsOK, OneStage, Started, At
      <4>2. ~Waiting(h)'
        BY <2>3, <3>1 DEF LockInv, Granted, Exec, Started
      <4> QED
        BY <4>1, <4>2 DEF Pending
  <2>7. cur[Main] # h
    BY <2>1, <2>2, <2>3 DEF PlaceInv, OneStage, Started, Pooled, Running, Run
  <2> QED
    BY <2>3, <2>4, <2>5, <2>6, <2>7, PendingShrinks DEF StatusOK, Done, At
<1> QED
  BY <1>1, <1>2, <1>3, <1>4, <1>5, <1>6, StepKinds DEF Decide, WorkerStep

LEMMA ReadsKept ==
  ASSUME BaseInv, DataInv, [Next]_vars
  PROVE  ReadsOK'
<1> USE DEF BaseInv, DataInv
<1>0. /\ status \in [Txns -> TxnStatus] /\ storage \in [Keys -> Values]
      /\ reads \in [Txns -> [Keys -> Values \cup {Unread}]]
  BY DEF PlaceInv, TypeOK, CoreTypeOK, DataTypeOK
<1>1. CASE Plain
  BY <1>1 DEF Plain, ReadsOK, Saw, Running, ToVisit, Visited, Done, At
<1>2. CASE PopCompleted
  <2>1. /\ UNCHANGED <<status, reads, storage, todo>>
        /\ pc'[Main] = "decide" /\ cur'[Main] = Head(completedTxns)
        /\ \A w \in Workers : pc'[w] = pc[w] /\ cur'[w] = cur[w]
        /\ completedTxns # <<>> /\ completedTxns' = Tail(completedTxns)
    BY <1>2, Basics DEF PopCompleted, Goto
  <2>2. Elements(completedTxns) = {Head(completedTxns)} \cup Elements(completedTxns')
    BY <2>1, Basics, ElementsTail
  <2> QED
    BY <2>1, <2>2 DEF ReadsOK, Saw, Running, ToVisit, Visited, Done, At
<1>3. CASE StartApply(Main) \/ Abort(Main, "unlock") \/ Commit(Main, "unlock")
  <2>1. /\ UNCHANGED <<reads, storage, completedTxns, cur>>
        /\ \A t \in Txns : status'[t] = "INCOMPLETE" => status[t] = "INCOMPLETE"
        /\ pc'[Main] # "decide"
        /\ \A w \in Workers : pc'[w] = pc[w] /\ todo'[w] = todo[w]
    BY <1>0, <1>3, Basics DEF StartApply, Commit, Abort, Goto, dataVars
  <2> QED
    BY <2>1 DEF ReadsOK, Saw, Running, ToVisit, Visited, Done, At
<1>4. CASE ApplyWrite(Main)
  <2>1. PICK c : c = cur[Main]
    OBVIOUS
  <2>2. PICK k \in Keys : /\ k \in todo[Main]
                          /\ storage' = [storage EXCEPT ![k] = c]
                          /\ todo' = [todo EXCEPT ![Main] = todo[Main] \ {k}]
    BY <1>4, <2>1 DEF ApplyWrite, NextKey
  <2>3. /\ UNCHANGED <<status, reads, completedTxns, pc, cur>> /\ pc[Main] = "apply"
        /\ \A w \in Workers : todo'[w] = todo[w]
    BY <1>4, <2>2, Basics DEF ApplyWrite
  <2>4. c \in Txns /\ Exec(c) /\ k \in writeset[c]
    BY <2>1, <2>2, <2>3, Basics DEF Exec, At, PlaceInv, ThreadsOK
  <2>5. ASSUME NEW t \in Txns, t # c, Exec(t) PROVE k \notin Accesses(t)
    BY <2>4, <2>5, ExecutingDoNotConflict
  <2>6. ASSUME NEW t \in Txns, NEW R, k \notin R, Saw(t, R) PROVE Saw(t, R)'
    BY <1>0, <2>2, <2>3, <2>6 DEF Saw
  <2>7. ASSUME NEW t \in Txns, NEW w \in Workers, Running(t, w)' PROVE (todo[w] \subseteq ToVisit(t, w) /\ Saw(t, Visited(t, w)))'
    <3>1. Running(t, w) /\ t # c /\ Exec(t)
      BY <2>1, <2>3, <2>4, <2>7 DEF Running, Exec, Started, Pooled, PlaceInv, OneStage
    <3>2. todo[w] \subseteq ToVisit(t, w) /\ Saw(t, Visited(t, w))
      BY <3>1 DEF ReadsOK
    <3>3. k \notin Visited(t, w)
      BY <2>5, <3>1 DEF Visited, Accesses
    <3>4. Saw(t, Visited(t, w))'
      <4>1. PICK R : R = Visited(t, w)
        OBVIOUS
      <4>2. Visited(t, w)' = R
        BY <2>3, <4>1 DEF Visited
      <4> QED
        BY <2>6, <3>2, <3>3, <4>1, <4>2 DEF Saw
    <3> QED
      BY <2>3, <3>2, <3>4 DEF ToVisit
  <2>8. ASSUME NEW t \in Txns, Done(t)' PROVE Saw(t, Accesses(t))'
    <3>1. Done(t) /\ t # c /\ Exec(t)
      BY <2>1, <2>3, <2>4, <2>8 DEF Done, Exec, Started, PlaceInv, OneStage
    <3> QED
      BY <2>5, <2>6, <3>1 DEF ReadsOK, Accesses
  <2>9. ASSUME NEW t \in Txns, status[t] = "INCOMPLETE", \A w \in Workers : ~Running(t, w) PROVE Saw(t, {})'
    BY <2>6, <2>9 DEF ReadsOK
  <2>10. \A t \in Txns, w \in Workers : Running(t, w)' <=> Running(t, w)
    BY <2>3 DEF Running
  <2> QED
    BY <2>3, <2>7, <2>8, <2>9, <2>10 DEF ReadsOK, At
<1>5. CASE \E w \in Workers : WorkerStep(w)
  <2>1. PICK v \in Workers : WorkerStep(v)
    BY <1>5
  <2>2. /\ storage' = storage /\ pc'[Main] = pc[Main] /\ cur'[Main] = cur[Main]
        /\ \A w \in Workers : w # v => pc'[w] = pc[w] /\ cur'[w] = cur[w] /\ todo'[w] = todo[w]
    BY <2>1, Basics DEF WorkerStep, PopTask, ReadRecord, EndReadset, Run, StartExecute, Goto, dataVars
  <2>3. ASSUME NEW h \in Txns, Running(h, v)' \/ Running(h, v),
               \A t \in Txns : t # h =>
                  /\ reads'[t] = reads[t] /\ status'[t] = status[t]
                  /\ (Done(t)' <=> Done(t)) /\ (Running(t, v)' <=> Running(t, v)),
               /\ status'[h] = "INCOMPLETE" => \E w \in Workers : Running(h, w)'
               /\ Running(h, v)' => (todo[v] \subseteq ToVisit(h, v) /\ Saw(h, Visited(h, v)))'
               /\ Done(h)' => Saw(h, Accesses(h))',
               cur[Main] # h, \A w \in Workers : w # v => ~Running(h, w)
        PROVE  ReadsOK'
    <3>1. ASSUME NEW w \in Workers, w # v, NEW t \in Txns
          PROVE  /\ Running(t, w)' <=> Running(t, w)
                 /\ ToVisit(t, w)' = ToVisit(t, w) /\ Visited(t, w)' = Visited(t, w)
                 /\ todo'[w] = todo[w]
      BY <2>2, <3>1 DEF Running, ToVisit, Visited
    <3>2. ASSUME NEW t \in Txns, t # h
          PROVE  /\ \A R : Saw(t, R)' <=> Saw(t, R)
                 /\ ~Running(t, v)'
      <4>1. ~Running(t, v)'
        BY <2>3, <3>2 DEF Running
      <4> QED
        BY <2>2, <2>3, <3>2, <4>1 DEF Saw
    <3>3. ASSUME NEW t \in Txns, t # h, NEW w \in Workers, Running(t, w)'
          PROVE  (todo[w] \subseteq ToVisit(t, w) /\ Saw(t, Visited(t, w)))'
      <4>1. w # v /\ Running(t, w)
        BY <3>1, <3>2, <3>3
      <4>2. todo[w] \subseteq ToVisit(t, w) /\ Saw(t, Visited(t, w))
        BY <4>1 DEF ReadsOK
      <4>3. Visited(t, w)' = Visited(t, w) /\ ToVisit(t, w)' = ToVisit(t, w) /\ todo'[w] = todo[w]
        BY <3>1, <4>1
      <4>4. Saw(t, Visited(t, w))'
        BY <2>2, <2>3, <3>3, <4>2, <4>3 DEF Saw
      <4> QED
        BY <4>2, <4>3, <4>4
    <3>4. ASSUME NEW t \in Txns, t # h, status'[t] = "INCOMPLETE", \A w \in Workers : ~Running(t, w)'
          PROVE  Saw(t, {})'
      <4>1. status[t] = "INCOMPLETE" /\ \A w \in Workers : ~Running(t, w)
        BY <2>3, <3>1, <3>4
      <4> QED
        BY <2>2, <2>3, <3>4, <4>1 DEF ReadsOK, Saw
    <3>5. ASSUME NEW t \in Txns, t # h, (Done(t) \/ At(t, {"decide"}))' PROVE Saw(t, Accesses(t))'
      BY <2>2, <2>3, <3>5 DEF ReadsOK, Saw, At, Accesses
    <3>6. ~At(h, {"decide"})'
      BY <2>2, <2>3 DEF At
    <3>7. ASSUME NEW w \in Workers, Running(h, w)'
          PROVE  (todo[w] \subseteq ToVisit(h, w) /\ Saw(h, Visited(h, w)))'
      BY <2>3, <3>1, <3>7
    <3> QED
      BY <2>3, <3>3, <3>4, <3>5, <3>6, <3>7 DEF ReadsOK
  <2>4. CASE PopTask(v)
    <3>1. PICK h : h = Head(tasks[v])
      OBVIOUS
    <3>2. /\ tasks[v] # <<>> /\ UNCHANGED <<status, reads, completedTxns>> /\ pc[v] = "idle"
          /\ cur'[v] = h /\ pc'[v] = "readset" /\ todo'[v] = readset[h]
      BY <2>4, <3>1, Basics DEF PopTask, StartExecute, Goto, dataVars
    <3>3. h \in Txns /\ Tasked(h, v)
      BY <3>1, <3>2, Basics, ElementsTail DEF Tasked
    <3>4. cur[Main] # h /\ ~Done(h) /\ \A w \in Workers : ~Running(h, w)
      BY <3>3 DEF PlaceInv, OneStage, Started, Pooled
    <3>5. status[h] = "INCOMPLETE"
      BY <3>3 DEF StatusOK, Pending, Pooled
    <3>6. Saw(h, {})
      BY <3>3, <3>4, <3>5 DEF ReadsOK
    <3>7. Saw(h, Visited(h, v))' /\ todo'[v] \subseteq ToVisit(h, v)' /\ Running(h, v)'
      BY <2>2, <3>2, <3>6 DEF Saw, Visited, ToVisit, Running
    <3> QED
      BY <2>3, <3>2, <3>3, <3>4, <3>7 DEF Running, Done
  <2>5. ASSUME ~PopTask(v)
        PROVE  /\ cur[v] \in Txns /\ Running(cur[v], v) /\ ~Done(cur[v]) /\ cur[Main] # cur[v]
               /\ \A w \in Workers : w # v => ~Running(cur[v], w)
               /\ status[cur[v]] = "INCOMPLETE"
               /\ todo[v] \subseteq ToVisit(cur[v], v) /\ Saw(cur[v], Visited(cur[v], v))
               /\ cur' = cur
    <3>1. cur[v] \in Txns /\ Running(cur[v], v) /\ cur' = cur
      BY <2>1, <2>5 DEF WorkerStep, ReadRecord, EndReadset, Run, PlaceInv, ThreadsOK, Running
    <3>2. Pooled(cur[v]) /\ Started(cur[v])
      BY <3>1 DEF Pooled, Started
    <3> QED
      BY <3>1, <3>2 DEF PlaceInv, OneStage, ReadsOK, StatusOK, Pending
  <2>6. CASE ReadRecord(v)
    <3>1. ~PopTask(v)
      BY <2>6 DEF ReadRecord, PopTask
    <3>2. PICK h : h = cur[v]
      OBVIOUS
    <3>3. PICK k \in Keys : /\ k \in todo[v]
                            /\ reads' = [reads EXCEPT ![h][k] = storage[k]]
                            /\ todo' = [todo EXCEPT ![v] = todo[v] \ {k}]
      BY <2>6, <3>2 DEF ReadRecord, NextKey
    <3>4. UNCHANGED <<status, completedTxns, pc, cur>> /\ pc[v] \in {"readset", "writeset"}
      BY <2>6 DEF ReadRecord
    <3>5. /\ h \in Txns /\ Running(h, v) /\ ~Done(h) /\ cur[Main] # h
          /\ \A w \in Workers : w # v => ~Running(h, w)
          /\ todo[v] \subseteq ToVisit(h, v) /\ Saw(h, Visited(h, v))
      BY <2>5, <3>1, <3>2
    <3>6. todo'[v] = todo[v] \ {k} /\ reads'[h] = [reads[h] EXCEPT ![k] = storage[k]]
          /\ \A t \in Txns : t # h => reads'[t] = reads[t]
      BY <1>0, <3>3, <3>5, Basics
    <3>7. Visited(h, v)' = Visited(h, v) \cup {k} /\ todo'[v] \subseteq ToVisit(h, v)'
      BY <3>3, <3>4, <3>5, <3>6 DEF Visited, ToVisit
    <3>8. Saw(h, Visited(h, v))'
      <4>1. PICK R : R = Visited(h, v)
        OBVIOUS
      <4>2. \A j \in Keys : reads'[h][j] = IF j \in R \cup {k} THEN storage[j] ELSE Unread
        BY <1>0, <3>5, <3>6, <4>1 DEF Saw
      <4>3. Visited(h, v)' = R \cup {k}
        BY <3>7, <4>1
      <4> QED
        BY <2>2, <4>2, <4>3 DEF Saw
    <3>9. \A t \in Txns : Done(t)' <=> Done(t)
      BY <3>4 DEF Done
    <3>10. \A t \in Txns, w \in Workers : Running(t, w)' <=> Running(t, w)
      BY <3>4 DEF Running
    <3> QED
      BY <2>3, <3>4, <3>5, <3>6, <3>7, <3>8, <3>9, <3>10
  <2>7. CASE EndReadset(v)
    <3>1. ~PopTask(v)
      BY <2>7 DEF EndReadset, PopTask
    <3>2. PICK h : h = cur[v]
      OBVIOUS
    <3>3. /\ pc[v] = "readset" /\ todo[v] = {} /\ pc'[v] = "writeset" /\ todo'[v] = writeset[h]
          /\ UNCHANGED <<status, reads, completedTxns, cur>>
      BY <2>7, <3>2, Basics DEF EndReadset, Goto, dataVars
    <3>4. /\ h \in Txns /\ Running(h, v) /\ ~Done(h) /\ cur[Main] # h
          /\ \A w \in Workers : w # v => ~Running(h, w)
          /\ Saw(h, Visited(h, v))
      BY <2>5, <3>1, <3>2
    <3>5. Visited(h, v)' = Visited(h, v) /\ todo'[v] \subseteq ToVisit(h, v)' /\ Running(h, v)'
      BY <3>3, <3>4 DEF Visited, ToVisit, Running
    <3>6. Saw(h, Visited(h, v))'
      BY <2>2, <3>3, <3>4, <3>5 DEF Saw
    <3>7. \A t \in Txns : (Done(t)' <=> Done(t)) /\ (Running(t, v)' <=> Running(t, v))
      BY <3>3 DEF Done, Running
    <3> QED
      BY <2>3, <3>3, <3>4, <3>5, <3>6, <3>7
  <2>8. CASE Run(v, "idle")
    <3>1. ~PopTask(v)
      BY <2>8 DEF Run, PopTask
    <3>2. PICK h : h = cur[v]
      OBVIOUS
    <3>3. /\ h \in Txns /\ Running(h, v) /\ ~Done(h) /\ cur[Main] # h
          /\ \A w \in Workers : w # v => ~Running(h, w)
          /\ Saw(h, Visited(h, v))
      BY <2>5, <3>1, <3>2
    <3>4. /\ pc[v] = "writeset" /\ todo[v] = {} /\ pc'[v] = "idle"
          /\ status'[h] # "INCOMPLETE" /\ completedTxns' = Append(completedTxns, h)
          /\ UNCHANGED <<reads, cur, todo>>
          /\ \A t \in Txns : t # h => status'[t] = status[t]
      BY <1>0, <2>8, <3>2, <3>3, Basics DEF Run, Goto
    <3>5. Saw(h, Accesses(h))'
      <4>1. Visited(h, v) = Accesses(h)
        BY <3>4 DEF Visited, Accesses
      <4> QED
        BY <2>2, <3>3, <3>4, <4>1 DEF Saw, Accesses
    <3>6. Elements(completedTxns') = Elements(completedTxns) \cup {h}
      BY <3>3, <3>4, Basics, ElementsAppend
    <3>7. \A t \in Txns : t # h => (Done(t)' <=> Done(t)) /\ (Running(t, v)' <=> Running(t, v))
      BY <3>2, <3>4, <3>6 DEF Done, Running
    <3>8. ~Running(h, v)'
      BY <3>4 DEF Running
    <3> QED
      BY <2>3, <3>3, <3>4, <3>5, <3>7, <3>8
  <2> QED
    BY <2>1, <2>4, <2>6, <2>7, <2>8 DEF WorkerStep
<1> QED
  BY <1>1, <1>2, <1>3, <1>4, <1>5, StepKinds DEF Decide

LEMMA InitData == Init => DataInv
<1> SUFFICES ASSUME Init PROVE DataInv
  OBVIOUS
<1>1. /\ \A t \in Txns : status[t] = "INCOMPLETE" /\ \A k \in Keys : reads[t][k] = Unread
      /\ completedTxns = <<>>
      /\ \A w \in Threads : pc[w] = "idle" /\ cur[w] = NoTxn
  BY DEF Init, CoreInit
<1>2. \A t \in Txns : ~Done(t) /\ \A L : ~At(t, L)
  BY <1>1, ElementsEmpty, CoreAssumption, LockingAssumption DEF Done, At
<1>3. \A t \in Txns, w \in Workers : ~Running(t, w)
  BY <1>1 DEF Running, Workers
<1> QED
  BY <1>1, <1>2, <1>3 DEF DataInv, StatusOK, ReadsOK, Saw

LEMMA LockingDataInvariant == Spec => [](BaseInv /\ DataInv)
<1>1. Init => BaseInv /\ DataInv
  BY InitBase, InitData
<1>2. (BaseInv /\ DataInv) /\ [Next]_vars => (BaseInv /\ DataInv)'
  BY BaseKept, StatusKept, ReadsKept DEF DataInv
<1> QED
  BY <1>1, <1>2, PTL DEF Spec

-----------------------------------------------------------------------------
(* The refinement of SerialDB. *)

\* The abstract database's variables, as Abstract defines them.
Db       == [k \in Keys |-> IF pc[Main] = "apply" /\ k \in todo[Main] THEN cur[Main] ELSE storage[k]]
SeenBy(t) == IF HasRun(t) THEN reads[t] ELSE [k \in Keys |-> Unread]
Ended(t)  == IF ~HasRun(t) THEN "none" ELSE IF status[t] = "ABORTED" THEN "aborted" ELSE "committed"
Mapped   == <<Db, [t \in Txns |-> SeenBy(t)], [t \in Txns |-> Ended(t)]>>

\* What has run has not its hand in the records any more.
LEMMA HasRunIsPast ==
  ASSUME BaseInv, DataInv, NEW t \in Txns, HasRun(t)
  PROVE  /\ ~Pending(t) /\ ~Done(t) /\ ~At(t, {"decide"})
         /\ \A w \in Workers : ~Running(t, w)
<1> USE DEF BaseInv, DataInv
<1>1. CASE Applying(t)
  BY <1>1, PastIsNotPending DEF Applying, At, PlaceInv, OneStage, Started, Pooled
<1>2. CASE Decided(t)
  <2>1. ~Pending(t) /\ ~Done(t) /\ ~At(t, {"decide"})
    BY <1>2 DEF StatusOK, Decided, At
  <2> QED
    BY <2>1 DEF Pending, Pooled
<1> QED
  BY <1>1, <1>2 DEF HasRun

LEMMA RefinementStep ==
  ASSUME BaseInv, DataInv, [Next]_vars
  PROVE  [Abstract!Next]_Mapped
<1> USE DEF BaseInv, DataInv
<1>0. /\ status \in [Txns -> TxnStatus] /\ storage \in [Keys -> Values]
      /\ reads \in [Txns -> [Keys -> Values \cup {Unread}]]
      /\ cur[Main] \in Txns \cup {NoTxn}
  BY Basics DEF PlaceInv, TypeOK, CoreTypeOK, DataTypeOK
<1>1. ASSUME \A t \in Txns : (HasRun(t)' <=> HasRun(t)) /\ status'[t] = status[t],
             \A t \in Txns : HasRun(t) => reads'[t] = reads[t],
             Db' = Db
      PROVE  UNCHANGED Mapped
  <2>1. \A t \in Txns : SeenBy(t)' = SeenBy(t) /\ Ended(t)' = Ended(t)
    BY <1>1 DEF SeenBy, Ended
  <2> QED
    BY <1>1, <2>1 DEF Mapped
<1>2. CASE Plain
  <2>1. \A t \in Txns : (Applying(t)' <=> Applying(t)) /\ (Decided(t)' <=> Decided(t))
    BY <1>2 DEF Plain, Applying, Decided
  <2>2. Db' = Db
    BY <1>2 DEF Plain, Db
  <2> QED
    BY <1>1, <1>2, <2>1, <2>2 DEF Plain, HasRun
<1>3. CASE PopCompleted
  <2>1. UNCHANGED <<status, reads, storage>> /\ pc[Main] = "idle" /\ pc'[Main] = "decide"
    BY <1>3, Basics DEF PopCompleted, Goto
  <2>2. \A t \in Txns : (Applying(t)' <=> Applying(t)) /\ (Decided(t)' <=> Decided(t))
    BY <2>1 DEF Applying, Decided
  <2>3. Db' = Db
    BY <2>1 DEF Db
  <2> QED
    BY <1>1, <2>1, <2>2, <2>3 DEF HasRun
<1>4. CASE \E w \in Workers : WorkerStep(w)
  <2>1. PICK v \in Workers : WorkerStep(v)
    BY <1>4
  <2>2. storage' = storage /\ pc'[Main] = pc[Main] /\ cur'[Main] = cur[Main] /\ todo'[Main] = todo[Main]
    BY <2>1, Basics DEF WorkerStep, PopTask, ReadRecord, EndReadset, Run, StartExecute, Goto, dataVars
  <2>3. Db' = Db /\ \A t \in Txns : Applying(t)' <=> Applying(t)
    BY <2>2 DEF Db, Applying
  <2>4. ASSUME NEW t \in Txns, ~Running(t, v)
        PROVE  status'[t] = status[t] /\ reads'[t] = reads[t]
    <3>1. CASE PopTask(v) \/ EndReadset(v)
      BY <3>1 DEF PopTask, EndReadset, dataVars
    <3>2. CASE ReadRecord(v)
      BY <1>0, <2>4, <3>2 DEF ReadRecord, Running
    <3>3. CASE Run(v, "idle")
      BY <1>0, <2>4, <3>3 DEF Run, Running
    <3> QED
      BY <2>1, <3>1, <3>2, <3>3 DEF WorkerStep
  <2>5. ASSUME NEW t \in Txns, HasRun(t) PROVE status'[t] = status[t] /\ reads'[t] = reads[t]
    BY <2>4, <2>5, HasRunIsPast
  <2>6. ASSUME NEW t \in Txns, Running(t, v) PROVE ~HasRun(t) /\ ~HasRun(t)'
    <3>1. ~HasRun(t)
      BY <2>6, HasRunIsPast
    <3>2. ~Decided(t)'
      <4>1. CASE Run(v, "idle")
        BY <1>0, <2>6, <4>1 DEF Run, Running, Decided
      <4>2. CASE ~Run(v, "idle")
        BY <2>1, <3>1, <4>2 DEF WorkerStep, PopTask, ReadRecord, EndReadset, dataVars, HasRun, Decided
      <4> QED
        BY <4>1, <4>2
    <3> QED
      BY <2>3, <3>1, <3>2 DEF HasRun
  <2>7. ASSUME NEW t \in Txns PROVE HasRun(t)' <=> HasRun(t)
    BY <2>3, <2>4, <2>6 DEF HasRun, Decided
  <2>8. \A t \in Txns : SeenBy(t)' = SeenBy(t) /\ Ended(t)' = Ended(t)
    BY <2>5, <2>7 DEF SeenBy, Ended
  <2> QED
    BY <2>3, <2>8 DEF Mapped
<1>5. CASE ApplyWrite(Main)
  <2>1. PICK k \in Keys : /\ k \in todo[Main]
                          /\ storage' = [storage EXCEPT ![k] = cur[Main]]
                          /\ todo' = [todo EXCEPT ![Main] = todo[Main] \ {k}]
    BY <1>5 DEF ApplyWrite, NextKey
  <2>2. /\ UNCHANGED <<status, reads, pc, cur>> /\ pc[Main] = "apply" /\ todo'[Main] = todo[Main] \ {k}
    BY <1>5, <2>1, Basics DEF ApplyWrite
  <2>3. \A t \in Txns : (Applying(t)' <=> Applying(t)) /\ (Decided(t)' <=> Decided(t))
    BY <2>2 DEF Applying, Decided
  <2>4. Db' = Db
    BY <1>0, <2>1, <2>2 DEF Db
  <2> QED
    BY <1>1, <2>2, <2>3, <2>4 DEF HasRun
<1>6. CASE Commit(Main, "unlock")
  <2>1. PICK c : c = cur[Main]
    OBVIOUS
  <2>2. /\ pc[Main] = "apply" /\ todo[Main] = {} /\ pc'[Main] = "unlock" /\ c \in Txns
        /\ UNCHANGED <<reads, storage, cur, todo>>
        /\ status'[c] = "COMMITTED" /\ \A t \in Txns : t # c => status'[t] = status[t]
    BY <1>0, <1>6, <2>1, Basics DEF Commit, Goto
  <2>3. HasRun(c) /\ HasRun(c)' /\ Ended(c) = "committed" /\ Ended(c)' = "committed"
    BY <2>1, <2>2 DEF HasRun, Applying, Decided, Ended, StatusOK, At
  <2>4. \A t \in Txns : t # c => (HasRun(t)' <=> HasRun(t)) /\ Ended(t)' = Ended(t)
    BY <2>1, <2>2 DEF HasRun, Applying, Decided, Ended
  <2>5. Db' = Db
    BY <2>2 DEF Db
  <2>6. \A t \in Txns : SeenBy(t)' = SeenBy(t) /\ Ended(t)' = Ended(t)
    BY <2>2, <2>3, <2>4 DEF SeenBy
  <2> QED
    BY <2>5, <2>6 DEF Mapped
<1>7. CASE StartApply(Main) \/ Abort(Main, "unlock")
  <2>1. PICK c : c = cur[Main]
    OBVIOUS
  <2>2. /\ pc[Main] = "decide" /\ c \in Txns /\ UNCHANGED <<reads, storage, cur>>
        /\ \A t \in Txns : t # c => status'[t] = status[t]
    BY <1>0, <1>7, <2>1, Basics DEF StartApply, Abort, dataVars
  <2>3. At(c, {"decide"}) /\ Saw(c, Accesses(c))
    BY <2>1, <2>2 DEF At, ReadsOK
  <2>4. ~HasRun(c)
    BY <2>2, <2>3, HasRunIsPast
  <2>5. \A t \in Txns : t # c => (HasRun(t)' <=> HasRun(t)) /\ SeenBy(t)' = SeenBy(t) /\ Ended(t)' = Ended(t)
    BY <2>1, <2>2 DEF HasRun, Applying, Decided, Ended, SeenBy
  <2>6. HasRun(c)'
    <3>1. CASE StartApply(Main)
      BY <2>1, <2>2, <3>1, Basics DEF StartApply, Goto, HasRun, Applying
    <3>2. CASE Abort(Main, "unlock")
      BY <1>0, <2>1, <2>2, <3>2 DEF Abort, HasRun, Decided
    <3> QED
      BY <1>7, <3>1, <3>2
  <2>7. Db = [k \in Keys |-> storage[k]]
    BY <2>2 DEF Db
  <2>8. SeenBy(c)' = [k \in Keys |-> IF k \in readset[c] \cup writeset[c] THEN Db[k] ELSE Unread]
    <3>1. reads[c] = [k \in Keys |-> IF k \in Accesses(c) THEN storage[k] ELSE Unread]
      BY <1>0, <2>2, <2>3 DEF Saw
    <3> QED
      BY <2>2, <2>6, <2>7, <3>1 DEF SeenBy, Accesses
  <2> DEFINE seen == [t \in Txns |-> SeenBy(t)]
             outcome == [t \in Txns |-> Ended(t)]
  <2>9. /\ outcome[c] = "none"
        /\ seen' = [seen EXCEPT ![c] = [k \in Keys |-> IF k \in readset[c] \cup writeset[c] THEN Db[k] ELSE Unread]]
        /\ outcome' = [outcome EXCEPT ![c] = Ended(c)']
    BY <2>2, <2>4, <2>5, <2>8 DEF Ended
  <2>10. Abstract!Execute(c)
    BY <2>9 DEF Abstract!Execute, Db, SeenBy, Ended
  <2>11. CASE StartApply(Main)
    <3>1. /\ status' = status /\ status[c] = "COMPLETED_C" /\ pc'[Main] = "apply"
          /\ todo'[Main] = writeset[c]
      BY <2>1, <2>2, <2>11, Basics DEF StartApply, Goto, dataVars
    <3>2. Ended(c)' = "committed"
      BY <2>6, <3>1 DEF Ended
    <3>3. Db' = [k \in Keys |-> IF k \in writeset[c] THEN c ELSE Db[k]]
      BY <2>1, <2>2, <2>7, <3>1 DEF Db
    <3>4. Abstract!CommitTxn(c)
      BY <2>9, <2>10, <3>2, <3>3 DEF Abstract!CommitTxn, Db, Ended
    <3> QED
      BY <2>2, <3>4 DEF Abstract!Next
  <2>12. CASE Abort(Main, "unlock")
    <3>1. /\ status[c] = "COMPLETED_A" /\ status'[c] = "ABORTED" /\ pc'[Main] = "unlock"
      BY <1>0, <2>1, <2>2, <2>12, Basics DEF Abort, Goto
    <3>2. Ended(c)' = "aborted" /\ c \in MayAbort
      BY <2>2, <2>6, <3>1 DEF Ended, StatusOK
    <3>3. Db' = Db
      BY <2>2, <3>1 DEF Db
    <3>4. Abstract!AbortTxn(c)
      BY <2>9, <2>10, <3>2, <3>3 DEF Abstract!AbortTxn, Db, Ended
    <3> QED
      BY <2>2, <3>4 DEF Abstract!Next
  <2> QED
    BY <1>7, <2>11, <2>12
<1> QED
  BY <1>2, <1>3, <1>4, <1>5, <1>6, <1>7, StepKinds DEF Decide

\* Both locking modes are serializable: each transaction runs as if at one
\* moment, that of its first write or of the decision to abort it.
THEOREM LockingIsSerializable == Spec => ImplementsSerialDB
<1>1. Init => Abstract!Init
  <2>1. SUFFICES ASSUME Init PROVE Abstract!Init
    OBVIOUS
  <2>2. /\ pc[Main] = "idle" /\ storage = [k \in Keys |-> NoTxn]
        /\ \A t \in Txns : status[t] = "INCOMPLETE"
    BY <2>1, LockingAssumption DEF Init, CoreInit
  <2>3. \A t \in Txns : ~HasRun(t)
    BY <2>2 DEF HasRun, Applying, Decided
  <2> QED
    BY <2>2, <2>3 DEF Abstract!Init
<1>2. (BaseInv /\ DataInv) /\ [Next]_vars => [Abstract!Next]_(Abstract!vars)
  BY RefinementStep DEF Abstract!vars, Mapped, Db, SeenBy, Ended
<1> QED
  BY <1>1, <1>2, LockingDataInvariant, PTL DEF Spec, ImplementsSerialDB, Abstract!Spec

-----------------------------------------------------------------------------
(* The inductive invariant: the order of arrival. *)

Asked(t) == Popped(t) /\ ~At(t, {"lockReads", "lockWrites"})

\* Transactions arrive in the order of their ids, and the one whose locks are
\* asked for is the last to be popped.
IdsOK ==
    /\ \A t \in Txns : uniqueId[t] < nextUniqueId
    /\ \A t, u \in Txns : uniqueId[t] = uniqueId[u] /\ uniqueId[t] > 0 => t = u
    /\ Increasing(txnRequests, uniqueId)
    /\ \A t \in Txns : Popped(t) => \A u \in Elements(txnRequests) : uniqueId[t] < uniqueId[u]
    /\ \A t, u \in Txns : At(t, {"lockReads", "lockWrites"}) /\ Popped(u) => uniqueId[u] <= uniqueId[t]

\* So do their requests for each lock.
QueuesInOrder ==
    \A k \in Keys : \A i, j \in DOMAIN lockTable[k] :
        i < j => uniqueId[lockTable[k][i].txn] <= uniqueId[lockTable[k][j].txn]

\* Until it is decided, a transaction stays in the table.
Complete == \A t \in Txns : Asked(t) /\ ~Decided(t) => HasAll(t)

Clash(t, u) ==
    \E k \in Keys : \/ k \in writeset[t] /\ k \in Accesses(u)
                    \/ k \in writeset[u] /\ k \in Accesses(t)

EarlierDecided ==
    \A t, u \in Txns : Decided(t) /\ Earlier(u, t) /\ Clash(t, u) => Decided(u)

\* A record holds the last committed write, or one being applied.
StorageOK ==
    \A k \in Keys :
        /\ \A q \in Txns : status[q] = "COMMITTED" /\ k \in writeset[q]
             => storage[k] # NoTxn /\ uniqueId[q] <= uniqueId[storage[k]]
        /\ \A s \in Txns : storage[k] = s
             => /\ k \in writeset[s]
                /\ status[s] = "COMMITTED" \/ (At(s, {"apply"}) /\ k \notin todo[Main])
        /\ \A t \in Txns : At(t, {"apply"}) /\ k \in writeset[t] /\ k \notin todo[Main]
             => storage[k] = t

\* p is a committed writer of k that arrived before t, and v the last one of
\* them, or NoTxn.
CommittedBefore(p, t, k) == k \in writeset[p] /\ Earlier(p, t) /\ status[p] = "COMMITTED"
LastBefore(v, t, k) ==
    /\ v # NoTxn => v \in Txns /\ CommittedBefore(v, t, k)
    /\ \A p \in Txns : CommittedBefore(p, t, k) => v # NoTxn /\ uniqueId[p] <= uniqueId[v]

ReadsLast ==
    \A t \in Txns, k \in Keys :
        status[t] # "INCOMPLETE" /\ k \in Accesses(t) => LastBefore(reads[t][k], t, k)

OrderInv == IdsOK /\ QueuesInOrder /\ Complete /\ EarlierDecided /\ StorageOK /\ ReadsLast

\* A decision is final, and nothing is read after the vote.
LEMMA Decisions ==
  ASSUME BaseInv, DataInv, [Next]_vars, NEW t \in Txns
  PROVE  /\ Decided(t) => status'[t] = status[t]
         /\ Decided(t)' => Decided(t) \/ (cur[Main] = t /\ (Commit(Main, "unlock") \/ Abort(Main, "unlock")))
         /\ status'[t] = "COMMITTED" => status[t] = "COMMITTED" \/ (cur[Main] = t /\ Commit(Main, "unlock"))
         /\ status[t] # "INCOMPLETE" => status'[t] # "INCOMPLETE" /\ reads'[t] = reads[t]
         /\ status'[t] # "INCOMPLETE" =>
              status[t] # "INCOMPLETE" \/ \E w \in Workers : cur[w] = t /\ Run(w, "idle")
<1> USE DEF BaseInv, DataInv
<1>0. /\ status \in [Txns -> TxnStatus] /\ reads \in [Txns -> [Keys -> Values \cup {Unread}]]
      /\ cur[Main] \in Txns \cup {NoTxn}
  BY Basics DEF PlaceInv, TypeOK, CoreTypeOK, DataTypeOK
<1>1. CASE Plain \/ PopCompleted \/ StartApply(Main) \/ ApplyWrite(Main)
  <2>1. UNCHANGED <<status, reads>>
    BY <1>1 DEF Plain, PopCompleted, StartApply, ApplyWrite, dataVars
  <2> QED
    BY <2>1 DEF Decided
<1>2. CASE Commit(Main, "unlock") \/ Abort(Main, "unlock")
  <2>1. PICK c : c = cur[Main]
    OBVIOUS
  <2>2. /\ c \in Txns /\ reads' = reads /\ pc[Main] \in {"decide", "apply"}
        /\ \A u \in Txns : u # c => status'[u] = status[u]
        /\ status'[c] \in {"COMMITTED", "ABORTED"}
        /\ status'[c] = "COMMITTED" => Commit(Main, "unlock")
    BY <1>0, <1>2, <2>1, Basics DEF Commit, Abort
  <2>3. ~Decided(c) /\ status[c] # "INCOMPLETE"
    BY <2>1, <2>2 DEF StatusOK, At, Decided
  <2> QED
    BY <1>2, <2>1, <2>2, <2>3 DEF Decided
<1>3. CASE \E w \in Workers : PopTask(w) \/ EndReadset(w)
  <2>1. UNCHANGED <<status, reads>>
    BY <1>3 DEF PopTask, EndReadset, dataVars
  <2> QED
    BY <2>1 DEF Decided
<1>4. CASE \E w \in Workers : ReadRecord(w)
  <2>1. PICK w \in Workers : ReadRecord(w)
    BY <1>4
  <2>2. /\ status' = status /\ Running(cur[w], w) /\ cur[w] \in Txns
        /\ \A u \in Txns : u # cur[w] => reads'[u] = reads[u]
    BY <1>0, <2>1 DEF ReadRecord, Running, PlaceInv, ThreadsOK
  <2>3. status[cur[w]] = "INCOMPLETE"
    BY <2>2 DEF StatusOK, Pending, Pooled
  <2> QED
    BY <2>2, <2>3 DEF Decided
<1>5. CASE \E w \in Workers : Run(w, "idle")
  <2>1. PICK w \in Workers : Run(w, "idle")
    BY <1>5
  <2>2. /\ reads' = reads /\ Running(cur[w], w) /\ cur[w] \in Txns
        /\ \A u \in Txns : u # cur[w] => status'[u] = status[u]
        /\ status'[cur[w]] \in {"COMPLETED_C", "COMPLETED_A"}
    BY <1>0, <2>1 DEF Run, Running, PlaceInv, ThreadsOK
  <2>3. status[cur[w]] = "INCOMPLETE"
    BY <2>2 DEF StatusOK, Pending, Pooled
  <2> QED
    BY <2>1, <2>2, <2>3 DEF Decided
<1> QED
  BY <1>1, <1>2, <1>3, <1>4, <1>5, StepKinds DEF Decide, WorkerStep

\* Only Submit gives out ids, and only PopRequest begins to ask for locks.
LEMMA IdSteps ==
  ASSUME BaseInv, [Next]_vars
  PROVE  \/ \E t \in Txns : Submit(t)
         \/ PopRequest
         \/ /\ UNCHANGED <<nextUniqueId, uniqueId, txnRequests>>
            /\ \A t \in Txns : At(t, {"lockReads", "lockWrites"})' => At(t, {"lockReads", "lockWrites"})
<1> USE DEF BaseInv
<1> DEFINE Same == /\ UNCHANGED <<nextUniqueId, uniqueId, txnRequests>>
                   /\ \A t \in Txns : At(t, {"lockReads", "lockWrites"})' => At(t, {"lockReads", "lockWrites"})
<1>1. CASE TakeResult \/ Stop \/ UNCHANGED vars \/ Dispatch
  <2>1. UNCHANGED <<nextUniqueId, uniqueId, txnRequests, pc, cur>>
    BY <1>1 DEF TakeResult, GetTxnResult, Stop, Dispatch, vars, coreVars, clientVars, threadVars
  <2> QED
    BY <2>1 DEF At
<1>2. CASE \E w \in Workers : Worker(w)
  <2>1. UNCHANGED <<nextUniqueId, uniqueId, txnRequests>> /\ pc'[Main] = pc[Main] /\ cur'[Main] = cur[Main]
    BY <1>2, Basics DEF Worker, Execute, PopTask, ReadRecord, EndReadset, Run, StartExecute, Goto,
                        clientSide, clientVars
  <2> QED
    BY <2>1 DEF At
<1>3. CASE NoRequest \/ EndLockWrites \/ PopCompleted \/ NoCompleted \/ Decide
           \/ StartUnlock \/ EndUnlockReads \/ EndUnlockWrites \/ ReturnResult \/ EndRound
  <2>1. /\ UNCHANGED <<nextUniqueId, uniqueId, txnRequests>>
        /\ pc'[Main] \notin {"lockReads", "lockWrites"}
    BY <1>3, Basics
       DEF NoRequest, EndLockWrites, PopCompleted, NoCompleted, Decide, StartApply, ApplyWrite, Commit, Abort,
           StartUnlock, EndUnlockReads, EndUnlockWrites, ReturnResult, PushResult, EndRound, Goto,
           clientSide, clientVars
  <2> QED
    BY <2>1 DEF At
<1>4. CASE EndLockReads \/ LockKey \/ UnlockKey
  <2>1. /\ UNCHANGED <<nextUniqueId, uniqueId, txnRequests, cur>>
        /\ pc'[Main] = pc[Main] \/ pc[Main] = "lockReads"
    BY <1>4, Basics DEF EndLockReads, LockKey, UnlockKey, Goto, clientSide, clientVars
  <2> QED
    BY <2>1 DEF At
<1> QED
  BY <1>1, <1>2, <1>3, <1>4 DEF Next, Scheduler

\* An id, once given, is kept, and a new one is the largest.
LEMMA IdsStay ==
  ASSUME BaseInv, [Next]_vars, NEW t \in Txns
  PROVE  /\ uniqueId[t] > 0 => uniqueId'[t] = uniqueId[t]
         /\ uniqueId[t] = 0 => uniqueId'[t] \in {0, nextUniqueId}
         /\ Popped(t) => Popped(t)' /\ uniqueId'[t] = uniqueId[t]
         /\ uniqueId[t] \in Nat /\ uniqueId'[t] \in Nat /\ nextUniqueId \in Nat
<1> USE DEF BaseInv
<1>0. /\ uniqueId \in [Txns -> Nat] /\ nextUniqueId \in Nat \ {0} /\ txnRequests \in Seq(Txns)
      /\ uniqueId' \in [Txns -> Nat]
  <2>1. TypeOK'
    BY BaseKept DEF PlaceInv
  <2> QED
    BY <2>1 DEF PlaceInv, TypeOK, CoreTypeOK, ClientTypeOK
<1>1. CASE \E u \in Txns : Submit(u)
  <2>1. PICK u \in Txns : Submit(u)
    BY <1>1
  <2>2. /\ uniqueId[u] = 0 /\ uniqueId' = [uniqueId EXCEPT ![u] = nextUniqueId]
        /\ txnRequests' = Append(txnRequests, u)
    BY <2>1 DEF Submit, NewTxnRequest
  <2>3. Elements(txnRequests') = Elements(txnRequests) \cup {u}
    BY <1>0, <2>2, ElementsAppend
  <2> QED
    BY <1>0, <2>2, <2>3 DEF Popped
<1>2. CASE PopRequest
  <2>1. uniqueId' = uniqueId /\ txnRequests # <<>> /\ txnRequests' = Tail(txnRequests)
    BY <1>2 DEF PopRequest, clientVars
  <2>2. Elements(txnRequests) = {Head(txnRequests)} \cup Elements(txnRequests')
    BY <1>0, <2>1, ElementsTail
  <2> QED
    BY <1>0, <2>1, <2>2 DEF Popped
<1>3. CASE UNCHANGED <<nextUniqueId, uniqueId, txnRequests>>
  BY <1>0, <1>3 DEF Popped
<1> QED
  BY <1>1, <1>2, <1>3, IdSteps

LEMMA IdsKept ==
  ASSUME BaseInv, IdsOK, [Next]_vars
  PROVE  IdsOK'
<1> USE DEF BaseInv
<1>0. /\ uniqueId \in [Txns -> Nat] /\ nextUniqueId \in Nat \ {0} /\ txnRequests \in Seq(Txns)
  BY DEF PlaceInv, TypeOK, CoreTypeOK, ClientTypeOK
<1>1. CASE \E u \in Txns : Submit(u)
  <2>1. PICK u \in Txns : Submit(u)
    BY <1>1
  <2>2. /\ uniqueId[u] = 0 /\ uniqueId' = [uniqueId EXCEPT ![u] = nextUniqueId]
        /\ nextUniqueId' = nextUniqueId + 1
        /\ txnRequests' = Append(txnRequests, u) /\ UNCHANGED <<pc, cur>>
    BY <2>1 DEF Submit, NewTxnRequest, threadVars
  <2>3. Elements(txnRequests') = Elements(txnRequests) \cup {u}
    BY <1>0, <2>2, ElementsAppend
  <2>4. /\ uniqueId' \in [Txns -> Nat] /\ uniqueId'[u] = nextUniqueId
        /\ \A t \in Txns : t # u => uniqueId'[t] = uniqueId[t]
    BY <1>0, <2>2
  <2>5. u \notin Elements(txnRequests) /\ ~Popped(u)
    BY <1>0, <2>2 DEF PlaceInv, ArrivalsOK, Popped
  <2>6. \A t \in Txns : (Popped(t)' <=> Popped(t)) /\ (Popped(t) => t # u)
    BY <1>0, <2>3, <2>4, <2>5 DEF Popped
  <2>7. Increasing(txnRequests, uniqueId)'
    <3>1. \A e \in Elements(txnRequests) : e \in Txns /\ e # u
      BY <1>0, <2>5, ElementsType
    <3>2. Increasing(txnRequests, uniqueId')
      BY <2>4, <3>1, IncreasingSame DEF IdsOK
    <3>3. Before(Elements(txnRequests), {u}, uniqueId')
      BY <1>0, <2>4, <3>1 DEF Before, IdsOK
    <3> QED
      BY <1>0, <2>2, <2>4, <3>2, <3>3, IncreasingAppend
  <2>8. \A t \in Txns : uniqueId'[t] < nextUniqueId'
    BY <1>0, <2>2, <2>4 DEF IdsOK
  <2>9. \A t, v \in Txns : uniqueId'[t] = uniqueId'[v] /\ uniqueId'[t] > 0 => t = v
    BY <1>0, <2>4 DEF IdsOK
  <2>10. ASSUME NEW t \in Txns, Popped(t), NEW v \in Elements(txnRequests')
         PROVE  uniqueId'[t] < uniqueId'[v]
    <3>1. CASE v = u
      BY <1>0, <2>4, <2>6, <2>10, <3>1 DEF IdsOK
    <3>2. CASE v # u
      <4>1. v \in Elements(txnRequests) /\ v \in Txns
        BY <1>0, <2>3, <2>10, <3>2, ElementsType
      <4> QED
        BY <2>4, <2>6, <2>10, <3>2, <4>1 DEF IdsOK
    <3> QED
      BY <3>1, <3>2
  <2>11. ASSUME NEW t \in Txns, NEW v \in Txns, At(t, {"lockReads", "lockWrites"})', Popped(v)
         PROVE  uniqueId'[v] <= uniqueId'[t]
    <3>1. At(t, {"lockReads", "lockWrites"})
      BY <2>2, <2>11 DEF At
    <3>2. Popped(t)
      BY <3>1 DEF PlaceInv, ArrivalsOK, At
    <3> QED
      BY <2>4, <2>6, <2>11, <3>1, <3>2 DEF IdsOK
  <2> QED
    BY <2>6, <2>7, <2>8, <2>9, <2>10, <2>11 DEF IdsOK
<1>2. CASE PopRequest
  <2>1. PICK h : h = Head(txnRequests)
    OBVIOUS
  <2>2. /\ UNCHANGED <<uniqueId, nextUniqueId>> /\ txnRequests # <<>> /\ txnRequests' = Tail(txnRequests)
        /\ cur'[Main] = h
    BY <1>2, <2>1, Basics DEF PopRequest, clientVars
  <2>3. h \in Txns /\ Elements(txnRequests) = {h} \cup Elements(txnRequests')
    BY <1>0, <2>1, <2>2, ElementsTail
  <2>4. Increasing(txnRequests', uniqueId) /\ Before({h}, Elements(txnRequests'), uniqueId)
    BY <1>0, <2>1, <2>2, IncreasingTail DEF IdsOK
  <2>5. \A t \in Txns : Popped(t)' => Popped(t) \/ t = h
    BY <2>2, <2>3 DEF Popped
  <2>6. \A t \in Txns : Popped(t)' => uniqueId[t] <= uniqueId[h]
    BY <1>0, <2>3, <2>5 DEF IdsOK
  <2>7. \A t \in Txns : Popped(t)' => \A u \in Elements(txnRequests') : uniqueId[t] < uniqueId[u]
    BY <2>3, <2>4, <2>5 DEF IdsOK, Before
  <2> QED
    BY <2>2, <2>4, <2>6, <2>7 DEF IdsOK, At
<1>3. CASE /\ UNCHANGED <<nextUniqueId, uniqueId, txnRequests>>
           /\ \A t \in Txns : At(t, {"lockReads", "lockWrites"})' => At(t, {"lockReads", "lockWrites"})
  BY <1>3 DEF IdsOK, Popped
<1> QED
  BY <1>1, <1>2, <1>3, IdSteps

\* Only LockKey and UnlockKey change the table.
LEMMA TableSteps ==
  ASSUME BaseInv, [Next]_vars
  PROVE  LockKey \/ UnlockKey \/ UNCHANGED <<manager, lockTable>>
BY DEF Next, Submit, TakeResult, Stop, Scheduler, PopRequest, NoRequest, EndLockReads, EndLockWrites,
       PopCompleted, NoCompleted, Decide, StartUnlock, EndUnlockReads, EndUnlockWrites, ReturnResult,
       Dispatch, EndRound, Worker, PopTask, Execute, vars, lockVars

\* What the transaction in the scheduler's hand asks for goes to the end.
LEMMA LockKeyTable ==
  ASSUME BaseInv, LockKey
  PROVE  /\ cur[Main] \in Txns /\ At(cur[Main], {"lockReads", "lockWrites"})
         /\ UNCHANGED <<status, uniqueId, txnRequests, pc, cur>>
         /\ \E k \in Keys, granted \in BOOLEAN, m \in {"SHARED", "EXCLUSIVE"} :
              Granting(cur[Main], k, m, granted)
<1> USE DEF BaseInv
<1>1. PICK k \in Keys, granted \in BOOLEAN, m \in {"SHARED", "EXCLUSIVE"} : Lock(cur[Main], k, m, granted)
  BY DEF LockKey, ReadLock, WriteLock
<1>2. /\ UNCHANGED <<status, uniqueId, txnRequests, pc, cur>>
      /\ pc[Main] \in {"lockReads", "lockWrites"} /\ cur[Main] \in Txns
  BY Basics DEF LockKey, clientSide, clientVars, dataVars
<1>3. Granting(cur[Main], k, m, granted)
  BY <1>1, <1>2, LockEffect DEF PlaceInv
<1> QED
  BY <1>2, <1>3 DEF At

\* What it releases, a request of its own, goes.
LEMMA UnlockKeyTable ==
  ASSUME BaseInv, UnlockKey
  PROVE  /\ cur[Main] \in Txns /\ At(cur[Main], {"unlockReads", "unlockWrites"})
         /\ UNCHANGED <<status, uniqueId, txnRequests, pc, cur, manager>>
         /\ \/ UNCHANGED lockTable
            \/ \E k \in Keys : /\ \A j \in Keys : j # k => lockTable'[j] = lockTable[j]
                               /\ \E i \in RequestsOf(lockTable[k], cur[Main]) :
                                    \E f : Shifts(f, lockTable'[k], lockTable[k], i)
<1> USE DEF BaseInv
<1>1. PICK k \in Keys : Release(cur[Main], k)
  BY DEF UnlockKey
<1>2. /\ UNCHANGED <<status, uniqueId, txnRequests, pc, cur>>
      /\ pc[Main] \in {"unlockReads", "unlockWrites"} /\ cur[Main] \in Txns
  BY Basics DEF UnlockKey, clientSide, clientVars, dataVars
<1>3. CASE UNCHANGED lockVars
  BY <1>2, <1>3 DEF lockVars, At
<1>4. CASE \E i \in RequestsOf(lockTable[k], cur[Main]) : ReleaseAt(cur[Main], k, i)
  <2>1. PICK i \in RequestsOf(lockTable[k], cur[Main]) : ReleaseAt(cur[Main], k, i)
    BY <1>4
  <2>2. ~Waiting(cur[Main])
    BY <1>2 DEF LockInv, ReleasingOK, At
  <2>3. PICK r : Freeing(cur[Main], k, i, r)
    BY <1>2, <2>1, <2>2, ReleaseEffect DEF LockInv, PlaceInv
  <2> QED
    BY <1>2, <2>1, <2>3 DEF Freeing, At
<1> QED
  BY <1>1, <1>3, <1>4 DEF Release

\* A transaction keeps what it asked for until it is decided.
LEMMA HasAllKept ==
  ASSUME BaseInv, StatusOK, [Next]_vars, NEW t \in Txns, ~Decided(t), HasAll(t)
  PROVE  HasAll(t)'
<1> USE DEF BaseInv
<1>1. SUFFICES ASSUME NEW k \in Keys
               PROVE  /\ HasRead(t, k) => HasRead(t, k)'
                      /\ HasWrite(t, k) => HasWrite(t, k)'
  <2>1. readset[t] \subseteq Keys /\ writeset[t] \subseteq Keys
    BY Basics
  <2> QED
    BY <1>1, <2>1 DEF HasAll
<1>2. CASE UNCHANGED <<manager, lockTable>>
  BY <1>2 DEF HasRead, HasWrite
<1>3. CASE LockKey
  <2>1. PICK c \in Txns, j \in Keys, granted \in BOOLEAN, m \in {"SHARED", "EXCLUSIVE"} : Granting(c, j, m, granted)
    BY <1>3, LockKeyTable
  <2>2. /\ \A i \in RequestsOf(lockTable[k], t) :
             i \in RequestsOf(lockTable'[k], t) /\ lockTable'[k][i] = lockTable[k][i]
        /\ manager' = manager
    <3>1. /\ \A i \in DOMAIN lockTable[k] : i \in DOMAIN lockTable'[k] /\ lockTable'[k][i] = lockTable[k][i]
          /\ manager' = manager
      BY <2>1 DEF Granting
    <3> QED
      BY <3>1 DEF RequestsOf
  <2> QED
    BY <2>2 DEF HasRead, HasWrite
<1>4. CASE UnlockKey
  <2>1. CASE UNCHANGED lockTable
    BY <1>4, <2>1, UnlockKeyTable DEF HasRead, HasWrite
  <2>2. CASE ~UNCHANGED lockTable
    <3>1. PICK j \in Keys : /\ \A l \in Keys : l # j => lockTable'[l] = lockTable[l]
                            /\ \E i \in RequestsOf(lockTable[j], cur[Main]) :
                                  \E f : Shifts(f, lockTable'[j], lockTable[j], i)
      BY <1>4, <2>2, UnlockKeyTable
    <3>2. PICK i \in RequestsOf(lockTable[j], cur[Main]) : \E f : Shifts(f, lockTable'[j], lockTable[j], i)
      BY <3>1
    <3>3. cur[Main] # t /\ manager' = manager
      BY <1>4, UnlockKeyTable DEF StatusOK, At
    <3>4. CASE k = j
      <4>1. \A b \in RequestsOf(lockTable[k], t) :
              \E a \in RequestsOf(lockTable'[k], t) : lockTable'[k][a] = lockTable[k][b]
        BY <3>2, <3>3, <3>4 DEF Shifts, RequestsOf
      <4> QED
        BY <3>3, <4>1 DEF HasRead, HasWrite
    <3>5. CASE k # j
      BY <3>1, <3>3, <3>5 DEF HasRead, HasWrite
    <3> QED
      BY <3>4, <3>5
  <2> QED
    BY <2>1, <2>2
<1> QED
  BY <1>2, <1>3, <1>4, TableSteps

\* The queues stay in the order of arrival.
LEMMA QueuesInOrderKept ==
  ASSUME BaseInv, IdsOK, QueuesInOrder, [Next]_vars
  PROVE  QueuesInOrder'
<1> USE DEF BaseInv
<1>1. SUFFICES ASSUME NEW k \in Keys, NEW a \in DOMAIN lockTable'[k], NEW b \in DOMAIN lockTable'[k], a < b
               PROVE  uniqueId'[lockTable'[k][a].txn] <= uniqueId'[lockTable'[k][b].txn]
  BY DEF QueuesInOrder
<1>2. ASSUME NEW i \in DOMAIN lockTable[k]
      PROVE  lockTable[k][i].txn \in Txns /\ Popped(lockTable[k][i].txn)
             /\ uniqueId'[lockTable[k][i].txn] = uniqueId[lockTable[k][i].txn] /\ i \in Nat
  <2>1. lockTable[k][i].txn \in Txns /\ i \in Nat
    BY <1>2, TableType DEF PlaceInv
  <2>2. Asks(lockTable[k][i].txn, k)
    BY <1>2 DEF Asks, RequestsOf
  <2> QED
    BY <2>1, <2>2, IdsStay DEF LockInv, OnlyWanted
<1>3. CASE UNCHANGED lockTable
  BY <1>1, <1>2, <1>3 DEF QueuesInOrder
<1>4. CASE LockKey
  <2>1. PICK c : c = cur[Main]
    OBVIOUS
  <2>2. PICK j \in Keys, granted \in BOOLEAN, m \in {"SHARED", "EXCLUSIVE"} : Granting(c, j, m, granted)
    BY <1>4, <2>1, LockKeyTable
  <2>3. /\ uniqueId' = uniqueId /\ c \in Txns
        /\ \A u \in Txns : Popped(u) => uniqueId[u] <= uniqueId[c]
    BY <1>4, <2>1, LockKeyTable DEF IdsOK
  <2>4. CASE k # j
    <3>1. lockTable'[k] = lockTable[k]
      BY <2>2, <2>4 DEF Granting
    <3> QED
      BY <1>1, <2>3, <3>1 DEF QueuesInOrder
  <2>5. CASE k = j
    <3>1. PICK n : n = Len(lockTable[k]) + 1
      OBVIOUS
    <3>2. /\ DOMAIN lockTable'[k] = DOMAIN lockTable[k] \cup {n}
          /\ \A i \in DOMAIN lockTable[k] : lockTable'[k][i] = lockTable[k][i]
          /\ lockTable'[k][n].txn = c
      BY <2>2, <2>5, <3>1 DEF Granting
    <3>3. n \in Nat /\ \A i \in DOMAIN lockTable[k] : i < n
      BY <3>1, TableType DEF PlaceInv
    <3>4. a \in DOMAIN lockTable[k]
      <4>1. a # n
        BY <1>1, <1>2, <3>2, <3>3
      <4> QED
        BY <3>2, <4>1
    <3>5. CASE b = n
      BY <1>2, <2>3, <3>2, <3>4, <3>5
    <3>6. CASE b # n
      BY <1>1, <2>3, <3>2, <3>4, <3>6 DEF QueuesInOrder
    <3> QED
      BY <3>5, <3>6
  <2> QED
    BY <2>4, <2>5
<1>5. CASE UnlockKey /\ ~UNCHANGED lockTable
  <2>1. PICK j \in Keys : /\ \A l \in Keys : l # j => lockTable'[l] = lockTable[l]
                          /\ \E i \in RequestsOf(lockTable[j], cur[Main]) :
                                \E f : Shifts(f, lockTable'[j], lockTable[j], i)
    BY <1>5, UnlockKeyTable
  <2>2. PICK i \in RequestsOf(lockTable[j], cur[Main]) : \E f : Shifts(f, lockTable'[j], lockTable[j], i)
    BY <2>1
  <2>3. PICK f : Shifts(f, lockTable'[j], lockTable[j], i)
    BY <2>2
  <2>4. uniqueId' = uniqueId
    BY <1>5, UnlockKeyTable
  <2>5. CASE k = j
    <3>1. /\ f[a] \in DOMAIN lockTable[k] /\ f[b] \in DOMAIN lockTable[k] /\ f[a] < f[b]
          /\ lockTable'[k][a] = lockTable[k][f[a]] /\ lockTable'[k][b] = lockTable[k][f[b]]
      BY <1>1, <2>3, <2>5 DEF Shifts
    <3> QED
      BY <2>4, <3>1 DEF QueuesInOrder
  <2>6. CASE k # j
    BY <1>1, <2>1, <2>4, <2>6 DEF QueuesInOrder
  <2> QED
    BY <2>5, <2>6
<1> QED
  BY <1>3, <1>4, <1>5, TableSteps

\* The scheduler asks for all the locks of a transaction before it goes on.
LEMMA LeavesLocking ==
  ASSUME BaseInv, [Next]_vars, pc[Main] \in {"lockReads", "lockWrites"},
         ~(pc'[Main] \in {"lockReads", "lockWrites"} /\ cur'[Main] = cur[Main])
  PROVE  EndLockWrites
<1> USE DEF BaseInv
<1>1. CASE (\E t \in Txns : Submit(t)) \/ TakeResult \/ Stop \/ UNCHANGED vars
  BY <1>1 DEF Submit, NewTxnRequest, TakeResult, GetTxnResult, Stop, vars, coreVars, threadVars
<1>2. CASE \E w \in Workers : Worker(w)
  BY <1>2, Basics DEF Worker, Execute, PopTask, ReadRecord, EndReadset, Run, StartExecute, Goto
<1>3. CASE LockKey \/ EndLockReads
  BY <1>3, Basics DEF LockKey, EndLockReads, Goto
<1>4. CASE PopRequest \/ NoRequest \/ PopCompleted \/ NoCompleted \/ Decide \/ StartUnlock \/ UnlockKey
           \/ EndUnlockReads \/ EndUnlockWrites \/ ReturnResult \/ Dispatch \/ EndRound
  BY <1>4 DEF PopRequest, NoRequest, PopCompleted, NoCompleted, Decide, StartApply, ApplyWrite, Commit, Abort,
              StartUnlock, UnlockKey, EndUnlockReads, EndUnlockWrites, ReturnResult, PushResult, Dispatch, EndRound
<1> QED
  BY <1>1, <1>2, <1>3, <1>4 DEF Next, Scheduler

LEMMA CompleteKept ==
  ASSUME BaseInv, DataInv, Complete, [Next]_vars
  PROVE  Complete'
<1> USE DEF BaseInv, DataInv
<1>1. SUFFICES ASSUME NEW t \in Txns, Asked(t)', ~Decided(t)' PROVE HasAll(t)'
  BY DEF Complete
<1>2. ~Decided(t)
  BY <1>1, Decisions DEF Decided
<1>3. CASE Asked(t)
  BY <1>2, <1>3, HasAllKept DEF Complete
<1>4. CASE ~Asked(t)
  <2>1. At(t, {"lockReads", "lockWrites"}) /\ ~At(t, {"lockReads", "lockWrites"})'
    <3>1. CASE \E u \in Txns : Submit(u)
      <4>1. PICK u \in Txns : Submit(u)
        BY <3>1
      <4>2. /\ uniqueId' = [uniqueId EXCEPT ![u] = nextUniqueId]
            /\ txnRequests' = Append(txnRequests, u) /\ UNCHANGED <<pc, cur>>
        BY <4>1 DEF Submit, NewTxnRequest, threadVars
      <4>3. Elements(txnRequests') = Elements(txnRequests) \cup {u}
        BY <4>2, Basics, ElementsAppend
      <4> QED
        BY <1>1, <1>4, <4>2, <4>3, Basics DEF Asked, Popped, At
    <3>2. CASE PopRequest
      <4>1. /\ uniqueId' = uniqueId /\ txnRequests # <<>> /\ txnRequests' = Tail(txnRequests)
            /\ cur'[Main] = Head(txnRequests) /\ pc'[Main] = "lockReads" /\ pc[Main] = "top"
        BY <3>2, Basics DEF PopRequest, Goto, clientVars
      <4>2. Elements(txnRequests) = {Head(txnRequests)} \cup Elements(txnRequests')
        BY <4>1, Basics, ElementsTail
      <4> QED
        BY <1>1, <1>4, <4>1, <4>2 DEF Asked, Popped, At
    <3>3. CASE UNCHANGED <<nextUniqueId, uniqueId, txnRequests>>
      BY <1>1, <1>4, <3>3 DEF Asked, Popped
    <3> QED
      BY <3>1, <3>2, <3>3, IdSteps
  <2>2. HasAll(t)
    <3>1. EndLockWrites
      <4>1. /\ pc[Main] \in {"lockReads", "lockWrites"} /\ cur[Main] = t
            /\ ~(pc'[Main] \in {"lockReads", "lockWrites"} /\ cur'[Main] = t)
        BY <2>1 DEF At
      <4> QED
        BY <4>1, LeavesLocking
    <3>2. At(t, {"lockWrites"}) /\ todo[Main] = {}
      BY <2>1, <3>1 DEF EndLockWrites, At
    <3> QED
      BY <3>2 DEF LockInv, AskingOK, HasAll
  <2> QED
    BY <1>2, <2>2, HasAllKept
<1> QED
  BY <1>3, <1>4

\* Who executes has overtaken no conflicting transaction: strict two-phase
\* locking in the order of arrival.
LEMMA NothingOvertaken ==
  ASSUME BaseInv, DataInv, OrderInv, NEW t \in Txns, NEW u \in Txns,
         Exec(t), Earlier(u, t), Clash(t, u)
  PROVE  Decided(u)
<1> USE DEF BaseInv, DataInv, OrderInv
<1>0. uniqueId \in [Txns -> Nat]
  BY Basics
<1>1. SUFFICES ASSUME ~Decided(u) PROVE FALSE
  OBVIOUS
<1>2. Popped(t) /\ ~Waiting(t) /\ HasAll(t)
  BY DEF PlaceInv, ArrivalsOK, LockInv, Granted, Exec, At
<1>3. HasAll(u)
  <2>1. uniqueId[u] > 0 /\ uniqueId[u] < uniqueId[t]
    BY DEF Earlier
  <2>2. Popped(u)
    BY <1>0, <1>2, <2>1 DEF IdsOK, Popped
  <2>3. ~At(u, {"lockReads", "lockWrites"})
    BY <1>0, <1>2, <2>1 DEF IdsOK
  <2> QED
    BY <1>1, <2>2, <2>3 DEF Complete, Asked
<1>4. PICK k \in Keys : \/ k \in writeset[t] /\ k \in Accesses(u)
                        \/ k \in writeset[u] /\ k \in Accesses(t)
  BY DEF Clash
<1>5. /\ Asks(t, k) /\ Asks(u, k)
      /\ HasWrite(t, k) \/ HasWrite(u, k)
  <2>1. k \in Accesses(t) /\ k \in Accesses(u)
    BY <1>4 DEF Accesses
  <2> QED
    BY <1>2, <1>3, <1>4, <2>1, HasAllAsks DEF HasAll
<1>6. PICK i \in RequestsOf(lockTable[k], t), j \in RequestsOf(lockTable[k], u) :
        Conflict(lockTable[k][j].mode, lockTable[k][i].mode)
  BY <1>5 DEF Asks, HasWrite, Conflict
<1>7. /\ i \in DOMAIN lockTable[k] /\ j \in DOMAIN lockTable[k]
      /\ lockTable[k][i].txn = t /\ lockTable[k][j].txn = u
      /\ i \in Nat /\ j \in Nat
  BY TableType DEF RequestsOf, PlaceInv
<1>8. j < i
  <2>1. ~(i < j)
    BY <1>0, <1>7 DEF QueuesInOrder, Earlier
  <2>2. i # j
    BY <1>0, <1>7 DEF Earlier
  <2> QED
    BY <1>7, <2>1, <2>2
<1>9. <<i, j>> \in WaitsIn(lockTable[k], t)
  BY <1>6, <1>7, <1>8 DEF WaitsIn
<1> QED
  BY <1>2, <1>9, WaitsZero DEF PlaceInv

\* An earlier transaction stays the earlier one, and no earlier one arrives.
LEMMA EarlierSame ==
  ASSUME BaseInv, IdsOK, [Next]_vars, NEW t \in Txns, Popped(t), NEW u \in Txns
  PROVE  Earlier(u, t)' <=> Earlier(u, t)
<1>1. uniqueId'[t] = uniqueId[t] /\ uniqueId[t] \in Nat /\ uniqueId[u] \in Nat /\ nextUniqueId \in Nat
      /\ uniqueId[t] < nextUniqueId
  BY IdsStay DEF IdsOK
<1>2. uniqueId'[u] = uniqueId[u] \/ (uniqueId[u] = 0 /\ uniqueId'[u] = nextUniqueId)
  BY <1>1, IdsStay
<1> QED
  BY <1>1, <1>2 DEF Earlier

\* A transaction that has been run is past the scheduler's loop of requests.
LEMMA RunIsPopped ==
  ASSUME DataInv, NEW t \in Txns, status[t] # "INCOMPLETE"
  PROVE  Popped(t) /\ ~Pending(t)
BY DEF DataInv, StatusOK, Pending

LEMMA EarlierKept ==
  ASSUME BaseInv, DataInv, OrderInv, [Next]_vars
  PROVE  EarlierDecided'
<1>1. SUFFICES ASSUME NEW t \in Txns, NEW u \in Txns, Decided(t)', Earlier(u, t)', Clash(t, u) PROVE Decided(u)'
  BY DEF EarlierDecided, Clash, Accesses
<1>2. Exec(t) \/ Decided(t)
  BY <1>1, Decisions DEF Commit, Abort, Exec, At
<1>3. Popped(t)
  <2>1. CASE Exec(t)
    BY <2>1 DEF BaseInv, PlaceInv, ArrivalsOK, Exec, At
  <2>2. CASE Decided(t)
    BY <2>2, RunIsPopped DEF Decided
  <2> QED
    BY <1>2, <2>1, <2>2
<1>4. Earlier(u, t)
  BY <1>1, <1>3, EarlierSame DEF OrderInv
<1>5. Decided(u)
  BY <1>1, <1>2, <1>4, NothingOvertaken DEF OrderInv, EarlierDecided
<1> QED
  BY <1>5, Decisions DEF Decided

LEMMA StorageKept ==
  ASSUME BaseInv, DataInv, OrderInv, [Next]_vars
  PROVE  StorageOK'
<1> USE DEF BaseInv, DataInv, OrderInv
<1>0. /\ storage \in [Keys -> Values] /\ uniqueId \in [Txns -> Nat] /\ status \in [Txns -> TxnStatus]
      /\ cur[Main] \in Txns \cup {NoTxn} /\ NoTxn \notin Txns
  BY Basics DEF PlaceInv, TypeOK, CoreTypeOK, DataTypeOK
<1>1. ASSUME UNCHANGED storage,
             \A t \in Txns : status'[t] = "COMMITTED" <=> status[t] = "COMMITTED",
             \A t \in Txns, k \in Keys :
                 /\ At(t, {"apply"})' <=> At(t, {"apply"})
                 /\ At(t, {"apply"}) => todo'[Main] = todo[Main]
      PROVE  StorageOK'
  <2>1. \A q \in Txns : status[q] = "COMMITTED" => uniqueId'[q] = uniqueId[q]
    BY RunIsPopped, IdsStay
  <2>2. \A s \in Txns : At(s, {"apply"}) => uniqueId'[s] = uniqueId[s]
    BY RunIsPopped, IdsStay DEF StatusOK
  <2>3. SUFFICES ASSUME NEW k \in Keys
        PROVE  /\ \A q \in Txns : status'[q] = "COMMITTED" /\ k \in writeset[q]
                    => storage'[k] # NoTxn /\ uniqueId'[q] <= uniqueId'[storage'[k]]
               /\ \A s \in Txns : storage'[k] = s
                    => /\ k \in writeset[s]
                       /\ status'[s] = "COMMITTED" \/ (At(s, {"apply"})' /\ k \notin todo'[Main])
               /\ \A t \in Txns : At(t, {"apply"})' /\ k \in writeset[t] /\ k \notin todo'[Main]
                    => storage'[k] = t
    BY DEF StorageOK
  <2>4. \A s \in Txns : storage[k] = s => uniqueId'[s] = uniqueId[s]
    BY <2>1, <2>2 DEF StorageOK
  <2>5. storage[k] # NoTxn => storage[k] \in Txns
    BY <1>0 DEF Values
  <2> QED
    BY <1>1, <2>1, <2>4, <2>5 DEF StorageOK
<1>2. CASE Plain
  BY <1>1, <1>2 DEF Plain, At
<1>3. CASE PopCompleted
  <2>1. UNCHANGED <<storage, status>> /\ pc[Main] = "idle" /\ pc'[Main] = "decide"
    BY <1>3, Basics DEF PopCompleted, Goto
  <2> QED
    BY <1>1, <2>1 DEF At
<1>4. CASE Abort(Main, "unlock")
  <2>1. UNCHANGED <<storage>> /\ pc[Main] = "decide" /\ pc'[Main] = "unlock"
    BY <1>4, Basics DEF Abort, Goto
  <2>2. \A t \in Txns : status'[t] = "COMMITTED" <=> status[t] = "COMMITTED"
    BY <1>0, <1>4 DEF Abort
  <2> QED
    BY <1>1, <2>1, <2>2 DEF At
<1>5. CASE \E w \in Workers : WorkerStep(w)
  <2>1. PICK v \in Workers : WorkerStep(v)
    BY <1>5
  <2>2. storage' = storage /\ pc'[Main] = pc[Main] /\ cur'[Main] = cur[Main] /\ todo'[Main] = todo[Main]
    BY <2>1, Basics DEF WorkerStep, PopTask, ReadRecord, EndReadset, Run, StartExecute, Goto, dataVars
  <2>3. pc[Main] = "apply" => ~Commit(Main, "unlock")
    BY <2>2, Basics DEF Commit, Goto
  <2>4. \A t \in Txns : status'[t] = "COMMITTED" <=> status[t] = "COMMITTED"
    BY <2>3, Decisions DEF Decided, Commit
  <2> QED
    BY <1>1, <2>2, <2>4 DEF At
<1>6. CASE StartApply(Main)
  <2>1. PICK c : c = cur[Main]
    OBVIOUS
  <2>2. /\ UNCHANGED <<status, storage, cur>> /\ pc[Main] = "decide" /\ c \in Txns
        /\ todo'[Main] = writeset[c]
    BY <1>0, <1>6, <2>1, Basics DEF StartApply, dataVars
  <2>3. \A q \in Txns : status[q] = "COMMITTED" => uniqueId'[q] = uniqueId[q]
    BY RunIsPopped, IdsStay
  <2>4. \A k \in Keys : storage[k] # NoTxn => storage[k] \in Txns /\ status[storage[k]] = "COMMITTED"
    BY <1>0, <2>2 DEF Values, StorageOK, At
  <2>5. \A t \in Txns : At(t, {"apply"})' => t = c
    BY <2>1, <2>2 DEF At
  <2>6. SUFFICES ASSUME NEW k \in Keys
        PROVE  /\ \A q \in Txns : status[q] = "COMMITTED" /\ k \in writeset[q]
                    => storage[k] # NoTxn /\ uniqueId'[q] <= uniqueId'[storage[k]]
               /\ \A s \in Txns : storage[k] = s => k \in writeset[s] /\ status[s] = "COMMITTED"
    BY <2>2, <2>5 DEF StorageOK
  <2> QED
    BY <1>0, <2>3, <2>4 DEF StorageOK
<1>7. CASE ApplyWrite(Main) \/ Commit(Main, "unlock")
  <2>1. PICK c : c = cur[Main]
    OBVIOUS
  <2>2. /\ pc[Main] = "apply" /\ c \in Txns /\ UNCHANGED cur
    BY <1>0, <1>7, <2>1, Basics DEF ApplyWrite, Commit
  <2>3. At(c, {"apply"}) /\ Exec(c) /\ status[c] = "COMPLETED_C" /\ Popped(c)
        /\ todo[Main] \subseteq writeset[c]
    <3>1. At(c, {"apply"}) /\ Exec(c)
      BY <2>1, <2>2 DEF At, Exec
    <3>2. status[c] = "COMPLETED_C"
      BY <2>2, <3>1 DEF StatusOK
    <3> QED
      BY <2>1, <2>2, <3>1, <3>2, RunIsPopped DEF PlaceInv, ThreadsOK
  <2>4. \A q \in Txns : status[q] = "COMMITTED" \/ q = c => uniqueId'[q] = uniqueId[q]
    BY <2>3, RunIsPopped, IdsStay
  <2>5. ASSUME NEW k \in writeset[c], NEW q \in Txns, status[q] = "COMMITTED", k \in writeset[q]
        PROVE  uniqueId[q] <= uniqueId[c]
    <3>1. SUFFICES ASSUME uniqueId[c] < uniqueId[q] PROVE FALSE
      BY <1>0, <2>2
    <3>2. Earlier(c, q) /\ Clash(q, c)
      BY <2>2, <2>3, <2>5, <3>1, Basics DEF Earlier, Popped, Clash, Accesses
    <3> QED
      BY <2>2, <2>3, <2>5, <3>2 DEF EarlierDecided, Decided
  <2>6. CASE ApplyWrite(Main)
    <3>1. PICK k \in Keys : /\ k \in todo[Main]
                            /\ storage' = [storage EXCEPT ![k] = c]
                            /\ todo' = [todo EXCEPT ![Main] = todo[Main] \ {k}]
      BY <2>1, <2>6 DEF ApplyWrite, NextKey
    <3>2. /\ UNCHANGED <<status, pc>> /\ todo'[Main] = todo[Main] \ {k}
          /\ storage'[k] = c /\ \A j \in Keys : j # k => storage'[j] = storage[j]
      BY <1>0, <2>6, <3>1, Basics DEF ApplyWrite
    <3>3. \A t \in Txns : At(t, {"apply"})' <=> t = c
      BY <2>1, <2>2, <3>2 DEF At
    <3>4. \A j \in Keys : storage[j] # NoTxn =>
            storage[j] \in Txns /\ uniqueId'[storage[j]] = uniqueId[storage[j]]
      BY <1>0, <2>1, <2>4 DEF Values, StorageOK, At
    <3>5. SUFFICES ASSUME NEW j \in Keys
          PROVE  /\ \A q \in Txns : status[q] = "COMMITTED" /\ j \in writeset[q]
                      => storage'[j] # NoTxn /\ uniqueId'[q] <= uniqueId'[storage'[j]]
                 /\ \A s \in Txns : storage'[j] = s
                      => /\ j \in writeset[s]
                         /\ status[s] = "COMMITTED" \/ (s = c /\ j \notin todo'[Main])
                 /\ j \in writeset[c] /\ j \notin todo'[Main] => storage'[j] = c
      BY <3>2, <3>3 DEF StorageOK
    <3>6. CASE j = k
      <4>1. j \in writeset[c]
        BY <2>3, <3>1, <3>6
      <4> QED
        BY <1>0, <2>2, <2>4, <2>5, <3>2, <3>6, <4>1
    <3>7. CASE j # k
      <4>1. storage'[j] = storage[j] /\ (j \in todo'[Main] <=> j \in todo[Main])
        BY <3>2, <3>7
      <4>2. \A q \in Txns : status[q] = "COMMITTED" /\ j \in writeset[q]
                      => storage[j] # NoTxn /\ uniqueId[q] <= uniqueId[storage[j]]
        BY DEF StorageOK
      <4>3. \A s \in Txns : storage[j] = s
                      => /\ j \in writeset[s]
                         /\ status[s] = "COMMITTED" \/ (s = c /\ j \notin todo[Main])
        BY <2>1 DEF StorageOK, At
      <4>4. j \in writeset[c] /\ j \notin todo[Main] => storage[j] = c
        BY <2>2, <2>3 DEF StorageOK
      <4> QED
        BY <2>4, <3>4, <4>1, <4>2, <4>3, <4>4
    <3> QED
      BY <3>6, <3>7
  <2>7. CASE Commit(Main, "unlock")
    <3>1. /\ UNCHANGED storage /\ todo[Main] = {} /\ pc'[Main] = "unlock"
          /\ status'[c] = "COMMITTED" /\ \A t \in Txns : t # c => status'[t] = status[t]
      BY <1>0, <2>1, <2>2, <2>7, Basics DEF Commit, Goto
    <3>2. \A k \in writeset[c] : k \in Keys /\ storage[k] = c
      BY <2>2, <2>3, <3>1, Basics DEF StorageOK
    <3>3. \A k \in Keys : storage[k] # NoTxn =>
             storage[k] \in Txns /\ k \in writeset[storage[k]] /\ status'[storage[k]] = "COMMITTED"
             /\ uniqueId'[storage[k]] = uniqueId[storage[k]]
      BY <1>0, <2>1, <2>4, <3>1 DEF Values, StorageOK, At
    <3>4. SUFFICES ASSUME NEW k \in Keys, NEW q \in Txns, status'[q] = "COMMITTED", k \in writeset[q]
                   PROVE  storage[k] # NoTxn /\ uniqueId'[q] <= uniqueId'[storage[k]]
      BY <1>0, <3>1, <3>3 DEF StorageOK, At
    <3>5. CASE q = c
      BY <1>0, <2>2, <2>4, <3>2, <3>4, <3>5
    <3>6. CASE q # c
      BY <2>4, <3>1, <3>3, <3>4, <3>6 DEF StorageOK
    <3> QED
      BY <3>5, <3>6
  <2> QED
    BY <1>7, <2>6, <2>7
<1> QED
  BY <1>2, <1>3, <1>4, <1>5, <1>6, <1>7, StepKinds DEF Decide

\* What a transaction about to vote finds in the storage is the last committed
\* write before it.
LEMMA StorageIsLast ==
  ASSUME BaseInv, DataInv, OrderInv, NEW t \in Txns, Exec(t), cur[Main] # t, ~Decided(t),
         NEW k \in Accesses(t)
  PROVE  LastBefore(storage[k], t, k)
<1> USE DEF BaseInv, DataInv, OrderInv
<1>0. /\ storage \in [Keys -> Values] /\ uniqueId \in [Txns -> Nat] /\ k \in Keys
  BY Basics DEF PlaceInv, TypeOK, CoreTypeOK, DataTypeOK, Accesses
<1>1. Popped(t)
  BY DEF PlaceInv, ArrivalsOK, Exec, At
<1>2. CASE storage[k] = NoTxn
  BY <1>0, <1>2 DEF StorageOK, LastBefore, CommittedBefore
<1>3. CASE storage[k] # NoTxn
  <2>1. PICK s \in Txns : s = storage[k]
    BY <1>0, <1>3 DEF Values
  <2>2. k \in writeset[s] /\ (status[s] = "COMMITTED" \/ At(s, {"apply"}))
    BY <1>0, <2>1 DEF StorageOK
  <2>3. s # t
    BY <2>2 DEF Decided, At
  <2>4. status[s] = "COMMITTED"
    <3>1. ASSUME At(s, {"apply"}) PROVE FALSE
      <4>1. Exec(s)
        BY <3>1 DEF Exec, At
      <4> QED
        BY <2>2, <2>3, <4>1, ExecutingDoNotConflict
    <3> QED
      BY <2>2, <3>1
  <2>5. Earlier(s, t)
    <3>1. uniqueId[s] > 0 /\ uniqueId[t] > 0
      BY <1>1, <2>4, RunIsPopped DEF Popped
    <3>2. ~(uniqueId[t] < uniqueId[s])
      <4>1. ASSUME uniqueId[t] < uniqueId[s] PROVE FALSE
        <5>1. Earlier(t, s) /\ Clash(s, t) /\ Decided(s)
          BY <1>0, <2>2, <2>4, <3>1, <4>1 DEF Earlier, Clash, Decided
        <5> QED
          BY <5>1 DEF EarlierDecided
      <4> QED
        BY <4>1
    <3>3. uniqueId[s] # uniqueId[t]
      BY <2>3, <3>1 DEF IdsOK
    <3> QED
      BY <1>0, <3>1, <3>2, <3>3 DEF Earlier
  <2>6. \A p \in Txns : CommittedBefore(p, t, k) => uniqueId[p] <= uniqueId[s]
    BY <1>0, <2>1 DEF CommittedBefore, StorageOK
  <2> QED
    BY <1>3, <2>1, <2>2, <2>4, <2>5, <2>6 DEF LastBefore, CommittedBefore
<1> QED
  BY <1>2, <1>3

\* The last committed write before a transaction that has been run does not
\* change any more.
LEMMA LastStays ==
  ASSUME BaseInv, DataInv, OrderInv, [Next]_vars, NEW t \in Txns, Popped(t), Exec(t) \/ Decided(t),
         NEW k \in Accesses(t), NEW v, LastBefore(v, t, k)
  PROVE  LastBefore(v, t, k)'
<1> USE DEF BaseInv, DataInv, OrderInv
<1>0. k \in Keys
  BY Basics DEF Accesses
<1>1. ASSUME NEW p \in Txns PROVE CommittedBefore(p, t, k)' <=> CommittedBefore(p, t, k)
  <2>1. Earlier(p, t)' <=> Earlier(p, t)
    BY EarlierSame
  <2>2. status[p] = "COMMITTED" => status'[p] = "COMMITTED"
    BY Decisions DEF Decided
  <2>3. ASSUME status'[p] = "COMMITTED", Earlier(p, t), k \in writeset[p] PROVE status[p] = "COMMITTED"
    <3>1. Clash(t, p)
      BY <1>0, <2>3 DEF Clash
    <3>2. Decided(p)
      BY <2>3, <3>1, NothingOvertaken DEF EarlierDecided
    <3> QED
      BY <2>3, <3>2, Decisions
  <2> QED
    BY <2>1, <2>2, <2>3 DEF CommittedBefore
<1>2. ASSUME NEW p \in Txns, CommittedBefore(p, t, k) PROVE uniqueId'[p] = uniqueId[p]
  BY <1>2, RunIsPopped, IdsStay DEF CommittedBefore
<1> QED
  BY <1>1, <1>2 DEF LastBefore

LEMMA ReadsLastKept ==
  ASSUME BaseInv, DataInv, OrderInv, [Next]_vars
  PROVE  ReadsLast'
<1> USE DEF BaseInv, DataInv
<1>1. SUFFICES ASSUME NEW t \in Txns, NEW k \in Keys, status'[t] # "INCOMPLETE", k \in Accesses(t)
               PROVE  \E v : v = reads'[t][k] /\ LastBefore(v, t, k)'
  BY DEF ReadsLast, Accesses, LastBefore, CommittedBefore, Earlier
<1>2. CASE status[t] # "INCOMPLETE"
  <2>1. LastBefore(reads[t][k], t, k) /\ reads'[t] = reads[t] /\ Popped(t)
    BY <1>1, <1>2, Decisions, RunIsPopped DEF OrderInv, ReadsLast
  <2>2. Exec(t) \/ Decided(t)
    <3>1. status[t] \in TxnStatus
      BY DEF PlaceInv, TypeOK, CoreTypeOK, DataTypeOK
    <3> QED
      BY <1>2, <3>1 DEF StatusOK, TxnStatus, Decided, Exec, Started, At
  <2>3. PICK v : v = reads[t][k]
    OBVIOUS
  <2>4. LastBefore(v, t, k)'
    BY <1>1, <2>1, <2>2, <2>3, LastStays
  <2> QED
    BY <2>1, <2>3, <2>4
<1>3. CASE status[t] = "INCOMPLETE"
  <2>1. PICK w \in Workers : cur[w] = t /\ Run(w, "idle")
    BY <1>1, <1>3, Decisions
  <2>2. pc[w] = "writeset" /\ todo[w] = {} /\ reads' = reads
    BY <2>1 DEF Run
  <2>3. Running(t, w) /\ Exec(t) /\ cur[Main] # t
    BY <2>1, <2>2 DEF Running, Exec, Started, Pooled, PlaceInv, OneStage
  <2>4. ~Decided(t)
    BY <1>3 DEF Decided
  <2>5. reads'[t][k] = storage[k]
    <3>1. Saw(t, Visited(t, w)) /\ k \in Visited(t, w)
      BY <1>1, <2>2, <2>3 DEF ReadsOK, Visited, Accesses
    <3> QED
      BY <2>2, <3>1 DEF Saw
  <2>6. PICK v : v = storage[k]
    OBVIOUS
  <2>7. LastBefore(v, t, k) /\ Popped(t)
    <3>1. Popped(t)
      BY <2>3 DEF PlaceInv, ArrivalsOK, Exec, At
    <3> QED
      BY <1>1, <2>3, <2>4, <2>6, <3>1, StorageIsLast
  <2>8. LastBefore(v, t, k)'
    BY <1>1, <2>3, <2>7, LastStays
  <2> QED
    BY <2>5, <2>6, <2>8
<1> QED
  BY <1>2, <1>3

LEMMA InitOrder == Init => OrderInv
<1> SUFFICES ASSUME Init PROVE OrderInv
  OBVIOUS
<1>1. /\ \A t \in Txns : status[t] = "INCOMPLETE" /\ uniqueId[t] = 0
      /\ txnRequests = <<>> /\ nextUniqueId = 1
      /\ \A k \in Keys : lockTable[k] = <<>> /\ storage[k] = NoTxn
      /\ pc[Main] = "idle" /\ NoTxn \notin Txns
  BY CoreAssumption, LockingAssumption DEF Init, CoreInit, LockInit
<1>2. \A t \in Txns : ~Popped(t) /\ ~At(t, {"lockReads", "lockWrites"})
  <2>1. ASSUME NEW t \in Txns PROVE ~(uniqueId[t] > 0)
    BY <1>1
  <2>2. ASSUME NEW t \in Txns PROVE ~At(t, {"lockReads", "lockWrites"})
    BY <1>1 DEF At
  <2> QED
    BY <2>1, <2>2 DEF Popped
<1>3. IdsOK
  BY <1>1, <1>2 DEF IdsOK, Increasing, At
<1>4. QueuesInOrder
  BY <1>1 DEF QueuesInOrder
<1>5. Complete /\ EarlierDecided /\ ReadsLast
  BY <1>1, <1>2 DEF Complete, Asked, EarlierDecided, Decided, ReadsLast
<1>6. StorageOK
  BY <1>1 DEF StorageOK, At
<1> QED
  BY <1>3, <1>4, <1>5, <1>6 DEF OrderInv

\* All the invariants of the locking modes: where a transaction is and what it
\* waits for, how far it is and what it has read, and how all that follows the
\* order in which the transactions arrived.
THEOREM LockingOrderInvariant == Spec => [](BaseInv /\ DataInv /\ OrderInv)
<1>1. Init => BaseInv /\ DataInv /\ OrderInv
  BY InitBase, InitData, InitOrder
<1>2. (BaseInv /\ DataInv /\ OrderInv) /\ [Next]_vars => (BaseInv /\ DataInv /\ OrderInv)'
  <2> SUFFICES ASSUME BaseInv, DataInv, OrderInv, [Next]_vars PROVE (BaseInv /\ DataInv /\ OrderInv)'
    OBVIOUS
  <2>1. BaseInv' /\ DataInv'
    BY BaseKept, StatusKept, ReadsKept DEF DataInv
  <2>2. IdsOK' /\ QueuesInOrder' /\ Complete'
    BY IdsKept, QueuesInOrderKept, CompleteKept DEF OrderInv
  <2>3. EarlierDecided' /\ StorageOK' /\ ReadsLast'
    BY EarlierKept, StorageKept, ReadsLastKept
  <2> QED
    BY <2>1, <2>2, <2>3 DEF OrderInv
<1> QED
  BY <1>1, <1>2, PTL DEF Spec

\* SerialValue is the last committed write before the transaction.
LEMMA SerialValueIsLast ==
  ASSUME BaseInv, OrderInv, NEW t \in Txns, NEW k, NEW v, LastBefore(v, t, k)
  PROVE  v = SerialValue(t, k)
<1> DEFINE W == {p \in Txns : k \in writeset[p] /\ Earlier(p, t) /\ status[p] = "COMMITTED"}
<1>1. \A p \in Txns : p \in W <=> CommittedBefore(p, t, k)
  BY DEF CommittedBefore
<1>2. SerialValue(t, k) =
        IF W = {} THEN NoTxn ELSE CHOOSE p \in W : \A q \in W : uniqueId[q] <= uniqueId[p]
  BY DEF SerialValue
<1>3. W \subseteq Txns /\ uniqueId \in [Txns -> Nat] /\ \A p \in W : uniqueId[p] > 0
  BY Basics DEF BaseInv, Earlier
<1> HIDE DEF W
<1>4. CASE W = {}
  BY <1>1, <1>2, <1>4 DEF LastBefore
<1>5. CASE W # {}
  <2>1. v \in W /\ \A q \in W : uniqueId[q] <= uniqueId[v]
    BY <1>1, <1>3, <1>5 DEF LastBefore
  <2>2. PICK p \in W : p = SerialValue(t, k) /\ \A q \in W : uniqueId[q] <= uniqueId[p]
    BY <1>2, <1>5, <2>1
  <2>3. uniqueId[p] = uniqueId[v]
    BY <1>3, <2>1, <2>2
  <2> QED
    BY <1>3, <2>1, <2>2, <2>3 DEF OrderInv, IdsOK
<1> QED
  BY <1>4, <1>5

\* Locks asked for in the order of arrival, and all at once, make the locking
\* modes deterministic: every transaction reads what it would have read had
\* the transactions run one at a time in the order of their arrival.
THEOREM LockingIsDeterministic == Spec => []ReadsInArrivalOrder
<1>1. ASSUME BaseInv, OrderInv PROVE ReadsInArrivalOrder
  <2> SUFFICES ASSUME NEW t \in Txns, NEW k \in Keys, status[t] # "INCOMPLETE", k \in Accesses(t)
               PROVE  reads[t][k] = SerialValue(t, k)
    BY DEF ReadsInArrivalOrder, ReadsSerially
  <2>1. LastBefore(reads[t][k], t, k)
    BY <1>1 DEF OrderInv, ReadsLast
  <2> QED
    BY <1>1, <2>1, SerialValueIsLast
<1> QED
  BY <1>1, LockingOrderInvariant, PTL
=============================================================================
