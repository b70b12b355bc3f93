------------------------- MODULE CalvinEpochProofs -------------------------
(***************************************************************************)
(* Proofs about CalvinEpoch for every set of transactions, keys and        *)
(* executors, every read and write set, and whether or not the destructor  *)
(* runs, in three parts.                                                   *)
(*                                                                         *)
(* The pipeline: the inductive invariant Inv follows a transaction through *)
(* requests, the sequencer's epoch, the queue of epochs, the epoch being   *)
(* scanned, the DAG, the executors, the client.                            *)
(*                                                                         *)
(* The DAG of an epoch: its edges are those of the conflicts, its counts   *)
(* are exact however many executors count down at once, no transaction     *)
(* runs before the ones with an edge to it are decided, and every request  *)
(* is in one place.                                                        *)
(*                                                                         *)
(* The storage: under a key whose writers are separated by readers, every  *)
(* transaction reads what it would have read had the transactions run one  *)
(* at a time in the order of their arrival.                                *)
(***************************************************************************)
EXTENDS CalvinEpoch, QueueLemmas

-----------------------------------------------------------------------------
(* The inductive invariant. *)

Waiting == Elements(currEpoch) \cup Flat(epochQueue) \cup Elements(currentEpoch)
               \cup Elements(txnRequests)

\* The waiting transactions stand in the order of their ids, behind the DAG's.
PipelineOrdered ==
    /\ Increasing(currEpoch, uniqueId)
    /\ InOrder(epochQueue, uniqueId)
    /\ Increasing(currentEpoch, uniqueId)
    /\ Increasing(txnRequests, uniqueId)
    /\ Before(dagTxns, Waiting, uniqueId)
    /\ Before(Elements(currEpoch), Flat(epochQueue), uniqueId)
    /\ Before(Elements(currEpoch), Elements(currentEpoch), uniqueId)
    /\ Before(Elements(currEpoch), Elements(txnRequests), uniqueId)
    /\ Before(Flat(epochQueue), Elements(currentEpoch), uniqueId)
    /\ Before(Flat(epochQueue), Elements(txnRequests), uniqueId)
    /\ Before(Elements(currentEpoch), Elements(txnRequests), uniqueId)

\* Ids are given out in order; a transaction with an id is waiting, in the DAG
\* or decided, and one without an id has not been touched.
IdsAccounted ==
    /\ \A t \in Txns : uniqueId[t] < nextUniqueId
    /\ \A t \in Waiting \cup dagTxns : uniqueId[t] > 0
    /\ \A t \in Waiting : status[t] = "INCOMPLETE"
    /\ \A t \in Txns : uniqueId[t] = 0 => status[t] = "INCOMPLETE"
    /\ \A t \in Txns : uniqueId[t] > 0 => t \in Waiting \cup dagTxns \/ Decided(t)

\* What the scheduler's program counter says of the DAG.
SchedulerPhase ==
    /\ currentDag <=> schedPc = "dispatch"
    /\ schedPc # "build" => currEpoch = <<>>
    /\ schedPc \in {"idle", "exited"} => dagTxns = {} /\ rootTxns = <<>>
    /\ schedPc # "dispatch" => readyTxns = <<>>
    /\ schedPc = "build" => \A t \in dagTxns : status[t] = "INCOMPLETE"
    /\ \A p \in Txns : adjList[p] \subseteq dagTxns

\* A transaction of the DAG is a root not yet pushed, ready, held by one
\* executor, done, or blocked by a positive indegree: never two of these.
ScheduledOnce ==
    /\ Distinct(rootTxns)
    /\ Distinct(readyTxns)
    /\ Elements(rootTxns) \cap Elements(readyTxns) = {}
    /\ \A t \in Elements(rootTxns) \cup Elements(readyTxns) :
          t \in dagTxns /\ status[t] = "INCOMPLETE" /\ indegree[t] <= 0 /\ ~Running(t)
    /\ \A t \in dagTxns : indegree[t] > 0 => status[t] = "INCOMPLETE" /\ ~Running(t)

\* What an executor's program counter says of its transaction.
ExecutorPhase ==
    /\ \A w \in Threads : Busy(w) => currentDag /\ cur[w] \in dagTxns
    /\ \A w \in Threads : cur[w] = NoTxn <=> pc[w] \in {"idle", "exited"}
    /\ \A w, v \in Threads : cur[w] = cur[v] /\ cur[w] # NoTxn => w = v
    /\ \A w \in Threads :
          /\ pc[w] \in {"readset", "writeset"} => status[cur[w]] = "INCOMPLETE"
          /\ pc[w] = "decide" => status[cur[w]] \in {"COMPLETED_C", "COMPLETED_A"}
          /\ pc[w] = "apply" => status[cur[w]] = "COMPLETED_C"
          /\ pc[w] \in {"neighbors", "unblock", "result"} => Decided(cur[w])
          /\ pc[w] = "unblock" => todo[w] \subseteq dagTxns

\* num_txns_left_in_epoch counts what the epoch still has to do.
CountIsExact == schedPc = "dispatch" => numLeft = Cardinality(Undone)

\* What the client has, or will get, is finished with.
ResultsFinished ==
    \A t \in returned \cup Elements(txnResults) :
        Decided(t) /\ \A w \in Threads : cur[w] # t

Inv ==
    /\ TypeOK
    /\ PipelineOrdered
    /\ IdsAccounted
    /\ SchedulerPhase
    /\ ScheduledOnce
    /\ ExecutorPhase
    /\ CountIsExact
    /\ ResultsFinished

-----------------------------------------------------------------------------
(* Type correctness. *)

\* The values the scheduler's maps start from.
LEMMA EmptyTypes ==
  /\ NoHolders \in [Keys -> SUBSET Txns]
  /\ Idle \in [Keys -> Values]
  /\ NoEdges \in [Txns -> SUBSET Txns]
  /\ Zeros \in [Txns -> Int]
  BY DEF NoHolders, Idle, Values, NoEdges, Zeros

\* The initial state has the declared types.
LEMMA TypeInit == Init => TypeOK
<1> SUFFICES ASSUME Init PROVE TypeOK
  OBVIOUS
<1> USE CoreAssumption DEF Init, CoreInit
<1>1. ClientTypeOK
  BY DEF ClientTypeOK
<1>2. DataTypeOK
  BY DEF DataTypeOK, TxnStatus, Values
<1>3. ThreadTypeOK /\ pc \in [Threads -> BusyPcs \cup {"idle", "result", "exited"}]
  BY DEF ThreadTypeOK, Values
<1>4. EpochTypeOK
  <2>1. <<>> \in Seq(Txns) /\ <<>> \in Seq(Seq(Txns))
    OBVIOUS
  <2>2. /\ currentEpoch \in Seq(Txns) /\ currEpoch \in Seq(Txns) /\ rootTxns \in Seq(Txns)
        /\ readyTxns \in Seq(Txns) /\ epochQueue \in Seq(Seq(Txns))
    BY <2>1
  <2>3. /\ sharedHolders \in [Keys -> SUBSET Txns] /\ lastExcl \in [Keys -> Values]
        /\ adjList \in [Txns -> SUBSET Txns] /\ indegree \in [Txns -> Int]
    BY EmptyTypes
  <2>4. stopped \in BOOLEAN /\ currentDag \in BOOLEAN
    BY Zenon
  <2>5. /\ seqPc \in {"running", "closing", "exited"}
        /\ schedPc \in {"idle", "build", "dispatch", "exited"}
        /\ dagTxns \subseteq Txns /\ numLeft \in Nat
    OBVIOUS
  <2> QED
    BY <2>2, <2>3, <2>4, <2>5, Zenon DEF EpochTypeOK
<1> QED
  BY <1>1, <1>2, <1>3, <1>4 DEF TypeOK, CoreTypeOK

\* A thread that is not idle holds a transaction.
LEMMA HolderHolds ==
  ASSUME TypeOK, ExecutorPhase, NEW w \in Threads, pc[w] \notin {"idle", "exited"}
  PROVE  cur[w] \in Txns
  BY DEF TypeOK, CoreTypeOK, ThreadTypeOK, ExecutorPhase, Values

\* The parts of TypeOK a step leaves alone.
LEMMA TypeFrame ==
  ASSUME TypeOK
  PROVE  /\ UNCHANGED <<clientVars, txnRequests, txnResults>> => ClientTypeOK'
         /\ UNCHANGED dataVars => DataTypeOK'
         /\ UNCHANGED threadVars =>
              ThreadTypeOK' /\ (pc \in [Threads -> BusyPcs \cup {"idle", "result", "exited"}])'
         /\ UNCHANGED epochVars => EpochTypeOK'
         /\ ClientTypeOK /\ DataTypeOK /\ ThreadTypeOK /\ EpochTypeOK
  BY DEF TypeOK, CoreTypeOK, ClientTypeOK, DataTypeOK, ThreadTypeOK, EpochTypeOK,
         clientVars, dataVars, threadVars, epochVars, seqVars, buildVars, dagVars

\* Every step keeps the types; ExecutorPhase says that the transaction a step
\* pushes to a queue is one.
LEMMA TypeStep ==
  ASSUME TypeOK, ExecutorPhase, [Next]_vars,
         \A w \in Threads : CountDown(w) => numLeft > 0
  PROVE  TypeOK'
<1> DEFINE PcOK == pc \in [Threads -> BusyPcs \cup {"idle", "result", "exited"}]
<1>0. TypeOK' = (ClientTypeOK' /\ DataTypeOK' /\ ThreadTypeOK' /\ PcOK' /\ EpochTypeOK')
  BY DEF TypeOK, CoreTypeOK
<1>1. ASSUME NEW t \in Txns, Submit(t) PROVE TypeOK'
  <2>1. ClientTypeOK'
    BY <1>1, TypeFrame DEF Submit, NewTxnRequest, ClientTypeOK
  <2> QED
    BY <1>0, <1>1, <2>1, TypeFrame DEF Submit, NewTxnRequest
<1>2. CASE TakeResult
  <2>1. ClientTypeOK'
    BY <1>2, TypeFrame DEF TakeResult, GetTxnResult, ClientTypeOK
  <2> QED
    BY <1>0, <1>2, <2>1, TypeFrame DEF TakeResult, GetTxnResult
<1>3. CASE Stop \/ Sequencer \/ Scheduler
  <2> USE <1>0, TypeFrame DEF coreVars
  <2>1. CASE Stop
    BY <2>1 DEF Stop, EpochTypeOK, seqVars, buildVars, dagVars
  <2>2. CASE SequencerPop
    <3>1. Head(txnRequests) \in Txns /\ Tail(txnRequests) \in Seq(Txns)
      BY <2>2 DEF SequencerPop, ClientTypeOK
    <3>2. ClientTypeOK'
      BY <2>2, <3>1 DEF SequencerPop, ClientTypeOK, clientVars
    <3>3. EpochTypeOK'
      BY <2>2, <3>1 DEF SequencerPop, EpochTypeOK, buildVars, dagVars
    <3> QED
      BY <2>2, <3>2, <3>3 DEF SequencerPop
  <2>3. CASE CloseEpoch
    <3>1. EpochTypeOK'
      BY <2>3 DEF CloseEpoch, EpochTypeOK, buildVars, dagVars
    <3> QED
      BY <2>3, <3>1 DEF CloseEpoch
  <2>4. CASE SequencerExit
    BY <2>4 DEF SequencerExit, EpochTypeOK, buildVars, dagVars
  <2>5. CASE PopEpoch
    <3>1. Head(epochQueue) \in Seq(Txns) /\ Tail(epochQueue) \in Seq(Seq(Txns))
      BY <2>5 DEF PopEpoch, EpochTypeOK
    <3>2. EpochTypeOK'
      BY <2>5, <3>1 DEF PopEpoch, EpochTypeOK, seqVars, dagVars
    <3> QED
      BY <2>5, <3>2 DEF PopEpoch
  <2>6. CASE AddToDag
    <3> DEFINE t == Head(currEpoch)
    <3>1. t \in Txns /\ Tail(currEpoch) \in Seq(Txns)
      BY <2>6 DEF AddToDag, EpochTypeOK
    <3>2. HoldersAfterReads(t) \in [Keys -> SUBSET Txns]
      BY <3>1 DEF HoldersAfterReads, EpochTypeOK
    <3>3. Predecessors(t) \subseteq Txns
      <4>1. ReadPredecessors(t) \subseteq Txns
        BY <3>1, CoreAssumption DEF ReadPredecessors, EpochTypeOK, Values
      <4>2. WritePredecessors(t) \subseteq Txns
        BY <3>1, <3>2, CoreAssumption DEF WritePredecessors
      <4> QED
        BY <4>1, <4>2 DEF Predecessors
    <3>4. EdgesInto(t) \in Int
      BY <3>3, CoreAssumption, FS_Subset, FS_CardinalityType DEF EdgesInto
    <3>5. HoldersAfterWrites(t) \in [Keys -> SUBSET Txns]
      BY <3>2 DEF HoldersAfterWrites
    <3>6. LastExclAfter(t) \in [Keys -> Values]
      BY <3>1 DEF LastExclAfter, Values, EpochTypeOK
    <3>7. EpochTypeOK'
      <4> HIDE DEF t
      <4>1. /\ currEpoch' = Tail(currEpoch)
            /\ dagTxns' = dagTxns \cup {t}
            /\ adjList' = [p \in Txns |-> adjList[p] \cup {s \in {t} : p \in Predecessors(t)}]
            /\ indegree' = [indegree EXCEPT ![t] = EdgesInto(t)]
            /\ sharedHolders' = HoldersAfterWrites(t)
            /\ lastExcl' = LastExclAfter(t)
            /\ rootTxns' = IF Predecessors(t) = {} THEN Append(rootTxns, t) ELSE rootTxns
            /\ UNCHANGED <<stopped, seqVars, epochQueue, schedPc, currentDag, numLeft, readyTxns>>
        BY <2>6 DEF AddToDag, t
      <4> QED
        BY <3>1, <3>3, <3>4, <3>5, <3>6, <4>1 DEF EpochTypeOK, seqVars
    <3> QED
      BY <2>6, <3>7 DEF AddToDag
  <2>7. CASE PublishDag
    <3>1. EpochSize \in Nat
      BY CoreAssumption, FS_Subset, FS_CardinalityType DEF EpochSize, EpochTypeOK
    <3> QED
      BY <2>7, <3>1 DEF PublishDag, EpochTypeOK, seqVars, buildVars, dagVars
  <2>8. CASE PushRoot
    <3>1. Head(rootTxns) \in Txns /\ Tail(rootTxns) \in Seq(Txns)
      BY <2>8 DEF PushRoot, EpochTypeOK
    <3>2. EpochTypeOK'
      BY <2>8, <3>1 DEF PushRoot, EpochTypeOK, seqVars, buildVars
    <3> QED
      BY <2>8, <3>2 DEF PushRoot
  <2>9. CASE FreeDag
    <3>1. EpochTypeOK'
      BY <2>9, EmptyTypes DEF FreeDag, EpochTypeOK, seqVars
    <3> QED
      BY <2>9, <3>1 DEF FreeDag
  <2>10. CASE SchedulerExit
    BY <2>10 DEF SchedulerExit, EpochTypeOK, seqVars, buildVars, dagVars
  <2> QED
    BY <1>3, <2>1, <2>2, <2>3, <2>4, <2>5, <2>6, <2>7, <2>8, <2>9, <2>10
    DEF Sequencer, Scheduler
<1>4. ASSUME NEW w \in Threads, Executor(w) PROVE TypeOK'
  <2> USE <1>0, TypeFrame, CoreAssumption DEF BusyPcs, Goto
  <2>1. CASE PopReady(w)
    <3>1. Head(readyTxns) \in Txns /\ Tail(readyTxns) \in Seq(Txns)
      BY <2>1 DEF PopReady, EpochTypeOK
    <3>2. ThreadTypeOK' /\ PcOK'
      BY <2>1, <3>1 DEF PopReady, StartExecute, Values, ThreadTypeOK, TypeOK
    <3>3. EpochTypeOK'
      BY <2>1, <3>1 DEF PopReady, EpochTypeOK, seqVars, buildVars, dagVars
    <3> QED
      BY <2>1, <3>2, <3>3 DEF PopReady
  <2>2. CASE ExecuteAndDecide(w)
    <3>0. /\ UNCHANGED <<clientVars, txnRequests, txnResults, epochVars>>
          /\ pc[w] \notin {"idle", "exited"} => cur[w] \in Txns
      BY <2>2, HolderHolds DEF ExecuteAndDecide
    <3>1. CASE ReadRecord(w)
      <4> PICK k \in Keys : /\ reads' = [reads EXCEPT ![cur[w]][k] = storage[k]]
                            /\ todo' = [todo EXCEPT ![w] = todo[w] \ {k}]
        BY <3>1 DEF ReadRecord
      <4>1. DataTypeOK'
        BY <3>0, <3>1 DEF ReadRecord, DataTypeOK
      <4> QED
        BY <3>0, <3>1, <4>1 DEF ReadRecord, ThreadTypeOK, TypeOK
    <3>2. CASE EndReadset(w)
      BY <3>0, <3>2 DEF EndReadset, ThreadTypeOK, TypeOK
    <3>3. CASE Run(w, "decide")
      <4>1. DataTypeOK'
        BY <3>0, <3>3 DEF Run, DataTypeOK, TxnStatus
      <4> QED
        BY <3>0, <3>3, <4>1 DEF Run, ThreadTypeOK, TypeOK
    <3>4. CASE StartApply(w)
      BY <3>0, <3>4 DEF StartApply, ThreadTypeOK, TypeOK
    <3>5. CASE ApplyWrite(w)
      <4> PICK k \in Keys : /\ storage' = [storage EXCEPT ![k] = cur[w]]
                            /\ todo' = [todo EXCEPT ![w] = todo[w] \ {k}]
        BY <3>5 DEF ApplyWrite
      <4>1. DataTypeOK'
        BY <3>0, <3>5 DEF ApplyWrite, DataTypeOK, Values
      <4> QED
        BY <3>0, <3>5, <4>1 DEF ApplyWrite, ThreadTypeOK, TypeOK
    <3>6. CASE Commit(w, "neighbors")
      <4>1. DataTypeOK'
        BY <3>0, <3>6 DEF Commit, DataTypeOK, TxnStatus
      <4> QED
        BY <3>0, <3>6, <4>1 DEF Commit, ThreadTypeOK, TypeOK
    <3>7. CASE Abort(w, "neighbors")
      <4>1. DataTypeOK'
        BY <3>7 DEF Abort, DataTypeOK, TxnStatus
      <4> QED
        BY <3>0, <3>7, <4>1 DEF Abort, ThreadTypeOK, TypeOK
    <3> QED
      BY <2>2, <3>1, <3>2, <3>3, <3>4, <3>5, <3>6, <3>7 DEF ExecuteAndDecide
  <2>3. CASE CopyNeighbors(w)
    <3>1. cur[w] \in Txns
      BY <2>3, HolderHolds DEF CopyNeighbors
    <3>2. ThreadTypeOK' /\ PcOK'
      BY <2>3, <3>1 DEF CopyNeighbors, ThreadTypeOK, TypeOK, EpochTypeOK
    <3> QED
      BY <2>3, <3>2 DEF CopyNeighbors
  <2>4. ASSUME NEW t \in Txns, UnblockNeighbor(w, t) PROVE TypeOK'
    <3>1. ThreadTypeOK' /\ PcOK'
      BY <2>4 DEF UnblockNeighbor, ThreadTypeOK, TypeOK
    <3>2. EpochTypeOK'
      BY <2>4 DEF UnblockNeighbor, EpochTypeOK, seqVars, buildVars
    <3> QED
      BY <2>4, <3>1, <3>2 DEF UnblockNeighbor
  <2>5. CASE CountDown(w)
    <3>1. ThreadTypeOK' /\ PcOK'
      BY <2>5 DEF CountDown, ThreadTypeOK, TypeOK
    <3>0. numLeft \in Nat => numLeft - 1 \in Nat
      BY <2>5
    <3>2. EpochTypeOK'
      BY <2>5, <3>0 DEF CountDown, EpochTypeOK, seqVars, buildVars, dagVars
    <3> QED
      BY <2>5, <3>1, <3>2 DEF CountDown
  <2>6. CASE ReturnResult(w)
    <3>1. cur[w] \in Txns
      BY <2>6, HolderHolds DEF ReturnResult, PushResult
    <3>2. ThreadTypeOK' /\ PcOK'
      BY <2>6 DEF ReturnResult, PushResult, ThreadTypeOK, TypeOK, Values
    <3>3. ClientTypeOK'
      BY <2>6, <3>1 DEF ReturnResult, PushResult, ClientTypeOK, clientVars
    <3> QED
      BY <2>6, <3>2, <3>3 DEF ReturnResult, PushResult
  <2>7. CASE ExecutorExit(w)
    BY <2>7 DEF ExecutorExit, ThreadTypeOK, TypeOK
  <2> QED
    BY <1>4, <2>1, <2>2, <2>3, <2>4, <2>5, <2>6, <2>7 DEF Executor
<1>5. CASE UNCHANGED vars
  BY <1>0, <1>5, TypeFrame DEF vars, coreVars
<1> QED
  BY <1>1, <1>2, <1>3, <1>4, <1>5 DEF Next, Terminating

-----------------------------------------------------------------------------
(* The order of the pipeline. *)

\* The types of the pipeline's parts.
LEMMA PipelineTypes ==
  ASSUME TypeOK
  PROVE  /\ uniqueId \in [Txns -> Nat] /\ nextUniqueId \in Nat
         /\ txnRequests \in Seq(Txns) /\ currentEpoch \in Seq(Txns)
         /\ epochQueue \in Seq(Seq(Txns)) /\ currEpoch \in Seq(Txns)
         /\ dagTxns \subseteq Txns /\ Waiting \subseteq Txns
         /\ status \in [Txns -> TxnStatus]
<1>1. /\ uniqueId \in [Txns -> Nat] /\ nextUniqueId \in Nat
      /\ txnRequests \in Seq(Txns) /\ currentEpoch \in Seq(Txns)
      /\ epochQueue \in Seq(Seq(Txns)) /\ currEpoch \in Seq(Txns)
      /\ dagTxns \subseteq Txns /\ status \in [Txns -> TxnStatus]
  BY DEF TypeOK, CoreTypeOK, ClientTypeOK, DataTypeOK, EpochTypeOK
<1>2. Waiting \subseteq Txns
  BY <1>1, ElementsType, FlatType DEF Waiting
<1> QED
  BY <1>1, <1>2

pipelineVars == <<uniqueId, txnRequests, currentEpoch, epochQueue, currEpoch, dagTxns>>

\* The steps that move no transaction along the pipeline.
LEMMA PipelineFrame ==
  ASSUME [Next]_vars
  PROVE  \/ UNCHANGED pipelineVars
         \/ (\E t \in Txns : Submit(t)) \/ SequencerPop \/ CloseEpoch
         \/ PopEpoch \/ AddToDag \/ FreeDag
<1> USE DEF pipelineVars, vars, coreVars, clientVars, epochVars, seqVars, buildVars, dagVars
<1>1. CASE TakeResult \/ Stop
  BY <1>1 DEF TakeResult, GetTxnResult, Stop
<1>2. CASE Sequencer
  BY <1>2 DEF Sequencer, SequencerExit
<1>3. CASE Scheduler
  BY <1>3 DEF Scheduler, PublishDag, PushRoot, SchedulerExit
<1>4. ASSUME NEW w \in Threads, Executor(w) PROVE UNCHANGED pipelineVars
  BY <1>4 DEF Executor, PopReady, ExecuteAndDecide, CopyNeighbors, UnblockNeighbor, CountDown,
              ReturnResult, PushResult, ExecutorExit
<1> QED
  BY <1>1, <1>2, <1>3, <1>4 DEF Next, Terminating

\* Every step keeps the waiting transactions in the order of their ids.
LEMMA PipelineStep ==
  ASSUME TypeOK, PipelineOrdered, IdsAccounted, SchedulerPhase, [Next]_vars
  PROVE  PipelineOrdered'
<1> USE PipelineTypes
<1>1. ASSUME UNCHANGED pipelineVars PROVE PipelineOrdered'
  BY <1>1 DEF PipelineOrdered, pipelineVars, Waiting
<1>2. ASSUME NEW t \in Txns, Submit(t) PROVE PipelineOrdered'
  <2>1. /\ uniqueId[t] = 0 /\ uniqueId' = [uniqueId EXCEPT ![t] = nextUniqueId]
        /\ txnRequests' = Append(txnRequests, t)
        /\ UNCHANGED <<currentEpoch, epochQueue, currEpoch, dagTxns>>
    BY <1>2 DEF Submit, NewTxnRequest, epochVars, seqVars, buildVars, dagVars
  <2>2. \A s \in Waiting \cup dagTxns : uniqueId'[s] = uniqueId[s] /\ uniqueId[s] < nextUniqueId
    BY <2>1 DEF IdsAccounted
  <2>3. uniqueId'[t] = nextUniqueId /\ uniqueId' \in [Txns -> Nat]
    BY <2>1
  <2>4. Elements(txnRequests') = Elements(txnRequests) \cup {t}
    BY <2>1, ElementsAppend
  <2>5. Increasing(currEpoch, uniqueId') /\ Increasing(currentEpoch, uniqueId')
        /\ Increasing(txnRequests, uniqueId') /\ InOrder(epochQueue, uniqueId')
    BY <2>2, IncreasingSame, InOrderSame DEF Waiting, PipelineOrdered
  <2>6. Before(Elements(txnRequests), {t}, uniqueId')
    BY <2>2, <2>3 DEF Before, Waiting
  <2>7. Increasing(txnRequests', uniqueId')
    BY <2>1, <2>3, <2>5, <2>6, IncreasingAppend
  <2>8. /\ Before(dagTxns, Waiting, uniqueId') /\ Before(dagTxns, {t}, uniqueId')
        /\ Before(Elements(currEpoch), Flat(epochQueue), uniqueId')
        /\ Before(Elements(currEpoch), Elements(currentEpoch), uniqueId')
        /\ Before(Elements(currEpoch), Elements(txnRequests) \cup {t}, uniqueId')
        /\ Before(Flat(epochQueue), Elements(currentEpoch), uniqueId')
        /\ Before(Flat(epochQueue), Elements(txnRequests) \cup {t}, uniqueId')
        /\ Before(Elements(currentEpoch), Elements(txnRequests) \cup {t}, uniqueId')
    BY <2>2, <2>3 DEF Before, Waiting, PipelineOrdered
  <2>9. Waiting' = Waiting \cup {t}
    BY <2>1, <2>4 DEF Waiting
  <2>10. Before(dagTxns, Waiting \cup {t}, uniqueId')
    BY <2>8 DEF Before
  <2> QED
    BY <2>1, <2>4, <2>5, <2>7, <2>8, <2>9, <2>10 DEF PipelineOrdered
<1>3. CASE SequencerPop
  <2> DEFINE h == Head(txnRequests)
  <2>1. /\ txnRequests # <<>> /\ currentEpoch' = Append(currentEpoch, h)
        /\ txnRequests' = Tail(txnRequests)
        /\ UNCHANGED <<uniqueId, epochQueue, currEpoch, dagTxns>>
    BY <1>3 DEF SequencerPop, clientVars, buildVars, dagVars
  <2>2. h \in Txns /\ Elements(txnRequests) = {h} \cup Elements(txnRequests')
    BY <2>1, ElementsTail
  <2>3. Elements(currentEpoch') = Elements(currentEpoch) \cup {h}
    BY <2>1, <2>2, ElementsAppend
  <2>4. Increasing(txnRequests', uniqueId) /\ Before({h}, Elements(txnRequests'), uniqueId)
    BY <2>1, IncreasingTail DEF PipelineOrdered
  <2>5. Increasing(currentEpoch', uniqueId)
    <3>1. Before(Elements(currentEpoch), {h}, uniqueId)
      BY <2>2 DEF PipelineOrdered, Before
    <3> QED
      BY <2>1, <2>2, <3>1, IncreasingAppend DEF PipelineOrdered
  <2>6. Waiting' = Waiting
    BY <2>1, <2>2, <2>3 DEF Waiting
  <2>7. /\ Before(Elements(currEpoch), Elements(currentEpoch'), uniqueId)
        /\ Before(Elements(currEpoch), Elements(txnRequests'), uniqueId)
        /\ Before(Flat(epochQueue), Elements(currentEpoch'), uniqueId)
        /\ Before(Flat(epochQueue), Elements(txnRequests'), uniqueId)
        /\ Before(Elements(currentEpoch'), Elements(txnRequests'), uniqueId)
    BY <2>2, <2>3, <2>4 DEF PipelineOrdered, Before
  <2> QED
    BY <2>1, <2>4, <2>5, <2>6, <2>7 DEF PipelineOrdered
<1>4. CASE CloseEpoch
  <2>1. /\ epochQueue' = Append(epochQueue, currentEpoch) /\ currentEpoch' = <<>>
        /\ UNCHANGED <<uniqueId, txnRequests, currEpoch, dagTxns>>
    BY <1>4 DEF CloseEpoch, coreVars, clientVars, buildVars, dagVars
  <2>2. Flat(epochQueue') = Flat(epochQueue) \cup Elements(currentEpoch)
    BY <2>1, FlatAppend
  <2>3. Elements(currentEpoch') = {} /\ Increasing(currentEpoch', uniqueId)
    BY <2>1, ElementsEmpty DEF Increasing
  <2>4. InOrder(epochQueue', uniqueId)
    BY <2>1, InOrderAppend DEF PipelineOrdered
  <2>5. Waiting' = Waiting
    BY <2>1, <2>2, <2>3 DEF Waiting
  <2>6. /\ Before(Elements(currEpoch), Flat(epochQueue'), uniqueId)
        /\ Before(Flat(epochQueue'), Elements(txnRequests), uniqueId)
        /\ \A A : Before(A, Elements(currentEpoch'), uniqueId)
        /\ \A A : Before(Elements(currentEpoch'), A, uniqueId)
    BY <2>2, <2>3 DEF PipelineOrdered, Before
  <2> QED
    BY <2>1, <2>3, <2>4, <2>5, <2>6 DEF PipelineOrdered
<1>5. CASE PopEpoch
  <2>1. /\ epochQueue # <<>> /\ currEpoch' = Head(epochQueue) /\ epochQueue' = Tail(epochQueue)
        /\ UNCHANGED <<uniqueId, txnRequests, currentEpoch, dagTxns>>
        /\ currEpoch = <<>>
    BY <1>5 DEF PopEpoch, coreVars, clientVars, seqVars, dagVars, SchedulerPhase
  <2>2. Flat(epochQueue) = Elements(currEpoch') \cup Flat(epochQueue')
    BY <2>1, FlatTail
  <2>3. /\ Increasing(currEpoch', uniqueId) /\ InOrder(epochQueue', uniqueId)
        /\ Before(Elements(currEpoch'), Flat(epochQueue'), uniqueId)
    BY <2>1, InOrderTail DEF PipelineOrdered
  <2>4. Waiting' = Waiting
    BY <2>1, <2>2, ElementsEmpty DEF Waiting
  <2>5. /\ Before(Elements(currEpoch'), Elements(currentEpoch), uniqueId)
        /\ Before(Elements(currEpoch'), Elements(txnRequests), uniqueId)
        /\ Before(Flat(epochQueue'), Elements(currentEpoch), uniqueId)
        /\ Before(Flat(epochQueue'), Elements(txnRequests), uniqueId)
    BY <2>2 DEF PipelineOrdered, Before
  <2> QED
    BY <2>1, <2>3, <2>4, <2>5 DEF PipelineOrdered
<1>6. CASE AddToDag
  <2> DEFINE h == Head(currEpoch)
  <2>1. /\ currEpoch # <<>> /\ currEpoch' = Tail(currEpoch) /\ dagTxns' = dagTxns \cup {h}
        /\ UNCHANGED <<uniqueId, txnRequests, currentEpoch, epochQueue>>
    BY <1>6 DEF AddToDag, coreVars, clientVars, seqVars
  <2>2. h \in Txns /\ Elements(currEpoch) = {h} \cup Elements(currEpoch')
    BY <2>1, ElementsTail
  <2>3. Increasing(currEpoch', uniqueId) /\ Before({h}, Elements(currEpoch'), uniqueId)
    BY <2>1, IncreasingTail DEF PipelineOrdered
  <2>4. /\ Before(Elements(currEpoch'), Flat(epochQueue), uniqueId)
        /\ Before(Elements(currEpoch'), Elements(currentEpoch), uniqueId)
        /\ Before(Elements(currEpoch'), Elements(txnRequests), uniqueId)
    BY <2>2 DEF PipelineOrdered, Before
  <2>5. Before(dagTxns', Waiting', uniqueId)
    BY <2>1, <2>2, <2>3 DEF PipelineOrdered, Before, Waiting
  <2> QED
    BY <2>1, <2>3, <2>4, <2>5 DEF PipelineOrdered
<1>7. CASE FreeDag
  <2>1. /\ dagTxns' = {}
        /\ UNCHANGED <<uniqueId, txnRequests, currentEpoch, epochQueue, currEpoch>>
    BY <1>7 DEF FreeDag, coreVars, clientVars, seqVars
  <2> QED
    BY <2>1 DEF PipelineOrdered, Before, Waiting
<1> QED
  BY <1>1, <1>2, <1>3, <1>4, <1>5, <1>6, <1>7, PipelineFrame

-----------------------------------------------------------------------------
(* What the steps of an executor do, said once. *)

\* Nothing but the executor's own transaction changes while it executes and
\* decides it, and it stays busy with it.
LEMMA ExecuteEffect ==
  ASSUME TypeOK, ExecutorPhase, NEW w \in Threads, ExecuteAndDecide(w)
  PROVE  /\ UNCHANGED <<clientVars, txnRequests, txnResults, epochVars, cur>>
         /\ pc[w] \in {"readset", "writeset", "decide", "apply"}
         /\ pc'[w] \in {"readset", "writeset", "decide", "apply", "neighbors"}
         /\ \A v \in Threads : v # w => pc'[v] = pc[v] /\ todo'[v] = todo[v]
         /\ cur[w] \in Txns
         /\ ~Decided(cur[w])
         /\ \A t \in Txns : t # cur[w] => status'[t] = status[t]
         /\ pc'[w] \in {"readset", "writeset"} => status'[cur[w]] = "INCOMPLETE"
         /\ pc'[w] = "decide" => status'[cur[w]] \in {"COMPLETED_C", "COMPLETED_A"}
         /\ pc'[w] = "apply" => status'[cur[w]] = "COMPLETED_C"
         /\ pc'[w] = "neighbors" => status'[cur[w]] \in {"COMMITTED", "ABORTED"}
<1> USE DEF Goto
<1>1. /\ pc \in [Threads -> BusyPcs \cup {"idle", "result", "exited"}]
      /\ todo \in [Threads -> SUBSET (Keys \cup Txns)] /\ status \in [Txns -> TxnStatus]
  BY DEF TypeOK, CoreTypeOK, ThreadTypeOK, DataTypeOK
<1>2. pc[w] \notin {"idle", "exited"} => cur[w] \in Txns
  BY HolderHolds
<1>3. UNCHANGED <<clientVars, txnRequests, txnResults, epochVars>>
  BY DEF ExecuteAndDecide
<1>4. /\ pc[w] \in {"readset", "writeset"} => status[cur[w]] = "INCOMPLETE"
      /\ pc[w] = "apply" => status[cur[w]] = "COMPLETED_C"
  BY DEF ExecutorPhase
<1>5. CASE ReadRecord(w)
  BY <1>1, <1>2, <1>3, <1>4, <1>5 DEF ReadRecord, Decided
<1>6. CASE EndReadset(w)
  BY <1>1, <1>2, <1>3, <1>4, <1>6 DEF EndReadset, Decided, dataVars
<1>7. CASE Run(w, "decide")
  BY <1>1, <1>2, <1>3, <1>4, <1>7 DEF Run, Decided
<1>8. CASE StartApply(w)
  BY <1>1, <1>2, <1>3, <1>8 DEF StartApply, Decided, dataVars
<1>9. CASE ApplyWrite(w)
  BY <1>1, <1>2, <1>3, <1>4, <1>9 DEF ApplyWrite, Decided
<1>10. CASE Commit(w, "neighbors")
  BY <1>1, <1>2, <1>3, <1>4, <1>10 DEF Commit, Decided
<1>11. CASE Abort(w, "neighbors")
  BY <1>1, <1>2, <1>3, <1>11 DEF Abort, Decided
<1> QED
  BY <1>5, <1>6, <1>7, <1>8, <1>9, <1>10, <1>11 DEF ExecuteAndDecide

\* While it does so, which transactions run and which are undone stays the same.
LEMMA ExecuteKeepsUndone ==
  ASSUME TypeOK, ExecutorPhase, NEW w \in Threads, ExecuteAndDecide(w)
  PROVE  /\ \A v \in Threads : Busy(v)' <=> Busy(v)
         /\ \A t \in Txns : Running(t)' <=> Running(t)
         /\ Undone' = Undone
<1>1. \A v \in Threads : Busy(v)' <=> Busy(v)
  BY ExecuteEffect DEF Busy, BusyPcs
<1>2. cur' = cur /\ dagTxns' = dagTxns
  BY ExecuteEffect DEF epochVars, dagVars
<1>3. \A t : Running(t)' <=> Running(t)
  BY <1>1, <1>2 DEF Running, Holds
<1>4. Running(cur[w])
  BY ExecuteEffect DEF Running, Holds, Busy, BusyPcs
<1>5. \A t \in Txns : t # cur[w] => (Decided(t)' <=> Decided(t))
  BY ExecuteEffect DEF Decided
<1>6. dagTxns \subseteq Txns
  BY PipelineTypes
<1> QED
  BY <1>1, <1>2, <1>3, <1>4, <1>5, <1>6 DEF Undone

\* No executor is busy but while the scheduler waits for the epoch to end.
LEMMA BusyOnlyInDispatch ==
  ASSUME SchedulerPhase, ExecutorPhase, NEW w \in Threads, Busy(w)
  PROVE  schedPc = "dispatch" /\ cur[w] \in dagTxns /\ Running(cur[w])
  BY DEF SchedulerPhase, ExecutorPhase, Running, Holds

\* When the count has reached zero the epoch really is over.
LEMMA NothingLeft ==
  ASSUME TypeOK, SchedulerPhase, ScheduledOnce, ExecutorPhase, CountIsExact, FreeDag
  PROVE  /\ \A w \in Threads : ~Busy(w)
         /\ \A t \in dagTxns : Decided(t)
         /\ readyTxns = <<>>
<1>1. Undone = {}
  <2>1. schedPc = "dispatch" /\ ~(numLeft > 0)
    BY DEF FreeDag, EpochOver
  <2>2. IsFiniteSet(Undone)
    BY CoreAssumption, FS_Subset, PipelineTypes DEF Undone
  <2>3. Cardinality(Undone) = 0
    BY <2>1, <2>2, FS_CardinalityType DEF CountIsExact
  <2> QED
    BY <2>2, <2>3, FS_EmptySet
<1>2. \A w \in Threads : ~Busy(w)
  BY <1>1, BusyOnlyInDispatch DEF Undone
<1>3. \A t \in dagTxns : Decided(t)
  BY <1>1 DEF Undone
<1>4. readyTxns = <<>>
  <2>1. readyTxns \in Seq(Txns)
    BY DEF TypeOK, EpochTypeOK
  <2>2. Elements(readyTxns) = {}
    BY <1>3 DEF ScheduledOnce, Decided
  <2> QED
    BY <2>1, <2>2, ElementsNonEmpty
<1> QED
  BY <1>2, <1>3, <1>4

-----------------------------------------------------------------------------
(* Ids. *)

\* What moving along the pipeline does to the waiting transactions.
LEMMA WaitingStep ==
  ASSUME TypeOK, SchedulerPhase, [Next]_vars
  PROVE  /\ (\E t \in Txns : Submit(t)) \/ Waiting' \subseteq Waiting
         /\ AddToDag \/ FreeDag \/ (\E t \in Txns : Submit(t)) \/ Waiting' \cup dagTxns' = Waiting \cup dagTxns
         /\ AddToDag => /\ Waiting = Waiting' \cup {Head(currEpoch)}
                        /\ dagTxns' = dagTxns \cup {Head(currEpoch)}
                        /\ Head(currEpoch) \in Txns
<1> USE PipelineTypes
<1>1. CASE UNCHANGED pipelineVars
  <2>1. Waiting' = Waiting /\ dagTxns' = dagTxns
    BY <1>1 DEF pipelineVars, Waiting
  <2>2. ~AddToDag
    <3>1. AddToDag => currEpoch # <<>> /\ currEpoch' = Tail(currEpoch)
      BY DEF AddToDag
    <3> QED
      BY <1>1, <3>1 DEF pipelineVars
  <2> QED
    BY <2>1, <2>2
<1>2. CASE SequencerPop
  <2> DEFINE h == Head(txnRequests)
  <2>1. /\ txnRequests # <<>> /\ currentEpoch' = Append(currentEpoch, h)
        /\ txnRequests' = Tail(txnRequests) /\ ~AddToDag
        /\ UNCHANGED <<epochQueue, currEpoch, dagTxns>>
    BY <1>2 DEF SequencerPop, AddToDag, buildVars, dagVars, coreVars
  <2>2. h \in Txns /\ Elements(txnRequests) = {h} \cup Elements(txnRequests')
    BY <2>1, ElementsTail
  <2>3. Elements(currentEpoch') = Elements(currentEpoch) \cup {h}
    BY <2>1, <2>2, ElementsAppend
  <2> QED
    BY <2>1, <2>2, <2>3 DEF Waiting
<1>3. CASE CloseEpoch
  <2>1. /\ epochQueue' = Append(epochQueue, currentEpoch) /\ currentEpoch' = <<>> /\ ~AddToDag
        /\ UNCHANGED <<txnRequests, currEpoch, dagTxns>>
    BY <1>3 DEF CloseEpoch, AddToDag, coreVars, buildVars, dagVars
  <2>2. Flat(epochQueue') = Flat(epochQueue) \cup Elements(currentEpoch)
    BY <2>1, FlatAppend
  <2> QED
    BY <2>1, <2>2, ElementsEmpty DEF Waiting
<1>4. CASE PopEpoch
  <2>1. /\ epochQueue # <<>> /\ currEpoch' = Head(epochQueue) /\ epochQueue' = Tail(epochQueue)
        /\ UNCHANGED <<txnRequests, currentEpoch, dagTxns>> /\ currEpoch = <<>> /\ ~AddToDag
    BY <1>4 DEF PopEpoch, AddToDag, coreVars, seqVars, dagVars, SchedulerPhase
  <2>2. Flat(epochQueue) = Elements(currEpoch') \cup Flat(epochQueue')
    BY <2>1, FlatTail
  <2> QED
    BY <2>1, <2>2, ElementsEmpty DEF Waiting
<1>5. CASE AddToDag
  <2>1. /\ currEpoch # <<>> /\ currEpoch' = Tail(currEpoch)
        /\ dagTxns' = dagTxns \cup {Head(currEpoch)}
        /\ UNCHANGED <<txnRequests, currentEpoch, epochQueue>>
    BY <1>5 DEF AddToDag, coreVars, seqVars
  <2>2. Head(currEpoch) \in Txns /\ Elements(currEpoch) = {Head(currEpoch)} \cup Elements(currEpoch')
    BY <2>1, ElementsTail
  <2> QED
    BY <1>5, <2>1, <2>2 DEF Waiting
<1>6. CASE FreeDag
  BY <1>6 DEF FreeDag, AddToDag, coreVars, seqVars, Waiting
<1>7. ASSUME NEW t \in Txns, Submit(t) PROVE ~AddToDag
  <2>1. AddToDag => currEpoch # <<>> /\ currEpoch' = Tail(currEpoch)
    BY DEF AddToDag
  <2>2. currEpoch' = currEpoch
    BY <1>7 DEF Submit, epochVars, buildVars
  <2> QED
    BY <2>1, <2>2
<1> QED
  BY <1>1, <1>2, <1>3, <1>4, <1>5, <1>6, <1>7, PipelineFrame

\* Statuses and ids change only where an executor decides or a client submits.
LEMMA StatusFrame ==
  ASSUME [Next]_vars
  PROVE  \/ \E t \in Txns : Submit(t)
         \/ \E w \in Threads : ExecuteAndDecide(w)
         \/ UNCHANGED <<status, uniqueId, nextUniqueId>>
<1> USE DEF vars, coreVars, clientVars, dataVars
<1>1. CASE TakeResult \/ Stop
  BY <1>1 DEF TakeResult, GetTxnResult, Stop
<1>2. CASE Sequencer
  BY <1>2 DEF Sequencer, SequencerPop, CloseEpoch, SequencerExit
<1>3. CASE Scheduler
  BY <1>3 DEF Scheduler, PopEpoch, AddToDag, PublishDag, PushRoot, FreeDag, SchedulerExit
<1>4. ASSUME NEW w \in Threads, Executor(w), ~ExecuteAndDecide(w)
      PROVE  UNCHANGED <<status, uniqueId, nextUniqueId>>
  BY <1>4 DEF Executor, PopReady, CopyNeighbors, UnblockNeighbor, CountDown, ReturnResult,
              PushResult, ExecutorExit
<1> QED
  BY <1>1, <1>2, <1>3, <1>4 DEF Next, Terminating

\* Every step accounts for all ids.
LEMMA IdsStep ==
  ASSUME Inv, [Next]_vars
  PROVE  IdsAccounted'
<1> USE PipelineTypes DEF Inv
<1>1. ASSUME NEW t \in Txns, Submit(t) PROVE IdsAccounted'
  <2>1. /\ uniqueId[t] = 0 /\ uniqueId' = [uniqueId EXCEPT ![t] = nextUniqueId]
        /\ nextUniqueId' = nextUniqueId + 1 /\ txnRequests' = Append(txnRequests, t)
        /\ UNCHANGED <<currentEpoch, epochQueue, currEpoch, dagTxns, status>>
    BY <1>1 DEF Submit, NewTxnRequest, epochVars, seqVars, buildVars, dagVars, dataVars
  <2>2. Waiting' = Waiting \cup {t}
    BY <2>1, ElementsAppend DEF Waiting
  <2>3. nextUniqueId > 0
    BY DEF TypeOK, CoreTypeOK, ClientTypeOK
  <2> QED
    BY <2>1, <2>2, <2>3 DEF IdsAccounted, Decided
<1>2. ASSUME ~(\E t \in Txns : Submit(t)) PROVE IdsAccounted'
  <2>1. Waiting' \subseteq Waiting
    BY <1>2, WaitingStep
  <2>2. Waiting' \cup dagTxns' \subseteq Waiting \cup dagTxns
    <3>1. CASE AddToDag
      BY <3>1, WaitingStep
    <3>2. CASE FreeDag
      BY <2>1, <3>2 DEF FreeDag
    <3> QED
      BY <1>2, <3>1, <3>2, WaitingStep
  <2>3. ASSUME NEW t \in Waiting \cup dagTxns, t \notin Waiting' \cup dagTxns' PROVE Decided(t)
    <3>1. FreeDag /\ ~AddToDag
      BY <1>2, <2>3, WaitingStep
    <3>2. Waiting' = Waiting
      BY <3>1 DEF FreeDag, coreVars, seqVars, Waiting
    <3> QED
      BY <2>3, <3>1, <3>2, NothingLeft
  <2>4. CASE UNCHANGED <<status, uniqueId, nextUniqueId>>
    BY <2>1, <2>2, <2>3, <2>4 DEF IdsAccounted, Decided
  <2>5. ASSUME NEW w \in Threads, ExecuteAndDecide(w) PROVE IdsAccounted'
    <3>1. UNCHANGED <<uniqueId, nextUniqueId, dagTxns, currEpoch, epochQueue, currentEpoch, txnRequests>>
      BY <2>5, ExecuteEffect DEF clientVars, epochVars, seqVars, buildVars, dagVars
    <3>2. cur[w] \in dagTxns
      BY <2>5, ExecuteEffect DEF ExecutorPhase, Busy, BusyPcs
    <3>3. cur[w] \notin Waiting
      BY <3>2 DEF PipelineOrdered, Before
    <3>4. \A t \in Txns : t # cur[w] => status'[t] = status[t]
      BY <2>5, ExecuteEffect
    <3>5. Waiting' = Waiting
      BY <3>1 DEF Waiting
    <3>6. uniqueId[cur[w]] > 0
      BY <3>2 DEF IdsAccounted
    <3>7. \A t \in Txns : Decided(t) => Decided(t)' \/ t \in dagTxns
      BY <3>2, <3>4 DEF Decided
    <3>8. \A t \in Waiting : status'[t] = "INCOMPLETE"
      BY <3>3, <3>4 DEF IdsAccounted
    <3>9. \A t \in Txns : uniqueId[t] = 0 => status'[t] = "INCOMPLETE"
      BY <3>4, <3>6 DEF IdsAccounted
    <3> HIDE DEF Inv
    <3>10. IdsAccounted
      BY DEF Inv
    <3> QED
      BY <3>1, <3>5, <3>7, <3>8, <3>9, <3>10 DEF IdsAccounted
  <2> QED
    BY <1>2, <2>4, <2>5, StatusFrame
<1> QED
  BY <1>1, <1>2

-----------------------------------------------------------------------------
(* The scheduler. *)

\* A transaction about to enter the DAG is not in it and has not run.
LEMMA NewcomerIsNew ==
  ASSUME Inv, AddToDag
  PROVE  LET h == Head(currEpoch)
         IN  h \in Txns /\ h \notin dagTxns /\ status[h] = "INCOMPLETE"
<1> DEFINE h == Head(currEpoch)
<1> USE DEF Inv
<1>1. currEpoch # <<>>
  BY DEF AddToDag
<1>2. h \in Txns /\ h \in Elements(currEpoch)
  BY <1>1, PipelineTypes, ElementsTail
<1>3. h \in Waiting
  BY <1>2 DEF Waiting
<1>4. h \notin dagTxns
  BY <1>2, <1>3, PipelineTypes DEF PipelineOrdered, Before
<1> QED
  BY <1>2, <1>3, <1>4 DEF IdsAccounted

\* Every step agrees with the scheduler's program counter.
LEMMA SchedulerStep ==
  ASSUME Inv, [Next]_vars
  PROVE  SchedulerPhase'
<1> USE DEF Inv
<1>1. CASE UNCHANGED <<schedPc, currentDag, currEpoch, dagTxns, rootTxns, readyTxns, status, adjList>>
  BY <1>1 DEF SchedulerPhase
<1>2. ASSUME NEW t \in Txns, Submit(t) PROVE SchedulerPhase'
  BY <1>1, <1>2 DEF Submit, NewTxnRequest, epochVars, buildVars, dagVars, dataVars
<1>3. CASE TakeResult \/ Stop \/ Sequencer
  BY <1>1, <1>3 DEF TakeResult, GetTxnResult, Stop, Sequencer, SequencerPop, CloseEpoch,
        SequencerExit, epochVars, buildVars, dagVars, dataVars, coreVars
<1>4. CASE Scheduler
  <2>1. CASE PopEpoch
    BY <2>1 DEF PopEpoch, SchedulerPhase, dagVars, coreVars, dataVars
  <2>2. CASE AddToDag
    <3> DEFINE h == Head(currEpoch)
    <3>1. /\ schedPc = "build" /\ dagTxns' = dagTxns \cup {h}
          /\ adjList' = [p \in Txns |-> adjList[p] \cup {s \in {h} : p \in Predecessors(h)}]
          /\ UNCHANGED <<schedPc, currentDag, readyTxns, status>>
      BY <2>2 DEF AddToDag, coreVars, dataVars
    <3>2. status[h] = "INCOMPLETE"
      BY <2>2, NewcomerIsNew
    <3> HIDE DEF h
    <3> QED
      BY <3>1, <3>2 DEF SchedulerPhase
  <2>3. CASE PublishDag
    BY <2>3 DEF PublishDag, SchedulerPhase, dagVars, coreVars, dataVars, buildVars
  <2>4. CASE PushRoot
    BY <2>4 DEF PushRoot, SchedulerPhase, coreVars, dataVars, buildVars
  <2>5. CASE FreeDag
    BY <2>5, NothingLeft DEF FreeDag, SchedulerPhase, coreVars, dataVars, NoEdges
  <2>6. CASE SchedulerExit
    BY <2>6 DEF SchedulerExit, SchedulerPhase, coreVars, dataVars, buildVars, dagVars
  <2> QED
    BY <1>4, <2>1, <2>2, <2>3, <2>4, <2>5, <2>6 DEF Scheduler
<1>5. ASSUME NEW w \in Threads, Executor(w) PROVE SchedulerPhase'
  <2>1. CASE PopReady(w)
    BY <2>1 DEF PopReady, SchedulerPhase, dataVars, buildVars, dagVars
  <2>2. CASE ExecuteAndDecide(w)
    <3>1. schedPc = "dispatch"
      BY <2>2, ExecuteEffect, BusyOnlyInDispatch DEF Busy, BusyPcs
    <3>2. UNCHANGED <<schedPc, currentDag, currEpoch, dagTxns, rootTxns, readyTxns, adjList>>
      BY <2>2, ExecuteEffect DEF epochVars, buildVars, dagVars
    <3> QED
      BY <3>1, <3>2 DEF SchedulerPhase
  <2>3. ASSUME NEW t \in Txns, UnblockNeighbor(w, t) PROVE SchedulerPhase'
    <3>1. schedPc = "dispatch"
      BY <2>3, BusyOnlyInDispatch DEF UnblockNeighbor, Busy, BusyPcs
    <3>2. UNCHANGED <<schedPc, currentDag, currEpoch, dagTxns, rootTxns, adjList>>
      BY <2>3 DEF UnblockNeighbor, buildVars
    <3> QED
      BY <3>1, <3>2 DEF SchedulerPhase
  <2>4. CASE CopyNeighbors(w) \/ CountDown(w) \/ ReturnResult(w) \/ ExecutorExit(w)
    BY <1>1, <2>4 DEF CopyNeighbors, CountDown, ReturnResult, PushResult, ExecutorExit,
          epochVars, buildVars, dagVars, dataVars
  <2> QED
    BY <1>5, <2>1, <2>2, <2>3, <2>4 DEF Executor
<1>6. CASE UNCHANGED vars
  BY <1>1, <1>6 DEF vars, coreVars, epochVars, buildVars, dagVars, dataVars
<1> QED
  BY <1>2, <1>3, <1>4, <1>5, <1>6 DEF Next, Terminating

-----------------------------------------------------------------------------
(* Scheduling. *)

\* The types scheduling depends on.
LEMMA SchedulingTypes ==
  ASSUME TypeOK
  PROVE  /\ rootTxns \in Seq(Txns) /\ readyTxns \in Seq(Txns)
         /\ indegree \in [Txns -> Int] /\ status \in [Txns -> TxnStatus]
         /\ pc \in [Threads -> BusyPcs \cup {"idle", "result", "exited"}]
         /\ cur \in [Threads -> Values] /\ todo \in [Threads -> SUBSET (Keys \cup Txns)]
         /\ adjList \in [Txns -> SUBSET Txns] /\ dagTxns \subseteq Txns
         /\ txnResults \in Seq(Txns) /\ returned \subseteq Txns /\ numLeft \in Nat
  BY DEF TypeOK, CoreTypeOK, ClientTypeOK, DataTypeOK, ThreadTypeOK, EpochTypeOK

\* The executor that pops a ready transaction is the only one to hold it.
LEMMA PopReadyEffect ==
  ASSUME Inv, NEW w \in Threads, PopReady(w)
  PROVE  LET h == Head(readyTxns)
         IN  /\ h \in Txns /\ h \in dagTxns /\ status[h] = "INCOMPLETE" /\ indegree[h] <= 0
             /\ Elements(readyTxns) = {h} \cup Elements(readyTxns')
             /\ Distinct(readyTxns') /\ h \notin Elements(readyTxns')
             /\ h \notin Elements(rootTxns)
             /\ schedPc = "dispatch" /\ currentDag
             /\ cur' = [cur EXCEPT ![w] = h]
             /\ pc' = [pc EXCEPT ![w] = "readset"]
             /\ ~Busy(w)
             /\ \A v \in Threads : cur[v] # h
             /\ UNCHANGED <<rootTxns, dagTxns, status, indegree, adjList, numLeft, currentDag,
                            schedPc, returned, txnResults>>
<1> DEFINE h == Head(readyTxns)
<1> USE SchedulingTypes DEF Inv
<1>1. /\ readyTxns # <<>> /\ readyTxns' = Tail(readyTxns) /\ pc[w] = "idle"
      /\ cur' = [cur EXCEPT ![w] = h] /\ pc' = [pc EXCEPT ![w] = "readset"]
      /\ UNCHANGED <<rootTxns, dagTxns, status, indegree, adjList, numLeft, currentDag,
                     schedPc, returned, txnResults>>
  BY DEF PopReady, StartExecute, Goto, dataVars, dagVars, clientVars
<1>2. h \in Txns /\ Elements(readyTxns) = {h} \cup Elements(readyTxns')
  BY <1>1, ElementsTail
<1>3. Distinct(readyTxns') /\ h \notin Elements(readyTxns')
  BY <1>1, DistinctTail DEF ScheduledOnce
<1>4. h \in dagTxns /\ status[h] = "INCOMPLETE" /\ indegree[h] <= 0 /\ ~Running(h)
      /\ h \notin Elements(rootTxns)
  BY <1>2 DEF ScheduledOnce
<1>5. schedPc = "dispatch" /\ currentDag
  BY <1>1 DEF SchedulerPhase
<1>6. ASSUME NEW v \in Threads, cur[v] = h PROVE FALSE
  <2>1. pc[v] \notin {"idle", "exited"}
    BY <1>2, <1>6, CoreAssumption DEF ExecutorPhase
  <2>2. ~Busy(v)
    BY <1>4, <1>6 DEF Running, Holds
  <2>3. pc[v] = "result"
    BY <2>1, <2>2 DEF Busy
  <2> QED
    BY <1>4, <1>6, <2>3 DEF ExecutorPhase, Decided
<1>7. ~Busy(w)
  BY <1>1 DEF Busy, BusyPcs
<1> QED
  BY <1>1, <1>2, <1>3, <1>4, <1>5, <1>6, <1>7

\* Every step schedules each transaction at most once.
LEMMA ScheduledStep ==
  ASSUME Inv, [Next]_vars
  PROVE  ScheduledOnce'
<1> USE SchedulingTypes DEF Inv
<1>1. ASSUME UNCHANGED <<rootTxns, readyTxns, dagTxns, status, indegree>>,
             \A t \in Txns : Running(t)' => Running(t)
      PROVE  ScheduledOnce'
  <2> HIDE DEF Inv
  <2>1. /\ ScheduledOnce /\ dagTxns \subseteq Txns
        /\ Elements(rootTxns) \cup Elements(readyTxns) \subseteq Txns
    BY ElementsType DEF Inv
  <2> QED
    BY <1>1, <2>1 DEF ScheduledOnce
<1>2. ASSUME UNCHANGED <<pc, cur>> PROVE \A t \in Txns : Running(t)' => Running(t)
  BY <1>2 DEF Running, Busy, Holds
<1>3. ASSUME NEW t \in Txns, Submit(t) PROVE ScheduledOnce'
  BY <1>1, <1>2, <1>3 DEF Submit, NewTxnRequest, epochVars, dagVars, dataVars, threadVars
<1>4. CASE TakeResult \/ Stop \/ Sequencer
  BY <1>1, <1>2, <1>4 DEF TakeResult, GetTxnResult, Stop, Sequencer, SequencerPop, CloseEpoch,
        SequencerExit, epochVars, dagVars, dataVars, threadVars, coreVars
<1>5. CASE PopEpoch \/ PublishDag \/ SchedulerExit
  BY <1>1, <1>2, <1>5 DEF PopEpoch, PublishDag, SchedulerExit, dagVars, dataVars, threadVars, coreVars
<1>6. CASE AddToDag
  <2> DEFINE h == Head(currEpoch)
  <2>1. /\ schedPc = "build" /\ dagTxns' = dagTxns \cup {h}
        /\ indegree' = [indegree EXCEPT ![h] = EdgesInto(h)]
        /\ rootTxns' = IF Predecessors(h) = {} THEN Append(rootTxns, h) ELSE rootTxns
        /\ UNCHANGED <<readyTxns, status, pc, cur>>
    BY <1>6 DEF AddToDag, coreVars, dataVars, threadVars
  <2>2. h \in Txns /\ h \notin dagTxns /\ status[h] = "INCOMPLETE"
    BY <1>6, NewcomerIsNew
  <2>3. \A t \in Txns : ~Running(t)'
    BY <2>1, BusyOnlyInDispatch DEF Running, Busy
  <2>4. readyTxns' = <<>> /\ Elements(readyTxns') = {}
    BY <2>1, ElementsEmpty DEF SchedulerPhase
  <2>5. \A t \in dagTxns' : status'[t] = "INCOMPLETE" /\ t \in Txns
    BY <2>1, <2>2 DEF SchedulerPhase
  <2>6. h \notin Elements(rootTxns) /\ Elements(rootTxns) \subseteq dagTxns
    BY <2>2 DEF ScheduledOnce
  <2>7. CASE Predecessors(h) = {}
    <3>1. EdgesInto(h) = 0
      BY <2>7, FS_EmptySet DEF EdgesInto
    <3>2. Elements(rootTxns') = Elements(rootTxns) \cup {h} /\ Distinct(rootTxns')
      BY <2>1, <2>2, <2>6, <2>7, ElementsAppend, DistinctAppend DEF ScheduledOnce
    <3>3. \A t \in Elements(rootTxns') : indegree'[t] <= 0
      BY <2>1, <2>2, <3>1, <3>2 DEF ScheduledOnce
    <3>4. Distinct(readyTxns')
      BY <2>1 DEF ScheduledOnce
    <3> HIDE DEF Inv
    <3> QED
      BY <2>1, <2>3, <2>4, <2>5, <2>6, <3>2, <3>3, <3>4 DEF ScheduledOnce
  <2>8. CASE Predecessors(h) # {}
    <3>1. rootTxns' = rootTxns
      BY <2>1, <2>8
    <3>2. \A t \in Elements(rootTxns) : indegree'[t] <= 0
      BY <2>1, <2>6 DEF ScheduledOnce
    <3>3. Distinct(rootTxns') /\ Distinct(readyTxns')
      BY <2>1, <3>1 DEF ScheduledOnce
    <3> HIDE DEF Inv
    <3> QED
      BY <2>1, <2>3, <2>4, <2>5, <2>6, <3>1, <3>2, <3>3 DEF ScheduledOnce
  <2> QED
    BY <2>7, <2>8
<1>7. CASE PushRoot
  <2> DEFINE h == Head(rootTxns)
  <2>1. /\ rootTxns # <<>> /\ rootTxns' = Tail(rootTxns) /\ readyTxns' = Append(readyTxns, h)
        /\ UNCHANGED <<dagTxns, status, indegree, pc, cur>>
    BY <1>7 DEF PushRoot, coreVars, dataVars, threadVars
  <2>2. h \in Txns /\ Elements(rootTxns) = {h} \cup Elements(rootTxns')
    BY <2>1, ElementsTail
  <2>3. Distinct(rootTxns') /\ h \notin Elements(rootTxns')
    BY <2>1, DistinctTail DEF ScheduledOnce
  <2>4. h \notin Elements(readyTxns)
    BY <2>2 DEF ScheduledOnce
  <2>5. Distinct(readyTxns') /\ Elements(readyTxns') = Elements(readyTxns) \cup {h}
    BY <2>1, <2>2, <2>4, DistinctAppend, ElementsAppend DEF ScheduledOnce
  <2>6. \A t : Running(t)' <=> Running(t)
    BY <2>1 DEF Running, Busy, Holds
  <2> HIDE DEF Inv, h
  <2>7. ScheduledOnce
    BY DEF Inv
  <2> QED
    BY <2>1, <2>2, <2>3, <2>4, <2>5, <2>6, <2>7 DEF ScheduledOnce
<1>8. CASE FreeDag
  <2>1. /\ dagTxns' = {} /\ rootTxns' = <<>> /\ readyTxns' = <<>>
    BY <1>8, NothingLeft DEF FreeDag
  <2>2. Elements(rootTxns') = {} /\ Elements(readyTxns') = {}
    BY <2>1, ElementsEmpty
  <2>3. Distinct(<<>>)
    BY DEF Distinct
  <2> QED
    BY <2>1, <2>2, <2>3 DEF ScheduledOnce
<1>9. ASSUME NEW w \in Threads, PopReady(w) PROVE ScheduledOnce'
  <2> DEFINE h == Head(readyTxns)
  <2>1. \A t : Running(t)' => Running(t) \/ t = h
    BY <1>9, PopReadyEffect DEF Running, Busy, Holds
  <2>2. /\ h \in dagTxns /\ indegree[h] <= 0
        /\ Elements(readyTxns) = {h} \cup Elements(readyTxns')
        /\ Distinct(readyTxns') /\ h \notin Elements(readyTxns') /\ h \notin Elements(rootTxns)
        /\ UNCHANGED <<rootTxns, dagTxns, status, indegree>>
    BY <1>9, PopReadyEffect
  <2>3. ~(indegree[h] > 0)
    BY <2>2
  <2> HIDE DEF Inv, h
  <2>4. ScheduledOnce
    BY DEF Inv
  <2> QED
    BY <2>1, <2>2, <2>3, <2>4 DEF ScheduledOnce
<1>10. ASSUME NEW w \in Threads, ExecuteAndDecide(w) PROVE ScheduledOnce'
  <2>1. /\ \A t \in Txns : Running(t)' <=> Running(t)
        /\ UNCHANGED <<rootTxns, readyTxns, dagTxns, indegree>>
        /\ \A t \in Txns : t # cur[w] => status'[t] = status[t]
    BY <1>10, ExecuteKeepsUndone, ExecuteEffect DEF epochVars, dagVars
  <2>2. Running(cur[w])
    BY <1>10, ExecuteEffect DEF Running, Holds, Busy, BusyPcs
  <2> HIDE DEF Inv
  <2>3. ScheduledOnce /\ dagTxns \subseteq Txns
    BY DEF Inv
  <2> QED
    BY <2>1, <2>2, <2>3 DEF ScheduledOnce
<1>11. ASSUME NEW w \in Threads, NEW t \in Txns, UnblockNeighbor(w, t) PROVE ScheduledOnce'
  <2>1. /\ pc[w] = "unblock" /\ t \in todo[w]
        /\ indegree' = [indegree EXCEPT ![t] = indegree[t] - 1]
        /\ readyTxns' = IF indegree[t] = 1 THEN Append(readyTxns, t) ELSE readyTxns
        /\ UNCHANGED <<rootTxns, dagTxns, status, pc, cur>>
    BY <1>11 DEF UnblockNeighbor, Released, dataVars
  <2>2. t \in dagTxns
    BY <2>1 DEF ExecutorPhase
  <2>3. \A s : Running(s)' <=> Running(s)
    BY <2>1 DEF Running, Busy, Holds
  <2>4. \A s \in Txns : indegree'[s] <= indegree[s] /\ indegree[s] \in Int /\ indegree'[s] \in Int
    BY <2>1
  <2>5. CASE indegree[t] = 1
    <3>1. t \notin Elements(rootTxns) \cup Elements(readyTxns)
          /\ status[t] = "INCOMPLETE" /\ ~Running(t)
      BY <2>2, <2>5 DEF ScheduledOnce
    <3>2. Distinct(readyTxns') /\ Elements(readyTxns') = Elements(readyTxns) \cup {t}
      BY <2>1, <2>5, <3>1, DistinctAppend, ElementsAppend DEF ScheduledOnce
    <3>3. indegree'[t] <= 0
      BY <2>1, <2>5
    <3> HIDE DEF Inv
    <3>4. ScheduledOnce /\ dagTxns \subseteq Txns
      BY DEF Inv
    <3>5. \A s \in dagTxns : indegree'[s] > 0 => indegree[s] > 0
      BY <2>4, <3>4
    <3>6. \A s \in dagTxns : indegree[s] <= 0 => indegree'[s] <= 0
      BY <2>4, <3>4
    <3> QED
      BY <2>1, <2>2, <2>3, <3>1, <3>2, <3>3, <3>4, <3>5, <3>6 DEF ScheduledOnce
  <2>6. CASE indegree[t] # 1
    <3>1. readyTxns' = readyTxns
      BY <2>1, <2>6
    <3> HIDE DEF Inv
    <3>4. ScheduledOnce /\ dagTxns \subseteq Txns
      BY DEF Inv
    <3>5. \A s \in dagTxns : indegree'[s] > 0 => indegree[s] > 0
      BY <2>4, <3>4
    <3>6. \A s \in dagTxns : indegree[s] <= 0 => indegree'[s] <= 0
      BY <2>4, <3>4
    <3> QED
      BY <2>1, <2>3, <3>1, <3>4, <3>5, <3>6 DEF ScheduledOnce
  <2> QED
    BY <2>5, <2>6
<1>12. ASSUME NEW w \in Threads, CopyNeighbors(w) \/ CountDown(w) \/ ReturnResult(w) \/ ExecutorExit(w)
       PROVE  ScheduledOnce'
  <2>1. UNCHANGED <<rootTxns, readyTxns, dagTxns, status, indegree>>
    BY <1>12 DEF CopyNeighbors, CountDown, ReturnResult, PushResult, ExecutorExit,
          epochVars, dagVars, dataVars
  <2>2. \A v \in Threads : Busy(v)' => Busy(v) /\ cur'[v] = cur[v]
    BY <1>12 DEF CopyNeighbors, CountDown, ReturnResult, PushResult, ExecutorExit, Goto, Busy, BusyPcs
  <2>3. \A t \in Txns : Running(t)' => Running(t)
    BY <2>2 DEF Running, Holds
  <2> QED
    BY <1>1, <2>1, <2>3
<1>13. CASE UNCHANGED vars
  BY <1>1, <1>2, <1>13 DEF vars, coreVars, epochVars, dagVars, dataVars, threadVars
<1> QED
  BY <1>3, <1>4, <1>5, <1>6, <1>7, <1>8, <1>9, <1>10, <1>11, <1>12, <1>13
  DEF Next, Terminating, Scheduler, Executor

-----------------------------------------------------------------------------
(* The executors. *)

\* Every step agrees with the executors' program counters.
LEMMA ExecutorStep ==
  ASSUME Inv, [Next]_vars
  PROVE  ExecutorPhase'
<1> USE SchedulingTypes DEF Inv
<1>1. ASSUME UNCHANGED <<pc, cur, todo, status, dagTxns, currentDag>> PROVE ExecutorPhase'
  BY <1>1 DEF ExecutorPhase, Busy, Decided
<1>2. ASSUME UNCHANGED <<pc, cur, todo, status>>, \A w \in Threads : ~Busy(w) PROVE ExecutorPhase'
  BY <1>2 DEF ExecutorPhase, Busy, BusyPcs, Decided
<1>3. ASSUME NEW t \in Txns, Submit(t) PROVE ExecutorPhase'
  BY <1>1, <1>3 DEF Submit, NewTxnRequest, epochVars, dagVars, dataVars, threadVars
<1>4. CASE TakeResult \/ Stop \/ Sequencer
  BY <1>1, <1>4 DEF TakeResult, GetTxnResult, Stop, Sequencer, SequencerPop, CloseEpoch,
        SequencerExit, epochVars, dagVars, dataVars, threadVars, coreVars
<1>5. CASE PopEpoch \/ SchedulerExit \/ PushRoot
  BY <1>1, <1>5 DEF PopEpoch, SchedulerExit, PushRoot, dagVars, dataVars, threadVars, coreVars
<1>6. CASE AddToDag \/ PublishDag
  <2>1. schedPc = "build" /\ UNCHANGED <<pc, cur, todo, status>>
    BY <1>6 DEF AddToDag, PublishDag, coreVars, dataVars, threadVars
  <2>2. \A w \in Threads : ~Busy(w)
    BY <2>1, BusyOnlyInDispatch
  <2> QED
    BY <1>2, <2>1, <2>2
<1>7. CASE FreeDag
  BY <1>2, <1>7, NothingLeft DEF FreeDag, coreVars, dataVars, threadVars
<1>8. ASSUME NEW w \in Threads, PopReady(w) PROVE ExecutorPhase'
  <2> DEFINE h == Head(readyTxns)
  <2>1. /\ h \in Txns /\ h \in dagTxns /\ status[h] = "INCOMPLETE" /\ currentDag
        /\ cur' = [cur EXCEPT ![w] = h] /\ pc' = [pc EXCEPT ![w] = "readset"]
        /\ \A v \in Threads : cur[v] # h
        /\ UNCHANGED <<dagTxns, status, currentDag>>
    BY <1>8, PopReadyEffect
  <2>2. \A v \in Threads : v # w => cur'[v] = cur[v] /\ pc'[v] = pc[v] /\ todo'[v] = todo[v]
    BY <1>8 DEF PopReady, StartExecute, Goto
  <2>3. cur'[w] = h /\ pc'[w] = "readset" /\ h # NoTxn
    BY <2>1, CoreAssumption
  <2> HIDE DEF Inv, h
  <2>4. ExecutorPhase
    BY DEF Inv
  <2>5. \A v \in Threads : Busy(v)' => currentDag' /\ cur'[v] \in dagTxns'
    BY <2>1, <2>2, <2>3, <2>4 DEF ExecutorPhase, Busy
  <2>6. \A v \in Threads : cur'[v] = NoTxn <=> pc'[v] \in {"idle", "exited"}
    BY <2>2, <2>3, <2>4 DEF ExecutorPhase
  <2>7. \A v, x \in Threads : cur'[v] = cur'[x] /\ cur'[v] # NoTxn => v = x
    BY <2>1, <2>2, <2>3, <2>4 DEF ExecutorPhase
  <2> QED
    BY <2>1, <2>2, <2>3, <2>4, <2>5, <2>6, <2>7 DEF ExecutorPhase, Decided
<1>9. ASSUME NEW w \in Threads, ExecuteAndDecide(w) PROVE ExecutorPhase'
  <2>1. /\ cur' = cur /\ UNCHANGED <<dagTxns, currentDag>>
        /\ pc[w] \in {"readset", "writeset", "decide", "apply"}
        /\ pc'[w] \in {"readset", "writeset", "decide", "apply", "neighbors"}
        /\ \A v \in Threads : v # w => pc'[v] = pc[v] /\ todo'[v] = todo[v]
        /\ \A v \in Threads : Busy(v)' <=> Busy(v)
    BY <1>9, ExecuteEffect, ExecuteKeepsUndone DEF epochVars, dagVars
  <2>2. /\ \A t \in Txns : t # cur[w] => status'[t] = status[t]
        /\ pc'[w] \in {"readset", "writeset"} => status'[cur[w]] = "INCOMPLETE"
        /\ pc'[w] = "decide" => status'[cur[w]] \in {"COMPLETED_C", "COMPLETED_A"}
        /\ pc'[w] = "apply" => status'[cur[w]] = "COMPLETED_C"
        /\ pc'[w] = "neighbors" => status'[cur[w]] \in {"COMMITTED", "ABORTED"}
    BY <1>9, ExecuteEffect
  <2>3. \A v \in Threads : v # w /\ pc[v] \notin {"idle", "exited"} =>
            cur[v] \in Txns /\ cur[v] # cur[w]
    BY HolderHolds, CoreAssumption DEF ExecutorPhase
  <2>4. ASSUME NEW v \in Threads, v # w, pc[v] \notin {"idle", "exited"}
        PROVE  status'[cur[v]] = status[cur[v]]
    BY <2>2, <2>3, <2>4
  <2> HIDE DEF Inv
  <2>5. ExecutorPhase
    BY DEF Inv
  <2>6. /\ \A v \in Threads : Busy(v)' => currentDag' /\ cur'[v] \in dagTxns'
        /\ \A v \in Threads : cur'[v] = NoTxn <=> pc'[v] \in {"idle", "exited"}
        /\ \A v, x \in Threads : cur'[v] = cur'[x] /\ cur'[v] # NoTxn => v = x
    BY <2>1, <2>5 DEF ExecutorPhase
  <2>7. ASSUME NEW v \in Threads
        PROVE /\ pc'[v] \in {"readset", "writeset"} => status'[cur'[v]] = "INCOMPLETE"
              /\ pc'[v] = "decide" => status'[cur'[v]] \in {"COMPLETED_C", "COMPLETED_A"}
              /\ pc'[v] = "apply" => status'[cur'[v]] = "COMPLETED_C"
              /\ pc'[v] \in {"neighbors", "unblock", "result"} => Decided(cur[v])'
              /\ pc'[v] = "unblock" => todo'[v] \subseteq dagTxns'
    <3>1. CASE v = w
      BY <2>1, <2>2, <3>1 DEF Decided
    <3>2. CASE v # w
      BY <2>1, <2>4, <2>5, <3>2 DEF ExecutorPhase, Decided
    <3> QED
      BY <3>1, <3>2
  <2> QED
    BY <2>6, <2>7 DEF ExecutorPhase, Decided
<1>10. ASSUME NEW w \in Threads, CopyNeighbors(w) PROVE ExecutorPhase'
  <2>1. /\ pc[w] = "neighbors" /\ pc' = [pc EXCEPT ![w] = "unblock"]
        /\ todo' = [todo EXCEPT ![w] = adjList[cur[w]]]
        /\ UNCHANGED <<cur, status, dagTxns, currentDag>>
    BY <1>10 DEF CopyNeighbors, Goto, dataVars, epochVars, dagVars
  <2>2. adjList[cur[w]] \subseteq dagTxns
    BY <2>1, HolderHolds DEF SchedulerPhase
  <2>3. \A v \in Threads : v # w => pc'[v] = pc[v] /\ todo'[v] = todo[v]
    BY <2>1
  <2>4. pc'[w] = "unblock" /\ todo'[w] \subseteq dagTxns
    BY <2>1, <2>2
  <2> QED
    BY <2>1, <2>3, <2>4 DEF ExecutorPhase, Busy, BusyPcs, Decided
<1>11. ASSUME NEW w \in Threads, NEW t \in Txns, UnblockNeighbor(w, t) PROVE ExecutorPhase'
  <2>1. /\ todo' = [todo EXCEPT ![w] = todo[w] \ {t}]
        /\ UNCHANGED <<pc, cur, status, dagTxns, currentDag>>
    BY <1>11 DEF UnblockNeighbor, dataVars
  <2>2. \A v \in Threads : todo'[v] \subseteq todo[v]
    BY <2>1
  <2> QED
    BY <2>1, <2>2 DEF ExecutorPhase, Busy, Decided
<1>12. ASSUME NEW w \in Threads, CountDown(w) PROVE ExecutorPhase'
  <2>1. /\ pc[w] = "unblock" /\ pc' = [pc EXCEPT ![w] = "result"]
        /\ UNCHANGED <<cur, todo, status, dagTxns, currentDag>>
    BY <1>12 DEF CountDown, Goto, dataVars, dagVars
  <2>2. pc'[w] = "result" /\ \A v \in Threads : v # w => pc'[v] = pc[v]
    BY <2>1
  <2> QED
    BY <2>1, <2>2 DEF ExecutorPhase, Busy, BusyPcs, Decided
<1>13. ASSUME NEW w \in Threads, ReturnResult(w) \/ ExecutorExit(w) PROVE ExecutorPhase'
  <2>1. /\ UNCHANGED <<todo, status, dagTxns, currentDag>>
        /\ \A v \in Threads : v # w => pc'[v] = pc[v] /\ cur'[v] = cur[v]
    BY <1>13 DEF ReturnResult, PushResult, ExecutorExit, Goto, dataVars, epochVars, dagVars
  <2>2. pc'[w] \in {"idle", "exited"} /\ cur'[w] = NoTxn
    BY <1>13 DEF ReturnResult, PushResult, ExecutorExit, Goto, ExecutorPhase
  <2> HIDE DEF Inv
  <2>3. ExecutorPhase
    BY DEF Inv
  <2> QED
    BY <2>1, <2>2, <2>3 DEF ExecutorPhase, Busy, BusyPcs, Decided
<1>14. CASE UNCHANGED vars
  BY <1>1, <1>14 DEF vars, coreVars, epochVars, dagVars, dataVars, threadVars
<1> QED
  BY <1>3, <1>4, <1>5, <1>6, <1>7, <1>8, <1>9, <1>10, <1>11, <1>12, <1>13, <1>14
  DEF Next, Terminating, Scheduler, Executor

-----------------------------------------------------------------------------
(* The count of the epoch. *)

\* Which steps change the set of undone transactions or their count.
LEMMA UndoneFrame ==
  ASSUME Inv, [Next]_vars
  PROVE  \/ UNCHANGED <<schedPc, numLeft>> /\ Undone' = Undone
         \/ schedPc' # "dispatch"
         \/ PublishDag
         \/ \E w \in Threads : CountDown(w)
<1> USE SchedulingTypes DEF Inv
<1>1. ASSUME UNCHANGED <<pc, cur, status, dagTxns>> PROVE Undone' = Undone
  BY <1>1 DEF Undone, Decided, Running, Busy, Holds
<1>2. ASSUME NEW t \in Txns, Submit(t) PROVE UNCHANGED <<schedPc, numLeft>> /\ Undone' = Undone
  BY <1>1, <1>2 DEF Submit, NewTxnRequest, epochVars, dagVars, dataVars, threadVars
<1>3. CASE TakeResult \/ Stop \/ Sequencer
  BY <1>1, <1>3 DEF TakeResult, GetTxnResult, Stop, Sequencer, SequencerPop, CloseEpoch,
        SequencerExit, epochVars, dagVars, dataVars, threadVars, coreVars
<1>4. CASE PopEpoch \/ SchedulerExit \/ FreeDag \/ AddToDag
  BY <1>4 DEF PopEpoch, SchedulerExit, FreeDag, AddToDag
<1>5. CASE PushRoot
  BY <1>1, <1>5 DEF PushRoot, dataVars, threadVars, coreVars
<1>6. ASSUME NEW w \in Threads, PopReady(w)
      PROVE  UNCHANGED <<schedPc, numLeft>> /\ Undone' = Undone
  <2> DEFINE h == Head(readyTxns)
  <2>1. /\ status[h] = "INCOMPLETE" /\ UNCHANGED <<schedPc, numLeft, dagTxns, status>>
        /\ cur' = [cur EXCEPT ![w] = h] /\ pc' = [pc EXCEPT ![w] = "readset"] /\ ~Busy(w)
    BY <1>6, PopReadyEffect
  <2>2. \A v \in Threads : v # w => cur'[v] = cur[v] /\ (Busy(v)' <=> Busy(v))
    BY <2>1 DEF Busy
  <2>3. \A t : t # h => (Running(t)' <=> Running(t))
    BY <2>1, <2>2 DEF Running, Holds
  <2>4. ~Decided(h) /\ \A t : Decided(t)' <=> Decided(t)
    BY <2>1 DEF Decided
  <2> HIDE DEF h
  <2> QED
    BY <2>1, <2>3, <2>4 DEF Undone
<1>7. ASSUME NEW w \in Threads, ExecuteAndDecide(w)
      PROVE  UNCHANGED <<schedPc, numLeft>> /\ Undone' = Undone
  BY <1>7, ExecuteEffect, ExecuteKeepsUndone DEF epochVars
<1>8. ASSUME NEW w \in Threads, CopyNeighbors(w) \/ ReturnResult(w) \/ ExecutorExit(w)
      PROVE  UNCHANGED <<schedPc, numLeft>> /\ Undone' = Undone
  <2>1. UNCHANGED <<schedPc, numLeft, dagTxns, status>>
    BY <1>8 DEF CopyNeighbors, ReturnResult, PushResult, ExecutorExit, epochVars, dagVars, dataVars
  <2>2. \A v \in Threads : (Busy(v)' <=> Busy(v)) /\ (Busy(v) => cur'[v] = cur[v])
    BY <1>8 DEF CopyNeighbors, ReturnResult, PushResult, ExecutorExit, Goto, Busy, BusyPcs
  <2>3. \A t : Running(t)' <=> Running(t)
    BY <2>2 DEF Running, Holds
  <2> QED
    BY <2>1, <2>3 DEF Undone, Decided
<1>9. ASSUME NEW w \in Threads, NEW t \in Txns, UnblockNeighbor(w, t)
      PROVE  UNCHANGED <<schedPc, numLeft>> /\ Undone' = Undone
  BY <1>1, <1>9 DEF UnblockNeighbor, dataVars
<1>10. CASE UNCHANGED vars
  BY <1>1, <1>10 DEF vars, coreVars, epochVars, dagVars, dataVars, threadVars
<1> QED
  BY <1>2, <1>3, <1>4, <1>5, <1>6, <1>7, <1>8, <1>9, <1>10
  DEF Next, Terminating, Scheduler, Executor

\* The countdown takes the executor's own transaction, and nothing else, out
\* of the undone ones.
LEMMA CountDownEffect ==
  ASSUME Inv, NEW w \in Threads, CountDown(w)
  PROVE  /\ cur[w] \in Undone
         /\ Undone' = Undone \ {cur[w]}
         /\ numLeft' = numLeft - 1
         /\ schedPc = "dispatch"
<1> USE SchedulingTypes DEF Inv
<1>1. /\ pc[w] = "unblock" /\ pc' = [pc EXCEPT ![w] = "result"] /\ numLeft' = numLeft - 1
      /\ UNCHANGED <<cur, status, dagTxns>>
  BY DEF CountDown, Goto, dataVars, dagVars
<1>2. Busy(w) /\ ~Busy(w)' /\ \A v \in Threads : v # w => (Busy(v)' <=> Busy(v))
  BY <1>1 DEF Busy, BusyPcs
<1>3. schedPc = "dispatch" /\ cur[w] \in dagTxns /\ Running(cur[w]) /\ Decided(cur[w])
  BY <1>1, <1>2, BusyOnlyInDispatch DEF ExecutorPhase
<1>4. \A v \in Threads : v # w => cur[v] # cur[w]
  BY <1>3, CoreAssumption DEF ExecutorPhase
<1>5. ~Running(cur[w])'
  BY <1>1, <1>2, <1>4 DEF Running, Holds
<1>6. \A t : t # cur[w] => (Running(t)' <=> Running(t))
  BY <1>1, <1>2 DEF Running, Holds
<1> QED
  BY <1>1, <1>3, <1>5, <1>6 DEF Undone, Decided

\* So the countdown never wraps the unsigned counter round.
LEMMA CountPositive ==
  ASSUME Inv, NEW w \in Threads, CountDown(w)
  PROVE  numLeft > 0
<1> USE SchedulingTypes DEF Inv
<1>1. IsFiniteSet(Undone)
  BY CoreAssumption, FS_Subset DEF Undone
<1>2. Cardinality(Undone) # 0 /\ Cardinality(Undone) \in Nat
  BY <1>1, CountDownEffect, FS_EmptySet, FS_CardinalityType
<1> QED
  BY <1>2, CountDownEffect DEF CountIsExact

\* Every step keeps the count exact.
LEMMA CountStep ==
  ASSUME Inv, [Next]_vars
  PROVE  CountIsExact'
<1> USE SchedulingTypes DEF Inv
<1>1. CASE UNCHANGED <<schedPc, numLeft>> /\ Undone' = Undone
  BY <1>1 DEF CountIsExact
<1>2. CASE schedPc' # "dispatch"
  BY <1>2 DEF CountIsExact
<1>3. CASE PublishDag
  <2>1. /\ schedPc = "build" /\ numLeft' = Cardinality(dagTxns)
        /\ UNCHANGED <<dagTxns, status>>
    BY <1>3 DEF PublishDag, EpochSize, dagVars, coreVars, dataVars
  <2>2. Undone' = dagTxns
    BY <2>1 DEF Undone, Decided, SchedulerPhase
  <2> QED
    BY <2>1, <2>2 DEF CountIsExact
<1>4. ASSUME NEW w \in Threads, CountDown(w) PROVE CountIsExact'
  <2>1. IsFiniteSet(Undone)
    BY CoreAssumption, FS_Subset DEF Undone
  <2>2. Cardinality(Undone \ {cur[w]}) = Cardinality(Undone) - 1
    BY <1>4, <2>1, CountDownEffect, FS_RemoveElement
  <2> QED
    BY <1>4, <2>2, CountDownEffect DEF CountIsExact
<1> QED
  BY <1>1, <1>2, <1>3, <1>4, UndoneFrame

-----------------------------------------------------------------------------
(* Results. *)

\* Every step leaves what the client has, or will get, alone.
LEMMA ResultsStep ==
  ASSUME Inv, [Next]_vars
  PROVE  ResultsFinished'
<1> USE SchedulingTypes DEF Inv
<1> DEFINE Results == returned \cup Elements(txnResults)
<1>1. ASSUME Results' \subseteq Results, UNCHANGED status,
             \A w \in Threads : cur'[w] = cur[w] \/ cur'[w] = NoTxn
      PROVE  ResultsFinished'
  <2>1. Results \subseteq Txns
    BY ElementsType
  <2> QED
    BY <1>1, <2>1, CoreAssumption DEF ResultsFinished, Decided
<1>2. ASSUME UNCHANGED <<returned, txnResults, status, cur>> PROVE ResultsFinished'
  BY <1>1, <1>2
<1>3. ASSUME NEW t \in Txns, Submit(t) PROVE ResultsFinished'
  BY <1>2, <1>3 DEF Submit, NewTxnRequest, dataVars, threadVars
<1>4. CASE TakeResult
  <2>1. /\ txnResults # <<>> /\ returned' = returned \cup {Head(txnResults)}
        /\ txnResults' = Tail(txnResults) /\ UNCHANGED <<status, cur>>
    BY <1>4 DEF TakeResult, GetTxnResult, dataVars, threadVars
  <2>2. Elements(txnResults) = {Head(txnResults)} \cup Elements(txnResults')
    BY <2>1, ElementsTail
  <2> QED
    BY <1>1, <2>1, <2>2
<1>5. CASE Stop \/ Sequencer \/ Scheduler
  BY <1>2, <1>5 DEF Stop, Sequencer, SequencerPop, CloseEpoch, SequencerExit, Scheduler, PopEpoch,
        AddToDag, PublishDag, PushRoot, FreeDag, SchedulerExit, coreVars, clientVars, dataVars, threadVars
<1>6. ASSUME NEW w \in Threads, PopReady(w) PROVE ResultsFinished'
  <2> DEFINE h == Head(readyTxns)
  <2>1. /\ status[h] = "INCOMPLETE" /\ cur' = [cur EXCEPT ![w] = h]
        /\ UNCHANGED <<returned, txnResults, status>>
    BY <1>6, PopReadyEffect
  <2>2. h \notin Results
    BY <2>1 DEF ResultsFinished, Decided
  <2>3. \A v \in Threads : cur'[v] = cur[v] \/ cur'[v] = h
    BY <2>1
  <2> HIDE DEF h
  <2> QED
    BY <2>1, <2>2, <2>3 DEF ResultsFinished, Decided
<1>7. ASSUME NEW w \in Threads, ExecuteAndDecide(w) PROVE ResultsFinished'
  <2>1. /\ UNCHANGED <<returned, txnResults, cur>>
        /\ \A t \in Txns : t # cur[w] => status'[t] = status[t]
    BY <1>7, ExecuteEffect DEF clientVars
  <2>2. Results \subseteq Txns
    BY ElementsType
  <2> QED
    BY <2>1, <2>2 DEF ResultsFinished, Decided
<1>8. ASSUME NEW w \in Threads, NEW t \in Txns, UnblockNeighbor(w, t) PROVE ResultsFinished'
  BY <1>2, <1>8 DEF UnblockNeighbor, dataVars, clientVars
<1>9. ASSUME NEW w \in Threads, CopyNeighbors(w) \/ CountDown(w) \/ ExecutorExit(w)
      PROVE  ResultsFinished'
  BY <1>2, <1>9 DEF CopyNeighbors, CountDown, ExecutorExit, dataVars, clientVars
<1>10. ASSUME NEW w \in Threads, ReturnResult(w) PROVE ResultsFinished'
  <2>1. /\ pc[w] = "result" /\ txnResults' = Append(txnResults, cur[w])
        /\ cur' = [cur EXCEPT ![w] = NoTxn] /\ UNCHANGED <<returned, status>>
    BY <1>10 DEF ReturnResult, PushResult, clientVars, dataVars
  <2>2. cur[w] \in Txns /\ Decided(cur[w])
    BY <2>1, HolderHolds DEF ExecutorPhase
  <2>3. Results' = Results \cup {cur[w]}
    BY <2>1, <2>2, ElementsAppend
  <2>4. \A v \in Threads : v # w => cur[v] # cur[w] /\ cur'[v] = cur[v]
    BY <2>1, <2>2, CoreAssumption DEF ExecutorPhase
  <2>5. cur'[w] = NoTxn /\ NoTxn \notin Results /\ cur[w] # NoTxn
    BY <2>1, <2>2, CoreAssumption, ElementsType
  <2> DEFINE c == cur[w]
  <2>6. ASSUME NEW t \in Results PROVE Decided(t)' /\ \A v \in Threads : cur'[v] # t
    <3>1. Decided(t) /\ \A v \in Threads : cur[v] # t
      BY DEF ResultsFinished
    <3>2. \A v \in Threads : cur'[v] = cur[v] \/ cur'[v] = NoTxn
      BY <2>4, <2>5, Zenon
    <3>3. Decided(t)'
      BY <3>1, <2>1 DEF Decided
    <3> QED
      BY <3>1, <3>2, <3>3, <2>5, Zenon
  <2>7. status'[c] \in {"COMMITTED", "ABORTED"} /\ \A v \in Threads : cur'[v] # c
    <3>1. status'[c] \in {"COMMITTED", "ABORTED"}
      BY <2>1, <2>2 DEF Decided
    <3> QED
      BY <3>1, <2>4, <2>5, Zenon
  <2>8. \A t \in Results' : t \in Results \/ t = c
    BY <2>3
  <2> HIDE DEF c, Results
  <2>9. \A t \in Results' : Decided(t)' /\ \A v \in Threads : cur'[v] # t
    BY <2>6, <2>7, <2>8 DEF Decided
  <2> QED
    BY <2>9, Zenon DEF ResultsFinished, Results
<1>11. CASE UNCHANGED vars
  BY <1>2, <1>11 DEF vars, coreVars, clientVars, dataVars, threadVars
<1> QED
  BY <1>3, <1>4, <1>5, <1>6, <1>7, <1>8, <1>9, <1>10, <1>11
  DEF Next, Terminating, Executor
-----------------------------------------------------------------------------
(* The invariant, and what follows from it. *)

\* The initial state satisfies the invariant.
LEMMA InvInit == Init => Inv
<1> SUFFICES ASSUME Init PROVE Inv
  OBVIOUS
<1> USE DEF Init, CoreInit
<1>1. TypeOK
  BY TypeInit
<1>2. Waiting = {}
  BY ElementsEmpty DEF Waiting
<1>3. PipelineOrdered
  BY <1>2, ElementsEmpty DEF PipelineOrdered, Increasing, InOrder, Before
<1>4. IdsAccounted
  BY <1>2 DEF IdsAccounted
<1>5. SchedulerPhase
  BY DEF SchedulerPhase, NoEdges
<1>6. \A w \in Threads : pc[w] = "idle" /\ cur[w] = NoTxn
  OBVIOUS
<1>7. ScheduledOnce
  BY ElementsEmpty DEF ScheduledOnce, Distinct
<1>8. ExecutorPhase
  BY <1>6 DEF ExecutorPhase, Busy, BusyPcs
<1>9. CountIsExact
  BY DEF CountIsExact
<1>10. ResultsFinished
  BY ElementsEmpty DEF ResultsFinished
<1> QED
  BY <1>1, <1>3, <1>4, <1>5, <1>7, <1>8, <1>9, <1>10, Zenon DEF Inv

\* Every step preserves it.
LEMMA InvStep == Inv /\ [Next]_vars => Inv'
<1> SUFFICES ASSUME Inv, [Next]_vars PROVE Inv'
  OBVIOUS
<1>1. TypeOK /\ PipelineOrdered /\ IdsAccounted /\ SchedulerPhase /\ ScheduledOnce /\ ExecutorPhase
  BY Zenon DEF Inv
<1>2. TypeOK'
  BY <1>1, TypeStep, CountPositive
<1>3. PipelineOrdered'
  BY <1>1, PipelineStep
<1>4. IdsAccounted' /\ SchedulerPhase' /\ ScheduledOnce'
  BY IdsStep, SchedulerStep, ScheduledStep
<1>5. ExecutorPhase' /\ CountIsExact' /\ ResultsFinished'
  BY ExecutorStep, CountStep, ResultsStep
<1> QED
  BY <1>2, <1>3, <1>4, <1>5, Zenon DEF Inv

\* The inductive invariant holds in every reachable state.
THEOREM PipelineInvariant == Spec => []Inv
<1>1. Init => Inv
  BY InvInit
<1>2. Inv /\ [Next]_vars => Inv'
  BY InvStep
<1> QED
  BY <1>1, <1>2, PTL DEF Spec

\* Every variable keeps its type: no handler pushes, counts or stores what it
\* should not.
THEOREM TypeCorrect == Spec => []TypeOK
<1>1. Inv => TypeOK
  BY Zenon DEF Inv
<1> QED
  BY <1>1, PipelineInvariant, PTL

\* The wait of CalvinExecuteSingleEpoch (calvin.cc:480) keeps the DAG alive
\* for every executor that is inside it.
THEOREM DagOutlivesExecutors == Spec => []NoUseOfFreedDag
<1>1. Inv => NoUseOfFreedDag
  BY DEF Inv, ExecutorPhase, NoUseOfFreedDag
<1> QED
  BY <1>1, PipelineInvariant, PTL

\* When the destructor deletes the storage no executor is using it.
THEOREM StorageOutlivesExecutors == Spec => []NobodyBusyAfterJoins
<1>1. Inv => NobodyBusyAfterJoins
  BY DEF Inv, ExecutorPhase, SchedulerPhase, NobodyBusyAfterJoins
<1> QED
  BY <1>1, PipelineInvariant, PTL

\* An executor runs a transaction only when all transactions of earlier epochs
\* are committed or aborted.
THEOREM EpochsDoNotOverlap == Spec => []EpochBarrier
<1>1. ASSUME Inv PROVE EpochBarrier
  <2> SUFFICES ASSUME NEW w \in Threads, Busy(w), NEW p \in Txns,
                      Earlier(p, cur[w]), p \notin dagTxns
               PROVE  Decided(p)
    BY DEF EpochBarrier
  <2>1. cur[w] \in dagTxns
    BY <1>1 DEF Inv, ExecutorPhase
  <2>2. p \notin Waiting
    <3>1. uniqueId \in [Txns -> Nat] /\ cur[w] \in Txns
      BY <1>1, <2>1, PipelineTypes DEF Inv
    <3> QED
      BY <1>1, <2>1, <3>1 DEF Inv, PipelineOrdered, Before, Earlier
  <2> QED
    BY <1>1, <2>2 DEF Inv, IdsAccounted, Earlier
<1> QED
  BY <1>1, PipelineInvariant, PTL

\* What GetTxnResult returns is committed or aborted, and no thread of the
\* processor holds it or will ever pop it again.
THEOREM ResultsBelongToClient == Spec => []ClientOwnsResults
<1>1. ASSUME Inv PROVE ClientOwnsResults
  <2> SUFFICES ASSUME NEW t \in returned \cup Elements(txnResults)
               PROVE  /\ Decided(t)
                      /\ \A w \in Threads : ~Holds(w, t)
                      /\ t \notin Elements(readyTxns) \cup Undone
    BY DEF ClientOwnsResults
  <2>1. Decided(t) /\ \A w \in Threads : ~Holds(w, t)
    BY <1>1 DEF Inv, ResultsFinished, Holds
  <2>2. t \notin Elements(readyTxns)
    BY <1>1, <2>1 DEF Inv, ScheduledOnce, Decided
  <2>3. t \notin Undone
    BY <2>1 DEF Undone, Running
  <2> QED
    BY <2>1, <2>2, <2>3
<1> QED
  BY <1>1, PipelineInvariant, PTL

\* Executing a transaction changes no other one's reads.
LEMMA ReadsEffect ==
  ASSUME TypeOK, NEW w \in Threads, ExecuteAndDecide(w)
  PROVE  \A t \in Txns : t # cur[w] => reads'[t] = reads[t]
<1>1. reads \in [Txns -> [Keys -> Values \cup {Unread}]]
  BY DEF TypeOK, CoreTypeOK, DataTypeOK
<1>2. CASE ReadRecord(w)
  BY <1>1, <1>2 DEF ReadRecord
<1>3. CASE ~ReadRecord(w)
  BY <1>3 DEF ExecuteAndDecide, EndReadset, Run, StartApply, ApplyWrite, Commit, Abort, dataVars
<1> QED
  BY <1>2, <1>3

\* No step changes the status of a decided transaction, or what it read.
LEMMA DecidedStep ==
  ASSUME Inv, [Next]_vars
  PROVE  \A t \in Txns : Decided(t) => status'[t] = status[t] /\ reads'[t] = reads[t]
<1> DEFINE Final == \A t \in Txns : Decided(t) => status'[t] = status[t] /\ reads'[t] = reads[t]
<1> SUFFICES Final
  OBVIOUS
<1>1. CASE UNCHANGED <<status, reads>>
  BY <1>1
<1>2. ASSUME NEW w \in Threads, ExecuteAndDecide(w) PROVE Final
  <2>1. TypeOK /\ ExecutorPhase
    BY Zenon DEF Inv
  <2>2. /\ ~Decided(cur[w])
        /\ \A t \in Txns : t # cur[w] => status'[t] = status[t] /\ reads'[t] = reads[t]
    BY <1>2, <2>1, ExecuteEffect, ReadsEffect
  <2> QED
    BY <2>2
<1>3. CASE UNCHANGED vars
  BY <1>1, <1>3 DEF vars, coreVars, dataVars
<1>4. CASE (\E t \in Txns : Submit(t)) \/ TakeResult \/ Stop \/ Sequencer
  BY <1>1, <1>4 DEF Submit, NewTxnRequest, TakeResult, GetTxnResult, Stop, Sequencer,
        SequencerPop, CloseEpoch, SequencerExit, coreVars, dataVars
<1>5. CASE Scheduler
  BY <1>1, <1>5 DEF Scheduler, PopEpoch, AddToDag, PublishDag, PushRoot, FreeDag,
        SchedulerExit, coreVars, dataVars
<1>6. ASSUME NEW w \in Threads,
             PopReady(w) \/ CopyNeighbors(w) \/ CountDown(w) \/ ReturnResult(w) \/ ExecutorExit(w)
             \/ \E t \in Txns : UnblockNeighbor(w, t)
      PROVE  Final
  BY <1>1, <1>6 DEF PopReady, CopyNeighbors, CountDown, ReturnResult, PushResult, ExecutorExit,
        UnblockNeighbor, dataVars
<1> HIDE DEF Final
<1> QED
  BY <1>2, <1>3, <1>4, <1>5, <1>6, Zenon DEF Next, Terminating, Executor

\* Status and reads of a committed or aborted transaction never change again.
THEOREM DecisionsAreFinal == Spec => DecidedIsFinal
<1> DEFINE Final == \A t \in Txns : Decided(t) => status'[t] = status[t] /\ reads'[t] = reads[t]
<1>1. Inv /\ [Next]_vars => [Final]_vars
  BY DecidedStep, Zenon
<1> QED
  BY <1>1, PipelineInvariant, PTL DEF Spec, DecidedIsFinal

-----------------------------------------------------------------------------
(* The DAG: the inductive invariant, beyond Inv. *)

\* last_excl is the last writer of each key in the DAG, shared_holders are its
\* readers since that writer, if they do not write it themselves.
LastExclExact ==
    \A k \in Keys, p \in Txns :
        lastExcl[k] = p <=>
            /\ p \in dagTxns /\ k \in writeset[p]
            /\ \A q \in dagTxns : k \in writeset[q] => uniqueId[q] <= uniqueId[p]

HoldersExact ==
    \A k \in Keys, r \in Txns :
        r \in sharedHolders[k] <=>
            /\ r \in dagTxns /\ k \in readset[r] /\ k \notin writeset[r]
            /\ \A q \in dagTxns : k \in writeset[q] => ~Earlier(r, q)

\* Only members of the DAG have neighbours, and an executor's copy of them
\* holds nothing else.
EdgesInside ==
    /\ \A p \in Txns : p \notin dagTxns => adjList[p] = {}
    /\ \A w \in Threads : pc[w] = "unblock" => todo[w] \subseteq adjList[cur[w]]

DagInv ==
    /\ LastExclExact
    /\ HoldersExact
    /\ EdgesInside
    /\ DagIsConflictOrder
    /\ IndegreeCountsPending

-----------------------------------------------------------------------------
(* The scan: which edges, from which maps. *)

\* The types the scan depends on.
LEMMA ScanTypes ==
  ASSUME TypeOK
  PROVE  /\ sharedHolders \in [Keys -> SUBSET Txns] /\ lastExcl \in [Keys -> Values]
         /\ adjList \in [Txns -> SUBSET Txns] /\ indegree \in [Txns -> Int]
         /\ dagTxns \subseteq Txns /\ uniqueId \in [Txns -> Nat]
         /\ readset \in [Txns -> SUBSET Keys] /\ writeset \in [Txns -> SUBSET Keys]
         /\ NoTxn \notin Txns
  BY CoreAssumption DEF TypeOK, CoreTypeOK, ClientTypeOK, EpochTypeOK

\* The DAG and the maps it is built from change only where the scheduler adds
\* to it and where it frees it, and the ids of its members never do.
LEMMA ScanFrame ==
  ASSUME Inv, [Next]_vars, ~AddToDag, ~FreeDag
  PROVE  /\ UNCHANGED <<sharedHolders, lastExcl, adjList, dagTxns>>
         /\ \A t \in dagTxns : uniqueId'[t] = uniqueId[t] /\ uniqueId[t] > 0
<1> USE DEF vars, coreVars, clientVars, epochVars, buildVars, dagVars
<1>0. /\ \A t \in dagTxns : uniqueId[t] > 0 /\ t \in Txns
      /\ uniqueId \in [Txns -> Nat]
  BY ScanTypes DEF Inv, IdsAccounted
<1>1. CASE UNCHANGED <<sharedHolders, lastExcl, adjList, dagTxns, uniqueId>>
  BY <1>0, <1>1
<1>2. ASSUME NEW t \in Txns, Submit(t)
      PROVE  /\ UNCHANGED <<sharedHolders, lastExcl, adjList, dagTxns>>
             /\ \A s \in dagTxns : uniqueId'[s] = uniqueId[s]
  BY <1>0, <1>2 DEF Submit, NewTxnRequest
<1>3. CASE TakeResult \/ Stop \/ Sequencer
  BY <1>1, <1>3 DEF TakeResult, GetTxnResult, Stop, Sequencer, SequencerPop, CloseEpoch,
        SequencerExit
<1>4. CASE Scheduler
  BY <1>1, <1>4 DEF Scheduler, PopEpoch, PublishDag, PushRoot, SchedulerExit
<1>5. ASSUME NEW w \in Threads, Executor(w)
      PROVE  UNCHANGED <<sharedHolders, lastExcl, adjList, dagTxns, uniqueId>>
  BY <1>5 DEF Executor, PopReady, ExecuteAndDecide, CopyNeighbors, UnblockNeighbor, CountDown,
        ReturnResult, PushResult, ExecutorExit
<1>6. CASE UNCHANGED vars
  BY <1>1, <1>6
<1> QED
  BY <1>0, <1>1, <1>2, <1>3, <1>4, <1>5, <1>6 DEF Next, Terminating

\* The transaction that enters the DAG is the youngest of it.
LEMMA NewcomerIsYoungest ==
  ASSUME Inv, AddToDag
  PROVE  LET h == Head(currEpoch)
         IN  /\ h \in Txns /\ h \notin dagTxns
             /\ \A p \in dagTxns : Earlier(p, h)
             /\ \A p \in dagTxns \cup {h} : ~Earlier(h, p)
             /\ UNCHANGED <<uniqueId, status, pc, cur, todo>>
             /\ dagTxns' = dagTxns \cup {h}
             /\ adjList' = [p \in Txns |-> adjList[p] \cup {s \in {h} : p \in Predecessors(h)}]
             /\ indegree' = [indegree EXCEPT ![h] = EdgesInto(h)]
             /\ sharedHolders' = HoldersAfterWrites(h)
             /\ lastExcl' = LastExclAfter(h)
<1> DEFINE h == Head(currEpoch)
<1>1. TypeOK /\ PipelineOrdered /\ IdsAccounted
  BY DEF Inv
<1>2. h \in Txns /\ h \notin dagTxns
  BY NewcomerIsNew
<1>3. currEpoch # <<>> /\ currEpoch \in Seq(Txns)
  BY <1>1, PipelineTypes DEF AddToDag
<1>4. h \in Waiting
  BY <1>3, ElementsTail DEF Waiting
<1>5. uniqueId \in [Txns -> Nat] /\ dagTxns \subseteq Txns
  BY <1>1, ScanTypes
<1>6. \A p \in dagTxns : uniqueId[p] < uniqueId[h] /\ 0 < uniqueId[p]
  BY <1>1, <1>4 DEF PipelineOrdered, Before, IdsAccounted
<1>7. \A p \in dagTxns : Earlier(p, h)
  BY <1>6 DEF Earlier
<1>8. \A p \in dagTxns \cup {h} : ~Earlier(h, p)
  BY <1>2, <1>5, <1>6 DEF Earlier
<1>9. UNCHANGED <<uniqueId, status, pc, cur, todo>>
  BY DEF AddToDag, coreVars, clientVars, dataVars, threadVars
<1>10. /\ dagTxns' = dagTxns \cup {h}
       /\ adjList' = [p \in Txns |-> adjList[p] \cup {s \in {h} : p \in Predecessors(h)}]
       /\ indegree' = [indegree EXCEPT ![h] = EdgesInto(h)]
       /\ sharedHolders' = HoldersAfterWrites(h)
       /\ lastExcl' = LastExclAfter(h)
  BY DEF AddToDag
<1> QED
  BY <1>2, <1>7, <1>8, <1>9, <1>10

\* Every step keeps last_excl and shared_holders exact.
LEMMA MapsStep ==
  ASSUME Inv, LastExclExact, HoldersExact, [Next]_vars
  PROVE  LastExclExact' /\ HoldersExact'
<1>0. TypeOK
  BY DEF Inv
<1>1. CASE AddToDag
  <2> DEFINE h == Head(currEpoch)
  <2>1. /\ h \in Txns /\ h \notin dagTxns
        /\ \A p \in dagTxns : Earlier(p, h)
        /\ \A p \in dagTxns \cup {h} : ~Earlier(h, p)
        /\ uniqueId' = uniqueId
        /\ dagTxns' = dagTxns \cup {h}
        /\ sharedHolders' = HoldersAfterWrites(h)
        /\ lastExcl' = LastExclAfter(h)
    BY <1>1, NewcomerIsYoungest
  <2> HIDE DEF h
  <2>2. \A p \in dagTxns : uniqueId[p] < uniqueId[h]
    BY <2>1 DEF Earlier
  <2>3. uniqueId \in [Txns -> Nat] /\ dagTxns \subseteq Txns
    BY <1>0, ScanTypes
  <2>4. ASSUME NEW k \in Keys, NEW p \in Txns
        PROVE  lastExcl'[k] = p <=>
                 /\ p \in dagTxns' /\ k \in writeset[p]
                 /\ \A q \in dagTxns' : k \in writeset[q] => uniqueId'[q] <= uniqueId'[p]
    <3>1. lastExcl'[k] = IF k \in writeset[h] THEN h ELSE lastExcl[k]
      BY <2>1 DEF LastExclAfter
    <3>2. CASE k \in writeset[h]
      BY <2>1, <2>2, <2>3, <3>1, <3>2
    <3>3. CASE k \notin writeset[h]
      BY <2>1, <3>1, <3>3 DEF LastExclExact
    <3> QED
      BY <3>2, <3>3
  <2>5. ASSUME NEW k \in Keys, NEW r \in Txns
        PROVE  r \in sharedHolders'[k] <=>
                 /\ r \in dagTxns' /\ k \in readset[r] /\ k \notin writeset[r]
                 /\ \A q \in dagTxns' : k \in writeset[q] => ~Earlier(r, q)'
    <3>1. sharedHolders'[k] = IF k \in writeset[h] THEN {}
                              ELSE sharedHolders[k] \cup {p \in {h} : k \in readset[h]}
      BY <2>1 DEF HoldersAfterWrites, HoldersAfterReads
    <3>2. \A q : Earlier(r, q)' <=> Earlier(r, q)
      BY <2>1 DEF Earlier
    <3>3. CASE k \in writeset[h]
      BY <2>1, <3>1, <3>2, <3>3
    <3>4. CASE k \notin writeset[h]
      <4>1. CASE r = h
        BY <2>1, <3>1, <3>2, <3>4, <4>1 DEF HoldersExact
      <4>2. CASE r # h
        BY <2>1, <3>1, <3>2, <3>4, <4>2 DEF HoldersExact
      <4> QED
        BY <4>1, <4>2
    <3> QED
      BY <3>3, <3>4
  <2> QED
    BY <2>4, <2>5 DEF LastExclExact, HoldersExact
<1>2. CASE FreeDag
  <2>1. dagTxns' = {} /\ lastExcl' = Idle /\ sharedHolders' = NoHolders
    BY <1>2 DEF FreeDag
  <2> QED
    BY <1>0, <2>1, ScanTypes DEF LastExclExact, HoldersExact, Idle, NoHolders
<1>3. CASE ~AddToDag /\ ~FreeDag
  <2>1. /\ UNCHANGED <<sharedHolders, lastExcl, adjList, dagTxns>>
        /\ \A t \in dagTxns : uniqueId'[t] = uniqueId[t]
    BY <1>3, ScanFrame
  <2>2. \A p, q \in dagTxns : Earlier(p, q)' <=> Earlier(p, q)
    BY <2>1 DEF Earlier
  <2>3. LastExclExact'
    BY <2>1 DEF LastExclExact
  <2>4. HoldersExact'
    BY <2>1, <2>2 DEF HoldersExact
  <2> QED
    BY <2>3, <2>4
<1> QED
  BY <1>1, <1>2, <1>3

\* The scan finds the edges into the new transaction that the order of arrival
\* asks for.
LEMMA PredecessorsExact ==
  ASSUME Inv, LastExclExact, HoldersExact, AddToDag, NEW h \in Txns, h = Head(currEpoch)
  PROVE  \A p \in Txns : p \in Predecessors(h) <=> p \in dagTxns' /\ ConflictEdge(p, h)'
<1>1. /\ h \in Txns /\ h \notin dagTxns
      /\ \A p \in dagTxns : Earlier(p, h)
      /\ \A p \in dagTxns \cup {h} : ~Earlier(h, p)
      /\ uniqueId' = uniqueId
      /\ dagTxns' = dagTxns \cup {h}
  BY NewcomerIsYoungest
<1>2. /\ uniqueId \in [Txns -> Nat] /\ dagTxns \subseteq Txns /\ lastExcl \in [Keys -> Values]
      /\ sharedHolders \in [Keys -> SUBSET Txns]
      /\ writeset[h] \subseteq Keys /\ readset[h] \subseteq Keys /\ NoTxn \notin Txns
  BY <1>1, ScanTypes DEF Inv
<1>3. \A p, q : Earlier(p, q)' <=> Earlier(p, q)
  BY <1>1 DEF Earlier
<1>4. ASSUME NEW p \in Txns, NEW k \in Keys
      PROVE  WriterBetween(p, h, k)' <=> \E q \in dagTxns : k \in writeset[q] /\ Earlier(p, q)
  BY <1>1, <1>3 DEF WriterBetween
<1>5. ASSUME NEW p \in dagTxns
      PROVE  \A q \in dagTxns : Earlier(p, q) <=> ~(uniqueId[q] <= uniqueId[p])
  BY <1>1, <1>2 DEF Earlier
<1>6. ASSUME NEW p \in Txns
      PROVE  p \in ReadPredecessors(h) <=>
               /\ p \in dagTxns
               /\ \E k \in Keys : k \in writeset[p] /\ k \in readset[h] /\ ~WriterBetween(p, h, k)'
  <2>1. p \in ReadPredecessors(h) <=> \E k \in Keys : k \in readset[h] /\ lastExcl[k] = p
    BY <1>2 DEF ReadPredecessors
  <2>2. ASSUME NEW k \in Keys
        PROVE  lastExcl[k] = p <=> p \in dagTxns /\ k \in writeset[p] /\ ~WriterBetween(p, h, k)'
    BY <1>4, <1>5 DEF LastExclExact
  <2> QED
    BY <2>1, <2>2
<1>7. ASSUME NEW p \in Txns
      PROVE  p \in WritePredecessors(h) <=>
               \E k \in Keys : /\ k \in readset[p] /\ k \in writeset[h]
                               /\ \/ p = h
                                  \/ p \in dagTxns /\ k \notin writeset[p]
                               /\ ~WriterBetween(p, h, k)'
  <2>1. p \in WritePredecessors(h) <=>
          \E k \in Keys : k \in writeset[h] /\ p \in HoldersAfterReads(h)[k]
    BY <1>2 DEF WritePredecessors
  <2>2. ASSUME NEW k \in Keys, k \in writeset[h]
        PROVE  p \in HoldersAfterReads(h)[k] <=>
                 /\ k \in readset[p]
                 /\ p = h \/ (p \in dagTxns /\ k \notin writeset[p])
                 /\ ~WriterBetween(p, h, k)'
    <3>1. p \in HoldersAfterReads(h)[k] <=> p \in sharedHolders[k] \/ (p = h /\ k \in readset[h])
      BY <2>2 DEF HoldersAfterReads
    <3>2. CASE p = h
      BY <1>1, <1>4, <3>1, <3>2 DEF HoldersExact
    <3>3. CASE p # h
      BY <1>4, <3>1, <3>3 DEF HoldersExact
    <3> QED
      BY <3>2, <3>3
  <2> QED
    BY <2>1, <2>2
<1>8. ASSUME NEW p \in Txns
      PROVE  p \in Predecessors(h) <=> p \in dagTxns' /\ ConflictEdge(p, h)'
  <2>1. ConflictEdge(p, h)' <=>
          \E k \in Keys :
            \/ /\ k \in writeset[p] /\ k \in readset[h]
               /\ Earlier(p, h)
               /\ ~WriterBetween(p, h, k)'
            \/ /\ k \in readset[p] /\ k \in writeset[h]
               /\ (Earlier(p, h) /\ k \notin writeset[p]) \/ p = h
               /\ ~WriterBetween(p, h, k)'
    BY <1>3 DEF ConflictEdge
  <2>2. CASE p = h
    BY <1>1, <1>6, <1>7, <2>1, <2>2 DEF Predecessors
  <2>3. CASE p # h
    BY <1>1, <1>6, <1>7, <2>1, <2>3 DEF Predecessors
  <2> QED
    BY <2>2, <2>3
<1> QED
  BY <1>8

\* Every step keeps the DAG's edges those of the conflicts.
LEMMA EdgesStep ==
  ASSUME Inv, LastExclExact, HoldersExact, EdgesInside, DagIsConflictOrder, [Next]_vars
  PROVE  DagIsConflictOrder' /\ \A p \in Txns : p \notin dagTxns' => adjList'[p] = {}
<1>1. CASE AddToDag
  <2>0. PICK h \in Txns : h = Head(currEpoch)
    BY <1>1, NewcomerIsYoungest
  <2>1. /\ h \in Txns /\ h \notin dagTxns
        /\ \A p \in dagTxns : Earlier(p, h)
        /\ \A p \in dagTxns \cup {h} : ~Earlier(h, p)
        /\ uniqueId' = uniqueId
        /\ dagTxns' = dagTxns \cup {h}
        /\ adjList' = [p \in Txns |-> adjList[p] \cup {s \in {h} : p \in Predecessors(h)}]
    BY <1>1, <2>0, NewcomerIsYoungest
  <2>2. \A p \in Txns : p \in Predecessors(h) <=> p \in dagTxns' /\ ConflictEdge(p, h)'
    BY <1>1, <2>0, PredecessorsExact
  <2>3. /\ dagTxns \subseteq Txns
        /\ \A p \in Txns : adjList[p] \subseteq dagTxns
    BY ScanTypes DEF Inv, SchedulerPhase
  <2>4. \A p, q : Earlier(p, q)' <=> Earlier(p, q)
    BY <2>1 DEF Earlier
  <2>5. \A p \in Txns, t \in dagTxns, k \in Keys : WriterBetween(p, t, k)' <=> WriterBetween(p, t, k)
    BY <2>1, <2>4 DEF WriterBetween
  <2>6. \A p \in Txns, t \in dagTxns : ConflictEdge(p, t)' <=> ConflictEdge(p, t)
    BY <2>4, <2>5 DEF ConflictEdge
  <2>7. \A t \in dagTxns : ~ConflictEdge(h, t)
    BY <2>1 DEF ConflictEdge
  <2>8. ASSUME NEW p \in dagTxns', NEW t \in dagTxns'
        PROVE  t \in adjList'[p] <=> ConflictEdge(p, t)'
    <3>1. p \in Txns /\ t \in Txns
      BY <2>1, <2>3
    <3>2. CASE t = h
      <4>1. t \notin adjList[p]
        BY <2>1, <2>3, <3>1, <3>2
      <4>2. t \in adjList'[p] <=> p \in Predecessors(h)
        BY <2>1, <3>1, <3>2, <4>1
      <4> QED
        BY <2>2, <3>1, <3>2, <4>2
    <3>3. CASE t # h /\ p = h
      <4>1. t \in dagTxns
        BY <2>1, <3>3
      <4>2. t \notin adjList'[p]
        BY <2>1, <3>3 DEF EdgesInside
      <4> QED
        BY <2>6, <2>7, <3>1, <3>3, <4>1, <4>2
    <3>4. CASE t # h /\ p # h
      <4>1. t \in dagTxns /\ p \in dagTxns
        BY <2>1, <3>4
      <4>2. t \in adjList'[p] <=> t \in adjList[p]
        BY <2>1, <3>1, <3>4
      <4> QED
        BY <2>6, <3>1, <4>1, <4>2 DEF DagIsConflictOrder
    <3> QED
      BY <3>2, <3>3, <3>4
  <2>9. \A p \in Txns : p \notin dagTxns' => adjList'[p] = {}
    BY <2>1, <2>2 DEF EdgesInside
  <2> QED
    BY <2>8, <2>9 DEF DagIsConflictOrder
<1>2. CASE FreeDag
  BY <1>2 DEF FreeDag, NoEdges, DagIsConflictOrder
<1>3. CASE ~AddToDag /\ ~FreeDag
  <2>1. /\ UNCHANGED <<adjList, dagTxns>>
        /\ \A t \in dagTxns : uniqueId'[t] = uniqueId[t]
    BY <1>3, ScanFrame
  <2>2. \A p, q \in dagTxns : Earlier(p, q)' <=> Earlier(p, q)
    BY <2>1 DEF Earlier
  <2>3. \A p, t \in dagTxns, k \in Keys : WriterBetween(p, t, k)' <=> WriterBetween(p, t, k)
    BY <2>1, <2>2 DEF WriterBetween
  <2>4. \A p, t \in dagTxns : ConflictEdge(p, t)' <=> ConflictEdge(p, t)
    BY <2>2, <2>3 DEF ConflictEdge
  <2> QED
    BY <2>1, <2>4 DEF DagIsConflictOrder, EdgesInside
<1> QED
  BY <1>1, <1>2, <1>3

-----------------------------------------------------------------------------
(* The counts. *)

\* Executor w has already released t, if its transaction is p.
Passed(p, t) == \E w \in Threads : pc[w] = "unblock" /\ cur[w] = p /\ t \notin todo[w]

\* The counts stay exact when neither they nor what they count change.
LEMMA CountsSame ==
  ASSUME IndegreeCountsPending, UNCHANGED <<dagTxns, indegree>>,
         \A p, t \in dagTxns : Pending(p, t)' <=> Pending(p, t)
  PROVE  IndegreeCountsPending'
<1>1. ASSUME NEW t \in dagTxns
      PROVE  {p \in dagTxns : Pending(p, t)}' = {p \in dagTxns : Pending(p, t)}
  OBVIOUS
<1> QED
  BY <1>1 DEF IndegreeCountsPending

\* What is pending depends on the edges, on the undone transactions and on how
\* far the executors' loops over the neighbours are.
LEMMA PendingSame ==
  ASSUME UNCHANGED adjList, Undone' = Undone,
         \A w \in Threads :
            /\ pc'[w] = "unblock" <=> pc[w] = "unblock"
            /\ pc[w] = "unblock" => cur'[w] = cur[w] /\ todo'[w] = todo[w]
  PROVE  \A p, t : Pending(p, t)' <=> Pending(p, t)
  BY DEF Pending, Holds

\* A transaction is released once by the executor that holds it.
LEMMA UnblockCounts ==
  ASSUME Inv, EdgesInside, IndegreeCountsPending, NEW w \in Threads, NEW t \in Txns,
         UnblockNeighbor(w, t)
  PROVE  IndegreeCountsPending'
<1> USE SchedulingTypes DEF Inv
<1>0. PICK c \in Values : c = cur[w]
  OBVIOUS
<1>1. /\ pc[w] = "unblock" /\ t \in todo[w] /\ todo' = [todo EXCEPT ![w] = todo[w] \ {t}]
      /\ indegree' = [indegree EXCEPT ![t] = indegree[t] - 1]
      /\ UNCHANGED <<status, pc, cur, dagTxns, adjList>>
  BY DEF UnblockNeighbor, dataVars
<1>2. c \in dagTxns /\ c \in Undone /\ Undone' = Undone /\ t \in adjList[c] /\ c # NoTxn
  <2>1. Busy(w)
    BY <1>1 DEF Busy, BusyPcs
  <2> QED
    BY <1>0, <1>1, <2>1, CoreAssumption
    DEF ExecutorPhase, Undone, Running, Holds, Busy, Decided, EdgesInside
<1>3. \A v \in Threads : cur[v] = c => v = w
  BY <1>0, <1>2 DEF ExecutorPhase
<1>4. Pending(c, t) /\ ~Pending(c, t)'
  BY <1>0, <1>1, <1>2, <1>3 DEF Pending, Holds
<1>5. ASSUME NEW p \in dagTxns, NEW s \in dagTxns, p # c \/ s # t
      PROVE  Pending(p, s)' <=> Pending(p, s)
  <2>1. \A v \in Threads : (pc[v] = "unblock" /\ cur[v] = p) =>
          (s \in todo'[v] <=> s \in todo[v])
    BY <1>0, <1>1, <1>3, <1>5
  <2> QED
    BY <1>1, <1>2, <2>1 DEF Pending, Holds
<1>6. ASSUME NEW s \in dagTxns
      PROVE  indegree'[s] = Cardinality({p \in dagTxns : Pending(p, s)}')
  <2> DEFINE P == {p \in dagTxns : Pending(p, s)}
  <2>1. indegree[s] = Cardinality(P) /\ IsFiniteSet(P)
    BY CoreAssumption, FS_Subset DEF IndegreeCountsPending
  <2>2. CASE s = t
    <3>1. P' = P \ {c} /\ c \in P
      BY <1>1, <1>2, <1>4, <1>5, <2>2
    <3>2. Cardinality(P') = Cardinality(P) - 1
      BY <2>1, <3>1, FS_RemoveElement
    <3> QED
      BY <1>1, <2>1, <2>2, <3>2
  <2>3. CASE s # t
    <3>1. P' = P
      BY <1>1, <1>5, <2>3
    <3> QED
      BY <1>1, <2>1, <2>3, <3>1
  <2> QED
    BY <2>2, <2>3
<1> QED
  BY <1>1, <1>6 DEF IndegreeCountsPending

\* An executor's countdown comes after it has released all its neighbours, and
\* its copy of them has them all.
LEMMA CopyAndCountDownCounts ==
  ASSUME Inv, IndegreeCountsPending, NEW w \in Threads, CopyNeighbors(w) \/ CountDown(w)
  PROVE  IndegreeCountsPending'
<1> USE SchedulingTypes DEF Inv
<1>0. PICK c \in Values : c = cur[w]
  OBVIOUS
<1>1. /\ pc[w] \in {"neighbors", "unblock"} /\ UNCHANGED <<cur, status, dagTxns, adjList, indegree>>
      /\ \A v \in Threads : v # w => pc'[v] = pc[v] /\ todo'[v] = todo[v]
  BY DEF CopyNeighbors, CountDown, Goto, dataVars, dagVars, epochVars
<1>2. c # NoTxn /\ \A v \in Threads : cur[v] = c => v = w
  BY <1>0, <1>1 DEF ExecutorPhase
<1>3. \A p, t : p # c => (Passed(p, t)' <=> Passed(p, t))
  BY <1>0, <1>1 DEF Passed
<1>4. \A p, t : /\ Pending(p, t) <=> t \in adjList[p] /\ p \in Undone /\ ~Passed(p, t)
                /\ Pending(p, t)' <=> t \in adjList'[p] /\ p \in Undone' /\ ~Passed(p, t)'
  BY DEF Pending, Passed, Holds
<1>5. CASE CopyNeighbors(w)
  <2>1. pc[w] = "neighbors" /\ pc'[w] = "unblock" /\ todo'[w] = adjList[c]
    BY <1>0, <1>5 DEF CopyNeighbors, Goto
  <2>2. \A t \in adjList[c] : ~Passed(c, t) /\ ~Passed(c, t)'
    BY <1>1, <1>2, <2>1 DEF Passed
  <2>3. Undone' = Undone
    <3>1. \A v \in Threads : Busy(v)' <=> Busy(v)
      BY <1>1, <2>1 DEF Busy, BusyPcs
    <3> QED
      BY <1>1, <3>1 DEF Undone, Running, Holds, Decided
  <2>4. \A p, t : Pending(p, t)' <=> Pending(p, t)
    BY <1>1, <1>3, <1>4, <2>2, <2>3
  <2> QED
    BY <1>1, <2>4, CountsSame
<1>6. CASE CountDown(w)
  <2>1. pc[w] = "unblock" /\ todo[w] = {}
    BY <1>6 DEF CountDown
  <2>2. Undone' = Undone \ {c}
    BY <1>0, <1>6, CountDownEffect
  <2>3. \A t : Passed(c, t)
    BY <1>0, <2>1 DEF Passed
  <2>4. \A p, t : Pending(p, t)' <=> Pending(p, t)
    BY <1>1, <1>3, <1>4, <2>2, <2>3
  <2> QED
    BY <1>1, <2>4, CountsSame
<1> QED
  BY <1>5, <1>6

\* A predecessor is a transaction, never the empty entry of last_excl.
LEMMA PredecessorsAreTxns ==
  ASSUME TypeOK, NEW h \in Txns
  PROVE  Predecessors(h) \subseteq Txns
<1>1. /\ readset[h] \subseteq Keys /\ writeset[h] \subseteq Keys
      /\ lastExcl \in [Keys -> Values] /\ sharedHolders \in [Keys -> SUBSET Txns]
  BY ScanTypes
<1>2. Predecessors(h) \subseteq Txns
  <2>1. \A k \in Keys : HoldersAfterReads(h)[k] \subseteq Txns
    BY <1>1 DEF HoldersAfterReads
  <2> QED
    BY <1>1, <2>1 DEF Predecessors, ReadPredecessors, WritePredecessors, Values
<1> QED
  BY <1>2

\* While the DAG is under construction nothing of it is released.
LEMMA BuildCounts ==
  ASSUME Inv, LastExclExact, HoldersExact, EdgesInside, IndegreeCountsPending, AddToDag
  PROVE  IndegreeCountsPending'
<1>0. PICK h \in Txns : h = Head(currEpoch)
  BY NewcomerIsYoungest
<1>1. /\ h \notin dagTxns /\ dagTxns' = dagTxns \cup {h}
      /\ adjList' = [p \in Txns |-> adjList[p] \cup {s \in {h} : p \in Predecessors(h)}]
      /\ indegree' = [indegree EXCEPT ![h] = EdgesInto(h)]
      /\ UNCHANGED <<status, pc, cur, todo>>
  BY <1>0, NewcomerIsYoungest
<1>2. /\ dagTxns \subseteq Txns /\ indegree \in [Txns -> Int] /\ status[h] = "INCOMPLETE"
      /\ \A p \in Txns : adjList[p] \subseteq dagTxns
      /\ adjList[h] = {}
      /\ \A t \in dagTxns : status[t] = "INCOMPLETE"
      /\ \A w \in Threads : pc[w] # "unblock"
  <2>1. \A w \in Threads : ~Busy(w)
    BY BusyOnlyInDispatch DEF Inv, AddToDag
  <2> QED
    BY <1>0, <1>1, <2>1, NewcomerIsNew, SchedulingTypes
    DEF Inv, AddToDag, SchedulerPhase, Busy, BusyPcs, EdgesInside
<1>3. Undone = dagTxns /\ Undone' = dagTxns'
  BY <1>1, <1>2 DEF Undone, Decided
<1>4. Predecessors(h) \subseteq dagTxns'
  <2>1. Predecessors(h) \subseteq Txns
    BY PredecessorsAreTxns DEF Inv
  <2> QED
    BY <1>0, <2>1, PredecessorsExact
<1>5. ASSUME NEW t \in dagTxns' PROVE indegree'[t] = Cardinality({p \in dagTxns : Pending(p, t)}')
  <2>1. CASE t = h
    <3>1. {p \in dagTxns : Pending(p, t)}' = Predecessors(h)
      BY <1>1, <1>2, <1>3, <1>4, <2>1 DEF Pending
    <3> QED
      BY <1>1, <1>2, <2>1, <3>1 DEF EdgesInto
  <2>2. CASE t # h
    <3>1. {p \in dagTxns : Pending(p, t)}' = {p \in dagTxns : Pending(p, t)}
      BY <1>1, <1>2, <1>3, <2>2 DEF Pending
    <3> QED
      BY <1>1, <1>2, <2>2, <3>1 DEF IndegreeCountsPending
  <2> QED
    BY <2>1, <2>2
<1> QED
  BY <1>5 DEF IndegreeCountsPending

\* Every other step leaves the counts and the executors' loops alone.
LEMMA IndegreeStep ==
  ASSUME Inv, LastExclExact, HoldersExact, EdgesInside, IndegreeCountsPending, [Next]_vars
  PROVE  IndegreeCountsPending'
<1>0. \A p, t : UNCHANGED <<dagTxns, indegree>> /\ (\A q, s : Pending(q, s)' <=> Pending(q, s))
                   => IndegreeCountsPending'
  BY CountsSame
<1>1. CASE UNCHANGED <<dagTxns, indegree, adjList, status, threadVars>>
  <2>1. Undone' = Undone
    BY <1>1 DEF threadVars, Undone, Decided, Running, Busy, Holds
  <2> QED
    BY <1>0, <1>1, <2>1, PendingSame DEF threadVars
<1>2. ASSUME NEW t \in Txns, Submit(t) PROVE UNCHANGED <<dagTxns, indegree, adjList, status, threadVars>>
  BY <1>2 DEF Submit, NewTxnRequest, epochVars, dagVars, dataVars
<1>3. CASE TakeResult \/ Stop \/ Sequencer \/ PopEpoch \/ PublishDag \/ PushRoot \/ SchedulerExit
  BY <1>1, <1>3 DEF TakeResult, GetTxnResult, Stop, Sequencer, SequencerPop, CloseEpoch,
        SequencerExit, PopEpoch, PublishDag, PushRoot, SchedulerExit, epochVars, dagVars, dataVars,
        coreVars
<1>4. CASE FreeDag
  BY <1>4 DEF FreeDag, IndegreeCountsPending
<1>5. ASSUME NEW w \in Threads,
             PopReady(w) \/ ExecuteAndDecide(w) \/ ReturnResult(w) \/ ExecutorExit(w)
      PROVE  IndegreeCountsPending'
  <2>1. /\ UNCHANGED <<dagTxns, indegree, adjList>>
        /\ pc[w] # "unblock" /\ pc'[w] # "unblock"
        /\ \A v \in Threads : v # w => pc'[v] = pc[v] /\ cur'[v] = cur[v] /\ todo'[v] = todo[v]
    <3>1. CASE ExecuteAndDecide(w)
      <4>1. TypeOK /\ ExecutorPhase
        BY DEF Inv
      <4>2. UNCHANGED <<epochVars, cur>>
        BY <3>1, <4>1, ExecuteEffect
      <4>3. pc[w] # "unblock" /\ pc'[w] # "unblock"
        BY <3>1, <4>1, ExecuteEffect
      <4>4. \A v \in Threads : v # w => pc'[v] = pc[v] /\ todo'[v] = todo[v]
        BY <3>1, <4>1, ExecuteEffect
      <4> QED
        BY <4>2, <4>3, <4>4 DEF epochVars, dagVars
    <3> USE SchedulingTypes DEF Inv
    <3>2. CASE PopReady(w)
      BY <3>2 DEF PopReady, StartExecute, Goto, dagVars
    <3>3. CASE ReturnResult(w) \/ ExecutorExit(w)
      BY <3>3 DEF ReturnResult, PushResult, ExecutorExit, Goto, epochVars, dagVars
    <3> QED
      BY <1>5, <3>1, <3>2, <3>3
  <2>2. Undone' = Undone
    <3>1. CASE ReturnResult(w) \/ ExecutorExit(w)
      <4>1. ~Busy(w) /\ ~Busy(w)' /\ status' = status
        BY <3>1, SchedulingTypes DEF Inv, ReturnResult, PushResult, ExecutorExit, Goto, Busy,
              BusyPcs, dataVars
      <4>2. \A v \in Threads : v # w => (Busy(v)' <=> Busy(v))
        BY <2>1 DEF Busy
      <4> QED
        BY <2>1, <4>1, <4>2 DEF Undone, Running, Holds, Decided
    <3>2. CASE ExecuteAndDecide(w)
      BY <3>2, ExecuteKeepsUndone DEF Inv
    <3>3. CASE PopReady(w)
      <4>1. schedPc' = "dispatch" /\ ~PublishDag /\ ~\E v \in Threads : CountDown(v)
        <5>1. schedPc = "dispatch" /\ schedPc' = schedPc /\ pc'[w] = "readset" /\ pc[w] # "readset"
          BY <2>1, <3>3, PopReadyEffect, SchedulingTypes DEF Inv, Busy, BusyPcs
        <5>2. ASSUME NEW v \in Threads PROVE ~CountDown(v)
          BY <5>1, SchedulingTypes DEF Inv, CountDown, Goto
        <5> QED
          BY <5>1, <5>2 DEF PublishDag
      <4> QED
        BY <4>1, UndoneFrame
    <3> QED
      BY <1>5, <3>1, <3>2, <3>3
  <2>3. \A p, t : Pending(p, t)' <=> Pending(p, t)
    BY <2>1, <2>2, PendingSame
  <2> QED
    BY <1>0, <2>1, <2>3
<1>6. CASE UNCHANGED vars
  BY <1>1, <1>6 DEF vars, coreVars, epochVars, dagVars, dataVars
<1> QED
  BY <1>1, <1>2, <1>3, <1>4, <1>5, <1>6, BuildCounts, UnblockCounts, CopyAndCountDownCounts
  DEF Next, Terminating, Scheduler, Executor

\* Every step keeps the executors' copies inside the DAG.
LEMMA CopiesStep ==
  ASSUME Inv, EdgesInside, [Next]_vars
  PROVE  \A w \in Threads : pc'[w] = "unblock" => todo'[w] \subseteq adjList'[cur'[w]]
<1> USE SchedulingTypes DEF Inv
<1>1. ASSUME NEW w \in Threads, pc'[w] = "unblock", ~AddToDag, ~FreeDag
      PROVE  todo'[w] \subseteq adjList'[cur'[w]]
  <2>1. adjList' = adjList
    BY <1>1, ScanFrame
  <2>2. CASE pc[w] = "unblock" /\ cur'[w] = cur[w] /\ todo'[w] \subseteq todo[w]
    BY <2>1, <2>2 DEF EdgesInside
  <2>3. CASE UNCHANGED threadVars
    BY <1>1, <2>2, <2>3 DEF threadVars
  <2>4. ASSUME NEW t \in Txns, Submit(t) PROVE UNCHANGED threadVars
    BY <2>4 DEF Submit, NewTxnRequest
  <2>5. CASE TakeResult \/ Stop \/ Sequencer \/ Scheduler
    BY <1>1, <2>3, <2>5 DEF TakeResult, GetTxnResult, Stop, Sequencer, SequencerPop, CloseEpoch,
          SequencerExit, Scheduler, PopEpoch, PublishDag, PushRoot, SchedulerExit, coreVars
  <2>6. ASSUME NEW v \in Threads, ExecuteAndDecide(v)
        PROVE  pc[w] = "unblock" /\ cur'[w] = cur[w] /\ todo'[w] = todo[w]
    BY <1>1, <2>6, ExecuteEffect
  <2>7. ASSUME NEW v \in Threads, PopReady(v) \/ ReturnResult(v) \/ ExecutorExit(v) \/ CountDown(v)
        PROVE  pc[w] = "unblock" /\ cur'[w] = cur[w] /\ todo'[w] = todo[w]
    BY <1>1, <2>7 DEF PopReady, StartExecute, ReturnResult, PushResult, ExecutorExit, CountDown, Goto
  <2>8. ASSUME NEW v \in Threads, NEW t \in Txns, UnblockNeighbor(v, t)
        PROVE  pc[w] = "unblock" /\ cur'[w] = cur[w] /\ todo'[w] \subseteq todo[w]
    BY <1>1, <2>8 DEF UnblockNeighbor
  <2>9. ASSUME NEW v \in Threads, CopyNeighbors(v)
        PROVE  todo'[w] \subseteq adjList'[cur'[w]]
    <3>1. CASE v = w
      BY <2>1, <2>9, <3>1 DEF CopyNeighbors
    <3>2. CASE v # w
      BY <1>1, <2>2, <2>9, <3>2 DEF CopyNeighbors, Goto
    <3> QED
      BY <3>1, <3>2
  <2>10. CASE UNCHANGED vars
    BY <2>3, <2>10 DEF vars, coreVars
  <2> QED
    BY <2>2, <2>3, <2>4, <2>5, <2>6, <2>7, <2>8, <2>9, <2>10 DEF Next, Terminating, Executor
<1>2. CASE AddToDag \/ FreeDag
  <2>1. UNCHANGED pc
    BY <1>2 DEF AddToDag, FreeDag, coreVars, threadVars
  <2>2. \A w \in Threads : pc[w] # "unblock"
    <3>1. \A w \in Threads : ~Busy(w)
      BY <1>2, BusyOnlyInDispatch, NothingLeft DEF AddToDag
    <3> QED
      BY <3>1 DEF Busy, BusyPcs
  <2> QED
    BY <2>1, <2>2
<1> QED
  BY <1>1, <1>2

-----------------------------------------------------------------------------
(* The invariant, and what follows from it. *)

\* The initial state satisfies the invariant: there is no DAG.
LEMMA DagInit == Init => DagInv
<1> SUFFICES ASSUME Init PROVE DagInv
  OBVIOUS
<1>1. /\ dagTxns = {} /\ adjList = NoEdges /\ lastExcl = Idle /\ sharedHolders = NoHolders
      /\ \A w \in Threads : pc[w] = "idle"
  BY DEF Init, CoreInit
<1>2. LastExclExact /\ HoldersExact
  BY <1>1, CoreAssumption DEF LastExclExact, HoldersExact, Idle, NoHolders
<1>3. EdgesInside /\ DagIsConflictOrder /\ IndegreeCountsPending
  BY <1>1 DEF EdgesInside, DagIsConflictOrder, IndegreeCountsPending, NoEdges
<1> QED
  BY <1>2, <1>3 DEF DagInv

\* Every step preserves it.
LEMMA DagStep ==
  ASSUME Inv, DagInv, [Next]_vars
  PROVE  DagInv'
<1>1. LastExclExact /\ HoldersExact /\ EdgesInside /\ DagIsConflictOrder /\ IndegreeCountsPending
  BY Zenon DEF DagInv
<1>2. LastExclExact' /\ HoldersExact'
  BY <1>1, MapsStep
<1>3. DagIsConflictOrder' /\ \A p \in Txns : p \notin dagTxns' => adjList'[p] = {}
  BY <1>1, EdgesStep
<1>4. EdgesInside'
  BY <1>1, <1>3, CopiesStep DEF EdgesInside
<1>5. IndegreeCountsPending'
  BY <1>1, IndegreeStep
<1> QED
  BY <1>2, <1>3, <1>4, <1>5, Zenon DEF DagInv

\* Both invariants hold in every reachable state.
THEOREM DagInvariant == Spec => [](Inv /\ DagInv)
<1>1. Init => DagInv
  BY DagInit
<1>2. Inv /\ DagInv /\ [Next]_vars => DagInv'
  BY DagStep
<1>3. Spec => []Inv
  BY PipelineInvariant
<1> QED
  BY <1>1, <1>2, <1>3, PTL DEF Spec

\* The scan of calvin.cc:361-405 with its two maps finds exactly the conflicts
\* it means to find: reader after last writer, next writer after the readers.
THEOREM DagOrdersConflicts == Spec => []DagIsConflictOrder
<1>1. DagInv => DagIsConflictOrder
  BY Zenon DEF DagInv
<1> QED
  BY <1>1, DagInvariant, PTL

\* Executors that count a transaction down at the same time never lose a count
\* or take one twice.
THEOREM IndegreesAreExact == Spec => []IndegreeCountsPending
<1>1. DagInv => IndegreeCountsPending
  BY Zenon DEF DagInv
<1> QED
  BY <1>1, DagInvariant, PTL

\* A blocked transaction is the only one that can have an undecided predecessor.
LEMMA PredecessorsAreDecided ==
  ASSUME Inv, DagInv
  PROVE  PredecessorsDecided
<1> SUFFICES ASSUME NEW p \in dagTxns, NEW t \in dagTxns, t \in adjList[p],
                    t \in Elements(readyTxns) \/ Running(t) \/ Decided(t)
             PROVE  Decided(p)
  BY DEF PredecessorsDecided
<1>1. indegree[t] <= 0
  BY SchedulingTypes DEF Inv, ScheduledOnce, Decided
<1> DEFINE P == {q \in dagTxns : Pending(q, t)}
<1>2. IsFiniteSet(P)
  BY CoreAssumption, SchedulingTypes, FS_Subset DEF Inv
<1>3. P = {}
  <2>1. Cardinality(P) \in Nat /\ Cardinality(P) = indegree[t]
    BY <1>2, FS_CardinalityType DEF DagInv, IndegreeCountsPending
  <2> QED
    BY <1>1, <1>2, <2>1, FS_EmptySet
<1>4. ~Pending(p, t)
  BY <1>3
<1>5. CASE \E w \in Threads : pc[w] = "unblock" /\ Holds(w, p)
  BY <1>5 DEF Inv, ExecutorPhase, Holds, Decided
<1> QED
  BY <1>4, <1>5 DEF Pending, Undone

\* No transaction is ready, running or decided before the ones it has an edge
\* from are decided, and so have their writes installed.
THEOREM EdgesAreRespected == Spec => []PredecessorsDecided
<1>1. Inv /\ DagInv => PredecessorsDecided
  BY PredecessorsAreDecided
<1> QED
  BY <1>1, DagInvariant, PTL

-----------------------------------------------------------------------------
(* Where a request is. *)

Held(t) == \E w \in Threads : cur[w] = t

\* A transaction of the DAG that is not decided is in the hands of one of those
\* who will see to it; a decided one is on its way to the client.
PlaceInv ==
    /\ \A t \in dagTxns :
         Decided(t) \/ BlockedInDag(t) \/ Held(t)
         \/ t \in Elements(rootTxns) \/ t \in Elements(readyTxns)
    /\ \A t \in Txns : Decided(t) => Held(t) \/ t \in Elements(txnResults) \/ t \in returned
    /\ Distinct(txnResults)
    /\ Elements(txnResults) \cap returned = {}

\* PlaceInv depends on the statuses, the DAG, its queues and the results only.
LEMMA PlaceSame ==
  ASSUME PlaceInv,
         UNCHANGED <<dagTxns, indegree, rootTxns, readyTxns, status, cur, txnResults, returned>>
  PROVE  PlaceInv'
  BY DEF PlaceInv, Decided, BlockedInDag, Held

\* The scheduler puts a new transaction among the roots or blocks it, and takes
\* roots to the ready queue.
LEMMA PlaceScheduler ==
  ASSUME Inv, PlaceInv, AddToDag \/ PushRoot \/ FreeDag
  PROVE  PlaceInv'
<1>0. TypeOK
  BY DEF Inv
<1>1. UNCHANGED <<status, cur, txnResults, returned>>
  BY DEF AddToDag, PushRoot, FreeDag, coreVars, clientVars, dataVars, threadVars
<1>2. \A t : /\ Decided(t)' <=> Decided(t)
             /\ Held(t)' <=> Held(t)
  BY <1>1 DEF Decided, Held
<1>3. ASSUME NEW t \in dagTxns'
      PROVE  (Decided(t) \/ BlockedInDag(t) \/ Held(t)
                \/ t \in Elements(rootTxns) \/ t \in Elements(readyTxns))'
  <2>1. CASE AddToDag
    <3>0. PICK h \in Txns : h = Head(currEpoch)
      BY <2>1, NewcomerIsYoungest
    <3>1. /\ dagTxns' = dagTxns \cup {h} /\ indegree' = [indegree EXCEPT ![h] = EdgesInto(h)]
          /\ rootTxns' = IF Predecessors(h) = {} THEN Append(rootTxns, h) ELSE rootTxns
          /\ readyTxns' = readyTxns
      BY <2>1, <3>0 DEF AddToDag
    <3>2. rootTxns \in Seq(Txns) /\ indegree \in [Txns -> Int] /\ dagTxns \subseteq Txns
      BY <1>0, SchedulingTypes
    <3>3. CASE t = h
      <4>1. IsFiniteSet(Predecessors(h)) /\ EdgesInto(h) = Cardinality(Predecessors(h))
        <5>1. Predecessors(h) \subseteq Txns
          BY <1>0, PredecessorsAreTxns
        <5> QED
          BY <5>1, CoreAssumption, FS_Subset DEF EdgesInto
      <4>2. CASE Predecessors(h) = {}
        BY <3>1, <3>2, <3>3, <4>2, ElementsAppend
      <4>3. CASE Predecessors(h) # {}
        <5>1. indegree'[t] > 0
          BY <3>1, <3>2, <3>3, <4>1, <4>3, FS_EmptySet, FS_CardinalityType
        <5> QED
          BY <3>1, <3>3, <5>1 DEF BlockedInDag
      <4> QED
        BY <4>2, <4>3
    <3>4. CASE t # h
      <4>1. t \in dagTxns /\ indegree'[t] = indegree[t]
        BY <3>1, <3>2, <3>4
      <4>2. t \in Elements(rootTxns) => t \in Elements(rootTxns')
        BY <3>1, <3>2, ElementsAppend
      <4> QED
        BY <1>2, <3>1, <4>1, <4>2 DEF PlaceInv, BlockedInDag
    <3> QED
      BY <3>3, <3>4
  <2>2. CASE PushRoot
    <3>1. /\ rootTxns # <<>> /\ rootTxns' = Tail(rootTxns)
          /\ readyTxns' = Append(readyTxns, Head(rootTxns)) /\ UNCHANGED <<dagTxns, indegree>>
      BY <2>2 DEF PushRoot
    <3>2. /\ Elements(rootTxns) = {Head(rootTxns)} \cup Elements(rootTxns')
          /\ Elements(readyTxns') = Elements(readyTxns) \cup {Head(rootTxns)}
      BY <1>0, <3>1, SchedulingTypes, ElementsTail, ElementsAppend
    <3> QED
      BY <1>2, <3>1, <3>2 DEF PlaceInv, BlockedInDag
  <2>3. CASE FreeDag
    BY <2>3 DEF FreeDag
  <2> QED
    BY <2>1, <2>2, <2>3
<1> QED
  BY <1>1, <1>2, <1>3 DEF PlaceInv

\* The executors take transactions from the ready queue, put released ones
\* there, and put decided ones among the results.
LEMMA PlaceExecutor ==
  ASSUME Inv, PlaceInv, NEW w \in Threads, Executor(w)
  PROVE  PlaceInv'
<1> USE SchedulingTypes DEF Inv
<1>1. CASE CopyNeighbors(w) \/ CountDown(w) \/ ExecutorExit(w)
  BY <1>1, PlaceSame DEF CopyNeighbors, CountDown, ExecutorExit, epochVars, dagVars, dataVars, clientVars
<1>2. CASE PopReady(w)
  <2>0. PICK h \in Txns : h = Head(readyTxns)
    BY <1>2, PopReadyEffect
  <2>1. /\ Elements(readyTxns) = {h} \cup Elements(readyTxns')
        /\ cur' = [cur EXCEPT ![w] = h] /\ cur \in [Threads -> Values] /\ ~Busy(w)
        /\ UNCHANGED <<rootTxns, dagTxns, status, indegree, returned, txnResults>>
    BY <1>2, <2>0, PopReadyEffect
  <2>2. cur[w] = NoTxn /\ NoTxn \notin Txns
    BY <1>2, CoreAssumption DEF PopReady, ExecutorPhase
  <2>3. \A t \in Txns : Held(t)' <=> Held(t) \/ t = h
    BY <2>1, <2>2 DEF Held
  <2> QED
    BY <2>1, <2>3 DEF PlaceInv, Decided, BlockedInDag
<1>3. CASE ExecuteAndDecide(w)
  <2>1. TypeOK /\ ExecutorPhase
    OBVIOUS
  <2>2. /\ UNCHANGED <<returned, txnResults, cur>>
        /\ UNCHANGED <<rootTxns, readyTxns, dagTxns, indegree>>
        /\ cur[w] \in Txns /\ \A t \in Txns : t # cur[w] => status'[t] = status[t]
    BY <1>3, <2>1, ExecuteEffect DEF clientVars, epochVars, dagVars
  <2>3. Held(cur[w]) /\ \A t : Held(t)' <=> Held(t)
    BY <2>2 DEF Held
  <2>4. \A t \in Txns : t # cur[w] => (Decided(t)' <=> Decided(t))
    BY <2>2 DEF Decided
  <2> QED
    BY <2>2, <2>3, <2>4 DEF PlaceInv, BlockedInDag
<1>4. ASSUME NEW t \in Txns, UnblockNeighbor(w, t) PROVE PlaceInv'
  <2>1. /\ indegree' = [indegree EXCEPT ![t] = indegree[t] - 1]
        /\ readyTxns' = IF Released(t) THEN Append(readyTxns, t) ELSE readyTxns
        /\ UNCHANGED <<dagTxns, rootTxns, status, cur, txnResults, returned>>
    BY <1>4 DEF UnblockNeighbor, clientVars, dataVars
  <2>2. Elements(readyTxns') = IF Released(t) THEN Elements(readyTxns) \cup {t} ELSE Elements(readyTxns)
    <3>1. readyTxns \in Seq(Txns)
      OBVIOUS
    <3>2. Elements(Append(readyTxns, t)) = Elements(readyTxns) \cup {t}
      BY <3>1, ElementsAppend
    <3> HIDE SchedulingTypes DEF Inv
    <3> QED
      BY <2>1, <3>2
  <2>3. \A s : (Decided(s)' <=> Decided(s)) /\ (Held(s)' <=> Held(s))
    BY <2>1 DEF Decided, Held
  <2>4. ASSUME NEW s \in dagTxns, BlockedInDag(s) PROVE BlockedInDag(s)' \/ s \in Elements(readyTxns')
    <3>1. CASE s = t
      BY <2>1, <2>2, <2>4, <3>1 DEF BlockedInDag, Released
    <3>2. CASE s # t
      BY <2>1, <2>4, <3>2 DEF BlockedInDag
    <3> QED
      BY <3>1, <3>2
  <2> QED
    BY <2>1, <2>2, <2>3, <2>4 DEF PlaceInv
<1>5. CASE ReturnResult(w)
  <2>0. PICK c \in Values : c = cur[w]
    OBVIOUS
  <2>1. /\ pc[w] = "result" /\ txnResults' = Append(txnResults, c)
        /\ cur' = [cur EXCEPT ![w] = NoTxn]
        /\ UNCHANGED <<returned, status, dagTxns, indegree, rootTxns, readyTxns>>
    BY <1>5, <2>0 DEF ReturnResult, PushResult, clientVars, dataVars, epochVars, dagVars
  <2>2. c \in Txns /\ Decided(c)
    BY <2>0, <2>1, HolderHolds DEF ExecutorPhase
  <2>3. c \notin Elements(txnResults) /\ c \notin returned
    BY <2>0 DEF ResultsFinished
  <2>4. Elements(txnResults') = Elements(txnResults) \cup {c} /\ Distinct(txnResults')
    BY <2>1, <2>2, <2>3, ElementsAppend, DistinctAppend DEF PlaceInv
  <2>5. \A t \in Txns : Held(t) => Held(t)' \/ t = c
    BY <2>0, <2>1 DEF Held
  <2> QED
    BY <2>1, <2>2, <2>3, <2>4, <2>5 DEF PlaceInv, Decided, BlockedInDag
<1> QED
  BY <1>1, <1>2, <1>3, <1>4, <1>5 DEF Executor

\* Every step preserves it.
LEMMA PlaceStep ==
  ASSUME Inv, PlaceInv, [Next]_vars
  PROVE  PlaceInv'
<1> DEFINE S == <<dagTxns, indegree, rootTxns, readyTxns, status, cur, txnResults, returned>>
<1>1. CASE UNCHANGED S
  BY <1>1, PlaceSame
<1>2. ASSUME NEW t \in Txns, Submit(t) PROVE UNCHANGED S
  BY <1>2 DEF Submit, NewTxnRequest, epochVars, dagVars, dataVars, threadVars
<1>3. CASE Stop \/ Sequencer \/ PopEpoch \/ PublishDag \/ SchedulerExit
  BY <1>1, <1>3 DEF Stop, Sequencer, SequencerPop, CloseEpoch, SequencerExit, PopEpoch, PublishDag,
        SchedulerExit, epochVars, dagVars, dataVars, threadVars, coreVars, clientVars
<1>4. CASE TakeResult
  <2>1. /\ txnResults # <<>> /\ returned' = returned \cup {Head(txnResults)}
        /\ txnResults' = Tail(txnResults)
        /\ UNCHANGED <<dagTxns, indegree, rootTxns, readyTxns, status, cur>>
    BY <1>4 DEF TakeResult, GetTxnResult, epochVars, dagVars, dataVars, threadVars
  <2>2. /\ Elements(txnResults) = {Head(txnResults)} \cup Elements(txnResults')
        /\ Distinct(txnResults') /\ Head(txnResults) \notin Elements(txnResults')
    <3>1. txnResults \in Seq(Txns) /\ Distinct(txnResults)
      BY SchedulingTypes DEF Inv, PlaceInv
    <3> QED
      BY <2>1, <3>1, ElementsTail, DistinctTail
  <2>3. \A t : /\ Decided(t)' <=> Decided(t)
               /\ Held(t)' <=> Held(t)
               /\ BlockedInDag(t)' <=> BlockedInDag(t)
    BY <2>1 DEF Decided, Held, BlockedInDag
  <2> QED
    BY <2>1, <2>2, <2>3 DEF PlaceInv
<1>5. CASE UNCHANGED vars
  BY <1>1, <1>5 DEF vars, coreVars, clientVars, epochVars, dagVars, dataVars, threadVars
<1> QED
  BY <1>1, <1>2, <1>3, <1>4, <1>5, PlaceScheduler, PlaceExecutor DEF Next, Terminating, Scheduler

\* Nothing has been submitted initially.
LEMMA PlaceInit == Init => PlaceInv
<1> SUFFICES ASSUME Init PROVE PlaceInv
  OBVIOUS
<1> QED
  BY ElementsEmpty DEF Init, CoreInit, PlaceInv, Distinct, Decided

\* The counts of EachRequestInOnePlace are of conditions.
LEMMA PlacesAreConditions ==
  ASSUME Inv, PlaceInv, NEW t \in Txns
  PROVE  /\ Copies(txnRequests, t) = One(t \in Elements(txnRequests))
         /\ Copies(currentEpoch, t) = One(t \in Elements(currentEpoch))
         /\ Copies(currEpoch, t) = One(t \in Elements(currEpoch))
         /\ Cardinality({i \in DOMAIN epochQueue : Copies(epochQueue[i], t) > 0})
              = One(t \in Flat(epochQueue))
         /\ Copies(rootTxns, t) = One(t \in Elements(rootTxns))
         /\ Copies(readyTxns, t) = One(t \in Elements(readyTxns))
         /\ Cardinality({w \in Threads : Holds(w, t)}) = One(Held(t))
         /\ Copies(txnResults, t) = One(t \in Elements(txnResults))
<1>0. /\ uniqueId \in [Txns -> Nat]
      /\ txnRequests \in Seq(Txns) /\ currentEpoch \in Seq(Txns)
      /\ epochQueue \in Seq(Seq(Txns)) /\ currEpoch \in Seq(Txns)
      /\ rootTxns \in Seq(Txns) /\ readyTxns \in Seq(Txns) /\ txnResults \in Seq(Txns)
  BY PipelineTypes, SchedulingTypes DEF Inv
<1>1. /\ Increasing(txnRequests, uniqueId) /\ Increasing(currentEpoch, uniqueId)
      /\ Increasing(currEpoch, uniqueId) /\ InOrder(epochQueue, uniqueId)
  BY DEF Inv, PipelineOrdered
<1>2. Distinct(rootTxns) /\ Distinct(readyTxns) /\ Distinct(txnResults)
  BY DEF Inv, ScheduledOnce, PlaceInv
<1>3. Distinct(txnRequests) /\ Distinct(currentEpoch) /\ Distinct(currEpoch)
  BY <1>0, <1>1, IncreasingDistinct
<1>4. Cardinality({w \in Threads : Holds(w, t)}) = One(Held(t))
  <2>1. CASE Held(t)
    <3>1. PICK w \in Threads : cur[w] = t
      BY <2>1 DEF Held
    <3>2. {v \in Threads : Holds(v, t)} = {w}
      BY <3>1, CoreAssumption DEF Inv, ExecutorPhase, Holds
    <3> QED
      BY <2>1, <3>2, FS_Singleton DEF One
  <2>2. CASE ~Held(t)
    <3>1. {v \in Threads : Holds(v, t)} = {}
      BY <2>2 DEF Held, Holds
    <3> QED
      BY <2>2, <3>1, FS_EmptySet DEF One
  <2> QED
    BY <2>1, <2>2
<1>5. /\ Copies(txnRequests, t) = One(t \in Elements(txnRequests))
      /\ Copies(currentEpoch, t) = One(t \in Elements(currentEpoch))
      /\ Copies(currEpoch, t) = One(t \in Elements(currEpoch))
  BY <1>0, <1>3, CopiesDistinct
<1>6. /\ Copies(rootTxns, t) = One(t \in Elements(rootTxns))
      /\ Copies(readyTxns, t) = One(t \in Elements(readyTxns))
      /\ Copies(txnResults, t) = One(t \in Elements(txnResults))
  BY <1>0, <1>2, CopiesDistinct
<1>7. Cardinality({i \in DOMAIN epochQueue : Copies(epochQueue[i], t) > 0})
        = One(t \in Flat(epochQueue))
  BY <1>0, <1>1, CopiesInOrder
<1> QED
  BY <1>4, <1>5, <1>6, <1>7

\* Whatever the threads do, a request is in one place and in one only.
THEOREM RequestsAreInOnePlace == Spec => []EachRequestInOnePlace
<1>1. ASSUME Inv, PlaceInv PROVE EachRequestInOnePlace
  <2> SUFFICES ASSUME NEW t \in Txns
               PROVE  One(uniqueId[t] > 0) =
                 Copies(txnRequests, t) + Copies(currentEpoch, t) + Copies(currEpoch, t)
                 + Cardinality({i \in DOMAIN epochQueue : Copies(epochQueue[i], t) > 0})
                 + One(BlockedInDag(t)) + Copies(rootTxns, t) + Copies(readyTxns, t)
                 + Cardinality({w \in Threads : Holds(w, t)})
                 + Copies(txnResults, t) + One(t \in returned)
    BY DEF EachRequestInOnePlace
  <2> DEFINE Req == t \in Elements(txnRequests)
             Seq1 == t \in Elements(currentEpoch)
             Queue == t \in Flat(epochQueue)
             Scan == t \in Elements(currEpoch)
             Root == t \in Elements(rootTxns)
             Ready == t \in Elements(readyTxns)
             Result == t \in Elements(txnResults)
             Back == t \in returned
             Dag == t \in dagTxns
             Wait == Req \/ Seq1 \/ Queue \/ Scan
  <2>0. uniqueId[t] \in Nat
    BY <1>1, PipelineTypes DEF Inv
  <2>1. /\ Req => ~Seq1 /\ ~Queue /\ ~Scan
        /\ Seq1 => ~Queue /\ ~Scan
        /\ Queue => ~Scan
        /\ Wait => ~Dag
    BY <1>1, <2>0 DEF Inv, PipelineOrdered, Before, Waiting
  <2>2. /\ Wait \/ Dag => uniqueId[t] > 0
        /\ Wait => ~Decided(t)
        /\ uniqueId[t] = 0 => ~Decided(t)
        /\ uniqueId[t] > 0 => Wait \/ Dag \/ Decided(t)
    BY <1>1 DEF Inv, IdsAccounted, Waiting, Decided
  <2>3. /\ Result \/ Back => Decided(t) /\ ~Held(t)
        /\ ~(Result /\ Back)
    BY <1>1 DEF Inv, ResultsFinished, PlaceInv, Held
  <2>4. Held(t) => Decided(t) \/ (Dag /\ Running(t))
    <3>1. SUFFICES ASSUME Held(t) PROVE Decided(t) \/ (Dag /\ Running(t))
      OBVIOUS
    <3>2. TypeOK /\ ExecutorPhase
      BY <1>1 DEF Inv
    <3>3. PICK w \in Threads : cur[w] = t
      BY <3>1 DEF Held
    <3>4. CASE Busy(w)
      BY <3>2, <3>3, <3>4 DEF ExecutorPhase, Running, Holds
    <3>5. CASE ~Busy(w)
      <4>1. pc[w] \in BusyPcs \cup {"idle", "result", "exited"} /\ cur[w] # NoTxn
        BY <3>2, <3>3, CoreAssumption, SchedulingTypes
      <4>2. pc[w] = "result"
        BY <3>2, <3>5, <4>1 DEF ExecutorPhase, Busy
      <4> QED
        BY <3>2, <3>3, <4>2 DEF ExecutorPhase
    <3> QED
      BY <3>4, <3>5
  <2>5. /\ BlockedInDag(t) => Dag /\ ~Decided(t) /\ ~Running(t) /\ ~Root /\ ~Ready
        /\ Root => Dag /\ ~Decided(t) /\ ~Running(t) /\ ~Ready
        /\ Ready => Dag /\ ~Decided(t) /\ ~Running(t)
    BY <1>1, SchedulingTypes DEF Inv, ScheduledOnce, BlockedInDag, Decided
  <2>6. /\ Dag => Decided(t) \/ BlockedInDag(t) \/ Held(t) \/ Root \/ Ready
        /\ Decided(t) => Held(t) \/ Result \/ Back
    BY <1>1 DEF PlaceInv
  <2> HIDE DEF Req, Seq1, Queue, Scan, Root, Ready, Result, Back, Dag
  <2>7. One(uniqueId[t] > 0) =
          One(Req) + One(Seq1) + One(Scan) + One(Queue) + One(BlockedInDag(t)) + One(Root)
          + One(Ready) + One(Held(t)) + One(Result) + One(Back)
    BY <2>0, <2>1, <2>2, <2>3, <2>4, <2>5, <2>6, SMT DEF One
  <2> QED
    BY <1>1, <2>7, PlacesAreConditions
    DEF Req, Seq1, Queue, Scan, Root, Ready, Result, Back
<1>2. Init => PlaceInv
  BY PlaceInit
<1>3. Inv /\ PlaceInv /\ [Next]_vars => PlaceInv'
  BY PlaceStep
<1> QED
  BY <1>1, <1>2, <1>3, PipelineInvariant, PTL DEF Spec

-----------------------------------------------------------------------------
(* The storage: the inductive invariant, beyond Inv, DagInv and PlaceInv. *)

Started(t) == Running(t) \/ Decided(t)

\* Two transactions never get the same id, and those that have left the DAG
\* are older than those in it or before it.
IdsInOrder ==
    /\ \A p, t \in Txns : uniqueId[p] = uniqueId[t] /\ uniqueId[p] > 0 => p = t
    /\ \A p \in Txns : uniqueId[p] > 0 /\ p \notin Waiting \cup dagTxns =>
         \A t \in Waiting \cup dagTxns : uniqueId[p] < uniqueId[t]

\* An executor's loops visit keys of the set they are over.
LoopsInside ==
    \A w \in Threads :
       /\ pc[w] = "readset" => todo[w] \subseteq readset[cur[w]]
       /\ pc[w] \in {"writeset", "apply"} => todo[w] \subseteq writeset[cur[w]]

\* p's write of k is in the storage, or has been overwritten there.
Installed(p, k) ==
    \/ status[p] = "COMMITTED"
    \/ \E w \in Threads : cur[w] = p /\ pc[w] = "apply" /\ k \notin todo[w]

\* The storage has the youngest installed write.
StorageIsLast ==
    \A k \in Keys : WritersSeparated(k) =>
       /\ storage[k] # NoTxn => k \in writeset[storage[k]] /\ Installed(storage[k], k)
       /\ \A p \in Txns : k \in writeset[p] /\ Installed(p, k) =>
            storage[k] # NoTxn /\ uniqueId[p] <= uniqueId[storage[k]]

\* p is a committed writer of k before t, and v the last one, or NoTxn.
CommittedBefore(p, t, k) == k \in writeset[p] /\ Earlier(p, t) /\ status[p] = "COMMITTED"
LastBefore(v, t, k) ==
    /\ v # NoTxn => v \in Txns /\ CommittedBefore(v, t, k)
    /\ \A p \in Txns : CommittedBefore(p, t, k) => v # NoTxn /\ uniqueId[p] <= uniqueId[v]

\* t has read k for the last time.
HasRead(t, k) ==
    \/ status[t] # "INCOMPLETE"
    \/ \E w \in Threads : /\ cur[w] = t /\ k \notin todo[w]
                          /\ (pc[w] = "readset" /\ k \in readset[t]) \/ pc[w] = "writeset"

ReadsAreLast ==
    \A k \in Keys : WritersSeparated(k) =>
       \A t \in Txns : k \in Accesses(t) /\ HasRead(t, k) => LastBefore(reads[t][k], t, k)

SerialInv ==
    /\ IdsInOrder
    /\ LoopsInside
    /\ StorageIsLast
    /\ ReadsAreLast

-----------------------------------------------------------------------------
(* What the DAG says about one key whose writers are separated. *)

\* Between an undecided transaction and one that has started there are only
\* transactions of the DAG they are both in.
LEMMA UndecidedBefore ==
  ASSUME Inv, PlaceInv, IdsInOrder, NEW p \in Txns, NEW t \in Txns,
         Earlier(p, t), ~Decided(p), Started(t)
  PROVE  /\ p \in dagTxns /\ t \in dagTxns
         /\ \A q \in Txns : Earlier(p, q) /\ Earlier(q, t) => q \in dagTxns
<1>1. /\ uniqueId \in [Txns -> Nat] /\ dagTxns \subseteq Txns
      /\ Before(dagTxns, Waiting, uniqueId)
      /\ \A s \in Waiting : ~Decided(s)
      /\ p \in Waiting \cup dagTxns
  BY PipelineTypes DEF Inv, PipelineOrdered, IdsAccounted, Earlier, Decided
<1>2. uniqueId[p] > 0 /\ uniqueId[t] > 0 /\ uniqueId[p] < uniqueId[t]
  BY <1>1 DEF Earlier
<1>3. t \in dagTxns
  <2>1. CASE Running(t)
    BY <2>1 DEF Inv, ExecutorPhase, Running, Holds
  <2>2. CASE Decided(t)
    BY <1>1, <1>2, <2>2 DEF IdsInOrder
  <2> QED
    BY <2>1, <2>2 DEF Started
<1>4. p \in dagTxns
  BY <1>1, <1>2, <1>3 DEF Before
<1>5. ASSUME NEW q \in Txns, Earlier(p, q), Earlier(q, t) PROVE q \in dagTxns
  <2>1. uniqueId[q] > 0 /\ uniqueId[p] < uniqueId[q] /\ uniqueId[q] < uniqueId[t]
    BY <1>5 DEF Earlier
  <2>2. q \notin Waiting
    BY <1>1, <1>3, <2>1 DEF Before
  <2> QED
    BY <1>1, <1>4, <2>1, <2>2 DEF IdsInOrder
<1> QED
  BY <1>3, <1>4, <1>5

\* A transaction does not start before the ones it has an edge from are decided.
LEMMA EdgeDecides ==
  ASSUME Inv, DagInv, NEW p \in dagTxns, NEW t \in dagTxns, ConflictEdge(p, t), Started(t)
  PROVE  Decided(p)
  BY PredecessorsAreDecided DEF DagInv, DagIsConflictOrder, PredecessorsDecided, Started

\* A reader of k is decided before the next writer of k starts.
LEMMA ReaderBeforeNextWriter ==
  ASSUME Inv, DagInv, NEW r \in dagTxns, NEW n \in dagTxns, NEW k \in Keys,
         Earlier(r, n), Started(n), k \in readset[r], k \notin writeset[r], k \in writeset[n],
         ~ \E q \in Txns : k \in writeset[q] /\ Earlier(r, q) /\ Earlier(q, n)
  PROVE  Decided(r)
<1>1. dagTxns \subseteq Txns
  BY PipelineTypes DEF Inv
<1>2. ~WriterBetween(r, n, k)
  BY <1>1 DEF WriterBetween
<1>3. ConflictEdge(r, n)
  BY <1>2 DEF ConflictEdge
<1> QED
  BY <1>3, EdgeDecides

\* A writer of a separated key is decided before the next transaction that
\* accesses the key with no writer between them starts.
LEMMA WriterBeforeNextAccess ==
  ASSUME Inv, DagInv, PlaceInv, IdsInOrder,
         NEW p \in dagTxns, NEW n \in dagTxns, NEW k \in Keys, WritersSeparated(k),
         Earlier(p, n), Started(n), k \in writeset[p], k \in Accesses(n),
         ~ \E q \in Txns : k \in writeset[q] /\ Earlier(p, q) /\ Earlier(q, n)
  PROVE  Decided(p)
<1>1. dagTxns \subseteq Txns /\ uniqueId \in [Txns -> Nat]
  BY PipelineTypes DEF Inv
<1>2. \A x, y, z \in Txns : Earlier(x, y) /\ Earlier(y, z) => Earlier(x, z)
  BY <1>1 DEF Earlier
<1>3. CASE k \in readset[n]
  <2>1. ~WriterBetween(p, n, k)
    BY <1>1 DEF WriterBetween
  <2>2. ConflictEdge(p, n)
    BY <1>3, <2>1 DEF ConflictEdge
  <2> QED
    BY <2>2, EdgeDecides
<1>4. CASE k \in writeset[n]
  <2> SUFFICES ASSUME ~Decided(p) PROVE FALSE
    OBVIOUS
  <2>1. PICK r \in Txns : k \in readset[r] /\ Earlier(p, r) /\ Earlier(r, n)
    BY <1>1, <1>4 DEF WritersSeparated
  <2>2. r \in dagTxns /\ k \notin writeset[r]
    BY <1>1, <2>1, UndecidedBefore
  <2>3. Decided(r)
    <3>1. ~ \E q \in Txns : k \in writeset[q] /\ Earlier(r, q) /\ Earlier(q, n)
      BY <1>1, <1>2, <2>1
    <3> QED
      BY <1>4, <2>1, <2>2, <3>1, ReaderBeforeNextWriter
  <2>4. ~WriterBetween(p, r, k)
    BY <1>1, <1>2, <2>1 DEF WriterBetween
  <2>5. ConflictEdge(p, r)
    BY <2>1, <2>4 DEF ConflictEdge
  <2> QED
    BY <2>2, <2>3, <2>5, EdgeDecides DEF Started
<1> QED
  BY <1>3, <1>4 DEF Accesses

\* When a transaction starts, all earlier writers of a separated key that it
\* accesses are decided.
LEMMA WritersDecided ==
  ASSUME Inv, DagInv, PlaceInv, IdsInOrder, NEW k \in Keys, WritersSeparated(k),
         NEW t \in Txns, Started(t), k \in Accesses(t),
         NEW p \in Txns, k \in writeset[p], Earlier(p, t)
  PROVE  Decided(p)
<1> DEFINE U == {q \in Txns : k \in writeset[q] /\ Earlier(q, t) /\ ~Decided(q)}
           Between(x) == {q \in Txns : k \in writeset[q] /\ Earlier(x, q) /\ Earlier(q, t)}
<1> SUFFICES ASSUME U # {} PROVE FALSE
  OBVIOUS
<1>1. uniqueId \in [Txns -> Nat]
  BY PipelineTypes DEF Inv
<1>2. \A x, y, z \in Txns : Earlier(x, y) /\ Earlier(y, z) => Earlier(x, z)
  BY <1>1 DEF Earlier
<1>3. PICK y \in U : \A x \in U : uniqueId[x] <= uniqueId[y]
  <2>1. \A x \in U : uniqueId[x] <= uniqueId[t]
    BY <1>1 DEF Earlier
  <2>2. uniqueId[t] \in Nat /\ U \in SUBSET Txns
    BY <1>1
  <2> HIDE DEF U
  <2> QED
    BY <1>1, <2>1, <2>2, Youngest
<1>4. /\ y \in dagTxns /\ t \in dagTxns
      /\ \A q \in Txns : Earlier(y, q) /\ Earlier(q, t) => q \in dagTxns
  BY UndecidedBefore
<1>5. CASE Between(y) = {}
  BY <1>4, <1>5, WriterBeforeNextAccess
<1>6. CASE Between(y) # {}
  <2>1. PICK n \in Between(y) : \A q \in Between(y) : uniqueId[n] <= uniqueId[q]
    <3>1. Between(y) \in SUBSET Txns
      OBVIOUS
    <3> HIDE DEF Between
    <3> QED
      BY <1>1, <1>6, <3>1, Oldest
  <2>2. ~ \E q \in Txns : k \in writeset[q] /\ Earlier(y, q) /\ Earlier(q, n)
    <3> SUFFICES ASSUME NEW q \in Txns, k \in writeset[q], Earlier(y, q), Earlier(q, n) PROVE FALSE
      OBVIOUS
    <3>1. q \in Between(y)
      BY <1>2, <2>1
    <3> QED
      BY <1>1, <2>1, <3>1 DEF Earlier
  <2>3. Decided(n)
    BY <1>1, <1>3, <2>1 DEF Earlier
  <2> QED
    BY <1>4, <2>1, <2>2, <2>3, WriterBeforeNextAccess DEF Started, Accesses
<1> QED
  BY <1>5, <1>6

\* When a writer of a separated key starts, all earlier readers of the key are
\* decided.
LEMMA ReadersDecided ==
  ASSUME Inv, DagInv, PlaceInv, IdsInOrder, NEW k \in Keys, WritersSeparated(k),
         NEW t \in Txns, Started(t), k \in writeset[t],
         NEW r \in Txns, k \in Accesses(r), Earlier(r, t)
  PROVE  Decided(r)
<1> DEFINE Between == {q \in Txns : k \in writeset[q] /\ Earlier(r, q) /\ Earlier(q, t)}
<1> SUFFICES ASSUME ~Decided(r) PROVE FALSE
  OBVIOUS
<1>1. uniqueId \in [Txns -> Nat]
  BY PipelineTypes DEF Inv
<1>2. \A x, y, z \in Txns : Earlier(x, y) /\ Earlier(y, z) => Earlier(x, z)
  BY <1>1 DEF Earlier
<1>3. k \in readset[r] /\ k \notin writeset[r]
  BY WritersDecided DEF Accesses
<1>4. /\ r \in dagTxns /\ t \in dagTxns
      /\ \A q \in Txns : Earlier(r, q) /\ Earlier(q, t) => q \in dagTxns
  BY UndecidedBefore
<1>5. CASE Between = {}
  BY <1>3, <1>4, <1>5, ReaderBeforeNextWriter
<1>6. CASE Between # {}
  <2>1. PICK n \in Between : \A q \in Between : uniqueId[n] <= uniqueId[q]
    <3>1. Between \in SUBSET Txns
      OBVIOUS
    <3> HIDE DEF Between
    <3> QED
      BY <1>1, <1>6, <3>1, Oldest
  <2>2. ~ \E q \in Txns : k \in writeset[q] /\ Earlier(r, q) /\ Earlier(q, n)
    <3> SUFFICES ASSUME NEW q \in Txns, k \in writeset[q], Earlier(r, q), Earlier(q, n) PROVE FALSE
      OBVIOUS
    <3>1. q \in Between
      BY <1>2, <2>1
    <3> QED
      BY <1>1, <2>1, <3>1 DEF Earlier
  <2>3. Decided(n)
    BY <2>1, WritersDecided DEF Accesses
  <2> QED
    BY <1>3, <1>4, <2>1, <2>2, <2>3, ReaderBeforeNextWriter DEF Started
<1> QED
  BY <1>5, <1>6

-----------------------------------------------------------------------------
(* Steps. *)

\* Only the executors touch the data and the threads, and only the client the
\* ids.
LEMMA StepFrame ==
  ASSUME [Next]_vars
  PROVE  \/ \E t \in Txns : Submit(t) /\ UNCHANGED <<dataVars, threadVars>>
         \/ UNCHANGED <<dataVars, threadVars, uniqueId>>
         \/ \E w \in Threads : Executor(w) /\ UNCHANGED uniqueId
<1>1. ASSUME NEW t \in Txns, Submit(t) PROVE UNCHANGED <<dataVars, threadVars>>
  BY <1>1 DEF Submit, NewTxnRequest
<1>2. CASE TakeResult \/ Stop \/ Sequencer
  BY <1>2 DEF TakeResult, GetTxnResult, Stop, Sequencer, SequencerPop, CloseEpoch, SequencerExit,
        coreVars, clientVars
<1>3. CASE Scheduler
  BY <1>3 DEF Scheduler, PopEpoch, AddToDag, PublishDag, PushRoot, FreeDag, SchedulerExit,
        coreVars, clientVars
<1>4. ASSUME NEW w \in Threads, Executor(w) PROVE UNCHANGED uniqueId
  BY <1>4 DEF Executor, PopReady, ExecuteAndDecide, CopyNeighbors, UnblockNeighbor, CountDown,
        ReturnResult, PushResult, ExecutorExit, clientVars
<1>5. CASE UNCHANGED vars
  BY <1>5 DEF vars, coreVars, clientVars
<1> QED
  BY <1>1, <1>2, <1>3, <1>4, <1>5 DEF Next, Terminating

\* An id, once given, stays, and only younger ones are given later.
LEMMA IdsStay ==
  ASSUME Inv, [Next]_vars
  PROVE  /\ \A t \in Txns : uniqueId[t] > 0 => uniqueId'[t] = uniqueId[t]
         /\ \A p, t \in Txns : uniqueId[t] > 0 => (Earlier(p, t)' <=> Earlier(p, t))
         /\ \A k : WritersSeparated(k)' => WritersSeparated(k)
<1>1. /\ uniqueId \in [Txns -> Nat] /\ nextUniqueId \in Nat
      /\ \A t \in Txns : uniqueId[t] < nextUniqueId
  BY PipelineTypes DEF Inv, IdsAccounted
<1>2. \/ uniqueId' = uniqueId
      \/ \E t \in Txns : uniqueId[t] = 0 /\ uniqueId' = [uniqueId EXCEPT ![t] = nextUniqueId]
  BY StepFrame DEF Submit, NewTxnRequest
<1>3. \A t \in Txns : uniqueId[t] > 0 => uniqueId'[t] = uniqueId[t]
  BY <1>1, <1>2
<1>4. \A p, t \in Txns : uniqueId[t] > 0 => (Earlier(p, t)' <=> Earlier(p, t))
  BY <1>1, <1>2 DEF Earlier
<1>5. ASSUME NEW k, WritersSeparated(k)' PROVE WritersSeparated(k)
  <2> SUFFICES ASSUME NEW p \in Txns, NEW t \in Txns, k \in writeset[p], k \in writeset[t], Earlier(p, t)
               PROVE  \E r \in Txns : k \in readset[r] /\ Earlier(p, r) /\ Earlier(r, t)
    BY DEF WritersSeparated
  <2>1. uniqueId[t] > 0 /\ Earlier(p, t)'
    BY <1>1, <1>4 DEF Earlier
  <2>2. PICK r \in Txns : k \in readset[r] /\ Earlier(p, r)' /\ Earlier(r, t)'
    BY <1>5, <2>1 DEF WritersSeparated
  <2>3. Earlier(r, t)
    BY <1>4, <2>1, <2>2
  <2>4. uniqueId[r] > 0
    BY <1>1, <2>3 DEF Earlier
  <2> QED
    BY <1>4, <2>2, <2>3, <2>4
<1> QED
  BY <1>3, <1>4, <1>5

\* Every step keeps the ids distinct, and the transactions that have left the
\* DAG older than the others.
LEMMA IdsInOrderStep ==
  ASSUME Inv, IdsInOrder, [Next]_vars
  PROVE  IdsInOrder'
<1>1. /\ uniqueId \in [Txns -> Nat] /\ nextUniqueId \in Nat
      /\ dagTxns \subseteq Txns /\ Waiting \subseteq Txns
      /\ \A t \in Txns : uniqueId[t] < nextUniqueId
      /\ \A t \in Waiting \cup dagTxns : uniqueId[t] > 0
      /\ Before(dagTxns, Waiting, uniqueId)
  BY PipelineTypes DEF Inv, IdsAccounted, PipelineOrdered
<1>2. ASSUME NEW t \in Txns, Submit(t) PROVE IdsInOrder'
  <2>1. /\ uniqueId[t] = 0 /\ uniqueId' = [uniqueId EXCEPT ![t] = nextUniqueId]
        /\ txnRequests' = Append(txnRequests, t)
        /\ UNCHANGED <<currentEpoch, epochQueue, currEpoch, dagTxns>>
    BY <1>2 DEF Submit, NewTxnRequest, epochVars, seqVars, buildVars, dagVars
  <2>2. Waiting' = Waiting \cup {t}
    BY <2>1, PipelineTypes, ElementsAppend DEF Inv, Waiting
  <2>3. \A p \in Txns : IF p = t THEN uniqueId'[p] = nextUniqueId ELSE uniqueId'[p] = uniqueId[p]
    BY <1>1, <2>1
  <2>4. \A p, q \in Txns : uniqueId'[p] = uniqueId'[q] /\ uniqueId'[p] > 0 => p = q
    BY <1>1, <2>3 DEF IdsInOrder
  <2>5. ASSUME NEW p \in Txns, uniqueId'[p] > 0, p \notin Waiting' \cup dagTxns',
               NEW q \in Waiting' \cup dagTxns'
        PROVE  uniqueId'[p] < uniqueId'[q]
    <3>1. p # t /\ p \notin Waiting \cup dagTxns /\ uniqueId'[p] = uniqueId[p] /\ q \in Txns
      BY <1>1, <2>1, <2>2, <2>3, <2>5
    <3>2. CASE q = t
      BY <1>1, <2>3, <3>1, <3>2
    <3>3. CASE q # t
      BY <2>1, <2>2, <2>3, <2>5, <3>1, <3>3 DEF IdsInOrder
    <3> QED
      BY <3>2, <3>3
  <2> QED
    BY <2>4, <2>5 DEF IdsInOrder
<1>3. CASE UNCHANGED uniqueId /\ Waiting' \cup dagTxns' = Waiting \cup dagTxns
  BY <1>3 DEF IdsInOrder
<1>4. CASE FreeDag
  <2>1. UNCHANGED <<uniqueId, currEpoch, epochQueue, currentEpoch, txnRequests>> /\ dagTxns' = {}
    BY <1>4 DEF FreeDag, coreVars, clientVars, seqVars
  <2>2. Waiting' = Waiting
    BY <2>1 DEF Waiting
  <2> QED
    BY <1>1, <2>1, <2>2 DEF IdsInOrder, Before
<1>5. CASE AddToDag
  <2>1. UNCHANGED uniqueId
    BY <1>5 DEF AddToDag, coreVars, clientVars
  <2>2. Waiting' \cup dagTxns' = Waiting \cup dagTxns
    BY <1>5, WaitingStep DEF Inv
  <2> QED
    BY <1>3, <2>1, <2>2
<1>6. CASE ~FreeDag /\ ~AddToDag /\ ~\E t \in Txns : Submit(t)
  <2>1. UNCHANGED uniqueId
    BY <1>6, StepFrame
  <2>2. Waiting' \cup dagTxns' = Waiting \cup dagTxns
    BY <1>6, WaitingStep DEF Inv
  <2> QED
    BY <1>3, <2>1, <2>2
<1> QED
  BY <1>2, <1>4, <1>5, <1>6

\* Every step keeps the loops inside their sets.
LEMMA LoopsStep ==
  ASSUME Inv, LoopsInside, [Next]_vars
  PROVE  LoopsInside'
<1>0. /\ pc \in [Threads -> BusyPcs \cup {"idle", "result", "exited"}]
      /\ cur \in [Threads -> Values] /\ todo \in [Threads -> SUBSET (Keys \cup Txns)]
  BY SchedulingTypes DEF Inv
<1>1. CASE UNCHANGED threadVars
  BY <1>1 DEF LoopsInside, threadVars
<1>2. ASSUME NEW v \in Threads, Executor(v) PROVE LoopsInside'
  <2> DEFINE In(w) == /\ pc[w] = "readset" => todo[w] \subseteq readset[cur[w]]
                      /\ pc[w] \in {"writeset", "apply"} => todo[w] \subseteq writeset[cur[w]]
  <2>1. \A w \in Threads : In(w)
    BY DEF LoopsInside
  <2>2. CASE PopReady(v) \/ EndReadset(v) \/ StartApply(v)
    <3>1. \A w \in Threads : In(w)'
      BY <1>0, <2>1, <2>2 DEF PopReady, StartExecute, EndReadset, StartApply, Goto
    <3> QED
      BY <3>1 DEF LoopsInside
  <2>3. CASE ReadRecord(v) \/ ApplyWrite(v)
    <3>1. \A w \in Threads : In(w)'
      BY <1>0, <2>1, <2>3 DEF ReadRecord, ApplyWrite
    <3> QED
      BY <3>1 DEF LoopsInside
  <2>4. CASE Run(v, "decide") \/ Commit(v, "neighbors") \/ Abort(v, "neighbors")
             \/ CopyNeighbors(v) \/ CountDown(v) \/ ReturnResult(v) \/ ExecutorExit(v)
    <3>1. \A w \in Threads : In(w)'
      BY <1>0, <2>1, <2>4 DEF Run, Commit, Abort, CopyNeighbors, CountDown, ReturnResult, PushResult,
            ExecutorExit, Goto
    <3> QED
      BY <3>1 DEF LoopsInside
  <2>5. ASSUME NEW t \in Txns, UnblockNeighbor(v, t) PROVE LoopsInside'
    <3>1. \A w \in Threads : In(w)'
      BY <1>0, <2>1, <2>5 DEF UnblockNeighbor
    <3> QED
      BY <3>1 DEF LoopsInside
  <2> QED
    BY <1>2, <2>2, <2>3, <2>4, <2>5 DEF Executor, ExecuteAndDecide
<1> QED
  BY <1>1, <1>2, StepFrame

\* A busy executor's transaction has started, and has an id.
LEMMA BusyStarted ==
  ASSUME Inv, NEW w \in Threads, Busy(w)
  PROVE  cur[w] \in Txns /\ Started(cur[w]) /\ uniqueId[cur[w]] > 0
<1>1. cur[w] \in dagTxns /\ dagTxns \subseteq Txns
  BY PipelineTypes DEF Inv, ExecutorPhase
<1> QED
  BY <1>1 DEF Inv, IdsAccounted, Started, Running, Holds

\* So has a transaction whose write is installed.
LEMMA InstalledStarted ==
  ASSUME Inv, NEW p \in Txns, NEW k, Installed(p, k)
  PROVE  Started(p) /\ uniqueId[p] > 0 /\ status[p] \in {"COMMITTED", "COMPLETED_C"}
<1>1. CASE status[p] = "COMMITTED"
  <2>1. uniqueId[p] # 0 /\ uniqueId[p] \in Nat
    BY <1>1, PipelineTypes DEF Inv, IdsAccounted
  <2> QED
    BY <1>1, <2>1 DEF Started, Decided
<1>2. ASSUME NEW w \in Threads, cur[w] = p, pc[w] = "apply"
      PROVE  Started(p) /\ uniqueId[p] > 0 /\ status[p] \in {"COMMITTED", "COMPLETED_C"}
  <2>1. Busy(w)
    BY <1>2 DEF Busy, BusyPcs
  <2> QED
    BY <1>2, <2>1, BusyStarted DEF Inv, ExecutorPhase
<1> QED
  BY <1>1, <1>2 DEF Installed

\* And one that has read.
LEMMA HasReadStarted ==
  ASSUME Inv, PlaceInv, NEW t \in Txns, NEW k, HasRead(t, k)
  PROVE  Started(t) /\ uniqueId[t] > 0
<1>1. ASSUME NEW w \in Threads, cur[w] = t, pc[w] \in {"readset", "writeset"}
      PROVE  Started(t) /\ uniqueId[t] > 0
  BY <1>1, BusyStarted DEF Busy, BusyPcs
<1>2. CASE status[t] # "INCOMPLETE"
  <2>1. uniqueId[t] > 0 /\ t \notin Waiting
    <3>1. uniqueId[t] \in Nat
      BY PipelineTypes DEF Inv
    <3> QED
      BY <1>2, <3>1 DEF Inv, IdsAccounted
  <2>2. CASE Decided(t)
    BY <2>1, <2>2 DEF Started
  <2>3. CASE ~Decided(t)
    <3>1. t \in dagTxns
      BY <2>1, <2>3 DEF Inv, IdsAccounted
    <3>2. t \notin Elements(rootTxns) \cup Elements(readyTxns) /\ ~BlockedInDag(t)
      BY <1>2, <3>1 DEF Inv, ScheduledOnce, BlockedInDag
    <3>3. PICK w \in Threads : cur[w] = t
      BY <2>3, <3>1, <3>2 DEF PlaceInv, Held
    <3>4. pc[w] \in BusyPcs \cup {"idle", "result", "exited"} /\ t # NoTxn
      BY SchedulingTypes, CoreAssumption DEF Inv
    <3>5. Busy(w)
      BY <2>3, <3>3, <3>4 DEF Inv, ExecutorPhase, Busy, BusyPcs
    <3> QED
      BY <2>1, <3>3, <3>5 DEF Started, Running, Holds
  <2> QED
    BY <2>2, <2>3
<1> QED
  BY <1>1, <1>2 DEF HasRead

\* The last committed writer before a started transaction is the last one for
\* ever: all writers before it are decided.
LEMMA LastBeforeStep ==
  ASSUME Inv, DagInv, PlaceInv, IdsInOrder, [Next]_vars,
         NEW k \in Keys, WritersSeparated(k),
         NEW t \in Txns, Started(t), uniqueId[t] > 0, k \in Accesses(t),
         NEW v, LastBefore(v, t, k)
  PROVE  LastBefore(v, t, k)'
<1>1. uniqueId \in [Txns -> Nat]
  BY PipelineTypes DEF Inv
<1>2. ASSUME NEW p \in Txns, k \in writeset[p], Earlier(p, t)
      PROVE  status'[p] = status[p] /\ uniqueId'[p] = uniqueId[p] /\ uniqueId[p] > 0
  <2>1. Decided(p)
    BY <1>2, WritersDecided
  <2>2. uniqueId[p] > 0
    BY <1>1, <1>2 DEF Earlier
  <2> QED
    BY <2>1, <2>2, DecidedStep, IdsStay
<1>3. \A p \in Txns : Earlier(p, t)' <=> Earlier(p, t)
  BY IdsStay
<1>4. \A p \in Txns : CommittedBefore(p, t, k)' <=> CommittedBefore(p, t, k)
  BY <1>2, <1>3 DEF CommittedBefore
<1> QED
  BY <1>2, <1>4 DEF LastBefore, CommittedBefore

\* The storage changes in ApplyWrites only.
LEMMA StorageSame ==
  ASSUME [Next]_vars, ~ \E w \in Threads : ApplyWrite(w)
  PROVE  storage' = storage
<1>1. ASSUME NEW w \in Threads, Executor(w) PROVE storage' = storage
  BY <1>1 DEF Executor, PopReady, ExecuteAndDecide, ReadRecord, EndReadset, Run, StartApply, Commit,
        Abort, CopyNeighbors, UnblockNeighbor, CountDown, ReturnResult, PushResult, ExecutorExit,
        dataVars
<1> QED
  BY <1>1, StepFrame DEF dataVars

\* So does what is installed of it.
LEMMA InstalledSame ==
  ASSUME Inv, [Next]_vars, NEW p \in Txns, NEW k \in writeset[p],
         ~ \E w \in Threads : ApplyWrite(w)
  PROVE  Installed(p, k)' <=> Installed(p, k)
<1>0. /\ pc \in [Threads -> BusyPcs \cup {"idle", "result", "exited"}]
      /\ cur \in [Threads -> Values] /\ todo \in [Threads -> SUBSET (Keys \cup Txns)]
      /\ status \in [Txns -> TxnStatus]
  BY SchedulingTypes DEF Inv
<1>1. CASE UNCHANGED <<dataVars, threadVars>>
  BY <1>1 DEF dataVars, threadVars, Installed
<1>2. ASSUME NEW w \in Threads, Executor(w)
      PROVE  Installed(p, k)' <=> Installed(p, k)
  <2> DEFINE Others == \A v \in Threads : v # w => pc'[v] = pc[v] /\ cur'[v] = cur[v] /\ todo'[v] = todo[v]
  <2>1. CASE PopReady(w) \/ CopyNeighbors(w) \/ CountDown(w) \/ ReturnResult(w) \/ ExecutorExit(w)
             \/ \E t \in Txns : UnblockNeighbor(w, t)
    <3>1. /\ UNCHANGED status /\ pc[w] # "apply" /\ pc'[w] # "apply" /\ Others
      BY <1>0, <2>1 DEF PopReady, StartExecute, CopyNeighbors, CountDown, ReturnResult, PushResult,
            ExecutorExit, UnblockNeighbor, Goto, dataVars
    <3> QED
      BY <3>1 DEF Installed
  <2>2. CASE ReadRecord(w) \/ EndReadset(w)
    <3>1. /\ UNCHANGED status /\ pc[w] # "apply" /\ pc'[w] # "apply" /\ Others
      BY <1>0, <2>2 DEF ReadRecord, EndReadset, Goto, dataVars
    <3> QED
      BY <3>1 DEF Installed
  <2>3. CASE Run(w, "decide") \/ Abort(w, "neighbors")
    <3>1. /\ pc[w] # "apply" /\ pc'[w] # "apply" /\ Others
      BY <1>0, <2>3 DEF Run, Abort, Goto
    <3>2. status'[p] = "COMMITTED" <=> status[p] = "COMMITTED"
      <4>1. cur[w] \in Txns /\ status[cur[w]] # "COMMITTED"
        <5>1. Busy(w)
          BY <2>3 DEF Run, Abort, Busy, BusyPcs
        <5>2. cur[w] \in Txns
          BY <5>1, BusyStarted
        <5> QED
          BY <2>3, <5>2 DEF Run, Abort, Inv, ExecutorPhase
      <4> QED
        BY <1>0, <2>3, <4>1 DEF Run, Abort
    <3> QED
      BY <3>1, <3>2 DEF Installed
  <2>4. CASE StartApply(w)
    <3>1. /\ UNCHANGED status /\ pc[w] # "apply" /\ Others
          /\ cur'[w] = cur[w] /\ todo'[w] = writeset[cur[w]]
      BY <1>0, <2>4 DEF StartApply, Goto, dataVars
    <3> QED
      BY <3>1 DEF Installed
  <2>5. CASE Commit(w, "neighbors")
    <3>1. /\ pc[w] = "apply" /\ todo[w] = {} /\ pc'[w] # "apply" /\ Others
          /\ status' = [status EXCEPT ![cur[w]] = "COMMITTED"]
      BY <1>0, <2>5 DEF Commit, Goto
    <3>2. CASE p = cur[w]
      BY <1>0, <3>1, <3>2 DEF Installed
    <3>3. CASE p # cur[w]
      BY <1>0, <3>1, <3>3 DEF Installed
    <3> QED
      BY <3>2, <3>3
  <2> QED
    BY <1>2, <2>1, <2>2, <2>3, <2>4, <2>5 DEF Executor, ExecuteAndDecide
<1> QED
  BY <1>1, <1>2, StepFrame

\* An installing transaction is the youngest to have installed under the key.
LEMMA StorageStep ==
  ASSUME Inv, DagInv, PlaceInv, IdsInOrder, LoopsInside, StorageIsLast, [Next]_vars
  PROVE  StorageIsLast'
<1>0. /\ pc \in [Threads -> BusyPcs \cup {"idle", "result", "exited"}]
      /\ cur \in [Threads -> Values] /\ todo \in [Threads -> SUBSET (Keys \cup Txns)]
      /\ storage \in [Keys -> Values] /\ uniqueId \in [Txns -> Nat] /\ NoTxn \notin Txns
  BY SchedulingTypes, PipelineTypes, CoreAssumption DEF Inv, TypeOK, CoreTypeOK, DataTypeOK
<1> SUFFICES ASSUME NEW k \in Keys, WritersSeparated(k)'
             PROVE  /\ storage'[k] # NoTxn =>
                         k \in writeset[storage'[k]] /\ Installed(storage[k], k)'
                    /\ \A p \in Txns : k \in writeset[p] /\ Installed(p, k)' =>
                         storage'[k] # NoTxn /\ uniqueId'[p] <= uniqueId'[storage'[k]]
  BY DEF StorageIsLast
<1>1. WritersSeparated(k)
  BY IdsStay
<1>2. ASSUME storage'[k] = storage[k],
             \A p \in Txns : k \in writeset[p] => (Installed(p, k)' <=> Installed(p, k))
      PROVE  /\ storage'[k] # NoTxn =>
                  k \in writeset[storage'[k]] /\ Installed(storage[k], k)'
             /\ \A p \in Txns : k \in writeset[p] /\ Installed(p, k)' =>
                  storage'[k] # NoTxn /\ uniqueId'[p] <= uniqueId'[storage'[k]]
  <2>0. PICK v \in Values : v = storage[k]
    BY <1>0
  <2>1. /\ v # NoTxn => k \in writeset[v] /\ Installed(v, k)
        /\ \A p \in Txns : k \in writeset[p] /\ Installed(p, k) =>
             v # NoTxn /\ uniqueId[p] <= uniqueId[v]
    BY <1>1, <2>0 DEF StorageIsLast
  <2>2. \A p \in Txns : Installed(p, k) => uniqueId'[p] = uniqueId[p]
    BY InstalledStarted, IdsStay
  <2>3. v # NoTxn => v \in Txns /\ Installed(v, k)'
    BY <1>2, <2>1 DEF Values
  <2>4. v # NoTxn => Installed(storage[k], k)'
    BY <1>2, <2>0, <2>3 DEF Installed
  <2> QED
    BY <1>2, <2>0, <2>1, <2>2, <2>3, <2>4
<1>3. CASE ~ \E w \in Threads : ApplyWrite(w)
  <2>1. \A p \in Txns : k \in writeset[p] => (Installed(p, k)' <=> Installed(p, k))
    BY <1>3, InstalledSame
  <2>2. storage' = storage
    BY <1>3, StorageSame
  <2> QED
    BY <1>2, <2>1, <2>2
<1>4. ASSUME NEW w \in Threads, ApplyWrite(w)
      PROVE  /\ storage'[k] # NoTxn =>
                  k \in writeset[storage'[k]] /\ Installed(storage[k], k)'
             /\ \A p \in Txns : k \in writeset[p] /\ Installed(p, k)' =>
                  storage'[k] # NoTxn /\ uniqueId'[p] <= uniqueId'[storage'[k]]
  <2>0. PICK t \in Values : t = cur[w]
    BY <1>0
  <2>1. PICK j \in Keys : /\ NextKey(w, j)
                          /\ storage' = [storage EXCEPT ![j] = cur[w]]
                          /\ todo' = [todo EXCEPT ![w] = todo[w] \ {j}]
    BY <1>4 DEF ApplyWrite
  <2>2. /\ pc[w] = "apply" /\ j \in todo[w] /\ UNCHANGED <<status, pc, cur>>
        /\ status[t] = "COMPLETED_C" /\ t \in Txns /\ Started(t) /\ uniqueId[t] > 0
        /\ j \in writeset[t]
    <3>1. pc[w] = "apply" /\ j \in todo[w] /\ UNCHANGED <<status, pc, cur>>
      BY <1>4, <2>1 DEF ApplyWrite, NextKey
    <3>2. Busy(w)
      BY <3>1 DEF Busy, BusyPcs
    <3> QED
      BY <2>0, <3>1, <3>2, BusyStarted DEF Inv, ExecutorPhase, LoopsInside
  <2>3. CASE k # j
    <3>1. storage'[k] = storage[k]
      BY <1>0, <2>1, <2>3
    <3>2. \A p : Installed(p, k)' <=> Installed(p, k)
      BY <1>0, <2>1, <2>2, <2>3 DEF Installed
    <3> QED
      BY <1>2, <3>1, <3>2
  <2>4. CASE k = j
    <3>1. storage'[k] = t
      BY <1>0, <2>0, <2>1, <2>4
    <3>2. \A p \in Txns : Installed(p, k)' <=> Installed(p, k) \/ p = t
      BY <1>0, <2>0, <2>1, <2>2, <2>4, CoreAssumption DEF Installed, Inv, ExecutorPhase
    <3>3. ASSUME NEW p \in Txns, k \in writeset[p], Installed(p, k), p # t
          PROVE  uniqueId[p] <= uniqueId[t] /\ uniqueId[p] > 0
      <4>1. Started(p) /\ uniqueId[p] > 0
        BY <3>3, InstalledStarted
      <4>2. ~Decided(t)
        BY <2>2 DEF Decided
      <4>3. ~Earlier(t, p)
        BY <1>1, <2>2, <2>4, <3>3, <4>1, <4>2, WritersDecided DEF Accesses
      <4> QED
        BY <1>0, <2>2, <4>1, <4>3 DEF Earlier
    <3>4. Installed(storage[k], k)'
      BY <2>2, <3>1, <3>2 DEF Installed
    <3>5. ASSUME NEW p \in Txns, k \in writeset[p], Installed(p, k)'
          PROVE  uniqueId'[p] <= uniqueId'[t]
      <4>1. CASE p = t
        BY <1>0, <2>2, <4>1, IdsStay
      <4>2. CASE p # t
        BY <2>2, <3>2, <3>3, <3>5, <4>2, IdsStay
      <4> QED
        BY <4>1, <4>2
    <3> QED
      BY <1>0, <2>2, <2>4, <3>1, <3>4, <3>5
  <2> QED
    BY <2>3, <2>4
<1> QED
  BY <1>3, <1>4

\* What a started transaction finds in the storage under a separated key, while
\* it is still reading, is the last committed write before it.
LEMMA StorageIsLastBefore ==
  ASSUME Inv, DagInv, PlaceInv, IdsInOrder, StorageIsLast,
         NEW k \in Keys, WritersSeparated(k), NEW w \in Threads, NEW t \in Txns, t = cur[w],
         pc[w] \in {"readset", "writeset"}, k \in Accesses(t)
  PROVE  LastBefore(storage[k], t, k)
<1>0. /\ storage \in [Keys -> Values] /\ uniqueId \in [Txns -> Nat] /\ NoTxn \notin Txns
  BY PipelineTypes, CoreAssumption DEF Inv, TypeOK, CoreTypeOK, DataTypeOK
<1>1. /\ Started(t) /\ uniqueId[t] > 0 /\ status[t] = "INCOMPLETE"
      /\ \A v \in Threads : cur[v] = t => v = w
  <2>1. Busy(w)
    BY DEF Busy, BusyPcs
  <2> QED
    BY <1>0, <2>1, BusyStarted DEF Inv, ExecutorPhase
<1>2. ASSUME NEW p \in Txns, k \in writeset[p], Installed(p, k) PROVE CommittedBefore(p, t, k)
  <2>1. Started(p) /\ uniqueId[p] > 0 /\ status[p] \in {"COMMITTED", "COMPLETED_C"}
    BY <1>2, InstalledStarted
  <2>2. ~Installed(t, k)
    BY <1>1 DEF Installed
  <2>3. p # t /\ ~Decided(t)
    BY <1>1, <1>2, <2>2 DEF Decided
  <2>4. ~Earlier(t, p)
    BY <1>2, <2>1, <2>3, ReadersDecided
  <2>5. Earlier(p, t)
    BY <1>0, <1>1, <2>1, <2>3, <2>4 DEF Earlier, IdsInOrder
  <2>6. Decided(p)
    BY <1>1, <1>2, <2>5, WritersDecided
  <2> QED
    BY <1>2, <2>1, <2>5, <2>6 DEF CommittedBefore, Decided
<1>3. \A p \in Txns : CommittedBefore(p, t, k) => k \in writeset[p] /\ Installed(p, k)
  BY DEF CommittedBefore, Installed
<1>4. storage[k] # NoTxn => storage[k] \in Txns
  BY <1>0 DEF Values
<1>5. /\ storage[k] # NoTxn => k \in writeset[storage[k]] /\ Installed(storage[k], k)
      /\ \A p \in Txns : k \in writeset[p] /\ Installed(p, k) =>
           storage[k] # NoTxn /\ uniqueId[p] <= uniqueId[storage[k]]
  BY DEF StorageIsLast
<1> QED
  BY <1>2, <1>3, <1>4, <1>5 DEF LastBefore

\* A transaction has read k for the last time because it already had, or
\* because it does so now.
LEMMA HasReadStep ==
  ASSUME Inv, LoopsInside, [Next]_vars, NEW t \in Txns, NEW k \in Accesses(t), HasRead(t, k)'
  PROVE  \/ HasRead(t, k) /\ reads'[t][k] = reads[t][k]
         \/ \E w \in Threads : /\ cur[w] = t /\ pc[w] \in {"readset", "writeset"}
                               /\ k \in Keys /\ reads'[t][k] = storage[k]
<1>0. /\ pc \in [Threads -> BusyPcs \cup {"idle", "result", "exited"}]
      /\ cur \in [Threads -> Values] /\ todo \in [Threads -> SUBSET (Keys \cup Txns)]
      /\ status \in [Txns -> TxnStatus] /\ reads \in [Txns -> [Keys -> Values \cup {Unread}]]
      /\ t # NoTxn
  BY SchedulingTypes, CoreAssumption DEF Inv, TypeOK, CoreTypeOK, DataTypeOK
<1>1. CASE UNCHANGED <<dataVars, threadVars>>
  BY <1>1 DEF dataVars, threadVars, HasRead
<1>2. ASSUME NEW w \in Threads, Executor(w)
      PROVE  \/ HasRead(t, k) /\ reads'[t][k] = reads[t][k]
             \/ \E v \in Threads : /\ cur[v] = t /\ pc[v] \in {"readset", "writeset"}
                                   /\ k \in Keys /\ reads'[t][k] = storage[k]
  <2> DEFINE Others == \A v \in Threads : v # w => pc'[v] = pc[v] /\ cur'[v] = cur[v] /\ todo'[v] = todo[v]
  <2>1. CASE CopyNeighbors(w) \/ CountDown(w) \/ ReturnResult(w) \/ ExecutorExit(w)
             \/ \E s \in Txns : UnblockNeighbor(w, s)
    <3>1. /\ UNCHANGED <<reads, status>> /\ pc'[w] \notin {"readset", "writeset"} /\ Others
      BY <1>0, <2>1 DEF CopyNeighbors, CountDown, ReturnResult, PushResult, ExecutorExit,
            UnblockNeighbor, Goto, dataVars
    <3> QED
      BY <3>1 DEF HasRead
  <2>2. CASE PopReady(w)
    <3>1. /\ UNCHANGED <<reads, status>> /\ Others
          /\ pc'[w] = "readset" /\ todo'[w] = readset[cur'[w]]
      BY <1>0, <2>2 DEF PopReady, StartExecute, Goto, dataVars
    <3> QED
      BY <3>1 DEF HasRead
  <2>3. CASE EndReadset(w)
    <3>1. /\ UNCHANGED <<reads, status>> /\ Others /\ cur'[w] = cur[w]
          /\ pc[w] = "readset" /\ todo[w] = {} /\ pc'[w] = "writeset" /\ todo'[w] = writeset[cur[w]]
      BY <1>0, <2>3 DEF EndReadset, Goto, dataVars
    <3> QED
      BY <3>1 DEF HasRead, Accesses
  <2>4. CASE ReadRecord(w)
    <3>1. PICK j \in Keys : /\ j \in todo[w]
                            /\ reads' = [reads EXCEPT ![cur[w]][j] = storage[j]]
                            /\ todo' = [todo EXCEPT ![w] = todo[w] \ {j}]
      BY <2>4 DEF ReadRecord, NextKey
    <3>2. /\ UNCHANGED <<status, pc, cur>> /\ pc[w] \in {"readset", "writeset"}
      BY <2>4 DEF ReadRecord
    <3>3. CASE cur[w] = t /\ j = k
      BY <1>0, <3>1, <3>2, <3>3
    <3>4. CASE cur[w] # t \/ j # k
      <4>1. reads'[t][k] = reads[t][k]
        BY <1>0, <3>1, <3>4
      <4>2. HasRead(t, k)
        BY <1>0, <3>1, <3>2, <3>4 DEF HasRead
      <4> QED
        BY <4>1, <4>2
    <3> QED
      BY <3>3, <3>4
  <2>5. CASE Run(w, "decide")
    <3>1. /\ UNCHANGED reads /\ Others /\ pc[w] = "writeset" /\ todo[w] = {}
          /\ pc'[w] = "decide" /\ \A s \in Txns : s # cur[w] => status'[s] = status[s]
      BY <1>0, <2>5 DEF Run, Goto
    <3> QED
      BY <3>1 DEF HasRead
  <2>6. CASE StartApply(w) \/ ApplyWrite(w) \/ Commit(w, "neighbors") \/ Abort(w, "neighbors")
    <3>1. /\ UNCHANGED reads /\ Others /\ pc'[w] \notin {"readset", "writeset"}
          /\ pc[w] \in {"decide", "apply"}
          /\ \A s \in Txns : s # cur[w] => status'[s] = status[s]
      BY <1>0, <2>6 DEF StartApply, ApplyWrite, Commit, Abort, Goto, dataVars
    <3>2. status[cur[w]] # "INCOMPLETE"
      BY <3>1 DEF Inv, ExecutorPhase
    <3> QED
      BY <3>1, <3>2 DEF HasRead
  <2> QED
    BY <1>2, <2>1, <2>2, <2>3, <2>4, <2>5, <2>6 DEF Executor, ExecuteAndDecide
<1> QED
  BY <1>1, <1>2, StepFrame

\* Every step keeps the reads those of the order of arrival.
LEMMA ReadsStep ==
  ASSUME Inv, DagInv, PlaceInv, SerialInv, [Next]_vars
  PROVE  ReadsAreLast'
<1> USE DEF SerialInv
<1> SUFFICES ASSUME NEW k \in Keys, WritersSeparated(k)', NEW t \in Txns, k \in Accesses(t),
                    HasRead(t, k)'
             PROVE  LastBefore(reads[t][k], t, k)'
  BY DEF ReadsAreLast, Accesses
<1>1. WritersSeparated(k)
  BY IdsStay
<1>2. ASSUME NEW v, reads'[t][k] = v, LastBefore(v, t, k), Started(t), uniqueId[t] > 0
      PROVE  LastBefore(reads[t][k], t, k)'
  <2>1. LastBefore(v, t, k)'
    BY <1>1, <1>2, LastBeforeStep
  <2> QED
    BY <1>2, <2>1 DEF LastBefore, CommittedBefore
<1>3. CASE HasRead(t, k) /\ reads'[t][k] = reads[t][k]
  <2>1. PICK v : v = reads[t][k]
    OBVIOUS
  <2>2. LastBefore(v, t, k)
    BY <1>1, <1>3, <2>1 DEF ReadsAreLast
  <2> QED
    BY <1>2, <1>3, <2>1, <2>2, HasReadStarted
<1>4. ASSUME NEW w \in Threads, cur[w] = t, pc[w] \in {"readset", "writeset"},
             reads'[t][k] = storage[k]
      PROVE  LastBefore(reads[t][k], t, k)'
  <2>1. PICK v : v = storage[k]
    OBVIOUS
  <2>2. LastBefore(v, t, k)
    BY <1>1, <1>4, <2>1, StorageIsLastBefore
  <2>3. Started(t) /\ uniqueId[t] > 0
    BY <1>4, BusyStarted DEF Busy, BusyPcs
  <2> QED
    BY <1>2, <1>4, <2>1, <2>2, <2>3
<1> QED
  BY <1>3, <1>4, HasReadStep

-----------------------------------------------------------------------------
(* The invariant, and what follows from it. *)

\* Initially nothing has an id, has been installed or has been read.
LEMMA SerialInit == Init => SerialInv
<1> SUFFICES ASSUME Init PROVE SerialInv
  OBVIOUS
<1>1. /\ uniqueId = [t \in Txns |-> 0] /\ status = [t \in Txns |-> "INCOMPLETE"]
      /\ storage = [k \in Keys |-> NoTxn]
      /\ \A w \in Threads : pc[w] = "idle"
  BY DEF Init, CoreInit
<1>2. \A p \in Txns : \A k : ~Installed(p, k) /\ ~HasRead(p, k)
  BY <1>1 DEF Installed, HasRead
<1>3. IdsInOrder
  BY <1>1 DEF IdsInOrder
<1>4. LoopsInside
  BY <1>1 DEF LoopsInside
<1>5. StorageIsLast /\ ReadsAreLast
  BY <1>1, <1>2 DEF StorageIsLast, ReadsAreLast
<1> QED
  BY <1>3, <1>4, <1>5 DEF SerialInv

\* Every step preserves it.
LEMMA SerialStep ==
  ASSUME Inv, DagInv, PlaceInv, SerialInv, [Next]_vars
  PROVE  SerialInv'
<1>1. IdsInOrder /\ LoopsInside /\ StorageIsLast
  BY DEF SerialInv
<1>2. IdsInOrder' /\ LoopsInside'
  BY <1>1, IdsInOrderStep, LoopsStep
<1>3. StorageIsLast'
  BY <1>1, StorageStep
<1>4. ReadsAreLast'
  BY ReadsStep
<1> QED
  BY <1>2, <1>3, <1>4 DEF SerialInv

\* SerialValue is the last committed write before the transaction.
LEMMA SerialValueIsLast ==
  ASSUME Inv, IdsInOrder, NEW t \in Txns, NEW k, NEW v, LastBefore(v, t, k)
  PROVE  v = SerialValue(t, k)
<1> DEFINE W == {p \in Txns : k \in writeset[p] /\ Earlier(p, t) /\ status[p] = "COMMITTED"}
<1>0. uniqueId \in [Txns -> Nat]
  BY PipelineTypes DEF Inv
<1>1. \A p \in Txns : p \in W <=> CommittedBefore(p, t, k)
  BY DEF CommittedBefore
<1>2. SerialValue(t, k) =
        IF W = {} THEN NoTxn ELSE CHOOSE p \in W : \A q \in W : uniqueId[q] <= uniqueId[p]
  BY DEF SerialValue
<1>3. W \subseteq Txns /\ \A p \in W : uniqueId[p] > 0
  BY <1>0 DEF Earlier
<1> HIDE DEF W
<1>4. CASE W = {}
  BY <1>1, <1>2, <1>4 DEF LastBefore
<1>5. CASE W # {}
  <2>1. v \in W /\ \A q \in W : uniqueId[q] <= uniqueId[v]
    BY <1>1, <1>3, <1>5 DEF LastBefore
  <2>2. PICK c \in W : c = SerialValue(t, k) /\ \A q \in W : uniqueId[q] <= uniqueId[c]
    BY <1>2, <1>5, <2>1
  <2>3. uniqueId[c] = uniqueId[v]
    BY <1>0, <1>3, <2>1, <2>2
  <2> QED
    BY <1>3, <2>1, <2>2, <2>3 DEF IdsInOrder
<1> QED
  BY <1>4, <1>5

\* All the invariants of CALVIN_EPOCH.
THEOREM EpochInvariant == Spec => [](Inv /\ DagInv /\ PlaceInv /\ SerialInv)
<1>1. Init => DagInv /\ PlaceInv /\ SerialInv
  BY DagInit, PlaceInit, SerialInit
<1>2. Inv /\ DagInv /\ PlaceInv /\ SerialInv /\ [Next]_vars => DagInv' /\ PlaceInv' /\ SerialInv'
  BY DagStep, PlaceStep, SerialStep
<1> QED
  BY <1>1, <1>2, PipelineInvariant, PTL DEF Spec

\* Where readers separate the writers of a key, CALVIN_EPOCH is deterministic:
\* what a transaction reads there is fixed by the order in which the
\* transactions arrived, and by which of them committed.
THEOREM SeparatedKeysAreDeterministic == Spec => []SeparatedKeysReadSerially
<1>1. ASSUME Inv, SerialInv PROVE SeparatedKeysReadSerially
  <2> SUFFICES ASSUME NEW k \in Keys, WritersSeparated(k), NEW t \in Txns,
                      status[t] # "INCOMPLETE", k \in Accesses(t)
               PROVE  reads[t][k] = SerialValue(t, k)
    BY DEF SeparatedKeysReadSerially, ReadsSerially
  <2>1. LastBefore(reads[t][k], t, k)
    BY <1>1 DEF SerialInv, ReadsAreLast, HasRead
  <2> QED
    BY <1>1, <2>1, SerialValueIsLast DEF SerialInv
<1> QED
  BY <1>1, EpochInvariant, PTL
=============================================================================
