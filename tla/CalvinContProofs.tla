--------------------------- MODULE CalvinContProofs ---------------------------
(***************************************************************************)
(* Proofs about CalvinCont for every set of transactions, keys and         *)
(* executors, every read and write set, and whether or not the destructor  *)
(* runs.  First the inductive invariant Inv, which says where a            *)
(* transaction may be and what is still to be counted down from its        *)
(* indegree; then what the DAG's edges say of the order of the conflicts,  *)
(* in which the edges the scheduler leaves out are the point.              *)
(***************************************************************************)
EXTENDS CalvinCont, QueueLemmas

-----------------------------------------------------------------------------
(* The inductive invariant. *)

\* The scheduler has popped t and has not put it into the DAG yet.
Scanning(t) == cur[Main] = t /\ pc[Main] \in {"lockAdj", "lockInd", "scan"}

Waiting == {t \in Txns : t \in Elements(txnRequests) \/ Scanning(t)}

\* The transactions that have entered the DAG.
Added == {t \in Txns : uniqueId[t] > 0} \ Waiting

Held(t) == \E w \in Executors : Holds(w, t)

\* What a thread's program counter says of its transaction and of its loop.
ThreadPhase ==
    /\ pc[Main] \in {"idle", "lockAdj", "lockInd", "scan", "unlockInd", "unlockAdj", "exited"}
    /\ \A w \in Threads : cur[w] = NoTxn <=> pc[w] \in {"idle", "exited"}
    /\ \A w \in Executors :
          /\ pc[w] \notin {"scan", "unlockAdj"}
          /\ pc[w] = "readset" => todo[w] \subseteq readset[cur[w]]
          /\ pc[w] \in {"writeset", "apply"} => todo[w] \subseteq writeset[cur[w]]
          /\ pc[w] = "unblock" => todo[w] \subseteq adjList[cur[w]]
          /\ pc[w] \in {"readset", "writeset"} => status[cur[w]] = "INCOMPLETE"
          /\ pc[w] = "decide" => status[cur[w]] \in {"COMPLETED_C", "COMPLETED_A"}
          /\ pc[w] = "apply" => status[cur[w]] = "COMPLETED_C"
          /\ pc[w] \in {"lockAdj", "lockInd", "unblock", "unlockInd", "result"} => Decided(cur[w])

\* Ids are given out in the order of the queue, from which the scheduler takes
\* the oldest.
IdsInOrder ==
    /\ \A t \in Txns : uniqueId[t] < nextUniqueId
    /\ \A p, t \in Txns : uniqueId[p] = uniqueId[t] /\ uniqueId[p] > 0 => p = t
    /\ \A t \in Waiting : uniqueId[t] > 0
    /\ Increasing(txnRequests, uniqueId)
    /\ \A t \in Txns : Scanning(t) => Before({t}, Elements(txnRequests), uniqueId)
    /\ Before(Added, Waiting, uniqueId)

\* Before it has entered the DAG nobody but the scheduler has a transaction.
NewAreUntouched ==
    \A t \in Txns \ Added :
        /\ status[t] = "INCOMPLETE" /\ indegree[t] = 0 /\ adjList[t] = {}
        /\ t \notin Elements(readyTxns) /\ ~Held(t)
        /\ t \notin Elements(txnResults) /\ t \notin returned
        /\ \A p \in Txns : t \notin adjList[p]
        /\ \A k \in Keys : t \notin sharedHolders[k] /\ lastExcl[k] # t

\* Afterwards it is blocked, ready, held by one executor, in the queue of
\* results or returned: never two of these.
OnePlace ==
    /\ Distinct(readyTxns) /\ Distinct(txnResults)
    /\ \A v, w \in Executors : cur[v] = cur[w] /\ cur[v] # NoTxn => v = w
    /\ \A t \in Elements(readyTxns) : status[t] = "INCOMPLETE" /\ ~Held(t)
    /\ \A t \in Txns : indegree[t] > 0 => ~HandedOver(t)
    /\ \A t \in Added : indegree[t] = 0 => HandedOver(t)
    /\ \A t \in Txns : status[t] # "INCOMPLETE" => Held(t) \/ Decided(t)
    /\ \A t \in Txns : Decided(t) => Held(t) \/ t \in Elements(txnResults) \cup returned
    /\ \A t \in Elements(txnResults) \cup returned : Decided(t) /\ ~Held(t)
    /\ Elements(txnResults) \cap returned = {}

Inv ==
    /\ TypeOK
    /\ ThreadPhase
    /\ IdsInOrder
    /\ NewAreUntouched
    /\ OnePlace
    /\ IndegreeCountsPending

\* Each lock has one holder at most: its program counter tells who.
LocksHeld ==
    /\ adjLock = {w \in Threads :
          pc[w] \in IF w = Main THEN {"lockInd", "scan", "unlockInd", "unlockAdj"}
                                ELSE {"lockInd", "unblock"}}
    /\ indLock = {w \in Threads :
          pc[w] \in IF w = Main THEN {"scan", "unlockInd"} ELSE {"unblock", "unlockInd"}}
    /\ \A v, w \in adjLock : v = w
    /\ \A v, w \in indLock : v = w

-----------------------------------------------------------------------------
(* Which edges the DAG has. *)

\* last_excl is the last writer of each key that has entered the DAG.
LastExclExact ==
    \A k \in Keys, p \in Txns :
        lastExcl[k] = p <=>
            /\ p \in Added /\ k \in writeset[p]
            /\ \A q \in Added : k \in writeset[q] => uniqueId[q] <= uniqueId[p]

\* shared_holders are its readers since then, the last writer among them if it
\* reads the key too.
HoldersExact ==
    \A k \in Keys, r \in Txns :
        r \in sharedHolders[k] <=>
            /\ r \in Added /\ k \in readset[r]
            /\ \A q \in Added : k \in writeset[q] => ~Earlier(r, q)

\* t is the next writer of k after its reader p, or a mere reader that has p
\* for its last writer.
ConflictsOn(p, t, k) ==
    /\ Earlier(p, t)
    /\ \/ k \in readset[p] /\ k \in writeset[t]
       \/ k \in writeset[p] /\ k \in readset[t] /\ k \notin writeset[t]
    /\ ~ \E q \in Added : k \in writeset[q] /\ Earlier(p, q) /\ Earlier(q, t)

\* A conflict has its edge as long as the first of the two has not voted.
EdgesKept ==
    \A p, t \in Added : \A k \in Keys :
        ConflictsOn(p, t, k) /\ status[p] = "INCOMPLETE" => t \in adjList[p]

\* What is in the storage comes from a writer of the key that has voted.
StorageVoted ==
    \A k \in Keys : storage[k] # NoTxn =>
        k \in writeset[storage[k]] /\ status[storage[k]] # "INCOMPLETE"

OrderInv ==
    /\ LastExclExact
    /\ HoldersExact
    /\ EdgesKept
    /\ StorageVoted
    /\ NothingReadFromTheFuture

-----------------------------------------------------------------------------
(* Type correctness. *)

Pcs == {"idle", "lockAdj", "lockInd", "scan", "readset", "writeset", "decide", "apply",
        "unblock", "unlockAdj", "unlockInd", "result", "exited"}

\* The types, one variable at a time.
LEMMA Types ==
  ASSUME TypeOK
  PROVE  /\ nextUniqueId \in Nat \ {0} /\ uniqueId \in [Txns -> Nat]
         /\ txnRequests \in Seq(Txns) /\ txnResults \in Seq(Txns) /\ returned \subseteq Txns
         /\ status \in [Txns -> TxnStatus] /\ reads \in [Txns -> [Keys -> Values \cup {Unread}]]
         /\ storage \in [Keys -> Values]
         /\ completedTxns \in Seq(Txns) /\ committedTxns \in Seq(Txns)
         /\ pc \in [Threads -> Pcs] /\ cur \in [Threads -> Values]
         /\ todo \in [Threads -> SUBSET (Keys \cup Txns)]
         /\ stopped \in BOOLEAN
         /\ sharedHolders \in [Keys -> SUBSET Txns] /\ lastExcl \in [Keys -> Values]
         /\ adjList \in [Txns -> SUBSET Txns] /\ indegree \in [Txns -> Nat]
         /\ readyTxns \in Seq(Txns)
         /\ adjLock \subseteq Threads /\ indLock \subseteq Threads
         /\ Elements(txnRequests) \subseteq Txns /\ Elements(readyTxns) \subseteq Txns
         /\ Elements(txnResults) \subseteq Txns
  BY ElementsType DEF TypeOK, CoreTypeOK, ClientTypeOK, DataTypeOK, ThreadTypeOK, ContTypeOK, Pcs

\* And those of the constants.
LEMMA Constants ==
  /\ IsFiniteSet(Txns) /\ NoTxn \notin Txns /\ Unread \notin Txns /\ Unread # NoTxn
  /\ readset \in [Txns -> SUBSET Keys] /\ writeset \in [Txns -> SUBSET Keys]
  /\ Main \in Threads /\ Main \notin Executors /\ Executors \subseteq Threads
  /\ Threads = Executors \cup {Main}
  /\ Values = Txns \cup {NoTxn} /\ MayAbort \subseteq Txns
  BY CoreAssumption, ContAssumption DEF Executors, Values

\* The initial state has the declared types.
LEMMA TypeInit == Init => TypeOK
<1> SUFFICES ASSUME Init PROVE TypeOK
  OBVIOUS
<1> USE Constants DEF Init, ContInit, CoreInit
<1>1. ClientTypeOK
  BY DEF ClientTypeOK
<1>2. DataTypeOK
  BY DEF DataTypeOK, TxnStatus
<1>3. ThreadTypeOK /\ pc \in [Threads -> Pcs]
  BY DEF ThreadTypeOK, Pcs
<1>4. ContTypeOK
  <2>1. stopped \in BOOLEAN
    BY Zenon
  <2>2. /\ sharedHolders \in [Keys -> SUBSET Txns] /\ lastExcl \in [Keys -> Values]
        /\ indegree \in [Txns -> Nat] /\ readyTxns \in Seq(Txns)
    OBVIOUS
  <2> QED
    BY <2>1, <2>2, Zenon DEF ContTypeOK
<1>5. adjList \in [Txns -> SUBSET Txns] /\ adjLock \subseteq Threads /\ indLock \subseteq Threads
  OBVIOUS
<1> HIDE DEF Init, ContInit, CoreInit
<1> QED
  BY <1>1, <1>2, <1>3, <1>4, <1>5 DEF TypeOK, CoreTypeOK, Pcs

\* A thread that is not idle holds a transaction.
LEMMA HolderHolds ==
  ASSUME TypeOK, ThreadPhase, NEW w \in Threads, pc[w] \notin {"idle", "exited"}
  PROVE  cur[w] \in Txns
  BY Types, Constants DEF ThreadPhase

\* The parts of TypeOK a step leaves alone.
LEMMA TypeFrame ==
  ASSUME TypeOK
  PROVE  /\ UNCHANGED clientSide => ClientTypeOK'
         /\ UNCHANGED dataVars => DataTypeOK'
         /\ UNCHANGED threadVars => ThreadTypeOK' /\ (pc \in [Threads -> Pcs])'
         /\ UNCHANGED <<stopped, sharedHolders, lastExcl, indegree, readyTxns>> => ContTypeOK'
         /\ UNCHANGED <<adjList, adjLock, indLock>> =>
              (adjList \in [Txns -> SUBSET Txns] /\ adjLock \subseteq Threads /\ indLock \subseteq Threads)'
         /\ ClientTypeOK /\ DataTypeOK /\ ThreadTypeOK /\ ContTypeOK
  BY DEF TypeOK, CoreTypeOK, ClientTypeOK, DataTypeOK, ThreadTypeOK, ContTypeOK, Pcs,
         clientVars, clientSide, dataVars, threadVars

\* Nothing but the executor's own transaction changes while it executes and
\* decides it.
LEMMA ExecuteEffect ==
  ASSUME TypeOK, ThreadPhase, NEW w \in Executors, ExecuteAndDecide(w)
  PROVE  /\ UNCHANGED <<clientSide, contVars, cur>>
         /\ pc[w] \in {"readset", "writeset", "decide", "apply"}
         /\ pc'[w] \in {"readset", "writeset", "decide", "apply", "lockAdj"}
         /\ \A v \in Threads : v # w => pc'[v] = pc[v] /\ todo'[v] = todo[v]
         /\ cur[w] \in Txns
         /\ ~Decided(cur[w])
         /\ \A t \in Txns : t # cur[w] => status'[t] = status[t]
         /\ status[cur[w]] # "INCOMPLETE" => status'[cur[w]] # "INCOMPLETE"
         /\ pc'[w] \in {"readset", "writeset"} => status'[cur[w]] = "INCOMPLETE"
         /\ pc'[w] = "decide" => status'[cur[w]] \in {"COMPLETED_C", "COMPLETED_A"}
         /\ pc'[w] = "apply" => status'[cur[w]] = "COMPLETED_C"
         /\ pc'[w] = "lockAdj" => status'[cur[w]] \in {"COMMITTED", "ABORTED"}
         /\ pc'[w] = "readset" => todo'[w] \subseteq readset[cur[w]]
         /\ pc'[w] \in {"writeset", "apply"} => todo'[w] \subseteq writeset[cur[w]]
         /\ DataTypeOK' /\ ThreadTypeOK' /\ (pc \in [Threads -> Pcs])'
<1> USE DEF Goto
<1>0. w \in Threads
  BY Constants
<1>1. /\ pc \in [Threads -> Pcs] /\ cur \in [Threads -> Values]
      /\ todo \in [Threads -> SUBSET (Keys \cup Txns)] /\ status \in [Txns -> TxnStatus]
      /\ reads \in [Txns -> [Keys -> Values \cup {Unread}]] /\ storage \in [Keys -> Values]
      /\ completedTxns \in Seq(Txns) /\ committedTxns \in Seq(Txns)
  BY Types
<1>2. pc[w] \notin {"idle", "exited"} => cur[w] \in Txns
  BY <1>0, HolderHolds
<1>3. UNCHANGED <<clientSide, contVars>>
  BY DEF ExecuteAndDecide
<1>4. /\ pc[w] \in {"readset", "writeset"} => status[cur[w]] = "INCOMPLETE"
      /\ pc[w] = "apply" => status[cur[w]] = "COMPLETED_C"
      /\ pc[w] = "readset" => todo[w] \subseteq readset[cur[w]]
      /\ pc[w] \in {"writeset", "apply"} => todo[w] \subseteq writeset[cur[w]]
  BY DEF ThreadPhase
<1>5. cur[w] \in Txns => readset[cur[w]] \subseteq Keys /\ writeset[cur[w]] \subseteq Keys
  BY Constants
<1> USE <1>0, <1>1, <1>2, <1>3, <1>4, <1>5 DEF DataTypeOK, ThreadTypeOK
<1>6. CASE ReadRecord(w)
  <2> PICK k \in Keys : /\ reads' = [reads EXCEPT ![cur[w]][k] = storage[k]]
                        /\ todo' = [todo EXCEPT ![w] = todo[w] \ {k}]
    BY <1>6 DEF ReadRecord
  <2> QED
    BY <1>6 DEF ReadRecord, Decided
<1>7. CASE EndReadset(w)
  BY <1>7 DEF EndReadset, Decided, dataVars, Pcs
<1>8. CASE Run(w, "decide")
  BY <1>8 DEF Run, Decided, TxnStatus, Pcs
<1>9. CASE StartApply(w)
  BY <1>9 DEF StartApply, Decided, dataVars, Pcs
<1>10. CASE ApplyWrite(w)
  <2> PICK k \in Keys : /\ storage' = [storage EXCEPT ![k] = cur[w]]
                        /\ todo' = [todo EXCEPT ![w] = todo[w] \ {k}]
    BY <1>10 DEF ApplyWrite
  <2> QED
    BY <1>10 DEF ApplyWrite, Decided, Values
<1>11. CASE Commit(w, "lockAdj")
  BY <1>11 DEF Commit, Decided, TxnStatus, Pcs
<1>12. CASE Abort(w, "lockAdj")
  BY <1>12 DEF Abort, Decided, TxnStatus, Pcs
<1> QED
  BY <1>6, <1>7, <1>8, <1>9, <1>10, <1>11, <1>12 DEF ExecuteAndDecide, Execution

\* What the four steps with the locks do.
LEMMA LockEffect ==
  ASSUME TypeOK, ThreadPhase, NEW w \in Threads, Lock(w)
  PROVE  /\ UNCHANGED <<clientSide, dataVars, stopped, dagVars, readyTxns>>
         /\ \A v \in Threads : v # w => pc'[v] = pc[v] /\ cur'[v] = cur[v] /\ todo'[v] = todo[v]
         /\ w # Main =>
              /\ cur' = cur
              /\ \/ pc[w] = "lockAdj" /\ pc'[w] = "lockInd"
                 \/ pc[w] = "lockInd" /\ pc'[w] = "unblock" /\ todo'[w] = adjList[cur[w]]
                 \/ pc[w] = "unblock" /\ pc'[w] = "unlockInd" /\ todo[w] = {}
                 \/ pc[w] = "unlockInd" /\ pc'[w] = "result"
         /\ w = Main =>
              /\ todo' = todo
              /\ \/ pc[w] = "lockAdj" /\ pc'[w] = "lockInd" /\ cur' = cur
                 \/ pc[w] = "lockInd" /\ pc'[w] = "scan" /\ cur' = cur
                 \/ pc[w] = "unlockInd" /\ pc'[w] = "unlockAdj" /\ cur' = cur
                 \/ pc[w] = "unlockAdj" /\ pc'[w] = "idle" /\ cur'[w] = NoTxn
         /\ TypeOK'
<1> USE Constants DEF Goto
<1>1. /\ pc \in [Threads -> Pcs] /\ cur \in [Threads -> Values]
      /\ todo \in [Threads -> SUBSET (Keys \cup Txns)]
      /\ adjList \in [Txns -> SUBSET Txns] /\ adjLock \subseteq Threads /\ indLock \subseteq Threads
  BY Types
<1>2. pc[w] \notin {"idle", "exited"} => cur[w] \in Txns
  BY HolderHolds
<1>3. ASSUME UNCHANGED <<clientSide, dataVars, stopped, dagVars, readyTxns>>, ThreadTypeOK',
             (pc \in [Threads -> Pcs])', adjLock' \subseteq Threads, indLock' \subseteq Threads
      PROVE  TypeOK'
  <2>1. ClientTypeOK' /\ DataTypeOK' /\ ContTypeOK' /\ (adjList \in [Txns -> SUBSET Txns])'
    BY <1>1, <1>3, TypeFrame DEF dagVars
  <2> QED
    BY <1>3, <2>1 DEF TypeOK, CoreTypeOK, Pcs
<1>4. w # Main => w \in Executors
  OBVIOUS
<1>5. CASE LockAdj(w)
  <2>1. ThreadTypeOK' /\ (pc \in [Threads -> Pcs])'
    BY <1>1, <1>5 DEF LockAdj, ThreadTypeOK, Pcs
  <2>2. TypeOK'
    BY <1>1, <1>3, <1>5, <2>1 DEF LockAdj
  <2> QED
    BY <1>1, <1>5, <2>2 DEF LockAdj
<1>6. CASE LockInd(w)
  <2>1. ThreadTypeOK' /\ (pc \in [Threads -> Pcs])'
    BY <1>1, <1>2, <1>6 DEF LockInd, ThreadTypeOK, Pcs
  <2>2. TypeOK'
    BY <1>1, <1>3, <1>6, <2>1 DEF LockInd
  <2> QED
    BY <1>1, <1>6, <2>2 DEF LockInd
<1>7. CASE UnlockInd(w)
  <2>1. ThreadTypeOK' /\ (pc \in [Threads -> Pcs])'
    BY <1>1, <1>7 DEF UnlockInd, ThreadTypeOK, Pcs
  <2>2. TypeOK'
    BY <1>1, <1>3, <1>7, <2>1 DEF UnlockInd
  <2> QED
    BY <1>1, <1>7, <2>2 DEF UnlockInd
<1>8. CASE UnlockAdj(w)
  <2>1. ThreadTypeOK' /\ (pc \in [Threads -> Pcs])'
    BY <1>1, <1>8 DEF UnlockAdj, ThreadTypeOK, Pcs, Values
  <2>2. TypeOK'
    BY <1>1, <1>3, <1>8, <2>1 DEF UnlockAdj
  <2>3. w # Main => pc[w] # "unlockAdj"
    BY <1>4 DEF ThreadPhase
  <2>4. w = Main => pc[w] # "unblock"
    BY DEF ThreadPhase
  <2> QED
    BY <1>1, <1>8, <2>2, <2>3, <2>4 DEF UnlockAdj
<1> QED
  BY <1>5, <1>6, <1>7, <1>8 DEF Lock

\* An executor pops a transaction that nobody has.
LEMMA PopReadyEffect ==
  ASSUME TypeOK, ThreadPhase, OnePlace, NEW w \in Executors, PopReady(w)
  PROVE  LET h == Head(readyTxns)
         IN  /\ UNCHANGED <<clientSide, dataVars, stopped, dagVars, lockVars>>
             /\ \A v \in Threads : v # w => pc'[v] = pc[v] /\ cur'[v] = cur[v] /\ todo'[v] = todo[v]
             /\ pc[w] = "idle" /\ cur[w] = NoTxn
             /\ pc'[w] = "readset" /\ cur'[w] = h /\ todo'[w] = readset[h]
             /\ h \in Txns /\ h \in Elements(readyTxns)
             /\ status[h] = "INCOMPLETE" /\ ~Held(h)
             /\ Elements(readyTxns) = {h} \cup Elements(readyTxns')
             /\ h \notin Elements(readyTxns') /\ Distinct(readyTxns')
             /\ TypeOK'
<1> USE Constants DEF Goto
<1> DEFINE h == Head(readyTxns)
<1>1. /\ pc \in [Threads -> Pcs] /\ cur \in [Threads -> Values]
      /\ todo \in [Threads -> SUBSET (Keys \cup Txns)] /\ readyTxns \in Seq(Txns)
      /\ readyTxns # <<>> /\ readyTxns' = Tail(readyTxns) /\ Distinct(readyTxns)
  BY Types DEF PopReady, OnePlace
<1>2. /\ h \in Txns /\ Tail(readyTxns) \in Seq(Txns)
      /\ Elements(readyTxns) = {h} \cup Elements(readyTxns')
      /\ h \notin Elements(readyTxns') /\ Distinct(readyTxns')
  BY <1>1, ElementsTail, DistinctTail
<1>3. status[h] = "INCOMPLETE" /\ ~Held(h)
  BY <1>2 DEF OnePlace
<1>4. /\ UNCHANGED <<clientSide, dataVars, stopped, dagVars, lockVars>>
      /\ pc[w] = "idle" /\ pc' = [pc EXCEPT ![w] = "readset"]
      /\ cur' = [cur EXCEPT ![w] = h] /\ todo' = [todo EXCEPT ![w] = readset[h]]
  BY DEF PopReady, StartExecute
<1>5. cur[w] = NoTxn
  BY <1>4 DEF ThreadPhase
<1>6. TypeOK'
  <2>1. ThreadTypeOK' /\ (pc \in [Threads -> Pcs])'
    BY <1>1, <1>2, <1>4 DEF ThreadTypeOK, Pcs
  <2>2. ClientTypeOK' /\ DataTypeOK'
    BY <1>4, TypeFrame
  <2>3. /\ ContTypeOK'
        /\ (adjList \in [Txns -> SUBSET Txns] /\ adjLock \subseteq Threads /\ indLock \subseteq Threads)'
    BY <1>1, <1>2, <1>4, TypeFrame DEF dagVars, lockVars, ContTypeOK
  <2> QED
    BY <2>1, <2>2, <2>3 DEF TypeOK, CoreTypeOK, Pcs
<1> HIDE DEF h
<1> QED
  BY <1>1, <1>2, <1>3, <1>4, <1>5, <1>6 DEF h

\* An executor releases a neighbour, which nobody has had yet.
LEMMA UnblockEffect ==
  ASSUME TypeOK, ThreadPhase, OnePlace, IndegreeCountsPending, NEW w \in Executors,
         NEW t \in Txns, UnblockNeighbor(w, t)
  PROVE  /\ UNCHANGED <<clientSide, dataVars, pc, cur, stopped, sharedHolders, lastExcl,
                        adjList, lockVars>>
         /\ pc[w] = "unblock" /\ cur[w] \in Txns /\ t \in todo[w] /\ t \in adjList[cur[w]]
         /\ todo' = [todo EXCEPT ![w] = todo[w] \ {t}]
         /\ indegree[t] > 0 /\ indegree' = [indegree EXCEPT ![t] = indegree[t] - 1]
         /\ ~HandedOver(t) /\ status[t] = "INCOMPLETE"
         /\ indegree[t] = 1 => /\ Elements(readyTxns') = Elements(readyTxns) \cup {t}
                               /\ Distinct(readyTxns')
         /\ indegree[t] # 1 => readyTxns' = readyTxns
         /\ TypeOK'
<1> USE Constants
<1>1. /\ pc \in [Threads -> Pcs] /\ cur \in [Threads -> Values]
      /\ todo \in [Threads -> SUBSET (Keys \cup Txns)] /\ readyTxns \in Seq(Txns)
      /\ adjList \in [Txns -> SUBSET Txns] /\ indegree \in [Txns -> Nat]
      /\ Elements(readyTxns) \subseteq Txns /\ Distinct(readyTxns)
  BY Types DEF OnePlace
<1>2. /\ UNCHANGED <<clientSide, dataVars, pc, cur, stopped, sharedHolders, lastExcl,
                     adjList, lockVars>>
      /\ pc[w] = "unblock" /\ t \in todo[w] /\ todo' = [todo EXCEPT ![w] = todo[w] \ {t}]
      /\ indegree' = [indegree EXCEPT ![t] = indegree[t] - 1]
      /\ readyTxns' = IF indegree[t] = 1 THEN Append(readyTxns, t) ELSE readyTxns
  BY DEF UnblockNeighbor, Released
<1>3. cur[w] \in Txns /\ t \in adjList[cur[w]]
  BY <1>2, HolderHolds DEF ThreadPhase
<1>4. Pending(cur[w], t)
  BY <1>2, <1>3 DEF Pending, PendingIn, Holds
<1>5. indegree[t] > 0
  <2> DEFINE P == {p \in Txns : Pending(p, t)}
  <2>1. IsFiniteSet(P) /\ P # {}
    BY <1>3, <1>4, FS_Subset
  <2>2. Cardinality(P) \in Nat /\ Cardinality(P) # 0
    BY <2>1, FS_CardinalityType, FS_EmptySet
  <2>3. indegree[t] = Cardinality(P)
    BY DEF IndegreeCountsPending
  <2> HIDE DEF P
  <2> QED
    BY <2>2, <2>3
<1>6. ~HandedOver(t) /\ status[t] = "INCOMPLETE"
  BY <1>5 DEF OnePlace, HandedOver, Held
<1>7. t \notin Elements(readyTxns)
  BY <1>6 DEF HandedOver
<1>8. /\ indegree[t] = 1 => /\ Elements(readyTxns') = Elements(readyTxns) \cup {t}
                            /\ Distinct(readyTxns')
      /\ indegree[t] # 1 => readyTxns' = readyTxns
      /\ readyTxns' \in Seq(Txns)
  BY <1>1, <1>2, <1>7, ElementsAppend, DistinctAppend
<1>9. TypeOK'
  <2>1. ThreadTypeOK' /\ (pc \in [Threads -> Pcs])'
    BY <1>1, <1>2 DEF ThreadTypeOK
  <2>2. ClientTypeOK' /\ DataTypeOK'
    BY <1>2, TypeFrame
  <2>3. indegree' \in [Txns -> Nat]
    BY <1>1, <1>2, <1>5
  <2>4. /\ ContTypeOK'
        /\ (adjList \in [Txns -> SUBSET Txns] /\ adjLock \subseteq Threads /\ indLock \subseteq Threads)'
    BY <1>2, <1>8, <2>3, TypeFrame DEF lockVars, ContTypeOK
  <2> QED
    BY <2>1, <2>2, <2>4 DEF TypeOK, CoreTypeOK, Pcs
<1> QED
  BY <1>2, <1>3, <1>5, <1>6, <1>8, <1>9

\* It hands its transaction to the client.
LEMMA ReturnEffect ==
  ASSUME TypeOK, ThreadPhase, OnePlace, NEW w \in Executors, ReturnResult(w)
  PROVE  LET c == cur[w]
         IN  /\ UNCHANGED <<clientVars, txnRequests, dataVars, todo, contVars>>
             /\ \A v \in Threads : v # w => pc'[v] = pc[v] /\ cur'[v] = cur[v]
             /\ pc[w] = "result" /\ pc'[w] = "idle" /\ cur'[w] = NoTxn
             /\ c \in Txns /\ Decided(c) /\ Held(c)
             /\ c \notin Elements(txnResults) \cup returned
             /\ Elements(txnResults') = Elements(txnResults) \cup {c} /\ Distinct(txnResults')
             /\ TypeOK'
<1> USE Constants DEF Goto
<1> DEFINE c == cur[w]
<1>1. /\ pc \in [Threads -> Pcs] /\ cur \in [Threads -> Values] /\ txnResults \in Seq(Txns)
      /\ Distinct(txnResults)
  BY Types DEF OnePlace
<1>2. /\ UNCHANGED <<clientVars, txnRequests, dataVars, todo, contVars>>
      /\ pc[w] = "result" /\ pc' = [pc EXCEPT ![w] = "idle"]
      /\ cur' = [cur EXCEPT ![w] = NoTxn] /\ txnResults' = Append(txnResults, c)
  BY DEF ReturnResult, PushResult
<1>3. c \in Txns /\ Decided(c) /\ Held(c)
  BY <1>2, HolderHolds DEF ThreadPhase, Held, Holds
<1>4. c \notin Elements(txnResults) \cup returned
  BY <1>3 DEF OnePlace
<1>5. Elements(txnResults') = Elements(txnResults) \cup {c} /\ Distinct(txnResults')
  BY <1>1, <1>2, <1>3, <1>4, ElementsAppend, DistinctAppend
<1>6. TypeOK'
  <2>1. ThreadTypeOK' /\ (pc \in [Threads -> Pcs])'
    BY <1>1, <1>2, TypeFrame DEF ThreadTypeOK, Pcs
  <2>2. ClientTypeOK'
    BY <1>2, <1>3, TypeFrame DEF ClientTypeOK, clientVars
  <2>3. DataTypeOK' /\ ContTypeOK'
        /\ (adjList \in [Txns -> SUBSET Txns] /\ adjLock \subseteq Threads /\ indLock \subseteq Threads)'
    BY <1>2, TypeFrame DEF contVars, dagVars, lockVars
  <2> QED
    BY <2>1, <2>2, <2>3 DEF TypeOK, CoreTypeOK, Pcs
<1> HIDE DEF c
<1> QED
  BY <1>1, <1>2, <1>3, <1>4, <1>5, <1>6 DEF c

\* The scheduler pops the oldest request.
LEMMA PopRequestEffect ==
  ASSUME TypeOK, ThreadPhase, PopRequest
  PROVE  LET h == Head(txnRequests)
         IN  /\ UNCHANGED <<clientVars, txnResults, dataVars, todo, contVars>>
             /\ \A v \in Executors : pc'[v] = pc[v] /\ cur'[v] = cur[v]
             /\ pc[Main] = "idle" /\ pc'[Main] = "lockAdj" /\ cur'[Main] = h
             /\ h \in Txns /\ txnRequests # <<>> /\ txnRequests' = Tail(txnRequests)
             /\ Elements(txnRequests) = {h} \cup Elements(txnRequests')
             /\ TypeOK'
<1> USE Constants DEF Goto
<1> DEFINE h == Head(txnRequests)
<1>1. pc \in [Threads -> Pcs] /\ cur \in [Threads -> Values] /\ txnRequests \in Seq(Txns)
  BY Types
<1>2. /\ UNCHANGED <<clientVars, txnResults, dataVars, todo, contVars>>
      /\ pc[Main] = "idle" /\ pc' = [pc EXCEPT ![Main] = "lockAdj"]
      /\ cur' = [cur EXCEPT ![Main] = h]
      /\ txnRequests # <<>> /\ txnRequests' = Tail(txnRequests)
  BY DEF PopRequest
<1>3. /\ h \in Txns /\ Tail(txnRequests) \in Seq(Txns)
      /\ Elements(txnRequests) = {h} \cup Elements(txnRequests')
  BY <1>1, <1>2, ElementsTail
<1>6. TypeOK'
  <2>1. ThreadTypeOK' /\ (pc \in [Threads -> Pcs])'
    BY <1>1, <1>2, <1>3, TypeFrame DEF ThreadTypeOK, Pcs
  <2>2. ClientTypeOK'
    BY <1>2, <1>3, TypeFrame DEF ClientTypeOK, clientVars
  <2>3. DataTypeOK' /\ ContTypeOK'
        /\ (adjList \in [Txns -> SUBSET Txns] /\ adjLock \subseteq Threads /\ indLock \subseteq Threads)'
    BY <1>2, TypeFrame DEF contVars, dagVars, lockVars
  <2> QED
    BY <2>1, <2>2, <2>3 DEF TypeOK, CoreTypeOK, Pcs
<1> HIDE DEF h
<1> QED
  BY <1>1, <1>2, <1>3, <1>6 DEF h

\* preds are transactions from which the scheduler may put edges to t: those of
\* Conflicting(t) that it sees INCOMPLETE, whose executors have not come to
\* their neighbours yet.
Predecessors(preds, t) ==
    /\ preds \in SUBSET Added
    /\ \A p \in preds :
          \/ status[p] = "INCOMPLETE"
          \/ \E w \in Executors : cur[w] = p /\ pc[w] \in {"decide", "apply", "lockAdj"}
    /\ \A p \in Conflicting(t) : status[p] = "INCOMPLETE" => p \in preds

\* The scheduler puts its transaction into the DAG.
LEMMA AddEffect ==
  ASSUME TypeOK, ThreadPhase, NewAreUntouched, OnePlace, AddToDag
  PROVE  LET t == cur[Main]
         IN  /\ UNCHANGED <<clientSide, dataVars, cur, todo, stopped, lockVars>>
             /\ \A v \in Executors : pc'[v] = pc[v]
             /\ pc[Main] = "scan" /\ pc'[Main] = "unlockInd"
             /\ t \in Waiting /\ t \in Txns /\ t \notin Added
             /\ sharedHolders' = HoldersAfter(t) /\ lastExcl' = LastExclAfter(t)
             /\ \E preds \in SUBSET Txns :
                  /\ Predecessors(preds, t)
                  /\ \A p \in Txns : adjList'[p] = adjList[p] \cup {u \in {t} : p \in preds}
                  /\ indegree' = [indegree EXCEPT ![t] = Cardinality(preds)]
                  /\ Cardinality(preds) \in Nat /\ (Cardinality(preds) = 0 <=> preds = {})
                  /\ preds = {} => /\ Elements(readyTxns') = Elements(readyTxns) \cup {t}
                                   /\ Distinct(readyTxns')
                  /\ preds # {} => readyTxns' = readyTxns
             /\ TypeOK'
<1> USE Constants DEF Goto
<1> DEFINE t == cur[Main]
<1>1. /\ pc \in [Threads -> Pcs] /\ cur \in [Threads -> Values]
      /\ adjList \in [Txns -> SUBSET Txns] /\ indegree \in [Txns -> Nat]
      /\ readyTxns \in Seq(Txns) /\ Distinct(readyTxns)
      /\ sharedHolders \in [Keys -> SUBSET Txns] /\ lastExcl \in [Keys -> Values]
  BY Types DEF OnePlace
<1>2. /\ UNCHANGED <<clientSide, dataVars, cur, todo, stopped, lockVars>>
      /\ pc[Main] = "scan" /\ pc' = [pc EXCEPT ![Main] = "unlockInd"]
      /\ sharedHolders' = HoldersAfter(t) /\ lastExcl' = LastExclAfter(t)
  BY DEF AddToDag
<1>3. t \in Waiting /\ t \in Txns /\ t \notin Added
  BY <1>2, HolderHolds DEF Waiting, Scanning, Added
<1>4. /\ indegree[t] = 0 /\ adjList[t] = {} /\ t \notin Elements(readyTxns)
      /\ \A k \in Keys : sharedHolders[k] \subseteq Added /\ lastExcl[k] \in Added \cup {NoTxn}
  BY <1>1, <1>3 DEF NewAreUntouched
<1>5. Conflicting(t) \subseteq Added /\ readset[t] \subseteq Keys /\ writeset[t] \subseteq Keys
  <2>1. readset[t] \subseteq Keys /\ writeset[t] \subseteq Keys
    BY <1>3
  <2>2. UNION {sharedHolders[k] : k \in writeset[t]} \subseteq Added
    BY <1>4, <2>1
  <2>3. {lastExcl[k] : k \in readset[t] \ writeset[t]} \ {NoTxn} \subseteq Added
    BY <1>4, <2>1
  <2> QED
    BY <2>1, <2>2, <2>3 DEF Conflicting
<1>6. PICK stale \in SUBSET StatusRacy :
         LET preds == {p \in Conflicting(t) : status[p] = "INCOMPLETE" \/ p \in stale}
             ind   == Edges(t, preds)
         IN  /\ adjList' = [p \in Txns |-> (IF p = t THEN {} ELSE adjList[p])
                                               \cup {u \in {t} : p \in preds}]
             /\ IF ind = 0
                  THEN readyTxns' = Append(readyTxns, t) /\ UNCHANGED indegree
                  ELSE indegree' = [indegree EXCEPT ![t] = ind] /\ UNCHANGED readyTxns
  BY DEF AddToDag
<1>7. PICK preds : preds = {p \in Conflicting(t) : status[p] = "INCOMPLETE" \/ p \in stale}
  OBVIOUS
<1>8. preds \in SUBSET Txns /\ preds \in SUBSET Added
  BY <1>5, <1>7 DEF Added
<1>9. Predecessors(preds, t)
  BY <1>6, <1>7, <1>8 DEF Predecessors, StatusRacy
<1>10. /\ adjList' = [p \in Txns |-> (IF p = t THEN {} ELSE adjList[p]) \cup {u \in {t} : p \in preds}]
       /\ IF Cardinality(preds) = 0
            THEN readyTxns' = Append(readyTxns, t) /\ UNCHANGED indegree
            ELSE indegree' = [indegree EXCEPT ![t] = Cardinality(preds)] /\ UNCHANGED readyTxns
  BY <1>6, <1>7 DEF Edges
<1> HIDE DEF t
<1>11. \A p \in Txns : adjList'[p] = adjList[p] \cup {u \in {t} : p \in preds}
  BY <1>4, <1>10
<1>12. Cardinality(preds) \in Nat /\ (Cardinality(preds) = 0 <=> preds = {})
  BY <1>8, FS_Subset, FS_CardinalityType, FS_EmptySet
<1>13. indegree' = [indegree EXCEPT ![t] = Cardinality(preds)]
  BY <1>1, <1>3, <1>4, <1>10
<1>14. /\ preds = {} => Elements(readyTxns') = Elements(readyTxns) \cup {t} /\ Distinct(readyTxns')
       /\ preds # {} => readyTxns' = readyTxns
       /\ readyTxns' \in Seq(Txns)
  <2>1. CASE preds = {}
    <3>1. readyTxns' = Append(readyTxns, t)
      BY <1>10, <1>12, <2>1
    <3> QED
      BY <1>1, <1>3, <1>4, <2>1, <3>1, ElementsAppend, DistinctAppend
  <2>2. CASE preds # {}
    <3>1. readyTxns' = readyTxns
      BY <1>10, <1>12, <2>2
    <3> QED
      BY <1>1, <2>2, <3>1
  <2> QED
    BY <2>1, <2>2
<1>15. TypeOK'
  <2>1. ThreadTypeOK' /\ (pc \in [Threads -> Pcs])'
    BY <1>1, <1>2, TypeFrame DEF ThreadTypeOK, Pcs
  <2>2. ClientTypeOK' /\ DataTypeOK'
    BY <1>2, TypeFrame
  <2>3. HoldersAfter(t) \in [Keys -> SUBSET Txns] /\ LastExclAfter(t) \in [Keys -> Values]
    BY <1>1, <1>3 DEF HoldersAfter, LastExclAfter
  <2>4. stopped' \in BOOLEAN /\ indegree' \in [Txns -> Nat]
    BY <1>1, <1>2, <1>3, <1>12, <1>13, Types
  <2>5. ContTypeOK'
    BY <1>2, <1>14, <2>3, <2>4 DEF ContTypeOK
  <2>6. adjList' \in [Txns -> SUBSET Txns]
    BY <1>1, <1>3, <1>10
  <2>7. adjLock' \subseteq Threads /\ indLock' \subseteq Threads
    BY <1>2, Types DEF lockVars
  <2> QED
    BY <2>1, <2>2, <2>5, <2>6, <2>7 DEF TypeOK, CoreTypeOK, Pcs
<1>16. \A v \in Executors : pc'[v] = pc[v]
  BY <1>1, <1>2
<1> HIDE DEF Predecessors
<1> QED
  BY <1>1, <1>2, <1>3, <1>8, <1>9, <1>11, <1>12, <1>13, <1>14, <1>15, <1>16 DEF t

\* Every step keeps the types.
LEMMA TypeStep ==
  ASSUME Inv, [Next]_vars
  PROVE  TypeOK'
<1>0. TypeOK /\ ThreadPhase /\ NewAreUntouched /\ OnePlace /\ IndegreeCountsPending
  BY DEF Inv
<1>1. TypeOK' = (/\ ClientTypeOK' /\ DataTypeOK' /\ ThreadTypeOK' /\ (pc \in [Threads -> Pcs])'
                 /\ ContTypeOK'
                 /\ (/\ adjList \in [Txns -> SUBSET Txns]
                     /\ adjLock \subseteq Threads /\ indLock \subseteq Threads)')
  BY DEF TypeOK, CoreTypeOK, Pcs
<1>2. ASSUME NEW t \in Txns, Submit(t) PROVE TypeOK'
  <2>1. ClientTypeOK'
    BY <1>0, <1>2, TypeFrame DEF Submit, NewTxnRequest, ClientTypeOK
  <2> QED
    BY <1>0, <1>1, <1>2, <2>1, TypeFrame DEF Submit, NewTxnRequest, contVars, dagVars, lockVars
<1>3. CASE TakeResult
  <2>1. ClientTypeOK'
    <3>1. Head(txnResults) \in Txns /\ Tail(txnResults) \in Seq(Txns)
      BY <1>0, <1>3, Types DEF TakeResult, GetTxnResult
    <3> QED
      BY <1>0, <1>3, <3>1, TypeFrame DEF TakeResult, GetTxnResult, ClientTypeOK
  <2> QED
    BY <1>0, <1>1, <1>3, <2>1, TypeFrame DEF TakeResult, GetTxnResult, contVars, dagVars, lockVars
<1>4. CASE Stop
  <2>1. ContTypeOK'
    BY <1>0, <1>4, TypeFrame DEF Stop, ContTypeOK, dagVars
  <2> QED
    BY <1>0, <1>1, <1>4, <2>1, TypeFrame DEF Stop, coreVars, clientSide, dagVars, lockVars
<1>5. ASSUME NEW w \in Threads, Exit(w), UNCHANGED contVars PROVE TypeOK'
  <2>1. ThreadTypeOK' /\ (pc \in [Threads -> Pcs])'
    BY <1>0, <1>5, Types DEF Exit, Goto, ThreadTypeOK, Pcs
  <2> QED
    BY <1>0, <1>1, <1>5, <2>1, TypeFrame DEF Exit, contVars, dagVars, lockVars
<1>6. CASE Scheduler
  BY <1>0, <1>5, <1>6, PopRequestEffect, LockEffect, AddEffect, Constants
  DEF Scheduler, SchedulerExit
<1>7. ASSUME NEW w \in Executors, Executor(w) PROVE TypeOK'
  <2>1. w \in Threads
    BY Constants
  <2>2. CASE ExecuteAndDecide(w)
    BY <1>0, <1>1, <2>2, ExecuteEffect, TypeFrame DEF contVars, dagVars, lockVars
  <2> QED
    BY <1>0, <1>5, <1>7, <2>1, <2>2, PopReadyEffect, LockEffect, UnblockEffect, ReturnEffect
    DEF Executor, ExecutorExit
<1>8. CASE UNCHANGED vars
  BY <1>0, <1>1, <1>8, TypeFrame DEF vars, coreVars, clientSide, contVars, dagVars, lockVars
<1> QED
  BY <1>2, <1>3, <1>4, <1>6, <1>7, <1>8 DEF Next, Terminating

-----------------------------------------------------------------------------
(* The threads. *)

\* Every step agrees with the program counters.
LEMMA PhaseStep ==
  ASSUME Inv, [Next]_vars
  PROVE  ThreadPhase'
<1>0. TypeOK /\ ThreadPhase /\ NewAreUntouched /\ OnePlace /\ IndegreeCountsPending
  BY DEF Inv
<1> USE Constants
<1>1. /\ pc \in [Threads -> Pcs] /\ cur \in [Threads -> Values]
      /\ todo \in [Threads -> SUBSET (Keys \cup Txns)]
  BY <1>0, Types
<1> DEFINE Fits(w, l, c, s, d, a) ==
             /\ c = NoTxn <=> l \in {"idle", "exited"}
             /\ l \notin {"scan", "unlockAdj"}
             /\ l = "readset" => s \subseteq readset[c]
             /\ l \in {"writeset", "apply"} => s \subseteq writeset[c]
             /\ l = "unblock" => s \subseteq a
             /\ l \in {"readset", "writeset"} => d = "INCOMPLETE"
             /\ l = "decide" => d \in {"COMPLETED_C", "COMPLETED_A"}
             /\ l = "apply" => d = "COMPLETED_C"
             /\ l \in {"lockAdj", "lockInd", "unblock", "unlockInd", "result"} =>
                   d \in {"COMMITTED", "ABORTED"}
           OK(w) == Fits(w, pc[w], cur[w], todo[w], status[cur[w]], adjList[cur[w]])
           MainOK == /\ pc[Main] \in {"idle", "lockAdj", "lockInd", "scan", "unlockInd",
                                      "unlockAdj", "exited"}
                     /\ cur[Main] = NoTxn <=> pc[Main] \in {"idle", "exited"}
<1>2. MainOK /\ \A w \in Executors : OK(w)
  BY <1>0 DEF ThreadPhase, Decided
<1>3. ThreadPhase' <=> MainOK' /\ \A w \in Executors : OK(w)'
  BY DEF ThreadPhase, Decided
<1>4. ASSUME NEW w \in Executors, UNCHANGED <<pc[w], cur[w], todo[w]>>,
             status'[cur[w]] = status[cur[w]],
             pc[w] = "unblock" => adjList[cur[w]] \subseteq adjList'[cur[w]]
      PROVE  OK(w)'
  BY <1>2, <1>4
<1>5. ASSUME UNCHANGED <<pc[Main], cur[Main]>> PROVE MainOK'
  BY <1>2, <1>5
<1> HIDE DEF OK, MainOK
<1>6. ASSUME UNCHANGED <<threadVars, status, adjList>> PROVE ThreadPhase'
  BY <1>3, <1>4, <1>5, <1>6 DEF threadVars
<1>7. CASE (\E t \in Txns : Submit(t)) \/ TakeResult \/ Stop \/ UNCHANGED vars
  BY <1>6, <1>7 DEF Submit, NewTxnRequest, TakeResult, GetTxnResult, Stop, vars, coreVars,
        contVars, dagVars, dataVars
<1>8. CASE PopRequest
  <2>1. MainOK'
    BY <1>0, <1>8, PopRequestEffect DEF MainOK
  <2>2. \A w \in Executors : OK(w)'
    BY <1>0, <1>4, <1>8, PopRequestEffect DEF contVars, dagVars, dataVars
  <2> QED
    BY <1>3, <2>1, <2>2
<1>9. CASE Lock(Main)
  <2>1. MainOK'
    BY <1>0, <1>2, <1>9, LockEffect DEF MainOK
  <2>2. \A w \in Executors : OK(w)'
    BY <1>0, <1>4, <1>9, LockEffect DEF dagVars, dataVars
  <2> QED
    BY <1>3, <2>1, <2>2
<1>10. CASE AddToDag
  <2>1. MainOK'
    BY <1>0, <1>2, <1>10, AddEffect DEF MainOK
  <2>2. ASSUME NEW w \in Executors PROVE OK(w)'
    <3>1. pc[w] = "unblock" => cur[w] \in Txns
      BY <1>0, HolderHolds
    <3>2. \A p \in Txns : adjList[p] \subseteq adjList'[p]
      BY <1>0, <1>10, AddEffect
    <3> QED
      BY <1>0, <1>4, <1>10, <3>1, <3>2, AddEffect DEF dataVars
  <2> QED
    BY <1>3, <2>1, <2>2
<1>11. ASSUME NEW w \in Threads, Exit(w), UNCHANGED contVars PROVE ThreadPhase'
  <2>1. /\ pc[w] = "idle" /\ pc' = [pc EXCEPT ![w] = "exited"]
        /\ UNCHANGED <<cur, todo, status, adjList>>
    BY <1>11 DEF Exit, Goto, dataVars, contVars, dagVars
  <2>2. w = Main => MainOK'
    BY <1>1, <1>2, <2>1 DEF MainOK
  <2>3. w # Main => MainOK'
    BY <1>1, <1>5, <2>1
  <2>4. ASSUME NEW v \in Executors PROVE OK(v)'
    <3>1. CASE v # w
      BY <1>1, <1>4, <2>1, <3>1
    <3>2. CASE v = w
      BY <1>1, <1>2, <2>1, <3>2 DEF OK
    <3> QED
      BY <3>1, <3>2
  <2> QED
    BY <1>3, <2>2, <2>3, <2>4
<1>12. ASSUME NEW w \in Executors, Executor(w) PROVE ThreadPhase'
  <2>1. w \in Threads /\ w # Main
    OBVIOUS
  <2>2. CASE PopReady(w)
    <3>1. MainOK' /\ \A v \in Executors : v # w => OK(v)'
      BY <1>0, <1>4, <1>5, <2>1, <2>2, PopReadyEffect DEF dagVars, dataVars
    <3>2. OK(w)'
      BY <1>0, <2>1, <2>2, PopReadyEffect DEF OK, dagVars, dataVars
    <3> QED
      BY <1>3, <3>1, <3>2
  <2>3. CASE ExecuteAndDecide(w)
    <3>1. MainOK'
      BY <1>0, <1>5, <2>1, <2>3, ExecuteEffect
    <3>2. ASSUME NEW v \in Executors, v # w PROVE OK(v)'
      <4>1. UNCHANGED <<pc[v], cur[v], todo[v], adjList>>
        BY <1>0, <2>1, <2>3, <3>2, ExecuteEffect DEF contVars, dagVars
      <4>2. CASE cur[v] = NoTxn
        BY <1>2, <4>1, <4>2 DEF OK
      <4>3. CASE cur[v] # NoTxn
        <5>1. cur[v] \in Txns /\ cur[v] # cur[w]
          BY <1>0, <1>1, <2>1, <3>2, <4>3 DEF OnePlace
        <5>2. status'[cur[v]] = status[cur[v]]
          BY <1>0, <2>3, <5>1, ExecuteEffect
        <5> QED
          BY <1>4, <4>1, <5>2
      <4> QED
        BY <4>2, <4>3
    <3>3. OK(w)'
      BY <1>0, <1>2, <2>1, <2>3, ExecuteEffect DEF OK, contVars, dagVars
    <3> QED
      BY <1>3, <3>1, <3>2, <3>3
  <2>4. CASE Lock(w)
    <3>1. MainOK' /\ \A v \in Executors : v # w => OK(v)'
      BY <1>0, <1>4, <1>5, <2>1, <2>4, LockEffect DEF dagVars, dataVars
    <3>2. OK(w)'
      BY <1>0, <1>2, <2>1, <2>4, LockEffect DEF OK, dagVars, dataVars
    <3> QED
      BY <1>3, <3>1, <3>2
  <2>5. ASSUME NEW t \in Txns, UnblockNeighbor(w, t) PROVE ThreadPhase'
    <3>1. /\ UNCHANGED <<pc, cur, status, adjList>> /\ pc[w] = "unblock"
          /\ todo' = [todo EXCEPT ![w] = todo[w] \ {t}]
      BY <1>0, <2>5, UnblockEffect DEF dataVars
    <3>2. MainOK' /\ \A v \in Executors : v # w => OK(v)'
      BY <1>1, <1>4, <1>5, <2>1, <3>1
    <3>3. OK(w)'
      BY <1>1, <1>2, <2>1, <3>1 DEF OK
    <3> QED
      BY <1>3, <3>2, <3>3
  <2>6. CASE ReturnResult(w)
    <3>1. MainOK' /\ \A v \in Executors : v # w => OK(v)'
      BY <1>0, <1>4, <1>5, <2>1, <2>6, ReturnEffect DEF contVars, dagVars, dataVars
    <3>2. OK(w)'
      BY <1>0, <2>1, <2>6, ReturnEffect DEF OK
    <3> QED
      BY <1>3, <3>1, <3>2
  <2> QED
    BY <1>11, <1>12, <2>1, <2>2, <2>3, <2>4, <2>5, <2>6 DEF Executor, ExecutorExit
<1> QED
  BY <1>7, <1>8, <1>9, <1>10, <1>11, <1>12 DEF Next, Scheduler, SchedulerExit, Terminating

\* Nobody enters a critical section of another thread.
LEMMA LocksStep ==
  ASSUME Inv, LocksHeld, [Next]_vars
  PROVE  LocksHeld'
<1>0. TypeOK /\ ThreadPhase /\ NewAreUntouched /\ OnePlace /\ IndegreeCountsPending
  BY DEF Inv
<1> USE Constants
<1> DEFINE AdjPcs(w) == IF w = Main THEN {"lockInd", "scan", "unlockInd", "unlockAdj"}
                                    ELSE {"lockInd", "unblock"}
           IndPcs(w) == IF w = Main THEN {"scan", "unlockInd"} ELSE {"unblock", "unlockInd"}
<1>1. pc \in [Threads -> Pcs]
  BY <1>0, Types
<1>2. ASSUME UNCHANGED lockVars,
             \A v \in Threads : /\ pc'[v] \in AdjPcs(v) <=> pc[v] \in AdjPcs(v)
                                /\ pc'[v] \in IndPcs(v) <=> pc[v] \in IndPcs(v)
      PROVE  LocksHeld'
  BY <1>2 DEF LocksHeld, lockVars
<1>3. ASSUME UNCHANGED <<pc, adjLock, indLock>> PROVE LocksHeld'
  BY <1>3 DEF LocksHeld
<1>4. CASE (\E t \in Txns : Submit(t)) \/ TakeResult \/ Stop \/ UNCHANGED vars
  BY <1>3, <1>4 DEF Submit, NewTxnRequest, TakeResult, GetTxnResult, Stop, vars, coreVars,
        contVars, lockVars, threadVars
<1>5. CASE PopRequest
  <2>1. UNCHANGED lockVars /\ \A v \in Executors : pc'[v] = pc[v]
    BY <1>0, <1>5, PopRequestEffect DEF contVars
  <2>2. pc[Main] = "idle" /\ pc'[Main] = "lockAdj"
    BY <1>0, <1>5, PopRequestEffect
  <2> QED
    BY <1>2, <2>1, <2>2
<1>6. CASE AddToDag
  <2>1. UNCHANGED lockVars /\ \A v \in Executors : pc'[v] = pc[v]
    BY <1>0, <1>6, AddEffect
  <2>2. pc[Main] = "scan" /\ pc'[Main] = "unlockInd"
    BY <1>0, <1>6, AddEffect
  <2> QED
    BY <1>2, <2>1, <2>2
<1>7. ASSUME NEW w \in Threads, Exit(w), UNCHANGED contVars PROVE LocksHeld'
  <2>1. pc[w] = "idle" /\ pc' = [pc EXCEPT ![w] = "exited"] /\ UNCHANGED lockVars
    BY <1>7 DEF Exit, Goto, contVars
  <2> QED
    BY <1>1, <1>2, <2>1
<1>8. ASSUME NEW w \in Threads, Lock(w) PROVE LocksHeld'
  <2> USE DEF Goto
  <2>0. /\ pc[Main] # "unblock"
        /\ \A v \in Executors : pc[v] # "unlockAdj"
    BY <1>0 DEF ThreadPhase
  <2>1. CASE LockAdj(w)
    BY <1>1, <2>1 DEF LockAdj, LocksHeld
  <2>2. CASE LockInd(w)
    BY <1>1, <2>2 DEF LockInd, LocksHeld
  <2>3. CASE UnlockInd(w)
    <3>1. w \in indLock
      BY <2>3 DEF UnlockInd, LocksHeld
    <3>2. indLock = {w}
      BY <3>1 DEF LocksHeld
    <3> QED
      BY <1>1, <2>3, <3>2 DEF UnlockInd, LocksHeld
  <2>4. CASE UnlockAdj(w)
    <3>1. w \in adjLock
      BY <2>0, <2>4 DEF UnlockAdj, LocksHeld
    <3>2. adjLock = {w}
      BY <3>1 DEF LocksHeld
    <3> QED
      BY <1>1, <2>0, <2>4, <3>2 DEF UnlockAdj, LocksHeld
  <2> QED
    BY <1>8, <2>1, <2>2, <2>3, <2>4 DEF Lock
<1>9. ASSUME NEW w \in Executors, Executor(w) PROVE LocksHeld'
  <2>1. w \in Threads /\ w # Main
    OBVIOUS
  <2>2. CASE PopReady(w)
    BY <1>0, <1>2, <2>1, <2>2, PopReadyEffect
  <2>3. CASE ExecuteAndDecide(w)
    <3>1. UNCHANGED lockVars /\ \A v \in Threads : v # w => pc'[v] = pc[v]
      BY <1>0, <2>3, ExecuteEffect DEF contVars
    <3>2. /\ pc[w] \in {"readset", "writeset", "decide", "apply"}
          /\ pc'[w] \in {"readset", "writeset", "decide", "apply", "lockAdj"}
      BY <1>0, <2>3, ExecuteEffect
    <3> QED
      BY <1>2, <2>1, <3>1, <3>2
  <2>4. ASSUME NEW t \in Txns, UnblockNeighbor(w, t) PROVE LocksHeld'
    BY <1>0, <1>3, <2>4, UnblockEffect DEF lockVars
  <2>5. CASE ReturnResult(w)
    BY <1>0, <1>2, <2>1, <2>5, ReturnEffect DEF contVars
  <2> QED
    BY <1>7, <1>8, <1>9, <2>1, <2>2, <2>3, <2>4, <2>5 DEF Executor, ExecutorExit
<1> QED
  BY <1>4, <1>5, <1>6, <1>7, <1>8, <1>9 DEF Next, Scheduler, SchedulerExit, Terminating

-----------------------------------------------------------------------------
(* Who has a transaction, before and after it enters the DAG. *)

\* What no executor changes, and the one queue an executor's step may lengthen.
LEMMA ExecutorFrame ==
  ASSUME Inv, NEW w \in Executors, Executor(w)
  PROVE  /\ UNCHANGED <<nextUniqueId, uniqueId, txnRequests, returned, pc[Main], cur[Main],
                        stopped, sharedHolders, lastExcl, adjList>>
         /\ \A t \in Txns : status'[t] # status[t] =>
              Holds(w, t) /\ ~Decided(t) /\ UNCHANGED <<cur, readyTxns, indegree, txnResults>>
         /\ \A t \in Txns : status[t] # "INCOMPLETE" => status'[t] # "INCOMPLETE"
<1>0. TypeOK /\ ThreadPhase /\ OnePlace /\ IndegreeCountsPending
  BY DEF Inv
<1>1. w \in Threads /\ w # Main /\ Main \in Threads
  BY Constants
<1> USE DEF clientSide, clientVars, dataVars, contVars, dagVars
<1>2. CASE PopReady(w)
  BY <1>0, <1>1, <1>2, PopReadyEffect
<1>3. CASE ExecuteAndDecide(w)
  <2>1. \A t \in Txns : t # cur[w] => status'[t] = status[t]
    BY <1>0, <1>3, ExecuteEffect
  <2>2. cur[w] \in Txns /\ ~Decided(cur[w])
    BY <1>0, <1>3, ExecuteEffect
  <2>3. UNCHANGED <<clientSide, contVars, cur, pc[Main]>>
    BY <1>0, <1>1, <1>3, ExecuteEffect
  <2>4. status[cur[w]] # "INCOMPLETE" => status'[cur[w]] # "INCOMPLETE"
    BY <1>0, <1>3, ExecuteEffect
  <2> QED
    BY <2>1, <2>2, <2>3, <2>4 DEF Holds
<1>4. CASE Lock(w)
  BY <1>0, <1>1, <1>4, LockEffect
<1>5. ASSUME NEW t \in Txns, UnblockNeighbor(w, t)
      PROVE  UNCHANGED <<nextUniqueId, uniqueId, txnRequests, returned, pc, cur, stopped,
                         sharedHolders, lastExcl, adjList, status>>
  BY <1>0, <1>5, UnblockEffect
<1>6. CASE ReturnResult(w)
  BY <1>0, <1>1, <1>6, ReturnEffect
<1>7. CASE ExecutorExit(w)
  <2>1. UNCHANGED <<clientSide, dataVars, cur, contVars>> /\ pc' = [pc EXCEPT ![w] = "exited"]
    BY <1>7 DEF ExecutorExit, Exit, Goto
  <2>2. pc \in [Threads -> Pcs]
    BY <1>0, Types
  <2> QED
    BY <1>1, <2>1, <2>2
<1> QED
  BY <1>2, <1>3, <1>4, <1>5, <1>6, <1>7 DEF Executor

\* A transaction enters the DAG by AddToDag, and keeps its id.
LEMMA AddedStep ==
  ASSUME Inv, [Next]_vars
  PROVE  /\ Added \subseteq Txns
         /\ \A t \in Added : uniqueId'[t] = uniqueId[t] /\ uniqueId[t] > 0
         /\ AddToDag => Added' = Added \cup {cur[Main]}
         /\ ~AddToDag => Added' = Added
<1>0. TypeOK /\ ThreadPhase /\ NewAreUntouched /\ OnePlace /\ IdsInOrder
  BY DEF Inv
<1>1. uniqueId \in [Txns -> Nat] /\ txnRequests \in Seq(Txns) /\ Added \subseteq Txns
  BY <1>0, Types DEF Added
<1>2. ASSUME UNCHANGED <<uniqueId, txnRequests>>, ~AddToDag,
             \A t \in Txns : Scanning(t)' <=> Scanning(t)
      PROVE  Added' = Added
  BY <1>2 DEF Added, Waiting
<1>3. \A t \in Added : uniqueId[t] > 0
  BY <1>1 DEF Added
<1>4. ASSUME UNCHANGED <<uniqueId, txnRequests, pc[Main], cur[Main]>>, ~AddToDag
      PROVE  Added' = Added /\ uniqueId' = uniqueId
  BY <1>2, <1>4 DEF Scanning
<1>5. AddToDag => pc'[Main] # "scan"
  BY <1>0, AddEffect
<1>6. ASSUME NEW t \in Txns, Submit(t)
      PROVE  Added' = Added /\ ~AddToDag /\ \A p \in Added : uniqueId'[p] = uniqueId[p]
  <2>1. /\ uniqueId[t] = 0 /\ uniqueId' = [uniqueId EXCEPT ![t] = nextUniqueId]
        /\ txnRequests' = Append(txnRequests, t) /\ UNCHANGED threadVars
    BY <1>6 DEF Submit, NewTxnRequest
  <2>2. Elements(txnRequests') = Elements(txnRequests) \cup {t}
    BY <1>1, <2>1, ElementsAppend
  <2>3. \A p : Scanning(p)' <=> Scanning(p)
    BY <2>1 DEF Scanning, threadVars
  <2>4. t \notin Added /\ t \notin Added'
    BY <1>1, <2>1, <2>2 DEF Added, Waiting
  <2>5. \A p \in Txns : p # t => uniqueId'[p] = uniqueId[p]
    BY <1>1, <2>1
  <2>6. \A p \in Txns : p # t => (p \in Added' <=> p \in Added)
    BY <1>1, <2>2, <2>3, <2>5 DEF Added, Waiting
  <2>7. Added' \subseteq Txns
    BY DEF Added
  <2>8. ~AddToDag
    BY <1>5, <2>1 DEF threadVars, AddToDag
  <2>9. \A p \in Added : p # t /\ uniqueId'[p] = uniqueId[p]
    BY <1>1, <2>4, <2>5
  <2>10. Added' = Added
    <3> DEFINE A == Added
               B == Added'
    <3>1. A \subseteq Txns /\ B \subseteq Txns /\ t \notin A /\ t \notin B
          /\ \A p \in Txns : p # t => (p \in B <=> p \in A)
      BY <1>1, <2>4, <2>6, <2>7
    <3> HIDE DEF A, B
    <3>2. A = B
      BY <3>1
    <3> QED
      BY <3>2 DEF A, B
  <2> QED
    BY <2>8, <2>9, <2>10
<1>7. CASE TakeResult \/ Stop \/ UNCHANGED vars
  <2>1. UNCHANGED <<uniqueId, txnRequests, pc, cur>>
    BY <1>7 DEF TakeResult, GetTxnResult, Stop, vars, coreVars, clientVars, threadVars
  <2>2. ~AddToDag
    BY <1>5, <2>1 DEF AddToDag
  <2> QED
    BY <1>1, <1>3, <1>4, <2>1, <2>2
<1>8. CASE PopRequest
  <2>1. /\ uniqueId' = uniqueId /\ Elements(txnRequests) = {Head(txnRequests)} \cup Elements(txnRequests')
        /\ pc[Main] = "idle" /\ pc'[Main] = "lockAdj" /\ cur'[Main] = Head(txnRequests)
    BY <1>0, <1>8, PopRequestEffect DEF clientVars
  <2>2. Waiting' = Waiting
    BY <2>1 DEF Waiting, Scanning
  <2>3. ~AddToDag
    BY <2>1 DEF AddToDag
  <2> QED
    BY <1>1, <1>3, <2>1, <2>2, <2>3 DEF Added
<1>9. CASE Lock(Main)
  <2>1. /\ UNCHANGED <<uniqueId, txnRequests>> /\ pc'[Main] # "unlockInd"
        /\ \A t \in Txns : Scanning(t)' <=> Scanning(t)
    BY <1>0, <1>9, LockEffect, Constants DEF clientSide, clientVars, Scanning
  <2>2. ~AddToDag
    BY <1>0, <2>1, AddEffect
  <2> QED
    BY <1>1, <1>2, <1>3, <2>1, <2>2
<1>10. CASE AddToDag
  <2> DEFINE t == cur[Main]
  <2>1. /\ UNCHANGED <<uniqueId, txnRequests, cur>> /\ pc'[Main] = "unlockInd"
        /\ t \in Waiting /\ pc[Main] = "scan" /\ t \in Txns
    BY <1>0, <1>10, AddEffect DEF clientSide, clientVars
  <2>2. uniqueId[t] > 0 /\ t \notin Elements(txnRequests)
    <3>1. uniqueId[t] > 0
      BY <1>0, <2>1 DEF IdsInOrder
    <3>2. ASSUME t \in Elements(txnRequests) PROVE FALSE
      <4>1. uniqueId[t] < uniqueId[t]
        BY <1>0, <2>1, <3>2 DEF IdsInOrder, Scanning, Before
      <4> QED
        BY <1>1, <2>1, <4>1
    <3> QED
      BY <3>1, <3>2
  <2>3. \A p : ~Scanning(p)'
    BY <2>1 DEF Scanning
  <2>4. \A p : Scanning(p) <=> p = t
    BY <2>1 DEF Scanning
  <2>5. Waiting' = Waiting \ {t}
    BY <2>1, <2>2, <2>3, <2>4 DEF Waiting
  <2>6. Added' = Added \cup {t}
    BY <2>1, <2>2, <2>5 DEF Added
  <2> QED
    BY <1>1, <1>3, <1>10, <2>1, <2>6
<1>11. CASE SchedulerExit
  <2>1. /\ UNCHANGED <<uniqueId, txnRequests>> /\ pc[Main] = "idle" /\ pc'[Main] = "exited"
    BY <1>0, <1>11, Types, Constants DEF SchedulerExit, Exit, Goto, clientSide, clientVars
  <2>2. ~AddToDag /\ \A t : Scanning(t)' <=> Scanning(t)
    BY <2>1 DEF AddToDag, Scanning
  <2> QED
    BY <1>1, <1>2, <1>3, <2>1, <2>2
<1>12. ASSUME NEW w \in Executors, Executor(w)
       PROVE  Added' = Added /\ uniqueId' = uniqueId /\ ~AddToDag
  <2>1. UNCHANGED <<uniqueId, txnRequests, pc[Main], cur[Main]>>
    BY <1>12, ExecutorFrame
  <2>2. ~AddToDag
    BY <1>5, <2>1 DEF AddToDag
  <2> QED
    BY <1>4, <2>1, <2>2
<1> QED
  BY <1>1, <1>3, <1>6, <1>7, <1>8, <1>9, <1>10, <1>11, <1>12 DEF Next, Scheduler, Terminating

\* Every step keeps the ids in order.
LEMMA IdsStep ==
  ASSUME Inv, [Next]_vars
  PROVE  IdsInOrder'
<1>0. TypeOK /\ ThreadPhase /\ NewAreUntouched /\ OnePlace /\ IdsInOrder
  BY DEF Inv
<1>1. /\ uniqueId \in [Txns -> Nat] /\ txnRequests \in Seq(Txns) /\ nextUniqueId \in Nat \ {0}
      /\ Added \subseteq Txns /\ Waiting \subseteq Txns /\ Elements(txnRequests) \subseteq Txns
  BY <1>0, Types DEF Added, Waiting
<1>2. ASSUME UNCHANGED <<nextUniqueId, uniqueId, txnRequests>>, ~AddToDag,
             \A t \in Txns : Scanning(t)' <=> Scanning(t)
      PROVE  IdsInOrder'
  <2>1. Added' = Added /\ Waiting' = Waiting
    BY <1>2 DEF Added, Waiting
  <2> QED
    BY <1>0, <1>2, <2>1 DEF IdsInOrder
<1>3. ASSUME UNCHANGED <<nextUniqueId, uniqueId, txnRequests, pc[Main], cur[Main]>> PROVE IdsInOrder'
  <2>1. ~AddToDag
    BY <1>0, <1>3, AddEffect
  <2> QED
    BY <1>2, <1>3, <2>1 DEF Scanning
<1>4. ASSUME NEW t \in Txns, Submit(t) PROVE IdsInOrder'
  <2>1. /\ uniqueId[t] = 0 /\ uniqueId' = [uniqueId EXCEPT ![t] = nextUniqueId]
        /\ nextUniqueId' = nextUniqueId + 1
        /\ txnRequests' = Append(txnRequests, t) /\ UNCHANGED threadVars
    BY <1>4 DEF Submit, NewTxnRequest
  <2>2. Elements(txnRequests') = Elements(txnRequests) \cup {t}
    BY <1>1, <2>1, ElementsAppend
  <2>3. \A p : Scanning(p)' <=> Scanning(p)
    BY <2>1 DEF Scanning, threadVars
  <2>4. /\ uniqueId'[t] = nextUniqueId
        /\ \A p \in Txns : p # t => uniqueId'[p] = uniqueId[p]
        /\ \A p \in Txns : uniqueId[p] < nextUniqueId /\ uniqueId[p] \in Nat
    BY <1>0, <1>1, <2>1 DEF IdsInOrder
  <2>5. Waiting' = Waiting \cup {t} /\ Added' = Added /\ t \notin Waiting
    <3>1. ~AddToDag
      BY <1>0, <2>1, AddEffect DEF threadVars
    <3>2. t \notin Waiting
      BY <1>0, <2>1 DEF IdsInOrder
    <3> QED
      BY <1>4, <2>2, <2>3, <3>1, <3>2, AddedStep DEF Waiting
  <2>6. Increasing(txnRequests', uniqueId')
    <3>1. uniqueId' \in [Txns -> Nat]
      BY <1>1, <2>1
    <3>2. \A e \in Elements(txnRequests) : uniqueId[e] = uniqueId'[e]
      BY <1>1, <2>4, <2>5 DEF Waiting
    <3>3. Increasing(txnRequests, uniqueId')
      BY <1>0, <3>2, IncreasingSame DEF IdsInOrder
    <3>4. Before(Elements(txnRequests), {t}, uniqueId')
      BY <1>1, <2>4, <3>2 DEF Before
    <3> QED
      BY <1>1, <2>1, <3>1, <3>3, <3>4, IncreasingAppend
  <2>7. ASSUME NEW p \in Txns, Scanning(p)' PROVE Before({p}, Elements(txnRequests'), uniqueId')
    <3>1. Scanning(p) /\ p \in Waiting
      BY <2>3, <2>7 DEF Waiting
    <3>2. Before({p}, Elements(txnRequests), uniqueId) /\ p # t
      BY <1>0, <2>5, <3>1 DEF IdsInOrder
    <3> QED
      BY <1>1, <2>2, <2>4, <3>2 DEF Before
  <2>8. Before(Added', Waiting', uniqueId')
    <3>1. t \notin Added
      BY <1>1, <2>1 DEF Added
    <3>2. Before(Added, Waiting, uniqueId)
      BY <1>0 DEF IdsInOrder
    <3> QED
      BY <1>1, <2>4, <2>5, <3>1, <3>2 DEF Before
  <2>9. \A p \in Txns : uniqueId'[p] < nextUniqueId'
    <3>1. ASSUME NEW p \in Txns PROVE uniqueId'[p] < nextUniqueId'
      BY <1>1, <2>1, <2>4
    <3> QED
      BY <3>1
  <2>10. \A p, s \in Txns : uniqueId'[p] = uniqueId'[s] /\ uniqueId'[p] > 0 => p = s
    <3>1. ASSUME NEW p \in Txns, NEW s \in Txns, uniqueId'[p] = uniqueId'[s], uniqueId'[p] > 0
          PROVE  p = s
      BY <1>0, <1>1, <2>4, <3>1 DEF IdsInOrder
    <3> QED
      BY <3>1
  <2>11. \A p \in Waiting' : uniqueId'[p] > 0
    BY <1>0, <1>1, <2>4, <2>5 DEF IdsInOrder
  <2> QED
    BY <2>6, <2>7, <2>8, <2>9, <2>10, <2>11 DEF IdsInOrder
<1>5. CASE TakeResult \/ Stop \/ UNCHANGED vars
  BY <1>3, <1>5 DEF TakeResult, GetTxnResult, Stop, vars, coreVars, clientVars, threadVars
<1>6. CASE PopRequest
  <2> DEFINE h == Head(txnRequests)
  <2>1. /\ UNCHANGED <<nextUniqueId, uniqueId>>
        /\ Elements(txnRequests) = {h} \cup Elements(txnRequests')
        /\ txnRequests # <<>> /\ txnRequests' = Tail(txnRequests)
        /\ pc[Main] = "idle" /\ pc'[Main] = "lockAdj" /\ cur'[Main] = h
    BY <1>0, <1>6, PopRequestEffect DEF clientVars
  <2>2. Waiting' = Waiting
    BY <2>1 DEF Waiting, Scanning
  <2>3. Added' = Added
    BY <2>1, <2>2 DEF Added
  <2>4. Increasing(txnRequests', uniqueId) /\ Before({h}, Elements(txnRequests'), uniqueId)
    BY <1>0, <1>1, <2>1, IncreasingTail DEF IdsInOrder
  <2>5. \A t : Scanning(t)' <=> t = h
    BY <2>1 DEF Scanning
  <2> HIDE DEF h
  <2> QED
    BY <1>0, <2>1, <2>2, <2>3, <2>4, <2>5 DEF IdsInOrder
<1>7. CASE Lock(Main)
  <2>1. /\ UNCHANGED <<nextUniqueId, uniqueId, txnRequests>> /\ pc'[Main] # "unlockInd"
        /\ \A t \in Txns : Scanning(t)' <=> Scanning(t)
    BY <1>0, <1>7, LockEffect, Constants DEF clientSide, clientVars, Scanning
  <2>2. ~AddToDag
    BY <1>0, <2>1, AddEffect
  <2> QED
    BY <1>2, <2>1, <2>2
<1>8. CASE AddToDag
  <2> DEFINE t == cur[Main]
  <2>1. /\ UNCHANGED <<nextUniqueId, uniqueId, txnRequests, cur>> /\ pc'[Main] = "unlockInd"
        /\ t \in Waiting /\ pc[Main] = "scan" /\ t \in Txns /\ Added' = Added \cup {t}
    BY <1>0, <1>8, AddEffect, AddedStep DEF clientSide, clientVars
  <2>2. \A p : ~Scanning(p)'
    BY <2>1 DEF Scanning
  <2>3. Waiting' = Elements(txnRequests) /\ Waiting' \subseteq Waiting
    BY <1>1, <2>1, <2>2 DEF Waiting
  <2>4. Scanning(t)
    BY <2>1 DEF Scanning
  <2>5. Before({t}, Waiting', uniqueId)
    BY <1>0, <2>1, <2>3, <2>4 DEF IdsInOrder
  <2> HIDE DEF t
  <2>6. Before(Added', Waiting', uniqueId)
    BY <1>0, <2>1, <2>3, <2>5 DEF IdsInOrder, Before
  <2> QED
    BY <1>0, <2>1, <2>2, <2>3, <2>6 DEF IdsInOrder
<1>9. CASE SchedulerExit
  <2>1. UNCHANGED <<nextUniqueId, uniqueId, txnRequests>> /\ pc[Main] = "idle" /\ pc'[Main] = "exited"
    BY <1>0, <1>9, Types, Constants DEF SchedulerExit, Exit, Goto, clientSide, clientVars
  <2>2. ~AddToDag /\ \A t : Scanning(t)' <=> Scanning(t)
    BY <2>1 DEF AddToDag, Scanning
  <2> QED
    BY <1>2, <2>1, <2>2
<1>10. ASSUME NEW w \in Executors, Executor(w) PROVE IdsInOrder'
  BY <1>3, <1>10, ExecutorFrame
<1> QED
  BY <1>4, <1>5, <1>6, <1>7, <1>8, <1>9, <1>10 DEF Next, Scheduler, Terminating

\* No step disturbs a transaction that stays outside the DAG.
LEMMA UntouchedStep ==
  ASSUME Inv, [Next]_vars
  PROVE  NewAreUntouched'
<1>0. TypeOK /\ ThreadPhase /\ NewAreUntouched /\ OnePlace /\ IndegreeCountsPending
  BY DEF Inv
<1> USE Constants
<1>1. Added \subseteq Added' /\ (AddToDag => Added' = Added \cup {cur[Main]})
  BY AddedStep
<1>2. \A t \in Txns \ Added : ~Held(t)
  BY <1>0 DEF NewAreUntouched
<1>3. ASSUME UNCHANGED <<status, indegree, adjList, readyTxns, txnResults, returned,
                         sharedHolders, lastExcl>>,
             \A w \in Executors : cur'[w] = cur[w]
      PROVE  NewAreUntouched'
  BY <1>0, <1>1, <1>3 DEF NewAreUntouched, Held, Holds
<1> USE DEF clientSide, clientVars, dataVars, contVars, dagVars
<1>4. CASE (\E t \in Txns : Submit(t)) \/ Stop \/ UNCHANGED vars
  BY <1>3, <1>4 DEF Submit, NewTxnRequest, Stop, vars, coreVars, threadVars
<1>5. CASE TakeResult
  <2>1. /\ returned' = returned \cup {Head(txnResults)}
        /\ Elements(txnResults) = {Head(txnResults)} \cup Elements(txnResults')
    BY <1>0, <1>5, Types, ElementsTail DEF TakeResult, GetTxnResult
  <2>2. UNCHANGED <<status, indegree, adjList, readyTxns, sharedHolders, lastExcl, cur>>
    BY <1>5 DEF TakeResult, GetTxnResult, threadVars
  <2> QED
    BY <1>0, <1>1, <2>1, <2>2 DEF NewAreUntouched, Held, Holds
<1>6. CASE PopRequest
  BY <1>0, <1>3, <1>6, PopRequestEffect
<1>7. ASSUME NEW w \in Threads, Lock(w) PROVE NewAreUntouched'
  <2>1. \A v \in Executors : cur'[v] = cur[v]
    BY <1>0, <1>7, LockEffect
  <2> QED
    BY <1>0, <1>3, <1>7, <2>1, LockEffect
<1>8. CASE AddToDag
  <2> DEFINE t == cur[Main]
  <2>1. /\ UNCHANGED <<status, cur, txnResults, returned>> /\ t \in Txns
        /\ sharedHolders' = HoldersAfter(t) /\ lastExcl' = LastExclAfter(t)
    BY <1>0, <1>8, AddEffect
  <2>2. PICK preds \in SUBSET Txns :
          /\ Predecessors(preds, t)
          /\ \A p \in Txns : adjList'[p] = adjList[p] \cup {u \in {t} : p \in preds}
          /\ indegree' = [indegree EXCEPT ![t] = Cardinality(preds)]
          /\ preds = {} => Elements(readyTxns') = Elements(readyTxns) \cup {t}
          /\ preds # {} => readyTxns' = readyTxns
    BY <1>0, <1>8, AddEffect
  <2>3. preds \subseteq Added
    BY <2>2 DEF Predecessors
  <2> HIDE DEF t
  <2>4. ASSUME NEW s \in Txns \ Added'
        PROVE  /\ s \in Txns \ Added /\ s # t
               /\ indegree'[s] = indegree[s] /\ adjList'[s] = adjList[s]
               /\ s \notin Elements(readyTxns')
               /\ \A p \in Txns : s \notin adjList'[p]
               /\ \A k \in Keys : s \notin sharedHolders'[k] /\ lastExcl'[k] # s
    <3>1. s \in Txns \ Added /\ s # t
      BY <1>1, <1>8, <2>1, <2>4 DEF t
    <3>2. indegree'[s] = indegree[s] /\ adjList'[s] = adjList[s]
      BY <1>0, <2>2, <2>3, <3>1, Types
    <3>3. \A k \in Keys : s \notin sharedHolders'[k] /\ lastExcl'[k] # s
      BY <1>0, <2>1, <3>1 DEF NewAreUntouched, HoldersAfter, LastExclAfter
    <3>4. s \notin Elements(readyTxns') /\ \A p \in Txns : s \notin adjList'[p]
      BY <1>0, <2>2, <3>1 DEF NewAreUntouched
    <3> QED
      BY <3>1, <3>2, <3>3, <3>4
  <2> QED
    BY <1>0, <2>1, <2>4 DEF NewAreUntouched, Held, Holds
<1>9. ASSUME NEW w \in Threads, Exit(w), UNCHANGED contVars PROVE NewAreUntouched'
  BY <1>3, <1>9 DEF Exit
<1>10. ASSUME NEW w \in Executors, Executor(w) PROVE NewAreUntouched'
  <2>1. w \in Threads
    OBVIOUS
  <2>2. CASE PopReady(w)
    BY <1>0, <1>1, <2>1, <2>2, PopReadyEffect DEF NewAreUntouched, Held, Holds
  <2>3. CASE ExecuteAndDecide(w)
    <3>1. UNCHANGED <<cur, indegree, adjList, readyTxns, txnResults, returned, sharedHolders, lastExcl>>
      BY <1>0, <2>3, ExecuteEffect
    <3>2. \A t \in Txns : t # cur[w] => status'[t] = status[t]
      BY <1>0, <2>3, ExecuteEffect
    <3>3. \A t \in Txns \ Added : t # cur[w]
      BY <1>2 DEF Held, Holds
    <3> QED
      BY <1>0, <1>1, <3>1, <3>2, <3>3 DEF NewAreUntouched, Held, Holds
  <2>4. ASSUME NEW t \in Txns, UnblockNeighbor(w, t) PROVE NewAreUntouched'
    <3>1. /\ UNCHANGED <<cur, status, adjList, txnResults, returned, sharedHolders, lastExcl>>
          /\ cur[w] \in Txns /\ t \in adjList[cur[w]]
          /\ indegree' = [indegree EXCEPT ![t] = indegree[t] - 1]
          /\ Elements(readyTxns') \subseteq Elements(readyTxns) \cup {t}
      BY <1>0, <2>4, UnblockEffect
    <3>2. t \in Added
      BY <1>0, <3>1 DEF NewAreUntouched
    <3>3. \A s \in Txns \ Added : indegree'[s] = indegree[s]
      BY <1>0, <3>1, <3>2, Types
    <3> QED
      BY <1>0, <1>1, <3>1, <3>2, <3>3 DEF NewAreUntouched, Held, Holds
  <2>5. CASE ReturnResult(w)
    <3>1. /\ UNCHANGED <<status, adjList, indegree, readyTxns, returned, sharedHolders, lastExcl>>
          /\ Held(cur[w]) /\ Elements(txnResults') = Elements(txnResults) \cup {cur[w]}
          /\ \A v \in Threads : v # w => cur'[v] = cur[v]
          /\ cur'[w] = NoTxn
      BY <1>0, <2>1, <2>5, ReturnEffect
    <3>2. \A t \in Txns : Held(t)' => Held(t)
      BY <2>1, <3>1 DEF Held, Holds
    <3> QED
      BY <1>0, <1>1, <1>2, <3>1, <3>2 DEF NewAreUntouched
  <2> QED
    BY <1>7, <1>9, <1>10, <2>1, <2>2, <2>3, <2>4, <2>5 DEF Executor, ExecutorExit
<1> QED
  BY <1>4, <1>5, <1>6, <1>7, <1>8, <1>9, <1>10 DEF Next, Scheduler, SchedulerExit, Terminating

\* Where a transaction is, in terms of the queues and the executors.
LEMMA HandedOverIs ==
  ASSUME NEW t
  PROVE  HandedOver(t) <=> t \in Elements(readyTxns) \/ Held(t) \/ Decided(t)
  BY DEF HandedOver, Held

\* Every step takes a transaction from one place to the next.
LEMMA PlaceStep ==
  ASSUME Inv, [Next]_vars
  PROVE  OnePlace'
<1>0. TypeOK /\ ThreadPhase /\ NewAreUntouched /\ OnePlace /\ IndegreeCountsPending
  BY DEF Inv
<1> USE Constants
<1>1. Added \subseteq Txns /\ (~AddToDag => Added' = Added) /\ (AddToDag => Added' = Added \cup {cur[Main]})
  BY AddedStep
<1>2. \A t : HandedOver(t) <=> t \in Elements(readyTxns) \/ Held(t) \/ Decided(t)
  BY HandedOverIs
<1>3. \A t : HandedOver(t)' <=> t \in Elements(readyTxns') \/ Held(t)' \/ Decided(t)'
  BY DEF HandedOver, Held
<1>4. ASSUME UNCHANGED <<status, indegree, readyTxns, txnResults, returned>>, ~AddToDag,
             \A w \in Executors : cur'[w] = cur[w]
      PROVE  OnePlace'
  BY <1>0, <1>1, <1>4 DEF OnePlace, HandedOver, Held, Holds, Decided
<1>5. AddToDag => pc'[Main] # pc[Main] /\ pc[Main] = "scan"
  BY <1>0, AddEffect
<1> USE DEF clientSide, clientVars, dataVars, contVars, dagVars
<1>6. CASE (\E t \in Txns : Submit(t)) \/ Stop \/ UNCHANGED vars
  BY <1>4, <1>5, <1>6 DEF Submit, NewTxnRequest, Stop, vars, coreVars, threadVars
<1>7. CASE TakeResult
  <2>1. /\ returned' = returned \cup {Head(txnResults)}
        /\ Elements(txnResults) = {Head(txnResults)} \cup Elements(txnResults')
        /\ Distinct(txnResults') /\ Head(txnResults) \notin Elements(txnResults')
    BY <1>0, <1>7, Types, ElementsTail, DistinctTail DEF TakeResult, GetTxnResult, OnePlace
  <2>2. UNCHANGED <<status, indegree, readyTxns, pc, cur>>
    BY <1>7 DEF TakeResult, GetTxnResult, threadVars
  <2>3. /\ Elements(txnResults') \cup returned' = Elements(txnResults) \cup returned
        /\ Elements(txnResults') \cap returned' = {}
    BY <1>0, <2>1 DEF OnePlace
  <2> QED
    BY <1>0, <1>1, <1>5, <2>1, <2>2, <2>3 DEF OnePlace, HandedOver, Held, Holds, Decided
<1>8. CASE PopRequest
  BY <1>0, <1>4, <1>5, <1>8, PopRequestEffect
<1>9. ASSUME NEW w \in Threads, Lock(w) PROVE OnePlace'
  <2>1. \A v \in Executors : cur'[v] = cur[v]
    BY <1>0, <1>9, LockEffect
  <2>2. ~AddToDag
    <3>1. AddToDag => pc'[Main] = "unlockInd"
      BY <1>0, AddEffect
    <3> QED
      BY <1>0, <1>5, <1>9, <3>1, LockEffect
  <2> QED
    BY <1>0, <1>4, <1>9, <2>1, <2>2, LockEffect
<1>10. CASE AddToDag
  <2> PICK t \in Txns : t = cur[Main]
    BY <1>0, <1>10, AddEffect
  <2>1. /\ UNCHANGED <<status, cur, txnResults, returned>> /\ t \notin Added
        /\ Added' = Added \cup {t}
    BY <1>0, <1>1, <1>10, AddEffect
  <2>2. PICK preds \in SUBSET Txns :
          /\ indegree' = [indegree EXCEPT ![t] = Cardinality(preds)]
          /\ Cardinality(preds) \in Nat /\ (Cardinality(preds) = 0 <=> preds = {})
          /\ preds = {} => Elements(readyTxns') = Elements(readyTxns) \cup {t} /\ Distinct(readyTxns')
          /\ preds # {} => readyTxns' = readyTxns
    BY <1>0, <1>10, AddEffect
  <2>3. /\ status[t] = "INCOMPLETE" /\ ~Held(t) /\ ~Decided(t) /\ ~HandedOver(t)
    BY <1>0, <1>2, <2>1 DEF NewAreUntouched, Decided
  <2>4. /\ \A s : Held(s)' <=> Held(s)
        /\ \A s : Decided(s)' <=> Decided(s)
    BY <2>1 DEF Held, Holds, Decided
  <2>5. \A s \in Txns : s # t => (HandedOver(s)' <=> HandedOver(s)) /\ indegree'[s] = indegree[s]
    BY <1>0, <1>2, <1>3, <2>1, <2>2, <2>4, Types
  <2>6. indegree'[t] = Cardinality(preds)
    BY <1>0, <2>1, <2>2, Types
  <2>7. indegree'[t] > 0 => ~HandedOver(t)'
    BY <1>2, <1>3, <2>2, <2>3, <2>4, <2>6
  <2>8. indegree'[t] = 0 => HandedOver(t)'
    BY <1>3, <2>2, <2>6
  <2>9. \A s \in Txns : indegree'[s] > 0 => ~HandedOver(s)'
    BY <1>0, <2>5, <2>7 DEF OnePlace
  <2>10. \A s \in Added' : indegree'[s] = 0 => HandedOver(s)'
    BY <1>0, <1>1, <2>1, <2>5, <2>8 DEF OnePlace
  <2>11. Distinct(readyTxns') /\ \A s \in Elements(readyTxns') : status'[s] = "INCOMPLETE" /\ ~Held(s)'
    BY <1>0, <2>1, <2>2, <2>3, <2>4 DEF OnePlace
  <2>12. /\ Distinct(txnResults')
         /\ \A v, w \in Executors : cur'[v] = cur'[w] /\ cur'[v] # NoTxn => v = w
         /\ \A s \in Txns : status'[s] # "INCOMPLETE" => Held(s)' \/ Decided(s)'
         /\ \A s \in Txns : Decided(s)' => Held(s)' \/ s \in Elements(txnResults') \cup returned'
         /\ \A s \in Elements(txnResults') \cup returned' : Decided(s)' /\ ~Held(s)'
         /\ Elements(txnResults') \cap returned' = {}
    BY <1>0, <2>1, <2>4 DEF OnePlace
  <2> QED
    BY <2>9, <2>10, <2>11, <2>12 DEF OnePlace
<1>11. ASSUME NEW w \in Threads, Exit(w), UNCHANGED contVars PROVE OnePlace'
  <2>1. pc[w] = "idle" /\ pc' = [pc EXCEPT ![w] = "exited"] /\ pc \in [Threads -> Pcs]
    BY <1>0, <1>11, Types DEF Exit, Goto
  <2>2. ~AddToDag
    <3>1. AddToDag => pc'[Main] = "unlockInd"
      BY <1>0, AddEffect
    <3> QED
      BY <1>5, <2>1, <3>1
  <2> QED
    BY <1>4, <1>11, <2>2 DEF Exit
<1>12. ASSUME NEW w \in Executors, Executor(w) PROVE OnePlace'
  <2>1. w \in Threads /\ w # Main
    OBVIOUS
  <2>2. Added' = Added /\ ~AddToDag
    <3>1. UNCHANGED pc[Main]
      BY <1>12, ExecutorFrame
    <3> QED
      BY <1>1, <1>5, <3>1
  <2>3. CASE PopReady(w)
    <3> DEFINE h == Head(readyTxns)
    <3>1. /\ UNCHANGED <<status, txnResults, returned, indegree>>
          /\ \A v \in Threads : v # w => cur'[v] = cur[v]
          /\ cur[w] = NoTxn /\ cur'[w] = h
          /\ h \in Txns /\ h \in Elements(readyTxns)
          /\ status[h] = "INCOMPLETE" /\ ~Held(h)
          /\ Elements(readyTxns) = {h} \cup Elements(readyTxns')
          /\ h \notin Elements(readyTxns') /\ Distinct(readyTxns')
      BY <1>0, <2>1, <2>3, PopReadyEffect
    <3> HIDE DEF h
    <3>2. \A s \in Txns : Held(s)' <=> Held(s) \/ s = h
      BY <2>1, <3>1 DEF Held, Holds
    <3>3. \A s : Decided(s)' <=> Decided(s)
      BY <3>1 DEF Decided
    <3>4. \A s \in Txns : HandedOver(s)' <=> HandedOver(s)
      BY <1>2, <1>3, <3>1, <3>2, <3>3
    <3>5. Elements(readyTxns') \subseteq Txns /\ Elements(txnResults) \cup returned \subseteq Txns
      BY <1>0, <3>1, Types
    <3>6. \A v, u \in Executors : cur'[v] = cur'[u] /\ cur'[v] # NoTxn => v = u
      <4>1. \A v \in Executors : cur[v] # h
        BY <3>1 DEF Held, Holds
      <4> QED
        BY <1>0, <2>1, <3>1, <4>1 DEF OnePlace
    <3>7. ~Decided(h)
      BY <3>1 DEF Decided
    <3>8. \A s \in Elements(readyTxns') : status'[s] = "INCOMPLETE" /\ ~Held(s)'
      BY <1>0, <3>1, <3>2, <3>5 DEF OnePlace
    <3>9. /\ \A s \in Txns : indegree'[s] > 0 => ~HandedOver(s)'
          /\ \A s \in Added' : indegree'[s] = 0 => HandedOver(s)'
      BY <1>0, <1>1, <2>2, <3>1, <3>4 DEF OnePlace
    <3>10. /\ \A s \in Txns : status'[s] # "INCOMPLETE" => Held(s)' \/ Decided(s)'
           /\ \A s \in Txns : Decided(s)' => Held(s)' \/ s \in Elements(txnResults') \cup returned'
           /\ \A s \in Elements(txnResults') \cup returned' : Decided(s)' /\ ~Held(s)'
           /\ Elements(txnResults') \cap returned' = {} /\ Distinct(txnResults')
      BY <1>0, <3>1, <3>2, <3>3, <3>5, <3>7 DEF OnePlace
    <3> QED
      BY <3>1, <3>6, <3>8, <3>9, <3>10 DEF OnePlace
  <2>4. CASE ExecuteAndDecide(w)
    <3> DEFINE c == cur[w]
    <3>1. /\ UNCHANGED <<cur, txnResults, returned, indegree, readyTxns>>
          /\ c \in Txns /\ ~Decided(c)
      BY <1>0, <2>4, ExecuteEffect
    <3>2. \A s \in Txns : s # c => status'[s] = status[s]
      BY <1>0, <2>4, ExecuteEffect
    <3>3. Held(c) /\ \A s : Held(s)' <=> Held(s)
      BY <3>1 DEF Held, Holds
    <3> HIDE DEF c
    <3>4. \A s \in Txns : /\ s # c => (Decided(s)' <=> Decided(s))
                          /\ HandedOver(s)' <=> HandedOver(s)
      BY <1>2, <1>3, <3>1, <3>2, <3>3 DEF Decided
    <3>5. /\ Elements(readyTxns) \subseteq Txns /\ Elements(txnResults) \cup returned \subseteq Txns
          /\ c \notin Elements(readyTxns) /\ c \notin Elements(txnResults) \cup returned
      BY <1>0, <3>3, Types DEF OnePlace
    <3>6. \A s \in Elements(readyTxns') : status'[s] = "INCOMPLETE" /\ ~Held(s)'
      BY <1>0, <3>1, <3>2, <3>3, <3>5 DEF OnePlace
    <3>7. /\ \A s \in Txns : indegree'[s] > 0 => ~HandedOver(s)'
          /\ \A s \in Added' : indegree'[s] = 0 => HandedOver(s)'
      BY <1>0, <1>1, <2>2, <3>1, <3>4 DEF OnePlace
    <3>8. /\ \A s \in Txns : status'[s] # "INCOMPLETE" => Held(s)' \/ Decided(s)'
          /\ \A s \in Txns : Decided(s)' => Held(s)' \/ s \in Elements(txnResults') \cup returned'
          /\ \A s \in Elements(txnResults') \cup returned' : Decided(s)' /\ ~Held(s)'
      BY <1>0, <3>1, <3>2, <3>3, <3>4, <3>5 DEF OnePlace
    <3>9. /\ Distinct(readyTxns') /\ Distinct(txnResults')
          /\ \A v, u \in Executors : cur'[v] = cur'[u] /\ cur'[v] # NoTxn => v = u
          /\ Elements(txnResults') \cap returned' = {}
      BY <1>0, <3>1 DEF OnePlace
    <3> QED
      BY <3>6, <3>7, <3>8, <3>9 DEF OnePlace
  <2>5. ASSUME NEW t \in Txns, UnblockNeighbor(w, t) PROVE OnePlace'
    <3>1. /\ UNCHANGED <<cur, status, txnResults, returned>>
          /\ indegree[t] > 0 /\ indegree' = [indegree EXCEPT ![t] = indegree[t] - 1]
          /\ ~HandedOver(t) /\ status[t] = "INCOMPLETE"
          /\ indegree[t] = 1 => Elements(readyTxns') = Elements(readyTxns) \cup {t} /\ Distinct(readyTxns')
          /\ indegree[t] # 1 => readyTxns' = readyTxns
      BY <1>0, <2>5, UnblockEffect
    <3>2. indegree \in [Txns -> Nat]
      BY <1>0, Types
    <3>3. \A s : (Held(s)' <=> Held(s)) /\ (Decided(s)' <=> Decided(s))
      BY <3>1 DEF Held, Holds, Decided
    <3>4. \A s \in Txns : s # t => indegree'[s] = indegree[s] /\ (HandedOver(s)' <=> HandedOver(s))
      BY <1>2, <1>3, <3>1, <3>2, <3>3
    <3>5. indegree'[t] > 0 => ~HandedOver(t)'
      BY <1>2, <1>3, <3>1, <3>2, <3>3
    <3>6. indegree'[t] = 0 => HandedOver(t)'
      BY <1>3, <3>1, <3>2
    <3>7. /\ \A s \in Txns : indegree'[s] > 0 => ~HandedOver(s)'
          /\ \A s \in Added' : indegree'[s] = 0 => HandedOver(s)'
      BY <1>0, <1>1, <2>2, <3>4, <3>5, <3>6 DEF OnePlace
    <3>8. Distinct(readyTxns') /\ \A s \in Elements(readyTxns') : status'[s] = "INCOMPLETE" /\ ~Held(s)'
      BY <1>0, <1>2, <3>1, <3>3 DEF OnePlace
    <3>9. /\ \A s \in Txns : status'[s] # "INCOMPLETE" => Held(s)' \/ Decided(s)'
          /\ \A s \in Txns : Decided(s)' => Held(s)' \/ s \in Elements(txnResults') \cup returned'
          /\ \A s \in Elements(txnResults') \cup returned' : Decided(s)' /\ ~Held(s)'
          /\ \A v, u \in Executors : cur'[v] = cur'[u] /\ cur'[v] # NoTxn => v = u
          /\ Elements(txnResults') \cap returned' = {} /\ Distinct(txnResults')
      BY <1>0, <3>1, <3>3 DEF OnePlace
    <3> QED
      BY <3>7, <3>8, <3>9 DEF OnePlace
  <2>6. CASE ReturnResult(w)
    <3> DEFINE c == cur[w]
    <3>1. /\ UNCHANGED <<status, returned, indegree, readyTxns>>
          /\ \A v \in Threads : v # w => cur'[v] = cur[v]
          /\ cur'[w] = NoTxn /\ c \in Txns /\ Decided(c)
          /\ c \notin Elements(txnResults) \cup returned
          /\ Elements(txnResults') = Elements(txnResults) \cup {c} /\ Distinct(txnResults')
      BY <1>0, <2>1, <2>6, ReturnEffect
    <3>2. \A v \in Executors : v # w => cur[v] # c
      BY <1>0, <3>1 DEF OnePlace
    <3> HIDE DEF c
    <3>3. \A s \in Txns : Held(s)' <=> Held(s) /\ s # c
      BY <2>1, <3>1, <3>2 DEF Held, Holds, c
    <3>4. \A s : Decided(s)' <=> Decided(s)
      BY <3>1 DEF Decided
    <3>5. \A s \in Txns : HandedOver(s)' <=> HandedOver(s)
      BY <1>2, <1>3, <3>1, <3>3, <3>4
    <3>6. Elements(readyTxns) \subseteq Txns /\ Elements(txnResults) \cup returned \subseteq Txns
      BY <1>0, Types
    <3>7. \A v, u \in Executors : cur'[v] = cur'[u] /\ cur'[v] # NoTxn => v = u
      BY <1>0, <2>1, <3>1 DEF OnePlace
    <3>8. /\ \A s \in Txns : indegree'[s] > 0 => ~HandedOver(s)'
          /\ \A s \in Added' : indegree'[s] = 0 => HandedOver(s)'
      BY <1>0, <1>1, <2>2, <3>1, <3>5 DEF OnePlace
    <3>9. Distinct(readyTxns') /\ \A s \in Elements(readyTxns') : status'[s] = "INCOMPLETE" /\ ~Held(s)'
      BY <1>0, <3>1, <3>3, <3>6 DEF OnePlace
    <3>10. /\ \A s \in Txns : status'[s] # "INCOMPLETE" => Held(s)' \/ Decided(s)'
           /\ \A s \in Txns : Decided(s)' => Held(s)' \/ s \in Elements(txnResults') \cup returned'
           /\ \A s \in Elements(txnResults') \cup returned' : Decided(s)' /\ ~Held(s)'
           /\ Elements(txnResults') \cap returned' = {}
      BY <1>0, <3>1, <3>3, <3>4, <3>6 DEF OnePlace
    <3> QED
      BY <3>1, <3>7, <3>8, <3>9, <3>10 DEF OnePlace
  <2> QED
    BY <1>9, <1>11, <1>12, <2>1, <2>3, <2>4, <2>5, <2>6 DEF Executor, ExecutorExit
<1> QED
  BY <1>6, <1>7, <1>8, <1>9, <1>10, <1>11, <1>12 DEF Next, Scheduler, SchedulerExit, Terminating

-----------------------------------------------------------------------------
(* What is still to be counted down. *)

\* The executor of p has released t, or is past its loop over the neighbours.
Done(p, t) ==
    /\ Decided(p)
    /\ \A w \in Executors : cur[w] = p =>
          \/ pc[w] \in {"unlockInd", "result"}
          \/ pc[w] = "unblock" /\ t \notin todo[w]

\* An edge is pending until then.
LEMMA PendingIs ==
  TypeOK /\ ThreadPhase /\ OnePlace =>
     \A p, t \in Txns : Pending(p, t) <=> t \in adjList[p] /\ ~Done(p, t)
<1> SUFFICES ASSUME TypeOK, ThreadPhase, OnePlace, NEW p \in Txns, NEW t \in Txns
             PROVE  Pending(p, t) <=> t \in adjList[p] /\ ~Done(p, t)
  OBVIOUS
<1>1. p \in Elements(readyTxns) => ~Decided(p)
  BY DEF OnePlace, Decided
<1>2. ASSUME NEW w \in Executors, cur[w] = p
      PROVE  /\ pc[w] \in {"readset", "writeset", "decide", "apply", "lockAdj", "lockInd",
                           "unblock", "unlockInd", "result"}
             /\ ~Decided(p) => pc[w] \in {"readset", "writeset", "decide", "apply"}
  <2>1. w \in Threads /\ pc[w] \in Pcs /\ cur[w] # NoTxn
    BY <1>2, Types, Constants
  <2> QED
    BY <1>2, <2>1 DEF ThreadPhase, Pcs, Decided
<1>3. ASSUME Pending(p, t) PROVE t \in adjList[p] /\ ~Done(p, t)
  BY <1>1, <1>3, Zenon DEF Pending, PendingIn, HandedOver, Holds, Done
<1>4. ASSUME t \in adjList[p], ~Done(p, t) PROVE Pending(p, t)
  <2>1. CASE ~HandedOver(p)
    BY <1>4, <2>1 DEF Pending, PendingIn
  <2>2. CASE p \in Elements(readyTxns)
    BY <1>4, <2>2 DEF Pending, PendingIn
  <2>3. ASSUME NEW w \in Executors, cur[w] = p, ~Decided(p) PROVE Pending(p, t)
    BY <1>2, <1>4, <2>3 DEF Pending, PendingIn, Holds
  <2>4. CASE Decided(p)
    <3>1. PICK w \in Executors : /\ cur[w] = p /\ pc[w] \notin {"unlockInd", "result"}
                                 /\ pc[w] = "unblock" => t \in todo[w]
      BY <1>4, <2>4 DEF Done
    <3> QED
      BY <1>2, <1>4, <3>1 DEF Pending, PendingIn, Holds
  <2> QED
    BY <2>1, <2>2, <2>3, <2>4 DEF HandedOver, Holds
<1> QED
  BY <1>3, <1>4

\* Every step keeps the counts.
LEMMA CountsStep ==
  ASSUME Inv, [Next]_vars, TypeOK', ThreadPhase', OnePlace'
  PROVE  IndegreeCountsPending'
<1>0. TypeOK /\ ThreadPhase /\ NewAreUntouched /\ OnePlace /\ IndegreeCountsPending
  BY DEF Inv
<1> USE Constants
<1>1. /\ pc \in [Threads -> Pcs] /\ cur \in [Threads -> Values]
      /\ todo \in [Threads -> SUBSET (Keys \cup Txns)]
      /\ adjList \in [Txns -> SUBSET Txns] /\ indegree \in [Txns -> Nat]
  BY <1>0, Types
<1>2. /\ \A p, t \in Txns : Pending(p, t) <=> t \in adjList[p] /\ ~Done(p, t)
      /\ \A p, t \in Txns : Pending(p, t)' <=> t \in adjList'[p] /\ ~Done(p, t)'
  <2>1. (TypeOK /\ ThreadPhase /\ OnePlace =>
           \A p, t \in Txns : Pending(p, t) <=> t \in adjList[p] /\ ~Done(p, t))'
    BY PendingIs, PTL
  <2> QED
    BY <1>0, <2>1, PendingIs
<1>3. ASSUME UNCHANGED <<adjList, indegree>>,
             \A p, t \in Txns : t \in adjList[p] => (Done(p, t)' <=> Done(p, t))
      PROVE  IndegreeCountsPending'
  <2>1. \A t \in Txns : {p \in Txns : Pending(p, t)}' = {p \in Txns : Pending(p, t)}
    BY <1>2, <1>3
  <2> QED
    BY <1>0, <1>3, <2>1 DEF IndegreeCountsPending
<1>4. ASSUME UNCHANGED status, \A w \in Executors : UNCHANGED <<pc[w], cur[w], todo[w]>>
      PROVE  \A p, t \in Txns : Done(p, t)' <=> Done(p, t)
  BY <1>4 DEF Done, Decided
<1> USE DEF clientSide, clientVars, dataVars, contVars, dagVars
<1>5. CASE (\E t \in Txns : Submit(t)) \/ TakeResult \/ Stop \/ UNCHANGED vars
  BY <1>3, <1>4, <1>5 DEF Submit, NewTxnRequest, TakeResult, GetTxnResult, Stop, vars, coreVars,
        threadVars
<1>6. CASE PopRequest
  BY <1>0, <1>3, <1>4, <1>6, PopRequestEffect
<1>7. CASE Lock(Main)
  BY <1>0, <1>3, <1>4, <1>7, LockEffect
<1>8. CASE AddToDag
  <2> PICK t \in Txns : t = cur[Main]
    BY <1>0, <1>8, AddEffect
  <2>1. t \notin Added /\ \A p, s \in Txns : Done(p, s)' <=> Done(p, s)
    BY <1>0, <1>4, <1>8, AddEffect
  <2>2. PICK preds \in SUBSET Txns :
          /\ Predecessors(preds, t)
          /\ \A p \in Txns : adjList'[p] = adjList[p] \cup {u \in {t} : p \in preds}
          /\ indegree' = [indegree EXCEPT ![t] = Cardinality(preds)]
    BY <1>0, <1>8, AddEffect
  <2>3. \A p \in preds, s \in Txns : ~Done(p, s)
    BY <2>2 DEF Predecessors, Done, Decided
  <2>4. \A p \in Txns : t \notin adjList[p]
    BY <1>0, <2>1 DEF NewAreUntouched
  <2>5. {p \in Txns : Pending(p, t)'} = preds
    BY <1>2, <2>1, <2>2, <2>3, <2>4
  <2>6. \A s \in Txns : s # t => {p \in Txns : Pending(p, s)'} = {p \in Txns : Pending(p, s)}
    BY <1>2, <2>1, <2>2
  <2>7. /\ indegree'[t] = Cardinality(preds)
        /\ \A s \in Txns : s # t => indegree'[s] = indegree[s]
    BY <1>1, <2>2
  <2>8. ASSUME NEW s \in Txns PROVE indegree'[s] = Cardinality({p \in Txns : Pending(p, s)'})
    <3>1. CASE s = t
      BY <2>5, <2>7, <3>1
    <3>2. CASE s # t
      BY <1>0, <2>6, <2>7, <3>2 DEF IndegreeCountsPending
    <3> QED
      BY <3>1, <3>2
  <2> QED
    BY <2>8 DEF IndegreeCountsPending
<1>9. ASSUME NEW w \in Threads, Exit(w), UNCHANGED contVars PROVE IndegreeCountsPending'
  <2>1. /\ pc[w] = "idle" /\ pc' = [pc EXCEPT ![w] = "exited"]
        /\ UNCHANGED <<status, cur, todo, adjList, indegree>>
    BY <1>9 DEF Exit, Goto
  <2>2. \A v \in Executors : v # w => UNCHANGED <<pc[v], cur[v], todo[v]>>
    BY <1>1, <2>1
  <2>3. w \in Executors => cur[w] = NoTxn /\ cur'[w] = NoTxn
    BY <1>0, <2>1 DEF ThreadPhase
  <2>4. \A p, t \in Txns : Done(p, t)' <=> Done(p, t)
    BY <2>1, <2>2, <2>3 DEF Done, Decided
  <2> QED
    BY <1>3, <2>1, <2>4
<1>10. ASSUME NEW w \in Executors, Executor(w) PROVE IndegreeCountsPending'
  <2>1. w \in Threads /\ w # Main
    OBVIOUS
  <2>2. CASE PopReady(w)
    <3>1. /\ UNCHANGED <<status, adjList, indegree>>
          /\ \A v \in Executors : v # w => UNCHANGED <<pc[v], cur[v], todo[v]>>
          /\ cur[w] = NoTxn /\ ~Decided(cur'[w])
      BY <1>0, <2>1, <2>2, PopReadyEffect DEF Decided
    <3>2. \A p, t \in Txns : Done(p, t)' <=> Done(p, t)
      BY <3>1 DEF Done, Decided
    <3> QED
      BY <1>3, <3>1, <3>2
  <2>3. CASE ExecuteAndDecide(w)
    <3> DEFINE c == cur[w]
    <3>1. /\ UNCHANGED <<cur, adjList, indegree>> /\ c \in Txns /\ ~Decided(c)
          /\ pc'[w] \in {"readset", "writeset", "decide", "apply", "lockAdj"}
      BY <1>0, <2>3, ExecuteEffect
    <3>2. \A v \in Executors : v # w => UNCHANGED <<pc[v], cur[v], todo[v]>>
      BY <1>0, <2>1, <2>3, <3>1, ExecuteEffect
    <3>3. \A s \in Txns : s # c => status'[s] = status[s]
      BY <1>0, <2>3, ExecuteEffect
    <3>4. ASSUME NEW p \in Txns, NEW t \in Txns PROVE Done(p, t)' <=> Done(p, t)
      <4>1. CASE p = c
        <5>1. ~Done(p, t) /\ ~Done(p, t)'
          BY <3>1, <4>1 DEF Done
        <5> QED
          BY <5>1
      <4>2. CASE p # c
        BY <3>1, <3>2, <3>3, <4>2 DEF Done, Decided
      <4> QED
        BY <4>1, <4>2
    <3> QED
      BY <1>3, <3>1, <3>4
  <2>4. CASE Lock(w)
    <3> DEFINE c == cur[w]
    <3>1. /\ UNCHANGED <<cur, status, adjList, indegree>>
          /\ \A v \in Executors : v # w => UNCHANGED <<pc[v], cur[v], todo[v]>>
      BY <1>0, <2>1, <2>4, LockEffect
    <3>2. \/ pc[w] = "lockAdj" /\ pc'[w] = "lockInd"
          \/ pc[w] = "lockInd" /\ pc'[w] = "unblock" /\ todo'[w] = adjList[c]
          \/ pc[w] = "unblock" /\ pc'[w] = "unlockInd" /\ todo[w] = {}
          \/ pc[w] = "unlockInd" /\ pc'[w] = "result"
      BY <1>0, <2>1, <2>4, LockEffect
    <3>3. ASSUME NEW p \in Txns, NEW t \in adjList[p] PROVE Done(p, t)' <=> Done(p, t)
      <4>1. CASE p = c
        BY <3>1, <3>2, <3>3, <4>1 DEF Done, Decided
      <4>2. CASE p # c
        BY <3>1, <4>2 DEF Done, Decided
      <4> QED
        BY <4>1, <4>2
    <3> QED
      BY <1>3, <3>1, <3>3
  <2>5. ASSUME NEW t \in Txns, UnblockNeighbor(w, t) PROVE IndegreeCountsPending'
    <3> PICK c \in Txns : c = cur[w]
      BY <1>0, <2>5, UnblockEffect
    <3>1. /\ UNCHANGED <<pc, cur, status, adjList>>
          /\ pc[w] = "unblock" /\ t \in todo[w] /\ t \in adjList[c]
          /\ todo' = [todo EXCEPT ![w] = todo[w] \ {t}]
          /\ indegree' = [indegree EXCEPT ![t] = indegree[t] - 1]
      BY <1>0, <2>5, UnblockEffect
    <3>2. \A v \in Executors : cur[v] = c => v = w
      BY <1>0 DEF OnePlace
    <3>3. Decided(c)
      BY <1>0, <3>1 DEF ThreadPhase
    <3>4. Pending(c, t) /\ ~Pending(c, t)'
      <4>1. ~Done(c, t)
        BY <3>1 DEF Done
      <4>2. t \notin todo'[w]
        BY <1>1, <2>1, <3>1
      <4>3. Done(c, t)'
        BY <3>1, <3>2, <3>3, <4>2 DEF Done, Decided
      <4> QED
        BY <1>2, <3>1, <4>1, <4>3
    <3>5. ASSUME NEW p \in Txns, NEW s \in Txns, p # c \/ s # t
          PROVE  Pending(p, s)' <=> Pending(p, s)
      <4>1. \A v \in Executors : cur[v] = p => (s \in todo'[v] <=> s \in todo[v])
        BY <1>1, <2>1, <3>1, <3>2, <3>5
      <4>2. Done(p, s)' <=> Done(p, s)
        BY <3>1, <4>1 DEF Done, Decided
      <4> QED
        BY <1>2, <3>1, <4>2
    <3>6. ASSUME NEW s \in Txns PROVE indegree'[s] = Cardinality({p \in Txns : Pending(p, s)}')
      <4> DEFINE P == {p \in Txns : Pending(p, s)}
      <4>1. indegree[s] = Cardinality(P) /\ IsFiniteSet(P)
        BY <1>0, FS_Subset DEF IndegreeCountsPending
      <4>2. CASE s = t
        <5>1. P' = P \ {c} /\ c \in P
          BY <3>4, <3>5, <4>2
        <5>2. Cardinality(P') = Cardinality(P) - 1
          BY <4>1, <5>1, FS_RemoveElement
        <5> QED
          BY <1>1, <3>1, <4>1, <4>2, <5>2
      <4>3. CASE s # t
        <5>1. P' = P
          BY <3>5, <4>3
        <5> QED
          BY <1>1, <3>1, <4>1, <4>3, <5>1
      <4> QED
        BY <4>2, <4>3
    <3> QED
      BY <3>6 DEF IndegreeCountsPending
  <2>6. CASE ReturnResult(w)
    <3>1. /\ UNCHANGED <<status, todo, adjList, indegree>>
          /\ \A v \in Executors : v # w => UNCHANGED <<pc[v], cur[v]>>
          /\ pc[w] = "result" /\ cur'[w] = NoTxn
      BY <1>0, <2>1, <2>6, ReturnEffect
    <3>2. \A p, t \in Txns : Done(p, t)' <=> Done(p, t)
      BY <3>1 DEF Done, Decided
    <3> QED
      BY <1>3, <3>1, <3>2
  <2> QED
    BY <1>9, <1>10, <2>1, <2>2, <2>3, <2>4, <2>5, <2>6 DEF Executor, ExecutorExit
<1> QED
  BY <1>5, <1>6, <1>7, <1>8, <1>9, <1>10 DEF Next, Scheduler, SchedulerExit, Terminating

-----------------------------------------------------------------------------
(* The inductive invariant holds. *)

LEMMA InvInit == Init => Inv
<1> SUFFICES ASSUME Init PROVE Inv
  OBVIOUS
<1> USE Constants
<1>1. TypeOK
  BY TypeInit
<1>2. /\ nextUniqueId = 1 /\ uniqueId = [t \in Txns |-> 0] /\ txnRequests = <<>>
      /\ txnResults = <<>> /\ returned = {} /\ readyTxns = <<>>
      /\ status = [t \in Txns |-> "INCOMPLETE"]
      /\ pc = [w \in Threads |-> "idle"] /\ cur = [w \in Threads |-> NoTxn]
      /\ sharedHolders = [k \in Keys |-> {}] /\ lastExcl = [k \in Keys |-> NoTxn]
      /\ indegree = [t \in Txns |-> 0] /\ adjList = [t \in Txns |-> {}]
  BY Zenon DEF Init, ContInit, CoreInit
<1>3. Elements(<<>>) = {}
  BY ElementsEmpty
<1>4. ThreadPhase
  BY <1>2 DEF ThreadPhase
<1>5. Waiting = {} /\ Added = {} /\ \A t \in Txns : ~Scanning(t)
  BY <1>2, <1>3 DEF Waiting, Added, Scanning
<1>6. IdsInOrder
  BY <1>2, <1>3, <1>5 DEF IdsInOrder, Increasing, Before
<1>7. \A t \in Txns : ~Held(t) /\ ~Decided(t) /\ ~HandedOver(t)
  BY <1>2, <1>3 DEF Held, Holds, Decided, HandedOver
<1>8. NewAreUntouched
  BY <1>2, <1>3, <1>7 DEF NewAreUntouched
<1>9. OnePlace
  BY <1>2, <1>3, <1>5, <1>7 DEF OnePlace, Distinct
<1>10. IndegreeCountsPending
  <2>1. \A t \in Txns : {p \in Txns : Pending(p, t)} = {}
    BY <1>2 DEF Pending, PendingIn
  <2> QED
    BY <1>2, <2>1, FS_EmptySet DEF IndegreeCountsPending
<1> QED
  BY <1>1, <1>4, <1>6, <1>8, <1>9, <1>10 DEF Inv

LEMMA InvStep == Inv /\ [Next]_vars => Inv'
<1> SUFFICES ASSUME Inv, [Next]_vars PROVE Inv'
  OBVIOUS
<1>1. TypeOK' /\ ThreadPhase' /\ OnePlace'
  BY TypeStep, PhaseStep, PlaceStep
<1>2. IdsInOrder' /\ NewAreUntouched'
  BY IdsStep, UntouchedStep
<1>3. IndegreeCountsPending'
  BY <1>1, CountsStep
<1> QED
  BY <1>1, <1>2, <1>3 DEF Inv

\* The invariant the other proofs rest on.
THEOREM ContInvariant == Spec => []Inv
  BY InvInit, InvStep, PTL DEF Spec

\* Type correctness of CALVIN_CONT.
THEOREM TypeCorrect == Spec => []TypeOK
<1>1. Inv => TypeOK
  BY DEF Inv
<1> QED
  BY <1>1, ContInvariant, PTL

\* indegree[t] is what is left to be counted down, while the scheduler adds to
\* it and the executors take from it (calvin.cc, RunCalvinContScheduler).
THEOREM IndegreesAreExact == Spec => []IndegreeCountsPending
<1>1. Inv => IndegreeCountsPending
  BY DEF Inv
<1> QED
  BY <1>1, ContInvariant, PTL

\* adj_list_lock and indegree_lock exclude what they are to exclude.
THEOREM LocksExclude == Spec => []LocksHeld
<1>1. Init => LocksHeld
  <2> SUFFICES ASSUME Init PROVE LocksHeld
    OBVIOUS
  <2>1. pc = [w \in Threads |-> "idle"] /\ adjLock = {} /\ indLock = {}
    BY Zenon DEF Init, ContInit, CoreInit
  <2> QED
    BY <2>1 DEF LocksHeld
<1>2. Inv /\ LocksHeld /\ [Next]_vars => LocksHeld'
  BY LocksStep
<1> QED
  BY <1>1, <1>2, ContInvariant, PTL DEF Spec

\* A transaction handed over has nothing to wait for: whoever has an edge to it
\* is decided, its writes installed.
LEMMA PredecessorsAreDecided == Inv => PredecessorsDecided
<1> SUFFICES ASSUME Inv, NEW p \in Txns, NEW t \in Txns, t \in adjList[p], HandedOver(t)
             PROVE  Decided(p)
  BY DEF PredecessorsDecided
<1>0. TypeOK /\ ThreadPhase /\ OnePlace /\ IndegreeCountsPending
  BY DEF Inv
<1> DEFINE P == {q \in Txns : Pending(q, t)}
<1>1. indegree[t] = 0
  BY <1>0, Types DEF OnePlace
<1>2. IsFiniteSet(P) /\ Cardinality(P) = 0
  BY <1>0, <1>1, Constants, FS_Subset DEF IndegreeCountsPending
<1>3. p \notin P
  <2> HIDE DEF P
  <2> QED
    BY <1>2, FS_EmptySet
<1>4. Done(p, t)
  BY <1>0, <1>3, PendingIs
<1> QED
  BY <1>4 DEF Done

\* No transaction is handed to the executors before its predecessors in the
\* DAG are decided.
THEOREM EdgesAreRespected == Spec => []PredecessorsDecided
  BY PredecessorsAreDecided, ContInvariant, PTL

\* One executor at most has t, besides the scheduler.
LEMMA HoldersCount ==
  ASSUME TypeOK, OnePlace, NEW t \in Txns
  PROVE  Cardinality({w \in Threads : cur[w] = t}) = One(cur[Main] = t) + One(Held(t))
<1> USE Constants
<1>1. Main \notin Executors /\ NoTxn # t
  OBVIOUS
<1>2. CASE ~Held(t)
  <2>1. CASE cur[Main] = t
    <3>1. {w \in Threads : cur[w] = t} = {Main}
      BY <1>2, <2>1 DEF Held, Holds
    <3>2. Cardinality({w \in Threads : cur[w] = t}) = 1
      BY <3>1, FS_Singleton
    <3> QED
      BY <1>2, <2>1, <3>2 DEF One
  <2>2. CASE cur[Main] # t
    <3>1. {w \in Threads : cur[w] = t} = {}
      BY <1>2, <2>2 DEF Held, Holds
    <3>2. Cardinality({w \in Threads : cur[w] = t}) = 0
      BY <3>1, FS_EmptySet
    <3> QED
      BY <1>2, <2>2, <3>2 DEF One
  <2> QED
    BY <2>1, <2>2
<1>3. CASE Held(t)
  <2>1. PICK w \in Executors : cur[w] = t
    BY <1>3 DEF Held, Holds
  <2>2. \A v \in Executors : cur[v] = t => v = w
    BY <1>1, <2>1 DEF OnePlace
  <2>3. CASE cur[Main] = t
    <3>1. {v \in Threads : cur[v] = t} = {w} \cup {Main} /\ w # Main
      BY <2>1, <2>2, <2>3
    <3>2. /\ IsFiniteSet({w}) /\ Cardinality({w}) = 1
      BY FS_Singleton
    <3>3. Cardinality({w} \cup {Main}) = Cardinality({w}) + 1
      BY <3>1, <3>2, FS_AddElement
    <3>4. Cardinality({v \in Threads : cur[v] = t}) = 2
      <4>1. Cardinality({v \in Threads : cur[v] = t}) = Cardinality({w} \cup {Main})
        BY <3>1, Zenon
      <4> QED
        BY <3>2, <3>3, <4>1
    <3> QED
      BY <1>3, <2>3, <3>4 DEF One
  <2>4. CASE cur[Main] # t
    <3>1. {v \in Threads : cur[v] = t} = {w}
      BY <2>1, <2>2, <2>4
    <3>2. Cardinality({v \in Threads : cur[v] = t}) = 1
      BY <3>1, FS_Singleton
    <3> QED
      BY <1>3, <2>4, <3>2 DEF One
  <2> QED
    BY <2>3, <2>4
<1> QED
  BY <1>2, <1>3

\* Whatever the threads do, a request is in one place and in one only.
THEOREM RequestsAreInOnePlace == Spec => []EachRequestInOnePlace
<1>1. ASSUME Inv PROVE EachRequestInOnePlace
  <2>0. TypeOK /\ ThreadPhase /\ IdsInOrder /\ NewAreUntouched /\ OnePlace
    BY <1>1 DEF Inv
  <2>1. ASSUME NEW t \in Txns
        PROVE  One(uniqueId[t] > 0) =
                 Copies(txnRequests, t) + Cardinality({w \in Threads : cur[w] = t})
                 - One(cur[Main] = t /\ pc[Main] \in {"unlockInd", "unlockAdj"})
                 + One(indegree[t] > 0) + Copies(readyTxns, t)
                 + Copies(txnResults, t) + One(t \in returned)
    <3> DEFINE Id == uniqueId[t] > 0
               Req == t \in Elements(txnRequests)
               Scan == Scanning(t)
               Main_ == cur[Main] = t
               Past == cur[Main] = t /\ pc[Main] \in {"unlockInd", "unlockAdj"}
               In == t \in Added
               Blocked == indegree[t] > 0
               Ready == t \in Elements(readyTxns)
               Hold == Held(t)
               Result == t \in Elements(txnResults)
               Back == t \in returned
    <3>1. /\ Copies(txnRequests, t) = One(Req)
          /\ Copies(readyTxns, t) = One(Ready)
          /\ Copies(txnResults, t) = One(Result)
      <4>1. /\ txnRequests \in Seq(Txns) /\ readyTxns \in Seq(Txns) /\ txnResults \in Seq(Txns)
            /\ uniqueId \in [Txns -> Nat]
        BY <2>0, Types
      <4>2. Distinct(txnRequests) /\ Distinct(readyTxns) /\ Distinct(txnResults)
        BY <2>0, <4>1, IncreasingDistinct DEF IdsInOrder, OnePlace
      <4> QED
        BY <4>1, <4>2, CopiesDistinct
    <3>2. Cardinality({w \in Threads : cur[w] = t}) = One(Main_) + One(Hold)
      BY <2>0, HoldersCount
    <3>3. (Main_ <=> Scan \/ Past) /\ ~(Scan /\ Past)
      <4>1. cur[Main] = t => pc[Main] \notin {"idle", "exited"}
        BY <2>0, Constants DEF ThreadPhase
      <4> QED
        BY <2>0, <4>1 DEF ThreadPhase, Scanning
    <3>4. uniqueId[t] \in Nat /\ indegree[t] \in Nat
      BY <2>0, Types
    <3>5. /\ ~(Req /\ Scan)
          /\ Id <=> Req \/ Scan \/ In
          /\ Req \/ Scan => ~In
      <4>1. Req /\ Scan => uniqueId[t] < uniqueId[t]
        BY <2>0 DEF IdsInOrder, Before
      <4>2. ~(Req /\ Scan)
        BY <3>4, <4>1
      <4> QED
        BY <2>0, <4>2 DEF Added, Waiting, IdsInOrder
    <3>6. ~In => ~Blocked /\ ~Ready /\ ~Hold /\ ~Result /\ ~Back
      BY <2>0, <3>4 DEF NewAreUntouched
    <3>7. /\ Blocked => ~Ready /\ ~Hold /\ ~Decided(t)
          /\ In /\ ~Blocked => Ready \/ Hold \/ Decided(t)
          /\ Ready => ~Hold /\ ~Decided(t)
          /\ Hold => ~Result /\ ~Back
          /\ Decided(t) => Hold \/ Result \/ Back
          /\ Result \/ Back => Decided(t)
          /\ ~(Result /\ Back)
      <4>1. HandedOver(t) <=> Ready \/ Hold \/ Decided(t)
        BY HandedOverIs
      <4>2. Ready => ~Decided(t)
        BY <2>0 DEF OnePlace, Decided
      <4> QED
        BY <2>0, <3>4, <4>1, <4>2 DEF OnePlace
    <3> HIDE DEF Id, Req, Scan, Main_, Past, In, Blocked, Ready, Hold, Result, Back
    <3>8. One(Id) = One(Req) + (One(Main_) + One(Hold)) - One(Past) + One(Blocked) + One(Ready)
                    + One(Result) + One(Back)
      BY <3>3, <3>5, <3>6, <3>7, SMT DEF One
    <3> QED
      BY <3>1, <3>2, <3>8 DEF Id, Past, Blocked, Back
  <2> QED
    BY <2>1 DEF EachRequestInOnePlace
<1> QED
  BY <1>1, ContInvariant, PTL

-----------------------------------------------------------------------------
(* The order of the conflicts. *)

\* The maps and the DAG are the scheduler's: executors only read them.
LEMMA DagFrame ==
  ASSUME Inv, [Next]_vars, ~AddToDag
  PROVE  UNCHANGED <<sharedHolders, lastExcl, adjList>>
<1>0. TypeOK /\ ThreadPhase /\ OnePlace
  BY DEF Inv
<1> USE DEF contVars, dagVars
<1>1. CASE (\E t \in Txns : Submit(t)) \/ TakeResult \/ Stop \/ UNCHANGED vars
  BY <1>1 DEF Submit, TakeResult, Stop, vars
<1>2. CASE PopRequest \/ Lock(Main) \/ SchedulerExit
  BY <1>0, <1>2, PopRequestEffect, LockEffect, Constants DEF SchedulerExit
<1>3. ASSUME NEW w \in Executors, Executor(w)
      PROVE  UNCHANGED <<sharedHolders, lastExcl, adjList>>
  BY <1>3, ExecutorFrame
<1> QED
  BY <1>1, <1>2, <1>3 DEF Next, Scheduler, Terminating

\* A request only gets an id when it is new, a larger one than all others.
LEMMA EarlierStep ==
  ASSUME Inv, [Next]_vars, NEW p \in Txns, NEW q \in Txns
  PROVE  /\ Earlier(p, q) => Earlier(p, q)'
         /\ Earlier(p, q)' /\ uniqueId[q] > 0 => Earlier(p, q)
<1>0. TypeOK /\ ThreadPhase /\ NewAreUntouched /\ OnePlace /\ IdsInOrder
  BY DEF Inv
<1>1. /\ uniqueId \in [Txns -> Nat] /\ nextUniqueId \in Nat \ {0}
      /\ \A t \in Txns : uniqueId[t] < nextUniqueId
  BY <1>0, Types DEF IdsInOrder
<1>2. ASSUME UNCHANGED uniqueId PROVE Earlier(p, q)' <=> Earlier(p, q)
  BY <1>2 DEF Earlier
<1>3. ASSUME NEW t \in Txns, Submit(t)
      PROVE  /\ Earlier(p, q) => Earlier(p, q)'
             /\ Earlier(p, q)' /\ uniqueId[q] > 0 => Earlier(p, q)
  <2>1. uniqueId[t] = 0 /\ uniqueId' = [uniqueId EXCEPT ![t] = nextUniqueId]
    BY <1>3 DEF Submit, NewTxnRequest
  <2>2. uniqueId'[t] = nextUniqueId /\ \A s \in Txns : s # t => uniqueId'[s] = uniqueId[s]
    BY <1>1, <2>1
  <2> QED
    BY <1>1, <2>1, <2>2 DEF Earlier
<1> USE DEF clientSide, clientVars
<1>4. CASE TakeResult \/ Stop \/ UNCHANGED vars
  BY <1>2, <1>4 DEF TakeResult, GetTxnResult, Stop, vars, coreVars
<1>5. CASE PopRequest \/ Lock(Main) \/ AddToDag \/ SchedulerExit
  BY <1>0, <1>2, <1>5, PopRequestEffect, LockEffect, AddEffect, Constants DEF SchedulerExit, Exit
<1>6. ASSUME NEW w \in Executors, Executor(w)
      PROVE  UNCHANGED uniqueId
  BY <1>6, ExecutorFrame
<1> QED
  BY <1>2, <1>3, <1>4, <1>5, <1>6 DEF Next, Scheduler, Terminating

\* The order of the transactions of the DAG stands, and the newest is last.
LEMMA AddedOrder ==
  ASSUME Inv, [Next]_vars
  PROVE  /\ \A p, q \in Added : Earlier(p, q)' <=> Earlier(p, q)
         /\ AddToDag => \A p \in Added : Earlier(p, cur[Main])' /\ ~Earlier(cur[Main], p)
                                         /\ uniqueId'[p] < uniqueId'[cur[Main]]
         /\ \A p, q \in Added : p # q => Earlier(p, q) \/ Earlier(q, p)
<1>0. TypeOK /\ ThreadPhase /\ NewAreUntouched /\ OnePlace /\ IdsInOrder
  BY DEF Inv
<1>1. /\ Added \subseteq Txns /\ uniqueId \in [Txns -> Nat]
      /\ \A t \in Added : uniqueId'[t] = uniqueId[t] /\ uniqueId[t] > 0
  BY <1>0, AddedStep, Types
<1>2. \A p, q \in Added : Earlier(p, q)' <=> Earlier(p, q)
  BY <1>1 DEF Earlier
<1>3. ASSUME AddToDag, NEW p \in Added
      PROVE  /\ uniqueId[p] < uniqueId[cur[Main]] /\ uniqueId[p] > 0
             /\ uniqueId'[p] = uniqueId[p] /\ uniqueId'[cur[Main]] = uniqueId[cur[Main]]
             /\ cur' = cur /\ cur[Main] \in Txns
  <2>1. cur[Main] \in Waiting /\ UNCHANGED <<uniqueId, cur>> /\ cur[Main] \in Txns
    BY <1>0, <1>3, AddEffect DEF clientSide, clientVars
  <2> QED
    BY <1>0, <1>1, <1>3, <2>1 DEF IdsInOrder, Before
<1>4. AddToDag => \A p \in Added : Earlier(p, cur[Main])' /\ ~Earlier(cur[Main], p)
                                   /\ uniqueId'[p] < uniqueId'[cur[Main]]
  BY <1>1, <1>3 DEF Earlier
<1>5. \A p, q \in Added : p # q => Earlier(p, q) \/ Earlier(q, p)
  BY <1>0, <1>1 DEF Earlier, IdsInOrder
<1> QED
  BY <1>2, <1>4, <1>5

\* The maps of holders keep saying what they say of the DAG.
LEMMA MapsStep ==
  ASSUME Inv, LastExclExact, HoldersExact, [Next]_vars
  PROVE  LastExclExact' /\ HoldersExact'
<1>0. TypeOK /\ ThreadPhase /\ NewAreUntouched /\ OnePlace /\ IdsInOrder
  BY DEF Inv
<1>1. /\ Added \subseteq Txns
      /\ \A t \in Added : uniqueId'[t] = uniqueId[t] /\ uniqueId[t] > 0
      /\ AddToDag => Added' = Added \cup {cur[Main]}
      /\ ~AddToDag => Added' = Added
  BY AddedStep
<1>2. uniqueId \in [Txns -> Nat]
  BY <1>0, Types
<1>3. \A p, q \in Added : Earlier(p, q)' <=> Earlier(p, q)
  BY AddedOrder
<1>4. CASE ~AddToDag
  <2>1. UNCHANGED <<sharedHolders, lastExcl>>
    BY <1>4, DagFrame
  <2>2. LastExclExact'
    BY <1>1, <1>4, <2>1 DEF LastExclExact
  <2>3. HoldersExact'
    BY <1>1, <1>3, <1>4, <2>1 DEF HoldersExact
  <2> QED
    BY <2>2, <2>3
<1>5. CASE AddToDag
  <2> PICK t \in Txns : t = cur[Main]
    BY <1>0, <1>5, AddEffect
  <2>1. /\ sharedHolders' = HoldersAfter(t) /\ lastExcl' = LastExclAfter(t)
        /\ t \notin Added /\ UNCHANGED <<uniqueId, cur>>
    BY <1>0, <1>5, AddEffect DEF clientSide, clientVars
  <2>2. Added' = Added \cup {t}
    BY <1>1, <1>5
  <2>3. \A p \in Added : Earlier(p, t)' /\ uniqueId[p] < uniqueId[t] /\ ~Earlier(t, p)'
    <3>1. \A p \in Added : Earlier(p, cur[Main])' /\ ~Earlier(cur[Main], p)
                           /\ uniqueId'[p] < uniqueId'[cur[Main]]
      BY <1>5, AddedOrder
    <3> QED
      BY <2>1, <3>1 DEF Earlier
  <2>4. ~Earlier(t, t)'
    BY <1>2, <2>1 DEF Earlier
  <2>5. ASSUME NEW k \in Keys, NEW p \in Txns
        PROVE  lastExcl'[k] = p <=>
                 /\ p \in Added' /\ k \in writeset[p]
                 /\ \A q \in Added' : k \in writeset[q] => uniqueId'[q] <= uniqueId'[p]
    <3>1. lastExcl'[k] = IF k \in writeset[t] THEN t ELSE lastExcl[k]
      BY <2>1 DEF LastExclAfter
    <3>2. CASE k \in writeset[t]
      BY <1>1, <1>2, <2>1, <2>2, <2>3, <3>1, <3>2
    <3>3. CASE k \notin writeset[t]
      BY <1>1, <1>2, <2>1, <2>2, <3>1, <3>3 DEF LastExclExact
    <3> QED
      BY <3>2, <3>3
  <2>6. ASSUME NEW k \in Keys, NEW r \in Txns
        PROVE  r \in sharedHolders'[k] <=>
                 /\ r \in Added' /\ k \in readset[r]
                 /\ \A q \in Added' : k \in writeset[q] => ~Earlier(r, q)'
    <3>1. sharedHolders'[k] = (IF k \in writeset[t] THEN {} ELSE sharedHolders[k])
                                 \cup {u \in {t} : k \in readset[t]}
      BY <2>1 DEF HoldersAfter
    <3>2. CASE r = t
      <4>1. t \notin sharedHolders[k]
        BY <2>1 DEF HoldersExact
      <4> QED
        BY <2>2, <2>3, <2>4, <3>1, <3>2, <4>1
    <3>3. CASE r # t
      <4>1. CASE k \in writeset[t]
        BY <2>2, <2>3, <3>1, <3>3, <4>1
      <4>2. CASE k \notin writeset[t]
        BY <1>3, <2>2, <3>1, <3>3, <4>2 DEF HoldersExact
      <4> QED
        BY <4>1, <4>2
    <3> QED
      BY <3>2, <3>3
  <2>7. LastExclExact'
    BY <2>5 DEF LastExclExact
  <2>8. HoldersExact'
    BY <2>6 DEF HoldersExact
  <2> QED
    BY <2>7, <2>8
<1> QED
  BY <1>4, <1>5

\* What the steps do to the records, the reads and the votes.
LEMMA DataEffect ==
  ASSUME Inv, [Next]_vars
  PROVE  /\ \/ storage' = storage
            \/ \E w \in Executors : \E k \in Keys :
                  /\ pc[w] = "apply" /\ k \in todo[w] /\ UNCHANGED status
                  /\ storage' = [storage EXCEPT ![k] = cur[w]]
         /\ \/ reads' = reads
            \/ \E w \in Executors : \E k \in Keys :
                  /\ pc[w] \in {"readset", "writeset"} /\ k \in todo[w]
                  /\ reads' = [reads EXCEPT ![cur[w]][k] = storage[k]]
         /\ \A t \in Txns : status[t] # "INCOMPLETE" => status'[t] # "INCOMPLETE"
<1>0. TypeOK /\ ThreadPhase /\ NewAreUntouched /\ OnePlace /\ IndegreeCountsPending
  BY DEF Inv
<1> USE DEF dataVars
<1>1. CASE (\E t \in Txns : Submit(t)) \/ TakeResult \/ Stop \/ UNCHANGED vars
  BY <1>1 DEF Submit, NewTxnRequest, TakeResult, GetTxnResult, Stop, vars, coreVars
<1>2. CASE PopRequest \/ Lock(Main) \/ AddToDag \/ SchedulerExit
  BY <1>0, <1>2, PopRequestEffect, LockEffect, AddEffect, Constants DEF SchedulerExit, Exit
<1>3. ASSUME NEW w \in Executors, Executor(w), ~ExecuteAndDecide(w)
      PROVE  UNCHANGED dataVars
  <2>1. w \in Threads
    BY Constants
  <2>2. CASE Lock(w)
    BY <1>0, <2>1, <2>2, LockEffect
  <2> QED
    BY <1>0, <1>3, <2>2, PopReadyEffect, UnblockEffect, ReturnEffect
    DEF Executor, ExecutorExit, Exit
<1>4. ASSUME NEW w \in Executors, ExecuteAndDecide(w)
      PROVE  /\ \/ storage' = storage
                \/ \E k \in Keys :
                     /\ pc[w] = "apply" /\ k \in todo[w] /\ UNCHANGED status
                     /\ storage' = [storage EXCEPT ![k] = cur[w]]
             /\ \/ reads' = reads
                \/ \E k \in Keys :
                     /\ pc[w] \in {"readset", "writeset"} /\ k \in todo[w]
                     /\ reads' = [reads EXCEPT ![cur[w]][k] = storage[k]]
  BY <1>4 DEF ExecuteAndDecide, Execution, ReadRecord, EndReadset, Run, StartApply, ApplyWrite,
              Commit, Abort, NextKey
<1>5. ASSUME NEW w \in Executors, Executor(w)
      PROVE  \A t \in Txns : status[t] # "INCOMPLETE" => status'[t] # "INCOMPLETE"
  BY <1>5, ExecutorFrame
<1> QED
  BY <1>1, <1>2, <1>3, <1>4, <1>5, Zenon DEF Next, Scheduler, Terminating

\* A new transaction gets its edges, and none is taken away.
LEMMA EdgesStep ==
  ASSUME Inv, LastExclExact, HoldersExact, EdgesKept, [Next]_vars
  PROVE  EdgesKept'
<1>0. TypeOK /\ ThreadPhase /\ NewAreUntouched /\ OnePlace /\ IdsInOrder
  BY DEF Inv
<1>1. /\ Added \subseteq Txns
      /\ \A t \in Added : uniqueId'[t] = uniqueId[t] /\ uniqueId[t] > 0
      /\ AddToDag => Added' = Added \cup {cur[Main]}
      /\ ~AddToDag => Added' = Added
  BY AddedStep
<1>2. \A p, q \in Added : Earlier(p, q)' <=> Earlier(p, q)
  BY AddedOrder
<1>3. \A t \in Txns : status'[t] = "INCOMPLETE" => status[t] = "INCOMPLETE"
  BY DataEffect
<1>4. Added \subseteq Added'
  BY <1>1
<1>5. ASSUME NEW p \in Added, NEW t \in Added, NEW k \in Keys,
             ConflictsOn(p, t, k)', status'[p] = "INCOMPLETE"
      PROVE  t \in adjList[p]
  <2>1. ConflictsOn(p, t, k)
    BY <1>2, <1>4, <1>5 DEF ConflictsOn
  <2> QED
    BY <1>1, <1>3, <1>5, <2>1 DEF EdgesKept
<1>6. CASE ~AddToDag
  <2>1. UNCHANGED adjList
    BY <1>6, DagFrame
  <2> QED
    BY <1>1, <1>5, <1>6, <2>1 DEF EdgesKept
<1>7. CASE AddToDag
  <2> PICK n \in Txns : n = cur[Main]
    BY <1>0, <1>7, AddEffect
  <2>1. Added' = Added \cup {n} /\ n \notin Added /\ UNCHANGED <<uniqueId, cur>>
    BY <1>0, <1>1, <1>7, AddEffect DEF clientSide, clientVars
  <2>2. PICK preds \in SUBSET Txns :
          /\ Predecessors(preds, n)
          /\ \A p \in Txns : adjList'[p] = adjList[p] \cup {u \in {n} : p \in preds}
    BY <1>0, <1>7, AddEffect
  <2>3. \A p \in Added : Earlier(p, n)' /\ ~Earlier(n, p)' /\ Earlier(p, n)
    <3>1. \A p \in Added : Earlier(p, cur[Main])' /\ ~Earlier(cur[Main], p)
      BY <1>7, AddedOrder
    <3> QED
      BY <2>1, <3>1 DEF Earlier
  <2>4. ~Earlier(n, n)'
    BY <1>0, <2>1, Types DEF Earlier
  <2>5. ASSUME NEW p \in Added, NEW k \in Keys, ConflictsOn(p, n, k)', status'[p] = "INCOMPLETE"
        PROVE  n \in adjList'[p]
    <3>1. \A q \in Added : k \in writeset[q] => ~Earlier(p, q)
      BY <1>2, <1>4, <2>3, <2>5 DEF ConflictsOn
    <3>2. p \in Conflicting(n)
      <4>1. CASE k \in readset[p] /\ k \in writeset[n]
        <5>1. p \in sharedHolders[k]
          BY <1>1, <3>1, <4>1 DEF HoldersExact
        <5> QED
          BY <4>1, <5>1 DEF Conflicting
      <4>2. CASE k \in writeset[p] /\ k \in readset[n] /\ k \notin writeset[n]
        <5>1. \A q \in Added : k \in writeset[q] => uniqueId[q] <= uniqueId[p]
          BY <1>0, <1>1, <3>1, Types DEF Earlier
        <5>2. lastExcl[k] = p /\ p # NoTxn
          BY <1>1, <4>2, <5>1, Constants DEF LastExclExact
        <5> QED
          BY <4>2, <5>2 DEF Conflicting
      <4> QED
        BY <2>5, <4>1, <4>2 DEF ConflictsOn
    <3>3. p \in preds
      BY <1>1, <1>3, <2>2, <2>5, <3>2 DEF Predecessors
    <3> QED
      BY <1>1, <2>2, <3>3
  <2>6. ASSUME NEW p \in Added', NEW t \in Added', NEW k \in Keys,
               ConflictsOn(p, t, k)', status'[p] = "INCOMPLETE"
        PROVE  t \in adjList'[p]
    <3>1. p # n
      BY <2>1, <2>3, <2>4, <2>6 DEF ConflictsOn
    <3>2. CASE t = n
      BY <2>1, <2>5, <2>6, <3>1, <3>2
    <3>3. CASE t # n
      <4>1. p \in Added /\ t \in Added
        BY <2>1, <3>1, <3>3
      <4>2. t \in adjList[p]
        BY <1>5, <2>6, <4>1
      <4> QED
        BY <1>1, <2>2, <4>1, <4>2
    <3> QED
      BY <3>2, <3>3
  <2> QED
    BY <2>6 DEF EdgesKept
<1> QED
  BY <1>6, <1>7

\* Only a voter to commit installs writes.
LEMMA StorageStep ==
  ASSUME Inv, StorageVoted, [Next]_vars
  PROVE  StorageVoted'
<1>0. TypeOK /\ ThreadPhase
  BY DEF Inv
<1>1. storage \in [Keys -> Values] /\ Values = Txns \cup {NoTxn}
  BY <1>0, Types, Constants
<1>2. \A t \in Txns : status[t] # "INCOMPLETE" => status'[t] # "INCOMPLETE"
  BY DataEffect
<1>3. CASE storage' = storage
  BY <1>1, <1>2, <1>3 DEF StorageVoted
<1>4. ASSUME NEW w \in Executors, NEW k \in Keys, pc[w] = "apply", k \in todo[w],
             UNCHANGED status, storage' = [storage EXCEPT ![k] = cur[w]]
      PROVE  StorageVoted'
  <2>1. k \in writeset[cur[w]] /\ status[cur[w]] = "COMPLETED_C"
    BY <1>0, <1>4 DEF ThreadPhase
  <2>2. storage'[k] = cur[w] /\ \A j \in Keys : j # k => storage'[j] = storage[j]
    BY <1>1, <1>4
  <2> QED
    BY <1>4, <2>1, <2>2 DEF StorageVoted
<1> QED
  BY <1>3, <1>4, DataEffect

\* Under a key with readers between its writers, no later writer is handed over
\* before a transaction that accesses the key has voted: of those between the
\* two, the youngest that has not voted has an edge to a younger one.
LEMMA NoOvertaking ==
  ASSUME Inv, EdgesKept, NEW k \in Keys, WritersSeparated(k),
         NEW a \in Added, status[a] = "INCOMPLETE", k \in Accesses(a),
         NEW v \in Added, k \in writeset[v], Earlier(a, v)
  PROVE  ~HandedOver(v)
<1> SUFFICES ASSUME HandedOver(v) PROVE FALSE
  OBVIOUS
<1>0. TypeOK /\ NewAreUntouched /\ OnePlace /\ IdsInOrder
  BY DEF Inv
<1>1. /\ uniqueId \in [Txns -> Nat] /\ nextUniqueId \in Nat
      /\ \A t \in Txns : uniqueId[t] < nextUniqueId
  BY <1>0, Types DEF IdsInOrder
<1>2. Added \subseteq Txns /\ \A t \in Added : uniqueId[t] > 0
  BY <1>1 DEF Added
<1>3. ASSUME NEW x \in Added, NEW n \in Added, n \in adjList[x], status[x] = "INCOMPLETE"
      PROVE  ~HandedOver(n) /\ status[n] = "INCOMPLETE"
  <2>1. ~HandedOver(n)
    BY <1>2, <1>3, PredecessorsAreDecided DEF PredecessorsDecided, Decided
  <2> QED
    BY <1>0, <1>2, <2>1, HandedOverIs DEF OnePlace
<1> DEFINE X == {x \in Added : /\ status[x] = "INCOMPLETE" /\ k \in Accesses(x)
                               /\ uniqueId[a] <= uniqueId[x] /\ uniqueId[x] < uniqueId[v]}
<1>4. a \in X /\ X \in SUBSET Txns
  BY <1>1, <1>2 DEF Earlier
<1>5. PICK x \in X : \A y \in X : uniqueId[y] <= uniqueId[x]
  <2> HIDE DEF X
  <2>1. \A y \in X : uniqueId[y] <= nextUniqueId
    BY <1>1, <1>4
  <2> QED
    BY <1>1, <1>4, <2>1, Youngest
<1>6. /\ x \in Added /\ status[x] = "INCOMPLETE" /\ k \in Accesses(x)
      /\ uniqueId[a] <= uniqueId[x] /\ Earlier(x, v)
  BY <1>2, <1>5 DEF Earlier
\* Nobody that x has an edge to may lie before v.
<1>7. ASSUME NEW n \in Added, n \in adjList[x], k \in Accesses(n), Earlier(x, n),
             uniqueId[n] <= uniqueId[v]
      PROVE  FALSE
  <2>1. ~HandedOver(n) /\ status[n] = "INCOMPLETE"
    BY <1>3, <1>6, <1>7
  <2>2. n # v
    BY <2>1
  <2>3. uniqueId[n] < uniqueId[v]
    BY <1>0, <1>1, <1>2, <1>7, <2>2 DEF IdsInOrder
  <2>4. n \in X
    BY <1>1, <1>2, <1>6, <1>7, <2>1, <2>3 DEF Earlier
  <2> QED
    BY <1>1, <1>2, <1>5, <1>6, <1>7, <2>4 DEF Earlier
<1> HIDE DEF X
<1>8. CASE k \in readset[x]
  <2> DEFINE N == {n \in Added : k \in writeset[n] /\ Earlier(x, n)}
  <2>1. v \in N /\ N \in SUBSET Txns
    BY <1>2, <1>6
  <2>2. PICK n \in N : \A m \in N : uniqueId[n] <= uniqueId[m]
    <3> HIDE DEF N
    <3> QED
      BY <1>1, <2>1, Oldest
  <2>3. ~ \E q \in Added : k \in writeset[q] /\ Earlier(x, q) /\ Earlier(q, n)
    BY <1>1, <1>2, <2>2 DEF Earlier
  <2>4. n \in adjList[x]
    BY <1>6, <1>8, <2>2, <2>3 DEF EdgesKept, ConflictsOn
  <2>5. uniqueId[n] <= uniqueId[v]
    BY <2>1, <2>2
  <2> QED
    BY <1>7, <2>2, <2>4, <2>5 DEF Accesses
<1>9. CASE k \notin readset[x]
  <2>1. k \in writeset[x]
    BY <1>6, <1>9 DEF Accesses
  <2> DEFINE R == {r \in Added : k \in readset[r] /\ Earlier(x, r)}
  \* The readers between x and another transaction of the DAG are in it too.
  <2>2. ASSUME NEW q \in Added, k \in writeset[q], Earlier(x, q)
        PROVE  \E r \in R : Earlier(r, q)
    <3>1. PICK r \in Txns : k \in readset[r] /\ Earlier(x, r) /\ Earlier(r, q)
      BY <1>2, <1>6, <2>1, <2>2 DEF WritersSeparated
    <3>2. r \notin Waiting
      BY <1>0, <1>1, <1>2, <2>2, <3>1 DEF IdsInOrder, Before, Earlier
    <3>3. r \in Added
      BY <3>1, <3>2 DEF Added, Earlier
    <3> QED
      BY <3>1, <3>3
  <2>3. R # {} /\ R \in SUBSET Txns
    BY <1>2, <1>6, <2>2
  <2>4. PICK r \in R : \A m \in R : uniqueId[r] <= uniqueId[m]
    <3> HIDE DEF R
    <3> QED
      BY <1>1, <2>3, Oldest
  <2>5. r \in Added /\ k \in readset[r] /\ Earlier(x, r)
    BY <2>4
  <2>6. ASSUME NEW q \in Added, k \in writeset[q], Earlier(x, q), uniqueId[q] <= uniqueId[r]
        PROVE  FALSE
    <3>1. PICK s \in R : Earlier(s, q)
      BY <2>2, <2>6
    <3> QED
      BY <1>1, <1>2, <2>4, <2>5, <2>6, <3>1 DEF Earlier
  <2>7. ConflictsOn(x, r, k)
    BY <1>1, <1>2, <2>1, <2>5, <2>6 DEF ConflictsOn, Earlier
  <2>8. r \in adjList[x]
    BY <1>6, <2>5, <2>7 DEF EdgesKept
  <2>9. uniqueId[r] <= uniqueId[v]
    <3>1. PICK s \in R : Earlier(s, v)
      BY <1>6, <2>2
    <3> QED
      BY <1>1, <1>2, <2>4, <2>5, <3>1 DEF Earlier
  <2> QED
    BY <1>7, <2>5, <2>8, <2>9 DEF Accesses
<1> QED
  BY <1>8, <1>9

\* So it reads nothing from the future, at none of its two reads of a key.
LEMMA ReadsStep ==
  ASSUME Inv, EdgesKept, StorageVoted, NothingReadFromTheFuture, [Next]_vars
  PROVE  NothingReadFromTheFuture'
<1> SUFFICES ASSUME NEW k \in Keys, WritersSeparated(k)', NEW t \in Txns, reads'[t][k] \in Txns
             PROVE  Earlier(reads[t][k], t)'
  BY DEF NothingReadFromTheFuture
<1>0. TypeOK /\ ThreadPhase /\ NewAreUntouched /\ OnePlace /\ IdsInOrder
  BY DEF Inv
<1>1. /\ uniqueId \in [Txns -> Nat] /\ reads \in [Txns -> [Keys -> Values \cup {Unread}]]
      /\ cur \in [Threads -> Values]
  BY <1>0, Types
<1>2. WritersSeparated(k)
  <2> SUFFICES ASSUME NEW p \in Txns, NEW q \in Txns, k \in writeset[p], k \in writeset[q],
                      Earlier(p, q)
               PROVE  \E r \in Txns : k \in readset[r] /\ Earlier(p, r) /\ Earlier(r, q)
    BY DEF WritersSeparated
  <2>1. Earlier(p, q)'
    BY EarlierStep
  <2>2. PICK r \in Txns : k \in readset[r] /\ Earlier(p, r)' /\ Earlier(r, q)'
    BY <2>1 DEF WritersSeparated
  <2>3. Earlier(r, q)
    BY <1>1, <2>2, EarlierStep DEF Earlier
  <2>4. Earlier(p, r)
    BY <2>2, <2>3, EarlierStep DEF Earlier
  <2> QED
    BY <2>2, <2>3, <2>4
<1>3. CASE reads'[t][k] = reads[t][k]
  <2>1. Earlier(reads[t][k], t)
    BY <1>2, <1>3 DEF NothingReadFromTheFuture
  <2> PICK v \in Txns : v = reads[t][k] /\ v = reads'[t][k]
    BY <1>3
  <2>2. Earlier(v, t)'
    BY <2>1, EarlierStep
  <2> QED
    BY <2>2 DEF Earlier
<1>4. ASSUME NEW w \in Executors, NEW j \in Keys, pc[w] \in {"readset", "writeset"}, j \in todo[w],
             reads' = [reads EXCEPT ![cur[w]][j] = storage[j]],
             reads'[t][k] # reads[t][k]
      PROVE  Earlier(reads[t][k], t)'
  <2>1. w \in Threads
    BY Constants
  <2>2. t = cur[w] /\ j = k /\ reads'[t][k] = storage[k]
    <3>1. cur[w] \in Txns
      BY <1>0, <1>4, <2>1, HolderHolds
    <3> QED
      BY <1>1, <1>4, <3>1
  <2>3. PICK v \in Txns : v = storage[k] /\ v = reads'[t][k]
    BY <2>2
  <2>4. k \in writeset[v] /\ status[v] # "INCOMPLETE"
    BY <2>3, Constants DEF StorageVoted
  <2>5. status[t] = "INCOMPLETE" /\ k \in Accesses(t) /\ Held(t)
    BY <1>0, <1>4, <2>2 DEF ThreadPhase, Accesses, Held, Holds
  <2>6. t \in Added /\ v \in Added /\ t # v
    BY <1>0, <2>4, <2>5 DEF NewAreUntouched
  <2>7. HandedOver(v)
    BY <1>0, <2>4, HandedOverIs DEF OnePlace
  <2>8. ~Earlier(t, v)
    BY <1>2, <2>4, <2>5, <2>6, <2>7, NoOvertaking
  <2>9. Earlier(v, t)
    BY <2>6, <2>8, AddedOrder
  <2>10. Earlier(v, t)'
    BY <2>9, EarlierStep
  <2> QED
    BY <2>3, <2>10 DEF Earlier
<1> QED
  BY <1>3, <1>4, DataEffect

LEMMA OrderInit == Init => OrderInv
<1> SUFFICES ASSUME Init PROVE OrderInv
  OBVIOUS
<1> USE Constants
<1>1. /\ uniqueId = [t \in Txns |-> 0] /\ txnRequests = <<>>
      /\ reads = [t \in Txns |-> [k \in Keys |-> Unread]] /\ storage = [k \in Keys |-> NoTxn]
      /\ sharedHolders = [k \in Keys |-> {}] /\ lastExcl = [k \in Keys |-> NoTxn]
  BY Zenon DEF Init, ContInit, CoreInit
<1>2. Added = {}
  BY <1>1 DEF Added
<1> QED
  BY <1>1, <1>2 DEF OrderInv, LastExclExact, HoldersExact, EdgesKept, StorageVoted,
                    NothingReadFromTheFuture

LEMMA OrderStep == Inv /\ OrderInv /\ [Next]_vars => OrderInv'
  BY MapsStep, EdgesStep, StorageStep, ReadsStep DEF OrderInv

\* The maps, the edges and the storage are what the DAG is about.
THEOREM OrderInvariant == Spec => [](Inv /\ OrderInv)
  BY InvInit, InvStep, OrderInit, OrderStep, PTL DEF Spec

\* Although edges are left out, a transaction never reads what a later one
\* writes, under the keys whose writers have readers between them.
THEOREM NoReadFromTheFuture == Spec => []NothingReadFromTheFuture
<1>1. OrderInv => NothingReadFromTheFuture
  BY DEF OrderInv
<1> QED
  BY <1>1, OrderInvariant, PTL
=============================================================================
