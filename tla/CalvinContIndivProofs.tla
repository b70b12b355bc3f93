------------------------- MODULE CalvinContIndivProofs -------------------------
(***************************************************************************)
(* Proofs about CalvinContIndiv for every set of transactions, keys and    *)
(* executors, every read and write set, and whether or not the destructor  *)
(* runs.  First the inductive invariant Inv, which says where a            *)
(* transaction may be and what is still to be counted down from its        *)
(* indegree while the scan goes on; then which conflicts the scan has      *)
(* dealt with; then what the executors find in the storage.                *)
(***************************************************************************)
EXTENDS CalvinContIndiv, QueueLemmas

-----------------------------------------------------------------------------
(* The inductive invariant. *)

Queued == Elements(txnRequests)

\* The transactions whose scan is over: they have entered the DAG.
Added == {t \in Txns : uniqueId[t] > 0 /\ t \notin Queued /\ cur[Main] # t}

Held(t) == \E w \in Executors : Holds(w, t)

\* What a thread's program counter says of its transaction, of its loop and of
\* the mutexes.
ThreadPhase ==
    /\ pc[Main] \in {"idle", "scanWrites", "scanReads", "exited"}
    /\ \A w \in Threads : cur[w] = NoTxn <=> pc[w] \in {"idle", "exited"}
    /\ pc[Main] = "scanWrites" => todo[Main] \subseteq writeset[cur[Main]]
    /\ pc[Main] = "scanReads" => todo[Main] \subseteq readset[cur[Main]]
    /\ indegreeMutex = {t \in Txns : cur[Main] = t}
    /\ neighborsMutex = {t \in Txns : \E w \in Executors : cur[w] = t /\ pc[w] \in {"unblock", "unlock"}}
    /\ targets \subseteq Added
    /\ pc[Main] \in {"idle", "exited"} => targets = {}
    /\ \A w \in Executors :
          /\ pc[w] \notin {"scanWrites", "scanReads"}
          /\ pc[w] = "readset" => todo[w] \subseteq readset[cur[w]]
          /\ pc[w] \in {"writeset", "apply"} => todo[w] \subseteq writeset[cur[w]]
          /\ pc[w] = "unblock" => todo[w] \subseteq neighbors[cur[w]]
          /\ pc[w] \in {"readset", "writeset"} => status[cur[w]] = "INCOMPLETE"
          /\ pc[w] = "decide" => status[cur[w]] \in {"COMPLETED_C", "COMPLETED_A"}
          /\ pc[w] = "apply" => status[cur[w]] = "COMPLETED_C"
          /\ pc[w] \in {"lock", "unblock", "unlock"} => Decided(cur[w])

\* Ids are given out in the order of the queue, from which the scheduler takes
\* the oldest.
IdsInOrder ==
    /\ \A t \in Txns : uniqueId[t] < nextUniqueId
    /\ \A p, t \in Txns : uniqueId[p] = uniqueId[t] /\ uniqueId[p] > 0 => p = t
    /\ \A t \in Txns : t \in Queued \/ cur[Main] = t => uniqueId[t] > 0
    /\ Increasing(txnRequests, uniqueId)
    /\ \A t \in Txns : cur[Main] = t => Before({t}, Queued, uniqueId)
    /\ \A p \in Added, t \in Txns : t \in Queued \/ cur[Main] = t => uniqueId[p] < uniqueId[t]

\* Before the end of its scan nobody but the scheduler has a transaction, and
\* before the scan begins nobody points to it.
NewAreUntouched ==
    \A t \in Txns \ Added :
        /\ status[t] = "INCOMPLETE" /\ neighbors[t] = {}
        /\ t \notin Elements(readyTxns) /\ ~Held(t)
        /\ t \notin Elements(txnResults) /\ t \notin returned
        /\ cur[Main] # t =>
             /\ indegree[t] = 0
             /\ \A p \in Txns : t \notin neighbors[p]
             /\ \A k \in Keys : t \notin sharedHolders[k] /\ lastExcl[k] # t

\* Afterwards it is blocked, ready, held by one executor, in the queue of
\* results or returned; its executor still has its mutex when it pushes it.
OnePlace ==
    /\ Distinct(readyTxns) /\ Distinct(txnResults)
    /\ \A v, w \in Executors : cur[v] = cur[w] /\ cur[v] # NoTxn => v = w
    /\ \A t \in Elements(readyTxns) : status[t] = "INCOMPLETE" /\ ~Held(t)
    /\ \A t \in Txns : indegree[t] > 0 => ~HandedOver(t)
    /\ \A t \in Added : indegree[t] = 0 => HandedOver(t)
    /\ \A t \in Txns : status[t] # "INCOMPLETE" => Held(t) \/ Decided(t)
    /\ \A t \in Txns : Decided(t) => Held(t) \/ t \in Elements(txnResults) \cup returned
    /\ \A t \in Elements(txnResults) \cup returned : Decided(t)
    /\ \A w \in Executors : cur[w] \in Txns =>
          (pc[w] = "unlock" <=> cur[w] \in Elements(txnResults) \cup returned)
    /\ Elements(txnResults) \cap returned = {}

Inv ==
    /\ TypeOK
    /\ ThreadPhase
    /\ IdsInOrder
    /\ NewAreUntouched
    /\ OnePlace
    /\ IndegreeCountsPending

-----------------------------------------------------------------------------
(* Which conflicts the scan has dealt with. *)

\* The scan has come to k in its loop over the keys t writes, or reads.
WriteScanned(t, k) ==
    /\ k \in writeset[t]
    /\ t \in Added \/ (cur[Main] = t /\ (pc[Main] = "scanReads" \/ k \notin todo[Main]))
ReadScanned(t, k) ==
    /\ k \in readset[t]
    /\ t \in Added \/ (cur[Main] = t /\ pc[Main] = "scanReads" /\ k \notin todo[Main])

\* last_excl is the last writer of each key that has been scanned.
LastExclExact ==
    \A k \in Keys, p \in Txns :
        lastExcl[k] = p <=>
            /\ WriteScanned(p, k)
            /\ \A q \in Txns : WriteScanned(q, k) => uniqueId[q] <= uniqueId[p]

\* shared_holders are its readers since then, the last writer among them if it
\* reads the key too; a key once read stays in the map.
HoldersExact ==
    /\ \A k \in Keys, r \in Txns :
        r \in sharedHolders[k] <=>
            /\ ReadScanned(r, k)
            /\ \A q \in Txns : WriteScanned(q, k) => ~Earlier(r, q)
    /\ \A k \in Keys : k \in sharedKeys <=> \E r \in Txns : ReadScanned(r, k)

\* The conflicts of t that the scheduler looks for: the readers since the last
\* writer of a key t writes, that writer if nobody has ever read the key, and
\* the last writer of a key t only reads.
ConflictsOn(p, t, k) ==
    /\ Earlier(p, t)
    /\ ~ \E q \in Writers(k) : Earlier(p, q) /\ Earlier(q, t)
    /\ \/ k \in readset[p] /\ k \in writeset[t]
       \/ k \in writeset[p] /\ k \in writeset[t] /\ ~ \E r \in Readers(k) : Earlier(r, t)
       \/ k \in writeset[p] /\ k \in readset[t] /\ k \notin writeset[t]

\* The scheduler has dealt with the conflict of p and t on k.
Visited(p, t, k) ==
    \/ t \in Added
    \/ /\ cur[Main] = t /\ p \notin targets
       /\ WriteScanned(t, k) \/ (k \notin writeset[t] /\ ReadScanned(t, k))

\* A conflict dealt with has its edge, or needs none: the first is decided.
ConflictsHandled ==
    \A p, t \in Txns, k \in Keys :
        ConflictsOn(p, t, k) /\ Visited(p, t, k) => t \in neighbors[p] \/ Decided(p)

ScanInv ==
    /\ LastExclExact
    /\ HoldersExact
    /\ ConflictsHandled

-----------------------------------------------------------------------------
(* What is in the storage. *)

\* p's write of k is in the storage, or has been overwritten there.
Installed(p, k) ==
    \/ status[p] = "COMMITTED"
    \/ \E w \in Executors : cur[w] = p /\ pc[w] = "apply" /\ k \notin todo[w]

\* The storage has the youngest installed write.
StorageIsLast ==
    \A k \in Keys : WritersOrdered(k) =>
       /\ storage[k] # NoTxn => k \in writeset[storage[k]] /\ Installed(storage[k], k)
       /\ \A p \in Txns : k \in writeset[p] /\ Installed(p, k) =>
            storage[k] # NoTxn /\ uniqueId[p] <= uniqueId[storage[k]]

\* p is a committed writer of k before t, and v the last one, or NoTxn.
CommittedBefore(p, t, k) == k \in writeset[p] /\ Earlier(p, t) /\ status[p] = "COMMITTED"
LastBefore(v, t, k) ==
    /\ v # NoTxn => v \in Txns /\ CommittedBefore(v, t, k)
    /\ \A p \in Txns : CommittedBefore(p, t, k) => v # NoTxn /\ uniqueId[p] <= uniqueId[v]

\* t has read k for the last time.
HasRead(t, k) ==
    \/ status[t] # "INCOMPLETE"
    \/ \E w \in Executors : /\ cur[w] = t /\ k \notin todo[w]
                            /\ (pc[w] = "readset" /\ k \in readset[t]) \/ pc[w] = "writeset"

ReadsAreLast ==
    \A k \in Keys : WritersOrdered(k) =>
       \A t \in Txns : k \in Accesses(t) /\ HasRead(t, k) => LastBefore(reads[t][k], t, k)

SerialInv == StorageIsLast /\ ReadsAreLast

-----------------------------------------------------------------------------
(* Type correctness. *)

Pcs == {"idle", "scanWrites", "scanReads", "readset", "writeset", "decide", "apply",
        "lock", "unblock", "unlock", "exited"}

ScanTypeOK ==
    /\ sharedKeys \subseteq Keys
    /\ targets \subseteq Txns
    /\ neighbors \in [Txns -> SUBSET Txns]
    /\ neighborsMutex \subseteq Txns
    /\ indegreeMutex \subseteq Txns

\* The types, one variable at a time.
LEMMA Types ==
  ASSUME TypeOK
  PROVE  /\ nextUniqueId \in Nat \ {0} /\ uniqueId \in [Txns -> Nat]
         /\ txnRequests \in Seq(Txns) /\ txnResults \in Seq(Txns) /\ returned \subseteq Txns
         /\ status \in [Txns -> TxnStatus] /\ reads \in [Txns -> [Keys -> Values \cup {Unread}]]
         /\ storage \in [Keys -> Values]
         /\ completedTxns \in Seq(Txns) /\ committedTxns \in Seq(Txns)
         /\ pc \in [Threads -> Pcs] /\ cur \in [Threads -> Values]
         /\ todo \in [Threads -> SUBSET (Keys \cup Txns)]
         /\ stopped \in BOOLEAN
         /\ sharedHolders \in [Keys -> SUBSET Txns] /\ lastExcl \in [Keys -> Values]
         /\ indegree \in [Txns -> Nat] /\ readyTxns \in Seq(Txns)
         /\ sharedKeys \subseteq Keys /\ targets \subseteq Txns
         /\ neighbors \in [Txns -> SUBSET Txns]
         /\ neighborsMutex \subseteq Txns /\ indegreeMutex \subseteq Txns
         /\ Elements(txnRequests) \subseteq Txns /\ Elements(readyTxns) \subseteq Txns
         /\ Elements(txnResults) \subseteq Txns
  BY ElementsType DEF TypeOK, CoreTypeOK, ClientTypeOK, DataTypeOK, ThreadTypeOK, ContTypeOK, Pcs

\* And those of the constants.
LEMMA Constants ==
  /\ IsFiniteSet(Txns) /\ NoTxn \notin Txns /\ Unread \notin Txns /\ Unread # NoTxn
  /\ readset \in [Txns -> SUBSET Keys] /\ writeset \in [Txns -> SUBSET Keys]
  /\ Main \in Threads /\ Main \notin Executors /\ Executors \subseteq Threads
  /\ Threads = Executors \cup {Main}
  /\ Values = Txns \cup {NoTxn} /\ MayAbort \subseteq Txns
  BY CoreAssumption, ContAssumption DEF Executors, Values

\* The types of a group of variables at a time.
LEMMA TypeParts ==
  TypeOK <=> /\ ClientTypeOK /\ DataTypeOK /\ ThreadTypeOK /\ pc \in [Threads -> Pcs]
             /\ ContTypeOK /\ ScanTypeOK
  BY Zenon DEF TypeOK, CoreTypeOK, Pcs, ScanTypeOK

LEMMA TypePartsNext ==
  TypeOK' <=> /\ ClientTypeOK' /\ DataTypeOK' /\ ThreadTypeOK' /\ (pc \in [Threads -> Pcs])'
              /\ ContTypeOK' /\ ScanTypeOK'
<1>1. (TypeOK <=> /\ ClientTypeOK /\ DataTypeOK /\ ThreadTypeOK /\ pc \in [Threads -> Pcs]
                  /\ ContTypeOK /\ ScanTypeOK)'
  BY TypeParts, PTL
<1> QED
  BY <1>1

\* The initial state has the declared types.
LEMMA TypeInit == Init => TypeOK
<1> SUFFICES ASSUME Init PROVE TypeOK
  OBVIOUS
<1> USE Constants DEF Init, ContInit, CoreInit
<1>1. ClientTypeOK
  BY DEF ClientTypeOK
<1>2. DataTypeOK
  BY DEF DataTypeOK, TxnStatus
<1>3. ThreadTypeOK /\ pc \in [Threads -> Pcs]
  BY DEF ThreadTypeOK, Pcs
<1>4. ContTypeOK
  <2>1. stopped \in BOOLEAN
    BY Zenon
  <2>2. /\ sharedHolders \in [Keys -> SUBSET Txns] /\ lastExcl \in [Keys -> Values]
        /\ indegree \in [Txns -> Nat] /\ readyTxns \in Seq(Txns)
    OBVIOUS
  <2> QED
    BY <2>1, <2>2, Zenon DEF ContTypeOK
<1>5. ScanTypeOK
  BY DEF ScanTypeOK
<1> HIDE DEF Init, ContInit, CoreInit
<1> QED
  BY <1>1, <1>2, <1>3, <1>4, <1>5, TypeParts

\* A thread that is not idle holds a transaction.
LEMMA HolderHolds ==
  ASSUME TypeOK, ThreadPhase, NEW w \in Threads, pc[w] \notin {"idle", "exited"}
  PROVE  cur[w] \in Txns
  BY Types, Constants DEF ThreadPhase

\* The parts of TypeOK a step leaves alone.
LEMMA TypeFrame ==
  ASSUME TypeOK
  PROVE  /\ UNCHANGED clientSide => ClientTypeOK'
         /\ UNCHANGED dataVars => DataTypeOK'
         /\ UNCHANGED threadVars => ThreadTypeOK' /\ (pc \in [Threads -> Pcs])'
         /\ UNCHANGED <<stopped, sharedHolders, lastExcl, indegree, readyTxns>> => ContTypeOK'
         /\ UNCHANGED <<sharedKeys, targets, neighbors, mutexVars>> => ScanTypeOK'
         /\ UNCHANGED indivVars => ContTypeOK' /\ ScanTypeOK'
         /\ ClientTypeOK /\ DataTypeOK /\ ThreadTypeOK /\ ContTypeOK /\ ScanTypeOK
  BY DEF TypeOK, CoreTypeOK, ClientTypeOK, DataTypeOK, ThreadTypeOK, ContTypeOK, ScanTypeOK, Pcs,
         clientVars, clientSide, dataVars, threadVars, mutexVars, indivVars, scanVars, dagVars

\* Nothing but the executor's own transaction changes while it executes and
\* decides it.
LEMMA ExecuteEffect ==
  ASSUME TypeOK, ThreadPhase, NEW w \in Executors, ExecuteAndDecide(w)
  PROVE  /\ UNCHANGED <<clientSide, indivVars, cur>>
         /\ pc[w] \in {"readset", "writeset", "decide", "apply"}
         /\ pc'[w] \in {"readset", "writeset", "decide", "apply", "lock"}
         /\ \A v \in Threads : v # w => pc'[v] = pc[v] /\ todo'[v] = todo[v]
         /\ cur[w] \in Txns
         /\ ~Decided(cur[w])
         /\ \A t \in Txns : t # cur[w] => status'[t] = status[t]
         /\ status[cur[w]] # "INCOMPLETE" => status'[cur[w]] # "INCOMPLETE"
         /\ pc'[w] \in {"readset", "writeset"} => status'[cur[w]] = "INCOMPLETE"
         /\ pc'[w] = "decide" => status'[cur[w]] \in {"COMPLETED_C", "COMPLETED_A"}
         /\ pc'[w] = "apply" => status'[cur[w]] = "COMPLETED_C"
         /\ pc'[w] = "lock" => status'[cur[w]] \in {"COMMITTED", "ABORTED"}
         /\ pc'[w] = "readset" => todo'[w] \subseteq readset[cur[w]]
         /\ pc'[w] \in {"writeset", "apply"} => todo'[w] \subseteq writeset[cur[w]]
         /\ DataTypeOK' /\ ThreadTypeOK' /\ (pc \in [Threads -> Pcs])'
<1> USE DEF Goto
<1>0. w \in Threads
  BY Constants
<1>1. /\ pc \in [Threads -> Pcs] /\ cur \in [Threads -> Values]
      /\ todo \in [Threads -> SUBSET (Keys \cup Txns)] /\ status \in [Txns -> TxnStatus]
      /\ reads \in [Txns -> [Keys -> Values \cup {Unread}]] /\ storage \in [Keys -> Values]
      /\ completedTxns \in Seq(Txns) /\ committedTxns \in Seq(Txns)
  BY Types
<1>2. pc[w] \notin {"idle", "exited"} => cur[w] \in Txns
  BY <1>0, HolderHolds
<1>3. UNCHANGED <<clientSide, indivVars>>
  BY DEF ExecuteAndDecide
<1>4. /\ pc[w] \in {"readset", "writeset"} => status[cur[w]] = "INCOMPLETE"
      /\ pc[w] = "apply" => status[cur[w]] = "COMPLETED_C"
      /\ pc[w] = "readset" => todo[w] \subseteq readset[cur[w]]
      /\ pc[w] \in {"writeset", "apply"} => todo[w] \subseteq writeset[cur[w]]
  BY DEF ThreadPhase
<1>5. cur[w] \in Txns => readset[cur[w]] \subseteq Keys /\ writeset[cur[w]] \subseteq Keys
  BY Constants
<1> USE <1>0, <1>1, <1>2, <1>3, <1>4, <1>5 DEF DataTypeOK, ThreadTypeOK
<1>6. CASE ReadRecord(w)
  <2> PICK k \in Keys : /\ reads' = [reads EXCEPT ![cur[w]][k] = storage[k]]
                        /\ todo' = [todo EXCEPT ![w] = todo[w] \ {k}]
    BY <1>6 DEF ReadRecord
  <2> QED
    BY <1>6 DEF ReadRecord, Decided
<1>7. CASE EndReadset(w)
  BY <1>7 DEF EndReadset, Decided, dataVars, Pcs
<1>8. CASE Run(w, "decide")
  BY <1>8 DEF Run, Decided, TxnStatus, Pcs
<1>9. CASE StartApply(w)
  BY <1>9 DEF StartApply, Decided, dataVars, Pcs
<1>10. CASE ApplyWrite(w)
  <2> PICK k \in Keys : /\ storage' = [storage EXCEPT ![k] = cur[w]]
                        /\ todo' = [todo EXCEPT ![w] = todo[w] \ {k}]
    BY <1>10 DEF ApplyWrite
  <2> QED
    BY <1>10 DEF ApplyWrite, Decided, Values
<1>11. CASE Commit(w, "lock")
  BY <1>11 DEF Commit, Decided, TxnStatus, Pcs
<1>12. CASE Abort(w, "lock")
  BY <1>12 DEF Abort, Decided, TxnStatus, Pcs
<1> QED
  BY <1>6, <1>7, <1>8, <1>9, <1>10, <1>11, <1>12 DEF ExecuteAndDecide, Execution

\* The scheduler pops the oldest request and starts its scan.
LEMMA PopRequestEffect ==
  ASSUME TypeOK, ThreadPhase, PopRequest
  PROVE  LET h == Head(txnRequests)
         IN  /\ UNCHANGED <<clientVars, txnResults, dataVars, stopped, scanVars, neighborsMutex,
                            readyTxns>>
             /\ \A v \in Executors : pc'[v] = pc[v] /\ cur'[v] = cur[v] /\ todo'[v] = todo[v]
             /\ pc[Main] = "idle" /\ pc'[Main] = "scanWrites" /\ cur[Main] = NoTxn
             /\ cur'[Main] = h /\ todo'[Main] = writeset[h]
             /\ h \in Txns /\ txnRequests # <<>> /\ txnRequests' = Tail(txnRequests)
             /\ h \in Queued /\ Queued = {h} \cup Elements(txnRequests')
             /\ indegreeMutex' = indegreeMutex \cup {h}
             /\ indegree' = [indegree EXCEPT ![h] = 0]
             /\ neighbors' = [neighbors EXCEPT ![h] = {}]
             /\ TypeOK'
<1> USE Constants DEF Goto
<1> DEFINE h == Head(txnRequests)
<1>1. /\ pc \in [Threads -> Pcs] /\ cur \in [Threads -> Values] /\ txnRequests \in Seq(Txns)
      /\ todo \in [Threads -> SUBSET (Keys \cup Txns)]
      /\ indegree \in [Txns -> Nat] /\ neighbors \in [Txns -> SUBSET Txns]
      /\ indegreeMutex \subseteq Txns
  BY Types
<1>2. /\ UNCHANGED <<clientVars, txnResults, dataVars, stopped, scanVars, neighborsMutex, readyTxns>>
      /\ pc[Main] = "idle" /\ pc' = [pc EXCEPT ![Main] = "scanWrites"]
      /\ cur' = [cur EXCEPT ![Main] = h] /\ todo' = [todo EXCEPT ![Main] = writeset[h]]
      /\ txnRequests # <<>> /\ txnRequests' = Tail(txnRequests)
      /\ indegreeMutex' = indegreeMutex \cup {h}
      /\ indegree' = [indegree EXCEPT ![h] = 0]
      /\ neighbors' = [neighbors EXCEPT ![h] = {}]
  BY DEF PopRequest
<1>3. /\ h \in Txns /\ Tail(txnRequests) \in Seq(Txns)
      /\ h \in Queued /\ Queued = {h} \cup Elements(txnRequests')
  BY <1>1, <1>2, ElementsTail DEF Queued
<1>4. cur[Main] = NoTxn
  BY <1>2 DEF ThreadPhase
<1>6. TypeOK'
  <2>1. ThreadTypeOK' /\ (pc \in [Threads -> Pcs])'
    BY <1>1, <1>2, <1>3 DEF ThreadTypeOK, Pcs
  <2>2. ClientTypeOK'
    BY <1>2, <1>3, TypeFrame DEF ClientTypeOK, clientVars
  <2>3. DataTypeOK'
    BY <1>2, TypeFrame
  <2>4. ContTypeOK' /\ ScanTypeOK'
    BY <1>1, <1>2, <1>3, Types DEF scanVars, ContTypeOK, ScanTypeOK
  <2> QED
    BY <2>1, <2>2, <2>3, <2>4, TypePartsNext
<1> HIDE DEF h
<1> QED
  BY <1>1, <1>2, <1>3, <1>4, <1>6 DEF h

\* What the scan of one transaction leaves alone until its end.
ScanStep == ScanWrite \/ EndWrites \/ ScanRead \/ \E p \in Txns : TryEdge(p)

\* The keys and the maps: only ScanWrite and ScanRead move them.
LEMMA ScanEffect ==
  ASSUME TypeOK, ThreadPhase, NewAreUntouched, ScanStep
  PROVE  /\ UNCHANGED <<clientSide, dataVars, stopped, cur, mutexVars, readyTxns>>
         /\ \A v \in Executors : pc'[v] = pc[v] /\ todo'[v] = todo[v]
         /\ cur[Main] \in Txns
         /\ pc[Main] \in {"scanWrites", "scanReads"} /\ pc'[Main] \in {"scanWrites", "scanReads"}
         /\ pc'[Main] = "scanWrites" => todo'[Main] \subseteq writeset[cur[Main]]
         /\ pc'[Main] = "scanReads" => todo'[Main] \subseteq readset[cur[Main]]
         /\ targets' \subseteq Added
         /\ \A k \in Keys : /\ sharedHolders'[k] \subseteq sharedHolders[k] \cup {cur[Main]}
                            /\ lastExcl'[k] \in {lastExcl[k], cur[Main]}
         /\ (\A p \in Txns : ~TryEdge(p)) => UNCHANGED dagVars
<1> USE Constants DEF Goto
<1> PICK t : t = cur[Main]
  OBVIOUS
<1>1. /\ pc \in [Threads -> Pcs] /\ cur \in [Threads -> Values]
      /\ todo \in [Threads -> SUBSET (Keys \cup Txns)]
      /\ sharedHolders \in [Keys -> SUBSET Txns] /\ lastExcl \in [Keys -> Values]
  BY Types
<1>2. pc[Main] \in {"scanWrites", "scanReads"} => t \in Txns
  BY HolderHolds
<1>3. /\ targets \subseteq Added
      /\ pc[Main] = "scanWrites" => todo[Main] \subseteq writeset[t]
      /\ pc[Main] = "scanReads" => todo[Main] \subseteq readset[t]
      /\ pc[Main] \in {"idle", "exited"} => targets = {}
      /\ pc[Main] \in {"idle", "scanWrites", "scanReads", "exited"}
  BY DEF ThreadPhase
<1>4. \A k \in Keys : sharedHolders[k] \subseteq Added \cup {t} /\ lastExcl[k] \in Added \cup {t, NoTxn}
  <2>1. \A s \in Txns : s \notin Added /\ s # t => \A k \in Keys : s \notin sharedHolders[k] /\ lastExcl[k] # s
    BY DEF NewAreUntouched
  <2> QED
    BY <1>1, <2>1
<1>5. CASE ScanWrite
  <2>1. PICK k \in Keys :
          /\ targets' = WriteTargets(t, k)
          /\ sharedHolders' = [sharedHolders EXCEPT ![k] = {}]
          /\ lastExcl' = [lastExcl EXCEPT ![k] = t]
          /\ todo' = [todo EXCEPT ![Main] = todo[Main] \ {k}]
    BY <1>5 DEF ScanWrite
  <2>2. /\ pc[Main] = "scanWrites"
        /\ UNCHANGED <<clientSide, dataVars, pc, cur, stopped, dagVars, mutexVars, readyTxns>>
    BY <1>5 DEF ScanWrite
  <2>3. targets' \subseteq Added
    BY <1>4, <2>1 DEF WriteTargets
  <2> QED
    BY <1>1, <1>2, <1>3, <2>1, <2>2, <2>3
<1>6. CASE EndWrites
  BY <1>1, <1>2, <1>3, <1>6 DEF EndWrites, indivVars, scanVars
<1>7. CASE ScanRead
  <2>1. PICK k \in Keys :
          /\ targets' = {lastExcl[k]} \ {t, NoTxn}
          /\ sharedHolders' = [sharedHolders EXCEPT ![k] = sharedHolders[k] \cup {t}]
          /\ todo' = [todo EXCEPT ![Main] = todo[Main] \ {k}]
    BY <1>7 DEF ScanRead
  <2>2. /\ pc[Main] = "scanReads"
        /\ UNCHANGED <<clientSide, dataVars, pc, cur, stopped, lastExcl, dagVars, mutexVars, readyTxns>>
    BY <1>7 DEF ScanRead
  <2>3. targets' \subseteq Added
    BY <1>4, <2>1
  <2> QED
    BY <1>1, <1>2, <1>3, <2>1, <2>2, <2>3
<1>8. ASSUME NEW p \in Txns, TryEdge(p)
      PROVE  /\ UNCHANGED <<clientSide, dataVars, stopped, pc, cur, todo, mutexVars, readyTxns,
                            sharedHolders, lastExcl>>
             /\ p \in targets /\ targets' = targets \ {p}
  BY <1>8 DEF TryEdge, coreVars, threadVars, clientSide
<1>9. ASSUME NEW p \in Txns, TryEdge(p)
      PROVE  pc[Main] \in {"scanWrites", "scanReads"} /\ t \in Txns
  BY <1>2, <1>3, <1>8, <1>9
<1> QED
  BY <1>1, <1>2, <1>3, <1>5, <1>6, <1>7, <1>8, <1>9 DEF ScanStep

\* The scheduler may put an edge from a transaction that has still to come to
\* its neighbours.
LEMMA TryEdgeEffect ==
  ASSUME TypeOK, ThreadPhase, NEW p \in Txns, TryEdge(p)
  PROVE  LET t == cur[Main]
         IN  /\ UNCHANGED <<coreVars, stopped, sharedHolders, sharedKeys, lastExcl, mutexVars, readyTxns>>
             /\ p \in targets /\ p \in Added /\ targets' = targets \ {p} /\ t \in Txns
             /\ pc[Main] \in {"scanWrites", "scanReads"}
             /\ \/ UNCHANGED dagVars
                \/ /\ t \notin neighbors[p]
                   /\ indegree' = [indegree EXCEPT ![t] = indegree[t] + 1]
                   /\ neighbors' = [neighbors EXCEPT ![p] = neighbors[p] \cup {t}]
                   /\ Decided(p) => \E w \in Executors : cur[w] = p /\ pc[w] = "lock"
                   /\ p \notin neighborsMutex
             /\ Decided(p) \/ t \in neighbors'[p]
             /\ TypeOK'
<1> USE Constants
<1> PICK t : t = cur[Main]
  OBVIOUS
<1>1. /\ indegree \in [Txns -> Nat] /\ neighbors \in [Txns -> SUBSET Txns] /\ targets \subseteq Txns
  BY Types
<1>2. /\ UNCHANGED <<coreVars, stopped, sharedHolders, sharedKeys, lastExcl, mutexVars, readyTxns>>
      /\ p \in targets /\ targets' = targets \ {p}
  BY DEF TryEdge
<1>3. pc[Main] \in {"scanWrites", "scanReads"} /\ p \in Added
  BY <1>2 DEF ThreadPhase
<1>4. t \in Txns
  BY <1>3, HolderHolds
<1>5. p \in neighborsMutex => Decided(p)
  <2>1. p \in neighborsMutex => \E w \in Executors : cur[w] = p /\ pc[w] \in {"unblock", "unlock"}
    BY DEF ThreadPhase
  <2>2. \A w \in Executors : pc[w] \in {"unblock", "unlock"} => Decided(cur[w])
    BY DEF ThreadPhase
  <2> QED
    BY <2>1, <2>2
<1>6. /\ \/ UNCHANGED dagVars
         \/ /\ t \notin neighbors[p]
            /\ indegree' = [indegree EXCEPT ![t] = indegree[t] + 1]
            /\ neighbors' = [neighbors EXCEPT ![p] = neighbors[p] \cup {t}]
            /\ Decided(p) => \E w \in Executors : cur[w] = p /\ pc[w] = "lock"
            /\ p \notin neighborsMutex
      /\ Decided(p) \/ t \in neighbors'[p]
  <2>1. CASE p \in neighborsMutex
    BY <1>5, <2>1 DEF TryEdge
  <2>2. CASE p \notin neighborsMutex
    <3>1. PICK undecided \in BOOLEAN :
            /\ SeenUndecided(p, undecided)
            /\ IF undecided THEN AddEdge(p, t) ELSE UNCHANGED dagVars
      BY <2>2 DEF TryEdge
    <3>2. CASE undecided
      <4>1. Decided(p) => \E w \in Executors : cur[w] = p /\ pc[w] = "lock"
        BY <3>1, <3>2 DEF SeenUndecided, StatusRacy
      <4>2. AddEdge(p, t)
        BY <3>1, <3>2
      <4>3. CASE t \in neighbors[p]
        BY <4>2, <4>3 DEF AddEdge, dagVars
      <4>4. CASE t \notin neighbors[p]
        BY <1>1, <2>2, <4>1, <4>2, <4>4 DEF AddEdge
      <4> QED
        BY <4>3, <4>4
    <3>3. CASE ~undecided
      BY <3>1, <3>3 DEF SeenUndecided
    <3> QED
      BY <3>2, <3>3
  <2> QED
    BY <2>1, <2>2
<1>7. TypeOK'
  <2>1. /\ ClientTypeOK' /\ DataTypeOK' /\ ThreadTypeOK' /\ (pc \in [Threads -> Pcs])'
    BY <1>2, TypeFrame DEF coreVars, clientSide
  <2>2. indegree' \in [Txns -> Nat] /\ neighbors' \in [Txns -> SUBSET Txns]
    BY <1>1, <1>4, <1>6 DEF dagVars
  <2>3. ContTypeOK' /\ ScanTypeOK'
    BY <1>1, <1>2, <2>2, Types DEF ContTypeOK, ScanTypeOK, mutexVars
  <2> QED
    BY <2>1, <2>3, TypePartsNext
<1> QED
  BY <1>2, <1>3, <1>4, <1>6, <1>7

\* The scan ends: the transaction enters the DAG.
LEMMA EndScanEffect ==
  ASSUME TypeOK, ThreadPhase, NewAreUntouched, OnePlace, EndScan
  PROVE  LET t == cur[Main]
         IN  /\ UNCHANGED <<clientSide, dataVars, todo, stopped, scanVars, dagVars, neighborsMutex>>
             /\ \A v \in Executors : pc'[v] = pc[v] /\ cur'[v] = cur[v]
             /\ pc[Main] = "scanReads" /\ pc'[Main] = "idle" /\ cur'[Main] = NoTxn
             /\ targets = {} /\ todo[Main] = {}
             /\ t \in Txns /\ t \notin Added
             /\ indegreeMutex' = indegreeMutex \ {t}
             /\ indegree[t] = 0 => /\ Elements(readyTxns') = Elements(readyTxns) \cup {t}
                                   /\ Distinct(readyTxns')
             /\ indegree[t] # 0 => readyTxns' = readyTxns
             /\ TypeOK'
<1> USE Constants DEF Goto
<1> DEFINE t == cur[Main]
<1>1. /\ pc \in [Threads -> Pcs] /\ cur \in [Threads -> Values]
      /\ readyTxns \in Seq(Txns) /\ Distinct(readyTxns) /\ indegreeMutex \subseteq Txns
  BY Types DEF OnePlace
<1>2. /\ UNCHANGED <<clientSide, dataVars, todo, stopped, scanVars, dagVars, neighborsMutex>>
      /\ pc[Main] = "scanReads" /\ pc' = [pc EXCEPT ![Main] = "idle"]
      /\ cur' = [cur EXCEPT ![Main] = NoTxn]
      /\ targets = {} /\ todo[Main] = {} /\ indegreeMutex' = indegreeMutex \ {t}
      /\ readyTxns' = IF indegree[t] = 0 THEN Append(readyTxns, t) ELSE readyTxns
  BY DEF EndScan
<1>3. t \in Txns /\ t \notin Added
  BY <1>2, HolderHolds DEF Added
<1>4. t \notin Elements(readyTxns)
  BY <1>3 DEF NewAreUntouched
<1>5. /\ indegree[t] = 0 => Elements(readyTxns') = Elements(readyTxns) \cup {t} /\ Distinct(readyTxns')
      /\ indegree[t] # 0 => readyTxns' = readyTxns
      /\ readyTxns' \in Seq(Txns)
  BY <1>1, <1>2, <1>3, <1>4, ElementsAppend, DistinctAppend
<1>6. TypeOK'
  <2>1. ThreadTypeOK' /\ (pc \in [Threads -> Pcs])'
    BY <1>1, <1>2, TypeFrame DEF ThreadTypeOK, Pcs
  <2>2. ClientTypeOK' /\ DataTypeOK'
    BY <1>2, TypeFrame
  <2>3. ContTypeOK' /\ ScanTypeOK'
    BY <1>1, <1>2, <1>5, Types DEF ContTypeOK, ScanTypeOK, scanVars, dagVars
  <2> QED
    BY <2>1, <2>2, <2>3, TypePartsNext
<1> HIDE DEF t
<1> QED
  BY <1>1, <1>2, <1>3, <1>5, <1>6 DEF t

\* The scan keeps the types.
LEMMA ScanTypes ==
  ASSUME TypeOK, ThreadPhase, NewAreUntouched, ScanStep
  PROVE  TypeOK'
<1> USE Constants
<1>1. /\ todo \in [Threads -> SUBSET (Keys \cup Txns)] /\ pc \in [Threads -> Pcs]
      /\ sharedHolders \in [Keys -> SUBSET Txns] /\ lastExcl \in [Keys -> Values]
      /\ sharedKeys \subseteq Keys /\ stopped \in BOOLEAN
      /\ indegree \in [Txns -> Nat] /\ neighbors \in [Txns -> SUBSET Txns]
      /\ neighborsMutex \subseteq Txns /\ indegreeMutex \subseteq Txns /\ readyTxns \in Seq(Txns)
  BY Types
<1>2. /\ cur[Main] \in Txns /\ targets' \subseteq Txns /\ ClientTypeOK' /\ DataTypeOK'
      /\ UNCHANGED <<stopped, cur, mutexVars, readyTxns>>
      /\ (\A p \in Txns : ~TryEdge(p)) => UNCHANGED dagVars
  BY ScanEffect, TypeFrame DEF Added
<1>3. cur' \in [Threads -> Values]
  BY <1>2, Types
<1>4. CASE \E p \in Txns : TryEdge(p)
  BY <1>4, TryEdgeEffect
<1>5. ASSUME todo' \in [Threads -> SUBSET (Keys \cup Txns)], pc' \in [Threads -> Pcs],
             sharedHolders' \in [Keys -> SUBSET Txns], lastExcl' \in [Keys -> Values],
             sharedKeys' \subseteq Keys, \A p \in Txns : ~TryEdge(p)
      PROVE  TypeOK'
  <2>1. ThreadTypeOK'
    BY <1>3, <1>5 DEF ThreadTypeOK
  <2>2. ContTypeOK' /\ ScanTypeOK'
    BY <1>1, <1>2, <1>5 DEF ContTypeOK, ScanTypeOK, dagVars, mutexVars
  <2> QED
    BY <1>2, <1>5, <2>1, <2>2, TypePartsNext
<1>6. CASE ScanWrite /\ \A p \in Txns : ~TryEdge(p)
  BY <1>1, <1>2, <1>5, <1>6 DEF ScanWrite
<1>7. CASE EndWrites /\ \A p \in Txns : ~TryEdge(p)
  BY <1>1, <1>2, <1>5, <1>7 DEF EndWrites, Goto, Pcs, indivVars, scanVars
<1>8. CASE ScanRead /\ \A p \in Txns : ~TryEdge(p)
  BY <1>1, <1>2, <1>5, <1>8 DEF ScanRead
<1> QED
  BY <1>4, <1>6, <1>7, <1>8 DEF ScanStep

\* An executor pops a transaction that nobody has.
LEMMA PopReadyEffect ==
  ASSUME TypeOK, ThreadPhase, OnePlace, NEW w \in Executors, PopReady(w)
  PROVE  LET h == Head(readyTxns)
         IN  /\ UNCHANGED <<clientSide, dataVars, stopped, scanVars, dagVars, mutexVars>>
             /\ \A v \in Threads : v # w => pc'[v] = pc[v] /\ cur'[v] = cur[v] /\ todo'[v] = todo[v]
             /\ pc[w] = "idle" /\ cur[w] = NoTxn
             /\ pc'[w] = "readset" /\ cur'[w] = h /\ todo'[w] = readset[h]
             /\ h \in Txns /\ h \in Elements(readyTxns)
             /\ status[h] = "INCOMPLETE" /\ ~Held(h)
             /\ Elements(readyTxns) = {h} \cup Elements(readyTxns')
             /\ h \notin Elements(readyTxns') /\ Distinct(readyTxns')
             /\ TypeOK'
<1> USE Constants DEF Goto
<1> DEFINE h == Head(readyTxns)
<1>1. /\ pc \in [Threads -> Pcs] /\ cur \in [Threads -> Values]
      /\ todo \in [Threads -> SUBSET (Keys \cup Txns)] /\ readyTxns \in Seq(Txns)
      /\ readyTxns # <<>> /\ readyTxns' = Tail(readyTxns) /\ Distinct(readyTxns)
  BY Types DEF PopReady, OnePlace
<1>2. /\ h \in Txns /\ Tail(readyTxns) \in Seq(Txns)
      /\ Elements(readyTxns) = {h} \cup Elements(readyTxns')
      /\ h \notin Elements(readyTxns') /\ Distinct(readyTxns')
  BY <1>1, ElementsTail, DistinctTail
<1>3. status[h] = "INCOMPLETE" /\ ~Held(h)
  BY <1>2 DEF OnePlace
<1>4. /\ UNCHANGED <<clientSide, dataVars, stopped, scanVars, dagVars, mutexVars>>
      /\ pc[w] = "idle" /\ pc' = [pc EXCEPT ![w] = "readset"]
      /\ cur' = [cur EXCEPT ![w] = h] /\ todo' = [todo EXCEPT ![w] = readset[h]]
  BY DEF PopReady, StartExecute
<1>5. cur[w] = NoTxn
  BY <1>4 DEF ThreadPhase
<1>6. TypeOK'
  <2>1. ThreadTypeOK' /\ (pc \in [Threads -> Pcs])'
    BY <1>1, <1>2, <1>4 DEF ThreadTypeOK, Pcs
  <2>2. ClientTypeOK' /\ DataTypeOK'
    BY <1>4, TypeFrame
  <2>3. ContTypeOK' /\ ScanTypeOK'
    BY <1>1, <1>2, <1>4, Types DEF scanVars, dagVars, mutexVars, ContTypeOK, ScanTypeOK
  <2> QED
    BY <2>1, <2>2, <2>3, TypePartsNext
<1> HIDE DEF h
<1> QED
  BY <1>1, <1>2, <1>3, <1>4, <1>5, <1>6 DEF h

\* The two steps with its own mutex.
LEMMA NeighborsMutexEffect ==
  ASSUME TypeOK, ThreadPhase, NEW w \in Executors, LockNeighbors(w) \/ UnlockNeighbors(w)
  PROVE  /\ UNCHANGED <<clientSide, dataVars, stopped, scanVars, dagVars, indegreeMutex, readyTxns>>
         /\ \A v \in Threads : v # w => pc'[v] = pc[v] /\ cur'[v] = cur[v] /\ todo'[v] = todo[v]
         /\ cur[w] \in Txns
         /\ LockNeighbors(w) => /\ pc[w] = "lock" /\ pc'[w] = "unblock" /\ cur' = cur
                                /\ todo'[w] = neighbors[cur[w]]
                                /\ neighborsMutex' = neighborsMutex \cup {cur[w]}
         /\ UnlockNeighbors(w) => /\ pc[w] = "unlock" /\ pc'[w] = "idle" /\ cur'[w] = NoTxn
                                  /\ neighborsMutex' = neighborsMutex \ {cur[w]}
         /\ TypeOK'
<1> USE Constants DEF Goto
<1>1. /\ pc \in [Threads -> Pcs] /\ cur \in [Threads -> Values]
      /\ todo \in [Threads -> SUBSET (Keys \cup Txns)] /\ neighbors \in [Txns -> SUBSET Txns]
      /\ neighborsMutex \subseteq Txns
  BY Types
<1>2. cur[w] \in Txns
  BY HolderHolds DEF LockNeighbors, UnlockNeighbors
<1>3. ASSUME UNCHANGED <<clientSide, dataVars, stopped, scanVars, dagVars, indegreeMutex, readyTxns>>,
             ThreadTypeOK', (pc \in [Threads -> Pcs])', neighborsMutex' \subseteq Txns
      PROVE  TypeOK'
  <2>1. ClientTypeOK' /\ DataTypeOK'
    BY <1>3, TypeFrame
  <2>2. ContTypeOK' /\ ScanTypeOK'
    BY <1>1, <1>3, Types DEF scanVars, dagVars, ContTypeOK, ScanTypeOK
  <2> QED
    BY <1>3, <2>1, <2>2, TypePartsNext
<1>4. CASE LockNeighbors(w)
  <2>1. ThreadTypeOK' /\ (pc \in [Threads -> Pcs])'
    BY <1>1, <1>2, <1>4, TypeFrame DEF LockNeighbors, ThreadTypeOK, Pcs
  <2>2. TypeOK'
    BY <1>1, <1>2, <1>3, <1>4, <2>1 DEF LockNeighbors
  <2> QED
    BY <1>1, <1>2, <1>4, <2>2 DEF LockNeighbors, UnlockNeighbors
<1>5. CASE UnlockNeighbors(w)
  <2>1. ThreadTypeOK' /\ (pc \in [Threads -> Pcs])'
    BY <1>1, <1>2, <1>5, TypeFrame DEF UnlockNeighbors, ThreadTypeOK, Pcs
  <2>2. TypeOK'
    BY <1>1, <1>2, <1>3, <1>5, <2>1 DEF UnlockNeighbors
  <2> QED
    BY <1>1, <1>2, <1>5, <2>2 DEF LockNeighbors, UnlockNeighbors
<1> QED
  BY <1>4, <1>5

\* An executor releases a neighbour, which has entered the DAG and nobody has
\* had yet.
LEMMA UnblockEffect ==
  ASSUME TypeOK, ThreadPhase, NewAreUntouched, OnePlace, IndegreeCountsPending,
         NEW w \in Executors, NEW t \in Txns, UnblockNeighbor(w, t)
  PROVE  /\ UNCHANGED <<clientSide, dataVars, pc, cur, stopped, scanVars, neighbors, mutexVars>>
         /\ pc[w] = "unblock" /\ cur[w] \in Txns /\ t \in todo[w] /\ t \in neighbors[cur[w]]
         /\ todo' = [todo EXCEPT ![w] = todo[w] \ {t}]
         /\ indegree[t] > 0 /\ indegree' = [indegree EXCEPT ![t] = indegree[t] - 1]
         /\ t \in Added /\ cur[Main] # t /\ ~HandedOver(t) /\ status[t] = "INCOMPLETE"
         /\ indegree[t] = 1 => /\ Elements(readyTxns') = Elements(readyTxns) \cup {t}
                               /\ Distinct(readyTxns')
         /\ indegree[t] # 1 => readyTxns' = readyTxns
         /\ TypeOK'
<1> USE Constants
<1>1. /\ pc \in [Threads -> Pcs] /\ cur \in [Threads -> Values]
      /\ todo \in [Threads -> SUBSET (Keys \cup Txns)] /\ readyTxns \in Seq(Txns)
      /\ neighbors \in [Txns -> SUBSET Txns] /\ indegree \in [Txns -> Nat]
      /\ Elements(readyTxns) \subseteq Txns /\ Distinct(readyTxns)
  BY Types DEF OnePlace
<1>2. /\ UNCHANGED <<clientSide, dataVars, pc, cur, stopped, scanVars, neighbors, mutexVars>>
      /\ pc[w] = "unblock" /\ t \in todo[w] /\ todo' = [todo EXCEPT ![w] = todo[w] \ {t}]
      /\ t \notin indegreeMutex
      /\ indegree' = [indegree EXCEPT ![t] = indegree[t] - 1]
      /\ readyTxns' = IF indegree[t] = 1 THEN Append(readyTxns, t) ELSE readyTxns
  BY DEF UnblockNeighbor
<1>3. cur[w] \in Txns /\ t \in neighbors[cur[w]]
  BY <1>2, HolderHolds DEF ThreadPhase
<1>4. Pending(cur[w], t)
  BY <1>2, <1>3 DEF Pending, PendingIn, Holds
<1>5. indegree[t] > 0
  <2> DEFINE P == {p \in Txns : Pending(p, t)}
  <2>1. IsFiniteSet(P) /\ P # {}
    BY <1>3, <1>4, FS_Subset
  <2>2. Cardinality(P) \in Nat /\ Cardinality(P) # 0
    BY <2>1, FS_CardinalityType, FS_EmptySet
  <2>3. indegree[t] = Cardinality(P)
    BY DEF IndegreeCountsPending
  <2> HIDE DEF P
  <2> QED
    BY <2>2, <2>3
<1>6. ~HandedOver(t) /\ status[t] = "INCOMPLETE"
  BY <1>5 DEF OnePlace, HandedOver, Held
<1>7. t \notin Elements(readyTxns)
  BY <1>6 DEF HandedOver
<1>8. /\ indegree[t] = 1 => /\ Elements(readyTxns') = Elements(readyTxns) \cup {t}
                            /\ Distinct(readyTxns')
      /\ indegree[t] # 1 => readyTxns' = readyTxns
      /\ readyTxns' \in Seq(Txns)
  BY <1>1, <1>2, <1>7, ElementsAppend, DistinctAppend
<1>9. t \in Added /\ cur[Main] # t
  <2>1. cur[Main] # t
    BY <1>2 DEF ThreadPhase
  <2> QED
    BY <1>3, <2>1 DEF NewAreUntouched
<1>10. TypeOK'
  <2>1. ThreadTypeOK' /\ (pc \in [Threads -> Pcs])'
    BY <1>1, <1>2 DEF ThreadTypeOK
  <2>2. ClientTypeOK' /\ DataTypeOK'
    BY <1>2, TypeFrame
  <2>3. indegree' \in [Txns -> Nat]
    BY <1>1, <1>2, <1>5
  <2>4. ContTypeOK' /\ ScanTypeOK'
    BY <1>2, <1>8, <2>3, TypeFrame DEF scanVars, mutexVars, ContTypeOK, ScanTypeOK
  <2> QED
    BY <2>1, <2>2, <2>4, TypePartsNext
<1> QED
  BY <1>2, <1>3, <1>5, <1>6, <1>8, <1>9, <1>10

\* It hands its transaction to the client, whose mutex it still has.
LEMMA ReturnEffect ==
  ASSUME TypeOK, ThreadPhase, OnePlace, NEW w \in Executors, ReturnResult(w)
  PROVE  LET c == cur[w]
         IN  /\ UNCHANGED <<clientVars, txnRequests, dataVars, cur, todo, indivVars>>
             /\ \A v \in Threads : v # w => pc'[v] = pc[v]
             /\ pc[w] = "unblock" /\ pc'[w] = "unlock" /\ todo[w] = {}
             /\ c \in Txns /\ Decided(c) /\ Held(c)
             /\ c \notin Elements(txnResults) \cup returned
             /\ Elements(txnResults') = Elements(txnResults) \cup {c} /\ Distinct(txnResults')
             /\ TypeOK'
<1> USE Constants DEF Goto
<1> DEFINE c == cur[w]
<1>1. /\ pc \in [Threads -> Pcs] /\ cur \in [Threads -> Values] /\ txnResults \in Seq(Txns)
      /\ Distinct(txnResults)
  BY Types DEF OnePlace
<1>2. /\ UNCHANGED <<clientVars, txnRequests, dataVars, cur, todo, indivVars>>
      /\ pc[w] = "unblock" /\ todo[w] = {} /\ pc' = [pc EXCEPT ![w] = "unlock"]
      /\ txnResults' = Append(txnResults, c)
  BY DEF ReturnResult
<1>3. c \in Txns /\ Decided(c) /\ Held(c)
  BY <1>2, HolderHolds DEF ThreadPhase, Held, Holds
<1>4. c \notin Elements(txnResults) \cup returned
  BY <1>2, <1>3 DEF OnePlace
<1>5. Elements(txnResults') = Elements(txnResults) \cup {c} /\ Distinct(txnResults')
  BY <1>1, <1>2, <1>3, <1>4, ElementsAppend, DistinctAppend
<1>6. TypeOK'
  <2>1. ThreadTypeOK' /\ (pc \in [Threads -> Pcs])'
    BY <1>1, <1>2, TypeFrame DEF ThreadTypeOK, Pcs
  <2>2. ClientTypeOK'
    BY <1>2, <1>3, TypeFrame DEF ClientTypeOK, clientVars
  <2>3. DataTypeOK' /\ ContTypeOK' /\ ScanTypeOK'
    BY <1>2, TypeFrame
  <2> QED
    BY <2>1, <2>2, <2>3, TypePartsNext
<1> HIDE DEF c
<1> QED
  BY <1>1, <1>2, <1>3, <1>4, <1>5, <1>6 DEF c

\* Every step keeps the types.
LEMMA TypeStep ==
  ASSUME Inv, [Next]_vars
  PROVE  TypeOK'
<1>0. TypeOK /\ ThreadPhase /\ NewAreUntouched /\ OnePlace /\ IndegreeCountsPending
  BY DEF Inv
<1>1. TypeOK' = (/\ ClientTypeOK' /\ DataTypeOK' /\ ThreadTypeOK' /\ (pc \in [Threads -> Pcs])'
                 /\ ContTypeOK' /\ ScanTypeOK')
  BY TypePartsNext
<1>2. ASSUME NEW t \in Txns, Submit(t) PROVE TypeOK'
  <2>1. ClientTypeOK'
    BY <1>0, <1>2, TypeFrame DEF Submit, NewTxnRequest, ClientTypeOK
  <2> QED
    BY <1>0, <1>1, <1>2, <2>1, TypeFrame DEF Submit, NewTxnRequest
<1>3. CASE TakeResult
  <2>1. ClientTypeOK'
    <3>1. Head(txnResults) \in Txns /\ Tail(txnResults) \in Seq(Txns)
      BY <1>0, <1>3, Types DEF TakeResult, GetTxnResult
    <3> QED
      BY <1>0, <1>3, <3>1, TypeFrame DEF TakeResult, GetTxnResult, ClientTypeOK
  <2> QED
    BY <1>0, <1>1, <1>3, <2>1, TypeFrame DEF TakeResult, GetTxnResult
<1>4. CASE Stop
  <2>1. ContTypeOK'
    BY <1>0, <1>4, TypeFrame DEF Stop, ContTypeOK, dagVars, scanVars
  <2> QED
    BY <1>0, <1>1, <1>4, <2>1, TypeFrame DEF Stop, coreVars, clientSide, dagVars, scanVars
<1>5. ASSUME NEW w \in Threads, Exit(w), UNCHANGED indivVars PROVE TypeOK'
  <2>1. ThreadTypeOK' /\ (pc \in [Threads -> Pcs])'
    BY <1>0, <1>5, Types DEF Exit, Goto, ThreadTypeOK, Pcs
  <2> QED
    BY <1>0, <1>1, <1>5, <2>1, TypeFrame DEF Exit
<1>6. CASE Scheduler
  BY <1>0, <1>5, <1>6, PopRequestEffect, ScanTypes, EndScanEffect, Constants
  DEF Scheduler, ScanStep, SchedulerExit
<1>7. ASSUME NEW w \in Executors, Executor(w) PROVE TypeOK'
  <2>1. w \in Threads
    BY Constants
  <2>2. CASE ExecuteAndDecide(w)
    BY <1>0, <1>1, <2>2, ExecuteEffect, TypeFrame
  <2> QED
    BY <1>0, <1>5, <1>7, <2>1, <2>2, PopReadyEffect, NeighborsMutexEffect, UnblockEffect, ReturnEffect
    DEF Executor, ExecutorExit
<1>8. CASE UNCHANGED vars
  BY <1>0, <1>1, <1>8, TypeFrame DEF vars, coreVars, clientSide
<1> QED
  BY <1>2, <1>3, <1>4, <1>6, <1>7, <1>8 DEF Next, Terminating

-----------------------------------------------------------------------------
(* The threads. *)

\* What no executor changes, and what it may change of its transaction only.
LEMMA ExecutorFrame ==
  ASSUME Inv, NEW w \in Executors, Executor(w)
  PROVE  /\ UNCHANGED <<clientVars, txnRequests, pc[Main], cur[Main], todo[Main],
                        stopped, scanVars, neighbors, indegreeMutex>>
         /\ \A t \in Txns : status'[t] # status[t] =>
              Holds(w, t) /\ ~Decided(t) /\ UNCHANGED <<cur, readyTxns, indegree, txnResults>>
         /\ \A t \in Txns : status[t] # "INCOMPLETE" => status'[t] # "INCOMPLETE"
<1>0. TypeOK /\ ThreadPhase /\ NewAreUntouched /\ OnePlace /\ IndegreeCountsPending
  BY DEF Inv
<1>1. w \in Threads /\ w # Main /\ Main \in Threads
  BY Constants
<1> USE DEF clientSide, clientVars, dataVars, indivVars, dagVars, mutexVars
<1>2. CASE PopReady(w)
  BY <1>0, <1>1, <1>2, PopReadyEffect
<1>3. CASE ExecuteAndDecide(w)
  <2>1. \A t \in Txns : t # cur[w] => status'[t] = status[t]
    BY <1>0, <1>3, ExecuteEffect
  <2>2. cur[w] \in Txns /\ ~Decided(cur[w])
    BY <1>0, <1>3, ExecuteEffect
  <2>3. UNCHANGED <<clientSide, indivVars, cur, pc[Main], todo[Main]>>
    BY <1>0, <1>1, <1>3, ExecuteEffect
  <2>4. status[cur[w]] # "INCOMPLETE" => status'[cur[w]] # "INCOMPLETE"
    BY <1>0, <1>3, ExecuteEffect
  <2> QED
    BY <2>1, <2>2, <2>3, <2>4 DEF Holds
<1>4. CASE LockNeighbors(w) \/ UnlockNeighbors(w)
  BY <1>0, <1>1, <1>4, NeighborsMutexEffect
<1>5. ASSUME NEW t \in Txns, UnblockNeighbor(w, t)
      PROVE  UNCHANGED <<clientVars, txnRequests, pc, cur, todo[Main], stopped, scanVars,
                         neighbors, indegreeMutex, status>>
  <2>1. todo' = [todo EXCEPT ![w] = todo[w] \ {t}] /\ todo \in [Threads -> SUBSET (Keys \cup Txns)]
    BY <1>0, <1>5, UnblockEffect, Types
  <2> QED
    BY <1>0, <1>1, <1>5, <2>1, UnblockEffect
<1>6. CASE ReturnResult(w)
  BY <1>0, <1>1, <1>6, ReturnEffect
<1>7. CASE ExecutorExit(w)
  <2>1. UNCHANGED <<clientSide, dataVars, cur, todo, indivVars>> /\ pc' = [pc EXCEPT ![w] = "exited"]
    BY <1>7 DEF ExecutorExit, Exit, Goto
  <2>2. pc \in [Threads -> Pcs]
    BY <1>0, Types
  <2> QED
    BY <1>1, <2>1, <2>2
<1> QED
  BY <1>2, <1>3, <1>4, <1>5, <1>6, <1>7 DEF Executor

\* A transaction enters the DAG by EndScan, and keeps its id.
LEMMA AddedStep ==
  ASSUME Inv, [Next]_vars
  PROVE  /\ Added \subseteq Txns
         /\ \A t \in Added : uniqueId'[t] = uniqueId[t] /\ uniqueId[t] > 0
         /\ EndScan => Added' = Added \cup {cur[Main]}
         /\ ~EndScan => Added' = Added
<1>0. TypeOK /\ ThreadPhase /\ NewAreUntouched /\ OnePlace /\ IdsInOrder
  BY DEF Inv
<1>1. /\ uniqueId \in [Txns -> Nat] /\ txnRequests \in Seq(Txns) /\ Added \subseteq Txns
      /\ \A t \in Added : uniqueId[t] > 0
  BY <1>0, Types DEF Added
<1>2. ASSUME UNCHANGED <<uniqueId, txnRequests, cur[Main]>> PROVE Added' = Added /\ uniqueId' = uniqueId
  BY <1>2 DEF Added, Queued
<1>3. EndScan => pc[Main] = "scanReads" /\ pc'[Main] = "idle"
  BY <1>0, EndScanEffect
<1>4. ASSUME NEW t \in Txns, Submit(t)
      PROVE  Added' = Added /\ ~EndScan /\ \A p \in Added : uniqueId'[p] = uniqueId[p]
  <2>1. /\ uniqueId[t] = 0 /\ uniqueId' = [uniqueId EXCEPT ![t] = nextUniqueId]
        /\ txnRequests' = Append(txnRequests, t) /\ UNCHANGED threadVars
    BY <1>4 DEF Submit, NewTxnRequest
  <2>2. Elements(txnRequests') = Elements(txnRequests) \cup {t}
    BY <1>1, <2>1, ElementsAppend
  <2>3. t \notin Added /\ t \notin Added'
    BY <1>1, <2>1, <2>2 DEF Added, Queued
  <2>4. \A p \in Txns : p # t => uniqueId'[p] = uniqueId[p]
    BY <1>1, <2>1
  <2>5. \A p \in Txns : p # t => (p \in Added' <=> p \in Added)
    BY <1>1, <2>1, <2>2, <2>4 DEF Added, Queued, threadVars
  <2>6. Added' \subseteq Txns
    BY DEF Added
  <2>7. ~EndScan
    BY <1>3, <2>1 DEF threadVars
  <2>8. \A p \in Added : uniqueId'[p] = uniqueId[p]
    BY <1>1, <2>3, <2>4
  <2>9. Added' = Added
    <3> DEFINE A == Added
               B == Added'
    <3>1. A \subseteq Txns /\ B \subseteq Txns /\ t \notin A /\ t \notin B
          /\ \A p \in Txns : p # t => (p \in B <=> p \in A)
      BY <1>1, <2>3, <2>5, <2>6
    <3> HIDE DEF A, B
    <3>2. A = B
      BY <3>1
    <3> QED
      BY <3>2 DEF A, B
  <2> QED
    BY <2>7, <2>8, <2>9
<1>5. CASE TakeResult \/ Stop \/ UNCHANGED vars
  <2>1. UNCHANGED <<uniqueId, txnRequests, pc, cur>>
    BY <1>5 DEF TakeResult, GetTxnResult, Stop, vars, coreVars, clientVars, threadVars
  <2> QED
    BY <1>1, <1>2, <1>3, <2>1
<1>6. CASE PopRequest
  <2>1. PICK h : h = Head(txnRequests)
    OBVIOUS
  <2>2. /\ uniqueId' = uniqueId /\ h \in Queued /\ Queued = {h} \cup Elements(txnRequests')
        /\ pc[Main] = "idle" /\ cur[Main] = NoTxn /\ cur'[Main] = h
    BY <1>0, <1>6, <2>1, PopRequestEffect DEF clientVars
  <2>3. Added' = Added
    BY <2>2, Constants DEF Added, Queued
  <2> QED
    BY <1>1, <1>3, <2>2, <2>3
<1>7. CASE ScanStep
  <2>1. UNCHANGED <<uniqueId, txnRequests, cur>> /\ pc'[Main] # "idle"
    BY <1>0, <1>7, ScanEffect DEF clientSide, clientVars
  <2> QED
    BY <1>1, <1>2, <1>3, <2>1
<1>8. CASE EndScan
  <2>1. PICK t \in Txns : t = cur[Main]
    BY <1>0, <1>8, EndScanEffect
  <2>2. UNCHANGED <<uniqueId, txnRequests>> /\ cur'[Main] = NoTxn
    BY <1>0, <1>8, EndScanEffect DEF clientSide, clientVars
  <2>3. uniqueId[t] > 0 /\ t \notin Queued
    <3>1. uniqueId[t] > 0 /\ Before({t}, Queued, uniqueId)
      BY <1>0, <2>1 DEF IdsInOrder
    <3>2. ASSUME t \in Queued PROVE FALSE
      <4>1. uniqueId[t] < uniqueId[t]
        BY <3>1, <3>2 DEF Before
      <4> QED
        BY <1>1, <4>1
    <3> QED
      BY <3>1, <3>2
  <2>4. Added' = Added \cup {t}
    BY <2>1, <2>2, <2>3, Constants DEF Added, Queued
  <2> QED
    BY <1>1, <1>8, <2>1, <2>2, <2>4
<1>9. CASE SchedulerExit
  <2>1. UNCHANGED <<uniqueId, txnRequests, cur>> /\ pc[Main] = "idle"
    BY <1>9 DEF SchedulerExit, Exit, clientSide, clientVars
  <2> QED
    BY <1>1, <1>2, <1>3, <2>1
<1>10. ASSUME NEW w \in Executors, Executor(w)
       PROVE  Added' = Added /\ uniqueId' = uniqueId /\ ~EndScan
  <2>1. UNCHANGED <<uniqueId, txnRequests, pc[Main], cur[Main]>>
    BY <1>10, ExecutorFrame DEF clientVars
  <2> QED
    BY <1>2, <1>3, <2>1
<1> QED
  BY <1>1, <1>4, <1>5, <1>6, <1>7, <1>8, <1>9, <1>10 DEF Next, Scheduler, ScanStep, Terminating

\* Every step agrees with the program counters.
LEMMA PhaseStep ==
  ASSUME Inv, [Next]_vars
  PROVE  ThreadPhase'
<1>0. TypeOK /\ ThreadPhase /\ NewAreUntouched /\ OnePlace /\ IndegreeCountsPending
  BY DEF Inv
<1> USE Constants
<1>1. /\ pc \in [Threads -> Pcs] /\ cur \in [Threads -> Values]
      /\ todo \in [Threads -> SUBSET (Keys \cup Txns)] /\ neighbors \in [Txns -> SUBSET Txns]
  BY <1>0, Types
<1> DEFINE Fits(w, l, c, s, d, a) ==
             /\ c = NoTxn <=> l \in {"idle", "exited"}
             /\ l \notin {"scanWrites", "scanReads"}
             /\ l = "readset" => s \subseteq readset[c]
             /\ l \in {"writeset", "apply"} => s \subseteq writeset[c]
             /\ l = "unblock" => s \subseteq a
             /\ l \in {"readset", "writeset"} => d = "INCOMPLETE"
             /\ l = "decide" => d \in {"COMPLETED_C", "COMPLETED_A"}
             /\ l = "apply" => d = "COMPLETED_C"
             /\ l \in {"lock", "unblock", "unlock"} => d \in {"COMMITTED", "ABORTED"}
           OK(w) == Fits(w, pc[w], cur[w], todo[w], status[cur[w]], neighbors[cur[w]])
           MainOK == /\ pc[Main] \in {"idle", "scanWrites", "scanReads", "exited"}
                     /\ cur[Main] = NoTxn <=> pc[Main] \in {"idle", "exited"}
                     /\ pc[Main] = "scanWrites" => todo[Main] \subseteq writeset[cur[Main]]
                     /\ pc[Main] = "scanReads" => todo[Main] \subseteq readset[cur[Main]]
                     /\ indegreeMutex = {t \in Txns : cur[Main] = t}
                     /\ targets \subseteq Added
                     /\ pc[Main] \in {"idle", "exited"} => targets = {}
           MutexOK == neighborsMutex = {t \in Txns : \E w \in Executors :
                                            cur[w] = t /\ pc[w] \in {"unblock", "unlock"}}
<1>2. MainOK /\ MutexOK /\ \A w \in Executors : OK(w)
  BY <1>0 DEF ThreadPhase, Decided
<1>3. ThreadPhase' <=> MainOK' /\ MutexOK' /\ \A w \in Executors : OK(w)'
  BY DEF ThreadPhase, Decided
<1>4. ASSUME NEW w \in Executors, UNCHANGED <<pc[w], cur[w], todo[w]>>,
             status'[cur[w]] = status[cur[w]],
             pc[w] = "unblock" => neighbors[cur[w]] \subseteq neighbors'[cur[w]]
      PROVE  OK(w)'
  BY <1>2, <1>4
<1>5. ASSUME UNCHANGED <<pc[Main], cur[Main], todo[Main], indegreeMutex, targets>> PROVE MainOK'
  <2>1. Added \subseteq Added'
    BY AddedStep
  <2> QED
    BY <1>2, <1>5, <2>1
<1>6. ASSUME UNCHANGED neighborsMutex, \A w \in Executors : UNCHANGED <<cur[w], pc[w]>>
      PROVE  MutexOK'
  BY <1>2, <1>6
<1>7. ASSUME NEW w \in Executors, UNCHANGED <<neighborsMutex, cur>>,
             \A v \in Executors : v # w => pc'[v] = pc[v],
             pc'[w] \in {"unblock", "unlock"} <=> pc[w] \in {"unblock", "unlock"}
      PROVE  MutexOK'
  <2>1. \A v \in Executors : pc'[v] \in {"unblock", "unlock"} <=> pc[v] \in {"unblock", "unlock"}
    BY <1>7
  <2> QED
    BY <1>2, <1>7, <2>1
<1> HIDE DEF OK, MainOK, MutexOK
<1>8. ASSUME UNCHANGED <<threadVars, status, neighbors, mutexVars, targets>> PROVE ThreadPhase'
  BY <1>3, <1>4, <1>5, <1>6, <1>8 DEF threadVars, mutexVars
<1>9. CASE (\E t \in Txns : Submit(t)) \/ TakeResult \/ Stop \/ UNCHANGED vars
  BY <1>8, <1>9 DEF Submit, NewTxnRequest, TakeResult, GetTxnResult, Stop, vars, coreVars,
        indivVars, dagVars, dataVars, mutexVars, scanVars
<1>10. CASE PopRequest
  <2>1. PICK h \in Txns : h = Head(txnRequests)
    BY <1>0, <1>10, PopRequestEffect
  <2>2. /\ pc'[Main] = "scanWrites" /\ cur'[Main] = h /\ todo'[Main] = writeset[h]
        /\ pc[Main] = "idle" /\ cur[Main] = NoTxn
        /\ indegreeMutex' = indegreeMutex \cup {h} /\ neighbors' = [neighbors EXCEPT ![h] = {}]
        /\ UNCHANGED <<targets, neighborsMutex, status>>
        /\ \A v \in Executors : UNCHANGED <<pc[v], cur[v], todo[v]>>
        /\ h \in Queued
    BY <1>0, <1>10, <2>1, PopRequestEffect DEF scanVars, dataVars
  <2>3. targets' = {} /\ indegreeMutex = {}
    BY <1>2, <2>2 DEF MainOK
  <2>4. MainOK'
    BY <2>2, <2>3 DEF MainOK
  <2>5. ASSUME NEW w \in Executors PROVE OK(w)'
    <3>1. ~Held(h)
      BY <1>0, <2>2 DEF NewAreUntouched, Added
    <3>2. cur[w] # h
      BY <3>1 DEF Held, Holds
    <3>3. pc[w] = "unblock" => cur[w] \in Txns
      BY <1>0, HolderHolds
    <3>4. pc[w] = "unblock" => neighbors'[cur[w]] = neighbors[cur[w]]
      BY <1>1, <2>2, <3>2, <3>3
    <3> QED
      BY <1>4, <2>2, <3>4
  <2> QED
    BY <1>3, <1>6, <2>2, <2>4, <2>5
<1>11. CASE ScanStep
  <2>1. MainOK'
    <3>1. /\ UNCHANGED <<cur, mutexVars>> /\ cur[Main] \in Txns
          /\ pc[Main] \in {"scanWrites", "scanReads"} /\ pc'[Main] \in {"scanWrites", "scanReads"}
          /\ pc'[Main] = "scanWrites" => todo'[Main] \subseteq writeset[cur[Main]]
          /\ pc'[Main] = "scanReads" => todo'[Main] \subseteq readset[cur[Main]]
          /\ targets' \subseteq Added
      BY <1>0, <1>11, ScanEffect
    <3>2. Added \subseteq Added'
      BY AddedStep
    <3> QED
      BY <1>2, <3>1, <3>2 DEF MainOK, mutexVars
  <2>2. /\ UNCHANGED <<neighborsMutex, status>>
        /\ \A v \in Executors : UNCHANGED <<pc[v], cur[v], todo[v]>>
        /\ (\A p \in Txns : ~TryEdge(p)) => UNCHANGED neighbors
    BY <1>0, <1>11, ScanEffect DEF mutexVars, dataVars, dagVars
  <2>3. \A p \in Txns : neighbors[p] \subseteq neighbors'[p]
    <3>1. ASSUME NEW q \in Txns, TryEdge(q), NEW p \in Txns PROVE neighbors[p] \subseteq neighbors'[p]
      BY <1>0, <1>1, <3>1, TryEdgeEffect DEF dagVars
    <3> QED
      BY <2>2, <3>1
  <2>4. ASSUME NEW w \in Executors PROVE OK(w)'
    <3>1. pc[w] = "unblock" => cur[w] \in Txns
      BY <1>0, HolderHolds
    <3> QED
      BY <1>4, <2>2, <2>3, <3>1
  <2> QED
    BY <1>3, <1>6, <2>1, <2>2, <2>4
<1>12. CASE EndScan
  <2>1. PICK t \in Txns : t = cur[Main]
    BY <1>0, <1>12, EndScanEffect
  <2>2. /\ pc'[Main] = "idle" /\ cur'[Main] = NoTxn /\ targets' = {}
        /\ indegreeMutex' = indegreeMutex \ {t}
        /\ UNCHANGED <<neighbors, neighborsMutex, status>>
        /\ \A v \in Executors : UNCHANGED <<pc[v], cur[v], todo[v]>>
    BY <1>0, <1>12, <2>1, EndScanEffect DEF scanVars, dagVars, dataVars
  <2>3. MainOK'
    BY <1>2, <2>1, <2>2 DEF MainOK
  <2> QED
    BY <1>3, <1>4, <1>6, <2>2, <2>3
<1>13. ASSUME NEW w \in Threads, Exit(w), UNCHANGED indivVars PROVE ThreadPhase'
  <2>1. /\ pc[w] = "idle" /\ pc' = [pc EXCEPT ![w] = "exited"]
        /\ UNCHANGED <<cur, todo, status, neighbors, mutexVars, targets>>
    BY <1>13 DEF Exit, Goto, dataVars, indivVars, dagVars, scanVars
  <2>2. w = Main => MainOK'
    <3>1. Added \subseteq Added'
      BY AddedStep
    <3> QED
      BY <1>1, <1>2, <2>1, <3>1 DEF MainOK, mutexVars
  <2>3. w # Main => MainOK'
    BY <1>1, <1>5, <2>1 DEF mutexVars
  <2>4. ASSUME NEW v \in Executors PROVE OK(v)'
    <3>1. CASE v # w
      BY <1>1, <1>4, <2>1, <3>1
    <3>2. CASE v = w
      BY <1>1, <1>2, <2>1, <3>2 DEF OK
    <3> QED
      BY <3>1, <3>2
  <2>5. MutexOK'
    <3>1. \A v \in Executors : pc'[v] \in {"unblock", "unlock"} <=> pc[v] \in {"unblock", "unlock"}
      BY <1>1, <2>1
    <3> QED
      BY <1>2, <2>1, <3>1 DEF MutexOK, mutexVars
  <2> QED
    BY <1>3, <2>2, <2>3, <2>4, <2>5
<1>14. ASSUME NEW w \in Executors, Executor(w) PROVE ThreadPhase'
  <2>1. w \in Threads /\ w # Main
    OBVIOUS
  <2>2. MainOK'
    BY <1>5, <1>14, ExecutorFrame DEF scanVars
  <2>3. CASE PopReady(w)
    <3>1. \A v \in Executors : v # w => OK(v)'
      BY <1>0, <1>4, <2>1, <2>3, PopReadyEffect DEF dagVars, dataVars
    <3>2. OK(w)'
      BY <1>0, <2>1, <2>3, PopReadyEffect DEF OK, dagVars, dataVars
    <3>3. MutexOK'
      <4>1. /\ UNCHANGED neighborsMutex /\ pc[w] = "idle" /\ pc'[w] = "readset"
            /\ \A v \in Executors : v # w => UNCHANGED <<cur[v], pc[v]>>
        BY <1>0, <2>1, <2>3, PopReadyEffect DEF mutexVars
      <4> QED
        BY <1>2, <4>1 DEF MutexOK
    <3> QED
      BY <1>3, <2>2, <3>1, <3>2, <3>3
  <2>4. CASE ExecuteAndDecide(w)
    <3>1. MutexOK'
      <4>1. UNCHANGED <<neighborsMutex, cur>> /\ \A v \in Executors : v # w => pc'[v] = pc[v]
        BY <1>0, <2>1, <2>4, ExecuteEffect DEF indivVars, mutexVars
      <4>2. /\ pc[w] \in {"readset", "writeset", "decide", "apply"}
            /\ pc'[w] \in {"readset", "writeset", "decide", "apply", "lock"}
        BY <1>0, <2>4, ExecuteEffect
      <4> QED
        BY <1>7, <4>1, <4>2
    <3>2. ASSUME NEW v \in Executors, v # w PROVE OK(v)'
      <4>1. UNCHANGED <<pc[v], cur[v], todo[v], neighbors>>
        BY <1>0, <2>1, <2>4, <3>2, ExecuteEffect DEF indivVars, dagVars
      <4>2. CASE cur[v] = NoTxn
        BY <1>2, <4>1, <4>2 DEF OK
      <4>3. CASE cur[v] # NoTxn
        <5>1. cur[v] \in Txns /\ cur[v] # cur[w]
          BY <1>0, <1>1, <2>1, <3>2, <4>3 DEF OnePlace
        <5>2. status'[cur[v]] = status[cur[v]]
          BY <1>0, <2>4, <5>1, ExecuteEffect
        <5> QED
          BY <1>4, <4>1, <5>2
      <4> QED
        BY <4>2, <4>3
    <3>3. OK(w)'
      BY <1>0, <1>2, <2>1, <2>4, ExecuteEffect DEF OK, indivVars, dagVars
    <3> QED
      BY <1>3, <2>2, <3>1, <3>2, <3>3
  <2>5. CASE LockNeighbors(w) \/ UnlockNeighbors(w)
    <3>1. \A v \in Executors : v # w => OK(v)'
      BY <1>0, <1>4, <2>1, <2>5, NeighborsMutexEffect DEF dagVars, dataVars
    <3>2. OK(w)'
      BY <1>0, <1>2, <2>1, <2>5, NeighborsMutexEffect DEF OK, dagVars, dataVars
    <3>3. cur[w] \in Txns /\ \A v \in Executors : v # w => UNCHANGED <<cur[v], pc[v]>>
      BY <1>0, <2>1, <2>5, NeighborsMutexEffect
    <3>4. \A v \in Executors : v # w => cur[v] # cur[w]
      BY <1>0, <3>3 DEF OnePlace
    <3>5. MutexOK'
      <4>1. CASE LockNeighbors(w)
        <5>1. /\ pc[w] = "lock" /\ pc'[w] = "unblock" /\ cur' = cur
              /\ neighborsMutex' = neighborsMutex \cup {cur[w]}
          BY <1>0, <4>1, NeighborsMutexEffect
        <5> QED
          BY <1>2, <3>3, <5>1 DEF MutexOK
      <4>2. CASE UnlockNeighbors(w)
        <5>1. /\ pc[w] = "unlock" /\ pc'[w] = "idle" /\ neighborsMutex' = neighborsMutex \ {cur[w]}
          BY <1>0, <4>2, NeighborsMutexEffect
        <5> QED
          BY <1>2, <3>3, <3>4, <5>1 DEF MutexOK
      <4> QED
        BY <2>5, <4>1, <4>2
    <3> QED
      BY <1>3, <2>2, <3>1, <3>2, <3>5
  <2>6. ASSUME NEW t \in Txns, UnblockNeighbor(w, t) PROVE ThreadPhase'
    <3>1. /\ UNCHANGED <<pc, cur, status, neighbors, neighborsMutex>> /\ pc[w] = "unblock"
          /\ todo' = [todo EXCEPT ![w] = todo[w] \ {t}]
      BY <1>0, <2>6, UnblockEffect DEF dataVars, mutexVars
    <3>2. MutexOK' /\ \A v \in Executors : v # w => OK(v)'
      BY <1>1, <1>4, <1>6, <2>1, <3>1
    <3>3. OK(w)'
      BY <1>1, <1>2, <2>1, <3>1 DEF OK
    <3> QED
      BY <1>3, <2>2, <3>2, <3>3
  <2>7. CASE ReturnResult(w)
    <3>1. \A v \in Executors : v # w => OK(v)'
      BY <1>0, <1>4, <2>1, <2>7, ReturnEffect DEF indivVars, dagVars, dataVars
    <3>2. OK(w)'
      BY <1>0, <1>2, <2>1, <2>7, ReturnEffect DEF OK, dataVars, indivVars, dagVars
    <3>3. MutexOK'
      BY <1>0, <1>7, <2>1, <2>7, ReturnEffect DEF indivVars, mutexVars
    <3> QED
      BY <1>3, <2>2, <3>1, <3>2, <3>3
  <2> QED
    BY <1>13, <1>14, <2>1, <2>3, <2>4, <2>5, <2>6, <2>7 DEF Executor, ExecutorExit
<1> QED
  BY <1>9, <1>10, <1>11, <1>12, <1>13, <1>14 DEF Next, Scheduler, ScanStep, SchedulerExit, Terminating

-----------------------------------------------------------------------------
(* The ids, and who has a transaction before it enters the DAG. *)

\* Every step keeps the ids in order.
LEMMA IdsStep ==
  ASSUME Inv, [Next]_vars
  PROVE  IdsInOrder'
<1>0. TypeOK /\ ThreadPhase /\ NewAreUntouched /\ OnePlace /\ IdsInOrder
  BY DEF Inv
<1>1. /\ uniqueId \in [Txns -> Nat] /\ txnRequests \in Seq(Txns) /\ nextUniqueId \in Nat \ {0}
      /\ Added \subseteq Txns /\ Queued \subseteq Txns
  BY <1>0, Types DEF Added, Queued
<1>2. ASSUME UNCHANGED <<nextUniqueId, uniqueId, txnRequests, cur[Main]>> PROVE IdsInOrder'
  <2>1. Added' = Added /\ Queued' = Queued
    BY <1>2 DEF Added, Queued
  <2> QED
    BY <1>0, <1>2, <2>1 DEF IdsInOrder
<1>3. ASSUME NEW t \in Txns, Submit(t) PROVE IdsInOrder'
  <2>1. /\ uniqueId[t] = 0 /\ uniqueId' = [uniqueId EXCEPT ![t] = nextUniqueId]
        /\ nextUniqueId' = nextUniqueId + 1
        /\ txnRequests' = Append(txnRequests, t) /\ UNCHANGED <<pc, cur>>
    BY <1>3 DEF Submit, NewTxnRequest, threadVars
  <2>2. Queued' = Queued \cup {t}
    BY <1>1, <2>1, ElementsAppend DEF Queued
  <2>3. /\ uniqueId'[t] = nextUniqueId
        /\ \A p \in Txns : p # t => uniqueId'[p] = uniqueId[p]
        /\ \A p \in Txns : uniqueId[p] < nextUniqueId /\ uniqueId[p] \in Nat
    BY <1>0, <1>1, <2>1 DEF IdsInOrder
  <2>4. t \notin Queued /\ cur[Main] # t /\ t \notin Added
    BY <1>0, <1>1, <2>1 DEF IdsInOrder, Added
  <2>5. Added' = Added
    <3>1. ~EndScan
      BY <1>0, <2>1, EndScanEffect
    <3> QED
      BY <1>3, <3>1, AddedStep DEF Next
  <2>6. Increasing(txnRequests', uniqueId')
    <3>1. uniqueId' \in [Txns -> Nat]
      BY <1>1, <2>1
    <3>2. \A e \in Queued : uniqueId[e] = uniqueId'[e]
      BY <1>1, <2>3, <2>4
    <3>3. Increasing(txnRequests, uniqueId')
      BY <1>0, <3>2, IncreasingSame DEF IdsInOrder, Queued
    <3>4. Before(Elements(txnRequests), {t}, uniqueId')
      BY <1>1, <2>3, <3>2 DEF Before, Queued
    <3> QED
      BY <1>1, <2>1, <3>1, <3>3, <3>4, IncreasingAppend
  <2>7. ASSUME NEW p \in Txns, cur'[Main] = p PROVE Before({p}, Queued', uniqueId')
    <3>1. Before({p}, Queued, uniqueId) /\ p # t
      BY <1>0, <2>1, <2>4, <2>7 DEF IdsInOrder
    <3> QED
      BY <1>1, <2>2, <2>3, <2>4, <3>1 DEF Before
  <2>8. ASSUME NEW p \in Added', NEW s \in Txns, s \in Queued' \/ cur'[Main] = s
        PROVE  uniqueId'[p] < uniqueId'[s]
    <3>1. p \in Added /\ p # t /\ p \in Txns /\ uniqueId'[p] = uniqueId[p]
      BY <1>1, <2>3, <2>4, <2>5
    <3>2. CASE s = t
      BY <1>1, <2>3, <3>1, <3>2
    <3>3. CASE s # t
      <4>1. s \in Queued \/ cur[Main] = s
        BY <2>1, <2>2, <2>8, <3>3
      <4>2. uniqueId[p] < uniqueId[s]
        BY <1>0, <3>1, <4>1 DEF IdsInOrder
      <4> QED
        BY <2>3, <3>1, <3>3, <4>2
    <3> QED
      BY <3>2, <3>3
  <2>9. ASSUME NEW p \in Txns PROVE uniqueId'[p] < nextUniqueId'
    BY <1>1, <2>1, <2>3
  <2>10. ASSUME NEW p \in Txns, NEW s \in Txns, uniqueId'[p] = uniqueId'[s], uniqueId'[p] > 0
         PROVE  p = s
    BY <1>0, <1>1, <2>3, <2>10 DEF IdsInOrder
  <2>11. ASSUME NEW s \in Txns, s \in Queued' \/ cur'[Main] = s PROVE uniqueId'[s] > 0
    <3>1. s # t => s \in Queued \/ cur[Main] = s
      BY <2>1, <2>2, <2>11
    <3>2. s # t => uniqueId[s] > 0
      BY <1>0, <3>1 DEF IdsInOrder
    <3> QED
      BY <1>1, <2>3, <3>2
  <2> QED
    BY <2>6, <2>7, <2>8, <2>9, <2>10, <2>11 DEF IdsInOrder
<1>4. CASE TakeResult \/ Stop \/ UNCHANGED vars
  BY <1>2, <1>4 DEF TakeResult, GetTxnResult, Stop, vars, coreVars, clientVars, threadVars
<1>5. CASE PopRequest
  <2>1. PICK h \in Txns : h = Head(txnRequests)
    BY <1>0, <1>5, PopRequestEffect
  <2>2. /\ UNCHANGED <<nextUniqueId, uniqueId>> /\ h \in Queued /\ Queued = {h} \cup Queued'
        /\ txnRequests # <<>> /\ txnRequests' = Tail(txnRequests)
        /\ pc[Main] = "idle" /\ cur[Main] = NoTxn /\ cur'[Main] = h
    BY <1>0, <1>5, <2>1, PopRequestEffect DEF clientVars, Queued
  <2>3. Added' = Added
    BY <2>2, Constants DEF Added
  <2>4. Increasing(txnRequests', uniqueId) /\ Before({h}, Queued', uniqueId)
    BY <1>0, <1>1, <2>1, <2>2, IncreasingTail DEF IdsInOrder, Queued
  <2>5. \A t \in Txns : t \in Queued' \/ cur'[Main] = t => t \in Queued
    BY <2>2
  <2> QED
    BY <1>0, <2>2, <2>3, <2>4, <2>5 DEF IdsInOrder
<1>6. CASE ScanStep
  BY <1>0, <1>2, <1>6, ScanEffect DEF clientSide, clientVars
<1>7. CASE EndScan
  <2>1. PICK t \in Txns : t = cur[Main]
    BY <1>0, <1>7, EndScanEffect
  <2>2. UNCHANGED <<nextUniqueId, uniqueId, txnRequests>> /\ cur'[Main] = NoTxn
    BY <1>0, <1>7, EndScanEffect DEF clientSide, clientVars
  <2>3. Added' = Added \cup {t} /\ Queued' = Queued
    BY <1>7, <2>1, <2>2, AddedStep DEF Next, Scheduler, Queued
  <2>4. Before({t}, Queued, uniqueId)
    BY <1>0, <2>1 DEF IdsInOrder
  <2>5. \A s \in Txns : s \in Queued' \/ cur'[Main] = s => s \in Queued
    BY <2>2, <2>3, Constants
  <2>6. \A p \in Added', s \in Txns : s \in Queued' \/ cur'[Main] = s => uniqueId'[p] < uniqueId'[s]
    <3>1. ASSUME NEW p \in Added', NEW s \in Txns, s \in Queued' \/ cur'[Main] = s
          PROVE  uniqueId[p] < uniqueId[s]
      <4>1. s \in Queued
        BY <2>5, <3>1
      <4>2. CASE p = t
        BY <2>4, <4>1, <4>2 DEF Before
      <4>3. CASE p \in Added
        BY <1>0, <4>1, <4>3 DEF IdsInOrder
      <4> QED
        BY <2>3, <4>2, <4>3
    <3> QED
      BY <2>2, <3>1
  <2>7. \A s \in Txns : cur'[Main] # s
    BY <2>2, Constants
  <2> QED
    BY <1>0, <2>2, <2>3, <2>5, <2>6, <2>7 DEF IdsInOrder
<1>8. CASE SchedulerExit
  BY <1>2, <1>8 DEF SchedulerExit, Exit, clientSide, clientVars
<1>9. ASSUME NEW w \in Executors, Executor(w) PROVE IdsInOrder'
  BY <1>2, <1>9, ExecutorFrame DEF clientVars
<1> QED
  BY <1>3, <1>4, <1>5, <1>6, <1>7, <1>8, <1>9 DEF Next, Scheduler, ScanStep, Terminating

\* No step disturbs a transaction that stays outside the DAG.
LEMMA UntouchedStep ==
  ASSUME Inv, [Next]_vars
  PROVE  NewAreUntouched'
<1>0. TypeOK /\ ThreadPhase /\ NewAreUntouched /\ OnePlace /\ IndegreeCountsPending
  BY DEF Inv
<1> USE Constants
<1>1. Added \subseteq Added' /\ (EndScan => Added' = Added \cup {cur[Main]})
  BY AddedStep
<1>2. \A t \in Txns \ Added : ~Held(t)
  BY <1>0 DEF NewAreUntouched
<1>3. ASSUME UNCHANGED <<status, indegree, neighbors, readyTxns, txnResults, returned,
                         sharedHolders, lastExcl, cur[Main]>>,
             \A w \in Executors : cur'[w] = cur[w]
      PROVE  NewAreUntouched'
  BY <1>0, <1>1, <1>3 DEF NewAreUntouched, Held, Holds
<1> USE DEF clientSide, clientVars, dataVars, indivVars, scanVars, dagVars
<1>4. CASE (\E t \in Txns : Submit(t)) \/ Stop \/ UNCHANGED vars
  BY <1>3, <1>4 DEF Submit, NewTxnRequest, Stop, vars, coreVars, threadVars
<1>5. CASE TakeResult
  <2>1. /\ returned' = returned \cup {Head(txnResults)}
        /\ Elements(txnResults) = {Head(txnResults)} \cup Elements(txnResults')
    BY <1>0, <1>5, Types, ElementsTail DEF TakeResult, GetTxnResult
  <2>2. UNCHANGED <<status, indegree, neighbors, readyTxns, sharedHolders, lastExcl, cur>>
    BY <1>5 DEF TakeResult, GetTxnResult, threadVars
  <2> QED
    BY <1>0, <1>1, <2>1, <2>2 DEF NewAreUntouched, Held, Holds
<1>6. CASE PopRequest
  <2>1. PICK h \in Txns : h = Head(txnRequests)
    BY <1>0, <1>6, PopRequestEffect
  <2>2. /\ UNCHANGED <<status, readyTxns, txnResults, returned, sharedHolders, lastExcl>>
        /\ indegree' = [indegree EXCEPT ![h] = 0] /\ neighbors' = [neighbors EXCEPT ![h] = {}]
        /\ \A v \in Executors : cur'[v] = cur[v]
        /\ cur[Main] = NoTxn /\ cur'[Main] = h
    BY <1>0, <1>6, <2>1, PopRequestEffect
  <2>3. indegree \in [Txns -> Nat] /\ neighbors \in [Txns -> SUBSET Txns]
    BY <1>0, Types
  <2>4. /\ \A t \in Txns : t # h => indegree'[t] = indegree[t]
        /\ \A t \in Txns : neighbors'[t] \subseteq neighbors[t]
    BY <2>2, <2>3
  <2> QED
    BY <1>0, <1>1, <2>1, <2>2, <2>4 DEF NewAreUntouched, Held, Holds
<1>7. CASE ScanStep
  <2>1. PICK t \in Txns : t = cur[Main]
    BY <1>0, <1>7, ScanEffect
  <2>2. /\ UNCHANGED <<status, cur, readyTxns, txnResults, returned>>
        /\ \A k \in Keys : /\ sharedHolders'[k] \subseteq sharedHolders[k] \cup {t}
                           /\ lastExcl'[k] \in {lastExcl[k], t}
        /\ (\A p \in Txns : ~TryEdge(p)) => UNCHANGED dagVars
    BY <1>0, <1>7, <2>1, ScanEffect
  <2>3. ASSUME NEW p \in Txns, TryEdge(p)
        PROVE  /\ \A s \in Txns : s # t => indegree'[s] = indegree[s]
               /\ \A s \in Txns \ Added : neighbors'[s] = neighbors[s]
               /\ \A q \in Txns : neighbors'[q] \subseteq neighbors[q] \cup {t}
    <3>1. indegree \in [Txns -> Nat] /\ neighbors \in [Txns -> SUBSET Txns]
      BY <1>0, Types
    <3>2. /\ p \in Added
          /\ \/ UNCHANGED dagVars
             \/ /\ indegree' = [indegree EXCEPT ![t] = indegree[t] + 1]
                /\ neighbors' = [neighbors EXCEPT ![p] = neighbors[p] \cup {t}]
      BY <1>0, <2>1, <2>3, TryEdgeEffect
    <3> QED
      BY <3>1, <3>2
  <2>4. /\ \A s \in Txns : s # t => indegree'[s] = indegree[s]
        /\ \A s \in Txns \ Added : neighbors'[s] = neighbors[s]
        /\ \A q \in Txns : neighbors'[q] \subseteq neighbors[q] \cup {t}
    BY <2>2, <2>3
  <2>5. ASSUME NEW s \in Txns \ Added', cur'[Main] # s
        PROVE  /\ indegree'[s] = 0 /\ \A p \in Txns : s \notin neighbors'[p]
               /\ \A k \in Keys : s \notin sharedHolders'[k] /\ lastExcl'[k] # s
    <3>1. s \in Txns \ Added /\ cur[Main] # s /\ s # t
      BY <1>1, <2>1, <2>2, <2>5
    <3>2. /\ indegree[s] = 0 /\ \A p \in Txns : s \notin neighbors[p]
          /\ \A k \in Keys : s \notin sharedHolders[k] /\ lastExcl[k] # s
      BY <1>0, <3>1 DEF NewAreUntouched
    <3> QED
      BY <2>2, <2>4, <3>1, <3>2
  <2>6. ASSUME NEW s \in Txns \ Added'
        PROVE  /\ status'[s] = "INCOMPLETE" /\ neighbors'[s] = {}
               /\ s \notin Elements(readyTxns') /\ ~Held(s)'
               /\ s \notin Elements(txnResults') /\ s \notin returned'
    <3>1. s \in Txns \ Added
      BY <1>1, <2>6
    <3> QED
      BY <1>0, <2>2, <2>4, <3>1 DEF NewAreUntouched, Held, Holds
  <2> QED
    BY <2>5, <2>6 DEF NewAreUntouched
<1>8. CASE EndScan
  <2>1. PICK t \in Txns : t = cur[Main]
    BY <1>0, <1>8, EndScanEffect
  <2>2. /\ UNCHANGED <<status, indegree, neighbors, txnResults, returned, sharedHolders, lastExcl>>
        /\ \A v \in Executors : cur'[v] = cur[v]
        /\ Elements(readyTxns') \subseteq Elements(readyTxns) \cup {t}
        /\ Added' = Added \cup {t}
    BY <1>0, <1>1, <1>8, <2>1, EndScanEffect
  <2> QED
    BY <1>0, <2>1, <2>2 DEF NewAreUntouched, Held, Holds
<1>9. ASSUME NEW w \in Threads, Exit(w), UNCHANGED indivVars PROVE NewAreUntouched'
  BY <1>3, <1>9 DEF Exit
<1>10. ASSUME NEW w \in Executors, Executor(w) PROVE NewAreUntouched'
  <2>1. w \in Threads /\ w # Main /\ cur'[Main] = cur[Main]
    BY <1>10, ExecutorFrame
  <2>2. CASE PopReady(w)
    BY <1>0, <1>1, <2>1, <2>2, PopReadyEffect DEF NewAreUntouched, Held, Holds
  <2>3. CASE ExecuteAndDecide(w)
    <3>1. UNCHANGED <<cur, indegree, neighbors, readyTxns, txnResults, returned, sharedHolders, lastExcl>>
      BY <1>0, <2>3, ExecuteEffect
    <3>2. \A t \in Txns : t # cur[w] => status'[t] = status[t]
      BY <1>0, <2>3, ExecuteEffect
    <3>3. \A t \in Txns \ Added : t # cur[w]
      BY <1>2 DEF Held, Holds
    <3> QED
      BY <1>0, <1>1, <3>1, <3>2, <3>3 DEF NewAreUntouched, Held, Holds
  <2>4. CASE LockNeighbors(w) \/ UnlockNeighbors(w)
    <3>1. /\ UNCHANGED <<status, indegree, neighbors, readyTxns, txnResults, returned, sharedHolders,
                         lastExcl>>
          /\ \A v \in Executors : cur'[v] = cur[v] \/ cur'[v] = NoTxn
      BY <1>0, <2>1, <2>4, NeighborsMutexEffect
    <3> QED
      BY <1>0, <1>1, <2>1, <3>1 DEF NewAreUntouched, Held, Holds
  <2>5. ASSUME NEW t \in Txns, UnblockNeighbor(w, t) PROVE NewAreUntouched'
    <3>1. /\ UNCHANGED <<cur, status, neighbors, txnResults, returned, sharedHolders, lastExcl>>
          /\ indegree' = [indegree EXCEPT ![t] = indegree[t] - 1] /\ t \in Added
          /\ Elements(readyTxns') \subseteq Elements(readyTxns) \cup {t}
      BY <1>0, <2>5, UnblockEffect
    <3>2. \A s \in Txns \ Added : indegree'[s] = indegree[s]
      BY <1>0, <3>1, Types
    <3> QED
      BY <1>0, <1>1, <3>1, <3>2 DEF NewAreUntouched, Held, Holds
  <2>6. CASE ReturnResult(w)
    <3>1. /\ UNCHANGED <<cur, status, neighbors, indegree, readyTxns, returned, sharedHolders, lastExcl>>
          /\ Held(cur[w]) /\ Elements(txnResults') = Elements(txnResults) \cup {cur[w]}
      BY <1>0, <2>1, <2>6, ReturnEffect
    <3>2. \A t : Held(t)' <=> Held(t)
      BY <3>1 DEF Held, Holds
    <3> QED
      BY <1>0, <1>1, <1>2, <3>1, <3>2 DEF NewAreUntouched
  <2> QED
    BY <1>9, <1>10, <2>1, <2>2, <2>3, <2>4, <2>5, <2>6 DEF Executor, ExecutorExit
<1> QED
  BY <1>4, <1>5, <1>6, <1>7, <1>8, <1>9, <1>10 DEF Next, Scheduler, ScanStep, SchedulerExit, Terminating

\* Where a transaction is, in terms of the queues and the executors.
LEMMA HandedOverIs ==
  ASSUME NEW t
  PROVE  HandedOver(t) <=> t \in Elements(readyTxns) \/ Held(t) \/ Decided(t)
  BY DEF HandedOver, Held

\* Every step takes a transaction from one place to the next.
LEMMA PlaceStep ==
  ASSUME Inv, [Next]_vars
  PROVE  OnePlace'
<1>0. TypeOK /\ ThreadPhase /\ NewAreUntouched /\ OnePlace /\ IndegreeCountsPending
  BY DEF Inv
<1> USE Constants
<1>1. /\ Added \subseteq Txns /\ (~EndScan => Added' = Added)
      /\ EndScan => Added' = Added \cup {cur[Main]} /\ pc[Main] = "scanReads" /\ pc'[Main] = "idle"
  BY <1>0, AddedStep, EndScanEffect
<1>2. \A t : HandedOver(t) <=> t \in Elements(readyTxns) \/ Held(t) \/ Decided(t)
  BY HandedOverIs
<1>3. \A t : HandedOver(t)' <=> t \in Elements(readyTxns') \/ Held(t)' \/ Decided(t)'
  BY DEF HandedOver, Held
<1>4. ASSUME UNCHANGED <<status, readyTxns, txnResults, returned>>, ~EndScan,
             \A s \in Txns : indegree'[s] = indegree[s] \/ (~HandedOver(s) /\ s \notin Added),
             \A w \in Executors : cur'[w] = cur[w] /\ (pc'[w] = "unlock" <=> pc[w] = "unlock")
      PROVE  OnePlace'
  <2>1. /\ \A s : Held(s)' <=> Held(s)
        /\ \A s : Decided(s)' <=> Decided(s)
    BY <1>4 DEF Held, Holds, Decided
  <2>2. \A s : HandedOver(s)' <=> HandedOver(s)
    BY <1>2, <1>3, <1>4, <2>1
  <2>3. /\ \A s \in Txns : indegree'[s] > 0 => ~HandedOver(s)'
        /\ \A s \in Added' : indegree'[s] = 0 => HandedOver(s)'
    BY <1>0, <1>1, <1>4, <2>2 DEF OnePlace
  <2> QED
    BY <1>0, <1>4, <2>1, <2>3 DEF OnePlace
<1> USE DEF clientSide, clientVars, dataVars, indivVars, dagVars
<1>5. CASE (\E t \in Txns : Submit(t)) \/ Stop \/ UNCHANGED vars
  <2>1. UNCHANGED <<status, readyTxns, txnResults, returned, indegree, pc, cur>>
    BY <1>5 DEF Submit, NewTxnRequest, Stop, vars, coreVars, threadVars
  <2> QED
    BY <1>1, <1>4, <2>1
<1>6. CASE TakeResult
  <2>1. /\ returned' = returned \cup {Head(txnResults)}
        /\ Elements(txnResults) = {Head(txnResults)} \cup Elements(txnResults')
        /\ Distinct(txnResults') /\ Head(txnResults) \notin Elements(txnResults')
    BY <1>0, <1>6, Types, ElementsTail, DistinctTail DEF TakeResult, GetTxnResult, OnePlace
  <2>2. UNCHANGED <<status, indegree, readyTxns, pc, cur>>
    BY <1>6 DEF TakeResult, GetTxnResult, threadVars
  <2>3. /\ Elements(txnResults') \cup returned' = Elements(txnResults) \cup returned
        /\ Elements(txnResults') \cap returned' = {}
    BY <1>0, <2>1 DEF OnePlace
  <2>4. Added' = Added
    BY <1>1, <2>2
  <2> QED
    BY <1>0, <2>1, <2>2, <2>3, <2>4 DEF OnePlace, HandedOver, Held, Holds, Decided
<1>7. CASE PopRequest
  <2>1. PICK h \in Txns : h = Head(txnRequests)
    BY <1>0, <1>7, PopRequestEffect
  <2>2. /\ UNCHANGED <<status, readyTxns, txnResults, returned>> /\ pc'[Main] = "scanWrites"
        /\ indegree' = [indegree EXCEPT ![h] = 0] /\ h \in Queued /\ cur[Main] = NoTxn
        /\ \A w \in Executors : UNCHANGED <<cur[w], pc[w]>>
    BY <1>0, <1>7, <2>1, PopRequestEffect
  <2>3. indegree[h] = 0 /\ indegree \in [Txns -> Nat]
    BY <1>0, <2>2, Types DEF NewAreUntouched, Added
  <2> QED
    BY <1>1, <1>4, <2>2, <2>3
<1>8. CASE ScanStep
  <2>1. /\ UNCHANGED <<status, readyTxns, txnResults, returned, cur>> /\ pc'[Main] # "idle"
        /\ \A w \in Executors : pc'[w] = pc[w]
        /\ (\A p \in Txns : ~TryEdge(p)) => UNCHANGED dagVars
    BY <1>0, <1>8, ScanEffect
  <2>2. ASSUME NEW p \in Txns, TryEdge(p), NEW s \in Txns
        PROVE  indegree'[s] = indegree[s] \/ (~HandedOver(s) /\ s \notin Added)
    <3>1. PICK t \in Txns : t = cur[Main]
      BY <1>0, <2>2, TryEdgeEffect
    <3>2. UNCHANGED indegree \/ indegree' = [indegree EXCEPT ![t] = indegree[t] + 1]
      BY <1>0, <2>2, <3>1, TryEdgeEffect
    <3>3. t \notin Added
      BY <3>1 DEF Added
    <3>4. ~HandedOver(t)
      BY <1>0, <1>2, <3>3 DEF NewAreUntouched, Decided
    <3>5. indegree \in [Txns -> Nat]
      BY <1>0, Types
    <3> QED
      BY <3>2, <3>3, <3>4, <3>5
  <2> QED
    BY <1>1, <1>4, <2>1, <2>2
<1>9. CASE EndScan
  <2> PICK t \in Txns : t = cur[Main]
    BY <1>0, <1>9, EndScanEffect
  <2>1. /\ UNCHANGED <<status, txnResults, returned, indegree>> /\ t \notin Added
        /\ \A w \in Executors : UNCHANGED <<cur[w], pc[w]>>
        /\ indegree[t] = 0 => Elements(readyTxns') = Elements(readyTxns) \cup {t} /\ Distinct(readyTxns')
        /\ indegree[t] # 0 => readyTxns' = readyTxns
        /\ Added' = Added \cup {t}
    BY <1>0, <1>1, <1>9, EndScanEffect
  <2>2. /\ status[t] = "INCOMPLETE" /\ ~Held(t) /\ ~Decided(t) /\ ~HandedOver(t)
    BY <1>0, <1>2, <2>1 DEF NewAreUntouched, Decided
  <2>3. /\ \A s : Held(s)' <=> Held(s)
        /\ \A s : Decided(s)' <=> Decided(s)
    BY <2>1 DEF Held, Holds, Decided
  <2>4. \A s \in Txns : s # t => (HandedOver(s)' <=> HandedOver(s))
    BY <1>2, <1>3, <2>1, <2>3
  <2>5. HandedOver(t)' <=> indegree[t] = 0
    BY <1>2, <1>3, <2>1, <2>2, <2>3
  <2>6. indegree \in [Txns -> Nat]
    BY <1>0, Types
  <2>7. \A s \in Txns : indegree'[s] > 0 => ~HandedOver(s)'
    BY <1>0, <2>1, <2>4, <2>5 DEF OnePlace
  <2>8. \A s \in Added' : indegree'[s] = 0 => HandedOver(s)'
    BY <1>0, <1>1, <2>1, <2>4, <2>5 DEF OnePlace
  <2>9. Distinct(readyTxns') /\ \A s \in Elements(readyTxns') : status'[s] = "INCOMPLETE" /\ ~Held(s)'
    BY <1>0, <2>1, <2>2, <2>3 DEF OnePlace
  <2> QED
    BY <1>0, <2>1, <2>3, <2>7, <2>8, <2>9 DEF OnePlace
<1>10. ASSUME NEW w \in Threads, Exit(w), UNCHANGED indivVars PROVE OnePlace'
  <2>1. /\ pc[w] = "idle" /\ pc' = [pc EXCEPT ![w] = "exited"] /\ pc \in [Threads -> Pcs]
        /\ UNCHANGED <<status, readyTxns, txnResults, returned, indegree, cur>>
    BY <1>0, <1>10, Types DEF Exit, Goto
  <2>2. ~EndScan
    BY <1>1, <2>1
  <2>3. \A v \in Executors : pc'[v] = "unlock" <=> pc[v] = "unlock"
    BY <2>1
  <2> QED
    BY <1>4, <2>1, <2>2, <2>3
<1>11. ASSUME NEW w \in Executors, Executor(w) PROVE OnePlace'
  <2>1. w \in Threads /\ w # Main
    OBVIOUS
  <2>2. Added' = Added /\ ~EndScan
    <3>1. UNCHANGED pc[Main]
      BY <1>11, ExecutorFrame
    <3> QED
      BY <1>1, <3>1
  <2>3. CASE PopReady(w)
    <3> DEFINE h == Head(readyTxns)
    <3>1. /\ UNCHANGED <<status, txnResults, returned, indegree>>
          /\ \A v \in Threads : v # w => cur'[v] = cur[v] /\ pc'[v] = pc[v]
          /\ cur[w] = NoTxn /\ cur'[w] = h /\ pc'[w] = "readset"
          /\ h \in Txns /\ h \in Elements(readyTxns)
          /\ status[h] = "INCOMPLETE" /\ ~Held(h)
          /\ Elements(readyTxns) = {h} \cup Elements(readyTxns')
          /\ h \notin Elements(readyTxns') /\ Distinct(readyTxns')
      BY <1>0, <2>1, <2>3, PopReadyEffect
    <3> HIDE DEF h
    <3>2. \A s \in Txns : Held(s)' <=> Held(s) \/ s = h
      BY <2>1, <3>1 DEF Held, Holds
    <3>3. \A s : Decided(s)' <=> Decided(s)
      BY <3>1 DEF Decided
    <3>4. \A s \in Txns : HandedOver(s)' <=> HandedOver(s)
      BY <1>2, <1>3, <3>1, <3>2, <3>3
    <3>5. Elements(readyTxns') \subseteq Txns /\ Elements(txnResults) \cup returned \subseteq Txns
      BY <1>0, <3>1, Types
    <3>6. \A v, u \in Executors : cur'[v] = cur'[u] /\ cur'[v] # NoTxn => v = u
      <4>1. \A v \in Executors : cur[v] # h
        BY <3>1 DEF Held, Holds
      <4> QED
        BY <1>0, <2>1, <3>1, <4>1 DEF OnePlace
    <3>7. ~Decided(h) /\ h \notin Elements(txnResults) \cup returned
      BY <1>0, <3>1 DEF Decided, OnePlace
    <3>8. \A s \in Elements(readyTxns') : status'[s] = "INCOMPLETE" /\ ~Held(s)'
      BY <1>0, <3>1, <3>2, <3>5 DEF OnePlace
    <3>9. /\ \A s \in Txns : indegree'[s] > 0 => ~HandedOver(s)'
          /\ \A s \in Added' : indegree'[s] = 0 => HandedOver(s)'
      BY <1>0, <1>1, <2>2, <3>1, <3>4 DEF OnePlace
    <3>10. /\ \A s \in Txns : status'[s] # "INCOMPLETE" => Held(s)' \/ Decided(s)'
           /\ \A s \in Txns : Decided(s)' => Held(s)' \/ s \in Elements(txnResults') \cup returned'
           /\ \A s \in Elements(txnResults') \cup returned' : Decided(s)'
           /\ Elements(txnResults') \cap returned' = {} /\ Distinct(txnResults')
      BY <1>0, <3>1, <3>2, <3>3, <3>5 DEF OnePlace
    <3>11. \A v \in Executors : cur'[v] \in Txns =>
              (pc'[v] = "unlock" <=> cur'[v] \in Elements(txnResults') \cup returned')
      BY <1>0, <2>1, <3>1, <3>7 DEF OnePlace
    <3> QED
      BY <3>1, <3>6, <3>8, <3>9, <3>10, <3>11 DEF OnePlace
  <2>4. CASE ExecuteAndDecide(w)
    <3> DEFINE c == cur[w]
    <3>1. /\ UNCHANGED <<cur, txnResults, returned, indegree, readyTxns>>
          /\ c \in Txns /\ ~Decided(c)
          /\ \A v \in Threads : v # w => pc'[v] = pc[v]
          /\ pc[w] \in {"readset", "writeset", "decide", "apply"}
          /\ pc'[w] \in {"readset", "writeset", "decide", "apply", "lock"}
      BY <1>0, <2>4, ExecuteEffect
    <3>2. \A s \in Txns : s # c => status'[s] = status[s]
      BY <1>0, <2>4, ExecuteEffect
    <3>3. Held(c) /\ \A s : Held(s)' <=> Held(s)
      BY <3>1 DEF Held, Holds
    <3> HIDE DEF c
    <3>4. \A s \in Txns : /\ s # c => (Decided(s)' <=> Decided(s))
                          /\ HandedOver(s)' <=> HandedOver(s)
      BY <1>2, <1>3, <3>1, <3>2, <3>3 DEF Decided
    <3>5. /\ Elements(readyTxns) \subseteq Txns /\ Elements(txnResults) \cup returned \subseteq Txns
          /\ c \notin Elements(readyTxns) /\ c \notin Elements(txnResults) \cup returned
      BY <1>0, <3>1, <3>3, Types DEF OnePlace
    <3>6. \A s \in Elements(readyTxns') : status'[s] = "INCOMPLETE" /\ ~Held(s)'
      BY <1>0, <3>1, <3>2, <3>3, <3>5 DEF OnePlace
    <3>7. /\ \A s \in Txns : indegree'[s] > 0 => ~HandedOver(s)'
          /\ \A s \in Added' : indegree'[s] = 0 => HandedOver(s)'
      BY <1>0, <1>1, <2>2, <3>1, <3>4 DEF OnePlace
    <3>8. /\ \A s \in Txns : status'[s] # "INCOMPLETE" => Held(s)' \/ Decided(s)'
          /\ \A s \in Txns : Decided(s)' => Held(s)' \/ s \in Elements(txnResults') \cup returned'
          /\ \A s \in Elements(txnResults') \cup returned' : Decided(s)'
      BY <1>0, <3>1, <3>2, <3>3, <3>4, <3>5 DEF OnePlace
    <3>9. /\ Distinct(readyTxns') /\ Distinct(txnResults')
          /\ \A v, u \in Executors : cur'[v] = cur'[u] /\ cur'[v] # NoTxn => v = u
          /\ Elements(txnResults') \cap returned' = {}
          /\ \A v \in Executors : cur'[v] \in Txns =>
                (pc'[v] = "unlock" <=> cur'[v] \in Elements(txnResults') \cup returned')
      BY <1>0, <3>1 DEF OnePlace
    <3> QED
      BY <3>6, <3>7, <3>8, <3>9 DEF OnePlace
  <2>5. CASE LockNeighbors(w)
    <3>1. /\ UNCHANGED <<status, readyTxns, txnResults, returned, indegree, cur>>
          /\ \A v \in Threads : v # w => pc'[v] = pc[v]
          /\ pc[w] = "lock" /\ pc'[w] = "unblock"
      BY <1>0, <2>5, NeighborsMutexEffect
    <3> QED
      BY <1>4, <2>2, <3>1
  <2>6. ASSUME NEW t \in Txns, UnblockNeighbor(w, t) PROVE OnePlace'
    <3>1. /\ UNCHANGED <<pc, cur, status, txnResults, returned>>
          /\ indegree[t] > 0 /\ indegree' = [indegree EXCEPT ![t] = indegree[t] - 1]
          /\ ~HandedOver(t) /\ status[t] = "INCOMPLETE"
          /\ indegree[t] = 1 => Elements(readyTxns') = Elements(readyTxns) \cup {t} /\ Distinct(readyTxns')
          /\ indegree[t] # 1 => readyTxns' = readyTxns
      BY <1>0, <2>6, UnblockEffect
    <3>2. indegree \in [Txns -> Nat]
      BY <1>0, Types
    <3>3. \A s : (Held(s)' <=> Held(s)) /\ (Decided(s)' <=> Decided(s))
      BY <3>1 DEF Held, Holds, Decided
    <3>4. \A s \in Txns : s # t => indegree'[s] = indegree[s] /\ (HandedOver(s)' <=> HandedOver(s))
      BY <1>2, <1>3, <3>1, <3>2, <3>3
    <3>5. indegree'[t] > 0 => ~HandedOver(t)'
      BY <1>2, <1>3, <3>1, <3>2, <3>3
    <3>6. indegree'[t] = 0 => HandedOver(t)'
      BY <1>3, <3>1, <3>2
    <3>7. /\ \A s \in Txns : indegree'[s] > 0 => ~HandedOver(s)'
          /\ \A s \in Added' : indegree'[s] = 0 => HandedOver(s)'
      BY <1>0, <1>1, <2>2, <3>4, <3>5, <3>6 DEF OnePlace
    <3>8. Distinct(readyTxns') /\ \A s \in Elements(readyTxns') : status'[s] = "INCOMPLETE" /\ ~Held(s)'
      BY <1>0, <1>2, <3>1, <3>3 DEF OnePlace
    <3> QED
      BY <1>0, <3>1, <3>3, <3>7, <3>8 DEF OnePlace
  <2>7. CASE ReturnResult(w)
    <3> DEFINE c == cur[w]
    <3>1. /\ UNCHANGED <<cur, status, returned, indegree, readyTxns>>
          /\ \A v \in Threads : v # w => pc'[v] = pc[v]
          /\ pc'[w] = "unlock" /\ c \in Txns /\ Decided(c)
          /\ c \notin Elements(txnResults) \cup returned
          /\ Elements(txnResults') = Elements(txnResults) \cup {c} /\ Distinct(txnResults')
      BY <1>0, <2>1, <2>7, ReturnEffect
    <3>2. \A v \in Executors : v # w => cur[v] # c
      BY <1>0, <3>1 DEF OnePlace
    <3>3. \A v \in Executors : cur'[v] \in Txns =>
             (pc'[v] = "unlock" <=> cur'[v] \in Elements(txnResults') \cup returned')
      BY <1>0, <2>1, <3>1, <3>2 DEF OnePlace
    <3> HIDE DEF c
    <3>4. \A s : (Held(s)' <=> Held(s)) /\ (Decided(s)' <=> Decided(s))
      BY <3>1 DEF Decided, Held, Holds
    <3>5. \A s \in Txns : HandedOver(s)' <=> HandedOver(s)
      BY <1>2, <1>3, <3>1, <3>4
    <3>6. /\ \A s \in Txns : indegree'[s] > 0 => ~HandedOver(s)'
          /\ \A s \in Added' : indegree'[s] = 0 => HandedOver(s)'
      BY <1>0, <1>1, <2>2, <3>1, <3>5 DEF OnePlace
    <3>7. /\ \A s \in Txns : Decided(s)' => Held(s)' \/ s \in Elements(txnResults') \cup returned'
          /\ \A s \in Elements(txnResults') \cup returned' : Decided(s)'
          /\ Elements(txnResults') \cap returned' = {}
      BY <1>0, <3>1, <3>4 DEF OnePlace
    <3> QED
      BY <1>0, <3>1, <3>3, <3>4, <3>6, <3>7 DEF OnePlace
  <2>8. CASE UnlockNeighbors(w)
    <3> DEFINE c == cur[w]
    <3>1. /\ UNCHANGED <<status, txnResults, returned, indegree, readyTxns>>
          /\ \A v \in Threads : v # w => pc'[v] = pc[v] /\ cur'[v] = cur[v]
          /\ pc[w] = "unlock" /\ pc'[w] = "idle" /\ cur'[w] = NoTxn /\ c \in Txns
      BY <1>0, <2>1, <2>8, NeighborsMutexEffect
    <3>2. Decided(c) /\ c \in Elements(txnResults) \cup returned
      BY <1>0, <3>1 DEF OnePlace
    <3>3. \A v \in Executors : v # w => cur[v] # c
      BY <1>0, <3>1 DEF OnePlace
    <3>4. \A s \in Txns : Held(s)' <=> Held(s) /\ s # c
      BY <2>1, <3>1, <3>3 DEF Held, Holds
    <3> HIDE DEF c
    <3>5. \A s : Decided(s)' <=> Decided(s)
      BY <3>1 DEF Decided
    <3>6. \A s \in Txns : HandedOver(s)' <=> HandedOver(s)
      BY <1>2, <1>3, <3>1, <3>2, <3>4, <3>5
    <3>7. Elements(readyTxns) \subseteq Txns
      BY <1>0, Types
    <3>8. /\ \A s \in Txns : indegree'[s] > 0 => ~HandedOver(s)'
          /\ \A s \in Added' : indegree'[s] = 0 => HandedOver(s)'
      BY <1>0, <1>1, <2>2, <3>1, <3>6 DEF OnePlace
    <3>9. /\ \A v, u \in Executors : cur'[v] = cur'[u] /\ cur'[v] # NoTxn => v = u
          /\ \A v \in Executors : cur'[v] \in Txns =>
                (pc'[v] = "unlock" <=> cur'[v] \in Elements(txnResults') \cup returned')
      BY <1>0, <2>1, <3>1 DEF OnePlace
    <3>10. /\ \A s \in Elements(readyTxns') : status'[s] = "INCOMPLETE" /\ ~Held(s)'
           /\ \A s \in Txns : status'[s] # "INCOMPLETE" => Held(s)' \/ Decided(s)'
           /\ \A s \in Txns : Decided(s)' => Held(s)' \/ s \in Elements(txnResults') \cup returned'
           /\ \A s \in Elements(txnResults') \cup returned' : Decided(s)'
      BY <1>0, <3>1, <3>2, <3>4, <3>5, <3>7 DEF OnePlace
    <3> QED
      BY <1>0, <3>1, <3>8, <3>9, <3>10 DEF OnePlace
  <2> QED
    BY <1>10, <1>11, <2>1, <2>3, <2>4, <2>5, <2>6, <2>7, <2>8 DEF Executor, ExecutorExit
<1> QED
  BY <1>5, <1>6, <1>7, <1>8, <1>9, <1>10, <1>11 DEF Next, Scheduler, ScanStep, SchedulerExit, Terminating

-----------------------------------------------------------------------------
(* What is still to be counted down. *)

\* The executor of p has released t, or is past its loop over the neighbours.
Done(p, t) ==
    /\ Decided(p)
    /\ \A w \in Executors : cur[w] = p =>
          \/ pc[w] = "unlock"
          \/ pc[w] = "unblock" /\ t \notin todo[w]

\* An edge is pending until then.
LEMMA PendingIs ==
  TypeOK /\ ThreadPhase /\ OnePlace =>
     \A p, t \in Txns : Pending(p, t) <=> t \in neighbors[p] /\ ~Done(p, t)
<1> SUFFICES ASSUME TypeOK, ThreadPhase, OnePlace, NEW p \in Txns, NEW t \in Txns
             PROVE  Pending(p, t) <=> t \in neighbors[p] /\ ~Done(p, t)
  OBVIOUS
<1>1. p \in Elements(readyTxns) => ~Decided(p)
  BY DEF OnePlace, Decided
<1>2. ASSUME NEW w \in Executors, cur[w] = p
      PROVE  /\ pc[w] \in {"readset", "writeset", "decide", "apply", "lock", "unblock", "unlock"}
             /\ ~Decided(p) => pc[w] \in {"readset", "writeset", "decide", "apply"}
  <2>1. w \in Threads /\ pc[w] \in Pcs /\ cur[w] # NoTxn
    BY <1>2, Types, Constants
  <2> QED
    BY <1>2, <2>1 DEF ThreadPhase, Pcs, Decided
<1>3. ASSUME Pending(p, t) PROVE t \in neighbors[p] /\ ~Done(p, t)
  BY <1>1, <1>3, Zenon DEF Pending, PendingIn, HandedOver, Holds, Done
<1>4. ASSUME t \in neighbors[p], ~Done(p, t) PROVE Pending(p, t)
  <2>1. CASE ~HandedOver(p)
    BY <1>4, <2>1 DEF Pending, PendingIn
  <2>2. CASE p \in Elements(readyTxns)
    BY <1>4, <2>2 DEF Pending, PendingIn
  <2>3. ASSUME NEW w \in Executors, cur[w] = p, ~Decided(p) PROVE Pending(p, t)
    BY <1>2, <1>4, <2>3 DEF Pending, PendingIn, Holds
  <2>4. CASE Decided(p)
    <3>1. PICK w \in Executors : /\ cur[w] = p /\ pc[w] # "unlock"
                                 /\ pc[w] = "unblock" => t \in todo[w]
      BY <1>4, <2>4 DEF Done
    <3> QED
      BY <1>2, <1>4, <3>1 DEF Pending, PendingIn, Holds
  <2> QED
    BY <2>1, <2>2, <2>3, <2>4 DEF HandedOver, Holds
<1> QED
  BY <1>3, <1>4

\* Every step keeps the counts.
LEMMA CountsStep ==
  ASSUME Inv, [Next]_vars, TypeOK', ThreadPhase', OnePlace'
  PROVE  IndegreeCountsPending'
<1>0. TypeOK /\ ThreadPhase /\ NewAreUntouched /\ OnePlace /\ IndegreeCountsPending
  BY DEF Inv
<1> USE Constants
<1>1. /\ pc \in [Threads -> Pcs] /\ cur \in [Threads -> Values]
      /\ todo \in [Threads -> SUBSET (Keys \cup Txns)]
      /\ neighbors \in [Txns -> SUBSET Txns] /\ indegree \in [Txns -> Nat]
  BY <1>0, Types
<1>2. /\ \A p, t \in Txns : Pending(p, t) <=> t \in neighbors[p] /\ ~Done(p, t)
      /\ \A p, t \in Txns : Pending(p, t)' <=> t \in neighbors'[p] /\ ~Done(p, t)'
  <2>1. (TypeOK /\ ThreadPhase /\ OnePlace =>
           \A p, t \in Txns : Pending(p, t) <=> t \in neighbors[p] /\ ~Done(p, t))'
    BY PendingIs, PTL
  <2> QED
    BY <1>0, <2>1, PendingIs
<1>3. ASSUME UNCHANGED <<neighbors, indegree>>,
             \A p, t \in Txns : t \in neighbors[p] => (Done(p, t)' <=> Done(p, t))
      PROVE  IndegreeCountsPending'
  <2>1. \A t \in Txns : {p \in Txns : Pending(p, t)}' = {p \in Txns : Pending(p, t)}
    BY <1>2, <1>3
  <2> QED
    BY <1>0, <1>3, <2>1 DEF IndegreeCountsPending
<1>4. ASSUME UNCHANGED status, \A w \in Executors : UNCHANGED <<pc[w], cur[w], todo[w]>>
      PROVE  \A p, t \in Txns : Done(p, t)' <=> Done(p, t)
  BY <1>4 DEF Done, Decided
<1> USE DEF clientSide, clientVars, dataVars, indivVars, dagVars
<1>5. CASE (\E t \in Txns : Submit(t)) \/ TakeResult \/ Stop \/ UNCHANGED vars
  BY <1>3, <1>4, <1>5 DEF Submit, NewTxnRequest, TakeResult, GetTxnResult, Stop, vars, coreVars,
        threadVars
<1>6. CASE PopRequest
  <2>1. PICK h \in Txns : h = Head(txnRequests)
    BY <1>0, <1>6, PopRequestEffect
  <2>2. /\ UNCHANGED status /\ h \in Queued /\ cur[Main] = NoTxn
        /\ \A w \in Executors : UNCHANGED <<pc[w], cur[w], todo[w]>>
        /\ indegree' = [indegree EXCEPT ![h] = 0] /\ neighbors' = [neighbors EXCEPT ![h] = {}]
    BY <1>0, <1>6, <2>1, PopRequestEffect
  <2>3. indegree[h] = 0 /\ neighbors[h] = {}
    BY <1>0, <2>2 DEF NewAreUntouched, Added
  <2>4. UNCHANGED <<neighbors, indegree>>
    BY <1>1, <2>2, <2>3
  <2> QED
    BY <1>3, <1>4, <2>2, <2>4
<1>7. CASE ScanStep /\ UNCHANGED dagVars
  BY <1>0, <1>3, <1>4, <1>7, ScanEffect
<1>8. ASSUME NEW q \in Txns, TryEdge(q), ~UNCHANGED dagVars PROVE IndegreeCountsPending'
  <2>1. PICK t \in Txns : t = cur[Main]
    BY <1>0, <1>8, TryEdgeEffect
  <2>2. /\ UNCHANGED coreVars /\ t \notin neighbors[q]
        /\ indegree' = [indegree EXCEPT ![t] = indegree[t] + 1]
        /\ neighbors' = [neighbors EXCEPT ![q] = neighbors[q] \cup {t}]
        /\ Decided(q) => \E w \in Executors : cur[w] = q /\ pc[w] = "lock"
    BY <1>0, <1>8, <2>1, TryEdgeEffect
  <2>3. \A p, s \in Txns : Done(p, s)' <=> Done(p, s)
    BY <1>4, <2>2 DEF coreVars, threadVars
  <2>4. ~Done(q, t)
    BY <2>2 DEF Done
  <2>5. \A p, s \in Txns : Pending(p, s)' <=> Pending(p, s) \/ (p = q /\ s = t)
    BY <1>1, <1>2, <2>2, <2>3, <2>4
  <2>6. ~Pending(q, t)
    BY <1>2, <2>2
  <2>7. ASSUME NEW s \in Txns PROVE indegree'[s] = Cardinality({p \in Txns : Pending(p, s)}')
    <3> DEFINE P == {p \in Txns : Pending(p, s)}
    <3>1. indegree[s] = Cardinality(P) /\ IsFiniteSet(P)
      BY <1>0, FS_Subset DEF IndegreeCountsPending
    <3>2. CASE s = t
      <4>1. P' = P \cup {q} /\ q \notin P
        BY <2>5, <2>6, <3>2
      <4>2. Cardinality(P \cup {q}) = Cardinality(P) + 1
        BY <3>1, <4>1, FS_AddElement
      <4>3. Cardinality(P') = Cardinality(P \cup {q})
        BY <4>1, Zenon
      <4> QED
        BY <1>1, <2>2, <3>1, <3>2, <4>2, <4>3
    <3>3. CASE s # t
      <4>1. P' = P
        BY <2>5, <3>3
      <4> QED
        BY <1>1, <2>2, <3>1, <3>3, <4>1
    <3> QED
      BY <3>2, <3>3
  <2> QED
    BY <2>7 DEF IndegreeCountsPending
<1>9. CASE EndScan
  BY <1>0, <1>3, <1>4, <1>9, EndScanEffect
<1>10. ASSUME NEW w \in Threads, Exit(w), UNCHANGED indivVars PROVE IndegreeCountsPending'
  <2>1. /\ pc[w] = "idle" /\ pc' = [pc EXCEPT ![w] = "exited"]
        /\ UNCHANGED <<status, cur, todo, neighbors, indegree>>
    BY <1>10 DEF Exit, Goto
  <2>2. \A v \in Executors : v # w => UNCHANGED <<pc[v], cur[v], todo[v]>>
    BY <1>1, <2>1
  <2>3. w \in Executors => cur[w] = NoTxn /\ cur'[w] = NoTxn
    BY <1>0, <2>1 DEF ThreadPhase
  <2>4. \A p, t \in Txns : Done(p, t)' <=> Done(p, t)
    BY <2>1, <2>2, <2>3 DEF Done, Decided
  <2> QED
    BY <1>3, <2>1, <2>4
<1>11. ASSUME NEW w \in Executors, Executor(w) PROVE IndegreeCountsPending'
  <2>1. w \in Threads /\ w # Main
    OBVIOUS
  <2>2. CASE PopReady(w)
    <3>1. /\ UNCHANGED <<status, neighbors, indegree>>
          /\ \A v \in Executors : v # w => UNCHANGED <<pc[v], cur[v], todo[v]>>
          /\ cur[w] = NoTxn /\ ~Decided(cur'[w])
      BY <1>0, <2>1, <2>2, PopReadyEffect DEF Decided
    <3>2. \A p, t \in Txns : Done(p, t)' <=> Done(p, t)
      BY <3>1 DEF Done, Decided
    <3> QED
      BY <1>3, <3>1, <3>2
  <2>3. CASE ExecuteAndDecide(w)
    <3> DEFINE c == cur[w]
    <3>1. /\ UNCHANGED <<cur, neighbors, indegree>> /\ c \in Txns /\ ~Decided(c)
          /\ pc'[w] \in {"readset", "writeset", "decide", "apply", "lock"}
      BY <1>0, <2>3, ExecuteEffect
    <3>2. \A v \in Executors : v # w => UNCHANGED <<pc[v], cur[v], todo[v]>>
      BY <1>0, <2>1, <2>3, <3>1, ExecuteEffect
    <3>3. \A s \in Txns : s # c => status'[s] = status[s]
      BY <1>0, <2>3, ExecuteEffect
    <3>4. ASSUME NEW p \in Txns, NEW t \in Txns PROVE Done(p, t)' <=> Done(p, t)
      <4>1. CASE p = c
        <5>1. ~Done(p, t) /\ ~Done(p, t)'
          BY <3>1, <4>1 DEF Done
        <5> QED
          BY <5>1
      <4>2. CASE p # c
        BY <3>1, <3>2, <3>3, <4>2 DEF Done, Decided
      <4> QED
        BY <4>1, <4>2
    <3> QED
      BY <1>3, <3>1, <3>4
  <2>4. CASE LockNeighbors(w)
    <3> DEFINE c == cur[w]
    <3>1. /\ UNCHANGED <<cur, status, neighbors, indegree>>
          /\ \A v \in Executors : v # w => UNCHANGED <<pc[v], cur[v], todo[v]>>
          /\ pc[w] = "lock" /\ pc'[w] = "unblock" /\ todo'[w] = neighbors[c]
      BY <1>0, <2>1, <2>4, NeighborsMutexEffect
    <3>2. ASSUME NEW p \in Txns, NEW t \in neighbors[p] PROVE Done(p, t)' <=> Done(p, t)
      <4>1. CASE p = c
        <5>1. ~Done(p, t) /\ ~Done(p, t)'
          BY <3>1, <3>2, <4>1 DEF Done
        <5> QED
          BY <5>1
      <4>2. CASE p # c
        BY <3>1, <4>2 DEF Done, Decided
      <4> QED
        BY <4>1, <4>2
    <3> QED
      BY <1>3, <3>1, <3>2
  <2>5. ASSUME NEW t \in Txns, UnblockNeighbor(w, t) PROVE IndegreeCountsPending'
    <3> PICK c \in Txns : c = cur[w]
      BY <1>0, <2>5, UnblockEffect
    <3>1. /\ UNCHANGED <<pc, cur, status, neighbors>>
          /\ pc[w] = "unblock" /\ t \in todo[w] /\ t \in neighbors[c]
          /\ todo' = [todo EXCEPT ![w] = todo[w] \ {t}]
          /\ indegree' = [indegree EXCEPT ![t] = indegree[t] - 1]
      BY <1>0, <2>5, UnblockEffect
    <3>2. \A v \in Executors : cur[v] = c => v = w
      BY <1>0 DEF OnePlace
    <3>3. Decided(c)
      BY <1>0, <3>1 DEF ThreadPhase
    <3>4. Pending(c, t) /\ ~Pending(c, t)'
      <4>1. ~Done(c, t)
        BY <3>1 DEF Done
      <4>2. t \notin todo'[w]
        BY <1>1, <2>1, <3>1
      <4>3. Done(c, t)'
        BY <3>1, <3>2, <3>3, <4>2 DEF Done, Decided
      <4> QED
        BY <1>2, <3>1, <4>1, <4>3
    <3>5. ASSUME NEW p \in Txns, NEW s \in Txns, p # c \/ s # t
          PROVE  Pending(p, s)' <=> Pending(p, s)
      <4>1. \A v \in Executors : cur[v] = p => (s \in todo'[v] <=> s \in todo[v])
        BY <1>1, <2>1, <3>1, <3>2, <3>5
      <4>2. Done(p, s)' <=> Done(p, s)
        BY <3>1, <4>1 DEF Done, Decided
      <4> QED
        BY <1>2, <3>1, <4>2
    <3>6. ASSUME NEW s \in Txns PROVE indegree'[s] = Cardinality({p \in Txns : Pending(p, s)}')
      <4> DEFINE P == {p \in Txns : Pending(p, s)}
      <4>1. indegree[s] = Cardinality(P) /\ IsFiniteSet(P)
        BY <1>0, FS_Subset DEF IndegreeCountsPending
      <4>2. CASE s = t
        <5>1. P' = P \ {c} /\ c \in P
          BY <3>4, <3>5, <4>2
        <5>2. PICK A : A = P
          OBVIOUS
        <5>3. Cardinality(A \ {c}) = Cardinality(A) - 1
          <6>1. IsFiniteSet(A) /\ c \in A
            BY <4>1, <5>1, <5>2
          <6> QED
            BY <6>1, FS_RemoveElement
        <5>4. Cardinality(P') = Cardinality(P) - 1
          BY <5>1, <5>2, <5>3
        <5> QED
          BY <1>1, <3>1, <4>1, <4>2, <5>4
      <4>3. CASE s # t
        <5>1. P' = P
          BY <3>5, <4>3
        <5> QED
          BY <1>1, <3>1, <4>1, <4>3, <5>1
      <4> QED
        BY <4>2, <4>3
    <3> QED
      BY <3>6 DEF IndegreeCountsPending
  <2>6. CASE ReturnResult(w)
    <3>1. /\ UNCHANGED <<status, cur, todo, neighbors, indegree>>
          /\ \A v \in Executors : v # w => UNCHANGED pc[v]
          /\ pc[w] = "unblock" /\ todo[w] = {} /\ pc'[w] = "unlock"
      BY <1>0, <2>1, <2>6, ReturnEffect
    <3>2. \A p, t \in Txns : Done(p, t)' <=> Done(p, t)
      BY <3>1 DEF Done, Decided
    <3> QED
      BY <1>3, <3>1, <3>2
  <2>7. CASE UnlockNeighbors(w)
    <3>1. /\ UNCHANGED <<status, neighbors, indegree>>
          /\ \A v \in Executors : v # w => UNCHANGED <<pc[v], cur[v], todo[v]>>
          /\ pc[w] = "unlock" /\ cur'[w] = NoTxn
      BY <1>0, <2>1, <2>7, NeighborsMutexEffect
    <3>2. \A p, t \in Txns : Done(p, t)' <=> Done(p, t)
      BY <3>1 DEF Done, Decided
    <3> QED
      BY <1>3, <3>1, <3>2
  <2> QED
    BY <1>10, <1>11, <2>1, <2>2, <2>3, <2>4, <2>5, <2>6, <2>7 DEF Executor, ExecutorExit
<1>12. CASE ScanStep
  <2>1. ASSUME ~UNCHANGED dagVars PROVE \E q \in Txns : TryEdge(q)
    BY <1>0, <1>12, <2>1, ScanEffect
  <2> QED
    BY <1>7, <1>8, <1>12, <2>1
<1> QED
  BY <1>5, <1>6, <1>9, <1>10, <1>11, <1>12 DEF Next, Scheduler, ScanStep, SchedulerExit, Terminating

-----------------------------------------------------------------------------
(* The inductive invariant holds. *)

LEMMA InvInit == Init => Inv
<1> SUFFICES ASSUME Init PROVE Inv
  OBVIOUS
<1> USE Constants
<1>1. TypeOK
  BY TypeInit
<1>2. /\ nextUniqueId = 1 /\ uniqueId = [t \in Txns |-> 0] /\ txnRequests = <<>>
      /\ txnResults = <<>> /\ returned = {} /\ readyTxns = <<>>
      /\ status = [t \in Txns |-> "INCOMPLETE"]
      /\ pc = [w \in Threads |-> "idle"] /\ cur = [w \in Threads |-> NoTxn]
      /\ sharedHolders = [k \in Keys |-> {}] /\ lastExcl = [k \in Keys |-> NoTxn]
      /\ indegree = [t \in Txns |-> 0] /\ neighbors = [t \in Txns |-> {}]
      /\ targets = {} /\ neighborsMutex = {} /\ indegreeMutex = {}
  BY Zenon DEF Init, ContInit, CoreInit
<1>3. Elements(<<>>) = {}
  BY ElementsEmpty
<1>4. ThreadPhase
  BY <1>2 DEF ThreadPhase
<1>5. Queued = {} /\ Added = {} /\ \A t \in Txns : cur[Main] # t
  BY <1>2, <1>3 DEF Queued, Added
<1>6. IdsInOrder
  BY <1>2, <1>3, <1>5 DEF IdsInOrder, Increasing, Before
<1>7. \A t \in Txns : ~Held(t) /\ ~Decided(t) /\ ~HandedOver(t)
  BY <1>2, <1>3 DEF Held, Holds, Decided, HandedOver
<1>8. NewAreUntouched
  BY <1>2, <1>3, <1>7 DEF NewAreUntouched
<1>9. OnePlace
  BY <1>2, <1>3, <1>5, <1>7 DEF OnePlace, Distinct
<1>10. IndegreeCountsPending
  <2>1. \A t \in Txns : {p \in Txns : Pending(p, t)} = {}
    BY <1>2 DEF Pending, PendingIn
  <2> QED
    BY <1>2, <2>1, FS_EmptySet DEF IndegreeCountsPending
<1> QED
  BY <1>1, <1>4, <1>6, <1>8, <1>9, <1>10 DEF Inv

LEMMA InvStep == Inv /\ [Next]_vars => Inv'
<1> SUFFICES ASSUME Inv, [Next]_vars PROVE Inv'
  OBVIOUS
<1>1. TypeOK' /\ ThreadPhase' /\ OnePlace'
  BY TypeStep, PhaseStep, PlaceStep
<1>2. IdsInOrder' /\ NewAreUntouched'
  BY IdsStep, UntouchedStep
<1>3. IndegreeCountsPending'
  BY <1>1, CountsStep
<1> QED
  BY <1>1, <1>2, <1>3 DEF Inv

\* The invariant the other proofs rest on.
THEOREM IndivInvariant == Spec => []Inv
  BY InvInit, InvStep, PTL DEF Spec

\* Type correctness of CALVIN_CONT_INDIV.
THEOREM TypeCorrect == Spec => []TypeOK
<1>1. Inv => TypeOK
  BY DEF Inv
<1> QED
  BY <1>1, IndivInvariant, PTL

\* indegree[t] is what is left to be counted down, while the scheduler still
\* scans t and the executors release it (calvin.cc, RunCalvinContIndivScheduler).
THEOREM IndegreesAreExact == Spec => []IndegreeCountsPending
<1>1. Inv => IndegreeCountsPending
  BY DEF Inv
<1> QED
  BY <1>1, IndivInvariant, PTL

\* An edge to a transaction handed over is one its predecessor has released.
LEMMA PredecessorsAreDecided ==
  ASSUME Inv, NEW p \in Txns, NEW t \in Txns, t \in neighbors[p], HandedOver(t)
  PROVE  Decided(p)
<1>0. TypeOK /\ ThreadPhase /\ OnePlace /\ IndegreeCountsPending
  BY DEF Inv
<1> DEFINE P == {q \in Txns : Pending(q, t)}
<1>1. indegree[t] = 0
  BY <1>0, Types DEF OnePlace
<1>2. IsFiniteSet(P) /\ Cardinality(P) = 0
  BY <1>0, <1>1, Constants, FS_Subset DEF IndegreeCountsPending
<1>3. p \notin P
  <2> HIDE DEF P
  <2> QED
    BY <1>2, FS_EmptySet
<1>4. Done(p, t)
  BY <1>0, <1>3, PendingIs
<1> QED
  BY <1>4 DEF Done

\* One executor at most works on t.
LEMMA HoldersCount ==
  ASSUME OnePlace, NEW t \in Txns
  PROVE  Cardinality({w \in Executors : Holds(w, t) /\ pc[w] # "unlock"})
           = One(\E w \in Executors : Holds(w, t) /\ pc[w] # "unlock")
<1> DEFINE H == {w \in Executors : Holds(w, t) /\ pc[w] # "unlock"}
<1>1. CASE \E w \in Executors : Holds(w, t) /\ pc[w] # "unlock"
  <2>1. PICK w \in Executors : Holds(w, t) /\ pc[w] # "unlock"
    BY <1>1
  <2>2. H = {w}
    BY <2>1, Constants DEF OnePlace, Holds
  <2>3. Cardinality(H) = 1
    BY <2>2, FS_Singleton
  <2> QED
    BY <1>1, <2>3 DEF One
<1>2. CASE ~ \E w \in Executors : Holds(w, t) /\ pc[w] # "unlock"
  <2>1. H = {}
    BY <1>2
  <2>2. Cardinality(H) = 0
    BY <2>1, FS_EmptySet
  <2> QED
    BY <1>2, <2>2 DEF One
<1> QED
  BY <1>1, <1>2

\* Whatever the threads do, a request is in one place and in one only: its scan
\* ends before anybody can release it, and what it is pushed by is the last
\* count.
THEOREM RequestsAreInOnePlace == Spec => []EachRequestInOnePlace
<1>1. ASSUME Inv PROVE EachRequestInOnePlace
  <2>0. TypeOK /\ ThreadPhase /\ IdsInOrder /\ NewAreUntouched /\ OnePlace
    BY <1>1 DEF Inv
  <2>1. ASSUME NEW t \in Txns
        PROVE  One(uniqueId[t] > 0) =
                 Copies(txnRequests, t) + One(cur[Main] = t)
                 + One(indegree[t] > 0 /\ t \notin indegreeMutex) + Copies(readyTxns, t)
                 + Cardinality({w \in Executors : Holds(w, t) /\ pc[w] # "unlock"})
                 + Copies(txnResults, t) + One(t \in returned)
    <3> DEFINE Id == uniqueId[t] > 0
               Req == t \in Elements(txnRequests)
               Scan == cur[Main] = t
               In == t \in Added
               Blocked == indegree[t] > 0 /\ t \notin indegreeMutex
               Ready == t \in Elements(readyTxns)
               Hold == \E w \in Executors : Holds(w, t) /\ pc[w] # "unlock"
               Result == t \in Elements(txnResults)
               Back == t \in returned
    <3>1. /\ Copies(txnRequests, t) = One(Req)
          /\ Copies(readyTxns, t) = One(Ready)
          /\ Copies(txnResults, t) = One(Result)
      <4>1. /\ txnRequests \in Seq(Txns) /\ readyTxns \in Seq(Txns) /\ txnResults \in Seq(Txns)
            /\ uniqueId \in [Txns -> Nat]
        BY <2>0, Types
      <4>2. Distinct(txnRequests) /\ Distinct(readyTxns) /\ Distinct(txnResults)
        BY <2>0, <4>1, IncreasingDistinct DEF IdsInOrder, OnePlace
      <4> QED
        BY <4>1, <4>2, CopiesDistinct
    <3>2. Cardinality({w \in Executors : Holds(w, t) /\ pc[w] # "unlock"}) = One(Hold)
      BY <2>0, HoldersCount
    <3>3. uniqueId[t] \in Nat /\ indegree[t] \in Nat
      BY <2>0, Types
    <3>4. t \in indegreeMutex <=> Scan
      BY <2>0 DEF ThreadPhase
    <3>5. /\ ~(Req /\ Scan)
          /\ Id <=> Req \/ Scan \/ In
          /\ Req \/ Scan => ~In
      <4>1. Req /\ Scan => uniqueId[t] < uniqueId[t]
        BY <2>0 DEF IdsInOrder, Before, Queued
      <4>2. ~(Req /\ Scan)
        BY <3>3, <4>1
      <4> QED
        BY <2>0, <4>2 DEF Added, Queued, IdsInOrder
    <3>6. ~In => ~Blocked /\ ~Ready /\ ~Hold /\ ~Result /\ ~Back
      BY <2>0, <3>3, <3>4 DEF NewAreUntouched, Held
    <3>7. In => (Blocked <=> indegree[t] > 0)
      BY <3>4, <3>5
    <3>8. /\ Hold => ~Result /\ ~Back
          /\ Held(t) => Hold \/ Result \/ Back
      BY <2>0 DEF OnePlace, Held, Holds
    <3>9. /\ Blocked => ~Ready /\ ~Held(t) /\ ~Decided(t)
          /\ In /\ ~Blocked => Ready \/ Held(t) \/ Decided(t)
          /\ Ready => ~Held(t) /\ ~Decided(t)
          /\ Hold => Held(t)
          /\ Decided(t) => Held(t) \/ Result \/ Back
          /\ Result \/ Back => Decided(t)
          /\ ~(Result /\ Back)
      <4>1. HandedOver(t) <=> Ready \/ Held(t) \/ Decided(t)
        BY HandedOverIs
      <4>2. Ready => ~Decided(t)
        BY <2>0 DEF OnePlace, Decided
      <4>3. Hold => Held(t)
        BY DEF Held
      <4> QED
        BY <2>0, <3>3, <3>7, <4>1, <4>2, <4>3 DEF OnePlace
    <3> HIDE DEF Id, Req, Scan, In, Blocked, Ready, Hold, Result, Back
    <3>10. One(Id) = One(Req) + One(Scan) + One(Blocked) + One(Ready) + One(Hold) + One(Result)
                     + One(Back)
      BY <3>5, <3>6, <3>8, <3>9, SMT DEF One
    <3> QED
      BY <3>1, <3>2, <3>10 DEF Id, Scan, Blocked, Back
  <2> QED
    BY <2>1 DEF EachRequestInOnePlace
<1> QED
  BY <1>1, IndivInvariant, PTL

-----------------------------------------------------------------------------
(* Which conflicts the scan has dealt with. *)

\* A request only gets an id when it is new, a larger one than all others.
LEMMA EarlierStep ==
  ASSUME Inv, [Next]_vars, NEW p \in Txns, NEW q \in Txns
  PROVE  /\ Earlier(p, q) => Earlier(p, q)'
         /\ Earlier(p, q)' /\ uniqueId[q] > 0 => Earlier(p, q)
         /\ uniqueId[q] > 0 => uniqueId'[q] = uniqueId[q]
<1>0. TypeOK /\ ThreadPhase /\ NewAreUntouched /\ OnePlace /\ IdsInOrder
  BY DEF Inv
<1>1. /\ uniqueId \in [Txns -> Nat] /\ nextUniqueId \in Nat \ {0}
      /\ \A t \in Txns : uniqueId[t] < nextUniqueId
  BY <1>0, Types DEF IdsInOrder
<1>2. ASSUME UNCHANGED uniqueId PROVE Earlier(p, q)' <=> Earlier(p, q)
  BY <1>2 DEF Earlier
<1>3. ASSUME NEW t \in Txns, Submit(t)
      PROVE  /\ Earlier(p, q) => Earlier(p, q)'
             /\ Earlier(p, q)' /\ uniqueId[q] > 0 => Earlier(p, q)
             /\ uniqueId[q] > 0 => uniqueId'[q] = uniqueId[q]
  <2>1. uniqueId[t] = 0 /\ uniqueId' = [uniqueId EXCEPT ![t] = nextUniqueId]
    BY <1>3 DEF Submit, NewTxnRequest
  <2>2. uniqueId'[t] = nextUniqueId /\ \A s \in Txns : s # t => uniqueId'[s] = uniqueId[s]
    BY <1>1, <2>1
  <2> QED
    BY <1>1, <2>1, <2>2 DEF Earlier
<1> USE DEF clientSide, clientVars
<1>4. CASE TakeResult \/ Stop \/ UNCHANGED vars
  BY <1>2, <1>4 DEF TakeResult, GetTxnResult, Stop, vars, coreVars
<1>5. CASE PopRequest \/ ScanStep \/ EndScan \/ SchedulerExit
  BY <1>0, <1>2, <1>5, PopRequestEffect, ScanEffect, EndScanEffect DEF SchedulerExit, Exit
<1>6. ASSUME NEW w \in Executors, Executor(w)
      PROVE  UNCHANGED uniqueId
  BY <1>6, ExecutorFrame
<1> QED
  BY <1>2, <1>3, <1>4, <1>5, <1>6 DEF Next, Scheduler, ScanStep, Terminating

\* Those in the DAG are the ones before the transaction that is scanned.
LEMMA AddedAreEarlier ==
  ASSUME Inv, cur[Main] \in Txns
  PROVE  /\ uniqueId[cur[Main]] > 0 /\ cur[Main] \notin Added
         /\ \A p \in Txns : p \in Added <=> Earlier(p, cur[Main])
<1> PICK t \in Txns : t = cur[Main]
  OBVIOUS
<1>1. /\ uniqueId \in [Txns -> Nat] /\ uniqueId[t] > 0
      /\ Before({t}, Queued, uniqueId)
      /\ \A p \in Added : uniqueId[p] < uniqueId[t]
  BY Types DEF Inv, IdsInOrder
<1>2. ASSUME NEW p \in Txns, Earlier(p, t) PROVE p \in Added
  BY <1>1, <1>2 DEF Earlier, Before, Added
<1>3. ASSUME NEW p \in Added PROVE Earlier(p, t)
  BY <1>1 DEF Earlier, Added
<1> QED
  BY <1>1, <1>2, <1>3 DEF Added

\* One key of the writeset.
LEMMA ScanWriteEffect ==
  ASSUME Inv, ScanWrite
  PROVE  LET t == cur[Main]
         IN  /\ UNCHANGED <<uniqueId, status, cur, sharedKeys, neighbors, pc, txnRequests>>
             /\ pc[Main] = "scanWrites" /\ targets = {} /\ t \in Txns
             /\ \E k \in Keys :
                  /\ k \in writeset[t] /\ k \in todo[Main]
                  /\ targets' = WriteTargets(t, k)
                  /\ sharedHolders' = [sharedHolders EXCEPT ![k] = {}]
                  /\ lastExcl' = [lastExcl EXCEPT ![k] = t]
                  /\ \A j : j \in todo'[Main] <=> j \in todo[Main] /\ j # k
<1>0. TypeOK /\ ThreadPhase /\ NewAreUntouched
  BY DEF Inv
<1>1. cur[Main] \in Txns
  BY <1>0, ScanEffect DEF ScanStep
<1>2. todo \in [Threads -> SUBSET (Keys \cup Txns)] /\ Main \in Threads
  BY <1>0, Types, Constants
<1>3. pc[Main] = "scanWrites" /\ todo[Main] \subseteq writeset[cur[Main]]
  BY <1>0 DEF ScanWrite, ThreadPhase
<1>4. PICK k \in Keys :
         /\ k \in todo[Main]
         /\ targets' = WriteTargets(cur[Main], k)
         /\ sharedHolders' = [sharedHolders EXCEPT ![k] = {}]
         /\ lastExcl' = [lastExcl EXCEPT ![k] = cur[Main]]
         /\ todo' = [todo EXCEPT ![Main] = todo[Main] \ {k}]
  BY DEF ScanWrite, NextKey
<1>5. \A j : j \in todo'[Main] <=> j \in todo[Main] /\ j # k
  BY <1>2, <1>4
<1>6. UNCHANGED <<uniqueId, status, cur, sharedKeys, neighbors, pc, txnRequests>> /\ targets = {}
  BY DEF ScanWrite, clientSide, clientVars, dataVars, dagVars
<1> QED
  BY <1>1, <1>3, <1>4, <1>5, <1>6

\* One key of the readset.
LEMMA ScanReadEffect ==
  ASSUME Inv, ScanRead
  PROVE  LET t == cur[Main]
         IN  /\ UNCHANGED <<uniqueId, status, cur, lastExcl, neighbors, pc, txnRequests>>
             /\ pc[Main] = "scanReads" /\ targets = {} /\ t \in Txns
             /\ \E k \in Keys :
                  /\ k \in readset[t] /\ k \in todo[Main]
                  /\ targets' = {lastExcl[k]} \ {t, NoTxn}
                  /\ sharedHolders' = [sharedHolders EXCEPT ![k] = sharedHolders[k] \cup {t}]
                  /\ sharedKeys' = sharedKeys \cup {k}
                  /\ \A j : j \in todo'[Main] <=> j \in todo[Main] /\ j # k
<1>0. TypeOK /\ ThreadPhase /\ NewAreUntouched
  BY DEF Inv
<1>1. cur[Main] \in Txns
  BY <1>0, ScanEffect DEF ScanStep
<1>2. todo \in [Threads -> SUBSET (Keys \cup Txns)] /\ Main \in Threads
  BY <1>0, Types, Constants
<1>3. pc[Main] = "scanReads" /\ todo[Main] \subseteq readset[cur[Main]]
  BY <1>0 DEF ScanRead, ThreadPhase
<1>4. PICK k \in Keys :
         /\ k \in todo[Main]
         /\ targets' = {lastExcl[k]} \ {cur[Main], NoTxn}
         /\ sharedHolders' = [sharedHolders EXCEPT ![k] = sharedHolders[k] \cup {cur[Main]}]
         /\ sharedKeys' = sharedKeys \cup {k}
         /\ todo' = [todo EXCEPT ![Main] = todo[Main] \ {k}]
  BY DEF ScanRead, NextKey
<1>5. \A j : j \in todo'[Main] <=> j \in todo[Main] /\ j # k
  BY <1>2, <1>4
<1>6. UNCHANGED <<uniqueId, status, cur, lastExcl, neighbors, pc, txnRequests>> /\ targets = {}
  BY DEF ScanRead, clientSide, clientVars, dataVars, dagVars
<1> QED
  BY <1>1, <1>3, <1>4, <1>5, <1>6

\* Only those two steps come to another key, or move the maps of holders.
LEMMA ScannedStep ==
  ASSUME Inv, [Next]_vars, ~ScanWrite, ~ScanRead
  PROVE  /\ UNCHANGED <<sharedHolders, sharedKeys, lastExcl>>
         /\ (\A p \in Txns : ~TryEdge(p)) => UNCHANGED targets
         /\ \A p \in Txns, k \in Keys : /\ WriteScanned(p, k)' <=> WriteScanned(p, k)
                                        /\ ReadScanned(p, k)' <=> ReadScanned(p, k)
<1>0. TypeOK /\ ThreadPhase /\ NewAreUntouched /\ OnePlace /\ IdsInOrder
  BY DEF Inv
<1> USE DEF clientSide, clientVars, indivVars, scanVars
<1>1. ASSUME Added' = Added,
             UNCHANGED <<cur[Main], todo[Main], pc[Main]>> \/ (cur[Main] = NoTxn /\ cur'[Main] = NoTxn)
      PROVE  \A p \in Txns, k \in Keys : /\ WriteScanned(p, k)' <=> WriteScanned(p, k)
                                         /\ ReadScanned(p, k)' <=> ReadScanned(p, k)
  BY <1>1, Constants DEF WriteScanned, ReadScanned
<1>2. ~EndScan => Added' = Added
  BY AddedStep
<1>3. EndScan => pc[Main] = "scanReads" /\ pc'[Main] = "idle"
  BY <1>0, EndScanEffect
<1>4. CASE (\E t \in Txns : Submit(t)) \/ TakeResult \/ Stop \/ UNCHANGED vars
  <2>1. UNCHANGED <<scanVars, threadVars>>
    BY <1>4 DEF Submit, NewTxnRequest, TakeResult, GetTxnResult, Stop, vars, coreVars
  <2>2. ~EndScan
    BY <1>3, <2>1 DEF threadVars
  <2> QED
    BY <1>1, <1>2, <2>1, <2>2 DEF threadVars
<1>5. CASE PopRequest
  <2>1. PICK h \in Txns : h = Head(txnRequests)
    BY <1>0, <1>5, PopRequestEffect
  <2>2. /\ UNCHANGED scanVars /\ h \in Queued /\ cur'[Main] = h /\ cur[Main] = NoTxn
        /\ pc[Main] = "idle" /\ pc'[Main] = "scanWrites" /\ todo'[Main] = writeset[h]
    BY <1>0, <1>5, <2>1, PopRequestEffect
  <2>3. Added' = Added /\ h \notin Added
    BY <1>2, <1>3, <2>2 DEF Added
  <2> QED
    BY <2>2, <2>3, Constants DEF WriteScanned, ReadScanned
<1>6. CASE EndWrites
  <2>1. PICK t \in Txns : t = cur[Main]
    BY <1>0, <1>6, ScanEffect DEF ScanStep
  <2>2. /\ UNCHANGED <<cur, scanVars>> /\ pc[Main] = "scanWrites" /\ todo[Main] = {}
        /\ pc'[Main] = "scanReads" /\ todo'[Main] = readset[t]
    BY <1>0, <1>6, <2>1, Types, Constants DEF EndWrites, Goto
  <2>3. Added' = Added /\ t \notin Added
    BY <1>2, <1>3, <2>1, <2>2 DEF Added
  <2> QED
    BY <2>1, <2>2, <2>3 DEF WriteScanned, ReadScanned
<1>7. ASSUME NEW p \in Txns, TryEdge(p)
      PROVE  UNCHANGED <<sharedHolders, sharedKeys, lastExcl, cur, pc, todo>>
  BY <1>7 DEF TryEdge, coreVars, threadVars
<1>8. CASE EndScan
  <2>1. PICK t \in Txns : t = cur[Main]
    BY <1>0, <1>8, EndScanEffect
  <2>2. /\ UNCHANGED scanVars /\ pc[Main] = "scanReads" /\ todo[Main] = {} /\ cur'[Main] = NoTxn
        /\ t \notin Added
    BY <1>0, <1>8, <2>1, EndScanEffect
  <2>3. Added' = Added \cup {t}
    BY <1>8, <2>1, AddedStep
  <2> QED
    BY <2>1, <2>2, <2>3, Constants DEF WriteScanned, ReadScanned
<1>9. CASE SchedulerExit
  <2>1. UNCHANGED <<cur, scanVars>> /\ pc[Main] = "idle"
    BY <1>9 DEF SchedulerExit, Exit
  <2>2. cur[Main] = NoTxn
    BY <1>0, <2>1, Constants DEF ThreadPhase
  <2> QED
    BY <1>1, <1>2, <1>3, <2>1, <2>2
<1>10. ASSUME NEW w \in Executors, Executor(w)
       PROVE  UNCHANGED <<scanVars, cur[Main], todo[Main], pc[Main]>>
  BY <1>10, ExecutorFrame
<1> QED
  BY <1>1, <1>2, <1>3, <1>4, <1>5, <1>6, <1>7, <1>8, <1>9, <1>10 DEF Next, Scheduler, Terminating

\* The maps of holders keep saying what they say of the scan.
LEMMA MapsStep ==
  ASSUME Inv, LastExclExact, HoldersExact, [Next]_vars
  PROVE  LastExclExact' /\ HoldersExact'
<1>0. TypeOK /\ ThreadPhase /\ NewAreUntouched /\ OnePlace /\ IdsInOrder
  BY DEF Inv
<1>1. /\ uniqueId \in [Txns -> Nat] /\ sharedHolders \in [Keys -> SUBSET Txns]
      /\ lastExcl \in [Keys -> Values]
  BY <1>0, Types
<1>2. ASSUME NEW p \in Txns, NEW k \in Keys, WriteScanned(p, k) \/ ReadScanned(p, k)
      PROVE  uniqueId[p] > 0 /\ (p \in Added \/ p = cur[Main])
  BY <1>0, <1>2 DEF WriteScanned, ReadScanned, Added, IdsInOrder
<1>3. \A p, q \in Txns : uniqueId[q] > 0 => (Earlier(p, q)' <=> Earlier(p, q)) /\ uniqueId'[q] = uniqueId[q]
  BY EarlierStep
<1>4. CASE ~ScanWrite /\ ~ScanRead
  <2>1. /\ UNCHANGED <<sharedHolders, sharedKeys, lastExcl>>
        /\ \A p \in Txns, k \in Keys : /\ WriteScanned(p, k)' <=> WriteScanned(p, k)
                                       /\ ReadScanned(p, k)' <=> ReadScanned(p, k)
    BY <1>4, ScannedStep
  <2>2. LastExclExact'
    <3>1. ASSUME NEW k \in Keys, NEW p \in Txns
          PROVE  lastExcl'[k] = p <=>
                   /\ WriteScanned(p, k)'
                   /\ \A q \in Txns : WriteScanned(q, k)' => uniqueId'[q] <= uniqueId'[p]
      BY <1>2, <1>3, <2>1 DEF LastExclExact
    <3> QED
      BY <3>1 DEF LastExclExact
  <2>3. HoldersExact'
    <3>1. ASSUME NEW k \in Keys, NEW r \in Txns
          PROVE  r \in sharedHolders'[k] <=>
                   /\ ReadScanned(r, k)'
                   /\ \A q \in Txns : WriteScanned(q, k)' => ~Earlier(r, q)'
      BY <1>2, <1>3, <2>1 DEF HoldersExact
    <3>2. \A k \in Keys : k \in sharedKeys' <=> \E r \in Txns : ReadScanned(r, k)'
      BY <2>1 DEF HoldersExact
    <3> QED
      BY <3>1, <3>2 DEF HoldersExact
  <2> QED
    BY <2>2, <2>3
<1>5. CASE ScanWrite
  <2> PICK t \in Txns : t = cur[Main]
    BY <1>5, ScanWriteEffect
  <2>1. /\ UNCHANGED <<uniqueId, cur, sharedKeys, pc, txnRequests>> /\ pc[Main] = "scanWrites"
    BY <1>5, ScanWriteEffect
  <2>2. PICK k \in Keys :
          /\ k \in writeset[t] /\ k \in todo[Main]
          /\ sharedHolders' = [sharedHolders EXCEPT ![k] = {}]
          /\ lastExcl' = [lastExcl EXCEPT ![k] = t]
          /\ \A j : j \in todo'[Main] <=> j \in todo[Main] /\ j # k
    BY <1>5, ScanWriteEffect
  <2>3. Added' = Added
    BY <2>1 DEF Added, Queued
  <2>4. /\ t \notin Added /\ \A p \in Txns : p \in Added <=> Earlier(p, t)
    BY AddedAreEarlier
  <2>5. \A p \in Txns, j \in Keys : /\ WriteScanned(p, j)' <=> WriteScanned(p, j) \/ (p = t /\ j = k)
                                    /\ ReadScanned(p, j)' <=> ReadScanned(p, j)
                                    /\ ReadScanned(p, j) => p \in Added
    BY <2>1, <2>2, <2>3, <2>4 DEF WriteScanned, ReadScanned
  <2>6. \A p \in Txns : WriteScanned(p, k) => p \in Added
    BY <1>2, <2>1, <2>2 DEF WriteScanned
  <2>7. \A p, q \in Txns : Earlier(p, q)' <=> Earlier(p, q)
    BY <2>1 DEF Earlier
  <2>8. LastExclExact'
    <3>1. ASSUME NEW j \in Keys, NEW p \in Txns
          PROVE  lastExcl'[j] = p <=>
                   /\ WriteScanned(p, j)'
                   /\ \A q \in Txns : WriteScanned(q, j)' => uniqueId'[q] <= uniqueId'[p]
      <4>1. CASE j # k
        BY <1>1, <2>1, <2>2, <2>5, <4>1 DEF LastExclExact
      <4>2. CASE j = k /\ p = t
        BY <1>1, <2>1, <2>2, <2>4, <2>5, <2>6, <4>2 DEF Earlier
      <4>3. CASE j = k /\ p # t
        BY <1>1, <2>1, <2>2, <2>4, <2>5, <2>6, <4>3 DEF Earlier
      <4> QED
        BY <4>1, <4>2, <4>3
    <3> QED
      BY <3>1 DEF LastExclExact
  <2>9. HoldersExact'
    <3>1. ASSUME NEW j \in Keys, NEW r \in Txns
          PROVE  r \in sharedHolders'[j] <=>
                   /\ ReadScanned(r, j)'
                   /\ \A q \in Txns : WriteScanned(q, j)' => ~Earlier(r, q)'
      <4>1. CASE j # k
        BY <1>1, <2>2, <2>5, <2>7, <4>1 DEF HoldersExact
      <4>2. CASE j = k
        BY <1>1, <2>2, <2>4, <2>5, <2>7, <4>2
      <4> QED
        BY <4>1, <4>2
    <3>2. \A j \in Keys : j \in sharedKeys' <=> \E r \in Txns : ReadScanned(r, j)'
      BY <2>1, <2>5 DEF HoldersExact
    <3> QED
      BY <3>1, <3>2 DEF HoldersExact
  <2> QED
    BY <2>8, <2>9
<1>6. CASE ScanRead
  <2> PICK t \in Txns : t = cur[Main]
    BY <1>6, ScanReadEffect
  <2>1. /\ UNCHANGED <<uniqueId, cur, lastExcl, pc, txnRequests>> /\ pc[Main] = "scanReads"
    BY <1>6, ScanReadEffect
  <2>2. PICK k \in Keys :
          /\ k \in readset[t] /\ k \in todo[Main]
          /\ sharedHolders' = [sharedHolders EXCEPT ![k] = sharedHolders[k] \cup {t}]
          /\ sharedKeys' = sharedKeys \cup {k}
          /\ \A j : j \in todo'[Main] <=> j \in todo[Main] /\ j # k
    BY <1>6, ScanReadEffect
  <2>3. Added' = Added
    BY <2>1 DEF Added, Queued
  <2>4. /\ t \notin Added /\ \A p \in Txns : p \in Added <=> Earlier(p, t)
    BY AddedAreEarlier
  <2>5. \A p \in Txns, j \in Keys : /\ WriteScanned(p, j)' <=> WriteScanned(p, j)
                                    /\ ReadScanned(p, j)' <=> ReadScanned(p, j) \/ (p = t /\ j = k)
                                    /\ WriteScanned(p, j) => p \in Added \cup {t}
    BY <2>1, <2>2, <2>3, <2>4 DEF WriteScanned, ReadScanned
  <2>6. \A q \in Added \cup {t} : ~Earlier(t, q)
    BY <1>1, <2>4 DEF Earlier, Added
  <2>7. \A p, q \in Txns : Earlier(p, q)' <=> Earlier(p, q)
    BY <2>1 DEF Earlier
  <2>8. LastExclExact'
    <3>1. ASSUME NEW j \in Keys, NEW p \in Txns
          PROVE  lastExcl'[j] = p <=>
                   /\ WriteScanned(p, j)'
                   /\ \A q \in Txns : WriteScanned(q, j)' => uniqueId'[q] <= uniqueId'[p]
      BY <2>1, <2>5 DEF LastExclExact
    <3> QED
      BY <3>1 DEF LastExclExact
  <2>9. HoldersExact'
    <3>1. ASSUME NEW j \in Keys, NEW r \in Txns
          PROVE  r \in sharedHolders'[j] <=>
                   /\ ReadScanned(r, j)'
                   /\ \A q \in Txns : WriteScanned(q, j)' => ~Earlier(r, q)'
      <4>1. CASE j # k \/ r # t
        BY <1>1, <2>2, <2>5, <2>7, <4>1 DEF HoldersExact
      <4>2. CASE j = k /\ r = t
        BY <1>1, <2>2, <2>5, <2>6, <2>7, <4>2
      <4> QED
        BY <4>1, <4>2
    <3>2. \A j \in Keys : j \in sharedKeys' <=> \E r \in Txns : ReadScanned(r, j)'
      BY <2>2, <2>5 DEF HoldersExact
    <3> QED
      BY <3>1, <3>2 DEF HoldersExact
  <2> QED
    BY <2>8, <2>9
<1> QED
  BY <1>4, <1>5, <1>6

\* A decision is final, and no edge is taken away.
LEMMA EdgesStay ==
  ASSUME Inv, [Next]_vars, NEW p \in Txns
  PROVE  /\ Decided(p) => Decided(p)'
         /\ neighbors[p] \subseteq neighbors'[p]
         /\ (\A q \in Txns : ~TryEdge(q)) /\ neighbors'[p] # neighbors[p] => PopRequest
<1>0. TypeOK /\ ThreadPhase /\ NewAreUntouched /\ OnePlace /\ IdsInOrder
  BY DEF Inv
<1>1. neighbors \in [Txns -> SUBSET Txns]
  BY <1>0, Types
<1>2. ASSUME UNCHANGED <<status, neighbors>>
      PROVE  (Decided(p) => Decided(p)') /\ neighbors'[p] = neighbors[p]
  BY <1>2 DEF Decided
<1> USE DEF clientSide, clientVars, dataVars, dagVars, indivVars
<1>3. CASE (\E t \in Txns : Submit(t)) \/ TakeResult \/ Stop \/ UNCHANGED vars
  BY <1>2, <1>3 DEF Submit, NewTxnRequest, TakeResult, GetTxnResult, Stop, vars, coreVars
<1>4. CASE PopRequest
  <2>1. PICK h \in Txns : h = Head(txnRequests)
    BY <1>0, <1>4, PopRequestEffect
  <2>2. UNCHANGED status /\ neighbors' = [neighbors EXCEPT ![h] = {}] /\ h \in Queued
    BY <1>0, <1>4, <2>1, PopRequestEffect
  <2>3. neighbors[h] = {}
    BY <1>0, <2>2 DEF NewAreUntouched, Added
  <2> QED
    BY <1>1, <1>4, <2>2, <2>3 DEF Decided
<1>5. CASE ScanStep
  <2>1. UNCHANGED status /\ ((\A q \in Txns : ~TryEdge(q)) => UNCHANGED neighbors)
    BY <1>0, <1>5, ScanEffect
  <2>2. ASSUME NEW q \in Txns, TryEdge(q)
        PROVE  neighbors[p] \subseteq neighbors'[p]
    <3>1. \/ UNCHANGED neighbors
          \/ neighbors' = [neighbors EXCEPT ![q] = neighbors[q] \cup {cur[Main]}]
      BY <1>0, <2>2, TryEdgeEffect
    <3> QED
      BY <1>1, <3>1
  <2> QED
    BY <2>1, <2>2 DEF Decided
<1>6. CASE EndScan \/ SchedulerExit
  BY <1>0, <1>2, <1>6, EndScanEffect DEF SchedulerExit, Exit
<1>7. ASSUME NEW w \in Executors, Executor(w)
      PROVE  UNCHANGED neighbors /\ (Decided(p) => Decided(p)')
  <2>1. UNCHANGED neighbors /\ (status'[p] # status[p] => ~Decided(p))
    BY <1>7, ExecutorFrame
  <2> QED
    BY <2>1 DEF Decided
<1> QED
  BY <1>2, <1>3, <1>4, <1>5, <1>6, <1>7 DEF Next, Scheduler, ScanStep, Terminating

\* The conflicts on a key a transaction writes are those the scan visits.
LEMMA WriteTargetsAre ==
  ASSUME Inv, ScanInv, cur[Main] \in Txns, pc[Main] = "scanWrites",
         NEW k \in Keys, k \in writeset[cur[Main]], k \in todo[Main],
         NEW p \in Txns, ConflictsOn(p, cur[Main], k)
  PROVE  p \in WriteTargets(cur[Main], k)
<1> PICK t \in Txns : t = cur[Main]
  OBVIOUS
<1>1. t \notin Added /\ \A q \in Txns : q \in Added <=> Earlier(q, t)
  BY AddedAreEarlier
<1>2. /\ p \in Added /\ p # t
      /\ ~ \E q \in Writers(k) : Earlier(p, q) /\ Earlier(q, t)
  BY <1>1 DEF ConflictsOn
<1>3. \A q \in Txns : /\ WriteScanned(q, k) => q \in Added /\ q \in Writers(k)
                      /\ ReadScanned(q, k) => q \in Added /\ q \in Readers(k)
  BY DEF WriteScanned, ReadScanned, Writers, Readers
<1>4. \A q \in Txns : WriteScanned(q, k) => ~Earlier(p, q)
  BY <1>1, <1>2, <1>3
<1>5. CASE k \in readset[p]
  <2>1. ReadScanned(p, k)
    BY <1>2, <1>5 DEF ReadScanned
  <2>2. k \in sharedKeys /\ p \in sharedHolders[k]
    BY <1>4, <2>1 DEF ScanInv, HoldersExact
  <2> QED
    BY <1>2, <2>2, Constants DEF WriteTargets
<1>6. CASE k \in writeset[p] /\ ~ \E r \in Readers(k) : Earlier(r, t)
  <2>1. k \notin sharedKeys
    BY <1>1, <1>3, <1>6 DEF ScanInv, HoldersExact
  <2>2. WriteScanned(p, k) /\ uniqueId[p] > 0 /\ uniqueId \in [Txns -> Nat]
    BY <1>2, <1>6, Types DEF WriteScanned, Added, Inv
  <2>3. \A q \in Txns : WriteScanned(q, k) => uniqueId[q] <= uniqueId[p]
    BY <1>4, <2>2 DEF Earlier
  <2>4. lastExcl[k] = p
    BY <2>2, <2>3 DEF ScanInv, LastExclExact
  <2> QED
    BY <1>2, <2>1, <2>4, Constants DEF WriteTargets
<1> QED
  BY <1>5, <1>6 DEF ConflictsOn

\* And so are those on a key it only reads.
LEMMA ReadTargetIs ==
  ASSUME Inv, ScanInv, cur[Main] \in Txns, NEW k \in Keys, k \notin writeset[cur[Main]],
         NEW p \in Txns, ConflictsOn(p, cur[Main], k)
  PROVE  lastExcl[k] = p /\ p # cur[Main]
<1> PICK t \in Txns : t = cur[Main]
  OBVIOUS
<1>1. t \notin Added /\ \A q \in Txns : q \in Added <=> Earlier(q, t)
  BY AddedAreEarlier
<1>2. /\ p \in Added /\ p # t /\ k \in writeset[p]
      /\ ~ \E q \in Writers(k) : Earlier(p, q) /\ Earlier(q, t)
  BY <1>1 DEF ConflictsOn
<1>3. \A q \in Txns : WriteScanned(q, k) => q \in Added /\ q \in Writers(k)
  BY DEF WriteScanned, Writers
<1>4. WriteScanned(p, k) /\ uniqueId[p] > 0 /\ uniqueId \in [Txns -> Nat]
  BY <1>2, Types DEF WriteScanned, Added, Inv
<1>5. \A q \in Txns : WriteScanned(q, k) => uniqueId[q] <= uniqueId[p]
  BY <1>1, <1>2, <1>3, <1>4 DEF Earlier
<1> QED
  BY <1>2, <1>4, <1>5 DEF ScanInv, LastExclExact

\* A conflict gets its edge, or the scheduler finds that it needs none.
LEMMA ConflictsStep ==
  ASSUME Inv, ScanInv, [Next]_vars
  PROVE  ConflictsHandled'
<1> SUFFICES ASSUME NEW p \in Txns, NEW q \in Txns, NEW k \in Keys,
                    ConflictsOn(p, q, k)', Visited(p, q, k)',
                    q \notin neighbors'[p]
             PROVE  Decided(p)'
  BY DEF ConflictsHandled
<1>0. TypeOK /\ ThreadPhase /\ NewAreUntouched /\ OnePlace /\ IdsInOrder
  BY DEF Inv
<1>1. ASSUME Visited(p, q, k), ConflictsOn(p, q, k) PROVE Decided(p)'
  BY <1>1, EdgesStay DEF ScanInv, ConflictsHandled
<1>2. ASSUME uniqueId[q] > 0 PROVE ConflictsOn(p, q, k)
  <2>1. \A x, y \in Txns : Earlier(x, y) => Earlier(x, y)'
    BY EarlierStep
  <2>2. Earlier(p, q)
    BY <1>2, EarlierStep DEF ConflictsOn
  <2> QED
    BY <2>1, <2>2 DEF ConflictsOn, Writers, Readers
<1>3. /\ Added \subseteq Txns /\ Added \subseteq Added'
      /\ EndScan => Added' = Added \cup {cur[Main]}
      /\ ~EndScan => Added' = Added
  BY AddedStep
<1>4. /\ \A x \in Added : uniqueId[x] > 0
      /\ cur[Main] = q => uniqueId[q] > 0
  BY <1>0 DEF Added, IdsInOrder
<1>5. CASE ~ScanWrite /\ ~ScanRead
  <2>1. /\ \A x \in Txns, j \in Keys : /\ WriteScanned(x, j)' <=> WriteScanned(x, j)
                                       /\ ReadScanned(x, j)' <=> ReadScanned(x, j)
        /\ (\A x \in Txns : ~TryEdge(x)) => UNCHANGED targets
    BY <1>5, ScannedStep
  <2>2. q \in Added \/ cur[Main] = q
    BY <1>3, <2>1 DEF Visited, WriteScanned, ReadScanned
  <2>3. ConflictsOn(p, q, k)
    BY <1>2, <1>4, <2>2
  <2>4. CASE q \in Added
    BY <1>1, <2>3, <2>4 DEF Visited
  <2>5. CASE EndScan /\ q \notin Added
    <3>1. pc[Main] = "scanReads" /\ targets = {} /\ todo[Main] = {} /\ cur[Main] = q
      BY <1>0, <2>2, <2>5, EndScanEffect
    <3>2. k \in writeset[q] \/ (k \notin writeset[q] /\ k \in readset[q])
      BY <2>3 DEF ConflictsOn
    <3>3. Visited(p, q, k)
      BY <3>1, <3>2 DEF Visited, WriteScanned, ReadScanned
    <3> QED
      BY <1>1, <2>3, <3>3
  <2>6. CASE ~EndScan /\ q \notin Added
    <3>1. /\ p \notin targets' /\ cur[Main] = q
          /\ WriteScanned(q, k) \/ (k \notin writeset[q] /\ ReadScanned(q, k))
      BY <1>3, <2>1, <2>2, <2>6 DEF Visited
    <3>2. ASSUME p \notin targets PROVE Decided(p)'
      BY <1>1, <2>3, <3>1, <3>2 DEF Visited
    <3>3. ASSUME NEW x \in Txns, TryEdge(x) PROVE Decided(p)'
      <4>1. /\ targets' = targets \ {x} /\ (Decided(x) \/ q \in neighbors'[x])
            /\ UNCHANGED coreVars
        BY <1>0, <3>1, <3>3, TryEdgeEffect
      <4>2. CASE p = x
        BY <4>1, <4>2 DEF Decided, coreVars, dataVars
      <4>3. CASE p # x
        BY <3>1, <3>2, <4>1, <4>3
      <4> QED
        BY <4>2, <4>3
    <3> QED
      BY <2>1, <3>1, <3>2, <3>3
  <2> QED
    BY <2>4, <2>5, <2>6
<1>6. CASE ScanWrite
  <2> PICK t \in Txns : t = cur[Main]
    BY <1>6, ScanWriteEffect
  <2>1. /\ UNCHANGED <<cur, pc, uniqueId, txnRequests>> /\ pc[Main] = "scanWrites" /\ targets = {}
    BY <1>6, ScanWriteEffect
  <2>2. PICK j \in Keys : /\ j \in writeset[t] /\ j \in todo[Main]
                          /\ targets' = WriteTargets(t, j)
                          /\ \A i : i \in todo'[Main] <=> i \in todo[Main] /\ i # j
    BY <1>6, ScanWriteEffect
  <2>3. Added' = Added
    BY <2>1 DEF Added, Queued
  <2>4. q \in Added \/ q = t
    BY <2>1, <2>3 DEF Visited
  <2>5. ConflictsOn(p, q, k)
    BY <1>2, <1>4, <2>4
  <2>6. CASE Visited(p, q, k)
    BY <1>1, <2>5, <2>6
  <2>7. CASE ~Visited(p, q, k)
    <3>1. q = t /\ k = j /\ p \notin targets'
      BY <2>1, <2>2, <2>3, <2>4, <2>7 DEF Visited, WriteScanned, ReadScanned
    <3> QED
      BY <2>1, <2>2, <2>5, <3>1, WriteTargetsAre
  <2> QED
    BY <2>6, <2>7
<1>7. CASE ScanRead
  <2> PICK t \in Txns : t = cur[Main]
    BY <1>7, ScanReadEffect
  <2>1. /\ UNCHANGED <<cur, pc, uniqueId, txnRequests>> /\ pc[Main] = "scanReads" /\ targets = {}
    BY <1>7, ScanReadEffect
  <2>2. PICK j \in Keys : /\ targets' = {lastExcl[j]} \ {t, NoTxn}
                          /\ \A i : i \in todo'[Main] <=> i \in todo[Main] /\ i # j
    BY <1>7, ScanReadEffect
  <2>3. Added' = Added
    BY <2>1 DEF Added, Queued
  <2>4. q \in Added \/ q = t
    BY <2>1, <2>3 DEF Visited
  <2>5. ConflictsOn(p, q, k)
    BY <1>2, <1>4, <2>4
  <2>6. CASE Visited(p, q, k)
    BY <1>1, <2>5, <2>6
  <2>7. CASE ~Visited(p, q, k)
    <3>1. q = t /\ k = j /\ p \notin targets' /\ k \notin writeset[t]
      BY <2>1, <2>2, <2>3, <2>4, <2>7 DEF Visited, WriteScanned, ReadScanned
    <3>2. lastExcl[j] = p /\ p # t
      BY <2>5, <3>1, ReadTargetIs
    <3> QED
      BY <2>2, <3>1, <3>2, Constants
  <2> QED
    BY <2>6, <2>7
<1> QED
  BY <1>5, <1>6, <1>7

\* The scan has dealt with the conflicts of a transaction that is handed over:
\* what it conflicts with is decided.
LEMMA ConflictsAreDecided ==
  ASSUME Inv, ScanInv, NEW p \in Txns, NEW t \in Txns, NEW k \in Keys,
         HandedOver(t), ConflictsOn(p, t, k)
  PROVE  Decided(p)
<1>1. t \in Added
  BY DEF Inv, NewAreUntouched, HandedOver, Held, Decided
<1>2. t \in neighbors[p] \/ Decided(p)
  BY <1>1 DEF ScanInv, ConflictsHandled, Visited
<1> QED
  BY <1>2, PredecessorsAreDecided

-----------------------------------------------------------------------------
(* What the edges say about one key whose writers are ordered. *)

\* A writer of an ordered key is decided before the next transaction that
\* accesses the key with no writer between them is handed over.
LEMMA WriterBeforeNextAccess ==
  ASSUME Inv, ScanInv, NEW k \in Keys, WritersOrdered(k),
         NEW p \in Txns, NEW n \in Txns, Earlier(p, n), HandedOver(n),
         k \in writeset[p], k \in Accesses(n),
         ~ \E q \in Writers(k) : Earlier(p, q) /\ Earlier(q, n)
  PROVE  Decided(p)
<1>1. \A x, y, z \in Txns : Earlier(x, y) /\ Earlier(y, z) => Earlier(x, z)
  BY Types DEF Inv, Earlier
<1>2. CASE k \notin writeset[n]
  <2>1. ConflictsOn(p, n, k)
    BY <1>2 DEF ConflictsOn, Accesses
  <2> QED
    BY <2>1, ConflictsAreDecided
<1>3. CASE k \in writeset[n] /\ ~ \E r \in Readers(k) : Earlier(r, n)
  <2>1. ConflictsOn(p, n, k)
    BY <1>3 DEF ConflictsOn
  <2> QED
    BY <2>1, ConflictsAreDecided
<1>4. ASSUME k \in writeset[n], NEW r \in Readers(k), Earlier(p, r), Earlier(r, n)
      PROVE  Decided(p)
  <2>1. r \in Txns /\ k \in readset[r] /\ k \notin writeset[r]
    BY <1>4 DEF Readers, Writers
  <2>2. /\ ~ \E q \in Writers(k) : Earlier(r, q) /\ Earlier(q, n)
        /\ ~ \E q \in Writers(k) : Earlier(p, q) /\ Earlier(q, r)
    BY <1>1, <1>4, <2>1 DEF Writers
  <2>3. ConflictsOn(r, n, k) /\ ConflictsOn(p, r, k)
    BY <1>4, <2>1, <2>2 DEF ConflictsOn
  <2>4. HandedOver(r)
    BY <2>1, <2>3, ConflictsAreDecided DEF HandedOver
  <2> QED
    BY <2>1, <2>3, <2>4, ConflictsAreDecided
<1>5. CASE k \in writeset[n]
  <2>1. p \in Writers(k) /\ n \in Writers(k)
    BY <1>5 DEF Writers
  <2> QED
    BY <1>3, <1>4, <1>5, <2>1 DEF WritersOrdered
<1> QED
  BY <1>2, <1>5

\* When a transaction is handed over, all earlier writers of an ordered key
\* that it accesses are decided.
LEMMA WritersDecided ==
  ASSUME Inv, ScanInv, NEW k \in Keys, WritersOrdered(k),
         NEW t \in Txns, HandedOver(t), k \in Accesses(t),
         NEW p \in Txns, k \in writeset[p], Earlier(p, t)
  PROVE  Decided(p)
<1> DEFINE U == {q \in Writers(k) : Earlier(q, t) /\ ~Decided(q)}
           Between(x) == {q \in Writers(k) : Earlier(x, q) /\ Earlier(q, t)}
<1>0. \A q : q \in Writers(k) <=> q \in Txns /\ k \in writeset[q]
  BY DEF Writers
<1> SUFFICES ASSUME U # {} PROVE FALSE
  BY <1>0
<1>1. uniqueId \in [Txns -> Nat]
  BY Types DEF Inv
<1>2. \A x, y, z \in Txns : Earlier(x, y) /\ Earlier(y, z) => Earlier(x, z)
  BY <1>1 DEF Earlier
<1>3. PICK y \in U : \A x \in U : uniqueId[x] <= uniqueId[y]
  <2>1. \A x \in U : uniqueId[x] <= uniqueId[t]
    BY <1>0, <1>1 DEF Earlier
  <2>2. uniqueId[t] \in Nat /\ U \in SUBSET Txns
    BY <1>0, <1>1
  <2> HIDE DEF U
  <2> QED
    BY <1>1, <2>1, <2>2, Youngest
<1>4. y \in Txns /\ k \in writeset[y] /\ Earlier(y, t) /\ ~Decided(y)
  BY <1>0
<1>5. CASE Between(y) = {}
  BY <1>0, <1>4, <1>5, WriterBeforeNextAccess
<1>6. CASE Between(y) # {}
  <2>1. PICK n \in Between(y) : \A q \in Between(y) : uniqueId[n] <= uniqueId[q]
    <3>1. Between(y) \in SUBSET Txns
      BY <1>0
    <3> HIDE DEF Between
    <3> QED
      BY <1>1, <1>6, <3>1, Oldest
  <2>2. n \in Txns /\ k \in writeset[n] /\ Earlier(y, n) /\ Earlier(n, t)
    BY <1>0, <2>1
  <2>3. ~ \E q \in Writers(k) : Earlier(y, q) /\ Earlier(q, n)
    <3> SUFFICES ASSUME NEW q \in Writers(k), Earlier(y, q), Earlier(q, n) PROVE FALSE
      OBVIOUS
    <3>1. q \in Txns /\ q \in Between(y)
      BY <1>0, <1>2, <2>2
    <3>2. uniqueId[n] <= uniqueId[q]
      BY <2>1, <3>1
    <3> QED
      BY <1>1, <2>2, <3>1, <3>2 DEF Earlier
  <2>4. Decided(n)
    <3>1. n \in U \/ Decided(n)
      BY <1>0, <2>2
    <3>2. n \in U => uniqueId[n] <= uniqueId[y]
      BY <1>3
    <3> QED
      BY <1>1, <1>4, <2>2, <3>1, <3>2 DEF Earlier
  <2> QED
    BY <1>4, <2>2, <2>3, <2>4, WriterBeforeNextAccess DEF HandedOver, Accesses
<1> QED
  BY <1>5, <1>6

\* When a writer of an ordered key is handed over, all transactions before it
\* that access the key are decided.
LEMMA ReadersDecided ==
  ASSUME Inv, ScanInv, NEW k \in Keys, WritersOrdered(k),
         NEW t \in Txns, HandedOver(t), k \in writeset[t],
         NEW r \in Txns, k \in Accesses(r), Earlier(r, t)
  PROVE  Decided(r)
<1> DEFINE Between == {q \in Writers(k) : Earlier(r, q) /\ Earlier(q, t)}
<1> SUFFICES ASSUME ~Decided(r) PROVE FALSE
  OBVIOUS
<1>0. \A q : q \in Writers(k) <=> q \in Txns /\ k \in writeset[q]
  BY DEF Writers
<1>1. uniqueId \in [Txns -> Nat]
  BY Types DEF Inv
<1>2. \A x, y, z \in Txns : Earlier(x, y) /\ Earlier(y, z) => Earlier(x, z)
  BY <1>1 DEF Earlier
<1>3. k \in readset[r] /\ k \notin writeset[r]
  BY WritersDecided DEF Accesses
<1>4. ASSUME NEW n \in Txns, k \in writeset[n], Earlier(r, n), HandedOver(n),
             ~ \E q \in Writers(k) : Earlier(r, q) /\ Earlier(q, n)
      PROVE  FALSE
  <2>1. ConflictsOn(r, n, k)
    BY <1>3, <1>4 DEF ConflictsOn
  <2> QED
    BY <1>4, <2>1, ConflictsAreDecided
<1>5. CASE Between = {}
  BY <1>4, <1>5
<1>6. CASE Between # {}
  <2>1. PICK n \in Between : \A q \in Between : uniqueId[n] <= uniqueId[q]
    <3>1. Between \in SUBSET Txns
      BY <1>0
    <3> HIDE DEF Between
    <3> QED
      BY <1>1, <1>6, <3>1, Oldest
  <2>2. n \in Txns /\ k \in writeset[n] /\ Earlier(r, n) /\ Earlier(n, t)
    BY <1>0, <2>1
  <2>3. ~ \E q \in Writers(k) : Earlier(r, q) /\ Earlier(q, n)
    <3> SUFFICES ASSUME NEW q \in Writers(k), Earlier(r, q), Earlier(q, n) PROVE FALSE
      OBVIOUS
    <3>1. q \in Txns /\ q \in Between
      BY <1>0, <1>2, <2>2
    <3>2. uniqueId[n] <= uniqueId[q]
      BY <2>1, <3>1
    <3> QED
      BY <1>1, <2>2, <3>1, <3>2 DEF Earlier
  <2>4. Decided(n)
    BY <2>2, WritersDecided DEF Accesses
  <2> QED
    BY <1>4, <2>2, <2>3, <2>4 DEF HandedOver
<1> QED
  BY <1>5, <1>6

-----------------------------------------------------------------------------
(* What the steps do to the storage and to the reads. *)

\* Only the executors touch the data and their own threads.
LEMMA StepFrame ==
  ASSUME Inv, [Next]_vars
  PROVE  \/ UNCHANGED dataVars /\ \A w \in Executors : UNCHANGED <<pc[w], cur[w], todo[w]>>
         \/ \E w \in Executors : Executor(w)
<1>0. TypeOK /\ ThreadPhase /\ NewAreUntouched /\ OnePlace
  BY DEF Inv
<1>1. CASE (\E t \in Txns : Submit(t)) \/ TakeResult \/ Stop \/ UNCHANGED vars
  <2>1. UNCHANGED <<dataVars, threadVars>>
    BY <1>1 DEF Submit, NewTxnRequest, TakeResult, GetTxnResult, Stop, vars, coreVars
  <2> QED
    BY <2>1 DEF threadVars
<1>2. CASE PopRequest \/ ScanStep \/ EndScan
  BY <1>0, <1>2, PopRequestEffect, ScanEffect, EndScanEffect
<1>3. CASE SchedulerExit
  <2>1. UNCHANGED <<dataVars, cur, todo>> /\ pc' = [pc EXCEPT ![Main] = "exited"]
    BY <1>3 DEF SchedulerExit, Exit, Goto
  <2>2. pc \in [Threads -> Pcs]
    BY <1>0, Types
  <2> QED
    BY <2>1, <2>2, Constants
<1> QED
  BY <1>1, <1>2, <1>3 DEF Next, Scheduler, ScanStep, Terminating

\* An id, once given, stays, and only younger ones are given later; a decision
\* is final.
LEMMA IdsStay ==
  ASSUME Inv, [Next]_vars
  PROVE  /\ \A t \in Txns : uniqueId[t] > 0 => uniqueId'[t] = uniqueId[t]
         /\ \A p, t \in Txns : uniqueId[t] > 0 => (Earlier(p, t)' <=> Earlier(p, t))
         /\ \A t \in Txns : Decided(t) => status'[t] = status[t]
         /\ \A k : WritersOrdered(k)' => WritersOrdered(k)
<1>1. uniqueId \in [Txns -> Nat]
  BY Types DEF Inv
<1>2. \A p, t \in Txns : /\ uniqueId[t] > 0 => (Earlier(p, t)' <=> Earlier(p, t))
                         /\ uniqueId[t] > 0 => uniqueId'[t] = uniqueId[t]
  BY EarlierStep
<1>3. ASSUME NEW t \in Txns, Decided(t) PROVE status'[t] = status[t]
  <2>1. ASSUME NEW w \in Executors, Executor(w) PROVE status'[t] = status[t]
    BY <1>3, <2>1, ExecutorFrame
  <2> QED
    BY <2>1, StepFrame DEF dataVars
<1>4. \A p, t \in Txns : Earlier(p, t) => uniqueId[p] > 0 /\ uniqueId[t] > 0
  BY <1>1 DEF Earlier
<1>5. ASSUME NEW k, WritersOrdered(k)', NEW p \in Writers(k), NEW t \in Writers(k), Earlier(p, t),
             ~ \E q \in Writers(k) : Earlier(p, q) /\ Earlier(q, t)
      PROVE  \/ \E r \in Readers(k) : Earlier(p, r) /\ Earlier(r, t)
             \/ ~ \E r \in Readers(k) : Earlier(r, t)
  <2>1. \A q : /\ q \in Writers(k) => q \in Txns
               /\ q \in Readers(k) => q \in Txns
               /\ q \in Writers(k)' <=> q \in Writers(k)
               /\ q \in Readers(k)' <=> q \in Readers(k)
    BY DEF Writers, Readers
  <2>2. uniqueId[t] > 0 /\ Earlier(p, t)'
    BY <1>2, <1>4, <1>5, <2>1
  <2>3. \A q \in Txns : Earlier(p, q)' /\ Earlier(q, t)' <=> Earlier(p, q) /\ Earlier(q, t)
    BY <1>2, <1>4, <2>1, <2>2
  <2>4. \A r \in Txns : Earlier(r, t)' <=> Earlier(r, t)
    BY <1>2, <2>1, <2>2
  <2>5. \/ \E r \in Readers(k) : Earlier(p, r)' /\ Earlier(r, t)'
        \/ ~ \E r \in Readers(k) : Earlier(r, t)'
    BY <1>5, <2>1, <2>2, <2>3 DEF WritersOrdered
  <2> QED
    BY <2>1, <2>3, <2>4, <2>5
<1>6. ASSUME NEW k, WritersOrdered(k)' PROVE WritersOrdered(k)
  BY <1>5, <1>6 DEF WritersOrdered
<1> QED
  BY <1>2, <1>3, <1>6

\* A handed over transaction has an id.
LEMMA HandedOverHasId ==
  ASSUME Inv, NEW t \in Txns, HandedOver(t)
  PROVE  uniqueId[t] > 0
  BY DEF Inv, NewAreUntouched, HandedOver, Held, Decided, Added

\* An executor's transaction has been handed over, and to nobody else.
LEMMA BusyHandedOver ==
  ASSUME Inv, NEW w \in Executors, pc[w] \notin {"idle", "exited"}
  PROVE  /\ cur[w] \in Txns /\ HandedOver(cur[w]) /\ uniqueId[cur[w]] > 0
         /\ \A v \in Executors : cur[v] = cur[w] => v = w
<1>1. cur[w] \in Txns
  BY HolderHolds, Constants DEF Inv
<1>2. HandedOver(cur[w])
  BY <1>1 DEF HandedOver, Holds
<1> QED
  BY <1>1, <1>2, HandedOverHasId, Constants DEF Inv, OnePlace

\* So has a transaction whose write is installed.
LEMMA InstalledHandedOver ==
  ASSUME Inv, NEW p \in Txns, NEW k, Installed(p, k)
  PROVE  HandedOver(p) /\ uniqueId[p] > 0 /\ status[p] \in {"COMMITTED", "COMPLETED_C"}
<1>1. CASE status[p] = "COMMITTED"
  BY <1>1, HandedOverHasId DEF HandedOver, Decided
<1>2. ASSUME NEW w \in Executors, cur[w] = p, pc[w] = "apply"
      PROVE  HandedOver(p) /\ uniqueId[p] > 0 /\ status[p] \in {"COMMITTED", "COMPLETED_C"}
  BY <1>2, BusyHandedOver DEF Inv, ThreadPhase
<1> QED
  BY <1>1, <1>2 DEF Installed

\* And one that has read.
LEMMA HasReadHandedOver ==
  ASSUME Inv, NEW t \in Txns, NEW k, HasRead(t, k)
  PROVE  HandedOver(t) /\ uniqueId[t] > 0
<1>1. HandedOver(t)
  BY DEF HasRead, HandedOver, Holds, Held, Inv, OnePlace
<1> QED
  BY <1>1, HandedOverHasId

\* The last committed writer before a transaction that is handed over is the
\* last one for ever: all writers before it are decided.
LEMMA LastBeforeStep ==
  ASSUME Inv, ScanInv, [Next]_vars, NEW k \in Keys, WritersOrdered(k),
         NEW t \in Txns, HandedOver(t), uniqueId[t] > 0, k \in Accesses(t),
         NEW v, LastBefore(v, t, k)
  PROVE  LastBefore(v, t, k)'
<1>1. uniqueId \in [Txns -> Nat]
  BY Types DEF Inv
<1>2. ASSUME NEW p \in Txns, k \in writeset[p], Earlier(p, t)
      PROVE  status'[p] = status[p] /\ uniqueId'[p] = uniqueId[p] /\ uniqueId[p] > 0
  <2>1. Decided(p)
    BY <1>2, WritersDecided
  <2>2. uniqueId[p] > 0
    BY <1>1, <1>2 DEF Earlier
  <2> QED
    BY <2>1, <2>2, IdsStay
<1>3. \A p \in Txns : Earlier(p, t)' <=> Earlier(p, t)
  BY IdsStay
<1>4. \A p \in Txns : CommittedBefore(p, t, k)' <=> CommittedBefore(p, t, k)
  BY <1>2, <1>3 DEF CommittedBefore
<1> QED
  BY <1>2, <1>4 DEF LastBefore, CommittedBefore

\* The storage changes in ApplyWrites only, and so does what is installed of it.
LEMMA InstalledSame ==
  ASSUME Inv, [Next]_vars, ~ \E w \in Executors : ApplyWrite(w)
  PROVE  /\ storage' = storage
         /\ \A p \in Txns, k \in Keys : k \in writeset[p] => (Installed(p, k)' <=> Installed(p, k))
<1>0. TypeOK /\ ThreadPhase /\ NewAreUntouched /\ OnePlace /\ IndegreeCountsPending
  BY DEF Inv
<1>1. /\ pc \in [Threads -> Pcs] /\ cur \in [Threads -> Values]
      /\ todo \in [Threads -> SUBSET (Keys \cup Txns)] /\ status \in [Txns -> TxnStatus]
      /\ Executors \subseteq Threads
  BY <1>0, Types, Constants
<1>2. CASE UNCHANGED dataVars /\ \A w \in Executors : UNCHANGED <<pc[w], cur[w], todo[w]>>
  BY <1>2 DEF dataVars, Installed
<1>3. ASSUME NEW w \in Executors, Executor(w)
      PROVE  /\ storage' = storage
             /\ \A p \in Txns, k \in Keys : k \in writeset[p] => (Installed(p, k)' <=> Installed(p, k))
  <2> DEFINE Others == \A v \in Executors : v # w => pc'[v] = pc[v] /\ cur'[v] = cur[v] /\ todo'[v] = todo[v]
  <2>1. ASSUME UNCHANGED <<storage, status>>, pc[w] # "apply", pc'[w] # "apply", Others
        PROVE  /\ storage' = storage
               /\ \A p \in Txns, k \in Keys : k \in writeset[p] => (Installed(p, k)' <=> Installed(p, k))
    BY <2>1 DEF Installed
  <2> HIDE DEF Others
  <2>2. CASE ~ExecuteAndDecide(w)
    <3>1. /\ UNCHANGED <<storage, status>> /\ pc[w] # "apply" /\ pc'[w] # "apply" /\ Others
      BY <1>1, <1>3, <2>2 DEF Executor, PopReady, StartExecute, LockNeighbors, UnblockNeighbor,
            ReturnResult, UnlockNeighbors, ExecutorExit, Exit, Goto, dataVars, Others
    <3> QED
      BY <2>1, <3>1
  <2>3. CASE ReadRecord(w) \/ EndReadset(w)
    <3>1. /\ UNCHANGED <<storage, status>> /\ pc[w] # "apply" /\ pc'[w] # "apply" /\ Others
      BY <1>1, <2>3 DEF ReadRecord, EndReadset, Goto, dataVars, Others
    <3> QED
      BY <2>1, <3>1
  <2>4. CASE Run(w, "decide") \/ Abort(w, "lock")
    <3>1. /\ storage' = storage /\ pc[w] # "apply" /\ pc'[w] # "apply" /\ Others
          /\ pc[w] \notin {"idle", "exited"}
      BY <1>1, <2>4 DEF Run, Abort, Goto, Others
    <3>2. ASSUME NEW p \in Txns PROVE status'[p] = "COMMITTED" <=> status[p] = "COMMITTED"
      <4>1. cur[w] \in Txns /\ status[cur[w]] # "COMMITTED"
        BY <1>0, <2>4, <3>1, BusyHandedOver DEF Run, Abort, ThreadPhase
      <4> QED
        BY <1>1, <2>4, <4>1 DEF Run, Abort
    <3> QED
      BY <3>1, <3>2 DEF Installed, Others
  <2>5. CASE StartApply(w)
    <3>1. /\ UNCHANGED <<storage, status>> /\ pc[w] # "apply" /\ Others
          /\ cur'[w] = cur[w] /\ todo'[w] = writeset[cur[w]]
      BY <1>1, <2>5 DEF StartApply, Goto, dataVars, Others
    <3> QED
      BY <3>1 DEF Installed, Others
  <2>6. CASE Commit(w, "lock")
    <3>1. /\ storage' = storage /\ pc[w] = "apply" /\ todo[w] = {} /\ pc'[w] # "apply" /\ Others
          /\ status' = [status EXCEPT ![cur[w]] = "COMMITTED"]
      BY <1>1, <2>6 DEF Commit, Goto, Others
    <3>2. ASSUME NEW p \in Txns, NEW k \in Keys PROVE Installed(p, k)' <=> Installed(p, k)
      <4>1. CASE p = cur[w]
        BY <1>1, <3>1, <4>1 DEF Installed, Others
      <4>2. CASE p # cur[w]
        BY <1>1, <3>1, <4>2 DEF Installed, Others
      <4> QED
        BY <4>1, <4>2
    <3> QED
      BY <3>1, <3>2
  <2> QED
    BY <1>3, <2>2, <2>3, <2>4, <2>5, <2>6 DEF ExecuteAndDecide, Execution
<1> QED
  BY <1>2, <1>3, StepFrame

\* An installing transaction is the youngest to have installed under the key.
LEMMA StorageStep ==
  ASSUME Inv, ScanInv, StorageIsLast, [Next]_vars
  PROVE  StorageIsLast'
<1>0. /\ pc \in [Threads -> Pcs] /\ cur \in [Threads -> Values]
      /\ todo \in [Threads -> SUBSET (Keys \cup Txns)] /\ Executors \subseteq Threads
      /\ storage \in [Keys -> Values] /\ uniqueId \in [Txns -> Nat] /\ NoTxn \notin Txns
      /\ Values = Txns \cup {NoTxn}
  BY Types, Constants DEF Inv
<1> SUFFICES ASSUME NEW k \in Keys, WritersOrdered(k)'
             PROVE  /\ storage'[k] # NoTxn =>
                         k \in writeset[storage'[k]] /\ Installed(storage[k], k)'
                    /\ \A p \in Txns : k \in writeset[p] /\ Installed(p, k)' =>
                         storage'[k] # NoTxn /\ uniqueId'[p] <= uniqueId'[storage'[k]]
  BY DEF StorageIsLast
<1>1. WritersOrdered(k)
  BY IdsStay
<1>2. ASSUME storage'[k] = storage[k],
             \A p \in Txns : k \in writeset[p] => (Installed(p, k)' <=> Installed(p, k))
      PROVE  /\ storage'[k] # NoTxn =>
                  k \in writeset[storage'[k]] /\ Installed(storage[k], k)'
             /\ \A p \in Txns : k \in writeset[p] /\ Installed(p, k)' =>
                  storage'[k] # NoTxn /\ uniqueId'[p] <= uniqueId'[storage'[k]]
  <2>0. PICK v \in Values : v = storage[k]
    BY <1>0
  <2>1. /\ v # NoTxn => k \in writeset[v] /\ Installed(v, k)
        /\ \A p \in Txns : k \in writeset[p] /\ Installed(p, k) =>
             v # NoTxn /\ uniqueId[p] <= uniqueId[v]
    BY <1>1, <2>0 DEF StorageIsLast
  <2>2. \A p \in Txns : Installed(p, k) => uniqueId'[p] = uniqueId[p]
    BY InstalledHandedOver, IdsStay
  <2>3. v # NoTxn => v \in Txns /\ Installed(v, k)'
    BY <1>0, <1>2, <2>1
  <2>4. v # NoTxn => Installed(storage[k], k)'
    BY <1>2, <2>0, <2>3 DEF Installed
  <2> QED
    BY <1>2, <2>0, <2>1, <2>2, <2>3, <2>4
<1>3. CASE ~ \E w \in Executors : ApplyWrite(w)
  BY <1>2, <1>3, InstalledSame
<1>4. ASSUME NEW w \in Executors, ApplyWrite(w)
      PROVE  /\ storage'[k] # NoTxn =>
                  k \in writeset[storage'[k]] /\ Installed(storage[k], k)'
             /\ \A p \in Txns : k \in writeset[p] /\ Installed(p, k)' =>
                  storage'[k] # NoTxn /\ uniqueId'[p] <= uniqueId'[storage'[k]]
  <2>0. PICK t \in Values : t = cur[w]
    BY <1>0
  <2>1. PICK j \in Keys : /\ NextKey(w, j)
                          /\ storage' = [storage EXCEPT ![j] = cur[w]]
                          /\ todo' = [todo EXCEPT ![w] = todo[w] \ {j}]
    BY <1>4 DEF ApplyWrite
  <2>2. /\ pc[w] = "apply" /\ j \in todo[w] /\ UNCHANGED <<status, pc, cur>>
        /\ status[t] = "COMPLETED_C" /\ t \in Txns /\ HandedOver(t) /\ uniqueId[t] > 0
        /\ \A v \in Executors : cur[v] = t => v = w
        /\ j \in writeset[t]
    <3>1. pc[w] = "apply" /\ j \in todo[w] /\ UNCHANGED <<status, pc, cur>>
      BY <1>4, <2>1 DEF ApplyWrite, NextKey
    <3> QED
      BY <2>0, <3>1, BusyHandedOver DEF Inv, ThreadPhase
  <2>3. CASE k # j
    <3>1. storage'[k] = storage[k]
      BY <1>0, <2>1, <2>3
    <3>2. \A p : Installed(p, k)' <=> Installed(p, k)
      BY <1>0, <2>1, <2>2, <2>3 DEF Installed
    <3> QED
      BY <1>2, <3>1, <3>2
  <2>4. CASE k = j
    <3>1. storage'[k] = t
      BY <1>0, <2>0, <2>1, <2>4
    <3>2. \A p \in Txns : Installed(p, k)' <=> Installed(p, k) \/ p = t
      BY <1>0, <2>0, <2>1, <2>2, <2>4 DEF Installed
    <3>3. ASSUME NEW p \in Txns, k \in writeset[p], Installed(p, k), p # t
          PROVE  uniqueId[p] <= uniqueId[t] /\ uniqueId[p] > 0
      <4>1. HandedOver(p) /\ uniqueId[p] > 0
        BY <3>3, InstalledHandedOver
      <4>2. ~Decided(t)
        BY <2>2 DEF Decided
      <4>3. ~Earlier(t, p)
        BY <1>1, <2>2, <2>4, <3>3, <4>1, <4>2, WritersDecided DEF Accesses
      <4> QED
        BY <1>0, <2>2, <4>1, <4>3 DEF Earlier
    <3>4. Installed(storage[k], k)'
      BY <2>2, <3>1, <3>2 DEF Installed
    <3>5. ASSUME NEW p \in Txns, k \in writeset[p], Installed(p, k)'
          PROVE  uniqueId'[p] <= uniqueId'[t]
      <4>1. CASE p = t
        BY <1>0, <2>2, <4>1, IdsStay
      <4>2. CASE p # t
        BY <2>2, <3>2, <3>3, <3>5, <4>2, IdsStay
      <4> QED
        BY <4>1, <4>2
    <3> QED
      BY <1>0, <2>2, <2>4, <3>1, <3>4, <3>5
  <2> QED
    BY <2>3, <2>4
<1> QED
  BY <1>3, <1>4

\* What an executor finds in the storage under an ordered key, while it is
\* still reading, is the last committed write before its transaction.
LEMMA StorageIsLastBefore ==
  ASSUME Inv, ScanInv, StorageIsLast,
         NEW k \in Keys, WritersOrdered(k), NEW w \in Executors, NEW t \in Txns, t = cur[w],
         pc[w] \in {"readset", "writeset"}, k \in Accesses(t)
  PROVE  LastBefore(storage[k], t, k)
<1>0. /\ storage \in [Keys -> Values] /\ uniqueId \in [Txns -> Nat] /\ NoTxn \notin Txns
      /\ Values = Txns \cup {NoTxn}
      /\ \A p, q \in Txns : uniqueId[p] = uniqueId[q] /\ uniqueId[p] > 0 => p = q
  BY Types, Constants DEF Inv, IdsInOrder
<1>1. /\ HandedOver(t) /\ uniqueId[t] > 0 /\ status[t] = "INCOMPLETE"
      /\ \A v \in Executors : cur[v] = t => v = w
  BY BusyHandedOver DEF Inv, ThreadPhase
<1>2. ASSUME NEW p \in Txns, k \in writeset[p], Installed(p, k) PROVE CommittedBefore(p, t, k)
  <2>1. HandedOver(p) /\ uniqueId[p] > 0 /\ status[p] \in {"COMMITTED", "COMPLETED_C"}
    BY <1>2, InstalledHandedOver
  <2>2. ~Installed(t, k)
    BY <1>1 DEF Installed
  <2>3. p # t /\ ~Decided(t)
    BY <1>1, <1>2, <2>2 DEF Decided
  <2>4. ~Earlier(t, p)
    BY <1>2, <2>1, <2>3, ReadersDecided
  <2>5. Earlier(p, t)
    BY <1>0, <1>1, <2>1, <2>3, <2>4 DEF Earlier
  <2>6. Decided(p)
    BY <1>1, <1>2, <2>5, WritersDecided
  <2> QED
    BY <1>2, <2>1, <2>5, <2>6 DEF CommittedBefore, Decided
<1>3. \A p \in Txns : CommittedBefore(p, t, k) => k \in writeset[p] /\ Installed(p, k)
  BY DEF CommittedBefore, Installed
<1>4. storage[k] # NoTxn => storage[k] \in Txns
  BY <1>0
<1>5. /\ storage[k] # NoTxn => k \in writeset[storage[k]] /\ Installed(storage[k], k)
      /\ \A p \in Txns : k \in writeset[p] /\ Installed(p, k) =>
           storage[k] # NoTxn /\ uniqueId[p] <= uniqueId[storage[k]]
  BY DEF StorageIsLast
<1> QED
  BY <1>2, <1>3, <1>4, <1>5 DEF LastBefore

\* A transaction has read k for the last time because it already had, or
\* because it does so now.
LEMMA HasReadStep ==
  ASSUME Inv, [Next]_vars, NEW t \in Txns, NEW k \in Accesses(t), HasRead(t, k)'
  PROVE  \/ HasRead(t, k) /\ reads'[t][k] = reads[t][k]
         \/ \E w \in Executors : /\ cur[w] = t /\ pc[w] \in {"readset", "writeset"}
                                 /\ k \in Keys /\ reads'[t][k] = storage[k]
<1>0. /\ pc \in [Threads -> Pcs] /\ cur \in [Threads -> Values]
      /\ todo \in [Threads -> SUBSET (Keys \cup Txns)] /\ Executors \subseteq Threads
      /\ status \in [Txns -> TxnStatus] /\ reads \in [Txns -> [Keys -> Values \cup {Unread}]]
      /\ t # NoTxn
  BY Types, Constants DEF Inv
<1>1. CASE UNCHANGED dataVars /\ \A w \in Executors : UNCHANGED <<pc[w], cur[w], todo[w]>>
  BY <1>1 DEF dataVars, HasRead
<1>2. ASSUME NEW w \in Executors, Executor(w)
      PROVE  \/ HasRead(t, k) /\ reads'[t][k] = reads[t][k]
             \/ \E v \in Executors : /\ cur[v] = t /\ pc[v] \in {"readset", "writeset"}
                                     /\ k \in Keys /\ reads'[t][k] = storage[k]
  <2> DEFINE Others == \A v \in Executors : v # w => pc'[v] = pc[v] /\ cur'[v] = cur[v] /\ todo'[v] = todo[v]
  <2>1. CASE LockNeighbors(w) \/ ReturnResult(w) \/ UnlockNeighbors(w) \/ ExecutorExit(w)
             \/ \E s \in Txns : UnblockNeighbor(w, s)
    <3>1. /\ UNCHANGED <<reads, status>> /\ pc'[w] \notin {"readset", "writeset"} /\ Others
      BY <1>0, <2>1 DEF LockNeighbors, UnblockNeighbor, ReturnResult, UnlockNeighbors, ExecutorExit,
            Exit, Goto, dataVars
    <3> QED
      BY <3>1 DEF HasRead
  <2>2. CASE PopReady(w)
    <3>1. /\ UNCHANGED <<reads, status>> /\ Others
          /\ pc'[w] = "readset" /\ todo'[w] = readset[cur'[w]]
      BY <1>0, <2>2 DEF PopReady, StartExecute, Goto, dataVars
    <3> QED
      BY <3>1 DEF HasRead
  <2>3. CASE EndReadset(w)
    <3>1. /\ UNCHANGED <<reads, status>> /\ Others /\ cur'[w] = cur[w]
          /\ pc[w] = "readset" /\ todo[w] = {} /\ pc'[w] = "writeset" /\ todo'[w] = writeset[cur[w]]
      BY <1>0, <2>3 DEF EndReadset, Goto, dataVars
    <3> QED
      BY <3>1 DEF HasRead, Accesses
  <2>4. CASE ReadRecord(w)
    <3>1. PICK j \in Keys : /\ j \in todo[w]
                            /\ reads' = [reads EXCEPT ![cur[w]][j] = storage[j]]
                            /\ todo' = [todo EXCEPT ![w] = todo[w] \ {j}]
      BY <2>4 DEF ReadRecord, NextKey
    <3>2. /\ UNCHANGED <<status, pc, cur>> /\ pc[w] \in {"readset", "writeset"}
      BY <2>4 DEF ReadRecord
    <3>3. CASE cur[w] = t /\ j = k
      BY <1>0, <3>1, <3>2, <3>3
    <3>4. CASE cur[w] # t \/ j # k
      <4>1. reads'[t][k] = reads[t][k]
        BY <1>0, <3>1, <3>4
      <4>2. HasRead(t, k)
        BY <1>0, <3>1, <3>2, <3>4 DEF HasRead
      <4> QED
        BY <4>1, <4>2
    <3> QED
      BY <3>3, <3>4
  <2>5. CASE Run(w, "decide")
    <3>1. /\ UNCHANGED reads /\ Others /\ pc[w] = "writeset" /\ todo[w] = {}
          /\ pc'[w] = "decide" /\ \A s \in Txns : s # cur[w] => status'[s] = status[s]
      BY <1>0, <2>5 DEF Run, Goto
    <3> QED
      BY <3>1 DEF HasRead
  <2>6. CASE StartApply(w) \/ ApplyWrite(w) \/ Commit(w, "lock") \/ Abort(w, "lock")
    <3>1. /\ UNCHANGED reads /\ Others /\ pc'[w] \notin {"readset", "writeset"}
          /\ pc[w] \in {"decide", "apply"}
          /\ \A s \in Txns : s # cur[w] => status'[s] = status[s]
      BY <1>0, <2>6 DEF StartApply, ApplyWrite, Commit, Abort, Goto, dataVars
    <3>2. status[cur[w]] # "INCOMPLETE"
      BY <3>1 DEF Inv, ThreadPhase
    <3> QED
      BY <3>1, <3>2 DEF HasRead
  <2> QED
    BY <1>2, <2>1, <2>2, <2>3, <2>4, <2>5, <2>6 DEF Executor, ExecuteAndDecide, Execution
<1> QED
  BY <1>1, <1>2, StepFrame

\* Every step keeps the reads those of the order of arrival.
LEMMA ReadsStep ==
  ASSUME Inv, ScanInv, SerialInv, [Next]_vars
  PROVE  ReadsAreLast'
<1> USE DEF SerialInv
<1> SUFFICES ASSUME NEW k \in Keys, WritersOrdered(k)', NEW t \in Txns, k \in Accesses(t),
                    HasRead(t, k)'
             PROVE  LastBefore(reads[t][k], t, k)'
  BY DEF ReadsAreLast, Accesses
<1>1. WritersOrdered(k)
  BY IdsStay
<1>2. ASSUME NEW v, reads'[t][k] = v, LastBefore(v, t, k), HandedOver(t), uniqueId[t] > 0
      PROVE  LastBefore(reads[t][k], t, k)'
  <2>1. LastBefore(v, t, k)'
    BY <1>1, <1>2, LastBeforeStep
  <2> QED
    BY <1>2, <2>1 DEF LastBefore, CommittedBefore
<1>3. CASE HasRead(t, k) /\ reads'[t][k] = reads[t][k]
  <2>1. PICK v : v = reads[t][k]
    OBVIOUS
  <2>2. LastBefore(v, t, k)
    BY <1>1, <1>3, <2>1 DEF ReadsAreLast
  <2> QED
    BY <1>2, <1>3, <2>1, <2>2, HasReadHandedOver
<1>4. ASSUME NEW w \in Executors, cur[w] = t, pc[w] \in {"readset", "writeset"},
             reads'[t][k] = storage[k]
      PROVE  LastBefore(reads[t][k], t, k)'
  <2>1. PICK v : v = storage[k]
    OBVIOUS
  <2>2. LastBefore(v, t, k)
    BY <1>1, <1>4, <2>1, StorageIsLastBefore
  <2>3. HandedOver(t) /\ uniqueId[t] > 0
    BY <1>4, BusyHandedOver
  <2> QED
    BY <1>2, <1>4, <2>1, <2>2, <2>3
<1> QED
  BY <1>3, <1>4, HasReadStep

\* SerialValue is the last committed write before the transaction.
LEMMA SerialValueIsLast ==
  ASSUME Inv, NEW t \in Txns, NEW k, NEW v, LastBefore(v, t, k)
  PROVE  v = SerialValue(t, k)
<1> DEFINE W == {p \in Txns : k \in writeset[p] /\ Earlier(p, t) /\ status[p] = "COMMITTED"}
<1>0. uniqueId \in [Txns -> Nat]
  BY Types DEF Inv
<1>1. \A p \in Txns : p \in W <=> CommittedBefore(p, t, k)
  BY DEF CommittedBefore
<1>2. SerialValue(t, k) =
        IF W = {} THEN NoTxn ELSE CHOOSE p \in W : \A q \in W : uniqueId[q] <= uniqueId[p]
  BY DEF SerialValue
<1>3. W \subseteq Txns /\ \A p \in W : uniqueId[p] > 0
  BY <1>0 DEF Earlier
<1> HIDE DEF W
<1>4. CASE W = {}
  BY <1>1, <1>2, <1>4 DEF LastBefore
<1>5. CASE W # {}
  <2>1. v \in W /\ \A q \in W : uniqueId[q] <= uniqueId[v]
    BY <1>1, <1>3, <1>5 DEF LastBefore
  <2>2. PICK c \in W : c = SerialValue(t, k) /\ \A q \in W : uniqueId[q] <= uniqueId[c]
    BY <1>2, <1>5, <2>1
  <2>3. uniqueId[c] = uniqueId[v]
    BY <1>0, <1>3, <2>1, <2>2
  <2> QED
    BY <1>3, <2>1, <2>2, <2>3 DEF Inv, IdsInOrder
<1> QED
  BY <1>4, <1>5

-----------------------------------------------------------------------------
(* The invariant of the scan and of the storage, and what follows from it. *)

\* Initially nothing has an id, has been scanned, installed or read.
LEMMA SerialInit == Init => ScanInv /\ SerialInv
<1> SUFFICES ASSUME Init PROVE ScanInv /\ SerialInv
  OBVIOUS
<1>1. /\ uniqueId = [t \in Txns |-> 0] /\ status = [t \in Txns |-> "INCOMPLETE"]
      /\ storage = [k \in Keys |-> NoTxn] /\ sharedHolders = [k \in Keys |-> {}]
      /\ lastExcl = [k \in Keys |-> NoTxn] /\ sharedKeys = {}
      /\ \A w \in Threads : pc[w] = "idle" /\ cur[w] = NoTxn
  BY Zenon DEF Init, ContInit, CoreInit
<1>2. Main \in Threads /\ Executors \subseteq Threads /\ NoTxn \notin Txns
  BY Constants
<1>3. \A p \in Txns : \A k : /\ ~Installed(p, k) /\ ~HasRead(p, k)
                             /\ ~WriteScanned(p, k) /\ ~ReadScanned(p, k)
  BY <1>1, <1>2 DEF Installed, HasRead, WriteScanned, ReadScanned, Added
<1>4. LastExclExact /\ HoldersExact
  BY <1>1, <1>2, <1>3 DEF LastExclExact, HoldersExact
<1>5. ConflictsHandled
  BY <1>1, <1>2 DEF ConflictsHandled, Visited, Added
<1>6. StorageIsLast /\ ReadsAreLast
  BY <1>1, <1>3 DEF StorageIsLast, ReadsAreLast
<1> QED
  BY <1>4, <1>5, <1>6 DEF ScanInv, SerialInv

\* The scheduler's maps are exact, every conflict has its edge or needs none,
\* and under an ordered key the storage and the reads are those of the order of
\* arrival.
THEOREM ScanInvariant == Spec => [](Inv /\ ScanInv /\ SerialInv)
<1>1. Init => Inv /\ ScanInv /\ SerialInv
  BY InvInit, SerialInit
<1>2. Inv /\ ScanInv /\ SerialInv /\ [Next]_vars => (Inv /\ ScanInv /\ SerialInv)'
  BY InvStep, MapsStep, ConflictsStep, StorageStep, ReadsStep DEF ScanInv, SerialInv
<1> QED
  BY <1>1, <1>2, PTL DEF Spec

\* Where readers, or the want of any, order the writers of a key,
\* CALVIN_CONT_INDIV is deterministic: what a transaction reads there is fixed
\* by the order of arrival and by which transactions committed.
THEOREM OrderedKeysAreDeterministic == Spec => []OrderedKeysReadSerially
<1>1. ASSUME Inv, SerialInv PROVE OrderedKeysReadSerially
  <2> SUFFICES ASSUME NEW k \in Keys, WritersOrdered(k), NEW t \in Txns,
                      status[t] # "INCOMPLETE", k \in Accesses(t)
               PROVE  reads[t][k] = SerialValue(t, k)
    BY DEF OrderedKeysReadSerially, ReadsSerially
  <2>1. LastBefore(reads[t][k], t, k)
    BY <1>1 DEF SerialInv, ReadsAreLast, HasRead
  <2> QED
    BY <1>1, <2>1, SerialValueIsLast
<1> QED
  BY <1>1, ScanInvariant, PTL
=============================================================================
