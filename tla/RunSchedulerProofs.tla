------------------------ MODULE RunSchedulerProofs -------------------------
(***************************************************************************)
(* What holds of the modes SERIAL, OCC, P_OCC and MVCC for any number of   *)
(* transactions, records and workers: where a transaction is, which writes *)
(* are installed at the same time, what validation lets through, and that  *)
(* MVCC's readers see no half of a transaction.                            *)
(***************************************************************************)
EXTENDS RunScheduler, QueueLemmas

-----------------------------------------------------------------------------
(* The inductive invariant, by mode. *)

\* Where a transaction can be.
Tasked(t)    == \E w \in Workers : t \in Elements(tasks[w])
Running(t)   == \E w \in Threads : Busy(w) /\ cur[w] = t
Completed(t) == mode = "OCC" /\ t \in Elements(completedTxns)

\* It is final: never restarted again, all its writes installed.
Final(t) ==
    \/ \E w \in Threads : pc[w] \in {"unlock", "result"} /\ cur[w] = t
    \/ t \in Elements(txnResults)
    \/ t \in returned

\* Each mode's threads are where its code has them.
LocationsOfMode ==
    /\ mode = "SERIAL" =>
         /\ pc[Main] \in {"idle", "readset", "writeset", "decide", "apply", "result"}
         /\ \A w \in Workers : pc[w] = "idle"
    /\ mode = "OCC" =>
         /\ pc[Main] \in {"idle", "top", "apply", "invalid", "result"}
         /\ \A w \in Workers : pc[w] \in {"idle", "readset", "writeset"}
    /\ mode = "P_OCC" =>
         /\ pc[Main] = "idle"
         /\ \A w \in Workers : pc[w] \in {"idle", "readset", "writeset", "enter", "validate",
                                          "apply", "invalid", "commit", "restart", "result"}
    /\ mode = "MVCC" =>
         /\ pc[Main] = "idle"
         /\ \A w \in Workers : pc[w] \in {"idle", "readVersions", "lock", "install", "unlock",
                                          "unlockFailed", "result"}
    /\ mode = "MVCC_SSI" => \A w \in Threads : pc[w] \in {"idle", "exited"}

\* The threads have different transactions in their hands.
OneThreadEach ==
    /\ \A w \in Threads : Busy(w) => cur[w] \in Txns
    /\ \A v, w \in Threads : Busy(v) /\ Busy(w) /\ cur[v] = cur[w] => v = w

QueuesDistinct ==
    /\ Distinct(txnRequests) /\ Distinct(txnResults)
    /\ mode = "OCC" => Distinct(completedTxns)
    /\ \A w \in Workers : Distinct(tasks[w])
    /\ \A v, w \in Workers : \A t \in Elements(tasks[v]) \cap Elements(tasks[w]) : v = w

OnePlace ==
    \A t \in Txns :
        One(uniqueId[t] > 0) =
            One(t \in Elements(txnRequests)) + One(Tasked(t)) + One(Running(t))
            + One(Completed(t)) + One(t \in Elements(txnResults)) + One(t \in returned)

WritesInside == \A t \in Txns : writes[t] \subseteq writeset[t]

PlaceInv ==
    /\ LocationsOfMode
    /\ OneThreadEach
    /\ QueuesDistinct
    /\ OnePlace
    /\ WritesInside

\* MVCC: the keys that thread w has locked.
HeldBy(w) ==
    CASE pc[w] = "lock" -> writeset[cur[w]] \ todo[w]
      [] pc[w] = "install" -> writeset[cur[w]]
      [] pc[w] \in {"unlock", "unlockFailed"} -> todo[w]
      [] OTHER -> {}

LocksExact ==
    /\ lockedKeys = UNION {HeldBy(w) : w \in Workers}
    /\ \A v, w \in Workers : \A k \in HeldBy(v) \cap HeldBy(w) : v = w
    /\ \A w \in Workers : pc[w] \in {"lock", "install", "unlock", "unlockFailed"} =>
          todo[w] \subseteq writeset[cur[w]]

\* A version is the initial one or of a transaction that is final, or is
\* installing under the lock of the key.
VersionsInstalled ==
    \A k \in Keys :
        /\ NoTxn \in Elements(versions[k])
        /\ \A v \in Elements(versions[k]) :
              \/ v = NoTxn
              \/ Final(v)
              \/ \E w \in Workers : pc[w] = "install" /\ cur[w] = v /\ k \in writeset[v] \ todo[w]

\* What CheckKey found still holds where the transaction has yet to install.
StillNewest ==
    \A w \in Workers : pc[w] = "install" =>
        \A k \in todo[w] : VersionId(Head(versions[k])) <= uniqueId[cur[w]]

ReadsFinal == \A t \in Txns, k \in Keys : reads[t][k] \in Txns => Final(reads[t][k])

MVCCInv == mode = "MVCC" => LocksExact /\ VersionsInstalled /\ StillNewest /\ ReadsFinal

\* P_OCC: the active set is what is between the entry and the end of its writes.
InActive(w) == pc[w] \in {"validate", "apply", "invalid"}
ActiveExact == activeSet = {cur[w] : w \in {v \in Workers : InActive(v)}}

\* Worker w knows of the transaction of v, or has found nothing against it.
Passed(t, u) == readset[t] \cap writeset[u] = {} /\ writeset[t] \cap writeset[u] = {}
Saw(w, v) ==
    \/ pc[w] = "validate" /\ cur[v] \in finishActive[w]
    \/ pc[w] = "apply" /\ Passed(cur[w], cur[v])

OneSawTheOther ==
    \A v, w \in Workers :
        v # w /\ pc[v] \in {"validate", "apply"} /\ pc[w] \in {"validate", "apply"}
            => Saw(v, w) \/ Saw(w, v)

ParallelInv == mode = "P_OCC" => ActiveExact /\ OneSawTheOther

\* SERIAL and OCC.
CommittedFinal == \A t \in Elements(committedTxns) : Final(t)

\* The storage has the last committed write of each key, or the one that the
\* scheduler is installing.
Installed(k) == pc[Main] = "apply" /\ k \in writes[cur[Main]] \ todo[Main]
StorageExact ==
    \A k \in Keys :
        storage[k] = IF Installed(k) THEN cur[Main] ELSE LastWriter(k, Len(committedTxns))

\* What t has read under k if it is the n-th to commit: the case of
\* OnlyFirstCommitMissed.
MissesAtMostFirst(t, k, n) ==
    \/ reads[t][k] = CommitOrderValue(k, n)
    \/ /\ mode = "OCC"
       /\ occStart[t] + 1 < n
       /\ CommitOrderValue(k, n) = committedTxns[occStart[t] + 1]

\* Worker or queue has t, and t's read of k is done.
HasRead(t, k) ==
    \/ t \in Elements(completedTxns)
    \/ \E w \in Workers : /\ cur[w] = t
                          /\ \/ pc[w] = "readset" /\ k \notin todo[w]
                             \/ pc[w] = "writeset"

ReadSinceStart ==
    \A t \in Txns : \A k \in readset[t] : HasRead(t, k) =>
        \/ \E m \in occStart[t] .. Len(committedTxns) : reads[t][k] = LastWriter(k, m)
        \/ Installed(k) /\ reads[t][k] = cur[Main]

SerialReadsCurrent ==
    \A k \in Keys :
       \/ pc[Main] = "readset" /\ k \in readset[cur[Main]] \ todo[Main]
       \/ pc[Main] \in {"writeset", "decide"} /\ k \in readset[cur[Main]]
       => reads[cur[Main]][k] = LastWriter(k, Len(committedTxns))

\* A program that voted to commit has written all its writeset.
DecidedWrites ==
    pc[Main] = "decide" /\ status[cur[Main]] = "COMPLETED_C" => writes[cur[Main]] = writeset[cur[Main]]

\* What the scheduler is installing may be the next to commit.
NextMissesAtMostFirst ==
    pc[Main] = "apply" =>
        /\ todo[Main] \subseteq writes[cur[Main]]
        /\ \A k \in readset[cur[Main]] :
              MissesAtMostFirst(cur[Main], k, Len(committedTxns) + 1)

StartsInside == \A t \in Txns : occStart[t] <= Len(committedTxns)

CommitInv ==
    mode \in {"SERIAL", "OCC"} =>
        /\ CommittedFinal
        /\ StorageExact
        /\ DecidedWrites
        /\ NextMissesAtMostFirst
        /\ StartsInside
        /\ mode = "OCC" => ReadSinceStart
        /\ mode = "SERIAL" => SerialReadsCurrent
        /\ OnlyFirstCommitMissed

Inv ==
    /\ TypeOK
    /\ PlaceInv
    /\ MVCCInv
    /\ ParallelInv
    /\ CommitInv

-----------------------------------------------------------------------------
(* Types. *)

\* Reading finds one of the versions: there is always the initial one.
LEMMA VersionReadFinds ==
  ASSUME TypeOK, NEW k \in Keys, NEW id \in Nat, NoTxn \in Elements(versions[k])
  PROVE  VersionRead(k, id) \in Elements(versions[k])
<1> DEFINE Old == {i \in DOMAIN versions[k] : VersionId(versions[k][i]) <= id}
<1>1. versions[k] \in Seq(Values)
  BY DEF TypeOK, MVCCTypeOK
<1>2. Old \in SUBSET Nat
  BY <1>1
<1>3. PICK i \in DOMAIN versions[k] : versions[k][i] = NoTxn
  BY DEF Elements
<1>4. i \in Old
  BY <1>3 DEF VersionId
<1>5. PICK m \in Old : \A n \in Old : m <= n
  BY <1>2, <1>4, LeastNat
<1>6. (CHOOSE a \in Old : \A b \in Old : a <= b) \in Old
  BY <1>5
<1> QED
  BY <1>6 DEF VersionRead, Elements

\* A version that is as new as the newest goes in front.
LEMMA VersionOnTop ==
  ASSUME TypeOK, NEW k \in Keys, NEW t \in Txns, NoTxn \in Elements(versions[k]),
         VersionId(Head(versions[k])) <= uniqueId[t]
  PROVE  /\ VersionsWith(k, t) = <<t>> \o versions[k]
         /\ VersionsWith(k, t) \in Seq(Values)
         /\ Tail(VersionsWith(k, t)) = versions[k]
         /\ Head(VersionsWith(k, t)) = t
         /\ Elements(VersionsWith(k, t)) = {t} \cup Elements(versions[k])
<1> DEFINE I == {i \in DOMAIN versions[k] :
                    \A j \in 1..i : VersionId(versions[k][j]) > uniqueId[t]}
<1>1. versions[k] \in Seq(Values) /\ uniqueId \in [Txns -> Nat] /\ t \in Values
  BY DEF TypeOK, MVCCTypeOK, CoreTypeOK, ClientTypeOK, Values
<1>2. versions[k] # <<>>
  BY ElementsEmpty
<1>3. VersionId(versions[k][1]) <= uniqueId[t] /\ versions[k][1] \in Values
  BY <1>1, <1>2
<1>4. VersionId(versions[k][1]) \in Nat /\ uniqueId[t] \in Nat
  BY <1>1, <1>3 DEF VersionId, Values
<1>5. I = {}
  BY <1>1, <1>3, <1>4
<1>6. Cardinality(I) = 0
  BY <1>5, FS_EmptySet
<1>7. VersionsWith(k, t) = SubSeq(versions[k], 1, 0) \o <<t>> \o SubSeq(versions[k], 1, Len(versions[k]))
  <2>1. VersionsWith(k, t) = SubSeq(versions[k], 1, Cardinality(I)) \o <<t>>
                                \o SubSeq(versions[k], Cardinality(I) + 1, Len(versions[k]))
    BY Zenon DEF VersionsWith
  <2>2. Cardinality(I) + 1 = 1
    BY <1>6
  <2> QED
    BY <1>6, <2>1, <2>2, Zenon
<1>8. SubSeq(versions[k], 1, 0) = <<>> /\ SubSeq(versions[k], 1, Len(versions[k])) = versions[k]
  BY <1>1
<1>9. VersionsWith(k, t) = <<t>> \o versions[k]
  BY <1>1, <1>7, <1>8
<1> DEFINE new == <<t>> \o versions[k]
<1>10. new \in Seq(Values) /\ Tail(new) = versions[k] /\ Head(new) = t /\ new # <<>>
  BY <1>1
<1>11. Elements(new) = {t} \cup Elements(versions[k])
  BY <1>10, ElementsTail
<1> QED
  BY <1>9, <1>10, <1>11

LEMMA TypeInit == Init => TypeOK
<1> SUFFICES ASSUME Init PROVE TypeOK
  OBVIOUS
<1>1. CoreTypeOK
  BY CoreAssumption DEF Init, PoolInit, CoreInit, CoreTypeOK, ClientTypeOK, DataTypeOK, ThreadTypeOK,
        Values, TxnStatus
<1>2. PoolTypeOK /\ OCCTypeOK /\ MVCCTypeOK
  BY DEF Init, PoolInit, OCCInit, MVCCInit, PoolTypeOK, OCCTypeOK, MVCCTypeOK, Values
<1>3. pc \in [Threads -> PcLabels]
  BY DEF Init, PoolInit, CoreInit, PcLabels
<1> QED
  BY <1>1, <1>2, <1>3 DEF TypeOK

\* What is left alone keeps its type.
LEMMA TypeFrame ==
  ASSUME TypeOK
  PROVE  /\ UNCHANGED <<clientVars, txnRequests, txnResults>> => ClientTypeOK'
         /\ UNCHANGED dataVars => DataTypeOK'
         /\ UNCHANGED <<cur, todo>> => ThreadTypeOK'
         /\ UNCHANGED poolVars => PoolTypeOK'
         /\ UNCHANGED occVars => OCCTypeOK'
         /\ UNCHANGED mvccVars => MVCCTypeOK'
  BY DEF TypeOK, CoreTypeOK, ClientTypeOK, DataTypeOK, ThreadTypeOK, PoolTypeOK, OCCTypeOK,
        MVCCTypeOK, clientVars, dataVars, poolVars, occVars, mvccVars

\* A worker of OCC or P_OCC begins a transaction.
LEMMA BeginTypes ==
  ASSUME TypeOK, NEW w \in Workers, OCCBegin(w), UNCHANGED mvccVars
  PROVE  TypeOK'
<1> USE DEF vars, coreVars, clientVars, threadVars, clientSide
<1>1. PICK t \in Txns : /\ TakeTask(w, t) /\ StartExecute(w, t)
                        /\ occStart' = [occStart EXCEPT ![t] = Len(committedTxns)]
                        /\ UNCHANGED <<activeSet, finishActive>>
  BY DEF OCCBegin
<1>2. w \in Threads /\ t \in Values /\ readset[t] \subseteq Keys
  BY CoreAssumption DEF Workers, Values
<1>3. ThreadTypeOK' /\ (pc \in [Threads -> PcLabels])'
  BY <1>1, <1>2 DEF TypeOK, CoreTypeOK, StartExecute, ThreadTypeOK, Goto, PcLabels
<1>4. OCCTypeOK'
  BY <1>1 DEF TypeOK, CoreTypeOK, DataTypeOK, OCCTypeOK
<1>5. PoolTypeOK'
  BY <1>1 DEF TypeOK, PoolTypeOK, TakeTask
<1> QED
  BY <1>1, <1>3, <1>4, <1>5, TypeFrame DEF TypeOK, CoreTypeOK, TakeTask

LEMMA TypeStep ==
  ASSUME TypeOK, PlaceInv, MVCCInv, [Next]_vars
  PROVE  TypeOK'
<1> DEFINE PcOK == pc \in [Threads -> PcLabels]
<1>0. /\ TypeOK' = (ClientTypeOK' /\ DataTypeOK' /\ ThreadTypeOK' /\ PoolTypeOK' /\ OCCTypeOK'
                      /\ MVCCTypeOK' /\ PcOK')
      /\ ClientTypeOK /\ DataTypeOK /\ ThreadTypeOK /\ PoolTypeOK /\ OCCTypeOK /\ MVCCTypeOK /\ PcOK
      /\ Main \in Threads
      /\ \A w \in Threads : Busy(w) => cur[w] \in Txns
      /\ Txns \subseteq Values
      /\ readset \in [Txns -> SUBSET Keys] /\ writeset \in [Txns -> SUBSET Keys]
  BY CoreAssumption, PoolAssumption DEF TypeOK, CoreTypeOK, PlaceInv, OneThreadEach, Values
<1> USE DEF vars, coreVars, clientVars, threadVars, clientSide
<1>1. ASSUME NEW t \in Txns, Submit(t) PROVE TypeOK'
  <2>1. ClientTypeOK'
    BY <1>0, <1>1 DEF Submit, NewTxnRequest, ClientTypeOK
  <2> QED
    BY <1>0, <1>1, <2>1, TypeFrame DEF Submit, NewTxnRequest
<1>2. CASE TakeResult
  <2>1. ClientTypeOK'
    BY <1>0, <1>2 DEF TakeResult, GetTxnResult, ClientTypeOK
  <2> QED
    BY <1>0, <1>2, <2>1, TypeFrame DEF TakeResult, GetTxnResult
<1>3. CASE UNCHANGED vars
  BY <1>0, <1>3, TypeFrame
\* One thread executes one transaction, in any mode.
<1>4. ASSUME NEW w \in Threads, Busy(w), ReadRecord(w) \/ EndReadset(w) \/ ApplyWrite(w)
      PROVE  DataTypeOK' /\ ThreadTypeOK' /\ PcOK'
  <2>1. CASE ReadRecord(w)
    BY <1>0, <1>4, <2>1 DEF ReadRecord, DataTypeOK, ThreadTypeOK
  <2>2. CASE EndReadset(w)
    BY <1>0, <1>4, <2>2, TypeFrame DEF EndReadset, ThreadTypeOK, Goto, PcLabels
  <2>3. CASE ApplyWrite(w)
    BY <1>0, <1>4, <2>3 DEF ApplyWrite, DataTypeOK, ThreadTypeOK
  <2> QED
    BY <1>4, <2>1, <2>2, <2>3
<1>5. ASSUME NEW w \in Threads, Busy(w), NEW l \in PcLabels, Run(w, l), Written(cur[w]),
             UNCHANGED <<clientSide, mode, tasks>>
      PROVE  ClientTypeOK' /\ DataTypeOK' /\ ThreadTypeOK' /\ PcOK' /\ PoolTypeOK'
  <2>1. status' \in [Txns -> TxnStatus]
    BY <1>0, <1>5 DEF Run, DataTypeOK, TxnStatus
  <2>2. completedTxns' \in Seq(Txns)
    BY <1>0, <1>5 DEF Run, DataTypeOK
  <2>3. writes' \in [Txns -> SUBSET Keys]
    BY <1>0, <1>5 DEF Written, PoolTypeOK
  <2> QED
    BY <1>0, <1>5, <2>1, <2>2, <2>3, TypeFrame DEF Run, DataTypeOK, ThreadTypeOK, PoolTypeOK, Goto
<1>6. ASSUME NEW w \in Threads, Busy(w), NEW l \in PcLabels, Commit(w, l) \/ Abort(w, l)
      PROVE  DataTypeOK' /\ ThreadTypeOK' /\ PcOK'
  <2>1. CASE Commit(w, l)
    BY <1>0, <1>6, <2>1 DEF Commit, DataTypeOK, ThreadTypeOK, Goto, TxnStatus
  <2>2. CASE Abort(w, l)
    BY <1>0, <1>6, <2>2 DEF Abort, DataTypeOK, ThreadTypeOK, Goto, TxnStatus
  <2> QED
    BY <1>6, <2>1, <2>2
<1>7. ASSUME NEW w \in Threads, Busy(w), PushResult(w), UNCHANGED poolVars
      PROVE  ClientTypeOK' /\ DataTypeOK' /\ ThreadTypeOK' /\ PcOK' /\ PoolTypeOK'
  BY <1>0, <1>7, TypeFrame DEF PushResult, ClientTypeOK, ThreadTypeOK, Goto, PcLabels, Values
<1>8. ASSUME NEW l, PassRequest(l)
      PROVE  ClientTypeOK' /\ DataTypeOK' /\ ThreadTypeOK' /\ PcOK' /\ PoolTypeOK'
  BY <1>0, <1>8, TypeFrame DEF PassRequest, ClientTypeOK, PoolTypeOK, Goto, PcLabels
<1>9. ASSUME NEW w \in Threads, Busy(w), Restart(w)
      PROVE  ClientTypeOK' /\ DataTypeOK' /\ ThreadTypeOK' /\ PcOK' /\ PoolTypeOK'
  <2>1. reads' \in [Txns -> [Keys -> Values \cup {Unread}]]
    BY <1>0, <1>9 DEF Restart, DataTypeOK
  <2>2. writes' \in [Txns -> SUBSET Keys] /\ status' \in [Txns -> TxnStatus]
    BY <1>0, <1>9 DEF Restart, DataTypeOK, PoolTypeOK, TxnStatus
  <2> QED
    BY <1>0, <1>9, <2>1, <2>2 DEF Restart, ClientTypeOK, DataTypeOK, ThreadTypeOK, PoolTypeOK, Goto,
        PcLabels, Values
<1>10. ASSUME NEW w \in Threads, Busy(w), Vote(w)
       PROVE  ClientTypeOK' /\ DataTypeOK' /\ PoolTypeOK' /\ cur' = cur
  <2>1. status' \in [Txns -> TxnStatus]
    BY <1>0, <1>10 DEF Vote, DataTypeOK, TxnStatus
  <2>2. writes' \in [Txns -> SUBSET Keys]
    BY <1>0, <1>10 DEF Vote, Written, PoolTypeOK
  <2> QED
    BY <1>0, <1>10, <2>1, <2>2, TypeFrame DEF Vote, DataTypeOK, PoolTypeOK
<1>11. ASSUME NEW w \in Threads, Busy(w), MarkCommitted(w)
       PROVE  ClientTypeOK' /\ DataTypeOK' /\ ThreadTypeOK' /\ PcOK' /\ PoolTypeOK'
  BY <1>0, <1>11, TypeFrame DEF MarkCommitted, DataTypeOK, ThreadTypeOK, Goto, PcLabels, TxnStatus
<1>12. ASSUME NEW w \in Workers, NEW t \in Txns, TakeTask(w, t)
       PROVE  ClientTypeOK' /\ DataTypeOK' /\ PoolTypeOK'
  BY <1>0, <1>12, TypeFrame DEF TakeTask, PoolTypeOK
<1>13. CASE mode = "SERIAL" /\ SerialScheduler /\ UNCHANGED <<occVars, mvccVars>>
  <2>1. CASE SerialPop
    <3>1. ThreadTypeOK' /\ PcOK' /\ ClientTypeOK'
      BY <1>0, <2>1 DEF SerialPop, StartExecute, Goto, ThreadTypeOK, ClientTypeOK, PcLabels
    <3> QED
      BY <1>0, <1>13, <2>1, <3>1, TypeFrame DEF SerialPop
  <2>2. CASE SerialExecute
    <3>1. Busy(Main)
      BY <2>2 DEF SerialExecute, ReadRecord, EndReadset, Run, Busy
    <3>2. CASE (ReadRecord(Main) \/ EndReadset(Main)) /\ UNCHANGED writes
      BY <1>0, <1>4, <1>13, <2>2, <3>1, <3>2, TypeFrame DEF SerialExecute, poolVars
    <3>3. CASE Run(Main, "decide") /\ Written(cur[Main])
      BY <1>0, <1>5, <1>13, <2>2, <3>1, <3>3, TypeFrame DEF SerialExecute, PcLabels
    <3> QED
      BY <2>2, <3>2, <3>3 DEF SerialExecute
  <2>3. CASE SerialDecide
    <3>1. Busy(Main)
      BY <2>3 DEF SerialDecide, StartApply, ApplyWrite, Commit, Abort, Busy
    <3>2. CASE StartApply(Main)
      <4>1. ThreadTypeOK' /\ PcOK'
        BY <1>0, <3>1, <3>2 DEF StartApply, ThreadTypeOK, Goto, PcLabels
      <4> QED
        BY <1>0, <1>13, <2>3, <3>2, <4>1, TypeFrame DEF SerialDecide, StartApply
    <3> QED
      BY <1>0, <1>4, <1>6, <1>13, <2>3, <3>1, <3>2, TypeFrame DEF SerialDecide, PcLabels
  <2>4. CASE SerialResult
    <3>1. Busy(Main)
      BY <2>4 DEF SerialResult, PushResult, Busy
    <3> QED
      BY <1>0, <1>7, <1>13, <2>4, <3>1, TypeFrame DEF SerialResult
  <2> QED
    BY <1>13, <2>1, <2>2, <2>3, <2>4 DEF SerialScheduler
<1>14. CASE mode = "OCC" /\ OCCScheduler /\ UNCHANGED mvccVars
  <2>1. CASE OCCPassRequest
    BY <1>0, <1>8, <1>14, <2>1, TypeFrame DEF OCCPassRequest
  <2>2. CASE OCCNoRequest \/ OCCEndRound
    <3>1. PcOK'
      BY <1>0, <2>2 DEF OCCNoRequest, OCCEndRound, Goto, PcLabels
    <3> QED
      BY <1>0, <1>14, <2>2, <3>1, TypeFrame DEF OCCNoRequest, OCCEndRound
  <2>3. CASE OCCValidate
    <3>1. DataTypeOK'
      BY <1>0, <2>3 DEF OCCValidate, DataTypeOK
    <3>2. ThreadTypeOK' /\ PcOK'
      <4>1. PICK valid \in BOOLEAN : Conclude(Main, Head(completedTxns), valid)
        BY <2>3 DEF OCCValidate
      <4>2. cur' = [cur EXCEPT ![Main] = Head(completedTxns)] /\ Head(completedTxns) \in Txns
        BY <1>0, <2>3 DEF OCCValidate, DataTypeOK
      <4> QED
        BY <1>0, <4>1, <4>2 DEF Conclude, Goto, ThreadTypeOK, PoolTypeOK, PcLabels
    <3> QED
      BY <1>0, <1>14, <2>3, <3>1, <3>2, TypeFrame DEF OCCValidate
  <2>4. CASE OCCRestart
    <3>1. Busy(Main)
      BY <2>4 DEF OCCRestart, Busy
    <3> QED
      BY <1>0, <1>9, <1>14, <2>4, <3>1, TypeFrame DEF OCCRestart
  <2>5. CASE OCCCommit
    <3>1. Busy(Main)
      BY <2>5 DEF OCCCommit, ApplyWrite, Commit, Busy
    <3> QED
      BY <1>0, <1>4, <1>6, <1>14, <2>5, <3>1, TypeFrame DEF OCCCommit, PcLabels
  <2>6. CASE OCCResult
    <3>1. Busy(Main)
      BY <2>6 DEF OCCResult, PushResult, Busy
    <3> QED
      BY <1>0, <1>7, <1>14, <2>6, <3>1, TypeFrame DEF OCCResult
  <2> QED
    BY <1>14, <2>1, <2>2, <2>3, <2>4, <2>5, <2>6 DEF OCCScheduler
<1>15. CASE mode = "P_OCC" /\ ParallelScheduler /\ UNCHANGED mvccVars
  BY <1>0, <1>8, <1>15, TypeFrame DEF ParallelScheduler
<1>16. CASE mode = "MVCC" /\ MVCCScheduler /\ UNCHANGED occVars
  BY <1>0, <1>8, <1>16, TypeFrame DEF MVCCScheduler
<1>17. CASE NoCase
  <2>1. PcOK'
    BY <1>0, <1>17 DEF NoCase, Goto, PcLabels
  <2> QED
    BY <1>0, <1>17, <2>1, TypeFrame DEF NoCase
<1>18. ASSUME NEW w \in Workers, mode = "OCC" /\ OCCWorker(w) /\ UNCHANGED mvccVars
       PROVE  TypeOK'
  <2>0. w \in Threads
    BY DEF Workers
  <2>1. CASE OCCBegin(w)
    BY <1>18, <2>1, BeginTypes
  <2>2. CASE OCCRead(w)
    <3>1. Busy(w)
      BY <2>2 DEF OCCRead, ReadRecord, EndReadset, Busy
    <3> QED
      BY <1>0, <1>4, <1>18, <2>0, <2>2, <3>1, TypeFrame DEF OCCRead
  <2>3. CASE OCCRun(w)
    <3>1. Busy(w)
      BY <2>3 DEF OCCRun, Run, Busy
    <3> QED
      BY <1>0, <1>5, <1>18, <2>0, <2>3, <3>1, TypeFrame DEF OCCRun, PcLabels
  <2> QED
    BY <1>18, <2>1, <2>2, <2>3 DEF OCCWorker
<1>19. ASSUME NEW w \in Workers, mode = "P_OCC" /\ ParallelWorker(w) /\ UNCHANGED mvccVars
       PROVE  TypeOK'
  <2>0. w \in Threads
    BY DEF Workers
  <2>1. CASE OCCBegin(w)
    BY <1>19, <2>1, BeginTypes
  <2>2. CASE OCCRead(w) \/ ParallelApply(w)
    <3>1. Busy(w)
      BY <2>2 DEF OCCRead, ParallelApply, ReadRecord, EndReadset, ApplyWrite, Busy
    <3> QED
      BY <1>0, <1>4, <1>19, <2>0, <2>2, <3>1, TypeFrame DEF OCCRead, ParallelApply
  <2>3. CASE ParallelRun(w)
    <3>1. Busy(w)
      BY <2>3 DEF ParallelRun, Busy
    <3>2. ThreadTypeOK' /\ PcOK'
      BY <1>0, <1>10, <2>0, <2>3, <3>1 DEF ParallelRun, ThreadTypeOK, Goto, PcLabels
    <3> QED
      BY <1>0, <1>10, <1>19, <2>0, <2>3, <3>1, <3>2, TypeFrame DEF ParallelRun
  <2>4. CASE EnterActive(w) \/ EraseActive(w)
    <3>1. Busy(w)
      BY <2>4 DEF EnterActive, EraseActive, Busy
    <3>2. OCCTypeOK' /\ PcOK'
      BY <1>0, <2>0, <2>4, <3>1 DEF EnterActive, EraseActive, OCCTypeOK, Goto, PcLabels
    <3> QED
      BY <1>0, <1>19, <2>4, <3>2, TypeFrame DEF EnterActive, EraseActive
  <2>5. CASE ValidateParallel(w)
    <3>1. OCCTypeOK'
      BY <1>0, <2>5 DEF ValidateParallel, OCCTypeOK
    <3>2. ThreadTypeOK' /\ PcOK'
      <4>1. PICK valid \in BOOLEAN : Conclude(w, cur[w], valid)
        BY <2>5 DEF ValidateParallel
      <4>2. cur' = cur /\ cur[w] \in Txns
        BY <1>0, <2>0, <2>5 DEF ValidateParallel, Busy
      <4> QED
        BY <1>0, <2>0, <4>1, <4>2 DEF Conclude, Goto, ThreadTypeOK, PoolTypeOK, PcLabels
    <3> QED
      BY <1>0, <1>19, <2>5, <3>1, <3>2, TypeFrame DEF ValidateParallel
  <2>6. CASE ParallelFinish(w)
    <3>1. Busy(w)
      BY <2>6 DEF ParallelFinish, PushResult, Busy
    <3> QED
      BY <1>0, <1>7, <1>9, <1>11, <1>19, <2>0, <2>6, <3>1, TypeFrame DEF ParallelFinish
  <2> QED
    BY <1>19, <2>1, <2>2, <2>3, <2>4, <2>5, <2>6 DEF ParallelWorker
<1>20. ASSUME NEW w \in Workers, mode = "MVCC" /\ MVCCWorker(w) /\ UNCHANGED occVars
       PROVE  TypeOK'
  <2>0. w \in Threads /\ MVCCInv /\ mode = "MVCC"
    BY <1>20 DEF Workers
  <2>1. CASE MVCCBegin(w)
    <3>1. PICK t \in Txns : /\ TakeTask(w, t) /\ Goto(w, "readVersions")
                            /\ cur' = [cur EXCEPT ![w] = t]
                            /\ todo' = [todo EXCEPT ![w] = Accesses(t)] /\ UNCHANGED mvccVars
      BY <2>1 DEF MVCCBegin
    <3>2. ThreadTypeOK' /\ PcOK'
      BY <1>0, <2>0, <3>1 DEF ThreadTypeOK, Goto, PcLabels, Accesses
    <3> QED
      BY <1>0, <1>12, <1>20, <3>1, <3>2, TypeFrame
  <2>2. CASE ReadVersion(w)
    <3>1. Busy(w)
      BY <2>2 DEF ReadVersion, Busy
    <3>2. PICK k \in Keys :
             /\ reads' = [reads EXCEPT ![cur[w]][k] = VersionRead(k, uniqueId[cur[w]])]
             /\ todo' = [todo EXCEPT ![w] = @ \ {k}]
      BY <2>2 DEF ReadVersion
    <3>3. VersionRead(k, uniqueId[cur[w]]) \in Values
      <4>1. uniqueId[cur[w]] \in Nat /\ NoTxn \in Elements(versions[k])
        BY <1>0, <2>0, <3>1 DEF ClientTypeOK, MVCCInv, VersionsInstalled
      <4>2. versions[k] \in Seq(Values)
        BY <1>0 DEF MVCCTypeOK
      <4> QED
        BY <4>1, <4>2, VersionReadFinds, ElementsType
    <3>4. reads' \in [Txns -> [Keys -> Values \cup {Unread}]]
      BY <1>0, <2>0, <3>1, <3>2, <3>3 DEF DataTypeOK
    <3>5. ThreadTypeOK' /\ PcOK' /\ DataTypeOK'
      BY <1>0, <2>0, <2>2, <3>2, <3>4 DEF ReadVersion, ThreadTypeOK, DataTypeOK
    <3> QED
      BY <1>0, <1>20, <2>2, <3>5, TypeFrame DEF ReadVersion
  <2>3. CASE MVCCRun(w)
    <3>1. Busy(w)
      BY <2>3 DEF MVCCRun, Busy
    <3>2. ThreadTypeOK' /\ PcOK'
      BY <1>0, <1>10, <2>0, <2>3, <3>1 DEF MVCCRun, ThreadTypeOK, Goto, PcLabels
    <3> QED
      BY <1>0, <1>10, <1>20, <2>0, <2>3, <3>1, <3>2, TypeFrame DEF MVCCRun
  <2>4. CASE LockKey(w) \/ UnlockKey(w)
    <3>1. ThreadTypeOK' /\ PcOK' /\ MVCCTypeOK'
      BY <1>0, <2>0, <2>4 DEF LockKey, UnlockKey, ThreadTypeOK, MVCCTypeOK
    <3> QED
      BY <1>0, <1>20, <2>4, <3>1, TypeFrame DEF LockKey, UnlockKey
  <2>5. CASE CheckKeys(w)
    <3>1. PICK passed \in BOOLEAN :
             /\ Goto(w, IF passed THEN "install" ELSE "unlockFailed")
             /\ todo' = [todo EXCEPT ![w] = IF passed THEN writes[cur[w]] ELSE writeset[cur[w]]]
      BY <2>5 DEF CheckKeys
    <3>2. cur' = cur /\ cur[w] \in Txns
      BY <1>0, <2>0, <2>5 DEF CheckKeys, Busy
    <3>3. ThreadTypeOK' /\ PcOK'
      BY <1>0, <2>0, <3>1, <3>2 DEF ThreadTypeOK, Goto, PcLabels, PoolTypeOK
    <3> QED
      BY <1>0, <1>20, <2>5, <3>3, TypeFrame DEF CheckKeys
  <2>6. CASE InstallVersion(w)
    <3>1. PICK k \in Keys : /\ NextKey(w, k)
                            /\ versions' = [versions EXCEPT ![k] = VersionsWith(k, cur[w])]
                            /\ todo' = [todo EXCEPT ![w] = @ \ {k}]
      BY <2>6 DEF InstallVersion
    <3>2. VersionsWith(k, cur[w]) \in Seq(Values)
      BY <1>0, <1>20, <2>0, <2>6, <3>1, VersionOnTop DEF InstallVersion, MVCCInv, VersionsInstalled, StillNewest,
            NextKey, Busy
    <3>3. ThreadTypeOK' /\ PcOK' /\ MVCCTypeOK'
      BY <1>0, <2>0, <2>6, <3>1, <3>2 DEF InstallVersion, ThreadTypeOK, MVCCTypeOK
    <3> QED
      BY <1>0, <1>20, <2>6, <3>3, TypeFrame DEF InstallVersion
  <2>7. CASE EndInstall(w)
    <3>1. ThreadTypeOK' /\ PcOK'
      BY <1>0, <2>0, <2>7 DEF EndInstall, ThreadTypeOK, Goto, PcLabels, Busy
    <3> QED
      BY <1>0, <1>20, <2>7, <3>1, TypeFrame DEF EndInstall
  <2>8. CASE MVCCFinish(w)
    <3>1. Busy(w)
      BY <2>8 DEF MVCCFinish, PushResult, Busy
    <3> QED
      BY <1>0, <1>7, <1>9, <1>11, <1>20, <2>0, <2>8, <3>1, TypeFrame DEF MVCCFinish
  <2> QED
    BY <1>20, <2>1, <2>2, <2>3, <2>4, <2>5, <2>6, <2>7, <2>8 DEF MVCCWorker
<1> QED
  BY <1>1, <1>2, <1>3, <1>13, <1>14, <1>15, <1>16, <1>17, <1>18, <1>19, <1>20
     DEF Next, Scheduler, Worker

-----------------------------------------------------------------------------
(* Where the threads are, and where a transaction is. *)

LEMMA PlaceInit == Init => PlaceInv
<1> SUFFICES ASSUME Init PROVE PlaceInv
  OBVIOUS
<1>1. /\ txnRequests = <<>> /\ txnResults = <<>> /\ completedTxns = <<>> /\ returned = {}
      /\ uniqueId = [t \in Txns |-> 0] /\ writes = [t \in Txns |-> {}]
      /\ pc = [w \in Threads |-> "idle"] /\ tasks = [w \in Workers |-> <<>>]
  BY Zenon DEF Init, PoolInit, CoreInit
<1>2. /\ Main \in Threads /\ \A w \in Threads : pc[w] = "idle" /\ ~Busy(w)
      /\ \A w \in Workers : w \in Threads /\ tasks[w] = <<>>
      /\ \A t \in Txns : uniqueId[t] = 0 /\ writes[t] = {}
  BY <1>1, PoolAssumption DEF Workers, Busy
<1>3. LocationsOfMode /\ OneThreadEach /\ WritesInside
  BY <1>2 DEF LocationsOfMode, OneThreadEach, WritesInside
<1>4. QueuesDistinct
  BY <1>1, <1>2 DEF QueuesDistinct, Distinct, Elements
<1>5. OnePlace
  <2>1. SUFFICES ASSUME NEW t \in Txns
                 PROVE  One(uniqueId[t] > 0) =
                            One(t \in Elements(txnRequests)) + One(Tasked(t)) + One(Running(t))
                            + One(Completed(t)) + One(t \in Elements(txnResults))
                            + One(t \in returned)
    BY Zenon DEF OnePlace
  <2>2. /\ t \notin Elements(txnRequests) /\ t \notin Elements(txnResults) /\ t \notin returned
        /\ ~Completed(t)
    BY <1>1, ElementsEmpty DEF Completed
  <2>3. ~Tasked(t) /\ ~Running(t)
    BY <1>2, ElementsEmpty DEF Tasked, Running
  <2> QED
    BY <1>2, <2>2, <2>3 DEF One
<1> QED
  BY <1>3, <1>4, <1>5 DEF PlaceInv

LEMMA LocationsStep ==
  ASSUME TypeOK, PlaceInv, [Next]_vars
  PROVE  LocationsOfMode' /\ mode' = mode
<1> USE DEF vars, coreVars, clientVars, threadVars, clientSide, poolVars, Goto
<1>0. LocationsOfMode /\ Main \in Threads /\ Main \notin Workers /\ Workers \subseteq Threads
      /\ pc \in [Threads -> PcLabels]
  BY PoolAssumption DEF TypeOK, PlaceInv, Workers
<1>1. CASE UNCHANGED <<pc, mode>>
  BY <1>0, <1>1 DEF LocationsOfMode
<1>2. ASSUME NEW t \in Txns, Submit(t) PROVE UNCHANGED <<pc, mode>>
  BY <1>2 DEF Submit, NewTxnRequest
<1>3. CASE TakeResult \/ UNCHANGED vars
  BY <1>1, <1>3 DEF TakeResult, GetTxnResult
<1>4. CASE mode = "SERIAL" /\ SerialScheduler
  BY <1>0, <1>4 DEF SerialScheduler, SerialPop, StartExecute, SerialExecute, ReadRecord, EndReadset,
        Run, SerialDecide, StartApply, ApplyWrite, Commit, Abort, SerialResult, PushResult,
        LocationsOfMode
<1>5. CASE mode = "OCC" /\ OCCScheduler
  BY <1>0, <1>5 DEF OCCScheduler, OCCPassRequest, PassRequest, OCCNoRequest, OCCValidate, Conclude,
        OCCRestart, Restart, OCCCommit, ApplyWrite, Commit, OCCResult, PushResult, OCCEndRound,
        LocationsOfMode
<1>6. CASE \/ mode = "P_OCC" /\ ParallelScheduler
           \/ mode = "MVCC" /\ MVCCScheduler
           \/ NoCase
  BY <1>0, <1>6 DEF ParallelScheduler, MVCCScheduler, PassRequest, NoCase, LocationsOfMode
<1>7. ASSUME NEW w \in Workers, mode = "OCC" /\ OCCWorker(w)
      PROVE  LocationsOfMode' /\ mode' = mode
  BY <1>0, <1>7 DEF OCCWorker, OCCBegin, TakeTask, StartExecute, OCCRead, ReadRecord, EndReadset,
        OCCRun, Run, LocationsOfMode
<1>8. ASSUME NEW w \in Workers, mode = "P_OCC" /\ ParallelWorker(w)
      PROVE  LocationsOfMode' /\ mode' = mode
  <2>1. mode' = mode /\ \E l \in {"idle", "readset", "writeset", "enter", "validate", "apply",
                                  "invalid", "commit", "restart", "result"} :
                           pc' = [pc EXCEPT ![w] = l]
    <3>1. CASE OCCBegin(w) \/ ParallelRun(w) \/ EnterActive(w) \/ ValidateParallel(w)
               \/ EraseActive(w) \/ ParallelFinish(w)
      BY <3>1 DEF OCCBegin, TakeTask, StartExecute, ParallelRun, Vote, EnterActive, ValidateParallel,
            Conclude, EraseActive, ParallelFinish, MarkCommitted, PushResult, Restart
    <3>2. CASE OCCRead(w) \/ ParallelApply(w)
      <4>1. pc[w] \in {"readset", "writeset", "apply"}
        BY <3>2 DEF OCCRead, ReadRecord, EndReadset, ParallelApply, ApplyWrite
      <4>2. pc = [pc EXCEPT ![w] = pc[w]]
        BY <1>0
      <4> QED
        BY <3>2, <4>1, <4>2 DEF OCCRead, ReadRecord, EndReadset, ParallelApply, ApplyWrite
    <3> QED
      BY <1>8, <3>1, <3>2 DEF ParallelWorker
  <2> QED
    BY <1>0, <1>8, <2>1 DEF LocationsOfMode
<1>9. ASSUME NEW w \in Workers, mode = "MVCC" /\ MVCCWorker(w)
      PROVE  LocationsOfMode' /\ mode' = mode
  <2>1. mode' = mode /\ \E l \in {"idle", "readVersions", "lock", "install", "unlock",
                                  "unlockFailed", "result"} :
                           pc' = [pc EXCEPT ![w] = l]
    <3>1. CASE MVCCBegin(w) \/ MVCCRun(w) \/ CheckKeys(w) \/ EndInstall(w) \/ MVCCFinish(w)
      BY <3>1 DEF MVCCBegin, TakeTask, MVCCRun, Vote, CheckKeys, EndInstall, MVCCFinish,
            MarkCommitted, PushResult, Restart
    <3>2. CASE ReadVersion(w) \/ LockKey(w) \/ InstallVersion(w) \/ UnlockKey(w)
      <4>1. pc[w] \in {"readVersions", "lock", "install", "unlock", "unlockFailed"}
        BY <3>2 DEF ReadVersion, LockKey, InstallVersion, UnlockKey
      <4>2. pc = [pc EXCEPT ![w] = pc[w]]
        BY <1>0
      <4> QED
        BY <3>2, <4>1, <4>2 DEF ReadVersion, LockKey, InstallVersion, UnlockKey
    <3> QED
      BY <1>9, <3>1, <3>2 DEF MVCCWorker
  <2> QED
    BY <1>0, <1>9, <2>1 DEF LocationsOfMode
<1> QED
  BY <1>1, <1>2, <1>3, <1>4, <1>5, <1>6, <1>7, <1>8, <1>9 DEF Next, Scheduler, Worker

LEMMA WritesStep ==
  ASSUME TypeOK, PlaceInv, [Next]_vars
  PROVE  WritesInside'
<1> USE DEF vars, coreVars, clientVars, threadVars, clientSide, poolVars
<1>0. WritesInside /\ writes \in [Txns -> SUBSET Keys]
  BY DEF TypeOK, PoolTypeOK, PlaceInv
<1>1. CASE writes' = writes
  BY <1>0, <1>1 DEF WritesInside
<1>2. ASSUME NEW w \in Threads, Written(cur[w]) PROVE WritesInside'
  BY <1>0, <1>2 DEF Written, WritesInside
<1>3. ASSUME NEW w \in Threads, Restart(w) PROVE WritesInside'
  BY <1>0, <1>3 DEF Restart, WritesInside
<1>4. CASE TakeResult \/ UNCHANGED vars
  BY <1>1, <1>4 DEF TakeResult, GetTxnResult
<1>5. ASSUME NEW t \in Txns, Submit(t) PROVE writes' = writes
  BY <1>5 DEF Submit, NewTxnRequest
<1>6. CASE Scheduler
  BY <1>1, <1>2, <1>3, <1>6, PoolAssumption DEF Scheduler, NoCase, SerialScheduler, SerialPop, SerialExecute, SerialDecide,
        SerialResult, OCCScheduler, OCCPassRequest, PassRequest, OCCNoRequest, OCCValidate,
        OCCRestart, OCCCommit, OCCResult, OCCEndRound, ParallelScheduler, MVCCScheduler
<1>7. ASSUME NEW w \in Workers, Worker(w) PROVE WritesInside'
  BY <1>1, <1>2, <1>3, <1>7 DEF Workers, Worker, OCCWorker, ParallelWorker, MVCCWorker, OCCBegin,
        TakeTask, OCCRead, OCCRun, ParallelRun, Vote, EnterActive, ValidateParallel, ParallelApply,
        EraseActive, ParallelFinish, MarkCommitted, MVCCBegin, ReadVersion, MVCCRun, LockKey,
        CheckKeys, InstallVersion, EndInstall, UnlockKey, MVCCFinish
<1> QED
  BY <1>1, <1>4, <1>5, <1>6, <1>7 DEF Next

\* A thread that keeps its transaction changes nobody's place; one that lets it
\* go leaves it nowhere, one that takes one has it from then on.
LEMMA KeepsTransaction ==
  ASSUME OneThreadEach, NEW w \in Threads, pc \in [Threads -> PcLabels], NEW l, Goto(w, l), cur' = cur,
         Busy(w) <=> l \notin {"idle", "top", "exited"}
  PROVE  OneThreadEach' /\ \A t \in Txns : Running(t)' <=> Running(t)
<1>1. \A v \in Threads : Busy(v)' <=> Busy(v)
  BY DEF Goto, Busy
<1> QED
  BY <1>1 DEF OneThreadEach, Running

LEMMA LetsGo ==
  ASSUME OneThreadEach, NEW w \in Threads, pc \in [Threads -> PcLabels], NEW l, Goto(w, l),
         cur' = cur \/ cur' = [cur EXCEPT ![w] = NoTxn], cur \in [Threads -> Values],
         Busy(w), l \in {"idle", "top", "exited"}
  PROVE  OneThreadEach' /\ \A t \in Txns : Running(t)' <=> Running(t) /\ t # cur[w]
<1>1. \A v \in Threads : /\ Busy(v)' <=> Busy(v) /\ v # w
                         /\ v # w => cur'[v] = cur[v]
  BY DEF Goto, Busy
<1> QED
  BY <1>1 DEF OneThreadEach, Running

LEMMA Takes ==
  ASSUME OneThreadEach, NEW w \in Threads, pc \in [Threads -> PcLabels], NEW l, Goto(w, l),
         NEW h \in Txns, cur' = [cur EXCEPT ![w] = h], cur \in [Threads -> Values],
         ~Busy(w), l \notin {"idle", "top", "exited"}, ~Running(h)
  PROVE  OneThreadEach' /\ \A t \in Txns : Running(t)' <=> Running(t) \/ t = h
<1>1. \A v \in Threads : /\ Busy(v)' <=> Busy(v) \/ v = w
                         /\ cur'[v] = IF v = w THEN h ELSE cur[v]
  BY DEF Goto, Busy
<1> QED
  BY <1>1 DEF OneThreadEach, Running

\* The pool's queues.
TasksDistinct ==
    /\ \A w \in Workers : Distinct(tasks[w])
    /\ \A v, w \in Workers : \A t \in Elements(tasks[v]) \cap Elements(tasks[w]) : v = w

LEMMA TaskAdded ==
  ASSUME TypeOK, TasksDistinct, NEW w \in Workers, NEW h \in Txns, ~Tasked(h),
         tasks' = [tasks EXCEPT ![w] = Append(@, h)]
  PROVE  TasksDistinct' /\ \A t \in Txns : Tasked(t)' <=> Tasked(t) \/ t = h
<1>1. tasks \in [Workers -> Seq(Txns)]
  BY DEF TypeOK, PoolTypeOK
<1>2. \A v \in Workers : tasks'[v] = IF v = w THEN Append(tasks[w], h) ELSE tasks[v]
  BY <1>1
<1>3. h \notin Elements(tasks[w])
  BY DEF Tasked
<1>4. Elements(Append(tasks[w], h)) = Elements(tasks[w]) \cup {h} /\ Distinct(Append(tasks[w], h))
  BY <1>1, <1>3, ElementsAppend, DistinctAppend DEF TasksDistinct
<1>5. \A v \in Workers : Elements(tasks'[v]) = Elements(tasks[v]) \cup (IF v = w THEN {h} ELSE {})
  BY <1>2, <1>4
<1>6. \A v \in Workers : h \notin Elements(tasks[v])
  BY DEF Tasked
<1>7. \A v \in Workers : Distinct(tasks'[v])
  BY <1>2, <1>4 DEF TasksDistinct
<1>8. TasksDistinct'
  <2>1. ASSUME NEW v \in Workers, NEW u \in Workers,
               NEW t \in Elements(tasks'[v]) \cap Elements(tasks'[u])
        PROVE  v = u
    <3>1. CASE t = h
      BY <1>5, <1>6, <2>1, <3>1
    <3>2. CASE t # h
      <4>1. t \in Elements(tasks[v]) \cap Elements(tasks[u])
        BY <1>5, <2>1, <3>2
      <4> QED
        BY <4>1, Zenon DEF TasksDistinct
    <3> QED
      BY <3>1, <3>2
  <2> QED
    BY <1>7, <2>1 DEF TasksDistinct
<1>9. \A t \in Txns : Tasked(t)' <=> Tasked(t) \/ t = h
  BY <1>5 DEF Tasked
<1> QED
  BY <1>8, <1>9

LEMMA TaskTaken ==
  ASSUME TypeOK, TasksDistinct, NEW w \in Workers, tasks[w] # <<>>,
         tasks' = [tasks EXCEPT ![w] = Tail(@)]
  PROVE  LET h == Head(tasks[w])
         IN  /\ TasksDistinct' /\ h \in Txns /\ Tasked(h)
             /\ \A t \in Txns : Tasked(t)' <=> Tasked(t) /\ t # h
<1> DEFINE h == Head(tasks[w])
<1>1. tasks \in [Workers -> Seq(Txns)]
  BY DEF TypeOK, PoolTypeOK
<1>2. \A v \in Workers : tasks'[v] = IF v = w THEN Tail(tasks[w]) ELSE tasks[v]
  BY <1>1
<1>3. /\ h \in Txns /\ Elements(tasks[w]) = Elements(Tail(tasks[w])) \cup {h}
      /\ h \notin Elements(Tail(tasks[w])) /\ Distinct(Tail(tasks[w]))
  BY <1>1, ElementsTail, DistinctTail DEF TasksDistinct
<1> HIDE DEF h
<1>4. \A v \in Workers : Elements(tasks'[v]) = Elements(tasks[v]) \ (IF v = w THEN {h} ELSE {})
  BY <1>2, <1>3
<1>5. \A v \in Workers : h \in Elements(tasks[v]) <=> v = w
  BY <1>3 DEF TasksDistinct
<1>6. TasksDistinct'
  BY <1>2, <1>3, <1>4 DEF TasksDistinct
<1>7. Tasked(h)
  BY <1>3 DEF Tasked
<1>8. \A t \in Txns : Tasked(t)' <=> Tasked(t) /\ t # h
  BY <1>4, <1>5 DEF Tasked
<1> QED
  BY <1>3, <1>6, <1>7, <1>8 DEF h

\* A transaction that is in one place is in no other.
LEMMA Elsewhere ==
  ASSUME OnePlace, NEW t \in Txns
  PROVE  /\ t \in Elements(txnRequests) =>
              /\ uniqueId[t] > 0 /\ ~Tasked(t) /\ ~Running(t) /\ ~Completed(t)
              /\ t \notin Elements(txnResults) /\ t \notin returned
         /\ Tasked(t) =>
              /\ uniqueId[t] > 0 /\ t \notin Elements(txnRequests) /\ ~Running(t) /\ ~Completed(t)
              /\ t \notin Elements(txnResults) /\ t \notin returned
         /\ Running(t) =>
              /\ uniqueId[t] > 0 /\ t \notin Elements(txnRequests) /\ ~Tasked(t) /\ ~Completed(t)
              /\ t \notin Elements(txnResults) /\ t \notin returned
         /\ Completed(t) =>
              /\ uniqueId[t] > 0 /\ t \notin Elements(txnRequests) /\ ~Tasked(t) /\ ~Running(t)
              /\ t \notin Elements(txnResults) /\ t \notin returned
         /\ t \in Elements(txnResults) =>
              /\ uniqueId[t] > 0 /\ t \notin Elements(txnRequests) /\ ~Tasked(t) /\ ~Running(t)
              /\ ~Completed(t) /\ t \notin returned
         /\ t \in returned =>
              /\ uniqueId[t] > 0 /\ t \notin Elements(txnRequests) /\ ~Tasked(t) /\ ~Running(t)
              /\ ~Completed(t) /\ t \notin Elements(txnResults)
         /\ ~(uniqueId[t] > 0) =>
              /\ t \notin Elements(txnRequests) /\ ~Tasked(t) /\ ~Running(t)
              /\ ~Completed(t) /\ t \notin Elements(txnResults) /\ t \notin returned
  BY DEF OnePlace, One

\* The places but for the threads' hands.
Stored == <<uniqueId, txnRequests, tasks, txnResults, returned, mode>>

LEMMA PlacesFrame ==
  ASSUME PlaceInv, UNCHANGED Stored, mode = "OCC" => completedTxns' = completedTxns,
         OneThreadEach', \A t \in Txns : Running(t)' <=> Running(t)
  PROVE  OneThreadEach' /\ QueuesDistinct' /\ OnePlace'
<1>1. \A t \in Txns : (Tasked(t)' <=> Tasked(t)) /\ (Completed(t)' <=> Completed(t))
  BY DEF Tasked, Completed, Stored
<1>2. OnePlace'
  BY <1>1 DEF OnePlace, One, Stored, PlaceInv
<1>3. QueuesDistinct'
  BY DEF QueuesDistinct, Stored, PlaceInv
<1> QED
  BY <1>2, <1>3

LEMMA SubmitMove ==
  ASSUME TypeOK, PlaceInv, NEW h \in Txns, Submit(h)
  PROVE  OneThreadEach' /\ QueuesDistinct' /\ OnePlace'
<1> USE DEF coreVars, clientVars, threadVars, dataVars, poolVars
<1>1. /\ txnRequests' = Append(txnRequests, h) /\ uniqueId' = [uniqueId EXCEPT ![h] = nextUniqueId]
      /\ uniqueId[h] = 0 /\ UNCHANGED <<tasks, txnResults, returned, mode, completedTxns, pc, cur>>
  BY DEF Submit, NewTxnRequest
<1>2. /\ txnRequests \in Seq(Txns) /\ nextUniqueId > 0 /\ uniqueId \in [Txns -> Nat]
      /\ OneThreadEach /\ QueuesDistinct /\ OnePlace
  BY DEF TypeOK, CoreTypeOK, ClientTypeOK, PlaceInv
<1>3. /\ h \notin Elements(txnRequests) /\ ~Tasked(h) /\ ~Running(h)
      /\ ~Completed(h) /\ h \notin Elements(txnResults) /\ h \notin returned
  BY <1>1, <1>2, Elsewhere
<1>4. Elements(txnRequests') = Elements(txnRequests) \cup {h} /\ Distinct(txnRequests')
  BY <1>1, <1>2, <1>3, ElementsAppend, DistinctAppend DEF QueuesDistinct
<1>5. \A t \in Txns : (Tasked(t)' <=> Tasked(t)) /\ (Completed(t)' <=> Completed(t))
                      /\ (Running(t)' <=> Running(t))
  BY <1>1 DEF Tasked, Completed, Running, Busy
<1>6. OneThreadEach' /\ QueuesDistinct'
  BY <1>1, <1>2, <1>4 DEF OneThreadEach, QueuesDistinct, Busy
<1>7. OnePlace'
  BY <1>1, <1>2, <1>3, <1>4, <1>5 DEF OnePlace, One
<1> QED
  BY <1>6, <1>7

LEMMA TakeResultMove ==
  ASSUME TypeOK, PlaceInv, TakeResult
  PROVE  OneThreadEach' /\ QueuesDistinct' /\ OnePlace'
<1> USE DEF coreVars, clientVars, threadVars, dataVars, poolVars
<1>1. PICK h : /\ h = Head(txnResults) /\ txnResults # <<>> /\ txnResults' = Tail(txnResults)
               /\ returned' = returned \cup {h}
               /\ UNCHANGED <<uniqueId, txnRequests, tasks, mode, completedTxns, pc, cur>>
  BY DEF TakeResult, GetTxnResult
<1>2. /\ txnResults \in Seq(Txns) /\ OneThreadEach /\ QueuesDistinct /\ OnePlace
  BY DEF TypeOK, CoreTypeOK, ClientTypeOK, PlaceInv
<1>3. /\ h \in Txns /\ Elements(txnResults) = Elements(txnResults') \cup {h}
      /\ h \notin Elements(txnResults') /\ Distinct(txnResults')
  BY <1>1, <1>2, ElementsTail, DistinctTail DEF QueuesDistinct
<1>4. h \notin returned
  BY <1>2, <1>3, Elsewhere
<1>5. \A t \in Txns : (Tasked(t)' <=> Tasked(t)) /\ (Completed(t)' <=> Completed(t))
                      /\ (Running(t)' <=> Running(t))
  BY <1>1 DEF Tasked, Completed, Running, Busy
<1>6. OneThreadEach' /\ QueuesDistinct'
  BY <1>1, <1>2, <1>3 DEF OneThreadEach, QueuesDistinct, Busy
<1>7. OnePlace'
  BY <1>1, <1>2, <1>3, <1>4, <1>5 DEF OnePlace, One
<1> QED
  BY <1>6, <1>7

LEMMA PassMove ==
  ASSUME TypeOK, PlaceInv, NEW l \in {"idle", "top"}, PassRequest(l)
  PROVE  OneThreadEach' /\ QueuesDistinct' /\ OnePlace'
<1> USE DEF clientVars, dataVars
<1>1. PICK w \in Workers :
         /\ txnRequests # <<>> /\ txnRequests' = Tail(txnRequests)
         /\ tasks' = [tasks EXCEPT ![w] = Append(@, Head(txnRequests))]
         /\ pc[Main] = l /\ Goto(Main, "idle")
         /\ UNCHANGED <<uniqueId, txnResults, returned, mode, completedTxns, cur>>
  BY DEF PassRequest
<1>2. /\ txnRequests \in Seq(Txns) /\ OneThreadEach /\ QueuesDistinct /\ OnePlace
      /\ pc \in [Threads -> PcLabels] /\ Main \in Threads
  BY PoolAssumption DEF TypeOK, CoreTypeOK, ClientTypeOK, PlaceInv
<1> DEFINE h == Head(txnRequests)
<1>3. /\ h \in Txns /\ Elements(txnRequests) = Elements(txnRequests') \cup {h}
      /\ h \notin Elements(txnRequests') /\ Distinct(txnRequests')
  BY <1>1, <1>2, ElementsTail, DistinctTail DEF QueuesDistinct
<1>3a. tasks' = [tasks EXCEPT ![w] = Append(@, h)]
  BY <1>1
<1> HIDE DEF h
<1>4. ~Tasked(h)
  BY <1>2, <1>3, Elsewhere
<1>5. TasksDistinct' /\ \A t \in Txns : Tasked(t)' <=> Tasked(t) \/ t = h
  BY <1>2, <1>3, <1>4, <1>3a, TaskAdded DEF QueuesDistinct, TasksDistinct
<1>6. OneThreadEach' /\ \A t \in Txns : Running(t)' <=> Running(t)
  BY <1>1, <1>2, KeepsTransaction DEF Busy
<1>7. \A t \in Txns : Completed(t)' <=> Completed(t)
  BY <1>1 DEF Completed
<1>8. QueuesDistinct'
  BY <1>1, <1>2, <1>3, <1>5 DEF QueuesDistinct, TasksDistinct
<1>9. OnePlace'
  BY <1>1, <1>2, <1>3, <1>4, <1>5, <1>6, <1>7 DEF OnePlace, One
<1> QED
  BY <1>6, <1>8, <1>9

LEMMA TakeTaskMove ==
  ASSUME TypeOK, PlaceInv, NEW w \in Workers, NEW h \in Txns, TakeTask(w, h),
         NEW l \in PcLabels \ {"idle", "top", "exited"}, Goto(w, l), cur' = [cur EXCEPT ![w] = h]
  PROVE  OneThreadEach' /\ QueuesDistinct' /\ OnePlace'
<1> USE DEF clientVars, dataVars, clientSide
<1>1. /\ h = Head(tasks[w]) /\ tasks[w] # <<>> /\ tasks' = [tasks EXCEPT ![w] = Tail(@)]
      /\ UNCHANGED <<uniqueId, txnRequests, txnResults, returned, mode, completedTxns>>
      /\ ~Busy(w) /\ w \in Threads
  BY DEF TakeTask, Busy, Workers
<1>2. /\ OneThreadEach /\ QueuesDistinct /\ OnePlace
      /\ pc \in [Threads -> PcLabels] /\ cur \in [Threads -> Values]
  BY DEF TypeOK, CoreTypeOK, ThreadTypeOK, PlaceInv
<1>3. TasksDistinct' /\ Tasked(h) /\ \A t \in Txns : Tasked(t)' <=> Tasked(t) /\ t # h
  BY <1>1, <1>2, TaskTaken DEF QueuesDistinct, TasksDistinct
<1>4. ~Running(h)
  BY <1>2, <1>3, Elsewhere
<1>5. OneThreadEach' /\ \A t \in Txns : Running(t)' <=> Running(t) \/ t = h
  BY <1>1, <1>2, <1>4, Takes
<1>6. \A t \in Txns : Completed(t)' <=> Completed(t)
  BY <1>1 DEF Completed
<1>7. QueuesDistinct'
  BY <1>1, <1>2, <1>3 DEF QueuesDistinct, TasksDistinct
<1>8. OnePlace'
  BY <1>1, <1>2, <1>3, <1>4, <1>5, <1>6 DEF OnePlace, One
<1> QED
  BY <1>5, <1>7, <1>8

LEMMA RestartMove ==
  ASSUME TypeOK, PlaceInv, NEW w \in Threads, Busy(w), Restart(w)
  PROVE  OneThreadEach' /\ QueuesDistinct' /\ OnePlace'
<1> USE DEF clientVars, dataVars
<1> DEFINE h == cur[w]
<1>1. /\ txnRequests' = Append(txnRequests, h) /\ uniqueId' = [uniqueId EXCEPT ![h] = nextUniqueId]
      /\ Goto(w, "idle") /\ cur' = [cur EXCEPT ![w] = NoTxn]
      /\ UNCHANGED <<tasks, txnResults, returned, mode, completedTxns>>
  BY DEF Restart
<1>2. /\ txnRequests \in Seq(Txns) /\ nextUniqueId > 0 /\ uniqueId \in [Txns -> Nat]
      /\ OneThreadEach /\ QueuesDistinct /\ OnePlace
      /\ pc \in [Threads -> PcLabels] /\ cur \in [Threads -> Values]
  BY DEF TypeOK, CoreTypeOK, ClientTypeOK, ThreadTypeOK, PlaceInv
<1>3. h \in Txns /\ Running(h)
  BY <1>2 DEF OneThreadEach, Running
<1>4. OneThreadEach' /\ \A t \in Txns : Running(t)' <=> Running(t) /\ t # h
  BY <1>1, <1>2, LetsGo
<1> HIDE DEF h
<1>5. uniqueId[h] > 0 /\ h \notin Elements(txnRequests)
  BY <1>2, <1>3, Elsewhere
<1>6. Elements(txnRequests') = Elements(txnRequests) \cup {h} /\ Distinct(txnRequests')
  BY <1>1, <1>2, <1>3, <1>5, ElementsAppend, DistinctAppend DEF QueuesDistinct
<1>7. \A t \in Txns : (Tasked(t)' <=> Tasked(t)) /\ (Completed(t)' <=> Completed(t))
  BY <1>1 DEF Tasked, Completed
<1>8. QueuesDistinct'
  BY <1>1, <1>2, <1>6 DEF QueuesDistinct
<1>9. \A t \in Txns : uniqueId'[t] > 0 <=> uniqueId[t] > 0
  BY <1>1, <1>2, <1>3, <1>5
<1>10. OnePlace'
  BY <1>1, <1>2, <1>3, <1>4, <1>5, <1>6, <1>7, <1>9 DEF OnePlace, One
<1> QED
  BY <1>4, <1>8, <1>10

LEMMA ResultMove ==
  ASSUME TypeOK, PlaceInv, NEW w \in Threads, PushResult(w), UNCHANGED poolVars
  PROVE  OneThreadEach' /\ QueuesDistinct' /\ OnePlace'
<1> USE DEF clientVars, dataVars, poolVars
<1> DEFINE h == cur[w]
<1>1. /\ txnResults' = Append(txnResults, h) /\ Busy(w)
      /\ Goto(w, "idle") /\ cur' = [cur EXCEPT ![w] = NoTxn]
      /\ UNCHANGED <<uniqueId, tasks, txnRequests, returned, mode, completedTxns>>
  BY DEF PushResult, Busy
<1>2. /\ txnResults \in Seq(Txns)
      /\ OneThreadEach /\ QueuesDistinct /\ OnePlace
      /\ pc \in [Threads -> PcLabels] /\ cur \in [Threads -> Values]
  BY DEF TypeOK, CoreTypeOK, ClientTypeOK, ThreadTypeOK, PlaceInv
<1>3. h \in Txns /\ Running(h)
  BY <1>1, <1>2 DEF OneThreadEach, Running
<1>4. OneThreadEach' /\ \A t \in Txns : Running(t)' <=> Running(t) /\ t # h
  BY <1>1, <1>2, LetsGo
<1> HIDE DEF h
<1>5. h \notin Elements(txnResults)
  BY <1>2, <1>3, Elsewhere
<1>6. Elements(txnResults') = Elements(txnResults) \cup {h} /\ Distinct(txnResults')
  BY <1>1, <1>2, <1>3, <1>5, ElementsAppend, DistinctAppend DEF QueuesDistinct
<1>7. \A t \in Txns : (Tasked(t)' <=> Tasked(t)) /\ (Completed(t)' <=> Completed(t))
  BY <1>1 DEF Tasked, Completed
<1>8. QueuesDistinct'
  BY <1>1, <1>2, <1>6 DEF QueuesDistinct
<1>9. OnePlace'
  BY <1>1, <1>2, <1>3, <1>4, <1>5, <1>6, <1>7 DEF OnePlace, One
<1> QED
  BY <1>4, <1>8, <1>9

LEMMA SerialPopMove ==
  ASSUME TypeOK, PlaceInv, SerialPop, mode' = mode, mode # "OCC"
  PROVE  OneThreadEach' /\ QueuesDistinct' /\ OnePlace'
<1> USE DEF clientVars, dataVars, poolVars
<1> DEFINE h == Head(txnRequests)
<1>1. /\ txnRequests # <<>> /\ txnRequests' = Tail(txnRequests)
      /\ Goto(Main, "readset") /\ cur' = [cur EXCEPT ![Main] = h] /\ ~Busy(Main)
      /\ UNCHANGED <<uniqueId, tasks, txnResults, returned, mode, completedTxns>>
  BY DEF SerialPop, StartExecute, Busy
<1>2. /\ txnRequests \in Seq(Txns) /\ OneThreadEach /\ QueuesDistinct /\ OnePlace
      /\ pc \in [Threads -> PcLabels] /\ cur \in [Threads -> Values] /\ Main \in Threads
  BY PoolAssumption DEF TypeOK, CoreTypeOK, ClientTypeOK, ThreadTypeOK, PlaceInv
<1>3. /\ h \in Txns /\ Elements(txnRequests) = Elements(txnRequests') \cup {h}
      /\ h \notin Elements(txnRequests') /\ Distinct(txnRequests')
  BY <1>1, <1>2, ElementsTail, DistinctTail DEF QueuesDistinct
<1> HIDE DEF h
<1>4. ~Running(h)
  BY <1>2, <1>3, Elsewhere
<1>4a. PICK l : l = "readset"
  OBVIOUS
<1>4b. Goto(Main, l) /\ l \notin {"idle", "top", "exited"}
  BY <1>1, <1>4a
<1>5. OneThreadEach' /\ \A t \in Txns : Running(t)' <=> Running(t) \/ t = h
  BY <1>1, <1>2, <1>3, <1>4, <1>4b, Takes
<1>6. \A t \in Txns : (Tasked(t)' <=> Tasked(t)) /\ (Completed(t)' <=> Completed(t))
  BY <1>1 DEF Tasked, Completed
<1>7. QueuesDistinct'
  BY <1>1, <1>2, <1>3 DEF QueuesDistinct
<1>8. OnePlace'
  BY <1>1, <1>2, <1>3, <1>4, <1>5, <1>6 DEF OnePlace, One
<1> QED
  BY <1>5, <1>7, <1>8

LEMMA OCCRunMove ==
  ASSUME TypeOK, PlaceInv, mode = "OCC", NEW w \in Workers, OCCRun(w)
  PROVE  OneThreadEach' /\ QueuesDistinct' /\ OnePlace'
<1> USE DEF clientVars, clientSide
<1> DEFINE h == cur[w]
<1>1. /\ completedTxns' = Append(completedTxns, h) /\ Busy(w) /\ w \in Threads
      /\ Goto(w, "idle") /\ cur' = cur
      /\ UNCHANGED <<uniqueId, tasks, txnRequests, txnResults, returned, mode>>
  BY DEF OCCRun, Run, Busy, Workers
<1>2. /\ completedTxns \in Seq(Txns)
      /\ OneThreadEach /\ QueuesDistinct /\ OnePlace
      /\ pc \in [Threads -> PcLabels] /\ cur \in [Threads -> Values]
  BY DEF TypeOK, CoreTypeOK, DataTypeOK, ThreadTypeOK, PlaceInv
<1>3. h \in Txns /\ Running(h)
  BY <1>1, <1>2 DEF OneThreadEach, Running
<1>4. OneThreadEach' /\ \A t \in Txns : Running(t)' <=> Running(t) /\ t # h
  BY <1>1, <1>2, LetsGo
<1> HIDE DEF h
<1>5. h \notin Elements(completedTxns)
  BY <1>2, <1>3, Elsewhere DEF Completed
<1>6. Elements(completedTxns') = Elements(completedTxns) \cup {h} /\ Distinct(completedTxns')
  BY <1>1, <1>2, <1>3, <1>5, ElementsAppend, DistinctAppend DEF QueuesDistinct
<1>7. \A t \in Txns : (Tasked(t)' <=> Tasked(t)) /\ (Completed(t)' <=> Completed(t) \/ t = h)
  BY <1>1, <1>6 DEF Tasked, Completed
<1>8. QueuesDistinct'
  BY <1>1, <1>2, <1>6 DEF QueuesDistinct
<1>9. OnePlace'
  BY <1>1, <1>2, <1>3, <1>4, <1>5, <1>7 DEF OnePlace, One, Completed
<1> QED
  BY <1>4, <1>8, <1>9

LEMMA OCCValidateMove ==
  ASSUME TypeOK, PlaceInv, mode = "OCC", OCCValidate
  PROVE  OneThreadEach' /\ QueuesDistinct' /\ OnePlace'
<1> USE DEF clientVars, clientSide, poolVars
<1> DEFINE h == Head(completedTxns)
<1>1. /\ completedTxns # <<>> /\ completedTxns' = Tail(completedTxns)
      /\ cur' = [cur EXCEPT ![Main] = h] /\ ~Busy(Main)
      /\ UNCHANGED <<uniqueId, tasks, txnRequests, txnResults, returned, mode>>
  BY DEF OCCValidate, Busy
<1>2. /\ completedTxns \in Seq(Txns) /\ OneThreadEach /\ QueuesDistinct /\ OnePlace
      /\ pc \in [Threads -> PcLabels] /\ cur \in [Threads -> Values] /\ Main \in Threads
  BY PoolAssumption DEF TypeOK, CoreTypeOK, DataTypeOK, ThreadTypeOK, PlaceInv
<1>3. PICK l \in {"apply", "invalid"} : Goto(Main, l)
  BY DEF OCCValidate, Conclude
<1>3a. l \notin {"idle", "top", "exited"}
  BY <1>3
<1>4. /\ h \in Txns /\ Elements(completedTxns) = Elements(completedTxns') \cup {h}
      /\ h \notin Elements(completedTxns') /\ Distinct(completedTxns')
  BY <1>1, <1>2, ElementsTail, DistinctTail DEF QueuesDistinct
<1> HIDE DEF h
<1>5. ~Running(h)
  BY <1>2, <1>4, Elsewhere DEF Completed
<1>6. OneThreadEach' /\ \A t \in Txns : Running(t)' <=> Running(t) \/ t = h
  BY <1>1, <1>2, <1>3, <1>3a, <1>4, <1>5, Takes
<1>7. \A t \in Txns : (Tasked(t)' <=> Tasked(t)) /\ (Completed(t)' <=> Completed(t) /\ t # h)
  BY <1>1, <1>4 DEF Tasked, Completed
<1>8. QueuesDistinct'
  BY <1>1, <1>2, <1>4 DEF QueuesDistinct
<1>9. OnePlace'
  BY <1>1, <1>2, <1>4, <1>5, <1>6, <1>7 DEF OnePlace, One, Completed
<1> QED
  BY <1>6, <1>8, <1>9

\* The steps of a thread with the transaction it has in its hands.
LEMMA QuietStep ==
  ASSUME TypeOK, PlaceInv, UNCHANGED Stored, mode = "OCC" => completedTxns' = completedTxns,
         NEW w \in Threads, NEW l, pc' = pc \/ Goto(w, l), cur' = cur,
         Busy(w) <=> l \notin {"idle", "top", "exited"}
  PROVE  OneThreadEach' /\ QueuesDistinct' /\ OnePlace'
<1>1. CASE pc' = pc
  <2>1. OneThreadEach' /\ \A t \in Txns : Running(t)' <=> Running(t)
    BY <1>1 DEF OneThreadEach, Running, Busy, PlaceInv
  <2> QED
    BY <2>1, PlacesFrame
<1>2. CASE Goto(w, l)
  BY <1>2, KeepsTransaction, PlacesFrame DEF PlaceInv, TypeOK
<1> QED
  BY <1>1, <1>2

LEMMA PlacesStep ==
  ASSUME TypeOK, PlaceInv, [Next]_vars
  PROVE  OneThreadEach' /\ QueuesDistinct' /\ OnePlace'
<1> DEFINE Goal == OneThreadEach' /\ QueuesDistinct' /\ OnePlace'
<1> USE DEF vars, coreVars, clientVars, threadVars, dataVars, clientSide, poolVars
<1>0. Main \in Threads /\ Workers \subseteq Threads /\ LocationsOfMode
  BY PoolAssumption DEF PlaceInv, Workers
<1>1. ASSUME NEW t \in Txns, Submit(t) PROVE Goal
  BY <1>1, SubmitMove
<1>2. CASE TakeResult
  BY <1>2, TakeResultMove
<1>3. CASE UNCHANGED vars
  BY <1>0, <1>3, PlacesFrame DEF Stored, OneThreadEach, Running, Busy, PlaceInv
<1>4. CASE mode = "SERIAL" /\ SerialScheduler
  <2>1. CASE SerialPop
    BY <1>4, <2>1, SerialPopMove DEF SerialPop
  <2>2. CASE SerialResult
    BY <1>0, <2>2, ResultMove DEF SerialResult
  <2>3. CASE SerialExecute \/ SerialDecide
    <3>1. /\ UNCHANGED Stored /\ cur' = cur /\ Busy(Main)
          /\ \E l \in {"writeset", "decide", "apply", "result"} : pc' = pc \/ Goto(Main, l)
      BY <2>3 DEF SerialExecute, SerialDecide, ReadRecord, EndReadset, Run, Written, StartApply,
            ApplyWrite, Commit, Abort, Stored, Busy
    <3> QED
      BY <1>0, <1>4, <3>1, QuietStep
  <2> QED
    BY <1>4, <2>1, <2>2, <2>3 DEF SerialScheduler
<1>5. CASE mode = "OCC" /\ OCCScheduler
  <2>1. CASE OCCPassRequest
    BY <2>1, PassMove DEF OCCPassRequest
  <2>2. CASE OCCNoRequest \/ OCCEndRound
    <3>1. /\ UNCHANGED Stored /\ cur' = cur /\ ~Busy(Main) /\ completedTxns' = completedTxns
          /\ \E l \in {"idle", "top"} : Goto(Main, l)
      BY <2>2 DEF OCCNoRequest, OCCEndRound, Stored, Busy
    <3> QED
      BY <1>0, <3>1, QuietStep
  <2>3. CASE OCCValidate
    BY <1>5, <2>3, OCCValidateMove
  <2>4. CASE OCCRestart
    BY <1>0, <2>4, RestartMove DEF OCCRestart, Busy
  <2>5. CASE OCCCommit
    <3>1. /\ UNCHANGED Stored /\ cur' = cur /\ Busy(Main) /\ completedTxns' = completedTxns
          /\ pc' = pc \/ Goto(Main, "result")
      BY <2>5 DEF OCCCommit, ApplyWrite, Commit, Stored, Busy
    <3> QED
      BY <1>0, <3>1, QuietStep
  <2>6. CASE OCCResult
    BY <1>0, <2>6, ResultMove DEF OCCResult
  <2> QED
    BY <1>5, <2>1, <2>2, <2>3, <2>4, <2>5, <2>6 DEF OCCScheduler
<1>6. CASE ParallelScheduler \/ MVCCScheduler
  BY <1>6, PassMove DEF ParallelScheduler, MVCCScheduler
<1>7. CASE NoCase
  <2>1. /\ UNCHANGED Stored /\ cur' = cur /\ ~Busy(Main) /\ completedTxns' = completedTxns
        /\ Goto(Main, "exited")
    BY <1>7 DEF NoCase, Stored, Busy
  <2> QED
    BY <1>0, <2>1, QuietStep
<1>8. ASSUME NEW w \in Workers, OCCBegin(w) PROVE Goal
  <2>1. PICK t \in Txns : TakeTask(w, t) /\ Goto(w, "readset") /\ cur' = [cur EXCEPT ![w] = t]
    BY <1>8 DEF OCCBegin, StartExecute
  <2>2. "readset" \in PcLabels \ {"idle", "top", "exited"}
    BY DEF PcLabels
  <2> QED
    BY <2>1, <2>2, TakeTaskMove
<1>9. ASSUME NEW w \in Workers, mode = "OCC" /\ OCCWorker(w) PROVE Goal
  <2>1. CASE OCCRead(w)
    <3>1. /\ UNCHANGED Stored /\ cur' = cur /\ Busy(w) /\ completedTxns' = completedTxns
          /\ pc' = pc \/ Goto(w, "writeset")
      BY <2>1 DEF OCCRead, ReadRecord, EndReadset, Stored, Busy
    <3> QED
      BY <1>0, <3>1, QuietStep
  <2> QED
    BY <1>8, <1>9, <2>1, OCCRunMove DEF OCCWorker
<1>10. ASSUME NEW w \in Workers, mode = "P_OCC" /\ ParallelWorker(w) PROVE Goal
  <2>1. CASE OCCRead(w) \/ ParallelRun(w) \/ EnterActive(w) \/ ValidateParallel(w)
             \/ ParallelApply(w) \/ EraseActive(w)
    <3>1. /\ UNCHANGED Stored /\ cur' = cur /\ Busy(w)
          /\ \E l \in {"writeset", "enter", "validate", "apply", "invalid", "commit", "restart"} :
                pc' = pc \/ Goto(w, l)
      BY <2>1 DEF OCCRead, ReadRecord, EndReadset, ParallelRun, Vote, Written, EnterActive,
            ValidateParallel, Conclude, ParallelApply, ApplyWrite, EraseActive, Stored, Busy
    <3> QED
      BY <1>0, <1>10, <3>1, QuietStep
  <2>2. CASE ParallelFinish(w)
    <3>1. CASE pc[w] = "commit" /\ MarkCommitted(w)
      <4>1. /\ UNCHANGED Stored /\ cur' = cur /\ Busy(w) /\ Goto(w, "result")
        BY <3>1 DEF MarkCommitted, Stored, Busy
      <4> QED
        BY <1>0, <1>10, <4>1, QuietStep
    <3> QED
      BY <1>0, <2>2, <3>1, ResultMove, RestartMove DEF ParallelFinish, Busy
  <2> QED
    BY <1>8, <1>10, <2>1, <2>2 DEF ParallelWorker
<1>11. ASSUME NEW w \in Workers, mode = "MVCC" /\ MVCCWorker(w) PROVE Goal
  <2>1. CASE MVCCBegin(w)
    <3>1. PICK t \in Txns : TakeTask(w, t) /\ Goto(w, "readVersions") /\ cur' = [cur EXCEPT ![w] = t]
      BY <2>1 DEF MVCCBegin
    <3>2. "readVersions" \in PcLabels \ {"idle", "top", "exited"}
      BY DEF PcLabels
    <3> QED
      BY <3>1, <3>2, TakeTaskMove
  <2>2. CASE ReadVersion(w) \/ MVCCRun(w) \/ LockKey(w) \/ CheckKeys(w) \/ InstallVersion(w)
             \/ EndInstall(w) \/ UnlockKey(w)
    <3>1. /\ UNCHANGED Stored /\ cur' = cur /\ Busy(w)
          /\ \E l \in {"lock", "install", "unlock", "unlockFailed"} : pc' = pc \/ Goto(w, l)
      BY <2>2 DEF ReadVersion, MVCCRun, Vote, Written, LockKey, CheckKeys, InstallVersion,
            EndInstall, UnlockKey, Stored, Busy
    <3> QED
      BY <1>0, <1>11, <3>1, QuietStep
  <2>3. CASE MVCCFinish(w)
    <3>1. CASE pc[w] = "unlock" /\ MarkCommitted(w)
      <4>1. /\ UNCHANGED Stored /\ cur' = cur /\ Busy(w) /\ Goto(w, "result")
        BY <3>1 DEF MarkCommitted, Stored, Busy
      <4> QED
        BY <1>0, <1>11, <4>1, QuietStep
    <3> QED
      BY <1>0, <2>3, <3>1, ResultMove, RestartMove DEF MVCCFinish, Busy
  <2> QED
    BY <1>11, <2>1, <2>2, <2>3 DEF MVCCWorker
<1> QED
  BY <1>1, <1>2, <1>3, <1>4, <1>5, <1>6, <1>7, <1>9, <1>10, <1>11 DEF Next, Scheduler, Worker

LEMMA PlaceStep ==
  ASSUME TypeOK, PlaceInv, [Next]_vars
  PROVE  PlaceInv'
  BY LocationsStep, WritesStep, PlacesStep DEF PlaceInv

-----------------------------------------------------------------------------
(* A transaction whose writes are installed stays as it is. *)

\* Thread w works on the transaction in its hands, or on one it takes, and
\* answers none.
OwnStep(w) ==
    /\ UNCHANGED <<txnResults, returned>>
    /\ \A v \in Threads \ {w} : pc'[v] = pc[v] /\ cur'[v] = cur[v]
    /\ \A t \in Txns \ {cur[w], cur'[w]} :
          /\ uniqueId'[t] = uniqueId[t] /\ reads'[t] = reads[t] /\ writes'[t] = writes[t]
          /\ occStart'[t] = occStart[t]

\* What w takes is waiting, and what it has in its hands is not final yet.
OwnWork(w) ==
    /\ Busy(w) => pc[w] \notin {"unlock", "result"} /\ cur'[w] \in {cur[w], NoTxn}
    /\ ~Busy(w) =>
         \/ /\ UNCHANGED <<uniqueId, reads, writes, occStart>>
            /\ cur'[w] = cur[w] /\ pc'[w] \notin {"unlock", "result"}
         \/ /\ cur'[w] \in Txns
            /\ \/ cur'[w] \in Elements(txnRequests) \/ Tasked(cur'[w]) \/ Completed(cur'[w])
            /\ UNCHANGED <<uniqueId, reads, writes>>
            /\ \A t \in Txns : t # cur'[w] => occStart'[t] = occStart[t]

LEMMA SchedulerSteps ==
  ASSUME TypeOK, PlaceInv, Scheduler
  PROVE  \/ OwnStep(Main) /\ OwnWork(Main)
         \/ PushResult(Main) /\ UNCHANGED <<poolVars, occVars>>
<1> USE DEF coreVars, clientVars, threadVars, dataVars, clientSide, poolVars, occVars, Goto
<1>0. /\ Main \in Threads /\ pc \in [Threads -> PcLabels] /\ cur \in [Threads -> Values]
      /\ uniqueId \in [Txns -> Nat] /\ reads \in [Txns -> [Keys -> Values \cup {Unread}]]
      /\ writes \in [Txns -> SUBSET Keys] /\ txnRequests \in Seq(Txns)
      /\ completedTxns \in Seq(Txns) /\ NoTxn \notin Txns
      /\ Busy(Main) => cur[Main] \in Txns
  BY PoolAssumption, CoreAssumption DEF TypeOK, CoreTypeOK, ClientTypeOK, DataTypeOK, ThreadTypeOK,
        PoolTypeOK, PlaceInv, OneThreadEach
<1>1. CASE mode = "SERIAL" /\ SerialScheduler /\ UNCHANGED <<occVars, mvccVars>>
  <2>1. CASE SerialPop
    <3>1. Head(txnRequests) \in Elements(txnRequests) /\ Head(txnRequests) \in Txns
      BY <1>0, <2>1, ElementsTail DEF SerialPop
    <3> QED
      BY <1>0, <1>1, <2>1, <3>1 DEF SerialPop, StartExecute, OwnStep, OwnWork, Busy
  <2>2. CASE SerialExecute
    <3>1. OwnStep(Main)
      BY <1>0, <1>1, <2>2 DEF SerialExecute, ReadRecord, EndReadset, Run, Written, OwnStep, Busy
    <3>2. OwnWork(Main)
      BY <1>0, <1>1, <2>2 DEF SerialExecute, ReadRecord, EndReadset, Run, OwnWork, Busy
    <3> QED
      BY <3>1, <3>2
  <2>3. CASE SerialDecide
    BY <1>0, <1>1, <2>3 DEF SerialDecide, StartApply, ApplyWrite, Commit, Abort, OwnStep, OwnWork, Busy
  <2>4. CASE SerialResult
    BY <1>1, <2>4 DEF SerialResult
  <2> QED
    BY <1>1, <2>1, <2>2, <2>3, <2>4 DEF SerialScheduler
<1>2. CASE mode = "OCC" /\ OCCScheduler
  <2>1. CASE OCCPassRequest \/ OCCNoRequest \/ OCCEndRound
    BY <1>0, <2>1 DEF OCCPassRequest, PassRequest, OCCNoRequest, OCCEndRound, OwnStep, OwnWork, Busy
  <2>2. CASE OCCValidate
    <3>1. Completed(Head(completedTxns)) /\ Head(completedTxns) \in Txns
      BY <1>0, <1>2, <2>2, ElementsTail DEF OCCValidate, Completed
    <3>2. OwnStep(Main)
      BY <1>0, <2>2 DEF OCCValidate, Conclude, OwnStep
    <3>3. OwnWork(Main)
      BY <1>0, <2>2, <3>1 DEF OCCValidate, Conclude, OwnWork, Busy
    <3> QED
      BY <3>2, <3>3
  <2>3. CASE OCCRestart
    BY <1>0, <2>3 DEF OCCRestart, Restart, OwnStep, OwnWork, Busy
  <2>4. CASE OCCCommit
    BY <1>0, <2>4 DEF OCCCommit, ApplyWrite, Commit, OwnStep, OwnWork, Busy
  <2>5. CASE OCCResult
    BY <2>5 DEF OCCResult
  <2> QED
    BY <1>2, <2>1, <2>2, <2>3, <2>4, <2>5 DEF OCCScheduler
<1>3. CASE \/ mode = "P_OCC" /\ ParallelScheduler /\ UNCHANGED mvccVars
           \/ mode = "MVCC" /\ MVCCScheduler /\ UNCHANGED occVars
           \/ NoCase
  BY <1>0, <1>3 DEF ParallelScheduler, MVCCScheduler, PassRequest, NoCase, OwnStep, OwnWork, Busy
<1> QED
  BY <1>1, <1>2, <1>3 DEF Scheduler

LEMMA WorkerSteps ==
  ASSUME TypeOK, PlaceInv, NEW w \in Workers, Worker(w)
  PROVE  \/ OwnStep(w) /\ OwnWork(w)
         \/ PushResult(w) /\ UNCHANGED <<poolVars, occVars>>
         \/ UnlockKey(w) /\ UNCHANGED occVars
         \/ MarkCommitted(w) /\ UNCHANGED occVars
<1> USE DEF coreVars, clientVars, threadVars, dataVars, clientSide, poolVars, occVars, Goto
<1>0. /\ w \in Threads /\ pc \in [Threads -> PcLabels] /\ cur \in [Threads -> Values]
      /\ uniqueId \in [Txns -> Nat] /\ reads \in [Txns -> [Keys -> Values \cup {Unread}]]
      /\ writes \in [Txns -> SUBSET Keys] /\ tasks \in [Workers -> Seq(Txns)]
      /\ occStart \in [Txns -> Nat] /\ NoTxn \notin Txns
      /\ Busy(w) => cur[w] \in Txns
  BY CoreAssumption DEF TypeOK, CoreTypeOK, ClientTypeOK, DataTypeOK, ThreadTypeOK,
        PoolTypeOK, OCCTypeOK, PlaceInv, OneThreadEach, Workers
<1>1. ASSUME NEW t \in Txns, TakeTask(w, t) PROVE Tasked(t) /\ ~Busy(w)
  BY <1>0, <1>1, ElementsTail DEF TakeTask, Tasked, Busy
<1>2. CASE OCCBegin(w)
  <2>1. PICK t \in Txns : /\ TakeTask(w, t) /\ StartExecute(w, t)
                          /\ occStart' = [occStart EXCEPT ![t] = Len(committedTxns)]
    BY <1>2 DEF OCCBegin
  <2> QED
    BY <1>0, <1>1, <2>1 DEF TakeTask, StartExecute, OwnStep, OwnWork
<1>3. CASE OCCRead(w) \/ ParallelApply(w)
  BY <1>0, <1>3 DEF OCCRead, ReadRecord, EndReadset, ParallelApply, ApplyWrite, OwnStep, OwnWork, Busy
<1>4. CASE mode = "OCC" /\ OCCWorker(w)
  <2>1. CASE OCCRun(w)
    <3>1. OwnStep(w)
      BY <1>0, <2>1 DEF OCCRun, Run, Written, OwnStep, Busy
    <3>2. OwnWork(w)
      BY <1>0, <2>1 DEF OCCRun, Run, OwnWork, Busy
    <3> QED
      BY <3>1, <3>2
  <2> QED
    BY <1>2, <1>3, <1>4, <2>1 DEF OCCWorker
<1>5. CASE mode = "P_OCC" /\ ParallelWorker(w)
  <2>1. CASE ParallelRun(w)
    BY <1>0, <2>1 DEF ParallelRun, Vote, Written, OwnStep, OwnWork, Busy
  <2>2. CASE EnterActive(w) \/ EraseActive(w)
    BY <1>0, <2>2 DEF EnterActive, EraseActive, OwnStep, OwnWork, Busy
  <2>3. CASE ValidateParallel(w)
    BY <1>0, <2>3 DEF ValidateParallel, Conclude, OwnStep, OwnWork, Busy
  <2>4. CASE ParallelFinish(w)
    <3>1. CASE pc[w] = "restart" /\ Restart(w)
      BY <1>0, <2>4, <3>1 DEF ParallelFinish, Restart, OwnStep, OwnWork, Busy
    <3> QED
      BY <2>4, <3>1 DEF ParallelFinish
  <2> QED
    BY <1>2, <1>3, <1>5, <2>1, <2>2, <2>3, <2>4 DEF ParallelWorker
<1>6. CASE mode = "MVCC" /\ MVCCWorker(w) /\ UNCHANGED occVars
  <2>1. CASE MVCCBegin(w)
    <3>1. PICK t \in Txns : /\ TakeTask(w, t) /\ Goto(w, "readVersions") /\ cur' = [cur EXCEPT ![w] = t]
      BY <2>1 DEF MVCCBegin
    <3> QED
      BY <1>0, <1>1, <1>6, <3>1 DEF TakeTask, OwnStep, OwnWork
  <2>2. CASE ReadVersion(w) \/ LockKey(w) \/ InstallVersion(w)
    BY <1>0, <1>6, <2>2 DEF ReadVersion, LockKey, InstallVersion, OwnStep, OwnWork, Busy
  <2>3. CASE MVCCRun(w)
    BY <1>0, <1>6, <2>3 DEF MVCCRun, Vote, Written, OwnStep, OwnWork, Busy
  <2>4. CASE CheckKeys(w) \/ EndInstall(w)
    BY <1>0, <1>6, <2>4 DEF CheckKeys, EndInstall, OwnStep, OwnWork, Busy
  <2>5. CASE MVCCFinish(w)
    <3>1. CASE pc[w] = "unlockFailed" /\ Restart(w)
      BY <1>0, <1>6, <2>5, <3>1 DEF MVCCFinish, Restart, OwnStep, OwnWork, Busy
    <3> QED
      BY <1>6, <2>5, <3>1 DEF MVCCFinish
  <2> QED
    BY <1>6, <2>1, <2>2, <2>3, <2>4, <2>5 DEF MVCCWorker
<1> QED
  BY <1>4, <1>5, <1>6 DEF Worker

\* A final transaction waits nowhere, and only the thread that ends it has it.
LEMMA FinalElsewhere ==
  ASSUME PlaceInv, NEW t \in Txns, Final(t)
  PROVE  /\ uniqueId[t] > 0 /\ t \notin Elements(txnRequests) /\ ~Tasked(t) /\ ~Completed(t)
         /\ \A w \in Threads : Busy(w) /\ cur[w] = t => pc[w] \in {"unlock", "result"}
<1>1. OnePlace /\ OneThreadEach
  BY DEF PlaceInv
<1>2. CASE \E w \in Threads : pc[w] \in {"unlock", "result"} /\ cur[w] = t
  <2>1. PICK w \in Threads : pc[w] \in {"unlock", "result"} /\ cur[w] = t
    BY <1>2
  <2>2. Busy(w) /\ Running(t)
    BY <2>1 DEF Busy, Running
  <2> QED
    BY <1>1, <2>1, <2>2, Elsewhere DEF OneThreadEach
<1>3. CASE t \in Elements(txnResults) \/ t \in returned
  <2>1. ~Running(t)
    BY <1>1, <1>3, Elsewhere
  <2> QED
    BY <1>1, <1>3, <2>1, Elsewhere DEF Running
<1> QED
  BY <1>2, <1>3 DEF Final

LEMMA FinalStays ==
  ASSUME TypeOK, PlaceInv, [Next]_vars, NEW t \in Txns, Final(t)
  PROVE  /\ Final(t)' /\ uniqueId'[t] = uniqueId[t] /\ uniqueId[t] > 0
         /\ reads'[t] = reads[t] /\ writes'[t] = writes[t] /\ occStart'[t] = occStart[t]
<1> DEFINE Goal == /\ Final(t)' /\ uniqueId'[t] = uniqueId[t]
                   /\ reads'[t] = reads[t] /\ writes'[t] = writes[t] /\ occStart'[t] = occStart[t]
<1> USE DEF vars, coreVars, clientVars, threadVars, dataVars, clientSide, poolVars, occVars, Goto
<1>0. /\ Main \in Threads /\ Workers \subseteq Threads
      /\ pc \in [Threads -> PcLabels] /\ cur \in [Threads -> Values]
      /\ txnResults \in Seq(Txns) /\ uniqueId \in [Txns -> Nat] /\ NoTxn \notin Txns
      /\ \A w \in Threads : Busy(w) => cur[w] \in Txns
  BY PoolAssumption, CoreAssumption DEF TypeOK, CoreTypeOK, ClientTypeOK, ThreadTypeOK, Workers,
        PlaceInv, OneThreadEach
<1>1. /\ uniqueId[t] > 0 /\ t \notin Elements(txnRequests) /\ ~Tasked(t) /\ ~Completed(t)
      /\ \A w \in Threads : Busy(w) /\ cur[w] = t => pc[w] \in {"unlock", "result"}
  BY FinalElsewhere
<1>2. ASSUME NEW h \in Txns, Submit(h) PROVE Goal
  <2>1. h # t
    BY <1>1, <1>2 DEF Submit, NewTxnRequest
  <2> QED
    BY <1>0, <1>2, <2>1 DEF Submit, NewTxnRequest, Final
<1>3. CASE TakeResult
  <2>1. Elements(txnResults) = {Head(txnResults)} \cup Elements(Tail(txnResults))
    BY <1>0, <1>3, ElementsTail DEF TakeResult, GetTxnResult
  <2>2. /\ returned' = returned \cup {Head(txnResults)} /\ txnResults' = Tail(txnResults)
        /\ UNCHANGED <<uniqueId, reads, writes, occStart, pc, cur>>
    BY <1>3 DEF TakeResult, GetTxnResult
  <2> QED
    BY <1>1, <2>1, <2>2 DEF Final
<1>4. CASE UNCHANGED vars
  <2>1. UNCHANGED <<uniqueId, reads, writes, occStart, pc, cur, txnResults, returned>>
    BY <1>4
  <2> QED
    BY <1>1, <2>1 DEF Final
<1>5. ASSUME NEW w \in Threads, OwnStep(w), OwnWork(w) PROVE Goal
  <2>1. CASE Busy(w)
    <3>1. cur[w] # t /\ cur'[w] # t
      BY <1>0, <1>1, <1>5, <2>1 DEF OwnWork
    <3> QED
      BY <1>0, <1>5, <3>1 DEF OwnStep, Final
  <2>2. CASE ~Busy(w)
    <3>1. pc[w] \notin {"unlock", "result"}
      BY <2>2 DEF Busy
    <3>2. Final(t)'
      BY <1>0, <1>5, <3>1 DEF OwnStep, Final
    <3>3. CASE cur'[w] \in Txns /\ (cur'[w] \in Elements(txnRequests) \/ Tasked(cur'[w]) \/ Completed(cur'[w]))
      BY <1>0, <1>1, <1>5, <2>2, <3>2, <3>3 DEF OwnWork
    <3> QED
      BY <1>5, <2>2, <3>2, <3>3 DEF OwnWork
  <2> QED
    BY <2>1, <2>2
<1>6. ASSUME NEW w \in Threads, PushResult(w), UNCHANGED <<poolVars, occVars>> PROVE Goal
  <2>1. cur[w] \in Txns
    BY <1>0, <1>6 DEF PushResult, Busy
  <2>2. Elements(txnResults') = Elements(txnResults) \cup {cur[w]}
    BY <1>0, <1>6, <2>1, ElementsAppend DEF PushResult
  <2> QED
    BY <1>0, <1>6, <2>2 DEF PushResult, Final
<1>7. ASSUME NEW w \in Threads, UnlockKey(w) \/ MarkCommitted(w), UNCHANGED occVars PROVE Goal
  BY <1>0, <1>7 DEF UnlockKey, MarkCommitted, Final
<1> QED
  BY <1>0, <1>1, <1>2, <1>3, <1>4, <1>5, <1>6, <1>7, SchedulerSteps, WorkerSteps DEF Next

-----------------------------------------------------------------------------
(* MVCC. *)

\* A step is one of the workers', or no worker moves and no version is read or
\* written.
LEMMA MVCCSteps ==
  ASSUME TypeOK, PlaceInv, mode = "MVCC", [Next]_vars
  PROVE  \/ /\ UNCHANGED <<reads, versions, lockedKeys>>
            /\ \A v \in Workers : pc'[v] = pc[v] /\ cur'[v] = cur[v] /\ todo'[v] = todo[v]
            /\ \A t \in Txns : uniqueId[t] > 0 => uniqueId'[t] = uniqueId[t]
         \/ \E w \in Workers :
              /\ MVCCWorker(w) /\ UNCHANGED occVars
              /\ \A v \in Workers \ {w} :
                    pc'[v] = pc[v] /\ cur'[v] = cur[v] /\ todo'[v] = todo[v]
<1> USE DEF vars, coreVars, clientVars, threadVars, dataVars, clientSide, poolVars, mvccVars, Goto
<1>0. /\ Main \in Threads /\ Workers \subseteq Threads /\ Main \notin Workers
      /\ pc \in [Threads -> PcLabels] /\ cur \in [Threads -> Values]
      /\ todo \in [Threads -> SUBSET (Keys \cup Txns)] /\ uniqueId \in [Txns -> Nat]
  BY PoolAssumption DEF TypeOK, CoreTypeOK, ClientTypeOK, ThreadTypeOK, Workers
<1>1. ASSUME NEW t \in Txns, Submit(t)
      PROVE  /\ UNCHANGED <<reads, versions, lockedKeys, pc, cur, todo>>
             /\ \A s \in Txns : uniqueId[s] > 0 => uniqueId'[s] = uniqueId[s]
  BY <1>0, <1>1 DEF Submit, NewTxnRequest
<1>2. CASE TakeResult \/ UNCHANGED vars
  <2>1. UNCHANGED <<reads, versions, lockedKeys, pc, cur, todo, uniqueId>>
    BY <1>2 DEF TakeResult, GetTxnResult
  <2> QED
    BY <2>1
<1>3. CASE Scheduler
  <2>1. MVCCScheduler
    BY <1>3 DEF Scheduler, NoCase
  <2> QED
    BY <1>0, <2>1 DEF MVCCScheduler, PassRequest
<1>4. ASSUME NEW w \in Workers, Worker(w)
      PROVE  /\ MVCCWorker(w) /\ UNCHANGED occVars
             /\ \A v \in Workers \ {w} :
                   pc'[v] = pc[v] /\ cur'[v] = cur[v] /\ todo'[v] = todo[v]
  <2>1. MVCCWorker(w) /\ UNCHANGED occVars
    BY <1>4 DEF Worker
  <2> QED
    BY <1>0, <2>1 DEF MVCCWorker, MVCCBegin, TakeTask, ReadVersion, MVCCRun, Vote, LockKey, CheckKeys,
          InstallVersion, EndInstall, UnlockKey, MVCCFinish, MarkCommitted, PushResult, Restart
<1> QED
  BY <1>1, <1>2, <1>3, <1>4 DEF Next

LEMMA MVCCTypes ==
  ASSUME TypeOK, PlaceInv, NEW w \in Workers
  PROVE  /\ w \in Threads /\ pc \in [Threads -> PcLabels] /\ cur \in [Threads -> Values]
         /\ todo \in [Threads -> SUBSET (Keys \cup Txns)] /\ uniqueId \in [Txns -> Nat]
         /\ reads \in [Txns -> [Keys -> Values \cup {Unread}]]
         /\ versions \in [Keys -> Seq(Values)] /\ lockedKeys \subseteq Keys
         /\ writeset \in [Txns -> SUBSET Keys] /\ writes \in [Txns -> SUBSET Keys]
         /\ NoTxn \notin Txns /\ Unread \notin Values
         /\ Busy(w) => cur[w] \in Txns /\ Running(cur[w]) /\ uniqueId[cur[w]] > 0
                       /\ writes[cur[w]] \subseteq writeset[cur[w]]
<1>1. w \in Threads
  BY DEF Workers
<1>2. Busy(w) => cur[w] \in Txns /\ Running(cur[w])
  BY <1>1 DEF PlaceInv, OneThreadEach, Running
<1>3. Busy(w) => uniqueId[cur[w]] > 0
  BY <1>2, Elsewhere DEF PlaceInv
<1> QED
  BY <1>1, <1>2, <1>3, CoreAssumption DEF TypeOK, CoreTypeOK, ClientTypeOK, DataTypeOK, ThreadTypeOK,
        PoolTypeOK, MVCCTypeOK, PlaceInv, WritesInside, Values

\* A worker's step takes one key into its hands, gives one back or keeps all.
LEMMA HeldStep ==
  ASSUME TypeOK, PlaceInv, LocksExact, NEW w \in Workers, MVCCWorker(w)
  PROVE  /\ \/ lockedKeys' = lockedKeys /\ HeldBy(w)' = HeldBy(w)
            \/ \E k \in Keys : /\ k \notin lockedKeys /\ lockedKeys' = lockedKeys \cup {k}
                               /\ HeldBy(w)' = HeldBy(w) \cup {k}
            \/ \E k \in HeldBy(w) : lockedKeys' = lockedKeys \ {k} /\ HeldBy(w)' = HeldBy(w) \ {k}
         /\ pc'[w] \in {"lock", "install", "unlock", "unlockFailed"} =>
              todo'[w] \subseteq writeset[cur'[w]]
<1> USE DEF clientVars, threadVars, dataVars, clientSide, poolVars, mvccVars, Goto
<1>0. /\ w \in Threads /\ pc \in [Threads -> PcLabels] /\ cur \in [Threads -> Values]
      /\ todo \in [Threads -> SUBSET (Keys \cup Txns)] /\ lockedKeys \subseteq Keys
      /\ writeset \in [Txns -> SUBSET Keys] /\ writes \in [Txns -> SUBSET Keys]
      /\ Busy(w) => cur[w] \in Txns /\ writes[cur[w]] \subseteq writeset[cur[w]]
  BY MVCCTypes
<1>1. pc[w] \in {"lock", "install", "unlock", "unlockFailed"} => todo[w] \subseteq writeset[cur[w]]
  BY DEF LocksExact
<1>2. CASE MVCCBegin(w)
  BY <1>0, <1>2 DEF MVCCBegin, TakeTask, HeldBy
<1>3. CASE ReadVersion(w)
  BY <1>0, <1>3 DEF ReadVersion, HeldBy
<1>4. CASE MVCCRun(w)
  BY <1>0, <1>4 DEF MVCCRun, Vote, HeldBy
<1>5. CASE LockKey(w)
  <2>1. PICK k \in Keys : /\ k \in todo[w] /\ k \notin lockedKeys /\ lockedKeys' = lockedKeys \cup {k}
                          /\ todo' = [todo EXCEPT ![w] = @ \ {k}]
    BY <1>5 DEF LockKey, NextKey
  <2>2. HeldBy(w)' = HeldBy(w) \cup {k}
    BY <1>0, <1>1, <1>5, <2>1 DEF LockKey, HeldBy
  <2> QED
    BY <1>0, <1>1, <1>5, <2>1, <2>2 DEF LockKey
<1>6. CASE CheckKeys(w)
  BY <1>0, <1>1, <1>6 DEF CheckKeys, HeldBy, Busy
<1>7. CASE InstallVersion(w)
  BY <1>0, <1>1, <1>7 DEF InstallVersion, HeldBy
<1>8. CASE EndInstall(w)
  BY <1>0, <1>1, <1>8 DEF EndInstall, HeldBy, Busy
<1>9. CASE UnlockKey(w)
  <2>1. PICK k \in Keys : /\ k \in todo[w] /\ lockedKeys' = lockedKeys \ {k}
                          /\ todo' = [todo EXCEPT ![w] = @ \ {k}]
    BY <1>9 DEF UnlockKey, NextKey
  <2>2. k \in HeldBy(w) /\ HeldBy(w)' = HeldBy(w) \ {k}
    BY <1>0, <1>1, <1>9, <2>1 DEF UnlockKey, HeldBy
  <2> QED
    BY <1>0, <1>1, <1>9, <2>1, <2>2 DEF UnlockKey
<1>10. CASE MVCCFinish(w)
  BY <1>0, <1>10 DEF MVCCFinish, MarkCommitted, PushResult, Restart, HeldBy
<1> QED
  BY <1>2, <1>3, <1>4, <1>5, <1>6, <1>7, <1>8, <1>9, <1>10 DEF MVCCWorker

LEMMA LocksStep ==
  ASSUME TypeOK, PlaceInv, mode = "MVCC", LocksExact, [Next]_vars
  PROVE  LocksExact'
<1>1. /\ \A k : k \in lockedKeys <=> \E v \in Workers : k \in HeldBy(v)
      /\ \A v, w \in Workers : \A k \in HeldBy(v) \cap HeldBy(w) : v = w
      /\ \A v \in Workers : pc[v] \in {"lock", "install", "unlock", "unlockFailed"} =>
            todo[v] \subseteq writeset[cur[v]]
  BY DEF LocksExact
<1>2. SUFFICES /\ \A k : k \in lockedKeys' <=> \E v \in Workers : k \in HeldBy(v)'
               /\ \A v, w \in Workers : \A k \in HeldBy(v)' \cap HeldBy(w)' : v = w
               /\ \A v \in Workers : pc'[v] \in {"lock", "install", "unlock", "unlockFailed"} =>
                     todo'[v] \subseteq writeset[cur'[v]]
  BY DEF LocksExact
<1>3. ASSUME NEW v \in Workers, pc'[v] = pc[v], cur'[v] = cur[v], todo'[v] = todo[v]
      PROVE  HeldBy(v)' = HeldBy(v)
  BY <1>3 DEF HeldBy
<1>4. CASE /\ UNCHANGED <<reads, versions, lockedKeys>>
           /\ \A v \in Workers : pc'[v] = pc[v] /\ cur'[v] = cur[v] /\ todo'[v] = todo[v]
  BY <1>1, <1>3, <1>4
<1>5. ASSUME NEW w \in Workers, MVCCWorker(w),
             \A v \in Workers \ {w} : pc'[v] = pc[v] /\ cur'[v] = cur[v] /\ todo'[v] = todo[v]
      PROVE  /\ \A k : k \in lockedKeys' <=> \E v \in Workers : k \in HeldBy(v)'
             /\ \A v, u \in Workers : \A k \in HeldBy(v)' \cap HeldBy(u)' : v = u
             /\ \A v \in Workers : pc'[v] \in {"lock", "install", "unlock", "unlockFailed"} =>
                   todo'[v] \subseteq writeset[cur'[v]]
  <2>1. \A v \in Workers \ {w} : HeldBy(v)' = HeldBy(v)
    BY <1>3, <1>5
  <2>2. \A v \in Workers : pc'[v] \in {"lock", "install", "unlock", "unlockFailed"} =>
            todo'[v] \subseteq writeset[cur'[v]]
    BY <1>1, <1>5, HeldStep
  <2>3. CASE lockedKeys' = lockedKeys /\ HeldBy(w)' = HeldBy(w)
    <3>1. \A v \in Workers : HeldBy(v)' = HeldBy(v)
      BY <2>1, <2>3
    <3> QED
      BY <1>1, <2>2, <2>3, <3>1
  <2>4. ASSUME NEW k \in Keys, k \notin lockedKeys, lockedKeys' = lockedKeys \cup {k},
               HeldBy(w)' = HeldBy(w) \cup {k}
        PROVE  /\ \A j : j \in lockedKeys' <=> \E v \in Workers : j \in HeldBy(v)'
               /\ \A v, u \in Workers : \A j \in HeldBy(v)' \cap HeldBy(u)' : v = u
    <3>1. \A v \in Workers : HeldBy(v)' = HeldBy(v) \cup (IF v = w THEN {k} ELSE {})
      BY <2>1, <2>4
    <3>2. \A v \in Workers : k \notin HeldBy(v)
      BY <1>1, <2>4
    <3> QED
      BY <1>1, <2>4, <3>1, <3>2
  <2>5. ASSUME NEW k \in HeldBy(w), lockedKeys' = lockedKeys \ {k}, HeldBy(w)' = HeldBy(w) \ {k}
        PROVE  /\ \A j : j \in lockedKeys' <=> \E v \in Workers : j \in HeldBy(v)'
               /\ \A v, u \in Workers : \A j \in HeldBy(v)' \cap HeldBy(u)' : v = u
    <3>1. \A v \in Workers : HeldBy(v)' = HeldBy(v) \ (IF v = w THEN {k} ELSE {})
      BY <2>1, <2>5
    <3>2. \A v \in Workers : k \in HeldBy(v) <=> v = w
      BY <1>1, <2>5
    <3> QED
      BY <1>1, <2>5, <3>1, <3>2
  <2> QED
    BY <1>5, <2>2, <2>3, <2>4, <2>5, HeldStep
<1> QED
  BY <1>4, <1>5, MVCCSteps

\* The ids of the versions: whoever has installed one, or is about to, keeps his.
LEMMA InstallerStays ==
  ASSUME TypeOK, PlaceInv, mode = "MVCC", [Next]_vars, NEW w \in Workers, pc[w] = "install"
  PROVE  /\ uniqueId'[cur[w]] = uniqueId[cur[w]] /\ cur'[w] = cur[w]
         /\ pc'[w] = "install" \/ (EndInstall(w) /\ pc'[w] = "unlock")
<1> USE DEF clientVars, threadVars, dataVars, clientSide, poolVars, mvccVars, Goto
<1>1. /\ w \in Threads /\ cur[w] \in Txns /\ uniqueId[cur[w]] > 0 /\ Busy(w)
      /\ pc \in [Threads -> PcLabels] /\ cur \in [Threads -> Values] /\ uniqueId \in [Txns -> Nat]
  BY MVCCTypes DEF Busy
<1>2. ASSUME NEW v \in Workers, MVCCWorker(v), v # w PROVE uniqueId'[cur[w]] = uniqueId[cur[w]]
  <2>1. CASE MVCCFinish(v) /\ pc[v] = "unlockFailed" /\ Restart(v)
    <3>1. Busy(v) /\ v \in Threads
      BY <2>1 DEF Busy, Workers
    <3>2. cur[v] # cur[w]
      BY <1>1, <1>2, <3>1 DEF PlaceInv, OneThreadEach
    <3> QED
      BY <1>1, <2>1, <3>2 DEF Restart
  <2>2. CASE ~(MVCCFinish(v) /\ pc[v] = "unlockFailed" /\ Restart(v))
    BY <1>2, <2>2 DEF MVCCWorker, MVCCBegin, TakeTask, ReadVersion, MVCCRun, Vote, LockKey, CheckKeys,
          InstallVersion, EndInstall, UnlockKey, MVCCFinish, MarkCommitted, PushResult
  <2> QED
    BY <2>1, <2>2
<1>3. CASE MVCCWorker(w)
  BY <1>1, <1>3 DEF MVCCWorker, MVCCBegin, TakeTask, ReadVersion, MVCCRun, LockKey, CheckKeys,
        InstallVersion, EndInstall, UnlockKey, MVCCFinish, PushResult
<1> QED
  BY <1>1, <1>2, <1>3, MVCCSteps

LEMMA VersionIdStays ==
  ASSUME TypeOK, PlaceInv, mode = "MVCC", VersionsInstalled, [Next]_vars,
         NEW k \in Keys, NEW v \in Elements(versions[k])
  PROVE  VersionId(v)' = VersionId(v)
<1>0. v \in Values /\ versions[k] \in Seq(Values)
  BY ElementsType DEF TypeOK, MVCCTypeOK
<1>1. CASE v = NoTxn
  BY <1>1 DEF VersionId
<1>2. CASE Final(v) /\ v \in Txns
  BY <1>2, FinalStays DEF VersionId
<1>3. CASE \E w \in Workers : pc[w] = "install" /\ cur[w] = v
  BY <1>3, InstallerStays DEF VersionId
<1> QED
  BY <1>0, <1>1, <1>2, <1>3 DEF VersionsInstalled, Values

\* What one step does to the versions of a key.
LEMMA VersionsEffect ==
  ASSUME TypeOK, PlaceInv, mode = "MVCC", MVCCInv, [Next]_vars, NEW k \in Keys
  PROVE  \/ versions'[k] = versions[k]
         \/ \E w \in Workers :
              /\ InstallVersion(w) /\ k \in todo[w] /\ k \in HeldBy(w)
              /\ Tail(versions'[k]) = versions[k] /\ Head(versions'[k]) = cur[w]
              /\ Elements(versions'[k]) = {cur[w]} \cup Elements(versions[k])
<1>0. LocksExact /\ VersionsInstalled /\ StillNewest
  BY DEF MVCCInv
<1>1. ASSUME NEW w \in Workers, InstallVersion(w), versions'[k] # versions[k]
      PROVE  /\ k \in todo[w] /\ k \in HeldBy(w)
             /\ Tail(versions'[k]) = versions[k] /\ Head(versions'[k]) = cur[w]
             /\ Elements(versions'[k]) = {cur[w]} \cup Elements(versions[k])
  <2>1. PICK j \in Keys : NextKey(w, j) /\ versions' = [versions EXCEPT ![j] = VersionsWith(j, cur[w])]
    BY <1>1 DEF InstallVersion
  <2>2. versions \in [Keys -> Seq(Values)] /\ cur[w] \in Txns /\ pc[w] = "install"
    BY <1>1, MVCCTypes DEF InstallVersion, Busy
  <2>3. k = j /\ versions'[k] = VersionsWith(k, cur[w])
    BY <1>1, <2>1, <2>2
  <2>4. k \in todo[w] /\ k \in HeldBy(w)
    BY <1>0, <2>1, <2>2, <2>3 DEF NextKey, LocksExact, HeldBy
  <2>5. NoTxn \in Elements(versions[k]) /\ VersionId(Head(versions[k])) <= uniqueId[cur[w]]
    BY <1>0, <2>2, <2>4 DEF VersionsInstalled, StillNewest
  <2>6. PICK t \in Txns : t = cur[w]
    BY <2>2
  <2>7. /\ Tail(VersionsWith(k, t)) = versions[k] /\ Head(VersionsWith(k, t)) = t
        /\ Elements(VersionsWith(k, t)) = {t} \cup Elements(versions[k])
    BY <2>5, <2>6, VersionOnTop
  <2> QED
    BY <2>3, <2>4, <2>6, <2>7
<1>2. ASSUME NEW w \in Workers, MVCCWorker(w), ~InstallVersion(w) PROVE versions'[k] = versions[k]
  BY <1>2 DEF MVCCWorker, MVCCBegin, ReadVersion, MVCCRun, LockKey, CheckKeys,
        EndInstall, UnlockKey, MVCCFinish, mvccVars
<1> QED
  BY <1>1, <1>2, MVCCSteps

LEMMA VersionsStep ==
  ASSUME TypeOK, PlaceInv, mode = "MVCC", MVCCInv, [Next]_vars
  PROVE  VersionsInstalled'
<1> SUFFICES ASSUME NEW k \in Keys
             PROVE  /\ NoTxn \in Elements(versions'[k])
                    /\ \A v \in Elements(versions'[k]) :
                          \/ v = NoTxn
                          \/ Final(v)'
                          \/ \E w \in Workers : /\ pc'[w] = "install" /\ cur'[w] = v
                                                /\ k \in writeset[v] \ todo'[w]
  BY DEF VersionsInstalled
<1>0. LocksExact /\ VersionsInstalled /\ versions[k] \in Seq(Values)
  BY DEF MVCCInv, TypeOK, MVCCTypeOK
<1>1. ASSUME NEW v \in Elements(versions[k])
      PROVE  \/ v = NoTxn
             \/ Final(v)'
             \/ \E w \in Workers : /\ pc'[w] = "install" /\ cur'[w] = v
                                   /\ k \in writeset[v] \ todo'[w]
  <2>1. v \in Values
    BY <1>0, ElementsType
  <2>2. CASE Final(v) /\ v \in Txns
    BY <2>2, FinalStays
  <2>3. CASE \E w \in Workers : pc[w] = "install" /\ cur[w] = v /\ k \in writeset[v] \ todo[w]
    <3>1. PICK w \in Workers : pc[w] = "install" /\ cur[w] = v /\ k \in writeset[v] \ todo[w]
      BY <2>3
    <3>2. cur'[w] = v /\ (pc'[w] = "install" \/ (EndInstall(w) /\ pc'[w] = "unlock"))
      BY <3>1, InstallerStays
    <3>3. CASE pc'[w] = "unlock"
      BY <3>2, <3>3, MVCCTypes DEF Final
    <3>4. CASE pc'[w] = "install"
      <4>1. todo'[w] \subseteq todo[w]
        <5>1. CASE MVCCWorker(w)
          BY <3>1, <3>4, <5>1, MVCCTypes DEF MVCCWorker, MVCCBegin, TakeTask, ReadVersion, MVCCRun, LockKey,
                CheckKeys, InstallVersion, EndInstall, UnlockKey, MVCCFinish, MarkCommitted, PushResult, Goto
        <5> QED
          BY <5>1, MVCCSteps
      <4> QED
        BY <3>1, <3>2, <3>4, <4>1
    <3> QED
      BY <3>2, <3>3, <3>4
  <2> QED
    BY <1>0, <2>1, <2>2, <2>3 DEF VersionsInstalled, Values
<1>2. CASE versions'[k] = versions[k]
  BY <1>0, <1>1, <1>2 DEF VersionsInstalled
<1>3. ASSUME NEW w \in Workers, InstallVersion(w), k \in todo[w], k \in HeldBy(w),
             Elements(versions'[k]) = {cur[w]} \cup Elements(versions[k]), versions'[k] # versions[k]
      PROVE  /\ NoTxn \in Elements(versions'[k])
             /\ \A v \in Elements(versions'[k]) :
                          \/ v = NoTxn
                          \/ Final(v)'
                          \/ \E u \in Workers : /\ pc'[u] = "install" /\ cur'[u] = v
                                                /\ k \in writeset[v] \ todo'[u]
  <2>1. PICK j \in Keys : /\ versions' = [versions EXCEPT ![j] = VersionsWith(j, cur[w])]
                          /\ todo' = [todo EXCEPT ![w] = @ \ {j}]
    BY <1>3 DEF InstallVersion
  <2>2. k = j /\ k \notin todo'[w]
    BY <1>3, <2>1, MVCCTypes
  <2>3. pc'[w] = "install" /\ cur'[w] = cur[w] /\ k \in writeset[cur[w]]
    BY <1>3 DEF InstallVersion, HeldBy
  <2> QED
    BY <1>0, <1>1, <1>3, <2>2, <2>3 DEF VersionsInstalled
<1> QED
  BY <1>2, <1>3, VersionsEffect

LEMMA NewestStep ==
  ASSUME TypeOK, PlaceInv, mode = "MVCC", MVCCInv, [Next]_vars
  PROVE  StillNewest'
<1> SUFFICES ASSUME NEW w \in Workers, pc'[w] = "install", NEW k \in todo'[w]
             PROVE  VersionId(Head(versions[k]))' <= uniqueId'[cur'[w]]
  BY DEF StillNewest
<1> USE DEF clientVars, threadVars, dataVars, clientSide, poolVars, mvccVars, Goto
<1>0. LocksExact /\ VersionsInstalled /\ StillNewest
  BY DEF MVCCInv
<1>1. CASE pc[w] = "install"
  <2>1. k \in todo[w]
    <3>1. CASE MVCCWorker(w)
      BY <1>1, <3>1, MVCCTypes DEF MVCCWorker, MVCCBegin, TakeTask, ReadVersion, MVCCRun, LockKey,
            CheckKeys, InstallVersion, EndInstall, UnlockKey, MVCCFinish, MarkCommitted, PushResult
    <3> QED
      BY <3>1, MVCCSteps
  <2>2. cur[w] \in Txns /\ writeset \in [Txns -> SUBSET Keys]
    BY <1>1, MVCCTypes DEF Busy
  <2>3. k \in HeldBy(w) /\ k \in Keys
    BY <1>0, <1>1, <2>1, <2>2 DEF LocksExact, HeldBy
  <2>4. versions'[k] = versions[k]
    <3>1. ASSUME NEW v \in Workers, InstallVersion(v), k \in todo[v], k \in HeldBy(v),
                 versions'[k] # versions[k]
          PROVE  FALSE
      <4>1. v = w
        BY <1>0, <2>3, <3>1 DEF LocksExact
      <4>2. PICK j \in Keys : /\ versions' = [versions EXCEPT ![j] = VersionsWith(j, cur[w])]
                              /\ todo' = [todo EXCEPT ![w] = @ \ {j}]
        BY <3>1, <4>1 DEF InstallVersion
      <4> QED
        BY <2>3, <3>1, <4>2, MVCCTypes
    <3> QED
      BY <2>3, <3>1, VersionsEffect
  <2>5. Head(versions[k]) \in Elements(versions[k])
    <3>1. versions[k] \in Seq(Values) /\ versions[k] # <<>>
      BY <1>0, <2>3, ElementsEmpty DEF VersionsInstalled, TypeOK, MVCCTypeOK
    <3> QED
      BY <3>1, ElementsTail
  <2>6. VersionId(Head(versions[k]))' = VersionId(Head(versions[k]))
    <3>1. PICK h \in Elements(versions[k]) : h = Head(versions[k])
      BY <2>5
    <3>2. VersionId(h)' = VersionId(h)
      BY <1>0, <2>3, VersionIdStays
    <3> QED
      BY <2>4, <3>1, <3>2
  <2> QED
    BY <1>0, <1>1, <2>1, <2>4, <2>6, InstallerStays DEF StillNewest
<1>2. CASE pc[w] # "install"
  <2>1. CheckKeys(w)
    <3>1. MVCCWorker(w)
      BY <1>2, MVCCSteps
    <3> QED
      BY <1>2, <3>1, MVCCTypes DEF MVCCWorker, MVCCBegin, TakeTask, ReadVersion, MVCCRun, LockKey,
            InstallVersion, EndInstall, UnlockKey, MVCCFinish, MarkCommitted, PushResult, Restart
  <2>2. todo'[w] = writes[cur[w]] /\ \A j \in writeset[cur[w]] : CheckKey(j, uniqueId[cur[w]])
    BY <1>2, <2>1, MVCCTypes DEF CheckKeys
  <2>3. UNCHANGED <<versions, uniqueId, cur>>
    BY <2>1 DEF CheckKeys
  <2>4. k \in writeset[cur[w]] /\ uniqueId[cur[w]] \in Nat
    BY <2>1, <2>2, MVCCTypes DEF CheckKeys, Busy
  <2>5. VersionId(Head(versions[k])) <= uniqueId[cur[w]]
    BY <2>2, <2>4 DEF CheckKey
  <2> QED
    BY <2>3, <2>5 DEF VersionId
<1> QED
  BY <1>1, <1>2

\* A reader waits for the lock of the key, so whoever wrote what it reads is done.
LEMMA ReadsStep ==
  ASSUME TypeOK, PlaceInv, mode = "MVCC", MVCCInv, [Next]_vars
  PROVE  ReadsFinal'
<1> SUFFICES ASSUME NEW t \in Txns, NEW k \in Keys, NEW p \in Txns, reads'[t][k] = p PROVE Final(p)'
  BY DEF ReadsFinal
<1> USE DEF clientVars, threadVars, dataVars, clientSide, poolVars, mvccVars, Goto
<1>0. LocksExact /\ VersionsInstalled /\ ReadsFinal /\ versions[k] \in Seq(Values)
      /\ reads \in [Txns -> [Keys -> Values \cup {Unread}]]
      /\ uniqueId \in [Txns -> Nat] /\ Unread \notin Values /\ Txns \subseteq Values
  BY CoreAssumption DEF MVCCInv, TypeOK, MVCCTypeOK, CoreTypeOK, ClientTypeOK, DataTypeOK, Values
<1>1. CASE reads'[t][k] = reads[t][k]
  <2>1. Final(p)
    BY <1>0, <1>1 DEF ReadsFinal
  <2> QED
    BY <2>1, FinalStays
<1>2. ASSUME NEW w \in Workers, ReadVersion(w), reads'[t][k] # reads[t][k]
      PROVE  Final(p)'
  <2>1. PICK j \in Keys :
           /\ j \notin lockedKeys
           /\ reads' = [reads EXCEPT ![cur[w]][j] = VersionRead(j, uniqueId[cur[w]])]
    BY <1>2 DEF ReadVersion
  <2>2. cur[w] \in Txns
    BY <1>2, MVCCTypes DEF ReadVersion, Busy
  <2>3. j = k /\ t = cur[w] /\ reads'[t][k] = VersionRead(k, uniqueId[cur[w]])
    BY <1>0, <1>2, <2>1, <2>2
  <2>4. VersionRead(k, uniqueId[cur[w]]) \in Elements(versions[k])
    BY <1>0, <2>2, VersionReadFinds DEF VersionsInstalled
  <2>5. Final(p)
    <3>1. p \in Elements(versions[k]) /\ p # NoTxn
      BY <2>3, <2>4, CoreAssumption
    <3>2. ASSUME NEW u \in Workers, pc[u] = "install", k \in writeset[cur[u]] PROVE k \in lockedKeys
      BY <1>0, <3>2 DEF LocksExact, HeldBy
    <3> QED
      BY <1>0, <2>1, <2>3, <3>1, <3>2 DEF VersionsInstalled
  <2> QED
    BY <2>5, FinalStays
<1>3. ASSUME NEW w \in Workers, MVCCWorker(w), ~ReadVersion(w), reads'[t][k] # reads[t][k]
      PROVE  FALSE
  <2>1. MVCCFinish(w) /\ Restart(w) /\ Busy(w)
    BY <1>3 DEF MVCCWorker, MVCCBegin, TakeTask, MVCCRun, Vote, LockKey, CheckKeys,
          InstallVersion, EndInstall, UnlockKey, MVCCFinish, MarkCommitted, PushResult, Busy
  <2>2. cur[w] \in Txns
    BY <2>1, MVCCTypes
  <2>3. reads'[t][k] = Unread
    BY <1>0, <1>3, <2>1, <2>2 DEF Restart
  <2> QED
    BY <1>0, <2>3
<1>4. \/ reads' = reads
      \/ \E w \in Workers : MVCCWorker(w)
  BY MVCCSteps
<1> QED
  BY <1>1, <1>2, <1>3, <1>4

LEMMA MVCCInit0 == Init => MVCCInv
<1> SUFFICES ASSUME Init PROVE MVCCInv
  OBVIOUS
<1> USE DEF Init, PoolInit, CoreInit, MVCCInit
<1>1. \A w \in Workers : pc[w] = "idle" /\ HeldBy(w) = {}
  BY DEF Workers, HeldBy
<1>2. LocksExact
  BY <1>1 DEF LocksExact
<1>3. VersionsInstalled
  BY DEF VersionsInstalled, Elements
<1>4. StillNewest
  BY <1>1 DEF StillNewest
<1>5. ReadsFinal
  BY CoreAssumption DEF ReadsFinal
<1> QED
  BY <1>2, <1>3, <1>4, <1>5 DEF MVCCInv

LEMMA MVCCStep ==
  ASSUME TypeOK, PlaceInv, MVCCInv, [Next]_vars
  PROVE  MVCCInv'
<1> SUFFICES ASSUME mode = "MVCC" PROVE (LocksExact /\ VersionsInstalled /\ StillNewest /\ ReadsFinal)'
  BY LocationsStep DEF MVCCInv
<1>1. LocksExact
  BY DEF MVCCInv
<1> QED
  BY <1>1, LocksStep, VersionsStep, NewestStep, ReadsStep

-----------------------------------------------------------------------------
(* P_OCC. *)

LEMMA ParallelInit == Init => ParallelInv
  BY DEF Init, PoolInit, CoreInit, OCCInit, ParallelInv, ActiveExact, InActive, OneSawTheOther, Workers

\* A step of P_OCC: one worker's, or no worker moves.
LEMMA ParallelSteps ==
  ASSUME TypeOK, PlaceInv, mode = "P_OCC", [Next]_vars
  PROVE  \/ /\ UNCHANGED <<activeSet, finishActive>>
            /\ \A v \in Workers : pc'[v] = pc[v] /\ cur'[v] = cur[v]
         \/ \E w \in Workers :
              /\ ParallelWorker(w)
              /\ \A v \in Workers \ {w} : pc'[v] = pc[v] /\ cur'[v] = cur[v]
<1> USE DEF vars, coreVars, clientVars, threadVars, dataVars, clientSide, poolVars, occVars, Goto
<1>0. /\ Main \in Threads /\ Workers \subseteq Threads /\ Main \notin Workers
      /\ pc \in [Threads -> PcLabels] /\ cur \in [Threads -> Values]
  BY PoolAssumption DEF TypeOK, CoreTypeOK, ThreadTypeOK, Workers
<1>1. ASSUME NEW t \in Txns, Submit(t) PROVE UNCHANGED <<activeSet, finishActive, pc, cur>>
  BY <1>1 DEF Submit, NewTxnRequest
<1>2. CASE TakeResult \/ UNCHANGED vars
  <2>1. UNCHANGED <<activeSet, finishActive, pc, cur>>
    BY <1>2 DEF TakeResult, GetTxnResult
  <2> QED
    BY <2>1
<1>3. CASE Scheduler
  <2>1. ParallelScheduler
    BY <1>3 DEF Scheduler, NoCase
  <2> QED
    BY <1>0, <2>1 DEF ParallelScheduler, PassRequest
<1>4. ASSUME NEW w \in Workers, Worker(w)
      PROVE  /\ ParallelWorker(w)
             /\ \A v \in Workers \ {w} : pc'[v] = pc[v] /\ cur'[v] = cur[v]
  <2>1. ParallelWorker(w)
    BY <1>4 DEF Worker
  <2> QED
    BY <1>0, <2>1 DEF ParallelWorker, OCCBegin, TakeTask, StartExecute, OCCRead, ReadRecord, EndReadset,
          ParallelRun, Vote, EnterActive, ValidateParallel, Conclude, ParallelApply, ApplyWrite,
          EraseActive, ParallelFinish, MarkCommitted, PushResult, Restart
<1> QED
  BY <1>1, <1>2, <1>3, <1>4 DEF Next

LEMMA ParallelStep ==
  ASSUME TypeOK, PlaceInv, ParallelInv, [Next]_vars
  PROVE  ParallelInv'
<1> SUFFICES ASSUME mode = "P_OCC" PROVE ActiveExact' /\ OneSawTheOther'
  BY LocationsStep DEF ParallelInv
<1> USE DEF clientVars, threadVars, dataVars, clientSide, poolVars, occVars, Goto
<1>0. /\ ActiveExact /\ OneSawTheOther /\ Workers \subseteq Threads
      /\ pc \in [Threads -> PcLabels] /\ cur \in [Threads -> Values]
      /\ finishActive \in [Workers -> SUBSET Txns] /\ activeSet \subseteq Txns
      /\ \A v, w \in Workers : Busy(v) /\ Busy(w) /\ cur[v] = cur[w] => v = w
      /\ \A v \in Workers : InActive(v) => Busy(v)
  BY DEF ParallelInv, TypeOK, CoreTypeOK, ThreadTypeOK, OCCTypeOK, Workers, PlaceInv, OneThreadEach,
        InActive, Busy
\* Nobody enters, leaves or concludes.
<1>1. ASSUME UNCHANGED <<activeSet, finishActive>>,
             \A v \in Workers : \/ pc'[v] = pc[v] /\ cur'[v] = cur[v]
                                \/ /\ pc[v] \notin {"validate", "apply", "invalid"}
                                   /\ pc'[v] \notin {"validate", "apply", "invalid"}
      PROVE  ActiveExact' /\ OneSawTheOther'
  <2>1. \A v \in Workers : (InActive(v)' <=> InActive(v)) /\ (InActive(v) => cur'[v] = cur[v])
    BY <1>1 DEF InActive
  <2>2. ActiveExact'
    BY <1>0, <1>1, <2>1 DEF ActiveExact
  <2>3. OneSawTheOther'
    BY <1>0, <1>1, <2>1 DEF OneSawTheOther, Saw, Passed
  <2> QED
    BY <2>2, <2>3
<1>2. ASSUME NEW w \in Workers, ParallelWorker(w),
             \A v \in Workers \ {w} : pc'[v] = pc[v] /\ cur'[v] = cur[v]
      PROVE  ActiveExact' /\ OneSawTheOther'
  <2>1. CASE OCCBegin(w) \/ OCCRead(w) \/ ParallelRun(w) \/ ParallelApply(w) \/ ParallelFinish(w)
    <3>1. /\ UNCHANGED <<activeSet, finishActive>>
          /\ \/ pc'[w] = pc[w] /\ cur'[w] = cur[w]
             \/ /\ pc[w] \notin {"validate", "apply", "invalid"}
                /\ pc'[w] \notin {"validate", "apply", "invalid"}
      BY <1>0, <2>1 DEF OCCBegin, TakeTask, StartExecute, OCCRead, ReadRecord, EndReadset, ParallelRun,
            Vote, ParallelApply, ApplyWrite, ParallelFinish, MarkCommitted, PushResult, Restart
    <3> QED
      BY <1>1, <1>2, <3>1
  <2>2. CASE EnterActive(w)
    <3>1. /\ pc[w] = "enter" /\ pc'[w] = "validate" /\ cur' = cur
          /\ finishActive' = [finishActive EXCEPT ![w] = activeSet]
          /\ activeSet' = activeSet \cup {cur[w]}
      BY <1>0, <2>2 DEF EnterActive
    <3>2. \A v \in Workers : InActive(v)' <=> InActive(v) \/ v = w
      BY <1>2, <3>1 DEF InActive
    <3>3. ActiveExact'
      BY <1>0, <3>1, <3>2 DEF ActiveExact
    <3>4. \A v \in Workers \ {w} : pc[v] \in {"validate", "apply"} => cur[v] \in activeSet
      BY <1>0 DEF ActiveExact, InActive
    <3>5. \A v \in Workers \ {w} : pc[v] \in {"validate", "apply"} => Saw(w, v)'
      BY <1>0, <3>1, <3>4 DEF Saw
    <3>6. \A v, u \in Workers \ {w} : Saw(v, u)' <=> Saw(v, u)
      BY <1>0, <1>2, <3>1 DEF Saw, Passed
    <3>7. OneSawTheOther'
      BY <1>0, <1>2, <3>1, <3>5, <3>6 DEF OneSawTheOther
    <3> QED
      BY <3>3, <3>7
  <2>3. CASE ValidateParallel(w)
    <3>1. /\ pc[w] = "validate" /\ pc'[w] \in {"apply", "invalid"} /\ cur' = cur
          /\ activeSet' = activeSet
          /\ finishActive' = [finishActive EXCEPT ![w] = {}]
      BY <1>0, <2>3 DEF ValidateParallel, Conclude
    <3>2. \A v \in Workers : InActive(v)' <=> InActive(v)
      BY <1>2, <3>1 DEF InActive
    <3>3. ActiveExact'
      BY <1>0, <3>1, <3>2 DEF ActiveExact
    <3>4. pc'[w] = "apply" => ~OverlapsActive(cur[w], finishActive[w])
      BY <1>0, <2>3 DEF ValidateParallel, Conclude
    <3>5. \A v \in Workers \ {w} : pc'[w] = "apply" /\ Saw(w, v) => Saw(w, v)'
      BY <1>0, <3>1, <3>4 DEF Saw, Passed, OverlapsActive, Overlaps
    <3>6. \A v \in Workers \ {w} : \A u \in Workers : Saw(v, u)' <=> Saw(v, u)
      BY <1>0, <1>2, <3>1 DEF Saw, Passed
    <3>7. OneSawTheOther'
      BY <1>0, <1>2, <3>1, <3>5, <3>6 DEF OneSawTheOther
    <3> QED
      BY <3>3, <3>7
  <2>4. CASE EraseActive(w)
    <3>1. /\ pc[w] \in {"apply", "invalid"} /\ pc'[w] \in {"commit", "restart"} /\ cur' = cur
          /\ activeSet' = activeSet \ {cur[w]} /\ finishActive' = finishActive
      BY <1>0, <2>4 DEF EraseActive
    <3>2. \A v \in Workers : InActive(v)' <=> InActive(v) /\ v # w
      BY <1>2, <3>1 DEF InActive
    <3>3. \A v \in Workers : InActive(v) /\ cur[v] = cur[w] => v = w
      BY <1>0, <3>1 DEF Busy
    <3>4. ActiveExact'
      BY <1>0, <3>1, <3>2, <3>3 DEF ActiveExact
    <3>5. \A v, u \in Workers \ {w} : Saw(v, u)' <=> Saw(v, u)
      BY <1>0, <1>2, <3>1 DEF Saw, Passed
    <3>6. OneSawTheOther'
      BY <1>0, <1>2, <3>1, <3>5 DEF OneSawTheOther
    <3> QED
      BY <3>4, <3>6
  <2> QED
    BY <1>2, <2>1, <2>2, <2>3, <2>4 DEF ParallelWorker
<1> QED
  BY <1>1, <1>2, ParallelSteps

-----------------------------------------------------------------------------
(* The last writer of a key among the first transactions to commit. *)

\* LastWriter of any list c, given what each transaction has written.
LastOf(W, c, k, n) ==
    LET I == {i \in 1..n : k \in W[c[i]]}
    IN  IF I = {} THEN NoTxn ELSE c[CHOOSE i \in I : \A j \in I : j <= i]

LEMMA LastWriterIsLastOf ==
  /\ \A k, n : LastWriter(k, n) = LastOf(writes, committedTxns, k, n)
  /\ \A k, n : LastWriter(k, n)' = LastOf(writes', committedTxns', k, n)
  BY Zenon DEF LastWriter, LastOf

\* The same writers, the same last one.
LEMMA LastOfSame ==
  ASSUME NEW W, NEW c, NEW k, NEW m \in Nat, NEW n \in Nat, m <= n,
         \A i \in (m + 1) .. n : k \notin W[c[i]]
  PROVE  LastOf(W, c, k, n) = LastOf(W, c, k, m)
<1> DEFINE I == {i \in 1..n : k \in W[c[i]]}
           J == {i \in 1..m : k \in W[c[i]]}
<1>1. I = J
  OBVIOUS
<1>2. LastOf(W, c, k, n) = IF I = {} THEN NoTxn ELSE c[CHOOSE i \in I : \A j \in I : j <= i]
  BY DEF LastOf
<1>3. LastOf(W, c, k, m) = IF J = {} THEN NoTxn ELSE c[CHOOSE i \in J : \A j \in J : j <= i]
  BY DEF LastOf
<1> HIDE DEF I, J
<1> QED
  BY <1>1, <1>2, <1>3

LEMMA LastOfHit ==
  ASSUME NEW W, NEW c, NEW k, NEW n \in Nat \ {0}, k \in W[c[n]]
  PROVE  LastOf(W, c, k, n) = c[n]
<1> DEFINE I == {i \in 1..n : k \in W[c[i]]}
<1>1. n \in I /\ \A j \in I : j <= n
  OBVIOUS
<1>2. \A i \in I : (\A j \in I : j <= i) => i = n
  OBVIOUS
<1> HIDE DEF I
<1>3. (CHOOSE i \in I : \A j \in I : j <= i) = n
  BY <1>1, <1>2
<1>4. I # {}
  BY <1>1
<1> QED
  BY <1>3, <1>4 DEF LastOf, I

\* Only the first n and their writes count.
LEMMA LastOfPrefix ==
  ASSUME NEW W, NEW c, NEW V, NEW d, NEW k, NEW n \in Nat,
         \A i \in 1..n : V[d[i]] = W[c[i]] /\ d[i] = c[i]
  PROVE  LastOf(V, d, k, n) = LastOf(W, c, k, n)
<1> DEFINE I == {i \in 1..n : k \in W[c[i]]}
           J == {i \in 1..n : k \in V[d[i]]}
<1>1. I = J
  OBVIOUS
<1>2. LastOf(W, c, k, n) = IF I = {} THEN NoTxn ELSE c[CHOOSE i \in I : \A j \in I : j <= i]
  BY DEF LastOf
<1>3. LastOf(V, d, k, n) = IF J = {} THEN NoTxn ELSE d[CHOOSE i \in J : \A j \in J : j <= i]
  BY DEF LastOf
<1>4. CASE I = {}
  BY <1>1, <1>2, <1>3, <1>4
<1>5. CASE I # {}
  <2>1. I \in SUBSET Nat /\ \A i \in I : i <= n
    OBVIOUS
  <2>2. \E i \in I : \A j \in I : j <= i
    <3> DEFINE u == [i \in Nat |-> i]
    <3>1. u \in [Nat -> Nat] /\ \A i \in I : u[i] <= n
      BY <2>1
    <3>2. PICK i \in I : \A j \in I : u[j] <= u[i]
      BY <1>5, <2>1, <3>1, Youngest
    <3> QED
      BY <2>1, <3>2
  <2> DEFINE a == CHOOSE i \in I : \A j \in I : j <= i
  <2>3. a \in 1..n
    BY <2>2
  <2>4. LastOf(W, c, k, n) = c[a]
    BY <1>2, <1>5
  <2>5. LastOf(V, d, k, n) = d[a]
    <3> HIDE DEF I, J
    <3> QED
      BY <1>1, <1>3, <1>5
  <2> HIDE DEF a
  <2> QED
    BY <2>3, <2>4, <2>5
<1> QED
  BY <1>4, <1>5

-----------------------------------------------------------------------------
(* SERIAL and OCC. *)

LEMMA CommitTypes ==
  ASSUME TypeOK, PlaceInv
  PROVE  /\ Main \in Threads /\ Workers \subseteq Threads /\ Main \notin Workers
         /\ pc \in [Threads -> PcLabels] /\ cur \in [Threads -> Values]
         /\ todo \in [Threads -> SUBSET (Keys \cup Txns)]
         /\ reads \in [Txns -> [Keys -> Values \cup {Unread}]]
         /\ writes \in [Txns -> SUBSET Keys] /\ readset \in [Txns -> SUBSET Keys]
         /\ storage \in [Keys -> Values] /\ occStart \in [Txns -> Nat]
         /\ committedTxns \in Seq(Txns) /\ completedTxns \in Seq(Txns)
         /\ \A w \in Threads : Busy(w) => cur[w] \in Txns /\ Running(cur[w])
         /\ NoTxn \notin Txns /\ Keys \subseteq Int
  BY PoolAssumption, CoreAssumption DEF TypeOK, CoreTypeOK, DataTypeOK, ThreadTypeOK, PoolTypeOK,
        OCCTypeOK, Workers, PlaceInv, OneThreadEach, Running

\* The list of committed transactions grows by what the scheduler installs.
LEMMA CommittedEffect ==
  ASSUME TypeOK, PlaceInv, mode \in {"SERIAL", "OCC"}, [Next]_vars
  PROVE  \/ committedTxns' = committedTxns
         \/ Commit(Main, "result") /\ UNCHANGED <<poolVars, occVars>>
<1> USE DEF vars, coreVars, clientVars, dataVars, clientSide
<1>1. ASSUME NEW t \in Txns, Submit(t) PROVE committedTxns' = committedTxns
  BY <1>1 DEF Submit, NewTxnRequest
<1>2. CASE TakeResult \/ UNCHANGED vars
  BY <1>2 DEF TakeResult, GetTxnResult
<1>3. CASE mode = "SERIAL" /\ SerialScheduler /\ UNCHANGED <<occVars, mvccVars>>
  BY <1>3 DEF SerialScheduler, SerialPop, SerialExecute, ReadRecord, EndReadset, Run, SerialDecide,
        StartApply, ApplyWrite, Abort, SerialResult, PushResult
<1>4. CASE mode = "OCC" /\ OCCScheduler
  BY <1>4 DEF OCCScheduler, OCCPassRequest, PassRequest, OCCNoRequest, OCCValidate, OCCRestart, Restart,
        OCCCommit, ApplyWrite, OCCResult, PushResult, OCCEndRound
<1>5. CASE NoCase
  BY <1>5 DEF NoCase
<1>6. ASSUME NEW w \in Workers, Worker(w) PROVE committedTxns' = committedTxns
  BY <1>6 DEF Worker, OCCWorker, OCCBegin, TakeTask, OCCRead, ReadRecord, EndReadset, OCCRun, Run
<1> QED
  BY <1>1, <1>2, <1>3, <1>4, <1>5, <1>6 DEF Next, Scheduler

\* What is committed stays as it was when it committed.
LEMMA PastStays ==
  ASSUME TypeOK, PlaceInv, mode \in {"SERIAL", "OCC"}, CommittedFinal, [Next]_vars
  PROVE  /\ Len(committedTxns) \in Nat /\ Len(committedTxns') \in Nat
         /\ Len(committedTxns) <= Len(committedTxns')
         /\ \A i \in 1 .. Len(committedTxns) :
               /\ committedTxns'[i] = committedTxns[i] /\ committedTxns[i] \in Txns
               /\ reads'[committedTxns[i]] = reads[committedTxns[i]]
               /\ occStart'[committedTxns[i]] = occStart[committedTxns[i]]
         /\ \A k \in Keys : \A n \in 0 .. Len(committedTxns) : LastWriter(k, n)' = LastWriter(k, n)
<1>1. committedTxns \in Seq(Txns) /\ Main \in Threads
  BY CommitTypes
<1>2. /\ Len(committedTxns') \in Nat /\ Len(committedTxns) <= Len(committedTxns')
      /\ \A i \in 1 .. Len(committedTxns) : committedTxns'[i] = committedTxns[i]
  <2>1. CASE committedTxns' = committedTxns
    BY <1>1, <2>1
  <2>2. CASE Commit(Main, "result")
    <3>1. committedTxns' = Append(committedTxns, cur[Main]) /\ cur[Main] \in Txns
      BY <2>2, CommitTypes DEF Commit, Busy
    <3> QED
      BY <1>1, <3>1
  <2> QED
    BY <2>1, <2>2, CommittedEffect
<1>3. ASSUME NEW i \in 1 .. Len(committedTxns)
      PROVE  /\ committedTxns[i] \in Txns
             /\ reads'[committedTxns[i]] = reads[committedTxns[i]]
             /\ writes'[committedTxns[i]] = writes[committedTxns[i]]
             /\ occStart'[committedTxns[i]] = occStart[committedTxns[i]]
  <2>1. PICK t \in Txns : t = committedTxns[i]
    BY <1>1
  <2>2. Final(t)
    BY <1>1, <2>1 DEF CommittedFinal, Elements
  <2> QED
    BY <2>1, <2>2, FinalStays
<1>4. ASSUME NEW k \in Keys, NEW n \in 0 .. Len(committedTxns) PROVE LastWriter(k, n)' = LastWriter(k, n)
  BY <1>1, <1>2, <1>3, LastOfPrefix, LastWriterIsLastOf
<1> QED
  BY <1>1, <1>2, <1>3, <1>4

\* A worker of OCC leaves the transactions in other hands alone.
LEMMA OthersUntouched ==
  ASSUME TypeOK, PlaceInv, NEW w \in Workers, OCCWorker(w), NEW v \in Threads, v # w
  PROVE  /\ pc'[v] = pc[v] /\ cur'[v] = cur[v] /\ todo'[v] = todo[v]
         /\ UNCHANGED <<storage, committedTxns>>
         /\ Busy(v) => /\ reads'[cur[v]] = reads[cur[v]] /\ writes'[cur[v]] = writes[cur[v]]
                       /\ occStart'[cur[v]] = occStart[cur[v]]
<1> USE DEF clientVars, threadVars, dataVars, clientSide, poolVars, occVars, Goto
<1>0. /\ Busy(w) /\ Busy(v) => cur[w] # cur[v]
      /\ w \in Threads /\ pc \in [Threads -> PcLabels] /\ cur \in [Threads -> Values]
      /\ todo \in [Threads -> SUBSET (Keys \cup Txns)]
      /\ reads \in [Txns -> [Keys -> Values \cup {Unread}]]
      /\ writes \in [Txns -> SUBSET Keys] /\ occStart \in [Txns -> Nat]
      /\ Busy(v) => cur[v] \in Txns /\ Running(cur[v])
      /\ Busy(w) => cur[w] \in Txns
  BY CommitTypes DEF PlaceInv, OneThreadEach
<1>1. CASE OCCBegin(w)
  <2>1. PICK t \in Txns : /\ TakeTask(w, t) /\ StartExecute(w, t)
                          /\ occStart' = [occStart EXCEPT ![t] = Len(committedTxns)]
    BY <1>1 DEF OCCBegin
  <2>2. Tasked(t)
    <3>1. tasks[w] \in Seq(Txns)
      BY DEF TypeOK, PoolTypeOK
    <3> QED
      BY <2>1, <3>1, ElementsTail DEF TakeTask, Tasked
  <2>3. Busy(v) => cur[v] # t
    BY <1>0, <2>2, Elsewhere DEF PlaceInv
  <2> QED
    BY <1>0, <2>1, <2>3 DEF TakeTask, StartExecute
<1>2. CASE OCCRead(w)
  <2>1. Busy(w)
    BY <1>2 DEF OCCRead, ReadRecord, EndReadset, Busy
  <2> QED
    BY <1>0, <1>2, <2>1 DEF OCCRead, ReadRecord, EndReadset
<1>3. CASE OCCRun(w)
  <2>1. Busy(w)
    BY <1>3 DEF OCCRun, Run, Busy
  <2> QED
    BY <1>0, <1>3, <2>1 DEF OCCRun, Run, Written
<1> QED
  BY <1>1, <1>2, <1>3 DEF OCCWorker

\* The scheduler's steps that the committed state depends on.
Installs ==
    \/ mode = "OCC" /\ OCCValidate
    \/ StartApply(Main) \/ ApplyWrite(Main) \/ Commit(Main, "result")

LEMMA QuietForCommits ==
  ASSUME TypeOK, PlaceInv, mode \in {"SERIAL", "OCC"}, [Next]_vars, ~Installs
  PROVE  /\ UNCHANGED <<storage, committedTxns>>
         /\ pc[Main] = "apply" =>
              /\ pc'[Main] = "apply" /\ cur'[Main] = cur[Main] /\ todo'[Main] = todo[Main]
              /\ reads'[cur[Main]] = reads[cur[Main]] /\ writes'[cur[Main]] = writes[cur[Main]]
              /\ occStart'[cur[Main]] = occStart[cur[Main]]
         /\ pc[Main] # "apply" => pc'[Main] # "apply"
<1> USE DEF vars, coreVars, clientVars, threadVars, dataVars, clientSide, poolVars, occVars, Goto
<1>0. Main \in Threads /\ Main \notin Workers /\ pc \in [Threads -> PcLabels]
  BY CommitTypes
<1>1. ASSUME NEW t \in Txns, Submit(t)
      PROVE  UNCHANGED <<storage, committedTxns, pc, cur, todo, reads, writes, occStart>>
  BY <1>1 DEF Submit, NewTxnRequest
<1>2. CASE TakeResult \/ UNCHANGED vars
  <2>1. UNCHANGED <<storage, committedTxns, pc, cur, todo, reads, writes, occStart>>
    BY <1>2 DEF TakeResult, GetTxnResult
  <2> QED
    BY <2>1
<1>3. CASE mode = "SERIAL" /\ SerialScheduler
  BY <1>0, <1>3 DEF SerialScheduler, SerialPop, StartExecute, SerialExecute, ReadRecord, EndReadset, Run,
        SerialDecide, Abort, SerialResult, PushResult, Installs
<1>4. CASE mode = "OCC" /\ OCCScheduler
  BY <1>0, <1>4 DEF OCCScheduler, OCCPassRequest, PassRequest, OCCNoRequest, OCCRestart, Restart,
        OCCCommit, OCCResult, PushResult, OCCEndRound, Installs
<1>5. CASE NoCase
  BY <1>5 DEF NoCase
<1>6. ASSUME NEW w \in Workers, Worker(w)
      PROVE  /\ UNCHANGED <<storage, committedTxns>>
             /\ pc'[Main] = pc[Main] /\ cur'[Main] = cur[Main] /\ todo'[Main] = todo[Main]
             /\ pc[Main] = "apply" =>
                  /\ reads'[cur[Main]] = reads[cur[Main]] /\ writes'[cur[Main]] = writes[cur[Main]]
                  /\ occStart'[cur[Main]] = occStart[cur[Main]]
  BY <1>0, <1>6, OthersUntouched DEF Worker, Busy
<1> QED
  BY <1>1, <1>2, <1>3, <1>4, <1>5, <1>6 DEF Next, Scheduler

\* The frame of OnlyFirstCommitMissed.
LEMMA MissesFrame ==
  ASSUME TypeOK, PlaceInv, mode \in {"SERIAL", "OCC"}, CommittedFinal, [Next]_vars,
         NEW t \in Txns, NEW k \in Keys, NEW n \in 1 .. Len(committedTxns) + 1,
         reads'[t] = reads[t], occStart'[t] = occStart[t], MissesAtMostFirst(t, k, n)
  PROVE  MissesAtMostFirst(t, k, n)'
<1>1. n - 1 \in 0 .. Len(committedTxns) /\ Len(committedTxns) \in Nat
  BY PastStays
<1>2. CommitOrderValue(k, n)' = CommitOrderValue(k, n)
  BY <1>1, PastStays DEF CommitOrderValue
<1>3. mode' = mode
  BY LocationsStep
<1>4. occStart[t] \in Nat
  BY CommitTypes
<1>5. occStart[t] + 1 < n => committedTxns'[occStart[t] + 1] = committedTxns[occStart[t] + 1]
  BY <1>1, <1>4, PastStays
<1> QED
  BY <1>2, <1>3, <1>5 DEF MissesAtMostFirst

LEMMA CommittedStep ==
  ASSUME TypeOK, PlaceInv, mode \in {"SERIAL", "OCC"}, CommittedFinal, NextMissesAtMostFirst,
         OnlyFirstCommitMissed, [Next]_vars
  PROVE  CommittedFinal' /\ OnlyFirstCommitMissed'
<1>0. committedTxns \in Seq(Txns) /\ Main \in Threads /\ readset \in [Txns -> SUBSET Keys]
      /\ pc \in [Threads -> PcLabels]
  BY CommitTypes
<1>1. ASSUME NEW t \in Elements(committedTxns) PROVE t \in Txns /\ Final(t)'
  BY <1>0, FinalStays, ElementsType DEF CommittedFinal
<1>2. ASSUME NEW n \in 1 .. Len(committedTxns), NEW k \in readset[committedTxns[n]]
      PROVE  MissesAtMostFirst(committedTxns[n], k, n)'
  <2>1. PICK t \in Txns : t = committedTxns[n]
    BY <1>0
  <2>2. MissesAtMostFirst(t, k, n)
    BY <1>0, <1>2, <2>1 DEF OnlyFirstCommitMissed, MissesAtMostFirst
  <2>3. reads'[t] = reads[t] /\ occStart'[t] = occStart[t]
    BY <2>1, PastStays
  <2>4. k \in Keys /\ n \in 1 .. Len(committedTxns) + 1
    BY <1>0, <2>1
  <2>5. MissesAtMostFirst(t, k, n)'
    BY <2>2, <2>3, <2>4, MissesFrame
  <2>6. committedTxns'[n] = t
    BY <2>1, PastStays
  <2> QED
    BY <2>1, <2>5, <2>6 DEF MissesAtMostFirst
<1>3. CASE committedTxns' = committedTxns
  <2>1. CommittedFinal'
    BY <1>1, <1>3 DEF CommittedFinal
  <2>2. OnlyFirstCommitMissed'
    BY <1>0, <1>2, <1>3 DEF OnlyFirstCommitMissed, MissesAtMostFirst
  <2> QED
    BY <2>1, <2>2
<1>4. CASE Commit(Main, "result") /\ UNCHANGED <<poolVars, occVars>>
  <2>1. PICK t \in Txns : t = cur[Main]
    BY <1>4, CommitTypes DEF Commit, Busy
  <2>2. /\ committedTxns' = Append(committedTxns, t) /\ pc[Main] = "apply" /\ pc'[Main] = "result"
        /\ cur'[Main] = t /\ reads' = reads /\ occStart' = occStart
    BY <1>0, <1>4, <2>1 DEF Commit, Goto, occVars
  <2>3. Elements(committedTxns') = Elements(committedTxns) \cup {t}
    BY <1>0, <2>2, ElementsAppend
  <2>4. Final(t)'
    BY <1>0, <2>2 DEF Final
  <2>5. CommittedFinal'
    BY <1>1, <2>3, <2>4 DEF CommittedFinal
  <2>6. PICK m \in 1 .. Len(committedTxns) + 1 : m = Len(committedTxns) + 1
    BY <1>0
  <2>7. committedTxns'[m] = t /\ DOMAIN committedTxns' = 1 .. m
        /\ \A n \in 1 .. m : n = m \/ n \in 1 .. Len(committedTxns)
    BY <1>0, <2>2, <2>6
  <2>8. ASSUME NEW k \in readset[t] PROVE MissesAtMostFirst(t, k, m)'
    <3>1. MissesAtMostFirst(t, k, m)
      BY <2>1, <2>2, <2>6 DEF NextMissesAtMostFirst
    <3> QED
      BY <1>0, <2>2, <3>1, MissesFrame
  <2>9. \A n \in DOMAIN committedTxns' : \A k \in readset[committedTxns'[n]] :
            MissesAtMostFirst(committedTxns[n], k, n)'
    <3>1. ASSUME NEW n \in 1 .. m, NEW k \in readset[committedTxns'[n]]
          PROVE  MissesAtMostFirst(committedTxns[n], k, n)'
      <4>1. CASE n = m
        BY <2>7, <2>8, <3>1, <4>1 DEF MissesAtMostFirst
      <4>2. CASE n \in 1 .. Len(committedTxns)
        <5>1. committedTxns'[n] = committedTxns[n]
          BY <4>2, PastStays
        <5> QED
          BY <1>2, <3>1, <4>2, <5>1
      <4> QED
        BY <2>7, <4>1, <4>2
    <3> QED
      BY <2>7, <3>1
  <2>10. OnlyFirstCommitMissed'
    BY <2>9 DEF OnlyFirstCommitMissed, MissesAtMostFirst
  <2> QED
    BY <2>5, <2>10
<1> QED
  BY <1>3, <1>4, CommittedEffect

\* While the scheduler installs writes, nobody's writes change, and nobody starts.
LEMMA ApplyingKeepsWrites ==
  ASSUME TypeOK, PlaceInv, mode \in {"SERIAL", "OCC"}, [Next]_vars,
         StartApply(Main) \/ ApplyWrite(Main) \/ Commit(Main, "result")
  PROVE  UNCHANGED <<writes, occStart>>
<1> USE DEF vars, coreVars, clientVars, threadVars, dataVars, clientSide, poolVars, occVars, Goto
<1>0. /\ Main \in Threads /\ Main \notin Workers /\ pc \in [Threads -> PcLabels]
      /\ todo \in [Threads -> SUBSET (Keys \cup Txns)]
  BY CommitTypes
<1>1. pc[Main] \in {"decide", "apply"} /\ threadVars' # threadVars
  <2>1. CASE StartApply(Main) \/ Commit(Main, "result")
    BY <1>0, <2>1 DEF StartApply, Commit
  <2>2. CASE ApplyWrite(Main)
    <3>1. PICK k \in Keys : k \in todo[Main] /\ todo' = [todo EXCEPT ![Main] = todo[Main] \ {k}]
      BY <2>2 DEF ApplyWrite, NextKey
    <3> QED
      BY <1>0, <2>2, <3>1 DEF ApplyWrite
  <2> QED
    BY <2>1, <2>2
<1>2. ASSUME NEW t \in Txns, Submit(t) PROVE UNCHANGED <<writes, occStart>>
  BY <1>2 DEF Submit, NewTxnRequest
<1>3. CASE TakeResult \/ UNCHANGED vars
  BY <1>3 DEF TakeResult, GetTxnResult
<1>4. CASE mode = "SERIAL" /\ SerialScheduler /\ UNCHANGED <<occVars, mvccVars>>
  BY <1>1, <1>4 DEF SerialScheduler, SerialPop, SerialExecute, ReadRecord, EndReadset, Run, SerialDecide,
        SerialResult, PushResult
<1>5. CASE mode = "OCC" /\ OCCScheduler
  BY <1>1, <1>5 DEF OCCScheduler, OCCPassRequest, PassRequest, OCCNoRequest, OCCValidate, OCCRestart,
        OCCCommit, OCCResult, PushResult, OCCEndRound
<1>6. CASE NoCase
  BY <1>6 DEF NoCase
<1>7. ASSUME NEW w \in Workers, Worker(w) PROVE UNCHANGED <<writes, occStart>>
  <2>1. pc'[Main] = pc[Main] /\ todo'[Main] = todo[Main] /\ UNCHANGED <<storage, committedTxns>>
    BY <1>0, <1>7, OthersUntouched DEF Worker
  <2>2. CASE StartApply(Main) \/ Commit(Main, "result")
    BY <1>0, <2>1, <2>2 DEF StartApply, Commit
  <2>3. CASE ApplyWrite(Main)
    <3>1. PICK k \in Keys : k \in todo[Main] /\ todo' = [todo EXCEPT ![Main] = todo[Main] \ {k}]
      BY <2>3 DEF ApplyWrite, NextKey
    <3> QED
      BY <1>0, <2>1, <3>1
  <2> QED
    BY <2>2, <2>3
<1> QED
  BY <1>2, <1>3, <1>4, <1>5, <1>6, <1>7 DEF Next, Scheduler

LEMMA StorageStep ==
  ASSUME TypeOK, PlaceInv, CommitInv, mode \in {"SERIAL", "OCC"}, [Next]_vars
  PROVE  StorageExact'
<1> DEFINE L == Len(committedTxns)
<1> USE DEF clientVars, threadVars, dataVars, clientSide, poolVars, occVars, Goto
<1>0. /\ StorageExact /\ CommittedFinal /\ DecidedWrites /\ NextMissesAtMostFirst
      /\ Main \in Threads /\ pc \in [Threads -> PcLabels] /\ cur \in [Threads -> Values]
      /\ todo \in [Threads -> SUBSET (Keys \cup Txns)] /\ committedTxns \in Seq(Txns)
      /\ storage \in [Keys -> Values]
      /\ Busy(Main) => cur[Main] \in Txns
  BY CommitTypes DEF CommitInv
<1>1. ASSUME NEW k \in Keys PROVE LastWriter(k, L)' = LastWriter(k, L) \/ committedTxns' # committedTxns
  <2>1. PICK n \in 0 .. L : n = L
    BY <1>0
  <2>2. LastWriter(k, n)' = LastWriter(k, n)
    BY <1>0, PastStays
  <2> QED
    BY <2>1, <2>2, LastWriterIsLastOf
<1>2. SUFFICES ASSUME NEW k \in Keys
               PROVE  storage'[k] = IF Installed(k)' THEN cur'[Main] ELSE LastWriter(k, L)'
  BY DEF StorageExact
<1>3. storage[k] = IF Installed(k) THEN cur[Main] ELSE LastWriter(k, L)
  BY <1>0 DEF StorageExact
<1>4. CASE ~Installs
  <2>1. Installed(k)' <=> Installed(k)
    BY <1>4, QuietForCommits DEF Installed
  <2>2. Installed(k) => cur'[Main] = cur[Main]
    BY <1>4, QuietForCommits DEF Installed
  <2> QED
    BY <1>1, <1>3, <1>4, <2>1, <2>2, QuietForCommits
<1>5. CASE mode = "OCC" /\ OCCValidate
  <2>1. /\ pc[Main] = "idle" /\ UNCHANGED <<storage, committedTxns, writes>>
        /\ \/ pc'[Main] = "invalid"
           \/ pc'[Main] = "apply" /\ todo'[Main] = writes[cur'[Main]]
    BY <1>0, <1>5 DEF OCCValidate, Conclude
  <2>2. ~Installed(k) /\ ~Installed(k)'
    BY <2>1 DEF Installed
  <2> QED
    BY <1>1, <1>3, <2>1, <2>2
<1>6. CASE StartApply(Main)
  <2>1. /\ pc[Main] = "decide" /\ UNCHANGED <<storage, committedTxns>> /\ cur' = cur
        /\ pc'[Main] = "apply" /\ todo'[Main] = writeset[cur[Main]]
        /\ writes[cur[Main]] = writeset[cur[Main]]
    BY <1>0, <1>6 DEF StartApply, DecidedWrites
  <2>2. writes' = writes
    BY <1>6, ApplyingKeepsWrites
  <2>3. ~Installed(k) /\ ~Installed(k)'
    BY <2>1, <2>2 DEF Installed
  <2> QED
    BY <1>1, <1>3, <2>1, <2>3
<1>7. CASE ApplyWrite(Main)
  <2>1. PICK j \in Keys : /\ j \in todo[Main] /\ storage' = [storage EXCEPT ![j] = cur[Main]]
                          /\ todo' = [todo EXCEPT ![Main] = todo[Main] \ {j}]
    BY <1>7 DEF ApplyWrite, NextKey
  <2>2. pc[Main] = "apply" /\ UNCHANGED <<pc, cur, committedTxns>>
    BY <1>7 DEF ApplyWrite
  <2>3. writes' = writes
    BY <1>7, ApplyingKeepsWrites
  <2>4. j \in writes[cur[Main]]
    BY <1>0, <2>1, <2>2 DEF NextMissesAtMostFirst
  <2>5. Installed(k)' <=> Installed(k) \/ k = j
    BY <1>0, <2>1, <2>2, <2>3, <2>4 DEF Installed
  <2> QED
    BY <1>0, <1>1, <1>3, <2>1, <2>2, <2>5
<1>8. CASE Commit(Main, "result")
  <2>1. PICK n \in Nat \ {0} : n = L + 1
    BY <1>0
  <2>2. /\ pc[Main] = "apply" /\ todo[Main] = {} /\ pc'[Main] = "result" /\ storage' = storage
        /\ committedTxns' = Append(committedTxns, cur[Main]) /\ cur[Main] \in Txns
    BY <1>0, <1>8 DEF Commit, Busy
  <2>3. writes' = writes
    BY <1>8, ApplyingKeepsWrites
  <2>4. Len(committedTxns') = n /\ committedTxns'[n] = cur[Main]
    BY <1>0, <2>1, <2>2
  <2>5. ~Installed(k)' /\ (Installed(k) <=> k \in writes[cur[Main]])
    BY <2>2 DEF Installed
  <2>6. LastWriter(k, L)' = LastWriter(k, n)'
    BY <2>4, LastWriterIsLastOf
  <2>7. CASE k \in writes[cur[Main]]
    <3>1. k \in writes'[committedTxns'[n]]
      BY <2>3, <2>4, <2>7
    <3>2. LastWriter(k, n)' = committedTxns'[n]
      BY <3>1, LastOfHit, LastWriterIsLastOf
    <3> QED
      BY <1>3, <2>2, <2>4, <2>5, <2>6, <2>7, <3>2
  <2>8. CASE k \notin writes[cur[Main]]
    <3>1. PICK m \in 0 .. L : m = L
      BY <1>0
    <3>2. m \in Nat /\ n = m + 1 /\ m <= n
      BY <1>0, <2>1, <3>1
    <3>3. \A i \in (m + 1) .. n : k \notin writes'[committedTxns'[i]]
      BY <2>3, <2>4, <2>8, <3>2
    <3>4. LastWriter(k, n)' = LastWriter(k, m)'
      BY <2>1, <3>2, <3>3, LastOfSame, LastWriterIsLastOf
    <3>5. LastWriter(k, m)' = LastWriter(k, m)
      BY <1>0, <3>1, PastStays
    <3> QED
      BY <1>3, <2>2, <2>5, <2>6, <2>8, <3>1, <3>4, <3>5
  <2> QED
    BY <2>7, <2>8
<1> QED
  BY <1>4, <1>5, <1>6, <1>7, <1>8 DEF Installs

\* Validation compares with all that committed since the start but the first.
LEMMA ValidMissesAtMostFirst ==
  ASSUME TypeOK, PlaceInv, CommitInv, mode = "OCC", pc[Main] = "idle",
         NEW t \in Elements(completedTxns), ~Overlaps(t, CommittedSince(t)), NEW k \in readset[t]
  PROVE  MissesAtMostFirst(t, k, Len(committedTxns) + 1)
<1>0. /\ t \in Txns /\ k \in Keys /\ committedTxns \in Seq(Txns) /\ occStart[t] \in Nat
      /\ occStart[t] <= Len(committedTxns) /\ ReadSinceStart /\ WritesInside
  BY CommitTypes, ElementsType DEF CommitInv, StartsInside, PlaceInv
<1>1. PICK L \in Nat : L = Len(committedTxns)
  BY <1>0
<1>2. PICK m \in occStart[t] .. L : reads[t][k] = LastWriter(k, m)
  BY <1>0, <1>1 DEF ReadSinceStart, HasRead, Installed
<1>3. \A i \in occStart[t] + 2 .. L : k \notin writes[committedTxns[i]]
  <2>1. ASSUME NEW i \in occStart[t] + 2 .. L, k \in writes[committedTxns[i]] PROVE FALSE
    <3>1. committedTxns[i] \in Txns /\ committedTxns[i] \in CommittedSince(t)
      BY <1>0, <1>1 DEF CommittedSince
    <3>2. k \in writeset[committedTxns[i]]
      BY <1>0, <2>1, <3>1 DEF WritesInside
    <3> QED
      BY <3>1, <3>2 DEF Overlaps
  <2> QED
    BY <2>1
<1>4. CommitOrderValue(k, Len(committedTxns) + 1) = LastWriter(k, L)
  BY <1>1 DEF CommitOrderValue
<1>5. m \in Nat /\ m <= L
  BY <1>0, <1>2
<1>6. CASE \A i \in (m + 1) .. L : k \notin writes[committedTxns[i]]
  <2>1. LastWriter(k, L) = LastWriter(k, m)
    BY <1>5, <1>6, LastOfSame, LastWriterIsLastOf
  <2> QED
    BY <1>2, <1>4, <2>1 DEF MissesAtMostFirst
<1>7. CASE \E i \in (m + 1) .. L : k \in writes[committedTxns[i]]
  <2>1. PICK f \in Nat \ {0} : f = occStart[t] + 1
    BY <1>0
  <2>2. f <= L /\ k \in writes[committedTxns[f]]
    BY <1>0, <1>2, <1>3, <1>7, <2>1
  <2>3. LastWriter(k, f) = committedTxns[f]
    BY <2>2, LastOfHit, LastWriterIsLastOf
  <2>4. LastWriter(k, L) = LastWriter(k, f)
    <3>1. f \in Nat /\ f <= L /\ \A i \in (f + 1) .. L : k \notin writes[committedTxns[i]]
      BY <1>0, <1>3, <2>1, <2>2
    <3> QED
      BY <3>1, LastOfSame, LastWriterIsLastOf
  <2> QED
    BY <1>1, <1>4, <2>1, <2>2, <2>3, <2>4 DEF MissesAtMostFirst
<1> QED
  BY <1>6, <1>7

LEMMA NextStep ==
  ASSUME TypeOK, PlaceInv, CommitInv, mode \in {"SERIAL", "OCC"}, [Next]_vars
  PROVE  NextMissesAtMostFirst'
<1> USE DEF clientVars, threadVars, dataVars, clientSide, poolVars, occVars, Goto
<1>0. /\ CommittedFinal /\ DecidedWrites /\ NextMissesAtMostFirst
      /\ Main \in Threads /\ pc \in [Threads -> PcLabels] /\ cur \in [Threads -> Values]
      /\ todo \in [Threads -> SUBSET (Keys \cup Txns)] /\ committedTxns \in Seq(Txns)
      /\ readset \in [Txns -> SUBSET Keys] /\ completedTxns \in Seq(Txns)
      /\ Busy(Main) => cur[Main] \in Txns
  BY CommitTypes DEF CommitInv
<1> SUFFICES ASSUME pc'[Main] = "apply"
             PROVE  /\ todo'[Main] \subseteq writes'[cur'[Main]]
                    /\ \A k \in readset[cur'[Main]] :
                          MissesAtMostFirst(cur[Main], k, Len(committedTxns) + 1)'
  BY DEF NextMissesAtMostFirst
<1>1. PICK n \in 1 .. Len(committedTxns) + 1 : n = Len(committedTxns) + 1
  BY <1>0
\* While nothing commits, the next to commit is the n-th.
<1>2. ASSUME committedTxns' = committedTxns, NEW t \in Txns, t = cur'[Main],
             \A k \in readset[t] : MissesAtMostFirst(t, k, n)'
      PROVE  \A k \in readset[cur'[Main]] : MissesAtMostFirst(cur[Main], k, Len(committedTxns) + 1)'
  <2>2. n = Len(committedTxns') + 1
    BY <1>1, <1>2
  <2> QED
    BY <1>2, <2>2 DEF MissesAtMostFirst, CommitOrderValue
<1>3. CASE ~Installs
  <2>1. /\ committedTxns' = committedTxns /\ pc[Main] = "apply" /\ cur'[Main] = cur[Main]
        /\ todo'[Main] = todo[Main] /\ writes'[cur[Main]] = writes[cur[Main]]
        /\ reads'[cur[Main]] = reads[cur[Main]] /\ occStart'[cur[Main]] = occStart[cur[Main]]
    BY <1>3, QuietForCommits
  <2>2. PICK t \in Txns : t = cur[Main]
    BY <1>0, <2>1 DEF Busy
  <2>3. ASSUME NEW k \in readset[t] PROVE MissesAtMostFirst(t, k, n)'
    <3>1. k \in Keys /\ MissesAtMostFirst(t, k, n)
      BY <1>0, <1>1, <2>1, <2>2 DEF NextMissesAtMostFirst
    <3> QED
      BY <1>0, <2>1, <2>2, <3>1, MissesFrame
  <2> QED
    BY <1>0, <1>2, <2>1, <2>2, <2>3 DEF NextMissesAtMostFirst
<1>4. CASE mode = "OCC" /\ OCCValidate
  <2>1. PICK t \in Txns : t = Head(completedTxns) /\ t \in Elements(completedTxns)
    BY <1>0, <1>4, ElementsTail DEF OCCValidate
  <2>2. /\ pc[Main] = "idle" /\ cur'[Main] = t /\ ~Overlaps(t, CommittedSince(t))
        /\ todo'[Main] = writes[t] /\ UNCHANGED <<writes, reads, occStart, committedTxns>>
    BY <1>0, <1>4, <2>1 DEF OCCValidate, Conclude
  <2>3. ASSUME NEW k \in readset[t] PROVE MissesAtMostFirst(t, k, n)'
    <3>1. k \in Keys /\ MissesAtMostFirst(t, k, n)
      BY <1>0, <1>1, <1>4, <2>1, <2>2, ValidMissesAtMostFirst
    <3> QED
      BY <1>0, <2>2, <3>1, MissesFrame
  <2> QED
    BY <1>2, <2>2, <2>3
<1>5. CASE StartApply(Main)
  <2>1. /\ pc[Main] = "decide" /\ UNCHANGED <<reads, committedTxns>> /\ cur' = cur
        /\ todo'[Main] = writes[cur[Main]] /\ writes' = writes
    BY <1>0, <1>5, ApplyingKeepsWrites DEF StartApply, DecidedWrites
  <2>2. mode = "SERIAL"
    BY <2>1 DEF PlaceInv, LocationsOfMode
  <2>3. PICK t \in Txns : t = cur[Main]
    BY <1>0, <2>1 DEF Busy
  <2>4. ASSUME NEW k \in readset[t] PROVE MissesAtMostFirst(t, k, n)'
    <3>1. k \in Keys /\ reads[t][k] = LastWriter(k, Len(committedTxns))
      BY <1>0, <2>1, <2>2, <2>3 DEF CommitInv, SerialReadsCurrent
    <3>2. PICK m \in 0 .. Len(committedTxns) : m = Len(committedTxns) /\ n - 1 = m
      BY <1>0, <1>1
    <3>3. reads[t][k] = LastWriter(k, m) /\ LastWriter(k, m)' = LastWriter(k, m)
      BY <1>0, <3>1, <3>2, PastStays
    <3>4. CommitOrderValue(k, n)' = LastWriter(k, m)'
      BY <3>2 DEF CommitOrderValue
    <3> QED
      BY <2>1, <3>3, <3>4 DEF MissesAtMostFirst
  <2> QED
    BY <1>2, <2>1, <2>3, <2>4
<1>6. CASE ApplyWrite(Main)
  <2>1. PICK j \in Keys : todo' = [todo EXCEPT ![Main] = todo[Main] \ {j}]
    BY <1>6 DEF ApplyWrite, NextKey
  <2>2. pc[Main] = "apply" /\ UNCHANGED <<cur, reads, committedTxns, writes, occStart>>
    BY <1>6, ApplyingKeepsWrites DEF ApplyWrite
  <2>3. PICK t \in Txns : t = cur[Main]
    BY <1>0, <2>2 DEF Busy
  <2>4. ASSUME NEW k \in readset[t] PROVE MissesAtMostFirst(t, k, n)'
    <3>1. k \in Keys /\ MissesAtMostFirst(t, k, n)
      BY <1>0, <1>1, <2>2, <2>3 DEF NextMissesAtMostFirst
    <3> QED
      BY <1>0, <2>2, <3>1, MissesFrame
  <2>5. todo'[Main] \subseteq writes'[cur'[Main]]
    BY <1>0, <2>1, <2>2 DEF NextMissesAtMostFirst
  <2> QED
    BY <1>2, <2>2, <2>3, <2>4, <2>5
<1>7. CASE Commit(Main, "result")
  BY <1>0, <1>7 DEF Commit
<1> QED
  BY <1>3, <1>4, <1>5, <1>6, <1>7 DEF Installs

\* SERIAL: what the scheduler has read and decided.
LEMMA SerialReadsStep ==
  ASSUME TypeOK, PlaceInv, CommitInv, mode = "SERIAL", [Next]_vars
  PROVE  DecidedWrites' /\ SerialReadsCurrent'
<1> DEFINE Read(k) == \/ pc[Main] = "readset" /\ k \in readset[cur[Main]] \ todo[Main]
                      \/ pc[Main] \in {"writeset", "decide"} /\ k \in readset[cur[Main]]
           Goal == DecidedWrites' /\ SerialReadsCurrent'
<1> USE DEF vars, coreVars, clientVars, threadVars, dataVars, clientSide, poolVars, occVars, Goto
<1>0. /\ CommittedFinal /\ DecidedWrites /\ StorageExact /\ SerialReadsCurrent
      /\ Main \in Threads /\ pc \in [Threads -> PcLabels] /\ cur \in [Threads -> Values]
      /\ todo \in [Threads -> SUBSET (Keys \cup Txns)] /\ committedTxns \in Seq(Txns)
      /\ storage \in [Keys -> Values] /\ reads \in [Txns -> [Keys -> Values \cup {Unread}]]
      /\ writes \in [Txns -> SUBSET Keys]
      /\ Busy(Main) => cur[Main] \in Txns
  BY CommitTypes DEF CommitInv
<1>1. PICK n \in 0 .. Len(committedTxns) : n = Len(committedTxns)
  BY <1>0
<1>2. ASSUME committedTxns' = committedTxns, DecidedWrites',
             \A k \in Keys : Read(k)' => \/ Read(k) /\ reads'[cur'[Main]][k] = reads[cur[Main]][k]
                                         \/ pc[Main] # "apply" /\ reads'[cur'[Main]][k] = storage[k]
      PROVE  Goal
  <2>1. ASSUME NEW k \in Keys, Read(k)' PROVE reads'[cur'[Main]][k] = LastWriter(k, n)'
    <3>1. reads'[cur'[Main]][k] = LastWriter(k, n)
      BY <1>0, <1>1, <1>2, <2>1 DEF SerialReadsCurrent, StorageExact, Installed
    <3> QED
      BY <1>0, <3>1, PastStays
  <2>2. ASSUME NEW k \in Keys, Read(k)' PROVE reads'[cur'[Main]][k] = LastWriter(k, Len(committedTxns))'
    BY <1>1, <1>2, <2>1, <2>2, LastWriterIsLastOf
  <2>3. SerialReadsCurrent'
    BY <2>2 DEF SerialReadsCurrent
  <2> QED
    BY <1>2, <2>3
<1>3. ASSUME UNCHANGED <<committedTxns, pc, cur, todo, reads, writes, status>> PROVE Goal
  <2>1. DecidedWrites'
    BY <1>0, <1>3 DEF DecidedWrites
  <2> QED
    BY <1>2, <1>3, <2>1
\* The scheduler is not between its first read and its decision.
<1>4. ASSUME pc'[Main] \in {"idle", "apply", "result"} PROVE Goal
  BY <1>4 DEF DecidedWrites, SerialReadsCurrent
<1>5. ASSUME NEW t \in Txns, Submit(t) PROVE Goal
  BY <1>3, <1>5 DEF Submit, NewTxnRequest
<1>6. CASE TakeResult \/ UNCHANGED vars
  <2>1. UNCHANGED <<committedTxns, pc, cur, todo, reads, writes, status>>
    BY <1>6 DEF TakeResult, GetTxnResult
  <2> QED
    BY <1>3, <2>1
<1>7. CASE SerialScheduler
  <2>1. CASE SerialPop
    <3>1. /\ UNCHANGED committedTxns /\ pc'[Main] = "readset" /\ todo'[Main] = readset[cur'[Main]]
      BY <1>0, <2>1 DEF SerialPop, StartExecute
    <3>2. DecidedWrites' /\ \A k \in Keys : ~Read(k)'
      BY <3>1 DEF DecidedWrites
    <3> QED
      BY <1>2, <3>1, <3>2
  <2>2. CASE ReadRecord(Main)
    <3>1. PICK j \in Keys : /\ reads' = [reads EXCEPT ![cur[Main]][j] = storage[j]]
                            /\ todo' = [todo EXCEPT ![Main] = todo[Main] \ {j}]
      BY <2>2 DEF ReadRecord
    <3>2. pc[Main] \in {"readset", "writeset"} /\ UNCHANGED <<committedTxns, pc, cur>>
      BY <2>2 DEF ReadRecord
    <3>3. DecidedWrites'
      BY <3>2 DEF DecidedWrites
    <3>4. cur[Main] \in Txns
      BY <1>0, <3>2 DEF Busy
    <3>5. \A k \in Keys : Read(k)' =>
             \/ Read(k) /\ reads'[cur'[Main]][k] = reads[cur[Main]][k]
             \/ reads'[cur'[Main]][k] = storage[k]
      BY <1>0, <3>1, <3>2, <3>4
    <3> QED
      BY <1>2, <3>2, <3>3, <3>5
  <2>3. CASE EndReadset(Main)
    <3>1. /\ pc[Main] = "readset" /\ todo[Main] = {} /\ pc'[Main] = "writeset"
          /\ UNCHANGED <<committedTxns, cur, reads>>
      BY <1>0, <2>3 DEF EndReadset
    <3>2. DecidedWrites'
      BY <3>1 DEF DecidedWrites
    <3>3. \A k \in Keys : Read(k)' => Read(k) /\ reads'[cur'[Main]][k] = reads[cur[Main]][k]
      BY <3>1
    <3> QED
      BY <1>2, <3>1, <3>2, <3>3
  <2>4. CASE Run(Main, "decide") /\ Written(cur[Main])
    <3>1. /\ pc[Main] = "writeset" /\ pc'[Main] = "decide" /\ UNCHANGED <<committedTxns, cur, reads>>
          /\ cur[Main] \in Txns
      BY <1>0, <2>4 DEF Run, Busy
    <3>2. DecidedWrites'
      BY <1>0, <2>4, <3>1 DEF DecidedWrites, Written
    <3>3. \A k \in Keys : Read(k)' => Read(k) /\ reads'[cur'[Main]][k] = reads[cur[Main]][k]
      BY <3>1
    <3> QED
      BY <1>2, <3>1, <3>2, <3>3
  <2>5. CASE SerialDecide \/ SerialResult
    <3>1. pc'[Main] \in {"idle", "apply", "result"}
      BY <1>0, <2>5 DEF SerialDecide, StartApply, ApplyWrite, Commit, Abort, SerialResult, PushResult
    <3> QED
      BY <1>4, <3>1
  <2> QED
    BY <1>7, <2>1, <2>2, <2>3, <2>4, <2>5 DEF SerialScheduler, SerialExecute
<1> QED
  BY <1>5, <1>6, <1>7 DEF Next, Scheduler, Worker, NoCase

\* Nobody starts after the newest commit.
LEMMA StartsStep ==
  ASSUME TypeOK, PlaceInv, CommitInv, mode \in {"SERIAL", "OCC"}, [Next]_vars
  PROVE  StartsInside'
<1> USE DEF vars, coreVars, clientVars, dataVars, clientSide, poolVars, occVars
<1>0. /\ StartsInside /\ CommittedFinal /\ occStart \in [Txns -> Nat] /\ committedTxns \in Seq(Txns)
  BY CommitTypes DEF CommitInv
<1>1. Len(committedTxns) \in Nat /\ Len(committedTxns') \in Nat /\ Len(committedTxns) <= Len(committedTxns')
  BY <1>0, PastStays
<1>2. ASSUME occStart' = occStart PROVE StartsInside'
  BY <1>0, <1>1, <1>2 DEF StartsInside
<1>3. ASSUME NEW w \in Workers, OCCBegin(w) PROVE StartsInside'
  BY <1>0, <1>3 DEF OCCBegin, TakeTask, StartsInside
<1>4. ASSUME NEW t \in Txns, Submit(t) PROVE occStart' = occStart
  BY <1>4 DEF Submit
<1>5. CASE TakeResult \/ UNCHANGED vars
  BY <1>2, <1>5 DEF TakeResult
<1>6. CASE Scheduler
  <2>1. occStart' = occStart
    BY <1>6 DEF Scheduler, OCCScheduler, OCCPassRequest, OCCNoRequest, OCCValidate, OCCRestart,
          OCCCommit, OCCResult, OCCEndRound, NoCase
  <2> QED
    BY <1>2, <2>1
<1>7. ASSUME NEW w \in Workers, Worker(w) PROVE StartsInside'
  BY <1>2, <1>3, <1>7 DEF Worker, OCCWorker, OCCRead, OCCRun
<1> QED
  BY <1>2, <1>4, <1>5, <1>6, <1>7 DEF Next

\* OCC: where a finished read may come from: it was there before, or a worker
\* has just made it.
LEMMA ReadsEffect ==
  ASSUME TypeOK, PlaceInv, mode = "OCC", [Next]_vars, NEW t \in Txns, NEW k \in readset[t],
         HasRead(t, k)'
  PROVE  \/ HasRead(t, k) /\ reads'[t][k] = reads[t][k] /\ occStart'[t] = occStart[t]
         \/ /\ reads'[t][k] = storage[k] /\ occStart' = occStart
            /\ \E w \in Workers : OCCWorker(w)
<1> DEFINE Goal == \/ HasRead(t, k) /\ reads'[t][k] = reads[t][k] /\ occStart'[t] = occStart[t]
                   \/ /\ reads'[t][k] = storage[k] /\ occStart' = occStart
                      /\ \E w \in Workers : OCCWorker(w)
<1> USE DEF vars, coreVars, clientVars, threadVars, dataVars, clientSide, poolVars, occVars, Goto
<1>0. /\ Main \in Threads /\ Workers \subseteq Threads /\ Main \notin Workers
      /\ pc \in [Threads -> PcLabels] /\ cur \in [Threads -> Values]
      /\ todo \in [Threads -> SUBSET (Keys \cup Txns)] /\ completedTxns \in Seq(Txns)
      /\ reads \in [Txns -> [Keys -> Values \cup {Unread}]] /\ occStart \in [Txns -> Nat]
      /\ \A w \in Threads : Busy(w) => cur[w] \in Txns /\ Running(cur[w])
      /\ \A v, w \in Threads : Busy(v) /\ Busy(w) /\ cur[v] = cur[w] => v = w
      /\ k \in Keys
  BY CommitTypes DEF PlaceInv, OneThreadEach
\* The workers stand still and nothing completes.
<1>1. ASSUME \A w \in Workers : pc'[w] = pc[w] /\ cur'[w] = cur[w] /\ todo'[w] = todo[w],
             Elements(completedTxns') \subseteq Elements(completedTxns)
      PROVE  HasRead(t, k)
  BY <1>1 DEF HasRead
<1>2. ASSUME NEW h \in Txns, Submit(h) PROVE Goal
  BY <1>1, <1>2 DEF Submit, NewTxnRequest
<1>3. CASE TakeResult \/ UNCHANGED vars
  <2>1. UNCHANGED <<pc, cur, todo, completedTxns, reads, occStart>>
    BY <1>3 DEF TakeResult, GetTxnResult
  <2> QED
    BY <1>1, <2>1
<1>4. CASE OCCPassRequest \/ OCCNoRequest \/ OCCCommit \/ OCCResult \/ OCCEndRound
  <2>1. /\ UNCHANGED <<completedTxns, reads, occStart>>
        /\ \A w \in Workers : pc'[w] = pc[w] /\ cur'[w] = cur[w] /\ todo'[w] = todo[w]
    BY <1>0, <1>4 DEF OCCPassRequest, PassRequest, OCCNoRequest, OCCCommit, ApplyWrite, Commit,
          OCCResult, PushResult, OCCEndRound
  <2> QED
    BY <1>1, <2>1
<1>5. CASE OCCValidate
  <2>1. /\ completedTxns # <<>> /\ completedTxns' = Tail(completedTxns) /\ UNCHANGED <<reads, occStart>>
        /\ \A w \in Workers : pc'[w] = pc[w] /\ cur'[w] = cur[w] /\ todo'[w] = todo[w]
    BY <1>0, <1>5 DEF OCCValidate, Conclude
  <2>2. Elements(completedTxns') \subseteq Elements(completedTxns)
    BY <1>0, <2>1, ElementsTail
  <2> QED
    BY <1>1, <2>1, <2>2
<1>6. CASE OCCRestart
  <2>1. /\ pc[Main] = "invalid" /\ UNCHANGED <<completedTxns, occStart>>
        /\ reads' = [reads EXCEPT ![cur[Main]] = [j \in Keys |-> Unread]]
        /\ \A w \in Workers : pc'[w] = pc[w] /\ cur'[w] = cur[w] /\ todo'[w] = todo[w]
    BY <1>0, <1>6 DEF OCCRestart, Restart
  <2>2. HasRead(t, k)
    BY <1>1, <2>1
  <2>3. Busy(Main) /\ cur[Main] \in Txns /\ Running(cur[Main])
    BY <1>0, <2>1 DEF Busy
  <2>4. t # cur[Main]
    <3>1. CASE t \in Elements(completedTxns)
      <4>1. Completed(t)
        BY <3>1 DEF Completed
      <4> QED
        BY <2>3, <4>1, Elsewhere DEF PlaceInv
    <3>2. CASE \E w \in Workers : cur[w] = t /\ pc[w] \in {"readset", "writeset"}
      <4>1. PICK w \in Workers : cur[w] = t /\ Busy(w)
        BY <3>2 DEF Busy
      <4> QED
        BY <1>0, <2>3, <4>1
    <3> QED
      BY <2>2, <3>1, <3>2 DEF HasRead
  <2> QED
    BY <1>0, <2>1, <2>2, <2>4
<1>7. ASSUME NEW w \in Workers, OCCBegin(w) PROVE Goal
  <2>1. PICK h \in Txns : /\ TakeTask(w, h) /\ StartExecute(w, h)
                          /\ occStart' = [occStart EXCEPT ![h] = Len(committedTxns)]
    BY <1>7 DEF OCCBegin
  <2>2. /\ UNCHANGED <<completedTxns, reads>> /\ pc'[w] = "readset" /\ cur'[w] = h
        /\ todo'[w] = readset[h] /\ w \in Threads
        /\ \A v \in Workers \ {w} : pc'[v] = pc[v] /\ cur'[v] = cur[v] /\ todo'[v] = todo[v]
    BY <1>0, <2>1 DEF TakeTask, StartExecute
  <2>3. Tasked(h)
    <3>1. tasks[w] \in Seq(Txns)
      BY DEF TypeOK, PoolTypeOK
    <3> QED
      BY <2>1, <3>1, ElementsTail DEF TakeTask, Tasked
  <2>4. CASE t = h
    <3>1. t \notin Elements(completedTxns)
      BY <2>3, <2>4, Elsewhere DEF PlaceInv, Completed
    <3>2. \A v \in Workers \ {w} : cur[v] = t => pc[v] \notin {"readset", "writeset"}
      <4>1. ~Running(t)
        BY <2>3, <2>4, Elsewhere DEF PlaceInv
      <4> QED
        BY <1>0, <4>1 DEF Running, Busy
    <3> QED
      BY <2>2, <2>4, <3>1, <3>2 DEF HasRead
  <2>5. CASE t # h
    <3>1. HasRead(t, k)
      BY <2>2, <2>5 DEF HasRead
    <3> QED
      BY <1>0, <2>1, <2>2, <2>5, <3>1
  <2> QED
    BY <2>4, <2>5
<1>8. ASSUME NEW w \in Workers, OCCRead(w) PROVE Goal
  <2>1. CASE ReadRecord(w)
    <3>1. PICK j \in Keys : /\ reads' = [reads EXCEPT ![cur[w]][j] = storage[j]]
                            /\ todo' = [todo EXCEPT ![w] = todo[w] \ {j}]
      BY <2>1 DEF ReadRecord
    <3>2. /\ pc[w] \in {"readset", "writeset"} /\ UNCHANGED <<completedTxns, pc, cur, occStart>>
          /\ cur[w] \in Txns /\ w \in Threads
      BY <1>0, <1>8, <2>1 DEF OCCRead, ReadRecord, Busy
    <3>3. CASE t = cur[w] /\ k = j
      <4>1. reads'[t][k] = storage[k]
        BY <1>0, <3>1, <3>2, <3>3
      <4> QED
        BY <1>8, <3>2, <4>1 DEF OCCWorker
    <3>4. CASE ~(t = cur[w] /\ k = j)
      <4>1. HasRead(t, k)
        BY <1>0, <3>1, <3>2, <3>4 DEF HasRead
      <4> QED
        BY <1>0, <3>1, <3>2, <3>4, <4>1
    <3> QED
      BY <3>3, <3>4
  <2>2. CASE EndReadset(w)
    <3>1. /\ pc[w] = "readset" /\ todo[w] = {} /\ UNCHANGED <<completedTxns, cur, reads, occStart>>
          /\ \A v \in Workers \ {w} : pc'[v] = pc[v] /\ todo'[v] = todo[v]
      BY <1>0, <1>8, <2>2 DEF OCCRead, EndReadset
    <3>2. HasRead(t, k)
      BY <3>1 DEF HasRead
    <3> QED
      BY <3>1, <3>2
  <2> QED
    BY <1>8, <2>1, <2>2 DEF OCCRead
<1>9. ASSUME NEW w \in Workers, OCCRun(w) PROVE Goal
  <2>1. /\ pc[w] = "writeset" /\ pc'[w] = "idle" /\ UNCHANGED <<cur, todo, reads, occStart>>
        /\ completedTxns' = Append(completedTxns, cur[w]) /\ cur[w] \in Txns
        /\ \A v \in Workers \ {w} : pc'[v] = pc[v]
    BY <1>0, <1>9 DEF OCCRun, Run, Busy
  <2>2. Elements(completedTxns') = Elements(completedTxns) \cup {cur[w]}
    BY <1>0, <2>1, ElementsAppend
  <2>3. HasRead(t, k)
    BY <2>1, <2>2 DEF HasRead
  <2> QED
    BY <2>1, <2>3
<1> QED
  BY <1>2, <1>3, <1>4, <1>5, <1>6, <1>7, <1>8, <1>9
     DEF Next, Scheduler, NoCase, OCCScheduler, Worker, OCCWorker

\* The read of a transaction that has not been validated was current at some
\* time since the transaction started, or is of what is being installed.
LEMMA ReadSinceStep ==
  ASSUME TypeOK, PlaceInv, CommitInv, mode = "OCC", [Next]_vars
  PROVE  ReadSinceStart'
<1> USE DEF clientVars, threadVars, dataVars, clientSide, poolVars, occVars, Goto
<1> SUFFICES ASSUME NEW t \in Txns, NEW k \in readset[t], HasRead(t, k)'
             PROVE  \/ \E m \in occStart'[t] .. Len(committedTxns') : reads'[t][k] = LastWriter(k, m)'
                    \/ Installed(k)' /\ reads'[t][k] = cur'[Main]
  BY DEF ReadSinceStart
<1>0. /\ CommittedFinal /\ StorageExact /\ ReadSinceStart /\ StartsInside
      /\ Main \in Threads /\ Main \notin Workers /\ pc \in [Threads -> PcLabels]
      /\ cur \in [Threads -> Values] /\ todo \in [Threads -> SUBSET (Keys \cup Txns)]
      /\ committedTxns \in Seq(Txns) /\ occStart \in [Txns -> Nat] /\ occStart[t] <= Len(committedTxns)
      /\ Busy(Main) => cur[Main] \in Txns
      /\ k \in Keys
  BY CommitTypes DEF CommitInv, StartsInside
<1>1. PICK L \in Nat : L = Len(committedTxns) /\ L <= Len(committedTxns') /\ Len(committedTxns') \in Nat
  BY <1>0, PastStays
<1>2. ASSUME NEW m \in occStart[t] .. L, reads'[t][k] = LastWriter(k, m), occStart'[t] = occStart[t]
      PROVE  \E i \in occStart'[t] .. Len(committedTxns') : reads'[t][k] = LastWriter(k, i)'
  <2>1. m \in 0 .. Len(committedTxns) /\ m \in occStart'[t] .. Len(committedTxns')
    BY <1>0, <1>1, <1>2
  <2>2. LastWriter(k, m)' = LastWriter(k, m)
    BY <1>0, <2>1, PastStays
  <2> QED
    BY <1>2, <2>1, <2>2
\* What is being installed is the next to commit.
<1>3. ASSUME Installed(k), reads'[t][k] = cur[Main], occStart'[t] = occStart[t]
      PROVE  \/ \E m \in occStart'[t] .. Len(committedTxns') : reads'[t][k] = LastWriter(k, m)'
             \/ Installed(k)' /\ reads'[t][k] = cur'[Main]
  <2>1. pc[Main] = "apply" /\ k \in writes[cur[Main]] \ todo[Main]
    BY <1>3 DEF Installed
  <2>2. CASE ~Installs
    BY <1>3, <2>1, <2>2, QuietForCommits DEF Installed
  <2>3. CASE OCCValidate \/ StartApply(Main)
    BY <2>1, <2>3 DEF OCCValidate, StartApply
  <2>4. CASE ApplyWrite(Main)
    <3>1. PICK j \in Keys : todo' = [todo EXCEPT ![Main] = todo[Main] \ {j}]
      BY <2>4 DEF ApplyWrite
    <3>2. UNCHANGED <<pc, cur, writes>>
      BY <2>4, ApplyingKeepsWrites DEF ApplyWrite
    <3> QED
      BY <1>0, <1>3, <2>1, <3>1, <3>2 DEF Installed
  <2>5. CASE Commit(Main, "result")
    <3>1. PICK n \in Nat \ {0} : n = L + 1
      BY <1>1
    <3>2. /\ committedTxns' = Append(committedTxns, cur[Main]) /\ cur[Main] \in Txns /\ writes' = writes
      BY <1>0, <2>1, <2>5, ApplyingKeepsWrites DEF Commit, Busy
    <3>3. Len(committedTxns') = n /\ committedTxns'[n] = cur[Main]
      BY <1>0, <1>1, <3>1, <3>2
    <3>4. k \in writes'[committedTxns'[n]]
      BY <2>1, <3>2, <3>3
    <3>5. LastWriter(k, n)' = cur[Main]
      BY <3>3, <3>4, LastOfHit, LastWriterIsLastOf
    <3>6. n \in occStart'[t] .. Len(committedTxns')
      BY <1>0, <1>1, <1>3, <3>1, <3>3
    <3> QED
      BY <1>3, <3>5, <3>6
  <2> QED
    BY <2>2, <2>3, <2>4, <2>5 DEF Installs
<1>4. CASE HasRead(t, k) /\ reads'[t][k] = reads[t][k] /\ occStart'[t] = occStart[t]
  <2>1. \/ \E m \in occStart[t] .. L : reads[t][k] = LastWriter(k, m)
        \/ Installed(k) /\ reads[t][k] = cur[Main]
    BY <1>0, <1>1, <1>4 DEF ReadSinceStart
  <2> QED
    BY <1>2, <1>3, <1>4, <2>1
<1>5. ASSUME reads'[t][k] = storage[k], occStart' = occStart
      PROVE  \/ \E m \in occStart'[t] .. Len(committedTxns') : reads'[t][k] = LastWriter(k, m)'
             \/ Installed(k)' /\ reads'[t][k] = cur'[Main]
  <2>1. storage[k] = IF Installed(k) THEN cur[Main] ELSE LastWriter(k, L)
    BY <1>0, <1>1 DEF StorageExact
  <2>2. L \in occStart[t] .. L
    BY <1>0, <1>1
  <2> QED
    BY <1>2, <1>3, <1>5, <2>1, <2>2
<1> QED
  BY <1>4, <1>5, ReadsEffect

LEMMA CommitInit == Init => CommitInv
<1> SUFFICES ASSUME Init PROVE CommitInv
  OBVIOUS
<1>1. /\ committedTxns = <<>> /\ completedTxns = <<>>
      /\ occStart = [t \in Txns |-> 0]
      /\ storage = [k \in Keys |-> NoTxn]
      /\ pc = [w \in Threads |-> "idle"]
  BY Zenon DEF Init, PoolInit, CoreInit, OCCInit
<1>2. /\ Main \in Threads /\ \A w \in Threads : pc[w] = "idle"
      /\ Len(committedTxns) = 0 /\ \A t \in Txns : occStart[t] = 0
      /\ Elements(committedTxns) = {} /\ Elements(completedTxns) = {}
  BY <1>1, PoolAssumption, ElementsEmpty
<1>3. CommittedFinal /\ DecidedWrites /\ NextMissesAtMostFirst
  BY <1>2 DEF CommittedFinal, DecidedWrites, NextMissesAtMostFirst
<1>4. OnlyFirstCommitMissed
  BY <1>2 DEF OnlyFirstCommitMissed
<1>5. StartsInside
  <2>1. SUFFICES ASSUME NEW t \in Txns PROVE occStart[t] <= Len(committedTxns)
    BY DEF StartsInside
  <2>2. occStart[t] = 0 /\ Len(committedTxns) = 0
    BY <1>2
  <2> QED
    BY <2>2
<1>6. StorageExact
  <2>1. \A k \in Keys : LastWriter(k, 0) = NoTxn
    BY DEF LastWriter
  <2> QED
    BY <1>1, <1>2, <2>1 DEF StorageExact, Installed
<1>7. ReadSinceStart /\ SerialReadsCurrent
  BY <1>2 DEF ReadSinceStart, HasRead, SerialReadsCurrent, Workers
<1> QED
  BY <1>3, <1>4, <1>5, <1>6, <1>7 DEF CommitInv

LEMMA CommitStep ==
  ASSUME TypeOK, PlaceInv, CommitInv, [Next]_vars
  PROVE  CommitInv'
<1>1. mode' = mode
  BY LocationsStep
<1>2. CASE mode \notin {"SERIAL", "OCC"}
  BY <1>1, <1>2 DEF CommitInv
<1>3. CASE mode \in {"SERIAL", "OCC"}
  <2>1. CommittedFinal /\ NextMissesAtMostFirst /\ OnlyFirstCommitMissed
    BY <1>3 DEF CommitInv
  <2>2. CommittedFinal' /\ OnlyFirstCommitMissed'
    BY <1>3, <2>1, CommittedStep
  <2>3. StorageExact' /\ NextMissesAtMostFirst' /\ StartsInside'
    BY <1>3, StorageStep, NextStep, StartsStep
  <2>4. mode = "SERIAL" => DecidedWrites' /\ SerialReadsCurrent'
    BY SerialReadsStep
  <2>5. mode = "OCC" => ReadSinceStart'
    BY ReadSinceStep
  <2>6. mode = "OCC" => DecidedWrites'
    BY <1>1, LocationsStep DEF LocationsOfMode, DecidedWrites
  <2> QED
    BY <1>1, <1>3, <2>2, <2>3, <2>4, <2>5, <2>6 DEF CommitInv
<1> QED
  BY <1>2, <1>3

-----------------------------------------------------------------------------
(* The results. *)

LEMMA InvInit == Init => Inv
  BY TypeInit, PlaceInit, MVCCInit0, ParallelInit, CommitInit DEF Inv

LEMMA InvStep == Inv /\ [Next]_vars => Inv'
  BY TypeStep, PlaceStep, MVCCStep, ParallelStep, CommitStep DEF Inv

\* The inductive invariant of all modes.
THEOREM RunInvariant == Spec => []Inv
  BY InvInit, InvStep, PTL DEF Spec

\* Every variable keeps its type in every mode, whatever is restarted.
THEOREM TypeCorrect == Spec => []TypeOK
<1>1. Inv => TypeOK
  BY DEF Inv
<1> QED
  BY <1>1, RunInvariant, PTL

\* Validation in OCC lets through at most a miss of the first transaction that
\* committed after the start, and SERIAL none: the loop over committed_txns_
\* begins one too late, but looks at all the others.
THEOREM CommitsMissAtMostFirst == Spec => []OnlyFirstCommitMissed
<1>1. Inv => OnlyFirstCommitMissed
  BY DEF Inv, CommitInv, OnlyFirstCommitMissed
<1> QED
  BY <1>1, RunInvariant, PTL

\* Of two workers of P_OCC that install at the same time, the one that entered
\* the active set later had the other in its copy.
THEOREM AppliesAreCompatible == Spec => []ConcurrentAppliesCompatible
<1>1. Inv => ConcurrentAppliesCompatible
  BY DEF Inv, ParallelInv, OneSawTheOther, Saw, Passed, ConcurrentAppliesCompatible
<1> QED
  BY <1>1, RunInvariant, PTL

\* A reader of MVCC waits for a key's lock, and the writer has all the locks
\* from its check of the keys to its last write: no reader is between two
\* writes of a transaction.
THEOREM ReadersSeeWholeTransactions == Spec => []NoHalfInstalledReads
<1>1. ASSUME Inv, NEW w \in Workers, mode = "MVCC", pc[w] = "install", NEW t \in Txns, NEW k \in Keys,
             reads[t][k] = cur[w]
      PROVE  FALSE
  <2>1. PICK u \in Txns : u = cur[w]
    BY <1>1, MVCCTypes DEF Inv, Busy
  <2>2. Final(u)
    BY <1>1, <2>1 DEF Inv, MVCCInv, ReadsFinal
  <2>3. w \in Threads /\ Busy(w)
    BY <1>1 DEF Workers, Busy
  <2> QED
    BY <1>1, <2>1, <2>2, <2>3, FinalElsewhere DEF Inv
<1>2. Inv => NoHalfInstalledReads
  BY <1>1 DEF NoHalfInstalledReads
<1> QED
  BY <1>2, RunInvariant, PTL

\* What CheckKeys has found to be the newest version stays so until the
\* transaction has installed its own.
THEOREM VersionsGoOnTop == Spec => NewVersionsOnTop
<1> DEFINE OnTop == \A k \in Keys : versions'[k] # versions[k] => Tail(versions'[k]) = versions[k]
<1>1. ASSUME Inv, [Next]_vars PROVE OnTop
  <2>1. CASE mode = "MVCC"
    BY <1>1, <2>1, VersionsEffect DEF Inv
  <2>2. CASE mode # "MVCC"
    <3>1. versions' = versions
      BY <1>1, <2>2 DEF Next, Submit, TakeResult, Scheduler, NoCase, Worker, vars, mvccVars
    <3> QED
      BY <3>1
  <2> QED
    BY <2>1, <2>2
<1>2. Inv /\ [Next]_vars => [OnTop]_vars
  BY <1>1
<1> QED
  BY <1>2, RunInvariant, PTL DEF Spec, NewVersionsOnTop

\* Where one thread works on t, it is the only one.
LEMMA HandsAreConditions ==
  ASSUME OneThreadEach, NEW t
  PROVE  Cardinality({w \in Threads : Busy(w) /\ cur[w] = t}) = One(Running(t))
<1> DEFINE H == {w \in Threads : Busy(w) /\ cur[w] = t}
<1>1. CASE Running(t)
  <2>1. PICK w \in Threads : Busy(w) /\ cur[w] = t
    BY <1>1 DEF Running
  <2>2. H = {w}
    BY <2>1 DEF OneThreadEach
  <2> QED
    BY <1>1, <2>2, FS_Singleton DEF One
<1>2. CASE ~Running(t)
  <2>1. H = {}
    BY <1>2 DEF Running
  <2> QED
    BY <1>2, <2>1, FS_EmptySet DEF One
<1> QED
  BY <1>1, <1>2

\* The pool has t in one queue, once.
LEMMA TasksAreConditions ==
  ASSUME TypeOK, QueuesDistinct, NEW t \in Txns
  PROVE  TaskCopies(t) = One(Tasked(t))
<1> DEFINE Places == UNION {{w} \X DOMAIN tasks[w] : w \in Workers}
           P == {p \in Places : tasks[p[1]][p[2]] = t}
<1>1. TaskCopies(t) = Cardinality(P)
  BY DEF TaskCopies
<1>2. ASSUME NEW p \in P
      PROVE  /\ p = <<p[1], p[2]>> /\ p[1] \in Workers /\ p[2] \in DOMAIN tasks[p[1]]
             /\ tasks[p[1]][p[2]] = t /\ t \in Elements(tasks[p[1]])
  <2>1. PICK w \in Workers : p \in {w} \X DOMAIN tasks[w]
    OBVIOUS
  <2> QED
    BY <1>2, <2>1 DEF Elements
<1>3. CASE Tasked(t)
  <2>1. PICK w \in Workers : t \in Elements(tasks[w])
    BY <1>3 DEF Tasked
  <2>2. PICK i \in DOMAIN tasks[w] : tasks[w][i] = t
    BY <2>1 DEF Elements
  <2>3. <<w, i>> \in P
    BY <2>2
  <2>4. ASSUME NEW p \in P PROVE p = <<w, i>>
    <3>1. p[1] = w
      BY <1>2, <2>1 DEF QueuesDistinct
    <3>2. p[2] = i
      BY <1>2, <2>2, <3>1 DEF QueuesDistinct, Distinct
    <3> QED
      BY <1>2, <3>1, <3>2
  <2> HIDE DEF P
  <2>5. P = {<<w, i>>}
    BY <2>3, <2>4
  <2> QED
    BY <1>1, <1>3, <2>5, FS_Singleton DEF One
<1>4. CASE ~Tasked(t)
  <2>1. P = {}
    BY <1>2, <1>4 DEF Tasked
  <2> QED
    BY <1>1, <1>4, <2>1, FS_EmptySet DEF One
<1> QED
  BY <1>3, <1>4

\* However often a transaction is restarted, it is in one place and in one only.
THEOREM RequestsAreInOnePlace == Spec => []EachRequestInOnePlace
<1>1. ASSUME Inv, NEW t \in Txns
      PROVE  One(uniqueId[t] > 0) =
               Copies(txnRequests, t) + TaskCopies(t)
               + Cardinality({w \in Threads : Busy(w) /\ cur[w] = t})
               + One(mode = "OCC") * Copies(completedTxns, t)
               + Copies(txnResults, t) + One(t \in returned)
  <2>0. TypeOK /\ OneThreadEach /\ QueuesDistinct /\ OnePlace
    BY <1>1 DEF Inv, PlaceInv
  <2>1. /\ txnRequests \in Seq(Txns) /\ txnResults \in Seq(Txns) /\ completedTxns \in Seq(Txns)
        /\ Distinct(txnRequests) /\ Distinct(txnResults)
        /\ mode = "OCC" => Distinct(completedTxns)
    BY <2>0 DEF QueuesDistinct, TypeOK, CoreTypeOK, ClientTypeOK, DataTypeOK
  <2>2. /\ Copies(txnRequests, t) = One(t \in Elements(txnRequests))
        /\ Copies(txnResults, t) = One(t \in Elements(txnResults))
    BY <2>1, CopiesDistinct
  <2>3. One(mode = "OCC") * Copies(completedTxns, t) = One(Completed(t))
    <3>1. CASE mode = "OCC"
      <4>1. Copies(completedTxns, t) = One(t \in Elements(completedTxns))
        BY <2>1, <3>1, CopiesDistinct
      <4> QED
        BY <3>1, <4>1 DEF One, Completed
    <3>2. CASE mode # "OCC"
      <4>1. IsFiniteSet(1 .. Len(completedTxns))
        BY <2>1, FS_Interval
      <4>2. IsFiniteSet({i \in DOMAIN completedTxns : completedTxns[i] = t})
        BY <2>1, <4>1, FS_Subset
      <4>3. Copies(completedTxns, t) \in Nat
        BY <4>2, FS_CardinalityType DEF Copies
      <4> QED
        BY <3>2, <4>3 DEF One, Completed
    <3> QED
      BY <3>1, <3>2
  <2>4. /\ TaskCopies(t) = One(Tasked(t))
        /\ Cardinality({w \in Threads : Busy(w) /\ cur[w] = t}) = One(Running(t))
    BY <2>0, HandsAreConditions, TasksAreConditions
  <2>5. One(uniqueId[t] > 0) =
            One(t \in Elements(txnRequests)) + One(Tasked(t)) + One(Running(t))
            + One(Completed(t)) + One(t \in Elements(txnResults)) + One(t \in returned)
    BY <2>0 DEF OnePlace
  <2> QED
    BY <2>2, <2>3, <2>4, <2>5
<1>2. Inv => EachRequestInOnePlace
  BY <1>1 DEF EachRequestInOnePlace
<1> QED
  BY <1>2, RunInvariant, PTL
=============================================================================
