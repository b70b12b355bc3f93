-------------------------------- MODULE MVCC --------------------------------
(***************************************************************************)
(* Mode MVCC over MVCCStorage: each record is a list of versions under a   *)
(* mutex.  A worker reads each record at its transaction's id, locks what  *)
(* the transaction writes, checks that no newer version is there, installs *)
(* its own and unlocks.                                                    *)
(*                                                                         *)
(* A version is the transaction that wrote it, whose id is the version's.  *)
(* max_read_id_, which Read sets and nobody reads, is left out.            *)
(***************************************************************************)
EXTENDS PooledModes

VARIABLES
    versions,   \* [Keys -> Seq(Values)], mvcc_data_, the front first
    lockedKeys  \* the keys whose mutex is locked

mvccVars == <<versions, lockedKeys>>

MVCCTypeOK ==
    /\ versions \in [Keys -> Seq(Values)]
    /\ lockedKeys \subseteq Keys

\* InitStorage writes a version with id 0 under each key.
MVCCInit ==
    /\ versions = [k \in Keys |-> <<NoTxn>>]
    /\ lockedKeys = {}

-----------------------------------------------------------------------------
(* MVCCStorage. *)

VersionId(v) == IF v = NoTxn THEN 0 ELSE uniqueId[v]

\* Read: the first version whose id is not above id.
VersionRead(k, id) ==
    LET Old == {i \in DOMAIN versions[k] : VersionId(versions[k][i]) <= id}
    IN  versions[k][CHOOSE i \in Old : \A j \in Old : i <= j]

\* CheckKey: no version is newer than id.
CheckKey_Always(k, id) == TRUE
CheckKey(k, id) == id >= VersionId(Head(versions[k]))

\* Write: t's version goes behind the newer ones at the front.
VersionsWith(k, t) ==
    LET newer == Cardinality({i \in DOMAIN versions[k] :
                    \A j \in 1..i : VersionId(versions[k][j]) > uniqueId[t]})
    IN  SubSeq(versions[k], 1, newer) \o <<t>>
            \o SubSeq(versions[k], newer + 1, Len(versions[k]))

-----------------------------------------------------------------------------
(* MVCCExecuteTxn. *)

MVCCBegin(w) ==
    \E t \in Txns :
        /\ TakeTask(w, t)
        /\ Goto(w, "readVersions")
        /\ cur' = [cur EXCEPT ![w] = t]
        /\ todo' = [todo EXCEPT ![w] = Accesses(t)]
        /\ UNCHANGED mvccVars

\* Lock, Read and Unlock of the next key.
ReadVersion_Unlocked(w) ==
    /\ pc[w] = "readVersions"
    /\ \E k \in Keys :
         /\ NextKey(w, k)
         /\ reads' = [reads EXCEPT ![cur[w]][k] = VersionRead(k, uniqueId[cur[w]])]
         /\ todo' = [todo EXCEPT ![w] = @ \ {k}]
    /\ UNCHANGED <<clientSide, status, storage, completedTxns, committedTxns, pc, cur,
                   poolVars, mvccVars>>
ReadVersion(w) ==
    /\ pc[w] = "readVersions"
    /\ \E k \in Keys :
         /\ NextKey(w, k)
         /\ k \notin lockedKeys
         /\ reads' = [reads EXCEPT ![cur[w]][k] = VersionRead(k, uniqueId[cur[w]])]
         /\ todo' = [todo EXCEPT ![w] = @ \ {k}]
    /\ UNCHANGED <<clientSide, status, storage, completedTxns, committedTxns, pc, cur,
                   poolVars, mvccVars>>

MVCCRun(w) ==
    /\ pc[w] = "readVersions"
    /\ todo[w] = {}
    /\ Vote(w)
    /\ Goto(w, "lock")
    /\ todo' = [todo EXCEPT ![w] = writeset[cur[w]]]
    /\ UNCHANGED mvccVars

\* storage_->Lock for the next key of the writeset.
LockKey(w) ==
    /\ pc[w] = "lock"
    /\ \E k \in Keys :
         /\ NextKey(w, k)
         /\ k \notin lockedKeys
         /\ lockedKeys' = lockedKeys \cup {k}
         /\ todo' = [todo EXCEPT ![w] = @ \ {k}]
    /\ UNCHANGED <<clientSide, dataVars, pc, cur, poolVars, versions>>

\* CheckKey for every key of the writeset, all of them locked.
CheckKeys_KeepLocks(w) ==
    /\ pc[w] = "lock"
    /\ todo[w] = {}
    /\ LET t      == cur[w]
           passed == \A k \in writeset[t] : CheckKey(k, uniqueId[t])
       IN  /\ Goto(w, IF passed THEN "install" ELSE "unlockFailed")
           /\ todo' = [todo EXCEPT ![w] = IF passed THEN writes[t] ELSE {}]
    /\ UNCHANGED <<clientSide, dataVars, cur, poolVars, mvccVars>>
CheckKeys(w) ==
    /\ pc[w] = "lock"
    /\ todo[w] = {}
    /\ LET t      == cur[w]
           passed == \A k \in writeset[t] : CheckKey(k, uniqueId[t])
       IN  /\ Goto(w, IF passed THEN "install" ELSE "unlockFailed")
           /\ todo' = [todo EXCEPT ![w] = IF passed THEN writes[t] ELSE writeset[t]]
    /\ UNCHANGED <<clientSide, dataVars, cur, poolVars, mvccVars>>

\* One iteration of ApplyWrites' loop.
InstallVersion(w) ==
    /\ pc[w] = "install"
    /\ \E k \in Keys :
         /\ NextKey(w, k)
         /\ versions' = [versions EXCEPT ![k] = VersionsWith(k, cur[w])]
         /\ todo' = [todo EXCEPT ![w] = @ \ {k}]
    /\ UNCHANGED <<clientSide, dataVars, pc, cur, poolVars, lockedKeys>>

EndInstall(w) ==
    /\ pc[w] = "install"
    /\ todo[w] = {}
    /\ Goto(w, "unlock")
    /\ todo' = [todo EXCEPT ![w] = writeset[cur[w]]]
    /\ UNCHANGED <<clientSide, dataVars, cur, poolVars, mvccVars>>

UnlockKey(w) ==
    /\ pc[w] \in {"unlock", "unlockFailed"}
    /\ \E k \in Keys :
         /\ NextKey(w, k)
         /\ lockedKeys' = lockedKeys \ {k}
         /\ todo' = [todo EXCEPT ![w] = @ \ {k}]
    /\ UNCHANGED <<clientSide, dataVars, pc, cur, poolVars, versions>>

\* The locks are given back first.
MVCCFinish(w) ==
    /\ \/ pc[w] = "unlock" /\ todo[w] = {} /\ MarkCommitted(w)
       \/ PushResult(w) /\ UNCHANGED poolVars
       \/ pc[w] = "unlockFailed" /\ todo[w] = {} /\ Restart(w)
    /\ UNCHANGED mvccVars

MVCCScheduler == PassRequest("idle") /\ UNCHANGED mvccVars

MVCCWorker(w) ==
    \/ MVCCBegin(w) \/ ReadVersion(w) \/ MVCCRun(w) \/ LockKey(w) \/ CheckKeys(w)
    \/ InstallVersion(w) \/ EndInstall(w) \/ UnlockKey(w) \/ MVCCFinish(w)
=============================================================================
