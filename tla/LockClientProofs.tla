-------------------------- MODULE LockClientProofs --------------------------
(***************************************************************************)
(* What module LockClient says of the lock managers holds for every set of *)
(* transactions and records: txn_waits_ is exact, the ready queue gets     *)
(* whoever has all it waits for, once, and Status names the owners.        *)
(***************************************************************************)
EXTENDS LockClient, QueueLemmas

\* No transaction has two requests in a queue, and none it did not ask for.
OncePerRecord ==
    \A k \in Keys :
        /\ \A i, j \in DOMAIN lockTable[k] :
             lockTable[k][i].txn = lockTable[k][j].txn => i = j
        /\ \A i \in DOMAIN lockTable[k] : <<lockTable[k][i].txn, k>> \in asked

\* The count of a transaction is what it waits for.  A cancelled request takes
\* nothing from it, so that it may be too high, never too low.
CountsSuffice ==
    \A t \in Txns :
        /\ Cardinality(Waits(t)) <= txnWaits[t]
        /\ t \notin cancelled => Cardinality(Waits(t)) = txnWaits[t]

WaitersAreBlocked == \A t \in Txns : Waits(t) # {} => t \in blocked

\* The ready queue holds whoever was blocked and waits for nothing any more.
ReadyOnce ==
    \A t \in Txns \ cancelled :
        Copies(readyTxns, t) = One(t \in blocked /\ txnWaits[t] = 0)

Inv == TypeOK /\ OncePerRecord /\ CountsSuffice /\ WaitersAreBlocked /\ ReadyOnce

-----------------------------------------------------------------------------
(* What a transaction waits for. *)

LEMMA TableType ==
  ASSUME TypeOK
  PROVE  /\ lockTable \in Tables(Keys, LockRequest)
         /\ \A r \in LockRequest : r.txn \in Txns
         /\ \A k \in Keys : lockTable[k] \in Seq(LockRequest)
         /\ IsFiniteSet(Keys)
  BY LockAssumption DEF TypeOK, LockTypeOK, Tables, LockRequest

\* A transaction waits for nothing when it has every lock it asked for.
LEMMA WaitsZero ==
  ASSUME TypeOK, NEW t
  PROVE  /\ IsFiniteSet(Waits(t)) /\ Cardinality(Waits(t)) \in Nat
         /\ Cardinality(Waits(t)) = 0 <=> Waits(t) = {}
         /\ Cardinality(Waits(t)) = 0 <=> \A k \in Keys : WaitsIn(lockTable[k], t) = {}
         /\ Cardinality(Waits(t)) = 0 <=> OwnsAll(t)
<1>1. /\ IsFiniteSet(Waits(t)) /\ Cardinality(Waits(t)) \in Nat
      /\ Cardinality(Waits(t)) = 0 <=> \A k \in Keys : WaitsIn(lockTable[k], t) = {}
  BY TableType, WaitsNothing, Zenon DEF Waits
<1>2. Cardinality(Waits(t)) = 0 <=> Waits(t) = {}
  BY <1>1, FS_EmptySet
<1>3. (\A k \in Keys : WaitsIn(lockTable[k], t) = {}) <=> OwnsAll(t)
  <2>1. ASSUME NEW k \in Keys, RequestsOf(lockTable[k], t) = {} PROVE WaitsIn(lockTable[k], t) = {}
    BY <2>1 DEF RequestsOf, WaitsIn
  <2> QED
    BY <2>1 DEF OwnsAll, Owns, AsksFor
<1> QED
  BY <1>1, <1>2, <1>3, Zenon

-----------------------------------------------------------------------------
(* Asking for a lock. *)

LEMMA AskKeeps ==
  ASSUME Inv, NEW t \in Txns, NEW k \in Keys, Ask(t, k)
  PROVE  Inv'
<1> USE DEF Inv
<1>1. PICK m \in {"SHARED", "EXCLUSIVE"}, granted \in BOOLEAN :
        /\ Lock(t, k, m, granted)
        /\ blocked' = IF granted THEN blocked ELSE blocked \cup {t}
  BY DEF Ask, WriteLock, ReadLock
<1>2. /\ <<t, k>> \notin asked /\ t \notin givingUp /\ t \notin cancelled /\ ~Ready(t)
      /\ asked' = asked \cup {<<t, k>>}
      /\ UNCHANGED <<givingUp, cancelled, manager, readyTxns>>
  BY <1>1 DEF Ask, Lock, TypeOK
<1>3. PICK r : r = [txn |-> t, mode |-> m]
  OBVIOUS
<1>4. r \in LockRequest /\ r.txn = t /\ r.mode = m
  BY <1>3 DEF LockRequest
<1>5. PICK q : q = lockTable[k]
  OBVIOUS
<1>6. q \in Seq(LockRequest)
  BY <1>5, TableType
<1>7. PICK n : n = NumBefore(q, m)
  OBVIOUS
<1>8. /\ \A u : u # t => WaitsIn(Append(q, r), u) = WaitsIn(q, u)
      /\ n \in Nat
      /\ Cardinality(WaitsIn(Append(q, r), t)) = Cardinality(WaitsIn(q, t)) + n
      /\ \A u : RequestsOf(Append(q, r), u) =
                    RequestsOf(q, u) \cup (IF u = t THEN {Len(q) + 1} ELSE {})
  BY <1>4, <1>6, <1>7, WaitsAppend
<1>9. PICK P : P = lockTable'
  OBVIOUS
<1>10. /\ P \in Tables(Keys, LockRequest)
       /\ P[k] = Append(q, r)
       /\ \A c \in Keys : c # k => P[c] = lockTable[c]
  <2>1. P = [lockTable EXCEPT ![k] = Append(q, r)]
    BY <1>1, <1>3, <1>5, <1>9 DEF Lock
  <2>2. Append(q, r) \in Seq(LockRequest)
    BY <1>4, <1>6
  <2> QED
    BY <2>1, <2>2, TableType DEF Tables
<1>11. Cardinality(WaitsInTable(P, t)) = Cardinality(Waits(t)) + n
  <2>1. Cardinality(WaitsIn(P[k], t)) = Cardinality(WaitsIn(lockTable[k], t)) + n
    BY <1>5, <1>8, <1>10
  <2>2. /\ P \in Tables(Keys, LockRequest) /\ lockTable \in Tables(Keys, LockRequest)
        /\ \A c \in Keys : c # k => P[c] = lockTable[c]
        /\ n \in Nat /\ IsFiniteSet(Keys)
    BY <1>8, <1>10, TableType
  <2>3. Waits(t) = WaitsInTable(lockTable, t)
    BY DEF Waits
  <2> QED
    BY <2>1, <2>2, <2>3, TableAppend
<1>12. ASSUME NEW u, u # t PROVE WaitsInTable(P, u) = Waits(u)
  <2>1. \A c \in Keys : WaitsIn(P[c], u) = WaitsIn(lockTable[c], u)
    BY <1>5, <1>8, <1>10, <1>12
  <2>2. DOMAIN P = Keys /\ DOMAIN lockTable = Keys
    BY <1>10, TableType DEF Tables
  <2> QED
    BY <2>1, <2>2 DEF Waits, WaitsInTable
<1>13. /\ txnWaits' \in [Txns -> Nat] /\ txnWaits'[t] = txnWaits[t] + n
       /\ \A u \in Txns : u # t => txnWaits'[u] = txnWaits[u]
  <2>1. txnWaits' = [txnWaits EXCEPT ![t] = @ + n]
    BY <1>1, <1>5, <1>7 DEF Lock
  <2> QED
    BY <1>8, <2>1 DEF TypeOK, LockTypeOK
<1>14. granted <=> n = 0
  BY <1>1, <1>5, <1>7 DEF Lock
<1>15. TypeOK'
  <2>1. lockTable' \in [Keys -> Seq(LockRequest)]
    BY <1>9, <1>10 DEF Tables
  <2> QED
    BY <1>1, <1>2, <1>13, <2>1 DEF TypeOK, LockTypeOK
<1>16. OncePerRecord'
  <2>1. SUFFICES ASSUME NEW c \in Keys
                 PROVE  /\ \A i, j \in DOMAIN P[c] : P[c][i].txn = P[c][j].txn => i = j
                        /\ \A i \in DOMAIN P[c] : <<P[c][i].txn, c>> \in asked'
    BY <1>9 DEF OncePerRecord
  <2>2. CASE c # k
    BY <1>2, <1>10, <2>2 DEF OncePerRecord
  <2>3. CASE c = k
    <3>1. /\ DOMAIN P[k] = DOMAIN q \cup {Len(q) + 1} /\ P[k][Len(q) + 1] = r
          /\ \A i \in DOMAIN q : P[k][i] = q[i]
      BY <1>4, <1>6, <1>10
    <3>2. \A i \in DOMAIN q : q[i].txn # t
      BY <1>2, <1>5 DEF OncePerRecord
    <3>3. \A i, j \in DOMAIN q : q[i].txn = q[j].txn => i = j
      BY <1>5 DEF OncePerRecord
    <3>4. \A i \in DOMAIN q : <<q[i].txn, k>> \in asked
      BY <1>5 DEF OncePerRecord
    <3> QED
      BY <1>2, <1>4, <2>3, <3>1, <3>2, <3>3, <3>4
  <2> QED
    BY <2>2, <2>3
<1>17. ASSUME NEW u \in Txns
       PROVE  /\ Cardinality(WaitsInTable(P, u)) <= txnWaits'[u]
              /\ u \notin cancelled => Cardinality(WaitsInTable(P, u)) = txnWaits'[u]
  <2>1. Cardinality(Waits(u)) \in Nat /\ txnWaits[u] \in Nat
    BY WaitsZero DEF TypeOK, LockTypeOK
  <2>2. CASE u = t
    BY <1>8, <1>11, <1>13, <2>1, <2>2 DEF CountsSuffice
  <2>3. CASE u # t
    BY <1>12, <1>13, <2>1, <2>3 DEF CountsSuffice
  <2> QED
    BY <2>2, <2>3
<1>18. CountsSuffice'
  BY <1>2, <1>9, <1>17 DEF CountsSuffice, Waits
<1>19. WaitersAreBlocked'
  <2>1. SUFFICES ASSUME NEW u \in Txns, WaitsInTable(P, u) # {} PROVE u \in blocked'
    BY <1>9 DEF WaitersAreBlocked, Waits
  <2>2. CASE u = t /\ granted
    <3>1. Cardinality(WaitsInTable(P, t)) = Cardinality(Waits(t)) + 0
      BY <1>11, <1>14, <2>2
    <3>2. /\ Cardinality(Waits(t)) \in Nat /\ (Cardinality(Waits(t)) = 0 => Waits(t) = {})
          /\ IsFiniteSet(WaitsInTable(P, t))
      BY <1>10, TableType, WaitsZero, WaitsNothing
    <3>3. Cardinality(WaitsInTable(P, t)) # 0
      BY <2>1, <2>2, <3>2, FS_EmptySet
    <3>4. Waits(t) # {}
      <4>1. Cardinality(Waits(t)) # 0
        BY <3>1, <3>2, <3>3
      <4> QED
        BY <4>1, FS_EmptySet
    <3> QED
      BY <1>1, <2>2, <3>4 DEF WaitersAreBlocked
  <2>3. CASE u = t /\ ~granted
    BY <1>1, <2>3
  <2>4. CASE u # t
    BY <1>1, <1>12, <2>1, <2>4 DEF WaitersAreBlocked
  <2> QED
    BY <2>2, <2>3, <2>4
<1>20. ReadyOnce'
  <2>1. SUFFICES ASSUME NEW u \in Txns, u \notin cancelled
                 PROVE  Copies(readyTxns, u) = One(u \in blocked' /\ txnWaits'[u] = 0)
    BY <1>2 DEF ReadyOnce
  <2>2. Copies(readyTxns, u) = One(u \in blocked /\ txnWaits[u] = 0)
    BY <2>1 DEF ReadyOnce
  <2>3. CASE u # t
    BY <1>1, <1>13, <2>2, <2>3
  <2>4. CASE u = t
    <3>1. Copies(readyTxns, t) = 0
      <4>1. {i \in DOMAIN readyTxns : readyTxns[i] = t} = {}
        BY <1>2 DEF Ready
      <4> QED
        BY <4>1, FS_EmptySet DEF Copies
    <3>2. ~(t \in blocked /\ txnWaits[t] = 0)
      BY <2>2, <2>4, <3>1 DEF One
    <3>3. txnWaits[t] \in Nat
      BY DEF TypeOK, LockTypeOK
    <3>4. ~(t \in blocked' /\ txnWaits'[t] = 0)
      BY <1>1, <1>8, <1>13, <1>14, <3>2, <3>3
    <3> QED
      BY <2>4, <3>1, <3>4 DEF One
  <2> QED
    BY <2>3, <2>4
<1> QED
  BY <1>15, <1>16, <1>18, <1>19, <1>20

-----------------------------------------------------------------------------
(* Giving a lock up. *)

\* What the release of t's request, the i-th for k, does to the lock manager.
\* Whoever it makes ready did not wait for anything else.
LEMMA ReleaseEffect ==
  ASSUME Inv, NEW t \in Txns, NEW k \in Keys, NEW i \in RequestsOf(lockTable[k], t),
         ReleaseAt(t, k, i)
  PROVE  /\ lockTable' \in Tables(Keys, LockRequest)
         /\ lockTable'[k] = Erase(lockTable[k], i)
         /\ \A c \in Keys : c # k => lockTable'[c] = lockTable[c]
         /\ txnWaits' \in [Txns -> Nat] /\ txnWaits'[t] = txnWaits[t]
         /\ \A u \in Txns : txnWaits'[u] <= txnWaits[u] /\ txnWaits[u] <= txnWaits'[u] + 1
         /\ \A u \in Txns \ {t} :
              Cardinality(WaitsInTable(lockTable', u)) = Cardinality(Waits(u)) - (txnWaits[u] - txnWaits'[u])
         /\ \E r \in Seq(Txns) :
              /\ readyTxns' = readyTxns \o r /\ Distinct(r)
              /\ \A u \in Txns : u \in Elements(r) <=> txnWaits[u] = 1 /\ txnWaits'[u] = 0
         /\ manager' = manager
<1> USE DEF Inv
<1>1. PICK Q : Q = lockTable
  OBVIOUS
<1>2. PICK P : P = lockTable'
  OBVIOUS
<1>3. PICK W : W = txnWaits
  OBVIOUS
<1>4. PICK V : V = txnWaits'
  OBVIOUS
<1>6. /\ P = [Q EXCEPT ![k] = Erase(Q[k], i)]
      /\ V = [u \in Txns |-> W[u] - Cardinality(UnblockedOf(Q[k], i, u))]
      /\ manager' = manager
  BY <1>1, <1>2, <1>3, <1>4 DEF ReleaseAt
<1>7. PICK now : now \in InQueueOrder(LastWaits(Q[k], i, W)) /\ readyTxns' = readyTxns \o TxnsAt(Q[k], now)
  BY <1>1, <1>3 DEF ReleaseAt
<1>8. Q \in Tables(Keys, LockRequest) /\ Q[k] \in Seq(LockRequest) /\ IsFiniteSet(Keys)
      /\ \A x \in LockRequest : x.txn \in Txns
  BY <1>1, TableType
<1>9. i \in DOMAIN Q[k] /\ t = Q[k][i].txn
  BY <1>1 DEF RequestsOf
<1>10. P \in Tables(Keys, LockRequest) /\ P[k] = Erase(Q[k], i) /\ \A c \in Keys : c # k => P[c] = Q[c]
  <2>1. Erase(Q[k], i) \in Seq(LockRequest)
    BY <1>8, <1>9, EraseShifts
  <2> QED
    BY <1>6, <1>8, <2>1 DEF Tables
<1>11. UnblockedOf(Q[k], i, t) = {}
  <2>1. SUFFICES ASSUME NEW j \in UnblockedOf(Q[k], i, t) PROVE FALSE
    OBVIOUS
  <2>2. j \in DOMAIN Q[k] /\ i < j /\ Q[k][j].txn = t
    BY DEF UnblockedOf, Unblocked
  <2>3. i = j
    BY <1>1, <1>9, <2>2 DEF OncePerRecord
  <2> QED
    BY <1>8, <1>9, <2>2, <2>3
<1>12. W \in [Txns -> Nat] /\ \A u \in Txns : Cardinality(WaitsInTable(Q, u)) <= W[u]
  BY <1>1, <1>3 DEF CountsSuffice, Waits, TypeOK, LockTypeOK
<1>14. PICK r : r = TxnsAt(Q[k], now)
  OBVIOUS
<1> DEFINE N(u) == Cardinality(UnblockedOf(Q[k], i, u))
<1>15. /\ N(t) = 0
       /\ \A u \in Txns : N(u) \in Nat /\ N(u) <= W[u]
       /\ \A u \in Txns \ {t} :
            Cardinality(WaitsInTable(P, u)) = Cardinality(WaitsInTable(Q, u)) - N(u)
       /\ r \in Seq(Txns) /\ Distinct(r)
       /\ \A u \in Txns : u \in Elements(r) <=> W[u] = 1 /\ N(u) = 1
  <2>1. Releases(Txns, LockRequest, Keys, Q, P, W, k, i, t)
    BY <1>8, <1>9, <1>10, <1>11, <1>12 DEF Releases
  <2>2. Unblocks(Txns, Q, P, W, k, i, t, TxnsAt(Q[k], now))
    BY <1>7, <2>1, TableRelease
  <2> QED
    BY <1>14, <2>2 DEF Unblocks
<1>16. V = [u \in Txns |-> W[u] - N(u)]
  BY <1>6
<1> HIDE DEF N
<1>17. V \in [Txns -> Nat] /\ V[t] = W[t] /\ \A u \in Txns : N(u) = W[u] - V[u]
  <2>1. ASSUME NEW u \in Txns PROVE V[u] \in Nat /\ N(u) = W[u] - V[u] /\ V[u] = W[u] - N(u)
    <3>1. N(u) \in Nat /\ N(u) <= W[u] /\ W[u] \in Nat /\ V[u] = W[u] - N(u)
      BY <1>12, <1>15, <1>16
    <3> QED
      BY <3>1
  <2>2. t \in Txns /\ V[t] = W[t] - 0
    BY <1>15, <1>16
  <2>3. V \in [Txns -> Nat]
    BY <1>16, <2>1
  <2> QED
    BY <1>12, <2>1, <2>2, <2>3
<1>5. ASSUME NEW u \in Txns PROVE V[u] <= W[u] /\ W[u] <= V[u] + 1
  <2> DEFINE U == UnblockedOf(Q[k], i, u)
  <2>1. \A a, b \in U : a = b
    BY <1>1 DEF UnblockedOf, Unblocked, OncePerRecord
  <2>2. N(u) \in {0, 1}
    <3> HIDE DEF U
    <3>1. U = {} \/ \E a : U = {a}
      BY <2>1
    <3> QED
      BY <3>1, FS_EmptySet, FS_Singleton DEF N, U
  <2> QED
    BY <1>12, <1>17, <2>2
<1>18. \A u \in Txns : u \in Elements(r) <=> W[u] = 1 /\ V[u] = 0
  <2>1. ASSUME NEW u \in Txns PROVE W[u] = 1 => (N(u) = 1 <=> V[u] = 0)
    BY <1>12, <1>17
  <2> QED
    BY <1>15, <2>1, Zenon
<1>19. \A u \in Txns \ {t} :
          Cardinality(WaitsInTable(P, u)) = Cardinality(WaitsInTable(Q, u)) - (W[u] - V[u])
  BY <1>15, <1>17
<1> QED
  BY <1>1, <1>2, <1>3, <1>4, <1>5, <1>6, <1>7, <1>10, <1>14, <1>15, <1>17, <1>18, <1>19 DEF Waits

LEMMA GiveUpKeeps ==
  ASSUME Inv, NEW t \in Txns, NEW k \in Keys, GiveUp(t, k)
  PROVE  Inv'
<1> USE DEF Inv
<1>1. /\ givingUp' = givingUp \cup {t} /\ UNCHANGED <<asked, blocked>>
      /\ cancelled' = IF Owns(t, k) THEN cancelled
                      ELSE cancelled \cup {u \in {t} : k \in AsksFor(t)}
      /\ Release(t, k)
  BY DEF GiveUp
<1>2. CASE RequestsOf(lockTable[k], t) = {} /\ UNCHANGED lockVars
  <2>1. cancelled' = cancelled
    BY <1>1, <1>2 DEF AsksFor
  <2>2. UNCHANGED <<manager, lockTable, txnWaits, readyTxns>>
    BY <1>2 DEF lockVars
  <2>3. TypeOK'
    BY <1>1, <2>1, <2>2 DEF TypeOK, LockTypeOK
  <2> QED
    BY <1>1, <2>1, <2>2, <2>3
       DEF OncePerRecord, CountsSuffice, WaitersAreBlocked, ReadyOnce, Waits
<1>3. CASE \E i \in RequestsOf(lockTable[k], t) : ReleaseAt(t, k, i)
  <2>1. PICK i \in RequestsOf(lockTable[k], t) : ReleaseAt(t, k, i)
    BY <1>3
  <2>2. PICK q : q = lockTable[k]
    OBVIOUS
  <2>3. PICK P : P = lockTable'
    OBVIOUS
  <2>4. PICK W : W = txnWaits
    OBVIOUS
  <2>5. PICK V : V = txnWaits'
    OBVIOUS
  <2>6. /\ P \in Tables(Keys, LockRequest) /\ P[k] = Erase(q, i)
        /\ \A c \in Keys : c # k => P[c] = lockTable[c]
        /\ V \in [Txns -> Nat] /\ V[t] = W[t] /\ \A u \in Txns : V[u] <= W[u] /\ W[u] <= V[u] + 1
        /\ \A u \in Txns \ {t} :
             Cardinality(WaitsInTable(P, u)) = Cardinality(Waits(u)) - (W[u] - V[u])
        /\ manager' = manager
    BY <2>1, <2>2, <2>3, <2>4, <2>5, ReleaseEffect
  <2>7. PICK r \in Seq(Txns) :
              /\ readyTxns' = readyTxns \o r /\ Distinct(r)
              /\ \A u \in Txns : u \in Elements(r) <=> W[u] = 1 /\ V[u] = 0
    BY <2>1, <2>4, <2>5, ReleaseEffect
  <2>8. /\ q \in Seq(LockRequest) /\ i \in DOMAIN q /\ q[i].txn = t
        /\ \A a, b \in DOMAIN q : q[a].txn = q[b].txn => a = b
        /\ \A a \in DOMAIN q : <<q[a].txn, k>> \in asked
    BY <2>2, TableType DEF OncePerRecord, RequestsOf
  <2>9. k \in AsksFor(t) /\ (t \notin cancelled' => Owns(t, k)) /\ cancelled \subseteq cancelled'
    BY <1>1, <1>3 DEF AsksFor
  <2>10. TypeOK'
    <3>1. lockTable' \in [Keys -> Seq(LockRequest)]
      BY <2>3, <2>6 DEF Tables
    <3>2. readyTxns' \in Seq(Txns)
      BY <2>7, ElementsConcat DEF TypeOK, LockTypeOK
    <3>3. cancelled' \subseteq givingUp' /\ givingUp' \subseteq Txns
      BY <1>1 DEF TypeOK
    <3> QED
      BY <1>1, <2>5, <2>6, <3>1, <3>2, <3>3 DEF TypeOK, LockTypeOK
  <2>11. PICK f : Shifts(f, P[k], q, i)
    BY <2>6, <2>8, EraseShifts
  <2>12. OncePerRecord'
    <3>1. SUFFICES ASSUME NEW c \in Keys
                   PROVE  /\ \A a, b \in DOMAIN P[c] : P[c][a].txn = P[c][b].txn => a = b
                          /\ \A a \in DOMAIN P[c] : <<P[c][a].txn, c>> \in asked
      BY <1>1, <2>3 DEF OncePerRecord
    <3>2. CASE c # k
      BY <2>6, <3>2 DEF OncePerRecord
    <3>3. CASE c = k
      BY <2>8, <2>11, <3>3 DEF Shifts
    <3> QED
      BY <3>2, <3>3
  <2>13. /\ Cardinality(Waits(t)) \in Nat /\ Cardinality(WaitsInTable(P, t)) \in Nat
         /\ Cardinality(WaitsInTable(P, t)) <= Cardinality(Waits(t))
         /\ Owns(t, k) => Cardinality(WaitsInTable(P, t)) = Cardinality(Waits(t))
    <3>1. WaitsIn(P[k], t) = {}
      BY <2>8, <2>11 DEF Shifts, WaitsIn
    <3>2. /\ Cardinality(WaitsInTable(lockTable, t)) \in Nat
          /\ Cardinality(WaitsIn(lockTable[k], t)) \in Nat
          /\ Cardinality(WaitsIn(lockTable[k], t)) <= Cardinality(WaitsInTable(lockTable, t))
          /\ Cardinality(WaitsInTable(P, t)) = Cardinality(WaitsInTable(lockTable, t))
                 - Cardinality(WaitsIn(lockTable[k], t)) + Cardinality(WaitsIn(P[k], t))
      BY <2>6, TableType, WaitsAll
    <3>3. Cardinality({}) = 0
      BY FS_EmptySet
    <3>4. Owns(t, k) => Cardinality(WaitsIn(lockTable[k], t)) = 0
      BY <3>3 DEF Owns
    <3> QED
      BY <3>1, <3>2, <3>3, <3>4 DEF Waits
  <2>14. ASSUME NEW u \in Txns
         PROVE  /\ Cardinality(Waits(u)) \in Nat /\ Cardinality(WaitsInTable(P, u)) \in Nat
                /\ W[u] \in Nat /\ V[u] \in Nat /\ V[u] <= W[u] /\ W[u] <= V[u] + 1
                /\ Cardinality(WaitsInTable(P, u)) <= Cardinality(Waits(u))
                /\ Cardinality(WaitsInTable(P, u)) <= V[u]
                /\ u \notin cancelled' => Cardinality(WaitsInTable(P, u)) = V[u]
    <3>1. W[u] \in Nat /\ V[u] \in Nat /\ V[u] <= W[u] /\ W[u] <= V[u] + 1 /\ Cardinality(Waits(u)) \in Nat
      BY <2>4, <2>6, WaitsZero DEF TypeOK, LockTypeOK
    <3>2. Cardinality(Waits(u)) <= W[u] /\ (u \notin cancelled' => Cardinality(Waits(u)) = W[u])
      BY <2>4, <2>9 DEF CountsSuffice
    <3>3. Cardinality(WaitsInTable(P, u)) \in Nat
      BY <2>6, TableType, WaitsNothing
    <3>4. CASE u = t
      BY <2>6, <2>9, <2>13, <3>1, <3>2, <3>3, <3>4
    <3>5. CASE u # t
      BY <2>6, <3>1, <3>2, <3>3, <3>5
    <3> QED
      BY <3>4, <3>5
  <2>15. CountsSuffice'
    BY <2>3, <2>5, <2>14 DEF CountsSuffice, Waits
  <2>16. WaitersAreBlocked'
    <3>1. SUFFICES ASSUME NEW u \in Txns, WaitsInTable(P, u) # {} PROVE u \in blocked
      BY <1>1, <2>3 DEF WaitersAreBlocked, Waits
    <3>2. Cardinality(WaitsInTable(P, u)) # 0
      <4>1. IsFiniteSet(WaitsInTable(P, u))
        BY <2>6, TableType, WaitsNothing
      <4> QED
        BY <3>1, <4>1, FS_EmptySet
    <3>3. Cardinality(Waits(u)) # 0
      BY <2>14, <3>2
    <3>4. Waits(u) # {}
      BY <3>3, FS_EmptySet
    <3> QED
      BY <3>4 DEF WaitersAreBlocked
  <2>17. ReadyOnce'
    <3>1. SUFFICES ASSUME NEW u \in Txns, u \notin cancelled'
                   PROVE  Copies(readyTxns \o r, u) = One(u \in blocked /\ V[u] = 0)
      BY <1>1, <2>5, <2>7 DEF ReadyOnce
    <3>2. Copies(readyTxns, u) = One(u \in blocked /\ W[u] = 0)
      BY <2>4, <2>9, <3>1 DEF ReadyOnce
    <3>3. Copies(r, u) = One(u \in Elements(r))
      BY <2>7, CopiesDistinct
    <3>4. Copies(readyTxns \o r, u) = Copies(readyTxns, u) + Copies(r, u)
      BY <2>7, ElementsConcat DEF TypeOK, LockTypeOK
    <3>5. W[u] \in Nat /\ V[u] \in Nat /\ V[u] <= W[u] /\ W[u] <= V[u] + 1
      BY <2>14
    <3>6. u \in Elements(r) <=> W[u] = 1 /\ V[u] = 0
      BY <2>7
    <3>7. W[u] # 0 => u \in blocked
      <4>1. SUFFICES ASSUME W[u] # 0 PROVE u \in blocked
        OBVIOUS
      <4>2. Cardinality(Waits(u)) = W[u]
        BY <2>4, <2>9, <3>1 DEF CountsSuffice
      <4>3. Waits(u) # {}
        BY <4>1, <4>2, FS_EmptySet
      <4> QED
        BY <4>3 DEF WaitersAreBlocked
    <3>8. u \in Elements(r) => W[u] # 0 /\ V[u] = 0
      BY <3>6
    <3>9. V[u] = 0 /\ u \notin Elements(r) => W[u] = 0
      <4>1. SUFFICES ASSUME V[u] = 0, W[u] # 0 PROVE W[u] = 1
        BY <3>6
      <4> QED
        BY <3>5, <4>1
    <3> QED
      BY <3>2, <3>3, <3>4, <3>5, <3>7, <3>8, <3>9 DEF One
  <2> QED
    BY <2>10, <2>12, <2>15, <2>16, <2>17
<1> QED
  BY <1>1, <1>2, <1>3 DEF Release

-----------------------------------------------------------------------------
(* The theorems. *)

LEMMA InitEstablishes == Init => Inv
<1> SUFFICES ASSUME Init PROVE Inv
  OBVIOUS
<1> USE DEF Init, LockInit
<1>1. TypeOK
  BY DEF TypeOK, LockTypeOK
<1>2. OncePerRecord
  BY DEF OncePerRecord
<1>3. ASSUME NEW t \in Txns PROVE Cardinality(Waits(t)) = 0 /\ Waits(t) = {}
  <2>1. \A k \in Keys : WaitsIn(lockTable[k], t) = {}
    BY DEF WaitsIn
  <2> QED
    BY <1>1, <2>1, WaitsZero
<1>4. CountsSuffice
  <2>1. ASSUME NEW t \in Txns PROVE Cardinality(Waits(t)) = 0 /\ txnWaits[t] = 0
    BY <1>3
  <2>2. ASSUME NEW t \in Txns PROVE Cardinality(Waits(t)) <= txnWaits[t] /\ Cardinality(Waits(t)) = txnWaits[t]
    <3> HIDE DEF Init, LockInit
    <3> QED
      BY <2>1
  <2> HIDE DEF Init, LockInit
  <2> QED
    BY <2>2 DEF CountsSuffice
<1>5. WaitersAreBlocked
  BY <1>3 DEF WaitersAreBlocked
<1>6. ReadyOnce
  <2>1. ASSUME NEW t PROVE Copies(readyTxns, t) = 0
    <3>1. {i \in DOMAIN readyTxns : readyTxns[i] = t} = {}
      OBVIOUS
    <3> QED
      BY <3>1, FS_EmptySet DEF Copies
  <2> QED
    BY <2>1 DEF ReadyOnce, One
<1> QED
  BY <1>1, <1>2, <1>4, <1>5, <1>6 DEF Inv

\* Whatever calls are made, in whatever order: no transaction has two requests
\* for a record, each count is at least what its transaction waits for, and
\* exactly that unless it cancelled, and the ready queue holds those that had
\* to wait and wait no more.
THEOREM ClientInvariant == Spec => []Inv
<1>1. Inv /\ [Next]_vars => Inv'
  <2> SUFFICES ASSUME Inv, [Next]_vars PROVE Inv'
    OBVIOUS
  <2>1. CASE \E t \in Txns, k \in Keys : Ask(t, k) \/ GiveUp(t, k)
    BY <2>1, AskKeeps, GiveUpKeeps
  <2>2. CASE UNCHANGED vars
    BY <2>2 DEF vars, lockVars, clientVars, Inv, TypeOK, LockTypeOK, OncePerRecord,
                CountsSuffice, WaitersAreBlocked, ReadyOnce, Waits
  <2> QED
    BY <2>1, <2>2 DEF Next
<1> QED
  BY <1>1, InitEstablishes, PTL DEF Spec

\* txn_waits_ counts exactly the conflicting requests in front of those of a
\* transaction (Release, lock_manager.cc).
THEOREM CountsAreExact == Spec => []WaitsAreExact
<1>1. Inv => WaitsAreExact
  BY DEF Inv, CountsSuffice, WaitsAreExact
<1> QED
  BY <1>1, ClientInvariant, PTL

\* The ready queue gets a transaction once, when and only when it had to wait
\* and has every lock it asked for and did not give up.
THEOREM ReadyExactlyWhenGranted == Spec => []ReadyWhenGranted
<1>1. Inv => ReadyWhenGranted
  <2> SUFFICES ASSUME Inv, NEW t \in Txns \ cancelled
               PROVE  Cardinality({i \in DOMAIN readyTxns : readyTxns[i] = t})
                          = IF t \in blocked /\ OwnsAll(t) THEN 1 ELSE 0
    BY DEF ReadyWhenGranted
  <2>1. Cardinality(Waits(t)) = txnWaits[t]
    BY DEF Inv, CountsSuffice
  <2>2. OwnsAll(t) <=> txnWaits[t] = 0
    BY <2>1, WaitsZero DEF Inv
  <2>3. Copies(readyTxns, t) = One(t \in blocked /\ txnWaits[t] = 0)
    BY DEF Inv, ReadyOnce
  <2> QED
    BY <2>2, <2>3 DEF Copies, One
<1> QED
  BY <1>1, ClientInvariant, PTL

\* Status returns the transactions that really have the lock.
THEOREM StatusIsRight == Spec => []StatusNamesOwners
<1>1. Inv => StatusNamesOwners
  <2> SUFFICES ASSUME Inv, NEW k \in Keys
               PROVE  Status(k).owners = {t \in Txns : Owns(t, k)}
    BY DEF StatusNamesOwners
  <2>1. PICK q : q = lockTable[k]
    OBVIOUS
  <2>2. /\ q \in Seq(LockRequest) /\ DOMAIN q = 1 .. Len(q) /\ Len(q) \in Nat
        /\ \A i \in DOMAIN q : q[i].txn \in Txns /\ q[i].mode \in {"SHARED", "EXCLUSIVE"}
    <3>1. q \in Seq(LockRequest)
      BY <2>1, TableType DEF Inv
    <3>2. \A i \in DOMAIN q : q[i] \in LockRequest
      BY <3>1
    <3> QED
      BY <3>1, <3>2 DEF LockRequest
  <2>3. \A i, j \in DOMAIN q : q[i].txn = q[j].txn => i = j
    BY <2>1 DEF Inv, OncePerRecord
  <2>4. ASSUME NEW i \in DOMAIN q
        PROVE  Owns(q[i].txn, k) <=> \A j \in DOMAIN q : j < i => ~Conflict(q[j].mode, q[i].mode)
    <3>1. i \in RequestsOf(q, q[i].txn)
      BY DEF RequestsOf
    <3>2. ASSUME NEW j \in DOMAIN q, j < i, Conflict(q[j].mode, q[i].mode)
          PROVE  <<i, j>> \in WaitsIn(q, q[i].txn)
      BY <3>2 DEF WaitsIn
    <3>3. ASSUME NEW p \in WaitsIn(q, q[i].txn)
          PROVE  p[2] \in DOMAIN q /\ p[2] < i /\ Conflict(q[p[2]].mode, q[i].mode)
      BY <2>3 DEF WaitsIn
    <3> QED
      BY <2>1, <3>1, <3>2, <3>3 DEF Owns
  <2>5. ASSUME NEW t \in Txns, Owns(t, k) PROVE \E i \in DOMAIN q : q[i].txn = t
    BY <2>1, <2>5 DEF Owns, RequestsOf
  <2>6. CASE q = <<>>
    BY <2>1, <2>5, <2>6 DEF Status
  <2>7. CASE q # <<>> /\ q[1].mode = "EXCLUSIVE"
    <3>1. 1 \in DOMAIN q
      BY <2>2, <2>7
    <3>2. Owns(q[1].txn, k)
      BY <2>2, <2>4, <3>1
    <3>3. ASSUME NEW t \in Txns, Owns(t, k) PROVE t = q[1].txn
      <4>1. PICK i \in DOMAIN q : q[i].txn = t
        BY <2>5, <3>3
      <4>2. ~(1 < i)
        BY <2>4, <2>7, <3>1, <3>3, <4>1 DEF Conflict
      <4> QED
        BY <2>2, <4>1, <4>2
    <3>4. Status(k).owners = {q[1].txn}
      BY <2>1, <2>7 DEF Status
    <3> QED
      BY <2>2, <3>1, <3>2, <3>3, <3>4
  <2>8. CASE q # <<>> /\ q[1].mode # "EXCLUSIVE"
    <3> DEFINE S == {j \in DOMAIN q : \A h \in 1 .. j : q[h].mode = "SHARED"}
    <3>1. Status(k).owners = {q[i].txn : i \in S}
      BY <2>1, <2>8 DEF Status
    <3>2. 1 \in DOMAIN q /\ q[1].mode = "SHARED"
      BY <2>2, <2>8
    <3>3. ASSUME NEW i \in S PROVE q[i].txn \in Txns /\ Owns(q[i].txn, k)
      <4>1. ASSUME NEW j \in DOMAIN q, j < i PROVE ~Conflict(q[j].mode, q[i].mode)
        <5>1. j \in 1 .. i /\ i \in 1 .. i
          BY <2>2, <4>1
        <5> QED
          BY <5>1 DEF Conflict
      <4> QED
        BY <2>2, <2>4, <4>1
    <3>4. ASSUME NEW t \in Txns, Owns(t, k) PROVE \E i \in S : q[i].txn = t
      <4>1. PICK i \in DOMAIN q : q[i].txn = t
        BY <2>5, <3>4
      <4>2. \A j \in DOMAIN q : j < i => ~Conflict(q[j].mode, q[i].mode)
        BY <2>4, <3>4, <4>1
      <4>3. q[i].mode = "SHARED"
        BY <2>2, <3>2, <4>2 DEF Conflict
      <4>4. ASSUME NEW h \in 1 .. i PROVE q[h].mode = "SHARED"
        <5>1. h \in DOMAIN q /\ (h < i \/ h = i)
          BY <2>2
        <5> QED
          BY <2>2, <4>2, <4>3, <5>1 DEF Conflict
      <4> QED
        BY <4>1, <4>4
    <3> HIDE DEF S
    <3>5. ASSUME NEW t PROVE t \in {q[i].txn : i \in S} <=> t \in Txns /\ Owns(t, k)
      BY <3>3, <3>4
    <3> QED
      BY <3>1, <3>5
  <2> QED
    BY <2>6, <2>7, <2>8
<1> QED
  BY <1>1, ClientInvariant, PTL
=============================================================================
