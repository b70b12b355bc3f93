---------------------------- MODULE QueueLemmas ----------------------------
(* What pushing, popping and erasing does to the notions of the modules Queues
   and RequestQueues: the elements and copies of a queue, the order in it, and
   what a transaction waits for in the queue of a record. *)
EXTENDS RequestQueues, FiniteSetTheorems, FunctionTheorems, TLAPS

\* A queue holds members of its type.
LEMMA ElementsType ==
  ASSUME NEW S, NEW s \in Seq(S)
  PROVE  Elements(s) \subseteq S
  BY DEF Elements

\* The empty queue has none.
LEMMA ElementsEmpty == Elements(<<>>) = {} /\ Flat(<<>>) = {}
  BY DEF Elements, Flat

\* Only the empty queue has none.
LEMMA ElementsNonEmpty ==
  ASSUME NEW S, NEW s \in Seq(S), Elements(s) = {}
  PROVE  s = <<>>
<1> SUFFICES ASSUME s # <<>> PROVE FALSE
  OBVIOUS
<1>1. 1 \in DOMAIN s
  OBVIOUS
<1> QED
  BY <1>1 DEF Elements

\* Push adds the element.
LEMMA ElementsAppend ==
  ASSUME NEW S, NEW s \in Seq(S), NEW e \in S
  PROVE  Elements(Append(s, e)) = Elements(s) \cup {e}
<1>1. ASSUME NEW x \in Elements(s) \cup {e} PROVE x \in Elements(Append(s, e))
  <2>1. CASE x = e
    <3>1. Len(s) + 1 \in DOMAIN Append(s, e) /\ Append(s, e)[Len(s) + 1] = e
      OBVIOUS
    <3> QED
      BY <2>1, <3>1 DEF Elements
  <2>2. CASE x \in Elements(s)
    <3>1. PICK i \in DOMAIN s : x = s[i]
      BY <2>2 DEF Elements
    <3>2. i \in DOMAIN Append(s, e) /\ Append(s, e)[i] = s[i]
      OBVIOUS
    <3> QED
      BY <3>1, <3>2 DEF Elements
  <2> QED
    BY <1>1, <2>1, <2>2
<1>2. ASSUME NEW x \in Elements(Append(s, e)) PROVE x \in Elements(s) \cup {e}
  BY <1>2 DEF Elements
<1> QED
  BY <1>1, <1>2

\* Pop takes the head away and leaves the rest.
LEMMA ElementsTail ==
  ASSUME NEW S, NEW s \in Seq(S), s # <<>>
  PROVE  /\ Head(s) \in S
         /\ Tail(s) \in Seq(S)
         /\ Elements(s) = {Head(s)} \cup Elements(Tail(s))
<1>1. Head(s) \in S /\ Tail(s) \in Seq(S)
  OBVIOUS
<1>2. ASSUME NEW x \in Elements(s) PROVE x \in {Head(s)} \cup Elements(Tail(s))
  <2>1. PICK i \in DOMAIN s : x = s[i]
    BY <1>2 DEF Elements
  <2>2. CASE i = 1
    BY <2>1, <2>2
  <2>3. CASE i # 1
    <3>1. i - 1 \in DOMAIN Tail(s) /\ Tail(s)[i - 1] = s[i]
      BY <2>3
    <3> QED
      BY <2>1, <3>1 DEF Elements
  <2> QED
    BY <2>2, <2>3
<1>3. ASSUME NEW x \in {Head(s)} \cup Elements(Tail(s)) PROVE x \in Elements(s)
  <2>1. CASE x = Head(s)
    <3>1. 1 \in DOMAIN s /\ s[1] = x
      BY <2>1
    <3> QED
      BY <3>1 DEF Elements
  <2>2. CASE x \in Elements(Tail(s))
    <3>1. PICK i \in DOMAIN Tail(s) : x = Tail(s)[i]
      BY <2>2 DEF Elements
    <3>2. i + 1 \in DOMAIN s /\ Tail(s)[i] = s[i + 1]
      BY <3>1
    <3> QED
      BY <3>1, <3>2 DEF Elements
  <2> QED
    BY <1>3, <2>1, <2>2
<1> QED
  BY <1>1, <1>2, <1>3

\* Popping a queue without repetition takes away every trace of the head.
LEMMA DistinctTail ==
  ASSUME NEW S, NEW s \in Seq(S), s # <<>>, Distinct(s)
  PROVE  Distinct(Tail(s)) /\ Head(s) \notin Elements(Tail(s))
<1>1. \A i \in DOMAIN Tail(s) : i + 1 \in DOMAIN s /\ Tail(s)[i] = s[i + 1]
  OBVIOUS
<1>2. 1 \in DOMAIN s /\ Head(s) = s[1] /\ DOMAIN s \subseteq Nat /\ DOMAIN Tail(s) \subseteq Nat
  OBVIOUS
<1>3. Distinct(Tail(s))
  BY <1>1, <1>2 DEF Distinct
<1>4. \A i \in DOMAIN Tail(s) : i + 1 # 1
  BY <1>2, <1>1
<1>5. \A i \in DOMAIN Tail(s) : Tail(s)[i] # Head(s)
  BY <1>1, <1>2, <1>4 DEF Distinct
<1> QED
  BY <1>3, <1>5 DEF Elements

\* Pushing a new element keeps a queue without repetition.
LEMMA DistinctAppend ==
  ASSUME NEW S, NEW s \in Seq(S), NEW e \in S, Distinct(s), e \notin Elements(s)
  PROVE  Distinct(Append(s, e))
  BY DEF Distinct, Elements

\* Popping keeps the order, and the head comes before the rest.
LEMMA IncreasingTail ==
  ASSUME NEW S, NEW u \in [S -> Nat], NEW s \in Seq(S), s # <<>>, Increasing(s, u)
  PROVE  Increasing(Tail(s), u) /\ Before({Head(s)}, Elements(Tail(s)), u)
<1>1. \A i \in DOMAIN Tail(s) : i + 1 \in DOMAIN s /\ Tail(s)[i] = s[i + 1] /\ 1 < i + 1
  OBVIOUS
<1>2. 1 \in DOMAIN s /\ Head(s) = s[1] /\ DOMAIN s \subseteq Nat /\ DOMAIN Tail(s) \subseteq Nat
  OBVIOUS
<1>3. ASSUME NEW i \in DOMAIN Tail(s), NEW j \in DOMAIN Tail(s), i < j
      PROVE  u[Tail(s)[i]] < u[Tail(s)[j]]
  <2>1. i + 1 < j + 1
    BY <1>2, <1>3
  <2> QED
    BY <1>1, <2>1 DEF Increasing
<1>4. \A i \in DOMAIN Tail(s) : u[Head(s)] < u[Tail(s)[i]]
  BY <1>1, <1>2 DEF Increasing
<1> QED
  BY <1>3, <1>4 DEF Increasing, Before, Elements

\* Pushing an element with a larger id keeps the order.
LEMMA IncreasingAppend ==
  ASSUME NEW S, NEW u \in [S -> Nat], NEW s \in Seq(S), NEW e \in S,
         Increasing(s, u), Before(Elements(s), {e}, u)
  PROVE  Increasing(Append(s, e), u)
<1>1. \A i \in DOMAIN s : u[s[i]] < u[e]
  BY DEF Before, Elements
<1>2. ASSUME NEW i \in DOMAIN Append(s, e), NEW j \in DOMAIN Append(s, e), i < j
      PROVE  u[Append(s, e)[i]] < u[Append(s, e)[j]]
  <2>1. i \in DOMAIN s /\ Append(s, e)[i] = s[i]
    BY <1>2
  <2>2. CASE j \in DOMAIN s
    BY <1>2, <2>1, <2>2 DEF Increasing
  <2>3. CASE j = Len(s) + 1
    BY <1>1, <2>1, <2>3
  <2> QED
    BY <2>2, <2>3
<1> QED
  BY <1>2 DEF Increasing

\* The order of a queue depends on the ids of its elements only.
LEMMA IncreasingSame ==
  ASSUME NEW s, NEW u, NEW v, \A e \in Elements(s) : u[e] = v[e], Increasing(s, u)
  PROVE  Increasing(s, v)
  BY DEF Increasing, Elements

\* So does the order of two sets.
LEMMA BeforeSame ==
  ASSUME NEW A, NEW B, NEW u, NEW v, \A e \in A \cup B : u[e] = v[e], Before(A, B, u)
  PROVE  Before(A, B, v)
  BY DEF Before

\* And that of a queue of queues.
LEMMA InOrderSame ==
  ASSUME NEW q, NEW u, NEW v, \A e \in Flat(q) : u[e] = v[e], InOrder(q, u)
  PROVE  InOrder(q, v)
<1>1. \A i \in DOMAIN q : Elements(q[i]) \subseteq Flat(q)
  BY DEF Flat
<1> QED
  BY <1>1, IncreasingSame, BeforeSame DEF InOrder

\* Pushing a queue adds its elements.
LEMMA FlatAppend ==
  ASSUME NEW S, NEW q \in Seq(Seq(S)), NEW s \in Seq(S)
  PROVE  Flat(Append(q, s)) = Flat(q) \cup Elements(s)
<1>1. \A i \in DOMAIN q : i \in DOMAIN Append(q, s) /\ Append(q, s)[i] = q[i]
  OBVIOUS
<1>2. Len(q) + 1 \in DOMAIN Append(q, s) /\ Append(q, s)[Len(q) + 1] = s
  OBVIOUS
<1>3. \A i \in DOMAIN Append(q, s) : i \in DOMAIN q \/ i = Len(q) + 1
  OBVIOUS
<1> QED
  BY <1>1, <1>2, <1>3 DEF Flat

\* Pop takes away the elements of the first queue.
LEMMA FlatTail ==
  ASSUME NEW S, NEW q \in Seq(Seq(S)), q # <<>>
  PROVE  Flat(q) = Elements(Head(q)) \cup Flat(Tail(q))
<1>1. \A i \in DOMAIN Tail(q) : i + 1 \in DOMAIN q /\ Tail(q)[i] = q[i + 1]
  OBVIOUS
<1>2. 1 \in DOMAIN q /\ Head(q) = q[1]
  OBVIOUS
<1>3. \A i \in DOMAIN q : i = 1 \/ (i - 1 \in DOMAIN Tail(q) /\ Tail(q)[i - 1] = q[i])
  OBVIOUS
<1> QED
  BY <1>1, <1>2, <1>3 DEF Flat

\* A queue of queues holds members of its type.
LEMMA FlatType ==
  ASSUME NEW S, NEW q \in Seq(Seq(S))
  PROVE  Flat(q) \subseteq S
<1>1. \A i \in DOMAIN q : Elements(q[i]) \subseteq S
  BY ElementsType
<1> QED
  BY <1>1 DEF Flat

\* Pushing a later queue keeps the order.
LEMMA InOrderAppend ==
  ASSUME NEW S, NEW u \in [S -> Nat], NEW q \in Seq(Seq(S)), NEW s \in Seq(S),
         InOrder(q, u), Increasing(s, u), Before(Flat(q), Elements(s), u)
  PROVE  InOrder(Append(q, s), u)
<1> DEFINE r == Append(q, s)
<1>1. \A i \in DOMAIN r : \/ i \in DOMAIN q /\ r[i] = q[i]
                          \/ i = Len(q) + 1 /\ r[i] = s
  OBVIOUS
<1>2. \A i \in DOMAIN r : Increasing(r[i], u)
  BY <1>1 DEF InOrder
<1>3. \A i \in DOMAIN q : Before(Elements(q[i]), Elements(s), u)
  BY DEF Before, Flat
<1>4. ASSUME NEW i \in DOMAIN r, NEW j \in DOMAIN r, i < j
      PROVE  Before(Elements(r[i]), Elements(r[j]), u)
  <2>1. i \in DOMAIN q /\ r[i] = q[i]
    BY <1>4
  <2>2. CASE j \in DOMAIN q
    <3>1. r[j] = q[j]
      BY <2>2
    <3> QED
      BY <1>4, <2>1, <2>2, <3>1 DEF InOrder
  <2>3. CASE j = Len(q) + 1
    <3>1. r[j] = s
      BY <2>3
    <3> QED
      BY <1>3, <2>1, <3>1
  <2> QED
    BY <1>1, <2>2, <2>3
<1> QED
  BY <1>2, <1>4 DEF InOrder

\* Popping one keeps it, and the popped queue comes before the rest.
LEMMA InOrderTail ==
  ASSUME NEW S, NEW u \in [S -> Nat], NEW q \in Seq(Seq(S)), q # <<>>, InOrder(q, u)
  PROVE  /\ Increasing(Head(q), u)
         /\ InOrder(Tail(q), u)
         /\ Before(Elements(Head(q)), Flat(Tail(q)), u)
<1>1. \A i \in DOMAIN Tail(q) : i + 1 \in DOMAIN q /\ Tail(q)[i] = q[i + 1] /\ 1 < i + 1
  OBVIOUS
<1>2. 1 \in DOMAIN q /\ Head(q) = q[1] /\ DOMAIN Tail(q) \subseteq Nat
  OBVIOUS
<1>3. Increasing(Head(q), u)
  BY <1>2 DEF InOrder
<1>4. \A i \in DOMAIN Tail(q) : Increasing(Tail(q)[i], u)
  BY <1>1 DEF InOrder
<1>5. ASSUME NEW i \in DOMAIN Tail(q), NEW j \in DOMAIN Tail(q), i < j
      PROVE  Before(Elements(Tail(q)[i]), Elements(Tail(q)[j]), u)
  <2>1. i + 1 < j + 1
    BY <1>2, <1>5
  <2> QED
    BY <1>1, <2>1 DEF InOrder
<1>6. \A i \in DOMAIN Tail(q) : Before(Elements(Head(q)), Elements(Tail(q)[i]), u)
  BY <1>1, <1>2 DEF InOrder
<1>7. Before(Elements(Head(q)), Flat(Tail(q)), u)
  BY <1>6 DEF Before, Flat
<1> QED
  BY <1>3, <1>4, <1>5, <1>7 DEF InOrder

\* A queue without repetition holds an element once or not at all.
LEMMA CopiesDistinct ==
  ASSUME NEW S, NEW s \in Seq(S), Distinct(s), NEW t
  PROVE  Copies(s, t) = One(t \in Elements(s))
<1> DEFINE I == {i \in DOMAIN s : s[i] = t}
<1>1. CASE t \in Elements(s)
  <2>1. PICK i \in DOMAIN s : s[i] = t
    BY <1>1 DEF Elements
  <2>2. I = {i}
    BY <2>1 DEF Distinct
  <2> QED
    BY <1>1, <2>2, FS_Singleton DEF Copies, One
<1>2. CASE t \notin Elements(s)
  <2>1. I = {}
    BY <1>2 DEF Elements
  <2> QED
    BY <1>2, <2>1, FS_EmptySet DEF Copies, One
<1> QED
  BY <1>1, <1>2

\* A queue in the order of the ids has no repetition.
LEMMA IncreasingDistinct ==
  ASSUME NEW S, NEW u \in [S -> Nat], NEW s \in Seq(S), Increasing(s, u)
  PROVE  Distinct(s)
<1> SUFFICES ASSUME NEW i \in DOMAIN s, NEW j \in DOMAIN s, s[i] = s[j], i # j PROVE FALSE
  BY DEF Distinct
<1>1. i \in Nat /\ j \in Nat /\ u[s[i]] \in Nat
  OBVIOUS
<1>2. i < j \/ j < i
  BY <1>1
<1>3. u[s[i]] < u[s[i]]
  BY <1>2 DEF Increasing
<1> QED
  BY <1>1, <1>3

\* In a queue of queues in the order of the ids, one queue at most has t.
LEMMA CopiesInOrder ==
  ASSUME NEW S, NEW u \in [S -> Nat], NEW q \in Seq(Seq(S)), InOrder(q, u), NEW t
  PROVE  Cardinality({i \in DOMAIN q : Copies(q[i], t) > 0}) = One(t \in Flat(q))
<1> DEFINE I == {i \in DOMAIN q : t \in Elements(q[i])}
<1>1. ASSUME NEW i \in DOMAIN q PROVE Copies(q[i], t) > 0 <=> t \in Elements(q[i])
  <2>1. q[i] \in Seq(S) /\ Increasing(q[i], u)
    BY DEF InOrder
  <2>2. Copies(q[i], t) = One(t \in Elements(q[i]))
    BY <2>1, IncreasingDistinct, CopiesDistinct
  <2> QED
    BY <2>2 DEF One
<1>2. {i \in DOMAIN q : Copies(q[i], t) > 0} = I
  BY <1>1
<1>3. CASE t \in Flat(q)
  <2>1. PICK i \in DOMAIN q : t \in Elements(q[i])
    BY <1>3 DEF Flat
  <2>2. ASSUME NEW j \in DOMAIN q, t \in Elements(q[j]) PROVE j = i
    <3>1. i \in Nat /\ j \in Nat /\ q[i] \in Seq(S)
      OBVIOUS
    <3>2. u[t] \in Nat
      BY <2>1, <3>1, ElementsType
    <3>3. i < j \/ j < i => u[t] < u[t]
      BY <2>1, <2>2 DEF InOrder, Before
    <3> QED
      BY <3>1, <3>2, <3>3
  <2>3. I = {i}
    BY <2>1, <2>2
  <2> QED
    BY <1>2, <1>3, <2>3, FS_Singleton DEF One
<1>4. CASE t \notin Flat(q)
  <2>1. I = {}
    BY <1>4 DEF Flat
  <2> QED
    BY <1>2, <1>4, <2>1, FS_EmptySet DEF One
<1> QED
  BY <1>3, <1>4

-----------------------------------------------------------------------------
(* The oldest and the youngest of a set of transactions. *)

\* A set of numbers has a least member.
LEMMA LeastNat ==
  ASSUME NEW T \in SUBSET Nat, T # {}
  PROVE  \E m \in T : \A n \in T : m <= n
<1> DEFINE R == OpToRel(<, Nat)
<1>1. IsWellFoundedOn(R, Nat)
  BY NatLessThanWellFounded
<1>2. \A x, y \in Nat : x < y => <<x, y>> \in R
  BY DEF OpToRel
<1> HIDE DEF R
<1>3. PICK m \in T : \A n \in T : ~ (<<n, m>> \in R)
  BY <1>1, WFMin
<1>4. ASSUME NEW n \in T PROVE m <= n
  <2>1. n \in Nat /\ m \in Nat
    OBVIOUS
  <2>2. ~(n < m)
    BY <1>2, <1>3, <2>1
  <2> QED
    BY <2>1, <2>2
<1> QED
  BY <1>4

\* A set of transactions has an oldest member.
LEMMA Oldest ==
  ASSUME NEW S, NEW u \in [S -> Nat], NEW A \in SUBSET S, A # {}
  PROVE  \E a \in A : \A b \in A : u[a] <= u[b]
<1> DEFINE T == {u[a] : a \in A}
<1>1. T \in SUBSET Nat /\ T # {}
  OBVIOUS
<1>2. PICK m \in T : \A n \in T : m <= n
  BY <1>1, LeastNat
<1>3. PICK a \in A : m = u[a]
  OBVIOUS
<1> QED
  BY <1>2, <1>3

\* And a youngest one, as the ids given out are bounded.
LEMMA Youngest ==
  ASSUME NEW S, NEW u \in [S -> Nat], NEW A \in SUBSET S, A # {},
         NEW n \in Nat, \A a \in A : u[a] <= n
  PROVE  \E a \in A : \A b \in A : u[b] <= u[a]
<1> DEFINE v == [a \in A |-> n - u[a]]
<1>1. \A a \in A : u[a] \in Nat /\ v[a] = n - u[a] /\ n - u[a] \in Nat
  OBVIOUS
<1>2. v \in [A -> Nat]
  BY <1>1
<1> HIDE DEF v
<1>3. PICK a \in A : \A b \in A : v[a] <= v[b]
  BY <1>2, Oldest
<1>4. ASSUME NEW b \in A PROVE u[b] <= u[a]
  <2>1. n - u[a] <= n - u[b]
    BY <1>1, <1>3
  <2>2. u[a] \in Nat /\ u[b] \in Nat
    OBVIOUS
  <2> QED
    BY <2>1, <2>2
<1> QED
  BY <1>4

-----------------------------------------------------------------------------
(* The queue of requests for one record. *)

\* Counting a set by another.
LEMMA OneToOne ==
  ASSUME NEW A, NEW B, IsFiniteSet(A), NEW f \in [A -> B],
         \A a, b \in A : f[a] = f[b] => a = b,
         \A b \in B : \E a \in A : f[a] = b
  PROVE  IsFiniteSet(B) /\ Cardinality(B) = Cardinality(A)
<1>1. f \in Bijection(A, B)
  BY Fun_IsBij
<1> QED
  BY <1>1, Fun_ExistsBij, FS_Bijection

\* Two sets with nothing in common.
LEMMA Disjoint ==
  ASSUME NEW A, NEW B, IsFiniteSet(A), IsFiniteSet(B), A \cap B = {}
  PROVE  /\ IsFiniteSet(A \cup B) /\ Cardinality(A \cup B) = Cardinality(A) + Cardinality(B)
         /\ Cardinality(A) \in Nat /\ Cardinality(B) \in Nat
<1>1. Cardinality(A \cap B) = 0
  BY FS_EmptySet
<1>2. Cardinality(A) \in Nat /\ Cardinality(B) \in Nat
  BY FS_CardinalityType
<1>3. IsFiniteSet(A \cup B) /\ Cardinality(A \cup B) = Cardinality(A) + Cardinality(B) - Cardinality(A \cap B)
  BY FS_Union
<1> QED
  BY <1>1, <1>2, <1>3

LEMMA WaitsFinite ==
  ASSUME NEW R, NEW q \in Seq(R), NEW t
  PROVE  IsFiniteSet(WaitsIn(q, t)) /\ IsFiniteSet(DOMAIN q)
<1>1. IsFiniteSet(DOMAIN q)
  BY FS_Interval
<1>2. IsFiniteSet((DOMAIN q) \X (DOMAIN q))
  BY <1>1, FS_Product
<1>3. WaitsIn(q, t) \in SUBSET ((DOMAIN q) \X (DOMAIN q))
  BY DEF WaitsIn
<1> QED
  BY <1>1, <1>2, <1>3, FS_Subset

\* A new request: what its transaction waits for grows by what is in front of
\* it and conflicts with it, and nobody else waits for more or less.
LEMMA WaitsAppend ==
  ASSUME NEW R, NEW q \in Seq(R), NEW r \in R, NEW t, r.txn = t
  PROVE  /\ \A u : u # t => WaitsIn(Append(q, r), u) = WaitsIn(q, u)
         /\ NumBefore(q, r.mode) \in Nat
         /\ Cardinality(WaitsIn(Append(q, r), t)) = Cardinality(WaitsIn(q, t)) + NumBefore(q, r.mode)
         /\ NumBefore(q, r.mode) = 0 => WaitsIn(Append(q, r), t) = WaitsIn(q, t)
         /\ \A u : RequestsOf(Append(q, r), u) =
                       RequestsOf(q, u) \cup (IF u = t THEN {Len(q) + 1} ELSE {})
<1> DEFINE n == Len(q) + 1
           p == Append(q, r)
           J == {j \in DOMAIN q : Conflict(q[j].mode, r.mode)}
           New == {<<n, j>> : j \in J}
<1>1. /\ DOMAIN q = 1 .. Len(q) /\ Len(q) \in Nat /\ n \in Nat /\ DOMAIN p = (DOMAIN q) \cup {n} /\ n \notin DOMAIN q
      /\ \A i \in DOMAIN q : p[i] = q[i] /\ i < n
      /\ p[n] = r
  OBVIOUS
<1> HIDE DEF p, n
<1>2. WaitsIn(p, t) = WaitsIn(q, t) \cup New /\ WaitsIn(q, t) \cap New = {}
  <2>1. ASSUME NEW x \in WaitsIn(p, t) PROVE x \in WaitsIn(q, t) \cup New
    <3>1. PICK i \in DOMAIN p, j \in DOMAIN p : x = <<i, j>>
      BY DEF WaitsIn
    <3>2. p[i].txn = t /\ j < i /\ Conflict(p[j].mode, p[i].mode)
      BY <3>1 DEF WaitsIn
    <3>3. j \in DOMAIN q
      BY <1>1, <3>2
    <3>4. CASE i = n
      BY <1>1, <3>1, <3>2, <3>3, <3>4
    <3>5. CASE i \in DOMAIN q
      BY <1>1, <3>1, <3>2, <3>3, <3>5 DEF WaitsIn
    <3> QED
      BY <1>1, <3>4, <3>5
  <2>2. WaitsIn(q, t) \subseteq WaitsIn(p, t)
    BY <1>1 DEF WaitsIn
  <2>3. New \subseteq WaitsIn(p, t)
    BY <1>1 DEF WaitsIn
  <2>4. WaitsIn(q, t) \cap New = {}
    BY <1>1 DEF WaitsIn
  <2> QED
    BY <2>1, <2>2, <2>3, <2>4
<1>3. ASSUME NEW u, u # t PROVE WaitsIn(p, u) = WaitsIn(q, u)
  <2>1. ASSUME NEW x \in WaitsIn(p, u) PROVE x \in WaitsIn(q, u)
    <3>1. PICK i \in DOMAIN p, j \in DOMAIN p : x = <<i, j>>
      BY DEF WaitsIn
    <3>2. p[i].txn = u /\ j < i /\ Conflict(p[j].mode, p[i].mode)
      BY <3>1 DEF WaitsIn
    <3>3. i \in DOMAIN q /\ j \in DOMAIN q
      BY <1>1, <1>3, <3>2
    <3> QED
      BY <1>1, <3>1, <3>2, <3>3 DEF WaitsIn
  <2>2. WaitsIn(q, u) \subseteq WaitsIn(p, u)
    BY <1>1 DEF WaitsIn
  <2> QED
    BY <2>1, <2>2
<1>4. IsFiniteSet(New) /\ Cardinality(New) = Cardinality(J) /\ Cardinality(J) \in Nat
  <2>1. IsFiniteSet(J)
    BY WaitsFinite, FS_Subset
  <2>2. PICK f : f = [j \in J |-> <<n, j>>]
    OBVIOUS
  <2>3. f \in [J -> New] /\ (\A a, b \in J : f[a] = f[b] => a = b) /\ (\A b \in New : \E a \in J : f[a] = b)
    BY <2>2
  <2> HIDE DEF J, New
  <2> QED
    BY <2>1, <2>3, OneToOne, FS_CardinalityType
<1>5. Cardinality(J) = 0 => New = {}
  BY <1>4, FS_EmptySet
<1>6. NumBefore(q, r.mode) = Cardinality(J)
  BY DEF NumBefore
<1>7. Cardinality(WaitsIn(p, t)) = Cardinality(WaitsIn(q, t)) + Cardinality(J)
  BY <1>2, <1>4, WaitsFinite, Disjoint
<1>8. \A u : RequestsOf(p, u) = RequestsOf(q, u) \cup (IF u = t THEN {n} ELSE {})
  BY <1>1 DEF RequestsOf
<1> QED
  BY <1>2, <1>3, <1>4, <1>5, <1>6, <1>7, <1>8 DEF p, n

\* f says where in q each request of e was, which is q without the i-th.
Shifts(f, e, q, i) ==
    /\ f \in [DOMAIN e -> DOMAIN q]
    /\ \A j \in DOMAIN e : f[j] # i /\ e[j] = q[f[j]]
    /\ \A a, b \in DOMAIN e : (a < b <=> f[a] < f[b]) /\ (f[a] = f[b] => a = b)
    /\ \A m \in DOMAIN q : m # i => \E j \in DOMAIN e : f[j] = m

\* Erasing a request: the others keep their order.
LEMMA EraseShifts ==
  ASSUME NEW R, NEW q \in Seq(R), NEW i \in DOMAIN q
  PROVE  /\ Erase(q, i) \in Seq(R)
         /\ \E f : Shifts(f, Erase(q, i), q, i)
<1> DEFINE e == Erase(q, i)
<1>1. DOMAIN q = 1 .. Len(q) /\ Len(q) \in Nat /\ Len(q) - 1 \in Nat /\ i \in Nat /\ i >= 1 /\ i <= Len(q)
  OBVIOUS
<1>2. DOMAIN e = 1 .. Len(q) - 1 /\ \A j \in 1 .. Len(q) - 1 : e[j] = IF j < i THEN q[j] ELSE q[j + 1]
  BY DEF Erase
<1>3. e \in Seq(R)
  <2>1. \A j \in 1 .. Len(q) - 1 : e[j] \in R
    BY <1>1, <1>2
  <2>2. e = [j \in 1 .. Len(q) - 1 |-> e[j]]
    BY <1>2 DEF Erase
  <2> QED
    BY <1>1, <2>1, <2>2
<1>4. PICK f : f = [j \in 1 .. Len(q) - 1 |-> IF j < i THEN j ELSE j + 1]
  OBVIOUS
<1>5. f \in [DOMAIN e -> DOMAIN q]
  BY <1>1, <1>2, <1>4
<1>6. \A j \in DOMAIN e : f[j] = IF j < i THEN j ELSE j + 1
  BY <1>2, <1>4
<1> HIDE DEF e
<1>7. \A j \in DOMAIN e : f[j] # i /\ e[j] = q[f[j]]
  BY <1>1, <1>2, <1>6
<1>8. \A a, b \in DOMAIN e : (a < b <=> f[a] < f[b]) /\ (f[a] = f[b] => a = b)
  BY <1>1, <1>2, <1>6
<1>9. ASSUME NEW m \in DOMAIN q, m # i PROVE \E j \in DOMAIN e : f[j] = m
  <2>1. CASE m < i
    BY <1>1, <1>2, <1>6, <2>1
  <2>2. CASE m > i
    <3>1. m - 1 \in DOMAIN e /\ ~(m - 1 < i) /\ (m - 1) + 1 = m
      BY <1>1, <1>2, <2>2
    <3> QED
      BY <1>6, <3>1
  <2> QED
    BY <1>1, <1>9, <2>1, <2>2
<1> QED
  BY <1>3, <1>5, <1>7, <1>8, <1>9 DEF e, Shifts

\* Whoever waited for the request that goes waits for that much less; it was
\* not a request that itself had to wait.
LEMMA WaitsErase ==
  ASSUME NEW R, NEW q \in Seq(R), NEW i \in DOMAIN q, NEW u,
         \A p \in WaitsIn(q, u) : p[1] # i
  PROVE  LET unblocks == UnblockedOf(q, i, u)
         IN  /\ Cardinality(unblocks) \in Nat
             /\ Cardinality(WaitsIn(Erase(q, i), u)) = Cardinality(WaitsIn(q, u)) - Cardinality(unblocks)
             /\ unblocks = {} => Cardinality(unblocks) = 0
             /\ unblocks # {} => Cardinality(unblocks) > 0
<1> DEFINE e == Erase(q, i)
           U == UnblockedOf(q, i, u)
           A == {p \in WaitsIn(q, u) : p[2] # i}
           B == {p \in WaitsIn(q, u) : p[2] = i}
<1>1. PICK f : Shifts(f, e, q, i)
  BY EraseShifts
<1>2. e \in Seq(R)
  BY EraseShifts
<1> HIDE DEF e
<1>3. IsFiniteSet(A) /\ IsFiniteSet(B) /\ IsFiniteSet(U) /\ IsFiniteSet(WaitsIn(e, u))
  <2>1. A \in SUBSET WaitsIn(q, u) /\ B \in SUBSET WaitsIn(q, u) /\ U \in SUBSET DOMAIN q
    BY DEF Unblocked, UnblockedOf
  <2> QED
    BY <1>2, <2>1, WaitsFinite, FS_Subset
<1>4. Cardinality(B) = Cardinality(U)
  <2>1. PICK g : g = [j \in U |-> <<j, i>>]
    OBVIOUS
  <2>2. \A j \in U : <<j, i>> \in B
    BY DEF Unblocked, UnblockedOf, WaitsIn
  <2>3. \A p \in B : p[1] \in U /\ p = <<p[1], i>>
    BY DEF Unblocked, UnblockedOf, WaitsIn
  <2> HIDE DEF U, B
  <2>4. g \in [U -> B] /\ (\A a, b \in U : g[a] = g[b] => a = b) /\ (\A b \in B : \E a \in U : g[a] = b)
    BY <2>1, <2>2, <2>3
  <2> QED
    BY <1>3, <2>4, OneToOne
<1>5. Cardinality(A) = Cardinality(WaitsIn(e, u))
  <2>1. PICK g : g = [x \in WaitsIn(e, u) |-> <<f[x[1]], f[x[2]]>>]
    OBVIOUS
  <2>2. ASSUME NEW x \in WaitsIn(e, u)
        PROVE  g[x] = <<f[x[1]], f[x[2]]>> /\ g[x] \in A /\ x = <<x[1], x[2]>>
               /\ x[1] \in DOMAIN e /\ x[2] \in DOMAIN e
    <3>1. PICK a \in DOMAIN e, b \in DOMAIN e : x = <<a, b>>
      BY DEF WaitsIn
    <3>2. e[a].txn = u /\ b < a /\ Conflict(e[b].mode, e[a].mode)
      BY <3>1 DEF WaitsIn
    <3>3. <<f[a], f[b]>> \in A
      BY <1>1, <3>2 DEF WaitsIn, Shifts
    <3> QED
      BY <2>1, <3>1, <3>3
  <2>3. ASSUME NEW a \in WaitsIn(e, u), NEW b \in WaitsIn(e, u), g[a] = g[b] PROVE a = b
    <3>1. f[a[1]] = f[b[1]] /\ f[a[2]] = f[b[2]]
      BY <2>2, <2>3
    <3> QED
      BY <1>1, <2>2, <3>1 DEF Shifts
  <2>4. ASSUME NEW p \in A PROVE \E x \in WaitsIn(e, u) : g[x] = p
    <3>1. PICK m \in DOMAIN q, n \in DOMAIN q : p = <<m, n>> /\ m # i /\ n # i
      BY DEF WaitsIn
    <3>2. q[m].txn = u /\ n < m /\ Conflict(q[n].mode, q[m].mode)
      BY <3>1 DEF WaitsIn
    <3>3. PICK a \in DOMAIN e, b \in DOMAIN e : f[a] = m /\ f[b] = n
      BY <1>1, <3>1 DEF Shifts
    <3>4. <<a, b>> \in WaitsIn(e, u)
      BY <1>1, <3>2, <3>3 DEF WaitsIn, Shifts
    <3> QED
      BY <2>1, <3>1, <3>3, <3>4
  <2>5. g \in [WaitsIn(e, u) -> A]
    BY <2>1, <2>2
  <2> HIDE DEF A
  <2> QED
    BY <1>3, <2>3, <2>4, <2>5, OneToOne
<1>6. Cardinality(WaitsIn(q, u)) = Cardinality(A) + Cardinality(B)
  <2>1. WaitsIn(q, u) = A \cup B /\ A \cap B = {}
    OBVIOUS
  <2> HIDE DEF A, B
  <2> QED
    BY <1>3, <2>1, Disjoint
<1>7. Cardinality(U) \in Nat /\ Cardinality(A) \in Nat /\ (Cardinality(U) = 0 <=> U = {})
  BY <1>3, FS_CardinalityType, FS_EmptySet
<1> QED
  BY <1>4, <1>5, <1>6, <1>7 DEF e

\* What is left for the others is where it was, in front of the same.
LEMMA RequestsErase ==
  ASSUME NEW R, NEW q \in Seq(R), NEW i \in DOMAIN q, NEW u
  PROVE  /\ Erase(q, i) \in Seq(R)
         /\ WaitsIn(q, u) = {} => WaitsIn(Erase(q, i), u) = {}
         /\ RequestsOf(Erase(q, i), u) = {} <=> RequestsOf(q, u) \subseteq {i}
         /\ \A a \in DOMAIN Erase(q, i) : \E b \in DOMAIN q : b # i /\ Erase(q, i)[a] = q[b]
         /\ \A b \in DOMAIN q : b # i => \E a \in DOMAIN Erase(q, i) : Erase(q, i)[a] = q[b]
<1> DEFINE e == Erase(q, i)
<1>1. PICK f : Shifts(f, e, q, i)
  BY EraseShifts
<1>2. e \in Seq(R)
  BY EraseShifts
<1> HIDE DEF e
<1>3. ASSUME NEW x \in WaitsIn(e, u) PROVE <<f[x[1]], f[x[2]]>> \in WaitsIn(q, u)
  BY <1>1 DEF WaitsIn, Shifts
<1>4. RequestsOf(e, u) = {} <=> RequestsOf(q, u) \subseteq {i}
  BY <1>1 DEF RequestsOf, Shifts
<1>5. \A a \in DOMAIN e : \E b \in DOMAIN q : b # i /\ e[a] = q[b]
  BY <1>1 DEF Shifts
<1>6. ASSUME NEW b \in DOMAIN q, b # i PROVE \E a \in DOMAIN e : e[a] = q[b]
  <2>1. PICK a \in DOMAIN e : f[a] = b
    BY <1>1, <1>6 DEF Shifts
  <2> QED
    BY <1>1, <2>1 DEF Shifts
<1>7. WaitsIn(q, u) = {} => WaitsIn(e, u) = {}
  BY <1>3
<1> QED
  BY <1>2, <1>4, <1>5, <1>6, <1>7 DEF e

\* Listing a set of positions in their order lists each of them once.
LEMMA InQueueOrderLists ==
  ASSUME NEW J \in SUBSET Nat, IsFiniteSet(J), NEW s \in InQueueOrder(J)
  PROVE  /\ s \in Seq(J) /\ DOMAIN s = 1 .. Cardinality(J)
         /\ \A a \in DOMAIN s : s[a] \in J
         /\ \A a, b \in DOMAIN s : s[a] = s[b] => a = b
         /\ \A j \in J : \E a \in DOMAIN s : s[a] = j
<1> DEFINE n == Cardinality(J)
<1>1. n \in Nat /\ s \in [1 .. n -> J] /\ \A a, b \in 1 .. n : a < b => s[a] < s[b]
  BY FS_CardinalityType DEF InQueueOrder
<1> HIDE DEF n
<1>2. \A a, b \in 1 .. n : s[a] = s[b] => a = b
  <2>1. SUFFICES ASSUME NEW a \in 1 .. n, NEW b \in 1 .. n, s[a] = s[b], a # b PROVE FALSE
    OBVIOUS
  <2>2. a < b \/ b < a
    BY <1>1, <2>1
  <2>3. s[a] \in Nat /\ s[b] \in Nat
    BY <1>1
  <2> QED
    BY <1>1, <2>1, <2>2, <2>3
<1>3. s \in Injection(1 .. n, J)
  BY <1>1, <1>2, Fun_IsInj
<1>4. Cardinality(1 .. n) = Cardinality(J)
  <2>1. Cardinality(1 .. n) = n
    BY <1>1, FS_Interval
  <2> QED
    BY <2>1 DEF n
<1>5. s \in Surjection(1 .. n, J)
  BY <1>3, <1>4, FS_Injection
<1>6. \A j \in J : \E a \in 1 .. n : s[a] = j
  BY <1>5 DEF Surjection
<1>7. s \in Seq(J)
  BY <1>1
<1>8. DOMAIN s = 1 .. n /\ \A a \in DOMAIN s : s[a] \in J
  BY <1>1
<1> QED
  BY <1>2, <1>6, <1>7, <1>8 DEF n

-----------------------------------------------------------------------------
(* A table with a queue of requests of R for each of the records K. *)

Tables(K, R) == [K -> Seq(R)]

LEMMA WaitsNothing ==
  ASSUME NEW R, NEW K, NEW Q \in Tables(K, R), NEW t, IsFiniteSet(K)
  PROVE  /\ IsFiniteSet(WaitsInTable(Q, t))
         /\ Cardinality(WaitsInTable(Q, t)) \in Nat
         /\ Cardinality(WaitsInTable(Q, t)) = 0 <=> \A k \in K : WaitsIn(Q[k], t) = {}
<1> DEFINE A == WaitsInTable(Q, t)
<1>1. A = UNION {{k} \X WaitsIn(Q[k], t) : k \in K}
  BY DEF WaitsInTable, Tables
<1>2. IsFiniteSet(A)
  <2>1. PICK W : W = [k \in K |-> {k} \X WaitsIn(Q[k], t)]
    OBVIOUS
  <2>2. PICK S : S = {W[k] : k \in K}
    OBVIOUS
  <2>3. W \in Surjection(K, S)
    BY <2>1, <2>2 DEF Surjection
  <2>4. IsFiniteSet(S)
    BY <2>3, FS_Surjection
  <2>5. ASSUME NEW X \in S PROVE IsFiniteSet(X)
    <3>1. PICK k \in K : X = {k} \X WaitsIn(Q[k], t)
      BY <2>1, <2>2
    <3>2. Q[k] \in Seq(R)
      BY DEF Tables
    <3>3. IsFiniteSet(WaitsIn(Q[k], t)) /\ IsFiniteSet({k})
      BY <3>2, WaitsFinite, FS_Singleton
    <3> QED
      BY <3>1, <3>3, FS_Product
  <2>6. A = UNION S
    BY <1>1, <2>1, <2>2
  <2> QED
    BY <2>4, <2>5, <2>6, FS_UNION
<1>3. A = {} <=> \A k \in K : WaitsIn(Q[k], t) = {}
  <2>1. ASSUME NEW k \in K, NEW x \in WaitsIn(Q[k], t) PROVE <<k, x>> \in A
    BY <1>1
  <2>2. ASSUME NEW y \in A PROVE \E k \in K : WaitsIn(Q[k], t) # {}
    BY <1>1
  <2> QED
    BY <2>1, <2>2
<1>4. Cardinality(A) \in Nat /\ (Cardinality(A) = 0 <=> A = {})
  BY <1>2, FS_CardinalityType, FS_EmptySet
<1> QED
  BY <1>2, <1>3, <1>4

\* What a transaction waits for in all the queues, when one of them changes.
LEMMA WaitsAll ==
  ASSUME NEW R, NEW K, NEW Q \in Tables(K, R), NEW P \in Tables(K, R), NEW c \in K, NEW t,
         IsFiniteSet(K), \A k \in K : k # c => P[k] = Q[k]
  PROVE  /\ Cardinality(WaitsInTable(Q, t)) \in Nat
         /\ Cardinality(WaitsIn(Q[c], t)) \in Nat
         /\ Cardinality(WaitsIn(Q[c], t)) <= Cardinality(WaitsInTable(Q, t))
         /\ Cardinality(WaitsInTable(P, t)) = Cardinality(WaitsInTable(Q, t)) - Cardinality(WaitsIn(Q[c], t)) + Cardinality(WaitsIn(P[c], t))
<1> DEFINE A == WaitsInTable(Q, t)
           B == WaitsInTable(P, t)
           C == UNION {{k} \X WaitsIn(Q[k], t) : k \in K \ {c}}
<1> USE DEF Tables
<1>0. /\ A = UNION {{k} \X WaitsIn(Q[k], t) : k \in K}
      /\ B = UNION {{k} \X WaitsIn(P[k], t) : k \in K}
  BY DEF WaitsInTable
<1>1. A = ({c} \X WaitsIn(Q[c], t)) \cup C /\ B = ({c} \X WaitsIn(P[c], t)) \cup C
  BY <1>0
<1>2. ({c} \X WaitsIn(Q[c], t)) \cap C = {} /\ ({c} \X WaitsIn(P[c], t)) \cap C = {}
  OBVIOUS
<1>3. IsFiniteSet(C)
  <2>1. C \in SUBSET A
    BY <1>0
  <2> QED
    BY <2>1, WaitsNothing, FS_Subset
<1>4. ASSUME NEW T \in {Q[c], P[c]}
      PROVE  /\ IsFiniteSet({c} \X WaitsIn(T, t))
             /\ Cardinality({c} \X WaitsIn(T, t)) = Cardinality(WaitsIn(T, t))
             /\ Cardinality(WaitsIn(T, t)) \in Nat
  <2>1. IsFiniteSet(WaitsIn(T, t)) /\ IsFiniteSet({c}) /\ Cardinality({c}) = 1
    BY WaitsFinite, FS_Singleton
  <2>2. Cardinality({c} \X WaitsIn(T, t)) = 1 * Cardinality(WaitsIn(T, t))
    BY <2>1, FS_Product
  <2>3. IsFiniteSet({c} \X WaitsIn(T, t))
    BY <2>1, FS_Product
  <2> QED
    BY <2>1, <2>2, <2>3, FS_CardinalityType
<1> HIDE DEF A, B, C
<1>5. /\ Cardinality(A) = Cardinality(WaitsIn(Q[c], t)) + Cardinality(C)
      /\ IsFiniteSet(A) /\ Cardinality(C) \in Nat
  <2>1. PICK D : D = {c} \X WaitsIn(Q[c], t)
    OBVIOUS
  <2>2. IsFiniteSet(D) /\ Cardinality(D) = Cardinality(WaitsIn(Q[c], t))
    BY <1>4, <2>1
  <2>3. A = D \cup C /\ D \cap C = {}
    BY <1>1, <1>2, <2>1
  <2>4. Cardinality(D \cup C) = Cardinality(D) + Cardinality(C) /\ IsFiniteSet(D \cup C)
    BY <1>3, <2>2, <2>3, Disjoint
  <2>5. Cardinality(C) \in Nat
    BY <1>3, FS_CardinalityType
  <2> QED
    BY <2>2, <2>3, <2>4, <2>5
<1>6. Cardinality(B) = Cardinality(WaitsIn(P[c], t)) + Cardinality(C)
  <2>1. PICK D : D = {c} \X WaitsIn(P[c], t)
    OBVIOUS
  <2>2. IsFiniteSet(D) /\ Cardinality(D) = Cardinality(WaitsIn(P[c], t))
    BY <1>4, <2>1
  <2>3. B = D \cup C /\ D \cap C = {}
    BY <1>1, <1>2, <2>1
  <2> QED
    BY <1>3, <2>2, <2>3, Disjoint
<1> QED
  BY <1>4, <1>5, <1>6 DEF A, B

\* One queue grows: its transaction waits for that much more.
LEMMA TableAppend ==
  ASSUME NEW R, NEW K, NEW Q \in Tables(K, R), NEW P \in Tables(K, R), NEW c \in K, NEW t,
         NEW n \in Nat, IsFiniteSet(K), \A k \in K : k # c => P[k] = Q[k],
         Cardinality(WaitsIn(P[c], t)) = Cardinality(WaitsIn(Q[c], t)) + n
  PROVE  Cardinality(WaitsInTable(P, t)) = Cardinality(WaitsInTable(Q, t)) + n
<1>1. /\ Cardinality(WaitsInTable(Q, t)) \in Nat
      /\ Cardinality(WaitsIn(Q[c], t)) \in Nat
      /\ Cardinality(WaitsInTable(P, t)) = Cardinality(WaitsInTable(Q, t)) - Cardinality(WaitsIn(Q[c], t)) + Cardinality(WaitsIn(P[c], t))
  BY WaitsAll
<1> QED
  BY <1>1

\* A request that goes, seen by a transaction it does not make wait: it waits
\* for that much less.
LEMMA TableErase ==
  ASSUME NEW R, NEW K, NEW Q \in Tables(K, R), NEW P \in Tables(K, R), NEW c \in K,
         NEW i \in DOMAIN Q[c], NEW u, NEW n, IsFiniteSet(K),
         P[c] = Erase(Q[c], i), \A k \in K : k # c => P[k] = Q[k],
         \A p \in WaitsIn(Q[c], u) : p[1] # i,
         n = Cardinality(UnblockedOf(Q[c], i, u))
  PROVE  /\ n \in Nat
         /\ n = 0 <=> \A j \in Unblocked(Q[c], i) : Q[c][j].txn # u
         /\ Cardinality(WaitsInTable(Q, u)) \in Nat
         /\ Cardinality(WaitsInTable(P, u)) \in Nat
         /\ Cardinality(WaitsInTable(P, u)) = Cardinality(WaitsInTable(Q, u)) - n
         /\ Cardinality(WaitsInTable(Q, u)) = 0 <=> \A k \in K : WaitsIn(Q[k], u) = {}
         /\ Cardinality(WaitsInTable(P, u)) = 0 <=> \A k \in K : WaitsIn(P[k], u) = {}
<1>1. Q[c] \in Seq(R)
  BY DEF Tables
<1> DEFINE U == UnblockedOf(Q[c], i, u)
<1>2. /\ n \in Nat
      /\ Cardinality(WaitsIn(P[c], u)) = Cardinality(WaitsIn(Q[c], u)) - n
      /\ (U = {} => n = 0) /\ (U # {} => n > 0)
  BY <1>1, WaitsErase
<1>3. n = 0 <=> \A j \in Unblocked(Q[c], i) : Q[c][j].txn # u
  BY <1>2 DEF UnblockedOf
<1>4. /\ Cardinality(WaitsInTable(Q, u)) \in Nat
      /\ Cardinality(WaitsIn(Q[c], u)) \in Nat
      /\ Cardinality(WaitsInTable(P, u)) = Cardinality(WaitsInTable(Q, u)) - Cardinality(WaitsIn(Q[c], u)) + Cardinality(WaitsIn(P[c], u))
  BY WaitsAll
<1>5. /\ Cardinality(WaitsInTable(P, u)) \in Nat
      /\ Cardinality(WaitsInTable(Q, u)) = 0 <=> \A k \in K : WaitsIn(Q[k], u) = {}
      /\ Cardinality(WaitsInTable(P, u)) = 0 <=> \A k \in K : WaitsIn(P[k], u) = {}
  BY WaitsNothing
<1>6. Cardinality(WaitsInTable(P, u)) = Cardinality(WaitsInTable(Q, u)) - n
  BY <1>2, <1>4
<1> QED
  BY <1>2, <1>3, <1>4, <1>5, <1>6, Zenon

\* A transaction that waits for one request only is unblocked once.
LEMMA UnblockedOnce ==
  ASSUME NEW R, NEW q \in Seq(R), NEW i \in DOMAIN q, NEW u,
         Cardinality(UnblockedOf(q, i, u)) <= 1
  PROVE  \A j, l \in Unblocked(q, i) : q[j].txn = u /\ q[l].txn = u => j = l
<1> DEFINE U == UnblockedOf(q, i, u)
<1>1. SUFFICES ASSUME NEW j \in U, NEW l \in U PROVE j = l
  BY DEF UnblockedOf
<1>2. U \in SUBSET DOMAIN q
  BY DEF Unblocked, UnblockedOf
<1>3. IsFiniteSet(U)
  BY <1>2, FS_Interval, FS_Subset
<1>4. Cardinality(U) \in Nat /\ Cardinality(U) # 0
  BY <1>3, FS_CardinalityType, FS_EmptySet
<1>5. Cardinality(U) = 1
  BY <1>4
<1> HIDE DEF U
<1>6. \E m : U = {m}
  BY <1>3, <1>5, FS_Singleton
<1> QED
  BY <1>6

\* A table of requests Q becomes P by the release of the i-th request for c,
\* t's only one, when W are counts that suffice for what each transaction of T
\* waits for.
Releases(T, R, K, Q, P, W, c, i, t) ==
    /\ Q \in Tables(K, R) /\ P \in Tables(K, R) /\ IsFiniteSet(K)
    /\ c \in K /\ i \in DOMAIN Q[c]
    /\ P[c] = Erase(Q[c], i) /\ \A k \in K : k # c => P[k] = Q[k]
    /\ t \in T /\ t = Q[c][i].txn /\ UnblockedOf(Q[c], i, t) = {}
    /\ \A x \in R : x.txn \in T
    /\ W \in [T -> Nat] /\ \A u \in T : Cardinality(WaitsInTable(Q, u)) <= W[u]

\* What it takes from the counts, and who is ready now: the transactions of r.
Unblocks(T, Q, P, W, c, i, t, r) ==
    /\ Cardinality(UnblockedOf(Q[c], i, t)) = 0
    /\ \A u \in T : /\ Cardinality(UnblockedOf(Q[c], i, u)) \in Nat
                    /\ Cardinality(UnblockedOf(Q[c], i, u)) <= W[u]
    /\ \A u \in T \ {t} :
         Cardinality(WaitsInTable(P, u))
             = Cardinality(WaitsInTable(Q, u)) - Cardinality(UnblockedOf(Q[c], i, u))
    /\ r \in Seq(T) /\ Distinct(r)
    /\ \A u \in T : u \in Elements(r) <=> W[u] = 1 /\ Cardinality(UnblockedOf(Q[c], i, u)) = 1

LEMMA TableRelease ==
  ASSUME NEW T, NEW R, NEW K, NEW Q, NEW P, NEW W, NEW c, NEW i, NEW t, NEW now,
         Releases(T, R, K, Q, P, W, c, i, t),
         now \in InQueueOrder(LastWaits(Q[c], i, W))
  PROVE  Unblocks(T, Q, P, W, c, i, t, TxnsAt(Q[c], now))
<1> USE DEF Releases
<1> DEFINE N(u) == Cardinality(UnblockedOf(Q[c], i, u))
<1>1. N(t) = 0
  BY FS_EmptySet
<1>3. ASSUME NEW u \in T, u # t
      PROVE  /\ N(u) \in Nat
             /\ N(u) = 0 <=> \A j \in Unblocked(Q[c], i) : Q[c][j].txn # u
             /\ Cardinality(WaitsInTable(Q, u)) \in Nat
             /\ Cardinality(WaitsInTable(P, u)) \in Nat
             /\ Cardinality(WaitsInTable(P, u)) = Cardinality(WaitsInTable(Q, u)) - N(u)
  <2>1. \A p \in WaitsIn(Q[c], u) : p[1] # i
    BY <1>3 DEF WaitsIn
  <2>2. PICK n : n = Cardinality(UnblockedOf(Q[c], i, u))
    OBVIOUS
  <2> QED
    BY <2>1, <2>2, TableErase
<1>4. ASSUME NEW u \in T
      PROVE  /\ N(u) \in Nat
             /\ N(u) <= W[u]
             /\ N(u) > 0 <=> \E j \in Unblocked(Q[c], i) : Q[c][j].txn = u
  <2>1. W[u] \in Nat
    OBVIOUS
  <2>2. CASE u = t
    <3>1. \A j \in Unblocked(Q[c], i) : Q[c][j].txn # u
      BY <2>2 DEF UnblockedOf
    <3>2. N(u) = 0
      BY <1>1, <2>2
    <3>3. N(u) \in Nat /\ ~(N(u) > 0) /\ N(u) <= W[u]
      BY <2>1, <3>2
    <3> QED
      BY <3>1, <3>3, Zenon
  <2>3. CASE u # t
    <3>1. Cardinality(WaitsInTable(Q, u)) <= W[u]
      OBVIOUS
    <3> QED
      BY <1>3, <2>1, <2>3, <3>1
  <2> QED
    BY <2>2, <2>3
<1>5. \A u \in T : N(u) \in Nat /\ N(u) <= W[u]
  BY <1>4
<1>6. \A u \in T \ {t} : Cardinality(WaitsInTable(P, u)) = Cardinality(WaitsInTable(Q, u)) - N(u)
  BY <1>3
<1>7. PICK q : q = Q[c]
  OBVIOUS
<1>8. PICK r : r = [n \in DOMAIN now |-> q[now[n]].txn]
  OBVIOUS
<1>2. PICK J : J = LastWaits(Q[c], i, W)
  OBVIOUS
<1>11. r = TxnsAt(Q[c], now)
  BY <1>7, <1>8 DEF TxnsAt
<1>9. /\ r \in Seq(T) /\ Distinct(r)
      /\ \A u \in T : u \in Elements(r) <=> W[u] = 1 /\ \E j \in Unblocked(q, i) : q[j].txn = u
  <2>0. /\ q \in Seq(R) /\ i \in DOMAIN q
        /\ J = {j \in Unblocked(q, i) : W[q[j].txn] = 1}
    BY <1>2, <1>7 DEF Tables, LastWaits
  <2>1. J \in SUBSET DOMAIN q /\ J \in SUBSET Nat
    BY <2>0 DEF Unblocked
  <2>2. IsFiniteSet(J)
    BY <2>0, <2>1, FS_Interval, FS_Subset
  <2>3. ASSUME NEW j \in J
        PROVE  q[j].txn \in T /\ W[q[j].txn] = 1 /\ j \in Unblocked(q, i)
    <3>1. j \in DOMAIN q
      BY <2>1
    <3>2. q[j] \in R
      BY <2>0, <3>1
    <3> QED
      BY <2>0, <3>2
  <2>4. ASSUME NEW j \in J, NEW l \in J, q[j].txn = q[l].txn PROVE j = l
    <3>1. Cardinality(UnblockedOf(q, i, q[j].txn)) <= 1
      <4>1. PICK u \in T : u = q[j].txn
        BY <2>3
      <4>2. W[u] = 1 /\ Cardinality(UnblockedOf(q, i, u)) <= W[u]
        BY <1>4, <1>7, <2>3, <4>1
      <4> QED
        BY <4>1, <4>2
    <3> QED
      BY <2>0, <2>3, <2>4, <3>1, UnblockedOnce
  <2>5. /\ now \in Seq(J) /\ DOMAIN now = 1 .. Cardinality(J)
        /\ \A a \in DOMAIN now : now[a] \in J
        /\ \A a, b \in DOMAIN now : now[a] = now[b] => a = b
        /\ \A j \in J : \E a \in DOMAIN now : now[a] = j
    BY <1>2, <2>1, <2>2, InQueueOrderLists
  <2>6. DOMAIN r = DOMAIN now /\ \A a \in DOMAIN r : now[a] \in J /\ r[a] = q[now[a]].txn
    BY <1>8, <2>5
  <2>7. r \in Seq(T)
    <3>1. PICK n : n = Cardinality(J)
      OBVIOUS
    <3>2. n \in Nat
      BY <2>2, <3>1, FS_CardinalityType
    <3>3. DOMAIN r = 1 .. n /\ \A a \in 1 .. n : r[a] \in T
      BY <2>3, <2>5, <2>6, <3>1
    <3>4. r = [a \in 1 .. n |-> r[a]]
      BY <1>8, <2>5, <3>1
    <3>5. r \in [1 .. n -> T]
      BY <3>3, <3>4
    <3> QED
      BY <3>2, <3>5
  <2>8. Distinct(r)
    <3>1. SUFFICES ASSUME NEW a \in DOMAIN r, NEW b \in DOMAIN r, r[a] = r[b] PROVE a = b
      BY DEF Distinct
    <3>2. now[a] \in J /\ now[b] \in J /\ q[now[a]].txn = q[now[b]].txn
      BY <2>6, <3>1
    <3>3. now[a] = now[b]
      BY <2>4, <3>2
    <3> QED
      BY <2>5, <2>6, <3>3
  <2>9. ASSUME NEW u PROVE u \in Elements(r) <=> \E j \in J : q[j].txn = u
    <3>1. ASSUME NEW j \in J, q[j].txn = u PROVE \E a \in DOMAIN r : r[a] = u
      <4>1. PICK a \in DOMAIN now : now[a] = j
        BY <2>5
      <4> QED
        BY <2>6, <3>1, <4>1
    <3>2. ASSUME NEW a \in DOMAIN r, r[a] = u PROVE \E j \in J : q[j].txn = u
      BY <2>6, <3>2
    <3>3. u \in Elements(r) <=> \E a \in DOMAIN r : r[a] = u
      BY DEF Elements
    <3> QED
      BY <3>1, <3>2, <3>3, Zenon
  <2>10. ASSUME NEW u \in T
        PROVE  u \in Elements(r) <=> W[u] = 1 /\ \E j \in Unblocked(q, i) : q[j].txn = u
    <3>1. ASSUME W[u] = 1, NEW j \in Unblocked(q, i), q[j].txn = u PROVE j \in J
      BY <2>0, <3>1
    <3>2. ASSUME NEW j \in J, q[j].txn = u PROVE W[u] = 1 /\ j \in Unblocked(q, i)
      BY <2>3, <3>2
    <3> QED
      BY <2>9, <3>1, <3>2, Zenon
  <2> QED
    BY <1>8, <2>7, <2>8, <2>10
<1>10. ASSUME NEW u \in T PROVE u \in Elements(r) <=> W[u] = 1 /\ N(u) = 1
  <2>1. /\ N(u) \in Nat /\ N(u) <= W[u] /\ W[u] \in Nat
        /\ N(u) > 0 <=> \E j \in Unblocked(q, i) : q[j].txn = u
    BY <1>4, <1>7
  <2> HIDE DEF N
  <2>2. W[u] = 1 /\ N(u) > 0 <=> W[u] = 1 /\ N(u) = 1
    BY <2>1
  <2> QED
    BY <1>9, <2>1, <2>2, Zenon
<1> QED
  BY <1>1, <1>5, <1>6, <1>9, <1>10, <1>11 DEF Unblocks

-----------------------------------------------------------------------------
(* Pushing several elements. *)

LEMMA ElementsConcat ==
  ASSUME NEW S, NEW s \in Seq(S), NEW r \in Seq(S)
  PROVE  /\ s \o r \in Seq(S)
         /\ Elements(s \o r) = Elements(s) \cup Elements(r)
         /\ \A t : Copies(s \o r, t) = Copies(s, t) + Copies(r, t)
         /\ \A t : Copies(s, t) \in Nat /\ (Copies(s, t) = 0 <=> t \notin Elements(s))
<1> DEFINE c == s \o r
           n == Len(s)
<1>1. /\ c \in Seq(S) /\ DOMAIN c = 1 .. n + Len(r) /\ n \in Nat /\ Len(r) \in Nat
      /\ DOMAIN s = 1 .. n /\ DOMAIN r = 1 .. Len(r)
      /\ \A i \in 1 .. n + Len(r) : c[i] = IF i <= n THEN s[i] ELSE r[i - n]
  OBVIOUS
<1> HIDE DEF c, n
<1>2. \A i \in DOMAIN s : i \in DOMAIN c /\ c[i] = s[i]
  BY <1>1
<1>3. ASSUME NEW i \in DOMAIN r PROVE n + i \in DOMAIN c /\ c[n + i] = r[i] /\ n + i \notin DOMAIN s
  <2>1. n + i \in 1 .. n + Len(r) /\ ~(n + i <= n) /\ (n + i) - n = i
    BY <1>1
  <2> QED
    BY <1>1, <2>1
<1>4. ASSUME NEW i \in DOMAIN c, i \notin DOMAIN s PROVE i - n \in DOMAIN r /\ c[i] = r[i - n]
  BY <1>1, <1>4
<1>5. Elements(c) = Elements(s) \cup Elements(r)
  <2>1. ASSUME NEW x \in Elements(c) PROVE x \in Elements(s) \cup Elements(r)
    BY <1>2, <1>4 DEF Elements
  <2>2. ASSUME NEW x \in Elements(s) \cup Elements(r) PROVE x \in Elements(c)
    <3>1. CASE x \in Elements(s)
      BY <1>2, <3>1 DEF Elements
    <3>2. CASE x \in Elements(r)
      <4>1. PICK i \in DOMAIN r : x = r[i]
        BY <3>2 DEF Elements
      <4> QED
        BY <1>3, <4>1 DEF Elements
    <3> QED
      BY <2>2, <3>1, <3>2
  <2> QED
    BY <2>1, <2>2
<1>6. ASSUME NEW t PROVE Copies(c, t) = Copies(s, t) + Copies(r, t)
  <2> DEFINE A == {i \in DOMAIN s : s[i] = t}
             B == {i \in DOMAIN c : i \notin DOMAIN s /\ c[i] = t}
             D == {i \in DOMAIN r : r[i] = t}
  <2>1. A \cup B = {i \in DOMAIN c : c[i] = t} /\ A \cap B = {}
    BY <1>2
  <2>2. IsFiniteSet(A) /\ IsFiniteSet(D) /\ IsFiniteSet(B)
    <3>1. IsFiniteSet(DOMAIN s) /\ IsFiniteSet(DOMAIN r) /\ IsFiniteSet(DOMAIN c)
      BY <1>1, FS_Interval
    <3>2. A \in SUBSET DOMAIN s /\ B \in SUBSET DOMAIN c /\ D \in SUBSET DOMAIN r
      OBVIOUS
    <3> QED
      BY <3>1, <3>2, FS_Subset
  <2>3. Cardinality(B) = Cardinality(D)
    <3>1. PICK f : f = [i \in D |-> n + i]
      OBVIOUS
    <3>2. \A i \in D : f[i] \in B
      BY <1>3, <3>1
    <3>3. \A i \in B : i - n \in D /\ f[i - n] = i
      BY <1>1, <1>4, <3>1
    <3>4. \A i, j \in D : f[i] = f[j] => i = j
      BY <1>1, <3>1
    <3>5. f \in [D -> B]
      BY <3>1, <3>2
    <3>6. \A b \in B : \E a \in D : f[a] = b
      BY <3>3
    <3> HIDE DEF B, D
    <3> QED
      BY <2>2, <3>4, <3>5, <3>6, OneToOne
  <2>4. Cardinality(A \cup B) = Cardinality(A) + Cardinality(B)
    BY <2>1, <2>2, Disjoint
  <2> QED
    BY <2>1, <2>3, <2>4 DEF Copies
<1>7. ASSUME NEW t PROVE Copies(s, t) \in Nat /\ (Copies(s, t) = 0 <=> t \notin Elements(s))
  <2>1. PICK D : D = {i \in DOMAIN s : s[i] = t}
    OBVIOUS
  <2>2. IsFiniteSet(D)
    <3>1. IsFiniteSet(DOMAIN s)
      BY <1>1, FS_Interval
    <3>2. D \in SUBSET DOMAIN s
      BY <2>1
    <3> QED
      BY <3>1, <3>2, FS_Subset
  <2>3. Copies(s, t) = Cardinality(D)
    BY <2>1 DEF Copies
  <2>4. D = {} <=> t \notin Elements(s)
    BY <2>1 DEF Elements
  <2>5. Cardinality(D) \in Nat /\ (Cardinality(D) = 0 <=> D = {})
    BY <2>2, FS_CardinalityType, FS_EmptySet
  <2> QED
    BY <2>3, <2>4, <2>5
<1> QED
  BY <1>1, <1>5, <1>6, <1>7 DEF c

LEMMA DistinctConcat ==
  ASSUME NEW S, NEW s \in Seq(S), NEW r \in Seq(S), Distinct(s), Distinct(r),
         Elements(s) \cap Elements(r) = {}
  PROVE  Distinct(s \o r)
<1> DEFINE c == s \o r
           n == Len(s)
<1>1. /\ DOMAIN c = 1 .. n + Len(r) /\ n \in Nat /\ Len(r) \in Nat
      /\ DOMAIN s = 1 .. n /\ DOMAIN r = 1 .. Len(r)
      /\ \A i \in 1 .. n + Len(r) : c[i] = IF i <= n THEN s[i] ELSE r[i - n]
  OBVIOUS
<1> HIDE DEF c, n
<1>2. \A i \in DOMAIN c : \/ i \in DOMAIN s /\ c[i] = s[i] /\ c[i] \in Elements(s)
                          \/ i - n \in DOMAIN r /\ c[i] = r[i - n] /\ c[i] \in Elements(r)
  BY <1>1 DEF Elements
<1>3. ASSUME NEW i \in DOMAIN c, NEW j \in DOMAIN c, c[i] = c[j] PROVE i = j
  <2>1. i \in Int /\ j \in Int
    BY <1>1
  <2> QED
    BY <1>1, <1>2, <1>3, <2>1 DEF Distinct
<1> QED
  BY <1>3 DEF Distinct, c
=============================================================================
