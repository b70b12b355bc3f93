------------------------------- MODULE Queues -------------------------------
(***************************************************************************)
(* Vocabulary about the FIFO queues of the processor (AtomicQueue, deque,  *)
(* std::queue), each modelled as a sequence, and about the order of the    *)
(* transactions in them, u giving each its unique id.                      *)
(***************************************************************************)
EXTENDS Integers, Sequences, FiniteSets

Elements(s) == {s[i] : i \in DOMAIN s}

\* No element occurs twice.
Distinct(s) == \A i, j \in DOMAIN s : s[i] = s[j] => i = j

\* How often t occurs in s, and a condition as a number.
Copies(s, t) == Cardinality({i \in DOMAIN s : s[i] = t})
One(b)       == IF b THEN 1 ELSE 0

\* Every member of A has a smaller id than every member of B.
Before(A, B, u) == \A a \in A, b \in B : u[a] < u[b]

Increasing(s, u) == \A i, j \in DOMAIN s : i < j => u[s[i]] < u[s[j]]

\* The same about a queue of queues.
Flat(q) == UNION {Elements(q[i]) : i \in DOMAIN q}

InOrder(q, u) ==
    /\ \A i \in DOMAIN q : Increasing(q[i], u)
    /\ \A i, j \in DOMAIN q : i < j => Before(Elements(q[i]), Elements(q[j]), u)
=============================================================================
