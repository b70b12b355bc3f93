--------------------------- MODULE RequestQueues ----------------------------
(***************************************************************************)
(* The queue of one record in a lock table (deque<LockRequest>), a         *)
(* sequence of requests with the fields txn and mode.  A request waits for *)
(* those in front of it that it conflicts with, and for no other.          *)
(***************************************************************************)
EXTENDS Queues

Conflict(m, n) == m = "EXCLUSIVE" \/ n = "EXCLUSIVE"

\* Where t's own requests are.
RequestsOf(q, t) == {i \in DOMAIN q : q[i].txn = t}

\* How many requests a new one of mode m has to wait for.
NumBefore_ExclusivesOnly(q, m) ==
    Cardinality({i \in DOMAIN q : q[i].mode = "EXCLUSIVE"})
NumBefore(q, m) ==
    Cardinality({i \in DOMAIN q : Conflict(q[i].mode, m)})

\* The positions behind i whose requests had to wait for the one at i.
Unblocked_NextOnly(q, i) == DOMAIN q \cap {i + 1}
Unblocked(q, i) == {j \in DOMAIN q : i < j /\ Conflict(q[i].mode, q[j].mode)}

UnblockedOf(q, i, t) == {j \in Unblocked(q, i) : q[j].txn = t}

\* Of these, by the counts of what each transaction waits for, those whose
\* transaction waits for nothing else.
LastWaits(q, i, waits) == {j \in Unblocked(q, i) : waits[q[j].txn] = 1}

\* q without its i-th request.
Erase(q, i) == [j \in 1 .. Len(q) - 1 |-> IF j < i THEN q[j] ELSE q[j + 1]]

\* What t waits for in q: the positions of a request of its own and of one in
\* front of it.
WaitsIn(q, t) ==
    {p \in (DOMAIN q) \X (DOMAIN q) :
        /\ q[p[1]].txn = t
        /\ p[2] < p[1]
        /\ Conflict(q[p[2]].mode, q[p[1]].mode)}

\* What t waits for in a whole table of queues.
WaitsInTable(Q, t) == UNION {{k} \X WaitsIn(Q[k], t) : k \in DOMAIN Q}

\* A set of positions in the order of the queue.
InQueueOrder(J) ==
    {s \in [1 .. Cardinality(J) -> J] : \A a, b \in DOMAIN s : a < b => s[a] < s[b]}

\* The transactions at the positions listed in s.
TxnsAt(q, s) == [n \in DOMAIN s |-> q[s[n]].txn]
=============================================================================
