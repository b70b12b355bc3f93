# TLA+ model of TxnProcessor

The repository is an in-memory transaction processor in C++ (`src/a2/src`) with
one client interface and ten concurrency-control modes: the classical ones of a
course assignment (serial, two locking schemes, two optimistic ones, two
multi-version ones) and three variants of a Calvin-style deterministic
scheduler. This directory holds TLA+ modules that model it, TLC
configurations that check them on small instances, and TLAPS proofs of the
central properties for every instance.

All paths below are relative to `src/a2/src` unless they start with `src/`.

## 1. Inventory

### The parts and how they interact

A client thread calls `NewTxnRequest`, which numbers a `Txn` and pushes it
into `txn_requests_`, and `GetTxnResult`, which waits for one in
`txn_results_`. Between the two queues one scheduler thread (`RunScheduler`,
which picks the loop of the mode) and the threads of the pool `tp_` take the
transaction through `ExecuteTxn` (read the records, run the program, push into
`completed_txns_`), a decision (`ApplyWrites` and `COMMITTED`, or `ABORTED`)
and the push into `txn_results_`. After that the client owns the object again.

| component | state | operations | what is hard | what makes it correct |
|---|---|---|---|---|
| `TxnProcessor`, common part (`txn/txn_processor.cc/.h`) | id counter, request/result/completed queues, `committed_txns_` | `NewTxnRequest`, `GetTxnResult`, `ExecuteTxn`, `ApplyWrites` | the same `Txn` is used by client, scheduler and workers | each request answered once; nobody touches a transaction the client owns |
| `Txn` (`txn/txn.cc/.h`) | sets of keys, reads, writes, status | `Read`, `Write`, `Run`, `Status` | status read by other threads | a decision is final |
| `Storage` (`txn/storage.cc`) | record → value, timestamp | `Read`, `Write` | reads race with `ApplyWrites` | isolation is the mode's job |
| `RunScheduler`'s dispatch, SERIAL (`txn_processor.cc:120-175`) | – | one loop | – | the reference order |
| `LockManagerA/B` (`txn/lock_manager.cc`) | lock table, wait counts, ready queue | `ReadLock`, `WriteLock`, `Release`, `Status` | one count per transaction for all its records, requests that leave from the middle of a queue | counts exact, ready exactly when all locks are owned |
| LOCKING, LOCKING_EXCLUSIVE_ONLY (`txn_processor.cc:177`) | `ready_txns_`, the lock manager | one scheduler loop, pool tasks | two ways into the ready queue | conflict exclusion, serializability, no deadlock |
| OCC, P_OCC (`txn_processor.cc:286-481`) | `committed_txns_`, `occ_start_idx_`, `active_set_` | validate, apply, restart | validation against what committed meanwhile | what is read is current at the commit |
| MVCC, MVCC_SSI (`txn_processor.cc:482-675`, `txn/mvcc_storage.cc`) | version lists, per-record mutex | `Read`, `CheckKey`, `Write`, restart | check and installation as one critical section | versions in the order of ids, installed as a whole |
| CALVIN_CONT (`txn/calvin.cc:6-145`) | one never-ending DAG under two mutexes | add, execute, unblock | edges from transactions that are finishing | conflict order |
| CALVIN_CONT_INDIV (`txn/calvin.cc:150-291`) | the DAG in the transactions, a mutex each | the same | `try_lock`, atomic indegree | conflict order |
| CALVIN_EPOCH (`txn/calvin.cc:297-535`) | open epoch, queue of epochs, the epoch's DAG, count of unfinished transactions, ready queue | sequencer, scheduler and executor loops | three kinds of threads, a DAG that is built, shared and freed | see section 3 |
| `StaticThreadPool` (`utils/static_thread_pool.h`) | a task queue per thread | `AddTask`, `RunThread`, destructor | endless tasks, draining on destruction | every task runs |
| `AtomicQueue/Vector/Map/Set`, `Mutex` (`utils/atomic.h`, `mutex.h`) | a container | one lock round each operation | – | each operation is atomic |
| constructor, destructor | `stopped_`, `current_epoch_dag`, threads | start, stop, join, delete | threads started before fields are set; members destroyed in declaration order | nobody uses what is destroyed |

`PROJECT.json` lists every component with its status, and every place where
this code is hard to test, under `hazards`; the properties below are chosen
from that list.

### Plan

The order follows the code's own weight: the deterministic epoch scheduler,
which the repository is about, first.

1. Done: `TxnCore`, `CalvinEpoch` and its proofs; `LockManager`, `LockClient`,
   `SerialDB` (the abstract promise), `LockingScheduler` refining it.
2. Done: `CalvinCont` and `CalvinContIndiv`, over `ContinuousDag`. The question
   there is whether the order of arrival survives edges that are skipped for a
   predecessor that has voted but not yet written, or whose mutex is taken.
3. Done: `PooledModes`, `OCC` (both validators), `MVCC` with its storage, and
   `RunScheduler`, which composes them with the SERIAL scheduler and the client
   into one processor. The question is what validation lets through, and
   whether restarts lose or repeat a request. `SerialDB` is not refined: OCC and
   P_OCC commit transactions that no serial order explains (section 3), and MVCC
   does not claim to.
4. Done: `Lifecycle` (construction and destruction, with the field a started
   thread may read before it is set) over `ThreadPool`, which refines `TaskPool`.
5. Done, proofs: every safety invariant, action property and refinement that a
   passing run checks, of every mode and of the life cycle (section 4).
6. Open: what the prover cannot reach (liveness, absence of deadlocks), and the
   hazards of `PROJECT.json` that have no property.

## 2. Modules

| module | what it is |
|---|---|
| `Database` | the two constants everything is about: the transactions and the records |
| `TxnCore` | the client's two calls, `ExecuteTxn`, `ApplyWrites`, commit and abort, as steps of a thread; every mode extends it |
| `CalvinEpoch` | CALVIN_EPOCH: `RunCalvinEpochSequencer`, `RunCalvinEpochScheduler` with `CalvinExecuteSingleEpoch`, `CalvinEpochExecutorFunc`, the destructor's stop flag |
| `CalvinEpochProofs` | theorems about it: its pipeline, its DAG and where a request is, what is read |
| `Queues`, `RequestQueues` | what a queue holds, how often and in which order; the queue of one record in a lock table, and who waits for whom in it |
| `QueueLemmas` | what append, tail, erase and updates of one queue among many do to these notions |
| `ContinuousDag` | what the next two share: the scheduler's maps, the ready queue, execution up to the decision, leaving the loops |
| `CalvinCont` | CALVIN_CONT: `RunCalvinContScheduler`, `CalvinContExecutorFunc`, their two locks |
| `CalvinContProofs` | theorems about it: counts, locks and places; the order its edges keep |
| `CalvinContIndiv` | CALVIN_CONT_INDIV: `RunCalvinContIndivScheduler`, `CalvinContIndivExecutorFunc`, the mutexes inside `Txn` |
| `CalvinContIndivProofs` | theorems about it: counts, mutexes and places; what the scan has visited; what is read |
| `LockManager` | both lock managers: lock table, counts and ready queue, over `RequestQueues` |
| `LockClient` | a lock manager and any client that keeps the contract of `lock_manager.h:31-58` |
| `LockClientProofs` | theorems about it |
| `LockingScheduler` | both locking modes: scheduler, pool workers, client, destructor |
| `LockingProofs` | theorems about it, and the refinement of `SerialDB` |
| `SerialDB` | abstract specification: each transaction runs once, alone and at one moment, or aborts |
| `PooledModes` | what SERIAL, OCC, P_OCC and MVCC share: the pool's task queues, passing a request on, the vote, the restart |
| `OCC` | the two optimistic modes: `RunOCCScheduler`, `RunOCCParallelScheduler`, `ExecuteTxnParallel` |
| `MVCC` | `RunMVCCScheduler`, `MVCCExecuteTxn` and `MVCCStorage` |
| `RunScheduler` | one processor in any of these modes: the dispatch, the SERIAL scheduler, the client; the properties |
| `RunSchedulerProofs` | theorems about it |
| `TaskPool` | abstract specification of a thread pool: every task is run once, and the pool closes after all of them |
| `ThreadPool` | `StaticThreadPool`: `AddTask`, `RunThread`, the destructor |
| `Lifecycle` | `TxnProcessor`'s constructor and destructor over `ThreadPool`, against all its threads |
| `LifecycleProofs` | theorems about it, and the refinement of `TaskPool` |
| `MCCalvinEpoch`, `MCCalvinCont`, `MCCalvinContIndiv`, `MCLockClient`, `MCLocking`, `MCRunScheduler`, `MCLifecycle` | instances for TLC |

### How state and actions correspond to the code

- **Data.** The value of a record is the transaction that wrote it (`NoTxn` is
  what `InitStorage` put there). What matters is which write a read sees, and
  that is exactly what this keeps. `reads` is what the storage returned;
  `Txn::Write`, which also mirrors the program's own writes into `reads_`, is
  left out, since nobody looks at them later. The vote of `Run` is a choice:
  the transactions in `MayAbort` may vote abort.
- **Grain.** One step is one operation on something another thread can see:
  one queue operation, one `Storage::Read` or `Write`, one call of the lock
  manager, one fetch-and-decrement, one test of a shared flag. `ExecuteTxn` and `ApplyWrites` are loops of
  one step per record, in key order. In `CalvinEpoch`, the scan of one
  transaction of an epoch (`AddToDag`) is one step: until the DAG is published
  only the scheduler's local variables change. A pop that finds its queue empty
  changes nothing and is not a step there.
- **Threads.** `pc`, `cur` and `todo` are each thread's location, its local
  `txn` and what its current loop has still to visit.
- **Queues.** Every operation of `AtomicQueue` holds its lock from beginning to
  end; a queue is a sequence, a push an append, a pop a tail.
- **Epochs.** The sequencer closes an epoch when 5 ms have passed; the model
  lets it close a non-empty epoch at any time, which covers every clock.
- **Executors.** `Threads` are the executor loops that run. The constructor
  hands eight endless loops to queues chosen at random, and two that land on
  one queue run one after the other, so their number is any from one to eight.
- **Locks.** `LockManagerA` is `LockManagerB` with every request exclusive. An
  absent entry of `txn_waits_` is a count of 0: reading one creates it with 0,
  and entries are erased at 0. A call comes always from the scheduler's thread
  and is one step.
- **Locking loop.** The model starts at the head of the loop over
  `completed_txns_`, which with no completed and no ready transaction leads to
  the top of the scheduler's loop without changing anything. The pool is one
  task queue per worker; a task goes to any of them.
- **The two counts of an epoch.** An executor's decrement of an indegree
  and the push that a count of zero leads to are one step, as is its decrement
  of `num_txns_left_in_epoch` with the end of its iteration: nobody else acts on
  that zero in between.
- **Locks of CALVIN_CONT.** `adj_list_lock` and `indegree_lock` are taken and
  given back in steps of their own, in the order of the code. Under both, the
  scan of a request is one step (`AddToDag`): the only shared field it reads that
  the locks do not protect is `status_`.
- **Status without a lock.** The scheduler of CALVIN_CONT reads `status_`
  while executors write it. `StatusRacy` names the transactions whose executor
  has not synchronised with the scheduler since, and the scan sees any
  subset of them still INCOMPLETE; this covers both a vote that falls in the
  middle of the scan and a value that has not reached the scheduler's core.
- **Mutexes of CALVIN_CONT_INDIV.** Each transaction has a `neighbors_mutex`
  and an `indegree_mutex`. The scan goes from key to key and conflict to
  conflict, since executors may vote, decrement and push in between;
  `try_lock` either takes the mutex or skips the edge.
- **Pooled modes.** One module state serves all: `mode` is chosen in `Init` and
  never changes, as in the code. A scheduler's pop of a request and the `AddTask`
  that follows are one step, and so are the cleanup and the new id and push of a
  restart: the transaction is in nobody else's sight between them. These modules
  follow the processor until the destructor is called.
- **Validation.** `occ_start_idx_` is a size, the loops run from it + 1 counting
  from 0: position `occStart + 2` of a sequence that counts from 1. In OCC only
  the scheduler commits, so a validation is one step. In P_OCC the first loop
  follows `committed_txns_` while it grows, which amounts to the moment at which
  the loop ends; the second looks only at the copy made earlier. `Txn::writes_` is
  kept as its set of keys: empty for a program that voted to abort, since the
  programs of `txn_types.h` do so before they write. Neither the optimistic modes
  nor MVCC look at the vote: such a transaction is committed, without writes.
- **Versions.** A version is the transaction that wrote it and has its id. Lock,
  Read and Unlock of one record are one step; the locks for the writes are
  taken and given back one per step, and the versions installed one per step.
  `max_read_id_` is set by `Read` and read by nobody.
- **Life cycle.** The owner's thread is a program counter through the
  constructor after the member initialisers, and through the destructor down
  to `~StaticThreadPool`. A request is reduced to a place, and each thread's
  work on it to the uses of `storage_` and of the member queues. A read of
  `stopped_` before its assignment gives either value; a join of the sequencer's
  thread id before its assignment returns at once or never. Four modes stand
  for all: `LOCKING` for those that hand requests to the pool, `CALVIN_CONT`
  for those whose executors are endless tasks, and SERIAL and CALVIN_EPOCH.
  An epoch is one request; its executor's steps are the storage, the countdown
  with the pushes before it (`CountDown`), for which the scheduler waits, and the push
  of the result, for which nobody does. The deletion of the lock manager and of
  `current_epoch_dag` is left out: the first is the scheduler's alone, and the second
  is used by executors only before the countdown. `pending`, `misused` and `early` record, for the
  properties, the requests unanswered when the destructor was called, who used
  what was gone, and whether a loop ended on an unset flag.
- **Stopping.** `Stop` sets `stopped_`. The client, being the destructor's
  caller, does nothing else afterwards. Loops that test the flag leave; those
  that do not, do not.

### What the models leave out

- Memory that is never freed: the lists of finished epochs.
- MVCC_SSI: `RunScheduler` has no case for it, so that its functions cannot be
  reached. What is modelled is that the scheduler's thread ends at once.
- Storage in a destroyed processor: after a use of what is gone, `Lifecycle`
  goes on as if the memory were as before.
- The types of transactions (`txn_types.h`), beyond their sets and votes; the
  containers of `atomic.h` and the mutexes, each operation of which is one step;
  tests, benchmark, notebooks and build files.
- Transactions whose read and write sets overlap. `CheckReadWriteSets`
  (`txn.h:38`) would refuse them but is never called; no transaction type of
  `txn_types.h` builds one. The instances keep them disjoint; the proofs do not
  assume it.
- In CALVIN_CONT, the edges between writers that `calvin.cc:56` puts into
  `Txn::neighbors`: the executors of this mode look for neighbours in
  `adj_list` only, so two writers of a key with no reader between them are
  not ordered.
- Deallocation. The result is pushed while a mutex of the transaction is still
  held in CALVIN_CONT_INDIV, and the holders keep pointers to returned
  transactions in both continuous modes; what happens when the client
  deletes them at once is a hazard without a property.
- `CalvinEpochExecutor` (`calvin.cc:419`), which nothing starts, and
  `LockManagerC`, which is declared and not defined.
- Simultaneous access to one record of `Storage` by a reader and a writer of
  the epoch scheduler is two atomic steps in some order.

## 3. The runs

| run | instance | what it shows |
|---|---|---|
| `epoch_safety` | 4 transactions on 2 keys, 2 executors, one may abort, every arrival order and division into epochs | the safety properties of CALVIN_EPOCH and no deadlock |
| `epoch_live` | fewer transactions, the destructor at any time | requests are answered; executors are out of the storage when the joins are over |
| `epoch_deterministic` | two RMW transactions on one key | **violated**: two writers are not ordered |
| `epoch_destructor` | the destructor in the middle of an epoch | **violated**: the scheduler never returns |
| `cont` | 3 transactions that conflict in both directions, 2 executors, one may abort, the destructor at any time | CALVIN_CONT: exact counts, edges respected, nothing lost or repeated, everything answered, all threads stop |
| `cont_serial` | the same | **violated**: a reader scanned between its writer's vote and its writes gets no edge |
| `indiv` | 3 transactions, the third writes blindly, 2 executors, one may abort | CALVIN_CONT_INDIV: exact counts although edges appear while others disappear, serial reads where edges exist, everything answered |
| `modes` | 3 transactions, two of which conflict twice, 2 workers, one may abort; SERIAL, OCC, P_OCC, MVCC and MVCC_SSI | what each mode keeps, no request lost or repeated by a restart, everything answered |
| `occ_validation` | the same, OCC only | **violated**: a commit with a stale read |
| `lifecycle` | 2 requests, 2 pool threads, 2 loops, the destructor at any moment, four kinds of mode | the pool keeps its promise, who may use what is destroyed, the destructor returns, requests are served |
| `lock_manager` | 4 transactions, 2 records, both managers | counts, ready queue and `Status` agree with the lock table |
| `locking` | 3 transactions in conflict in both directions, 2 workers, both modes, the destructor at any time | exclusion, arrival-order reads, refinement of `SerialDB`, every request answered |

The bounds. An edge of the DAG needs two transactions, a count of 2 and a
shared holder set three; the fourth of `epoch_safety` makes a writer after
two readers after a writer possible, split over epochs in every way. Two
executors are enough for every race of two threads on one count, one DAG or
one queue, and no step involves three. Two keys are what it takes to
conflict twice with one transaction, in the same and in opposite directions,
which is where edges could be counted twice and where locks could deadlock.
The three transactions of `cont` and `indiv`, in every arrival order, give each
of the kinds of edge the scans look for (from reader to writer, from writer to
reader, in `indiv` from writer to writer), a transaction with two
predecessors, and one that is scanned while another is being released.
The counters (`nextUniqueId`, `numLeft`) are bounded by the transactions, each
submitted once, and in `modes` by `MaxId`: a restart beyond it is not taken. In
OCC and MVCC a restart takes the commit of another transaction, so three
transactions are restarted three times at most and ids end at 6: the bound is
never met. P_OCC has no such bound, since a transaction that is about to restart
makes others restart; its ids end at 4, and `EveryRequestAnswered` excepts the
executions that want to go beyond it. Three transactions, of which the third
writes both records, give a validator two commits to miss or find; two workers
validate against each other. In `lifecycle` two loops in two queues may land on
one thread, which is the case that matters: the second starts when the first ends.

`TypeOK` is an invariant of `epoch_safety`; the other modules' type invariants
are part of what is proved (section 4), and the runs spend their time on the other properties.

Safety of CALVIN_EPOCH:

- `NoUseOfFreedDag`: the scheduler frees the DAG only when no executor is
  between taking a transaction and counting it down.
- `IndegreeCountsPending`: a count is the number of predecessors that have not
  released the transaction yet.
- `PredecessorsDecided`: what is running, or ready, has only decided
  predecessors.
- `EpochBarrier`: while a transaction of an epoch runs, all of the earlier
  epochs are decided: the only thing that orders conflicts across epochs,
  since the scheduler forgets the holders.
- `EachRequestInOnePlace`: a request is in exactly one of the queues, the open
  epoch, the DAG and the results.
- `DagIsConflictOrder`: the edges are those the arrival order asks for between
  conflicting transactions, except for two writers.
- `SeparatedKeysReadSerially`: a record between whose writers there is always
  a reader is read as in a serial execution in arrival order.
- `ClientOwnsResults`, `DecidedIsFinal`: no thread uses or decides again
  a transaction that was returned or decided.

The four violated properties are disagreements of the code with its
documentation; `findings` in `PROJECT.json` quotes the lines. OCC's is described
with its mode below. The first of the others: the
scan (`calvin.cc:387-397`) makes a writer wait for the readers of a key since
the last write, never for that write itself, so two transactions with the same
key only in their write sets run side by side although `ExecuteTxn` reads the
write set too. The second: `CalvinExecuteSingleEpoch` waits for the count
without looking at `stopped_`, while executors leave as soon as it is set. The
third, in CALVIN_CONT: an edge is added only from a transaction that is INCOMPLETE (`calvin.cc:39` and `:77`), but
`Run` sets `COMPLETED_C` before `ApplyWrites` (`calvin.cc:109-118`); a reader
that arrives in between is ready at once and may read the record before it is
written, although the comment at `calvin.cc:75` asks for an edge from every last
writer but the transaction itself.

The continuous modes:

- `IndegreeCountsPending`: an indegree is the number of transactions that
  will still decrement it, at every moment, while the scheduler adds edges and
  executors take them away. A count too high is never released, one too low is
  released twice.
- `PredecessorsDecided` (CONT): a transaction with an edge to it is handed over
  only after the other end is decided and its writes are installed.
- `EachRequestInOnePlace`: scheduler and executors both decide that a transaction
  is ready, and exactly one of them hands it over.
- `NothingReadFromTheFuture` (CONT): skipped edges never let a writer overtake a
  reader. What they do let happen is the third violated property.
- `OrderedKeysReadSerially` (INDIV): the positive counterpart, for the keys whose
  successive writers are ordered by an edge or by way of a reader between them.
  Others exist: the last writer is looked at only on keys nobody has ever read
  (`calvin.cc:194`).
- `EveryRequestAnswered`: there comes a moment when nothing is outstanding; with
  it, no two threads wait for each other's locks.
- `DestructorStopsThreads` (CONT): all threads leave, whatever locks they held or
  waited for when the flag was set.

Locking:

- `WaitsAreExact` (`lock_manager`): `txn_waits_` is the number of conflicting requests in front
  of a transaction's own, over all records.
- `ReadyWhenGranted`, `ExecutesWithAllLocks`: a transaction is in the ready
  queue, or executing, once, exactly from when it owns all its locks.
- `ConflictsExcluded`, `ReadsInArrivalOrder`: conflicting transactions do not
  overlap, and everyone reads what a serial execution in arrival order gives.
- `ImplementsSerialDB`: the mode is a step-by-step refinement of `SerialDB`; a
  transaction takes effect when `ApplyWrites` begins (or its abort is decided),
  and until its writes are all installed the abstract record has the new
  value where the storage still has the old one: nobody else can see it then.

Serial, optimistic and multi-version modes:

- `EachRequestInOnePlace`: a submitted transaction is in one queue, one thread's
  hands or the client's, however often it restarts.
- `OnlyFirstCommitMissed` (SERIAL, OCC): the read of a committed transaction was
  current when it committed, except that it may have missed the first commit after
  its start.
- `CommittedReadsCurrent` is the same without the exception, and is **violated** by
  OCC: the loop at `txn_processor.cc:304` starts at `occ_start_idx_ + 1`, where
  `occ_start_idx_` is the size of `committed_txns_` at the start and so the index of
  the first transaction committed after it. The comment above the loop asks for
  all that committed after the start.
- `ConcurrentAppliesCompatible` (P_OCC): two workers install at the same time only
  without a common record, and not when each has read what the other writes.
- `NewVersionsOnTop`, `NoHalfInstalledReads` (MVCC): from the check of its keys to
  its last write nobody gets past a transaction, and nobody reads a part of it.
- `EveryRequestAnswered`: restarts come to an end, and nobody waits for ever for the
  lock of a record, which are taken in the order of the keys and always given back.

P_OCC has, besides the window at the start, one at the end: a transaction leaves
the active set before it enters `committed_txns_`, so that a validator may find
it in neither. No property about what its transactions read is claimed.

Construction and destruction:

- `ImplementsTaskPool`: used as the processor uses it, `StaticThreadPool` refines
  `TaskPool`.
- `OnlyThePoolOutlivesTheMembers`: only the pool's threads ever use the storage or
  the queues after their destruction (`tp_` is declared before the queues, and
  destroyed after them), and only with requests unanswered at the time, or in an
  executor's last look at its queue. An executor of CALVIN_EPOCH may push a result
  into a queue that is gone, since the scheduler waits for the countdown only
  (`calvin.cc:529-532`), but never uses the storage then. The other exception is a destructor that
  joins the sequencer before the scheduler has created it.
- `DestructorReturns`: whatever the threads are at. Excepted are the epoch that is
  never counted down (`epoch_destructor`) and that same join.
- `RequestsServed`: a request is answered unless the destructor comes first, or
  a thread that started before `stopped_` was set took it for true.

`LockClient` includes clients that cancel requests that are still
pending. Such a transaction's own count is not reduced (`lock_manager.cc:202`);
`lock_manager.h:104` says that it is invalid from then on, and the properties
leave those transactions out.

### Fairness

Weak fairness of each thread's whole loop (the scheduler, the sequencer, each
executor or worker) and of the client's polling: threads of a preemptive
operating system, none of which waits for ever on a lock that another keeps.
Nothing is assumed of which branch a loop takes; closing the open epoch is
assumed to happen eventually, as the clock goes on. The destructor and new
requests are never forced. In `Lifecycle` the owner's thread goes on through the
constructor, and through the destructor once it has called it. Weak fairness is enough for threads that wait for a
lock: each request takes every lock a bounded number of times, so a waiter
is overtaken finitely often and its step is in the end enabled for good.
`CHECK_DEADLOCK FALSE` stands only where everything may have been
answered or stopped and no thread has a step left.

## 4. Proofs

Everything below is proved for every set of transactions and records, every
number of threads and all read and write sets, overlapping ones included, from
the assumptions on the constants that the modules name and TLC evaluates in each
run: that the sets are finite, that the sets of keys are what their names say,
and that `NoTxn` and the like are no transactions. `RunScheduler` assumes a
`MaxId` for each mode, of any size, `Lifecycle` that there are as many loops as
threads in the pool.

| module | theorem | states |
|---|---|---|
| `CalvinEpochProofs` | `TypeCorrect` | `TypeOK` (among it: the unsigned count of the epoch never goes below zero) |
| | `DagOutlivesExecutors` | `NoUseOfFreedDag` |
| | `EpochsDoNotOverlap` | `EpochBarrier` |
| | `ResultsBelongToClient` | `ClientOwnsResults` |
| | `DecisionsAreFinal` | `DecidedIsFinal` |
| | `StorageOutlivesExecutors` | `NobodyBusyAfterJoins` |
| | `DagOrdersConflicts` | `DagIsConflictOrder` |
| | `IndegreesAreExact` | `IndegreeCountsPending` |
| | `EdgesAreRespected` | `PredecessorsDecided` |
| | `RequestsAreInOnePlace` | `EachRequestInOnePlace` |
| | `SeparatedKeysAreDeterministic` | `SeparatedKeysReadSerially` |
| `CalvinContProofs` | `TypeCorrect` | `TypeOK` |
| | `IndegreesAreExact` | `IndegreeCountsPending` |
| | `LocksExclude` | `LocksHeld`: each of the two locks has one holder at most |
| | `EdgesAreRespected` | `PredecessorsDecided` |
| | `RequestsAreInOnePlace` | `EachRequestInOnePlace` |
| | `NoReadFromTheFuture` | `NothingReadFromTheFuture` |
| `CalvinContIndivProofs` | `TypeCorrect` | `TypeOK` |
| | `IndegreesAreExact` | `IndegreeCountsPending` |
| | `RequestsAreInOnePlace` | `EachRequestInOnePlace` |
| | `OrderedKeysAreDeterministic` | `OrderedKeysReadSerially` |
| `LockClientProofs` | `CountsAreExact` | `WaitsAreExact` |
| | `ReadyExactlyWhenGranted` | `ReadyWhenGranted` |
| | `StatusIsRight` | `StatusNamesOwners` |
| `LockingProofs` | `ExecutionNeedsAllLocks` | `ExecutesWithAllLocks` |
| | `ConflictsAreExcluded` | `ConflictsExcluded` |
| | `LockingIsDeterministic` | `ReadsInArrivalOrder` |
| | `LockingIsSerializable` | `ImplementsSerialDB` |
| `RunSchedulerProofs` | `TypeCorrect` | `TypeOK` |
| | `RequestsAreInOnePlace` | `EachRequestInOnePlace` |
| | `CommitsMissAtMostFirst` | `OnlyFirstCommitMissed` |
| | `AppliesAreCompatible` | `ConcurrentAppliesCompatible` |
| | `ReadersSeeWholeTransactions` | `NoHalfInstalledReads` |
| | `VersionsGoOnTop` | `NewVersionsOnTop` |
| `LifecycleProofs` | `PoolOutlivesMembers` | `OnlyThePoolOutlivesTheMembers` |
| | `ImplementsPool` | `ImplementsTaskPool` |

None of these is inductive. Each module proves an invariant that is
(`PipelineInvariant`, `DagInvariant`, `EpochInvariant`, `ContInvariant`,
`OrderInvariant`, `IndivInvariant`, `ScanInvariant`, `ClientInvariant`,
`LockingInvariant`, `LockingOrderInvariant`, `RunInvariant`,
`LifecycleInvariant`), with a lemma for each action or group of actions that
disturbs it, and draws the properties from it.

**CALVIN_EPOCH, the pipeline.** That the DAG is free of executors when it is
freed rests on the count being exact, which rests on no transaction being in two
places at once, which rests on a transaction being pushed only by whoever takes
its indegree to zero. `Inv` therefore says, besides the types: the ids of
everything in the pipeline ascend from the results back to the requests; each
transaction of the DAG is in exactly one of waiting, root, ready, in an
executor's hands, or counted down; a waiting one has a positive indegree, all
others zero; and `numLeft` is the number of those not counted down.

**CALVIN_EPOCH, the DAG.** `DagInv` adds what the scan's maps mean: `last_excl`
is the last writer of a key in the DAG and `shared_holders` its readers since;
transactions outside the DAG have no neighbours. From this each scan adds the
edges of the arrival order, no more and no fewer, and `IndegreeCountsPending`
is kept because a new transaction's count is the size of the set of its
predecessors and an executor takes each neighbour out of its `todo` once.

**CALVIN_EPOCH, what is read.** `SerialInv` says that the storage has the
youngest installed write of a separated key and that whoever has read has got
the last committed write before it in the order of ids. The step from the edges
to the reads: with a reader between any two writers, every earlier writer of the
key is decided when a transaction that accesses it starts, and every earlier
reader is when a writer starts.

**CALVIN_CONT, the counts.** `Inv` says who holds which lock and which
transaction a thread at that location has, that ids ascend from the DAG through
the scheduler's hands to the requests, that nobody points to a transaction that
is not in the DAG yet, and that one in the DAG is blocked, ready, held by one
executor or among the results, blocked exactly while its count is positive. The
count is the size of the set of transactions with an edge to it whose executor
has not come past it; an edge leaves that set in the same step as the decrement,
and since scan and release both hold `indegree_lock`, the step that takes the
count to zero is the only one that finds it so.

**CALVIN_CONT, the order.** `OrderInv` adds that the maps are exact and that each
conflict the scan looks for has its edge while the first of the two has not
voted. A skipped edge therefore means a vote, and a transaction votes after its
last read: under a key with readers between its writers no later writer is
handed over before all who read the key earlier have done so
(`NoOvertaking`). It does not mean that the first has written, which is the
violated property of `cont_serial`, and why `NothingReadFromTheFuture` is all
that can be proved of the reads.

**CALVIN_CONT_INDIV, the counts.** The scan is many steps, and executors decrement
the counts in between. `Inv` is the same in form; it is kept because an edge and
its count are one step under the `neighbors_mutex` of the first, and because the
scheduler has the `indegree_mutex` of the second from the beginning of its scan to
the end: an executor that wants to release it waits, so that its count cannot
fall, and nobody but the scheduler looks whether it is zero, until the scan is
over.

**CALVIN_CONT_INDIV, what is read.** `ScanInv` follows the scan key by key:
`last_excl` and `shared_holders` are exact for the keys it has visited, and each
conflict visited has its edge or its first is decided. That is where skipping is
justified: in this mode an executor installs the writes and sets the final status
before it takes its `neighbors_mutex`, so a taken mutex means decided. What is handed
over has then only decided conflicting predecessors, through edges or without,
and `SerialInv` follows as in CALVIN_EPOCH, for the keys whose writers the scan
orders (`WritersOrdered`).

**Lock managers.** `ClientInvariant`: a transaction has one request per record,
`txn_waits_` is at least the number of conflicting requests in front of its own
and exactly that unless it cancelled, and the ready queue holds those that
were blocked and wait no more. `Release` takes away exactly the waits on the
request it erases, and who reaches zero is who had one wait left.

**Locking modes.** Three layers. `BaseInv`: where each transaction is (requests,
scheduler, ready queue, tasks, a worker, completed: one place) and which locks
it has asked for, owns and waits for there. Exclusion follows, since two
requests that conflict are never both without a wait. `DataInv`: the status
each place implies, and that a transaction in execution has read what the
abstract database has, because nobody who may write a record it has locked
is between its commit and its last write. With it every step maps to a step of
`SerialDB` or to a stutter. `OrderInv`: the requests of each record are in the
order of ids, a transaction has the locks of all its records once one with a
larger id is being scheduled, and so whoever executes has only decided conflicting
predecessors; what it reads is then their last committed write.

**The other modes.** One invariant, by mode. All: one place for each
transaction, whatever restarts. SERIAL and OCC: the storage is what the commits
in their order have left, apart from what the scheduler is installing; a
read has the value of some moment since the start, which with
validation's loop leaves the first commit after the start as the only one it can
have missed. P_OCC: the active set is exactly what is between entry and
erasure, and of two workers in it one has the other in its copy or has passed
its test against it. MVCC: `lockedKeys` is what the workers' loops say, versions
are of final transactions or of one that holds the lock, and what the check
found to be the newest version is the newest until the new one is installed.

**Life cycle.** `PoolInv` says that a task is new, in one queue, in one thread's
hands or ended, and that a thread that has ended has left its queue empty: the
refinement of `TaskPool` reads its variables from that. The rest says what the
owner has already stopped, joined and deleted at each location, and what
each thread's hands say of its request. `EpochCounted` adds that the scheduler
is waiting as long as a request of its epoch is ready or an executor has not counted
it down, and so cannot have been joined when that executor uses the storage.

TLC has checked the inductive invariants too: on the instances of
`epoch_safety`, `cont`, `indiv`, `modes`, `lifecycle`, `lock_manager` and `locking`, and those of
the locking modes also on one whose transactions read what they write.

Only model-checked:

- liveness, which the prover does not support: `EveryRequestAnswered`,
  `DestructorStopsThreads`, `DestructorReturns`, `RequestsServed`;
- the absence of deadlocks, which is about `ENABLED`.
