# Dmucca: specifications, model checking and proofs

Dmucca is a small transaction benchmark in C++: a workload generator, an
executor that runs transactions with NO_WAIT two-phase locking on lock words
kept beside the rows, thread pools and queues between its stages, and the
tables and containers it needs. `bench_ycsb.cpp` is the one program the build
makes; the TPC-C transactions are in the tree but not in `CMakeLists.txt`.

This directory models it in TLA+. TLC checks the models on small instances
(`*.cfg`, one per run), TLAPS proves the central properties for every value of
the constants (`*Proofs.tla`), and `PROJECT.json` maps each definition to the
source lines it models, lists the hazards, and names a mutant of the code for
every checked property.

    tlc -workers 2 -config txn.cfg MCTwoPLTransaction.tla
    tlapm TwoPLTransactionProofs.tla

## 1. The system

One process, several threads, shared memory. Nothing is persisted and nothing
is sent over a network, so there are no crashes to recover from and no lost
messages; what is hard here are interleavings, copies, and the order in which
work passes from thread to thread.

    generator ──> execute queue ──> execute_thread ──> execute pool ──┐
                       ^                                              │ execute():
                       └───────────────── ABORT ──────────────────────┤ lock rows, NO_WAIT
                                                                      v
     table <── commit_txn: copy writes, unlock <── commit pool <── main_thread <── commit queue

| Component (source) | State | Operations | Correct when | Module |
|---|---|---|---|---|
| Lock word: `protocol/TwoPL/TwoPLHelper.h` | a 64-bit atomic per row: writer id, reader count, read bit, write bit | `set_write_lock_bits`, `set_read_lock_bits`, `release_read_lock_bits`, `release_write_lock_bits` | conflicting locks exclude each other; the word names the writer; a released row is as it was inserted | `LockWord`, `TwoPLHelper`, `RWLock` |
| Transaction: `TwoPLTransaction.h`, `YTransaction.h`, `commit_txn` of `TwoPLExecutor.h` | query, read set, write set, status; the rows | `execute`, `read`, `update`, append to the sets, release, commit | locks follow the sets through abort and retry; writes only under all locks; commits are serial | `TwoPLTransaction`, `SerialStore`, `Determinism` |
| Executor: `TwoPLExecutor.h`, `YWorkload.h`, `SafeQueue.h`, `TwoPL.h` | two queues, two pools, a transaction in the hand of each polling thread | generate, poll, execute task, requeue, commit task | no transaction lost, duplicated or committed twice; commits start in order; all commit | `TwoPLExecutor` |
| The protocol as a whole: `protocol/TwoPL/*` | all of the above | a worker runs the transaction it holds, a commit thread commits it | locks travel with the transaction; the database is what the commits in the order of readiness make of it | `TwoPL` |
| Identifier counter: `Counter.h` | an atomic | `reset_counter`, `generate_unique_id` | different transactions, different identifiers | `Counter` |
| Thread pool: `ThreadPool.h` | task queue, mutex, condition variable, `stop` | worker loop, `enqueue`, destructor | no lost wake-up; order kept; the destructor drains and returns | `ThreadPool` |
| Hash map, spin lock: `HashMap.h`, `SpinLock.h` | buckets, a flag each | `insert`, `remove`, `contain`, `operator[]`, `size`, `clear` | keyed calls atomic; `size` and `clear` never miss a key that stayed | `HashMap`, `SpinLock`, `KeySet` |
| Table: `Table.h`, `Database.h`, `YTable.h` | an `unordered_map`, a `shared_mutex` per bucket | search, update, insert, erase | an operation sees a row whole | `Table` |
| TPC-C: `benchmark/TPCC/*` | rows of warehouses, districts, customers, stock | New-Order, Payment, query generators, `reset_query` | order numbers without gaps; stock adds up; no money received but charged to a customer or paid outside the execution phase | `TQuery`, `TTransaction` |
| YCSB queries: `YQuery.h`, `Random.h`, `Zipf.h` | a seed, the operations drawn so far | the draws of the constructor | keys distinct and in the table; the drawing loop ends | `YQuery`, `Random` |
| Hashing, schema macros, time, logging | none of interest | - | - | not modelled |

Components interact by calls (`execute` calls the helper, `commit_txn` the
table), by queues (the executor's stages), by shared words (the metadata of the
rows) and by copies: a transaction is a value that every push, pop and
enqueue copies.

Hard behaviours, in the order of their weight: the two accesses of each lock
function interleaved with those of other transactions; aborts in the middle of
a query; transactions whose locks are taken in one pool and released in
another; identifiers drawn in two accesses; notifications sent after the mutex
is released; a destructor while tasks arrive; operations that visit several
buckets under one lock at a time. The list with its source lines is `hazards`
in `PROJECT.json`.

## 2. The modules and the code

**TxnIds** declares what the protocol modules share: the transactions and
`txn_id`, the member that names a transaction in the lock words, 0xffffffff
(`NoId`) until a worker draws another.

**LockWord** is the word as a record of the fields of the layout comment
(`TwoPLHelper.h:15-18`). The counter and the identifier keep their width:
`ReaderLimit` stands for 2^8 and `IdLimit` for 2^32, a full counter carries into
the identifier as in the sum of line 68, and `WithoutWriter` clears the
identifier because the mask of line 96 has 32 bits. A release that finds a
counter of zero assigns `new_meta` in no branch; the model lets it be any word.

**TwoPLHelper** makes every access of the four functions to the word a step:
load, exchange (success or failure), and the unconditional store after the
loop. `call[t]` holds the registers of the call a transaction is in, `holds`
what the calls have reported. `HelperSpec` is the helper under the contract its
callers keep: ask for a row once, give back only what was granted.
**RWLock** is what the helper promises, stated only by who holds what.

**TwoPLTransaction** EXTENDS the helper by the life of a transaction:
`queued` → `execute`/`granted` for each operation → `ready` → `install` →
`commit_reads` → `commit_writes` → `committed`, or `abort_reads` →
`abort_writes` → `queued`. `rest` is what the current loop over a copy of a set
still has to visit: `release_read_write_locks` clears only its own copy, so the
sets of a requeued transaction are stale until `execute` clears them. The value
of a row is the name of the transaction that wrote it.
**SerialStore** is the abstract store: one step per commit.
**Determinism** runs the transaction module twice on the same workload.

The worker that first executes a transaction gives it an identifier: here any
of `Ids` (`Identify`), in `TwoPL` the one drawn from the counter.

**TwoPLExecutor** EXTENDS **Counter**. `queue[p]` is what is in place `p`: a
queue, the task queue of a pool, or the transaction a thread holds. Every push,
pop, enqueue and take is a `Move` from one place to the next. `BeginDraw` and
`EndDraw` are the two accesses of `generate_unique_id`. Whether `execute`
returns READY_TO_COMMIT or ABORT is left open, any number of times.

**TwoPL** EXTENDS both: an action of the composition is a step of a thread
together with what it does to the transaction it holds. `TakeToRun` and
`RunDrawn` begin `execute()`, `Executing` is any step inside it, `ReturnReady`
and `ReturnAbort` are the two results with the push that follows each;
`StartCommitTxn`, `Committing` and `EndCommitTxn` are `commit_txn` in a thread of
the commit pool. `HandOn` leaves rows and members alone. Nothing moves a
transaction but a thread that holds it.

**ThreadPool**: a passage of the mutex is a step, a notification is another; a
waiting worker may wake by itself.

**HashMap**: locking, `find`, modification and unlocking are steps. The
variables `always`, `ever` and `counted` observe what was in the map during a
call; no action's guard reads them. **KeySet** is the abstract set with calls
that take effect at one moment. Only keys are modelled, not values.

**Table**: `apply_with_locked_bucket` declares its lock object inside the
branches of an `if`, so `UnlockBucket` comes before the function is applied.
Unlocked accesses to one `unordered_map` are undefined behaviour; the model
takes the best case, each access an orderly step of its own.

**TQuery** and **TTransaction**: the sets of queries the generators can return,
and New-Order and Payment as functions from the rows read to the rows written.
The base class `Transaction` is not in the repository and is modelled as
external from how `execute` uses it: `process_requests` gives all rows asked for
and keeps them until commit, or reports an abort. Sums are float sums:
`FloatAdd` rounds to even once a sum needs more bits than `Exact` allows.

The rows are those of the loaders of `TTable.h`, numbered from 0: `w_cnt`
warehouses, `d_cnt` districts of each, and so on. The generators draw from 1, so
a query may name a number that no table holds, the highest; a worker that
searches for such a row gets no further, since what an unsuccessful search does
is not in the repository. A rollback by an unused item comes before the search.

`execution_phase` is a member of the base class. `ExecuteReady` leaves it open
for every Payment, because it decides whether the customer is charged
(`TTransaction.h:376`): outside the phase the warehouse and the district receive
the amount (lines 351 and 364) and the customer is written back as he was.
`Pays` has that guard, and the history variable `uncharged` sums up what was paid
so. Lines 198 and 426 put the order lines of a New-Order and the history row
under it, too; neither is modelled, nobody reads them. The order of a committed
New-Order is a history variable that keeps the items the query asked for.

**Random** and **YQuery**: the generator is the congruence of `Random.h` with
its width as a parameter, and each draw of `YQuery`'s constructor is a step. The
two draws of `next()` are operands of one sum, evaluated in the order the
compiler chooses (`upperFirst`). `Zipf::value` is a step function: `Cuts` says
where it steps.

The `MC*` modules only give constants their values.

## 3. What the runs check

Passing runs:

| Run | Instance | What it shows |
|---|---|---|
| `txn` | 2 transactions, 20 workloads: all pairs of updates of rows a and b in any order, and four that also read row c; counter of 2 values; both transactions given one identifier | A copied update stays until another of its row (`UpdatesStay`). Locks follow the sets (`LocksMatchSets`, `TxnInv`), the contract of the helper is kept, the words of a and b are locks of `RWLock` (`WritersExcluded`, `OwnerInv`) while everything that can go wrong does on c, rows change only under their lock, commits implement `SerialStore`. |
| `executor` | 3 transactions, 2 + 2 pool threads, any number of aborts | Each transaction is in exactly one place; commits start in the order of readiness; one identifier each, there before the locks are asked for; calls of the counter in turn differ; a transaction refused finitely often commits, though others be refused for ever. |
| `system` | 2 transactions, 6 workloads on rows a and b (updated) and c (read), 2 + 2 pool threads, identifiers from the counter | A transaction has no locks in the execute queue, all of them in the commit queue, none once it is committed (`LocksTravel`, `PhaseInPlace`); the words name their writers (`WordNamesWriter`); commits in different threads leave what a serial execution in the order of readiness leaves (`SerialInReadyOrder`); refusals are owed to transactions under way (`RefusedByOneUnderWay`); updates in one order all commit (`AllCommit`). |
| `pool` | 3 workers, 2 enqueuers, 3 tasks, destructor at any time | No lost wake-up, order, draining; accepted tasks run; the destructor returns. |
| `hashmap` | 2 threads, 3 keys in 2 buckets, any calls | `ImplementsKeySet`, `SizeWithinBounds`, `ClearSweeps`, and the inductive invariant `HashInv`. |
| `yquery` | every seed of 9 bits, both orders of draws, 6 patterns, 4 keys out of 4 rows | Queries are what `TwoPLTransaction` assumes of them; the drawing loop ends although the query names the whole table. |
| `tpcc` | 2 workers, 3 transactions, 2 warehouses and 2 districts of each drawn, one of the districts not loaded; floats exact up to 16 | Order numbers, stock accounts, money and balances agree, through rollback, abort, retry and `reset_query`, with payments in and outside the execution phase (`MoneyReceived`). |

Runs that refute what the repository says of itself (`expect: violation`):

| Run | Statement | Why the code does not do it |
|---|---|---|
| `read_locks` | a write lock excludes readers (`TwoPLHelper.h:49`, `:66`) | The store after the exchange (lines 53, 70, 89) writes an old word over what others did in between. |
| `id_field` | txn-id and read-lock-number have separate bits (`:16-17`) | `meta + 0x1000000` carries out of the counter into the identifier. |
| `executor_ids` | `generate_unique_id` (`Counter.h:23`) is unique | Increment and load are two accesses; two threads can load the same value. |
| `determinism` | "deterministic" (`README.md:6`) | Who is granted a lock first decides the final database. |
| `table` | the bucket is locked while a function is applied (`Table.h:139-141`) | The lock object dies with the branch it is declared in; a search finds half a row. |

The reader/writer lock therefore works on rows that are only updated, and not on
rows that are read. That is why `WritersExcluded`, `WordNamesWriter`,
`ImplementsRWLock` and `ImplementsSerialStore` speak of `WriteOnlyKeys`. The
other rows stay in the model and in the runs, so nothing is proved by leaving
them out.

### Bounds, and why they are enough

- Two transactions: every lock step involves one transaction and the word, and
  every property of words relates at most two holders. Three rows give every
  order of two updates and a row in mixed use. The proofs are for any number.
- `ReaderLimit = 2` (4 in `read_locks`): the smallest counter that counts and
  overflows; two readers reach what takes 256 in the program. `IdLimit = 3`
  leaves room for an identifier beside zero and `NoId`. In `txn` both
  transactions get the same one (`Ids = {1}`), which the counter allows and
  which is the worst case for the words; in `system` they are drawn.
- `IdLimit = 6` (4 in `system`): the counter does not come to `NoId` with three
  (two) transactions. The identifier properties say "before the counter has
  been round", since 0xffffffff means "no identifier" and the program generates
  50000 transactions. Aborts are not bounded: a cycle of refusals is a cycle of
  states.
- `system`: two transactions; the workloads have one row, different rows, two
  rows in the same and in opposite orders, a longer and a shorter query, and a
  reader. An instance with three transactions around a ring of rows has a
  million states and satisfies the same invariants, but its temporal check is
  too long for a run; the proofs cover the invariants for any number.
- Pool: three workers and three tasks are the least at which a notification can
  go to one worker while another is busy and a third is waiting.
- Hash map: two buckets, one of them with two keys, are the least for which
  `size` and `clear` are not atomic.
- `yquery`: `Width = 9` for 48 with draws of 6 and 5 bits in proportion, the low
  nine bits of the multiplier and the increment; four keys of four rows is
  harder than 10 of 10000. The percentages count in quarters, so that the draws
  decide both ways.
- `tpcc`: orders of two lines of 10, stock of 19 and 20 (both sides of the
  restocking threshold), payments of 3, `w_ytd = 2`, `Exact = 16` for 2^24, so
  that sums reach the limit after a few payments. `MaxTxns = 3` bounds the
  transactions. Workers are symmetric: they appear in no property by name.
  The loader draws a stock of 100 to 1000; a stock that small stands for it, as
  `w_ytd = 2` stands for 30000, and only needs fewer orders to be restocked.
  Quantities are 1 to 10. Of the loaded warehouses 0 to 2 the generators draw 1
  and 2, and 0 is reached by `reset_query`; of the districts drawn, 1 and 2, only
  the first is loaded. `payment_look_up` is off and `write_to_w_ytd` on, as in
  `TContext.h`.

Deadlock is checked in `hashmap` and `table`, whose threads never
stop. In the other runs it is off because the system stops: all transactions are
committed, the pool is destroyed, the bound on created transactions is reached,
the query is drawn, or a TPC-C worker searches for a row that no table holds and
stays there.

### Fairness

The fair specifications ask weak fairness of each thread's steps: the operating
system schedules every thread, polling threads are endless loops
(`while (true)`), and tasks return. In `system` nothing is asked of a
transaction: it moves when a thread takes it. Nothing is asked of callers:
nobody is obliged to enqueue, to destroy the pool, or to wake spontaneously.
There is no strong fairness anywhere; the spin lock and the exchange loops
promise none, and no liveness is claimed of the hash map. `AllCommit` is claimed
only for updates in one order, where a cycle of refusals cannot close. With
opposite orders two transactions may refuse each other for ever, and a row that
is read may stay locked by nobody. `EveryTxnCommits` leaves the refusals open and
speaks of each transaction alone: if it is refused finitely often, it commits,
however often the others are refused and refill the queue it waits in.
That holds because a refused transaction goes to the back of the queue.

## 4. What is proved

Every invariant and every action property that a passing run checks is a
theorem, and so are the three refinements. All theorems hold for any sets of
transactions, rows, threads and tasks (the keys of the hash map finite, the
pool with a worker), any number of loaded TPC-C rows, and any width of the
fields, from the named assumptions on constants only (`IdAssumption`,
`ReadersAssumption`, `HelperAssumption`, `TransactionAssumption`,
`CounterAssumption`, `ExecutorAssumption`, `AnyIdMayBeDrawn`, `PoolAssumption`,
`HashMapAssumption`, `RandomAssumption`, `QueryAssumption`, `TQueryAssumption`,
`TTransactionAssumption`, `StockAssumption`; TLC evaluates each of them). tlapm
checks every leaf; nothing is omitted.

- **DataLemmas**: what the proofs need of numbers, sums and sequences. Where a
  proof would go by induction it takes a smallest counterexample instead: a
  nonempty set of naturals has a least element (the order is well founded), a
  family of finite sets that is not empty has a member of which no proper
  subset is in the family. Two to the k is the number of subsets of k things.
  So `FiniteSetsExt`'s sums get their laws: what adding, leaving out or
  changing one element does to a sum.
- **TwoPLTransactionProofs.** `WritersExcluded` is not inductive: a transaction
  that has won the exchange and not yet stored holds nothing in `holds`.
  `OwnerInv` adds ownership from the exchange on: bit 0 is set exactly while a
  row has an owner, there is never a second, and nobody else changes the word,
  so the second store is idle. From it: exclusion, `WordNamesWriter`, and
  `HelperImplementsRWLock` (each step is a step of `RWLock` or a stutter).
  `TxnInv` says that the sets hold the rows of the
  operations done, that loops visit items of their set, that a call in progress
  is the one of the operation at hand, and that the locks are those the sets
  lead back to. From it: `LocksMatchSetsCorrect`, `CommitsFullyLockedCorrect`,
  and `KeepsContractCorrect`: every step of a transaction is a step the helper
  allows, so the helper's theorems hold in the transaction system
  (`TxnWritersExcluded`). `InstallsUnderLockCorrect` and
  `SerialStoreImplemented` combine the two; the commit point is the start of
  `commit_txn`, and the refinement mapping reads a row still to be copied as
  already written, which is sound because nobody else can lock it.
  `UpdatesStayCorrect` holds of all rows and says how far the workload alone
  decides the database: a row that one transaction updates ends with that one's
  value.
- **TwoPLExecutorProofs.**
  `ExecutorInv` has three parts. `PlaceInv`: each transaction is in one place,
  once; a thread holds at most one (`OneAtATime`), a worker exactly while it is
  busy; and the increments of the counter are numbered. Every action is a `Move`
  between two places, so one lemma about `Move` serves all.
  `CommitsStartInReadyOrder` is inductive beside it: the transactions started,
  in the task queue, in the hand of `main_thread` and in the commit queue are,
  in a row, those that became ready; a `Move` along that row leaves it as it is.
  `NameInv`: as long as there is room for all transactions below `NoId`, the
  counter has been incremented once for each transaction that has, or is about
  to load, its identifier. What `executor_ids` refutes holds with one thread in
  the pool (`OneThreadUniqueIds`), and with any number as long as no two calls of
  the counter overlap (`UniqueIfDrawnInTurn`).
- **TwoPLProofs.** Every step of the composition is a step of the threads
  (`SystemRunsThreads`) and a step of one transaction or none
  (`SystemRunsTransactions`), so all theorems of both modules hold of the whole.
  What neither says alone is proved on top: `PhaseInPlace` relates place and
  phase; with `TxnInv` it gives `LocksTravel`; and since only the start of a
  commit changes the logical store, which `SerialStore` describes, and starts
  are in the order of readiness, `SerialInReadyOrder`. `OwnerInv` and
  `LocksTravel` together give `RefusedByOneUnderWay`, the part of progress that is
  a safety property: whoever stands in the way of another will let go.
- **ThreadPoolProofs.** `PoolInv` ties `stop` to the destructor, exited workers
  to an empty and stopped pool, and started tasks to running or finished ones.
  From it `NoLostWakeup`, `StartedInOrder` and `JoinDrains`.
- **HashMapProofs.** `BucketInv` (one thread in a bucket; what its `find` saw
  still holds at the modification) and `VisitInv` (what `size` and `clear` have
  dealt with so far). From them `SizeWithinBoundsCorrect`, `ClearSweepsCorrect` and `KeySetImplemented`.
- **YQueryProofs.** `QueryInv` adds the seed, its halves and the operation being
  drawn to what the run checks; the work is that the arithmetic of `Random.h`
  stays inside its width, so that a key drawn is a row of the table.
- **TTransactionProofs.** `TInv`, on which everything else rests: the rows a
  transaction has been given are still those of the database (`SeenIsCurrent`),
  and two transactions that are ready to commit share no row that either writes
  (`ReadyApart`). This is where the locks matter: a commit adds to what it read,
  and only what it read is still there does it add to what there is. Then
  `NumberInv`: a district's next order number is one more than the orders the
  committed transactions placed in it, so no number is given twice and none is
  left out. `BalanceMirrors` and `StockAccounts` need the same with the row of
  a customer and of a stock, and that one order has an item in one line only.
  `MoneyReceived`, the sums of the receipts against the customers' charges and
  `uncharged`, is inductive with `DistrictsReceive`: no district has received
  less than nothing, so none has received more than its warehouse, and as long as
  the sum of a warehouse is exact those of its districts are. That they were
  exact before the step follows from the rounding: up to `Exact` a sum is what it
  should be, and a sum above it is never rounded back below.

Only model-checked: the five liveness properties `EveryTxnCommits`, `AllCommit`,
`AcceptedRuns`, `DestructorReturns` and `QueryEnds`, which need fairness and
`ENABLED` and are out of the prover's reach, and the refutations.

## 5. What is not modelled

- WAIT_DIE requests (`TwoPLHelper.h:19-39`): compiled out, and no release
  matches them.
- Memory: `commit_txn` copies values that hold `std::string` with `memcpy`,
  `operator[]` of the hash map returns a reference that outlives its lock, the
  TPC-C loaders insert pointers to stack objects. These are about lifetimes, not
  states; they are among the hazards with no property.
- A search of an absent key, which returns null: YCSB never asks for one
  (`QueryIsWorkload`), and what TPC-C's base class makes of it is not in the
  repository.
- `travel_keys` of the hash map cannot be instantiated.
- `Database`'s vector of tables has one user, which creates one table before any
  thread starts.
- Random strings, the values of the rows: named by the transaction that wrote
  them. The floating-point arithmetic of `Zipf.h`: a step function stands for it.
- Prices, taxes, texts, customers by name and replication messages of TPC-C:
  computed and read by nobody. Its order lines and history rows are filled in
  the execution phase and never inserted; items have only their numbers.
- Logging, signals, time, formatting.

## 6. Plan

Done, in this order: lock word and helper; transaction and serial store; their
proofs; executor and counter; thread pool and its proofs; hash map and its
proofs; TPC-C; table; the composition of executor and transactions; the proofs
of both; the queries and their generator; the proofs of the queries and of
TPC-C.

Next:

1. **Rounding.** A run that shows where `MoneyReceived` ends: the sums of a
   warehouse and of its districts beyond 2^24.
2. **Orders after `reset_query`.** The constructors pass `partition_id + 1` to
   the generators and `reset_query` passes `partition_id`; nothing calls it yet.
3. **Liveness with three transactions**: `AllCommit` on a chain of rows, once an
   instance is small enough for its temporal check.
