# A TLA+ model of the key-value benchmark

This directory specifies and verifies the program in `src/`: a Windows benchmark
that drives six in-memory maps through one function table, counts operations and
checks what the maps return. The modules are checked with TLC on small instances.
All invariants that the passing runs check, and the refinements of the abstract map, are
also proved with TLAPS for instances of any size.

## 1. The system

| Component | Source | State | Operations |
|---|---|---|---|
| Map interface | `kv_common.h` | the table `KVMapVTable` | `create destroy put get del` |
| Lock-free maps | `kv_lf_hash.c`, `kv_lf_skiplist.c` | an array of sorted linked lists, each behind a sentinel; the low bit of `next` marks a deleted node | `harris_find`, `put_impl`, `get_impl`, `del_impl`, `create_impl`, `destroy_impl` |
| Mutex map | `kv_mutex.c` | an array of chains, a `CRITICAL_SECTION` for each | `put get del create destroy` |
| Reader/writer map | `kv_rwlock.c` | the same with an `SRWLOCK` for each | the same; `get` takes the lock shared |
| Wrongget map | `kv_wrongget.c` | as the mutex map | the same; `get` zeroes the buffer: the negative control |
| Locked skip list | `kv_skiplock.c` | shards of a skip list with a `CRITICAL_SECTION` each | `sl_get sl_put sl_del random_level` and the vtable functions |
| Benchmark | `bench.c` | `BenchShared` (two atomic counters), a `ThreadCtx` per worker, the sample buffer, the snapshot file | `bench_main`, `worker`, key generators, `val_encode`/`val_check`, `percentile_ns` |
| Scripts | `scripts/*.py`, `*.ps1`, `*.cmd`, `*.bat` | `results.csv`, `snapshots_long_*.csv`, exit codes | matrix, validation, long runs, plots |

**How they interact.** A script starts `bench.exe` and reads its last line, its exit
code and perhaps a file of snapshots. `bench_main` creates one map, seeds it, starts
the workers and waits. The workers share the map and the two counters with each other
and with `bench_main`, and nothing else. A map hashes the key to a bucket (or shard);
buckets share no state, so that a bucket is the unit of concurrency and of the models.

**What is hard.** (1) The lock-free lists: walks over nodes that other threads mark,
unlink and link, compare-and-swaps on values loaded long before, and a `memcpy` that
no lock protects. (2) The reader/writer map, where `del` frees nodes that readers were
just walking over. (3) The skip list, whose levels must agree after any sequence of
calls. (4) `bench_main`: failure at every acquisition, and totals that are read while
or after workers count. (5) Taking a map down, or rolling a half-made one back, when
lists hold marked nodes and some locks are initialised already. (6) Numbers at their
limits: options that wrap, intervals that overflow, samples of keys beyond the key space,
percentiles of very few values. (7) Scripts that judge a process by an exit code, a line
and a file that all arrive at their own time.

**What makes each correct.** The maps: callers cannot tell one from a map with atomic
operations; no access to freed memory; no memory lost (locked maps); progress. The
benchmark: the map outlives the workers, every path gives back what it took, the ways
of counting agree, keys stay in their range, and the run ends. The scripts: an exit code
of 0 is earned, and every script ends. Section 5 lists where the code falls short of it.

## 2. The modules

| Module | Models | Grain of a step |
|---|---|---|
| `KVMap` | the promise of the interface: a map with atomic put, get, del | call, effect, return |
| `HarrisList` | one bucket of either lock-free map | one atomic load, compare-and-swap, malloc, free, or word of a memcpy |
| `HarrisHistory` | `HarrisList` and a count of the nodes each call has deleted | the same |
| `HarrisMap` | the mapping of `HarrisList` to `KVMap` | |
| `LockedChain` | one bucket of the mutex, rwlock and wrongget maps (`impl` says which) | one round of a walk, word of a memcpy, malloc, free, lock or unlock |
| `LockedChainMap` | the mapping of `LockedChain` to `KVMap` | |
| `SkipShard` | one shard of the skip list | one node of a search, one level of a splice, calloc, free, lock, unlock |
| `SkipShardMap` | the mapping of `SkipShard` to `KVMap` | |
| `Reach` | what a list leads to, as the least set closed under `next` | |
| `MapLifecycle` | `create_impl` with its rollback, and `destroy_impl`, of all six maps | one allocation or loop round; a call on the map is one step |
| `CommandLine` | the loop over `argv`, the limits behind it, `vt_by_name`, `profile_id`, the snapshot interval | one argument |
| `Workload` | the self-test, the seeding, the keys and operations of the workers, `val_encode`, `val_check`, `percentile_ns` (extends `CommandLine`) | one operation on the map |
| `Bench` | `bench_main` from `vt->create` on, and `worker` | one call, one atomic operation, one test of a loop |
| `Scripts` | the validator, the matrix and the long script, over an abstract `bench.exe` | one call that waits, polls, reads or decides |
| `HarrisListProofs`, `LockedChainProofs`, `SkipShardProofs`, `MapLifecycleProofs`, `WorkloadProofs`, `BenchProofs`, `ScriptsProofs` | the theorems about the module in their name | |
| `SharedLemmas` | the facts several of them cite: lists and what is reached, induction, quotients, sums | |
| `MCHarrisList`, `MCHarrisHistory`, `MCLockedChain`, `MCSkipShard`, `MCMapLifecycle`, `MCWorkload` | constants for TLC | |

`LockedChain`, `SkipShard` and `HarrisList` each implement `KVMap` under the mapping in
the module named `...Map`: `LockedChain` and `SkipShard` as it stands, the wrongget map
with gets that hand out zeros (`Given`), `HarrisList` for one caller and with puts that
cut larger keys off (`Cut`). `Workload` and `Bench` are two views of one run of
`bench.exe`: what it asks of a map that answers at once, and what its threads do to each
other. `Scripts` sees the process from outside.

### HarrisList

`key`, `val`, `next` are the fields of `LNode`, indexed by address; a reference is a
pointer with its mark. `allocated` is the heap. `pred`, `curr`, `succ`, `new` are the
locals of `harris_find` and its callers, and `pc` says which shared access comes next:

| pc | code (line numbers of `kv_lf_skiplist.c`) |
|---|---|
| `find` | `try_again`: load `head->next` (46-49) |
| `walk` | the tests on `curr_raw` and `succ_raw`, with the load of `curr->next` (51-57, 69-75) |
| `snip` | the compare-and-swap that unlinks a marked node (58-65) |
| `reload` | the load of `pred->next` after it (66) |
| `write`, `read` | `memcpy` to or from `curr->val` (134, 153) |
| `alloc`, `link` | `node_new`, and the compare-and-swap that publishes the node (137-144) |
| `load`, `mark`, `unlink` | the three accesses of `del_impl` (166-179) |
| `fault` | a null pointer has been dereferenced: the process is dead |

The text of the list code is the same in both files, up to an unused local and the
names of the bucket; the entries of `map` in `PROJECT.json` name one or the other.
The unlinking compare-and-swap keeps the mark bit in its expected value, and the test
for the end of the list compares the whole word, as in the code. Memory is sequentially
consistent in the model: every pointer is published with a release and loaded with an
acquire operation, and a node's key never changes after that. The value is the
exception, and is modelled as the data race it is: words are copied one at a time, in
any order. `malloc` may always fail and may return any free address, the one just
freed included. The sentinel's value is never read and is left out.

### LockedChain and SkipShard

Lock and unlock are the calls of the code; a lock is a set of threads, so that a lock
that does not work can be told from one that does. A freed node is cleared in the model,
which keeps what nobody may read from multiplying the states. `LockedChain` keeps in
`prev` the node that del's `pp` points into. In `SkipShard` the values move in one step, because the lock is exclusive; `x`, `lv` and
`pred` are the locals of `sl_put` and `sl_del`, and entries of `pred` start as garbage,
as they do on the stack. The loop of `random_level` may stop at any level and goes on
as long as `Climbs` lets it.

### MapLifecycle

`blocks`, `head`, `section`, `nodes` are what is allocated or initialised; `i`, `end`,
`p`, `nx` are the locals of the loops. `create_impl` fails at any allocation; the
rollback of the maps with sentinels and `destroy_impl` are the same loops over buckets,
up to `end`. In between any calls are made, one at a time, because the model is about
what they leave: `PutNew` inserts (and cuts a tail off in the lock-free maps),
`DelLocked` unlinks and frees, `Mark` and `Snip` are the two halves of a lock-free
deletion. They are separate because a quiescent list can keep a marked node: with three
threads, the compare-and-swap that should have unlinked it can be spent on clearing the
mark of the node before it. `lost` is a history variable.

### CommandLine and Workload

An argument is a token, and any token may stand where a value is expected. `Number` is
what `atoi` and `strtoull` make of it and `Real` what `atof` does; an unsigned option
takes the sign by wrapping and saturates at `Width - 1` when the magnitude does not fit,
as `strtoull` does (`Unsigned`). `Limit` is the block of `if`s behind the loop.
`IntervalMs` is a set: for an interval whose product with 1000 does not fit an `int` the
program's behaviour is undefined, and compilers differ on whether the test for 0 behind it
survives. `rng_u64` returns any number; a value is the `uint64_t` at its start, for which
`val_encode` and `val_check` do what the code does. `^` is the constant operator `BitXor`,
which `MCWorkload` gives its meaning bit by bit.

The exponent of the Zipf distribution is a double, 1.0001 unless `--zipf-s` says
otherwise. In the model it is an integer number of units as small as wanted (a double is a
whole number of units of 2^-1074), `DefaultExponent` being the default. `pow` is the
constant operator `Pow`. `WorkloadAssumption` asks of it that powers are positive and, of
exponents that are not negative, that the power of 1 is 1 and that powers do not fall from
one key to the next, and no more; `MCWorkload` has tables for 0.5, 1.0001 and 1.2, cut off after four
places. What is left out is the rounding of a double: the sums of `zipf_sample` are exact
sums of weights that are cut off to multiples of 1/`Scale`. An exponent that is no number
or infinite is not modelled, nor are powers that underflow to 0, which takes a large
negative exponent; `SmallKeysAreHot` says nothing of negative exponents, and
`KeysStayInRange` holds for whatever `zipf_sample` returns up to its limit, because
`key_zipf` cuts it off at both ends.

### Scripts

`child` is the process: it may open and truncate its file, write rows, and end with any
code, with or without its line, or never end. `file` keeps the time in the last row.
`pc` goes through the waiting calls of each script: `wait` and `join` (the reader thread
of a visible matrix run) and `judge`; `poll`, `look`, `decide` in the long script.
`Interrupt` is Ctrl+C at any moment: `run_all_benchmarks.py` catches it and exits with 130,
the others die of it. `log` is a history variable.

### Bench

`held` and `handles` are what `bench_main` has to give back. The code does this by hand in
seven places, and the model has each of them: `Path` gives, for the place, the list of what
is closed, freed or destroyed there, in the order of the code (`OpenFailed`, `AllocFailed`,
`SpawnFailed`; `WorkersDone`, `SamplesDone`, `AllDone` when all is well; the failed
`vt->create` has nothing to give back), and `GiveBack` takes the list one entry at a time,
the workers going on meanwhile. Nothing in the model makes a list complete. `Alloc` obtains
any subset of the four arrays, as four `calloc`s in a row do before the first test, and
`free` of what has not been obtained does nothing. The handles are an entry of their own
because they are read from `th` while they are closed: those below the worker that could
not be started, or all. `given` is a history variable: `NothingLeaks` says that nothing is
left when `bench_main` returns, that no entry comes twice, that the map is destroyed only
where there is one, and that the handles closed are those of threads that have been started
and are closed before their array is freed. With any entry of any of the six lists left out
or doubled, or `handles` moved behind `th`, TLC finds it violated.

The workers' operations on the map are left open (the other modules
are about them): an operation is one that `val_check` rejects or one that it does not.
`WaitReturns` models `WaitForMultipleObjects`: it refuses more than `MaxWait` handles,
and it times out only where the code asks for that. `rejected` is a history variable that
nothing but a property reads.

## 3. What the runs check

| Run | Properties | Bounds | Shows |
|---|---|---|---|
| `list` | `TypeOK Sorted NoDangling ReadsOwnKey NeverRecycled LockFree` | 2 threads, 2 nodes, 2 keys, 2 words, `val_encode`'s one value per key | the lock-free list is memory-safe as long as nobody frees linked nodes, stays sorted, a get returns only what was put under its key, and some operation returns as long as one is in progress |
| `list_alone` | `IsCuttingMap` | 1 thread, 3 nodes, 3 keys, 2 words, two values each | to one caller the list is a map, but for the keys an insertion loses |
| `list_truncates` | `OnlyDeleteRemoves` | 1 thread | **violated**, section 5 |
| `list_null` | `NoNullDereference` | 2 threads, 3 nodes | **violated**, section 5 |
| `list_resurrects` | `OnlyPutAdds` | 3 threads on a seeded list of 3 | **violated**, section 5 |
| `list_del` | `DelTellsTheTruth` | 2 threads, 3 nodes | **violated**, section 5 |
| `chain` | `TypeOK NoUseAfterFree NoLeak IsMap HolderReturns` | mutex, rwlock and wrongget; 2 threads, 2 nodes, 2 keys, 2 words | the locked chains implement `KVMap`, wrongget the one whose gets hand out zeros; malloc and free balance; the lock is always given back |
| `skip` | `TypeOK IsSkipList NoWildPointer IsMap` | 2 threads, 3 nodes, 3 keys, 2 values, 2 levels | the skip list implements `KVMap`, and its levels agree after any sequence of calls |
| `bench` | the six of `Bench` | 3 threads asked for, 2 allowed; 4 operations each, 2 timeouts, counters modulo 2, every 2nd latency, 1 sample kept | rows, totals, errors and samples agree; every cleanup path, behind every subset of the allocations, gives everything back once; the run ends |
| `lifecycle` | `TypeOK MapIsWhole NoBadFree OnlyUnlinkedLeak OneSectionLeaks DestroyEnds` | all six maps, 1 or 2 buckets, 4 nodes | whatever fails or is called, a map is handed out whole and taken down without touching a node twice; what stays behind is exactly the unlinked nodes of the lock-free maps and one critical section of the skip list's rollback |
| `workload` | `TypeOK LastValueCounts RowsKeepComing KeysStayInRange SmallKeysAreHot HitsVerify P99IsRank` | all lines of up to 4 tokens of 8, and some 200 longer ones; exponents -1, 0, 0.5, 1, 1.0001 and 1.2; 32 values of a `uint64_t`, 64 of an `int`; 2 operations; up to 3 latencies | options come to their last value and their limits; no interval stops the rows; no key outside `1 .. keyspace-1`; smaller keys are the likelier ones, whole exponent or not; only wrongget is rejected; p99 is a rank |
| `scripts` | `TypeOK VerdictIsEarned LastRowIsShown ScriptEnds` | 3 implementations, 3 times in rows | exit code 0 and every row of `results.csv` are earned, the final row is shown, no script hangs with its child |

**Why the bounds are enough to be interesting.** Two nodes make a list in which `pred`,
`curr` and the end are all different, and reach every action of `HarrisList`, the null
dereference included; two threads interfere in every pair of operations. Two nodes also
make malloc return an address again, and run out. In `list` a key has one value, so that a
get cannot find words of two; `GetReadsItsKey` is about any number of values and words, and
`list_alone` has two of each. The reader/writer lock needs a reader
and a writer. Three skip-list nodes of one or two levels make a node go in between two
that are lower or higher than it, on one level and on both. `Bench` reaches each limit
(handles, wrap of the error counter, sample buffer) with numbers this small. Two buckets
and four nodes let the rollback of `MapLifecycle` fail in the first bucket, behind it,
and not at all, and give a bucket a sentinel and up to three nodes to walk. In
`workload`, `PerSecond` (12) and `DwordRange` (64) have a common factor, as 1000 and
2^32 have, so that a product can wrap to 0; `Magic` lies inside the key range, so that
the key whose encoded value is all zeros is drawn; `Grain` (24) is above the largest
small key space and below the range of random numbers. Three implementations make the
validator and the matrix go on past a run that is not the last; three times make rows
repeat, grow, and follow those of an earlier day. Of three latencies in any order, equal
ones among them, the percentile must pick the middle one, which is the last only by chance.
The properties listed in section 4 do not depend on the bounds at all: they are proved.

**Symmetry.** No definition of the maps tells one thread, node or value apart from
another, and the operators that CHOOSE a thread or a node have one to choose from;
`list_alone`, `skip` and the four violated runs, which check no liveness, reduce by
symmetry. The others do not. In `list_resurrects` the threads have different calls,
so only the nodes are interchangeable.

**Deadlock.** `HarrisList` stops when the process dies, `Bench`, `Workload` and `Scripts`
when the program returns, `MapLifecycle` when the map is gone: their runs do not check
for deadlock. `chain` and `skip` do.

**Fairness.** Weak fairness per thread, which is what a preemptive scheduler gives;
no thread is made to call again. Neither kind of lock is fair, so `Acquire` is weakly
fair only: a thread may be overtaken for ever, and `HolderReturns` promises nothing to
those outside. In `Bench` the loop of a worker ends because its time is up, which
`MaxOps` stands for, and `MaxTimeouts` bounds the waits that time out for the same
reason. A snapshot file is asked for or not: both
happen in the one run. In `MapLifecycle` the one thread that creates and destroys goes
on; nobody is bound to destroy a map that is in use. In `Scripts` the script runs and
its clock goes; nothing is asked of `bench.exe`, which may hang for ever.

**Variants.** A definition called a variant is a mistake that could have been made in
the definition after it; for each property there is one that breaks it.

## 4. What is proved

Each theorem is about the specification with any value of the constants:

| Module | Theorem | Property |
|---|---|---|
| `HarrisListProofs` | `TypeCorrect` | `TypeOK` |
| | `NothingDangles` | `NoDangling`: no pointer to a freed or unpublished node is ever held or stored |
| | `ListIsSorted` | `Sorted`: keys grow along every `next`, so a walk that is left alone ends |
| | `GetReadsItsKey` | `ReadsOwnKey`: each word returned was put under that key, so that with `val_encode`'s one value per key `val_check` never fails |
| | `LinkedForGood` | `NeverRecycled`: a linked node is never freed and never changes its key |
| | `OneCallerSeesCuttingMap` | `IsCuttingMap`, assuming `OneCaller` (there is at most one thread): the refinement of `KVMap` with the `Cut` of an insertion |
| `LockedChainProofs` | `LockedChainTypeCorrect` | `TypeOK` |
| | `WritersAreAlone` | who has the lock for itself is alone inside (`Exclusive`) |
| | `LockedChainIsSafe` | `NoUseAfterFree`: no thread inside looks at a freed node |
| | `NothingIsLost` | `NoLeak`: malloc and free balance, and no key is there twice |
| | `LockedChainIsMap` | `IsMap`: the refinement of `KVMap` |
| `SkipShardProofs` | `SkipShardTypeCorrect` | `TypeOK`: no node higher than its array, no loop beyond it |
| | `NoPointerIsWild` | `NoWildPointer`: searches and splices use nodes only, and set predecessors only |
| | `LevelsAreWhole` | with the lock free, each level leads upwards through all the nodes high enough for it |
| | `ShardIsSkipList` | `IsSkipList`: the same of what is reached from the head |
| | `SkipShardIsMap` | `IsMap`: the refinement of `KVMap` |
| `BenchProofs` | `TypesAreKept` | `TypeOK`: no worker writes beyond its part of the sample buffer |
| | `EverythingIsGivenBack` | `NothingLeaks`: on each cleanup path, whichever allocations have failed |
| | `WorkersKeepTheirMap` | `MapOutlivesWorkers` |
| | `ResultsAgree` | `TotalsAgree`: counters, last row and totals are the sums of the workers' own counts |
| | `SamplesAgree` | `SamplesAreKept` |
| `MapLifecycleProofs` | `TypesAreKept` | `TypeOK` |
| | `MapStaysWhole` | `MapIsWhole`: all arrays, sentinels and locks, from `create_impl` to `destroy_impl` |
| | `FreesAreGood` | `NoBadFree`: no node is read or freed that is not allocated |
| | `OnlyTheUnlinkedLeak` | `OnlyUnlinkedLeak`: what stays is what the lock-free maps have unlinked |
| | `OneSectionIsLeft` | `OneSectionLeaks` |
| `WorkloadProofs` | `TypesAreKept` | `TypeOK`, with the limits of `bench_main` |
| | `TheLastValueCounts` | `LastValueCounts` |
| | `RowsDoKeepComing` | `RowsKeepComing`: no wait is `INFINITE` |
| | `KeysDoStayInRange` | `KeysStayInRange` |
| | `SmallKeysStayHot` | `SmallKeysAreHot`: for any exponent from 0 and any `pow` that does not fall |
| | `OnlyWronggetFails` | `HitsVerify` |
| | `PercentileRanks` | `P99IsRank` |
| `ScriptsProofs` | `TypesAreKept` | `TypeOK` |
| | `SuccessIsEarned` | `VerdictIsEarned` |
| | `ShownIsLast` | `LastRowIsShown` |

**Assumptions.** The only ones are those the modules name, and TLC evaluates them in the
runs: keys are positive where the sentinel's key is 0; the head is not a heap node, null
is neither, no value is a null; callers put values of words; limits are positive.
`CommandLineAssumption` says that 1000 and the range of a `DWORD` are even,
`WorkloadAssumption` that `BitXor(x, y)` is 0 exactly when `x = y`, which is all the proofs
use of it, that the constant of `val_encode` is neither 0 nor the self-test's key, and of
`Pow` what section 2 says.

**The lock-free list.** None of its properties is inductive alone. `IInv` adds, in layers:
`Control` (at each program point, which locals are references to nodes, and that a
private node exists exactly at `link`); `Fresh` (a private node is as `node_new` left
it, its `next` null, and no two threads have the same); `HeadKey` (the sentinel is
below every key); `Ordered` (keys grow from `pred` to `curr` to `succ`); `Stored` and
`Held` (words in nodes and in buffers belong to their key). The steps that matter are
the four compare-and-swaps. `NoDangling` and `NeverRecycled` hold because a node is
freed only by the thread that has just failed to link it, while it is private. `Sorted`
survives the successor that `put_impl` drops (null is after everything) and the mark
that a snip clears, because `Ordered` is about keys and not about marks. It is these
two facts that make a benchmark of a list with the defects of section 5 report no
verification errors.

**The lock-free list and one caller.** `OneCallerSeesCuttingMap` says what is left of the
promise of `kv_common.h` when nobody interferes, and so that losing the larger keys is the
only thing wrong with the list then. `WellLinked`, which holds for any number of threads,
says that in what is reached from the sentinel no key is twice and none is skipped: of two
cells of a list one leads to the other (`ReachTotal`), and keys grow on the way
(`ReachInOrder`). `Alone` adds what only a single caller knows: `pred` and `curr` are still
neighbours (`InPlace`), so that no compare-and-swap fails (`Steady`); the only marked node is
the one it is about to unlink (`OneMark`); what memcpy and `node_new` have copied
(`CopiedSoFar`); and every node has a whole value, but for the one being overwritten
(`WholeValues`). A new node behind `pred` whose `next` is null leaves exactly the keys up to
`pred`'s (`ReachCut`, `LinkCuts`), an unlinked node is the only one to go (`ReachRemove`,
`UnlinkRemoves`). The steps of `KVMap` are the call, the first word of an overwriting put,
the compare-and-swap that links, the one that marks, every miss, the failing malloc, the
last word of a get and the return.

**Lists without induction.** What a list leads to is not computed by following it but is
the least set that has its first cell and is closed under `next` (`Reach`). Two facts
about that set (`ReachIsClosed`, `ReachIsLeast`) are enough to show what a new cell
(`ReachInsert`, or `ReachCut` where it has no successor), an unlinked one (`ReachRemove`)
and a walk's next step (`ReachTail`) do to it. Where a proof does count, it cites `Induction`, of a set of numbers, which is
proved from the order of the naturals being well-founded.

**The locked chains.** `IInv` ties the lock to the program points (`Locks`), says that
whoever has it for itself is alone (`Exclusive`), and then describes the chain: `Linked`
is everything allocated that no put has still to push and no del has already cut off;
the cells of `Linked` lead to cells of `Linked`, no two to the same (`Shape`); and a walk
is on it, in del with `prev` right before `curr` (`Walks`). That no two cells lead to the
same one is what makes an unlinked node unreachable, so that the free behind it touches
nothing anybody walks on. For `NoLeak` the invariant adds that a walk from the head meets
all of `Linked` (`Whole`), that no two nodes have the same key (`OneEach`), and what a
walk knows (`Found`): the node with its key, if there is one, is still ahead, so that a
put that comes to the end may push a new one. For `IsMap` it adds which words have been
copied (`Copies`) and that a node nobody is writing has a value that was put under its
key (`Values`). A step that changes the chain is taken alone; the readers of the
reader/writer map walk only while nobody takes one. The refinement has a step of `KVMap`
for the call, for the first word of an overwriting put, for a push, for an unlink, for
every miss and for the last word of a get; all the others change nothing a caller sees.

**The skip list.** sl_del frees a node after taking it off each level at the predecessor
its search has left there, and nothing in the code checks that this predecessor leads to
the node. `AllLevels` says why it does: on every level keys grow along `next`, and between
a node and its successor there is no third one of that level. A search leaves a level at
a node below the key whose successor is not (`Left`), and there is only one such place
(`LeftLeads`). A node that is being spliced in or out is on some of its levels only
(`Off`); the two splices move it across one level (`SpliceLevels`, `UnspliceLevels`).
`Whole` says of each level what it says of a chain, and from it follows `IsSkipList`.
The map a caller sees changes with level 0 alone: a put has taken effect when the splice
of level 0 is done, a del when its node is off it, whatever the levels above are like.

**bench_main.** What it holds and whom it has started follow from where it is (`Holds`,
`Starts`). On a cleanup path, `Returns` says that all that is still held is on the rest of
this path or on those behind it (`Left`, `Later`), that nothing already given back is, and
that the handles go before `th`; `PathFacts` are the facts about the lists themselves, that
no entry is on two paths that follow each other, or twice on one, and `GiveBackStep` is the
step to the next entry. At the end of the last path there is nothing left. `bench_main` takes the map down behind a wait that says that all workers are through
(`Waits`), and that the wait does not fail instead rests on the clamp of `--threads`:
`HandlesFit`. For the totals, `Counts` says that the shared counters are the sums of what
the workers have counted, but for a rejected value that one of them is just about to
count, and modulo the width of the counter; `Rows` and `Prints` carry that over to what
is written and printed once nobody counts any more. One worker's step changes one term
of a sum (`SumGrows`).

**Taking a map down.** `Stages`, `Blocks`, `Losses` and `Sections` say which heads, arrays
and critical sections there are at each place of `create_impl`, of its rollback and of
`destroy_impl`. About the nodes, `FInv` says that they are a forest of lists, one per
bucket, without what has been lost: its trees are disjoint, each ends, and all of them
together are all that is allocated. The cell that a walk is at is the root of its
bucket's tree, and to free it takes the root off: the lists before it are gone, those
behind it whole. Marks do not matter, because the forest is about the pointers in them.

**The command line and what follows.** `Taken` says what the loop has made of the options
it is through with; that it never takes a value for an option rests on its being at an odd
place. Behind it `Limited` holds for good. `Counted` and `Stored` keep the seeding loop
below the key space, so that its counter cannot wrap, and every stored value the encoded
one of its key; `Checked` says which of them a get has just had rejected. `zipf_sample`
finds the first key whose sum reaches a random number; the sums of weights that fall
grow by less and less (`SlowSums`), rounding moves the limit between two keys by less than
one random number (`MarksGrowSlowly`), and counting what lies between (`DrawsFall`) gives
`SmallKeysAreHot`. The percentile is defined by an order of the array; that there is one is
proved by sorting (`OrderExists`), and its rank by counting the places before and behind it.

**The scripts.** `Runs` and `Where` tie each place of a script to the state of its child;
`Reported` and `Heard` say that a return code and a line belong to the process that has
ended; `Judged`, `Tabled` and `Succeeded` what is known of the runs left behind. In the
long script the row read last after the end of the process is the last there will be.

**Only model-checked:** liveness (`LockFree`, `HolderReturns`, `Terminates`,
`DestroyEnds`, `ScriptEnds`), which like fairness is out of the prover's reach. The four violated properties of section 5 have runs that show a counterexample.

## 5. Where the code and its promise part

1. **An insertion loses the larger keys** (`list_truncates`). `put_impl` never stores
   `curr` in the new node's `next` (`kv_lf_skiplist.c:137-141`, `kv_lf_hash.c:146-150`).
   One thread is enough. Seeding in ascending order does not show it; any workload does.
2. **A null dereference** (`list_null`). The reload at `kv_lf_skiplist.c:66` may see a
   null pointer with its mark, which the test at 51 does not catch.
3. **A deleted node comes back** (`list_resurrects`). The same reload may return a marked
   reference, which the next snip expects and overwrites with an unmarked one.
4. **A delete that lies** (`list_del`). When its unlinking compare-and-swap fails,
   `del_impl` starts over after the deletion: it returns 0 for a key it has deleted, or
   deletes a second node.

`MapOutlivesWorkers` also states an exception: when `CreateThread` fails, `bench_main`
destroys the map while the workers already started still use it (`bench.c:386-397`).

Things worth knowing that no document contradicts:

- `OneSectionLeaks`: when the skip list cannot have the head of a shard, the critical
  section of that shard is initialised and stays (`kv_skiplock.c:126`).
- `OnlyUnlinkedLeak`: nodes the lock-free maps unlink or cut off are never freed.
- `RowsKeepComing`: from an interval of about 2.1 million seconds on, the product
  `bench.c:404` overflows. The wait is then the product modulo 2^32 milliseconds, which may
  be none at all where the compiler has dropped the test for 0 (gcc -O2 does), but it is
  never endless.
- `HitsVerify`: there is one key for which wrongget's zeros pass `val_check`, the one equal
  to the constant of `val_encode`. It is outside every key space anybody would ask for.
- `ProfileId`: an unknown `--profile` runs as "mixed", under its own name in the output.
- `LastRowIsShown` compares times: a row with the time of the last one is not shown even
  if its other numbers differ, and a file that cannot be read shows nothing.
- `run_benchmarks_only.bat` does not list `kv_wrongget.c`, which `bench.c` needs.
- `node_new` and `sl_node_new` copy 64 bytes from the one-byte literal that a sentinel is made of. Its
  value is never read and is left out of the models.

## 6. What is not modelled

Hashing to buckets (buckets share nothing); `rng_init` and `rng_u64` (any number may be
drawn); clocks, memory figures, formatting and parsing of lines beyond the fields that
something is decided by; the matrix's computation of SECONDS. Plotting reads files and
draws. The wrappers (`*.cmd`, `*.bat`, `*.ps1`) and `main.c` are sequences of commands
with no state of their own. `Workload` takes its map to answer at once, so that what
overlapping calls do to a value is the subject of the maps' modules and not of this one.

## 7. Plan

1. (done) `KVMap`, `HarrisList` and its proofs, `LockedChain`, `SkipShard`, `Bench`.
2. (done) `MapLifecycle`, `CommandLine`, `Workload`, `Scripts`.
3. (done) Theorems: every invariant of the passing runs, `NeverRecycled`, and the
   refinements of the locked chains, of the skip list and, for one caller, of the
   lock-free list. What is left to TLC is liveness.
