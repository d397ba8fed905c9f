# A TLA+ model of the transactional memory

The repository holds a software transactional memory in C (`template/`), a
lock-based reference implementation of the same interface (`reference/`), and a
test bench in C++ (`grading/`) that runs a bank workload on both. This directory
holds TLA+ modules that model the transactional memory, the TLC runs that check
them and the proofs that TLAPS checks.

Contents: 1 Inventory, 2 Modules, 3 Runs and bounds, 4 Fairness, 5 Proofs,
6 What the checks found, 7 What is not modelled, 8 Plan.

## 1 Inventory

### The system in a paragraph

A client thread runs transactions: `tm_begin`, then any number of `tm_read`,
`tm_write`, `tm_alloc`, `tm_free`, then `tm_end`; each of the reads and writes may
instead abort the transaction, and the client starts it again. Transactions run
in *epochs*. A *batcher* lets a batch of threads in, keeps the others waiting and,
when the last thread of the batch has left, runs `epoch_cleanup` and lets in
everybody who waits. Memory is a set of *segments*. Each keeps every word twice:
the *read copy* is what was committed in earlier epochs, the *write copy* what
this epoch makes of it. A *control word* per word says which transaction came
first, whether it writes, and whether others read. `epoch_cleanup` makes the
write copy the read copy and forgets the control words, for the segments of the
*dirty list*, which a segment joins when a transaction first touches it.

### Components

| Component | State | Operations | Talks to |
|---|---|---|---|
| Batcher (`batcher.c`) | `counter`, `remaining`, `blocked`, mutex `critsec`, condition variable `waiters` | `enter_batcher`, `leave_batcher` | called by every `tm_begin`, `tm_end` and abort; calls `epoch_cleanup` |
| Transactional memory (`tm.c`, `epoch_cleanup` in `batcher.c`) | `trans_counter`; per word `control_t`, read copy, write copy; per segment `owner`, `newly_alloc`, `should_free`, `dirty`, `rollback` | `tm_create`, `tm_begin`, `tm_end`, `tm_read`, `tm_write`, `tm_alloc`, `tm_free`, `rollback_transaction`, `tm_destroy`, `tm_start`, `tm_size`, `tm_align` | threads of a batch share all of it; per word a spinlock, for the lists one mutex |
| Segment lists (`link.c`) | two circular doubly linked lists, global mutex `link_lock` | `move_to_dirty`, `move_to_clean`, `link_insert`, `link_remove`, `link_append` (unused) | `rollback_transaction` and `epoch_cleanup` walk the dirty list without the mutex |
| Segment layout (`segment.c`, `segment.h`, `common.h`) | offsets in an aligned block, exponent in the upper bits of an address | `alloc_segment`, `free_segment`, `cons_opaque_ptr*`, `get_opaque_ptr_*` | every access of a client |
| Locks (`lock.c`) | test-and-test-and-set flag | `spinlock_acquire`, `spinlock_release` | control words |
| Reference (`reference/tm.c`) | one lock (reader-writer, ticket, mutex or TTAS by a compile-time choice), list of allocations | the same interface | nothing of `template/` |
| Bench synchronisation (`grading.cpp`, `common.hpp`) | `Sync` (status, nbready), `Latch`, `Barrier`, the runner of `bounded_run` | rounds of one master and n workers | workload |
| Transaction wrapper (`transactional.hpp`) | `aborted` flag, retry loop `transactional` | forwards to the library | workload, library |
| Bank workload (`workload.hpp`) | accounts in shared memory | `long_tx`, `alloc_tx`, `short_tx`, `init`, `check` | wrapper, `Barrier` |

### What is hard, and what makes each part correct

* **Batcher.** Several threads enter and leave; a thread that is woken has not
  got the mutex yet; the end of an epoch is recognised by counters alone.
  `pthread_cond_wait` is called once, in no loop, so a spurious wakeup lets a
  thread into a batch that runs. Correct: but for such threads nobody joins a
  running batch, the counters agree with the threads and the cleanup runs beside
  nobody; what they upset is right again with the next epoch; no waiter is forgotten.
* **Transactional memory.** Transactions of a batch interleave call by call and
  word by word; a call can fail half-way; a rollback hands words back while
  others use the words beside them; flags of a segment mean different things
  for a segment that is allocated, freed or both. Correct: transactions that
  count never conflict, nobody sees what another one writes, nothing of an
  aborted transaction stays, everything of a committed one is published, no
  mark survives an epoch, no segment is lost.
* **Lists.** A segment is claimed by a CAS and moved later; walks run without
  the lock. Correct: in one list, once; a walk ends and sees what it must.
* **Bench.** Counters and status are separate atomics; time limits; exceptions
  between two barriers. Correct: rounds do not overlap, an error is reported,
  everybody terminates.

`PROJECT.json` lists the hazards, each at its line with the properties that
would catch it going wrong.

## 2 Modules

| Module | Models | Composed of |
|---|---|---|
| `EpochGate` | what the batcher promises if nobody wakes early, three actions | |
| `SpuriousGate` | what it promises with spurious wakeups: the same gate, with a queue that leaks | `EpochGate` (extended) |
| `Batcher` | `batcher.c`, one step per critical section | `SpuriousGate` (refinement `RefinesGate`), `EpochGate` (`Ideal`) |
| `Client` | `Transaction` and `transactional()` of `transactional.hpp` | `Batcher` (extended) |
| `BatcherProofs` | theorems about `Batcher` and `Client` | `Client`, TLAPS |
| `ControlWord` | `control_t` and the tests on it | |
| `TM` | `tm.c`, one step per call | `EpochGate` (actions conjoined), `ControlWord`, `SnapshotTM` (refinement `Implements`) |
| `SnapshotTM` | what transactions may rely on | `EpochGate` |
| `TMProofs` | theorems about `TM`, and that it implements `SnapshotTM` | `TM`, TLAPS |
| `EpochSteps` | one epoch of `tm.c`, inside the calls | `ControlWord` |
| `EpochStepsProofs` | theorems about `EpochSteps` | `EpochSteps`, TLAPS |
| `DirtyList` | `link.c` pointer by pointer, with the walks of `rollback_transaction`, `epoch_cleanup` and `tm_destroy` | |
| `DirtyListProofs` | theorems about `DirtyList` | `DirtyList`, TLAPS |
| `Layout` | `segment.h`, `alloc_segment`, `common.h`: the parts of a block and opaque pointers | |
| `RefTM` | `reference/tm.c` with its four locks and its list of allocations | |
| `RefTMProofs` | theorems about `RefTM` | `RefTM`, TLAPS |
| `Sync` | `class Sync` and `measure()` of `grading.cpp`, `Latch` | |
| `Bench` | `main()`, `bounded_run`, loading and unloading, creating and destroying | `Sync` (extended) |
| `BenchProofs` | theorems about `Sync` and `Bench` | `Bench`, TLAPS |
| `CounterCheck` | `WorkloadBank::check` of `workload.hpp`, `Barrier` | |
| `Bank` | `WorkloadBank::run` of `workload.hpp` with its three kinds of transactions | |
| `Accounts` | the same bank, and `init`, on the words of the shared memory, with `Shared` and `AccountSegment` | `Layout`, `Bank` (refinement `RefinesBank`) |
| `Workload` | the first round and one of either kind after it | `CounterCheck` (extended), `Accounts` |
| `BankProofs` | theorems about `Bank`, and lemmas about sums | `Workload`, TLAPS |
| `WorkloadProofs` | theorems about `CounterCheck`, `Layout`, `Accounts` and `Workload` | `BankProofs` |
| `MCBatcher`, `MCTM`, `MCEpochSteps`, `MCDirtyList`, `MCRefTM`, `MCSync`, `MCWorkload` | instances for TLC (symmetry sets) | |

### EpochGate and Batcher

`EpochGate` says: the first thread at an idle gate opens a batch of its own, later
ones queue, the last member to leave turns the queue into the next batch.
`Batcher` models `enter_batcher` and `leave_batcher`. `remaining`, `blocked` and
`counter` change only with `critsec` held, so a critical section is a step, with
three exceptions that other threads can notice: taking the mutex, waiting in
`pthread_cond_wait` (asleep, woken, has the mutex again), and `epoch_cleanup`,
during which the mutex is held but threads that do not need it run on. A thread's
location is `pc`. `counter` wraps at `CounterModulus` (2^32 in the code). A sleeping
thread is woken by the broadcast (in `EndEpoch`) or by nobody (`WakeSpuriously`); after that
the code treats both alike. `early` is history and counts the second kind in this epoch.

A thread that woke early is still in `blocked` and was never added to `remaining`. The epoch then
ends one departure too soon, whoever leaves, with `epoch_cleanup` beside a transaction; but `blocked`,
which becomes the next `remaining`, has counted just the one who is left over, and is
reset. `SpuriousGate` says so without counters: a thread may leak out of the
queue into the batch, the epoch ends when as many have left as it began with, and the
others are members of the next one. `Accounting` and `QuiescentCleanup` bound the damage
by `early`, and `IdealGate` (proved) says that without it there is none: `EpochGate`.

The refinement maps `batch` to the threads that are inside or have been woken or
are leaving, `queue` to those asleep: a waiter joins at the moment it is woken,
and the epoch ends at the broadcast, although `remaining` was set before.

### Client

`Client` puts the wrapper of `transactional.hpp` on top of the batcher. `cpc` is where a thread
is in `transactional()`, `aborted` and `caught` are the flag of `Transaction` and the exception
on its way. `tm_begin` and `tm_end` are the batcher's own actions (`Begin`, `Inside`, `End`);
a call that is refused (`Refuse`) leaves the batcher on its own, and `Destroy` has only
`aborted` to know it. Whether a call is refused is the subject of `TM` and `EpochSteps`: here
any may be.

What the model makes plain: an exception other than `TransactionRetry` (`TransactionAlloc`, or
one of the closure's own) also runs the destructor, which calls `tm_end`: what the closure
had done up to then is committed. `tm_end` never returns false, so the exception the
destructor may throw is never thrown. `tm_begin` never returns `invalid_tx` short of the
overflow of `trans_counter`.

### TM and SnapshotTM

A step of `TM` is one call of `tm.h` with everything it does: a read that fails is
also its rollback, its `leave_batcher` and, if it was the last, the cleanup.
`region` is `region_t` with, for every word, the control word and the two copies,
and for every segment its flags and the list it is in. `Segs` are the addresses
`posix_memalign` can return; one that is in no list is free. `log` and `done` are
history: what every transaction of the epoch has read, written, allocated and
freed, and who has committed. They appear in no guard. That a call is one step is an
abstraction one can notice: inside `tm_write` words are marked and stored before the
segment is in the dirty list, where a rollback looks. `TM` therefore says nothing about a
rollback in the middle of another one's call, nor about what a call that fails half-way
leaves in a clean segment; that is `EpochSteps` (section 6, 1).

| Code | Action or operator |
|---|---|
| `tm_create` | `Init` |
| `tm_begin` | `Begin` |
| `tm_read`: read-only, granted, refused | `ReadOnly`, `Read`, `ReadConflict` |
| `tm_write`: granted, refused | `Write`, `WriteConflict` |
| either, in a segment another transaction allocated | `AccessForeign` |
| every failing call in a segment | `Failing` |
| `tm_alloc`, `tm_free`, `tm_end` | `Alloc`, `Free`, `End` |
| loops of `_tm_read`, `_tm_write` | `MarkReads`, `MarkWrites` |
| `rollback_transaction`, `epoch_cleanup`, `leave_batcher` | `Rollback`, `EpochCleanup`, `Leave` |

The gate's actions are conjoined (`Gate!Enter`, `Gate!LeaveEarly`,
`Gate!LeaveLast`), which `IdealGate` justifies for the behaviours in which nobody wakes early: there
the batcher implements the gate, and its cleanup runs alone, so that it may be part of the
last leave. What a cleanup beside a transaction does to memory is left out (section 7).

`SnapshotTM` is the promise: all transactions of an epoch see one committed
memory plus their own writes, a read or write is possible only without a
conflict, an abort leaves no trace, and the end of the epoch publishes in one
step what committed. Because committed transactions of an epoch do not conflict
and nobody sees another's writes, every serial order of them explains what they
read. It lets a free be lost, because the code does (section 6). It is a
specification, so its definitions are not mapped to lines.

### EpochSteps

`EpochSteps` looks inside the calls during one epoch. A step is what the code does
while nobody can look: one test of a control word with its spinlock held, one
word copied (the spinlock is released before), the CAS on `dirty`, the move of a
link with `link_lock` held, one word of a rollback. The walk of
`rollback_transaction` along the dirty list takes no lock, so the list may grow
under it; new links go behind the last one, and the walk ends at the base it
started after. Every member of a batch runs exactly one transaction in an epoch,
so a thread stands for its transaction, the module needs no bound on their
number, and it ends with the cleanup. A word holds who wrote it.

Transactions here read and write. `tm_alloc` and `tm_free` are in `TM` and `DirtyList`
only, and the writes of single pointers in `link.c` are one step (`Insert`).

### DirtyList

The memory between the calls and below the words: `next` and `prev` of every link and
the bases of the two lists, named by the segments they belong to. What one meets on the
way around a list (`Met`) is what is in every set of links that has the base and is closed
under `next`, so that a list that is broken for a moment has a meaning too. What a thread does with
`link_lock` held is split only where a walk, which takes no lock, can see it:
`link_remove` is a step, `_link_insert` is two, one up to the first pointer a walk can
reach the link by (`Opened`) and one for the rest (`Closed`). Pointers that `malloc`
leaves in a new link are `Wild`. A transaction claims clean segments (`Claim`, the CAS
on `dirty`; whichever of `tm_read`, `tm_write` and `tm_free` does it), allocates (`Alloc`)
and ends or is rolled back (`Rollback`, `RollbackFirst`, `RollbackLink`). When all have
left, the loop of `epoch_cleanup` runs link by link, frees some (`CleanupFree`) and moves
the others (`CleanupMove`), and the next batch begins, so that lists are used over and
over. Which segments are freed is left open: the flags are `TM`'s subject. `owed` is
history: what a walk has still to look at. Instead of a next batch, `tm_destroy` may come
(`Destroy`): it goes around the clean list in the order earlier epochs have left, and
removes and frees every link it passes (`DestroyLink`).

### Layout

Addresses are numbers; a block is the structure, the control words and the two copies, one
behind the other, in a power of two of bytes. `PointerBits` is 48 in the code and 16 here,
which leaves the arithmetic as it is and TLC its 32 bits. `posix_memalign` is two conditions
on a free block, `Aligned` and `Apart`.

### RefTM

`kind` is the lock the library was compiled with. The ticket lock (`Draw`, `Served`) and
the test-and-test-and-set lock (`TrySucceeds`, `TryFails`, `SeesFree`) are modelled access
by access; the second one is also `spinlock_acquire` of `template/lock.c`. The POSIX locks
are what they promise (`MutexGranted`, `WriteGranted`, `ReadGranted`, and `Refused`, as
`pthread_rwlock_rdlock` may fail). `view` is history: what a transaction has found at its
begin and written since. A segment is a place with one word for its content, and a link in
the list of allocations (`Inserted`, `Removed`), which `tm_destroy` empties.

### Sync

Master and workers share `status`, `nbready`, `errmsg` and the latch; every access to one
of them is a step, because any of them may fall between two of another thread. What a
worker does in the workload is one step with three outcomes (fine, error, exception). A
worker whose round threw reports and returns, the others go around again until they see
`Quit`. The first and last round are those of initialisation and checks, so `Rounds` is
`2 + nbrepeats`. The clock is kept as the rounds in which it was started and stopped.

### Bench

`Bench` is the life around `Sync`: a library is loaded, its memory created by `bounded_run` in
a thread of its own, measured, destroyed by another `bounded_run`, and the library unloaded;
then comes the next one. `bounded_run` is two threads, its mutex and its condition variable,
whose wakeup may be spurious and whose time limit may pass before or after the answer. What
may go wrong is an action: a library that cannot be loaded, a creation that fails in the
runner, where nobody catches it, or takes too long, a worker thread that cannot be started,
workers that take too long (`Overrun` of `Sync`, from the second library on). `faults` remembers
it. Threads that outlive what they use may crash the process (`RunnerStrays`, `WorkerStrays`);
the properties say when that can be.

### CounterCheck

`check` is three parts between three calls of `Barrier::sync`. The barrier's counter and
mode are two atomics, every access a step. A transaction is a step, which is what `TM`
and `RefTM` promise and `transactional` adds by repeating it. With `sound` false the memory
promises nothing and any comparison of `check` may fail, so that all its ways out are
taken, each of which owes the barrier a different number of calls.

### Bank and Workload

`bank` is the chain of `AccountSegment`s, each a parity and the balances of its accounts
(`count` is their number). A transaction that commits is a step (`Long`, `AllocTx`,
`Transfer`). The attempts of `short_tx` that are aborted are steps too (`Retry`): they
leave nothing in the memory, but the closure subtracts from `send_id` and `recv_id`,
which it captures by reference, so that the next attempt starts with other indices.
`Walk` is the loop that does so, up to the segment where the abort happens. The
closures of `long_tx` and `alloc_tx` change nothing they capture before they are sure
to commit, and their aborted attempts are left out. A worker draws accounts by the
number of accounts it knows of (`count`), which may be stale, and draws again when one
does not exist (`Redraw`). The initial state is what `init` leaves; the trigger of
`alloc_tx` is any number.

`Accounts` says how: `mem` holds the words of every block, `live` the blocks in use. Every
access goes through an opaque pointer that `Layout` takes apart, as `tm_read` and `tm_write`
do; the pointer to the next segment is a word like the others. `bank` is always what the
words say (`AccountsIn(mem)`), and `RefinesBank` shows that each transaction on the words is
the transaction of `Bank`. Actions that only look at the bank are `Bank`'s own. `init` writes
neither `parity` nor `next`, and `alloc_tx` neither of a new segment's: that they are zero is
the promise of `tm_create` and `tm_alloc` (`Zeroed`), also for a block that was used before;
every other block starts with garbage.

`Workload` begins with the round of initialisation, by `RunWorkers`, and goes on with a round
of `run` or one of `check`, which uses nothing of the bank. `Sync` shows that rounds do not
overlap, so they need not be interleaved.

## 3 Runs and bounds

Each run's properties are in `PROJECT.json`; each passing property comes with a
faulty variant of a modelled operation that makes it fail. The operators whose
comment says "faulty" are these variants; no specification uses them.

| Run | Instance | Shows |
|---|---|---|
| `batcher` | 4 threads, counter modulo 2, any number of spurious wakeups | `Accounting`, `QuiescentCleanup`, `RefinesGate`, `WaiterEnters`, `WrapperInStep` |
| `tm` | 3 threads, 2 segments of 1 word, 2 values, 4 transactions | `TypeOK`, `MarksAreDirty`, `NoLostSegment`, `Implements` |
| `tm_words` | 4 threads, 1 segment of 2 words, 2 values, 4 transactions | `ConflictFree`, `Implements` |
| `epoch_words` | 3 transactions, 1 segment of 2 words | `TypeOK`, `Published`, `NoRace`, `ConflictFree`, `RefusedForConflict`, `SnapshotReads`, `CleanSlate` |
| `dirty_list` | 3 threads, 3 segments | `ListsWellFormed`, `RollbackSeesAll`, `BatchBeginsClean`, `WalkReturns`, `DestroyFreesAll` |
| `ref` | 3 threads, 4 locks, 3 segments, tickets modulo 4 | `Isolated`, `TicketsInUse`, `TicketIsServed`, `DestroyFreesAll` |
| `sync` | 2 libraries, 3 workers, 3 rounds | `RoundsDoNotOverlap`, `VerdictOfTheRound`, `NothingUnexpected`, `NothingPulledAway`, `ExitTells`, `BenchEnds` |
| `workload` | in `check` 3 workers with 2 decrements, in `init` and `run` 2 workers with 3 transactions, 2 accounts per segment, 5 blocks of memory | `BarrierSeparates`, `NoFalseAlarm`, `NothingWrong`, `PointersLead`, `EveryCheckReturns`, `RefinesBank` |
| `tm_free` | 4 threads, 2 segments, 1 value | violated: `FreeIsCommitted` |
| `epoch_aborts` | 2 transactions, 1 segment of 2 words | violated: `AbortedWritesVanish` |
| `dirty_walk` | as `dirty_list` | violated: `RollbackReturns` |
| `sync_runtime` | as `sync` | violated: `RuntimeOfTheRound` |

Why these bounds are enough for the cases to happen:

* Four threads are those of `tests.c`. One opens an epoch alone (that is how the
  gate works), so four are needed for three waiters and for a batch of three.
* `MaxTx` (transactions in a behaviour) is the only bound in a guard of `TM`. With 4,
  one opens, three run side by side; or the segment one freed is allocated again
  two epochs later. It also keeps `trans_counter` below its overflow.
* Two words are the smallest multi-word call that fails half-way. Two segments are
  the smallest memory with something to allocate, free and reuse; in `DirtyList`
  three are needed for the list to grow, in the middle of a longer one, while
  somebody walks along it, and three threads for one to walk, one to insert and
  one to wait for the lock.
* Three transactions on one word are needed for two readers and a writer, and for
  a word that is handed back and granted again while a third one watches.
* Two values distinguish "changed" from "not changed"; in `EpochSteps` the value is
  the author.
* `CounterModulus` 2 makes the counter wrap, `TicketModulus` 4 the tickets; four are more
  than the three threads can hold, as 2^64 are.
* With three workers there is a first, a last and one in between at every barrier;
  with three rounds a round that follows one that may have failed and is followed
  by another; two decrements let workers pass each other between the barriers.
* With two accounts per segment, of 1 unit each, and six transactions the chain grows to
  four segments and shrinks again, a block is allocated again after it was freed, an
  account is empty after one transfer, a removed account may hold 0, 1 or more, and an
  account that was drawn may be gone before it is looked for. A block of this size takes
  512 bytes. `Blocks` has four that are aligned to it, one for each segment of the longest
  chain, and one that is not.
* Two libraries are the reference, which has no time limit, and one with a limit. Two links
  besides the first are the smallest list of `RefTM` from which one in the middle, at the
  end or the last one can go.

`CHECK_DEADLOCK` is off for `TM` and `EpochSteps`: clients may stop, `MaxTx` stops all of
them, and the one epoch of `EpochSteps` ends; for `Bench` and `Workload`, which return;
for `RefTM`, where nobody begins after `tm_destroy`; and for `DirtyList`, which ends the same
way, or with a walk that follows a wild pointer. It is on for `Client`, where somebody can
always begin. The types of all modules with theorems are proved, those of `DirtyList` as part of
`ListsWellFormed`, those of the bank as part of `NothingWrong`. Threads (and segments in
`EpochSteps`) are symmetric in the runs without liveness properties; `Start` makes segments
of `TM` differ.

## 4 Fairness

`Batcher`: weak fairness of every step of a thread except `EnterLock`. A thread that
can run runs, a mutex that stays free is given to somebody who waits for it, and
a transaction that runs ends, because the bodies the bench runs are finite. Nobody
is obliged to begin a transaction. It is weak, not strong: a mutex gives no promise
against others that keep taking it. Nor is a spurious wakeup under any fairness, or
bounded: POSIX allows any number of them and promises none. `WaiterEnters` holds all the
same once they stop: a woken thread is a member of its batch and counted in it, so it competes
only with a finite number of others, and the batch does not end without it. The
condition is needed: as long as threads go on waking early, they can leave in the place of
a woken thread that does not get the mutex, and end one epoch after the other.

`Client`: weak fairness of every step of a thread but `Begin` and `Spurious`: a closure ends, by
returning, by an exception or by a refused call; `transactional()` need not be called. That a
refused call returns from its rollback is true but for finding 3 of section 6. That the
loop ends is not promised: two transactions can refuse each other while a third runs, and
again in the next epoch. What the code gives is `RefusedForConflict` of `EpochSteps`: a call
is refused only for what another transaction of the epoch was granted.

`DirtyList`: weak fairness of each thread's steps inside `move_to_dirty` and
`link_insert`, inside a rollback, and of `tm_destroy` once it is called; none of calling,
ending or being refused.
`WalkReturns` depends on the walk alone: the segments that can be put in its way are
finitely many, as they are in memory, and each goes behind the last link once.

`RefTM`: weak fairness of each thread inside `tm_begin` or `tm_destroy`, and of ending a
transaction, which again stands for finite bodies; a thread need not begin. Only the ticket lock
promises on this basis that everybody is served.

`Bench`, with `Sync`: weak fairness of main, of the runner once its function has returned, and
of each worker. All of them spin on atomics or wait for a latch, a mutex or for threads to
end, and each wait is a guard. `tm_create` and `tm_destroy` need not return, but the time
limit of `bounded_run` passes (`TimePasses`). The limit of `measure()` (`WorkersLate`) is under no
fairness: the workers end by themselves, as `Worker` includes that the workload's part ends.

`Workload` in a round of `check`: weak fairness of each worker. That a transaction of
`check` commits in the end is an assumption about the memory under test, which the
ticket lock of `RefTM` meets and `TM` does not promise. `init` and `run` are under no fairness:
`run` may draw accounts in vain.

`TM` and `EpochSteps` have no fairness: their properties are safety properties. That
some transaction commits eventually is not promised by the code (see `Client`).

## 5 Proofs

TLC checks the instances above; TLAPS proves the following for any number of
threads, segments, words, values, transactions, workers, rounds, libraries, accounts and
blocks of memory. Every invariant and every action property of the passing runs, and every
refinement, is the subject of a theorem; what is left to TLC alone is liveness. The
assumptions are those the modules state, and TLC evaluates each of them in a run:
`BatcherAssumption` (finitely many threads, one name for "nobody"), `TMAssumption`
(the start segment is one, a segment has a word, 0 is a value, bounds are naturals),
`EpochStepsAssumption` (a segment has a word, "nobody" is no thread), `RefAssumption` (finitely
many threads, at least as many tickets as threads), `CheckAssumption` (finitely many workers,
uid 0 among them), `SyncAssumption` (finitely many workers, at least one, and one round),
`BenchAssumption` (one library), `DirtyListAssumption` (a thread, and three names that are
no thread and no segments for "nobody", the null pointer and a wild one), `BankAssumption`
(finitely many blocks, an aligned one for the first segment, an account in a segment) and
`PointersReach` (a segment fits in the memory that pointers have bits for, and no block ends
behind it, as no address of a process does). `PowersOfTwo` says nothing of the code: that
`2 ^ e` is a natural number and doubles with each `e` is all the prover has to be told of
powers. TLC has found no state of the components' instances outside the inductive invariants
below (the quantifiers over `Nat` and over chains in `WorkloadProofs` replaced by the numbers
up to 4 and by the chain the pointers lead along).

**`BatcherProofs`**, about `Batcher`: `TypeCorrect`, `CountersAgree` (`Accounting`), `CleanupBesideEarly`
(`QuiescentCleanup`), `Refinement` (`RefinesGate`). The inductive invariant is the
conjunction of the first three properties with *MutexOwner*: `critsec` names exactly the thread whose
location is in a critical section; and *IdleIsEmpty*: when `remaining` is 0, nobody is in a batch
or asleep, so whoever opens an epoch is alone with it, and `remaining` cannot become negative.
`Accounting` is not inductive without them: two threads in the critical section could both be
the last. The steps count with
cardinalities of finite sets of threads: a step moves one thread from one set to
another, the broadcast turns the set of waiters into the batch. Refinement: with the
invariant every step of the batcher is a step of the gate or changes neither the
batch nor the queue nor the counters. `IdealGate`: `early` is 0 again at every end of an
epoch, so "nobody wakes early" is `[](early = 0)`; under it the steps of `SpuriousGate` are those of
`EpochGate`, and the cleanup is alone.

About `Client`: `ClientUsesBatcher` (`ClientSpec => Spec`): whatever the closures do, the
wrapper calls the batcher in the way `Batcher` says it is called, so the theorems above
hold under it (`CountersAgreeWithClients`). `WrapperKnows` (`WrapperInStep`)
follows from `InStep`, which says where the batcher has a thread, as far as the wrapper's
place and its flag tell.

**`TMProofs`**: `TypeCorrect`, `NoConflicts` (`ConflictFree`), `MarksAreFound`
(`MarksAreDirty`). The inductive invariant `IInv` adds
to the types

* `IdInv`: transaction numbers in use are distinct, below `trans_counter`, those that
  have committed are not used by a thread, and what has not begun has an empty log;
* `MarksInv`: the log agrees with the control words. A word written by a transaction
  that counts is marked written with its number; a word it has read is either not
  marked written or marked by itself, and its number is the mark or the word is
  marked as read by many; a mark "written" names a transaction that counts; a word
  whose copies differ is marked written and holds what the log says; marks are in
  dirty segments.

The conflict-freedom of the logs cannot be inductive by itself, because `tm_read` and
`tm_write` decide by the marks. Operators on regions have lemmas of their own
(`MarkReadsFacts`, `RollbackFacts`, `EpochCleanupFacts`, ...), and each action has a
lemma per part of the invariant.

The second half of `TMProofs`: `ImplementsSnapshot` (`Spec => Implements`) and `NothingIsLost`
(`Spec => NoLostSegment`). What `IInv` says of the words, `SegInv` (`SegmentsInductive`)
says of the segments:

* `SegmentsTell`: the flags of a segment agree with the log. `newly_alloc` and
  `should_free` of a segment that is not marked for rollback are the work of its `owner`,
  a transaction of the epoch that counts; what one that counts has allocated is new, its own
  and dirty; a new segment marked for rollback belongs to nobody who counts; a segment
  outside the dirty list has no flags; and what is not yet published reads as 0.
* `ReadOnlyLogs`: a read-only transaction has written, allocated and freed nothing.

The converse for frees, that a committed free leaves `should_free` without `rollback`, is
missing because it is false (section 6). `Departs` is what all ways to leave have in common,
committing, read-only, or refused with a rollback: the region left behind tells the histories
of those who stay. From it come the two cases of the gate, that the batch goes on or that
the epoch ends; in the second `EpochCleanup` publishes what the logs say, and takes from the
list what was allocated by a transaction that was rolled back and what was freed by one
that committed. Then the theorem follows action by action (`Begin`, read, write, `Alloc`, `Free`
are steps of the same kind above; a read-only read changes nothing there). `NothingIsLost` uses
both halves: a segment that goes was freed by its `owner`, who counts and has committed when the
epoch ends, by the last step if not before; or it is new and its allocator was rolled back.

**`EpochStepsProofs`**: `TypeCorrect`, `NobodySeesAnother` (`SnapshotReads`), `NoConflictIsGranted`
(`ConflictFree`), `CopiesDoNotRace` (`NoRace`), `CommittedIsPublished` (`Published`), `NothingIsLeft`
(`CleanSlate`), `RefusalsHaveCause` (`RefusedForConflict`), that is all that the run checks. While the epoch goes on (`Ongoing`) the invariant
ties the place of each thread inside its call to the marks it holds (`Held`, `Granted`),
the marks to the copies (`Content`, `Stored`), and both to the dirty list (`Tracked`, `Lists`).
`NoRace` rests on `Held` and `Granted`: who copies a word without its spinlock has a mark that
refuses the other. `CleanSlate` rests on `Followed`. A call that fails leaves marks on the words
before the one it failed at and does not make its segment dirty; but words are tested upwards,
so the thread with the topmost mark of a clean segment has not failed in it, and is still to
make it dirty. `RefusedForConflict` rests on `Authored`: whose number a word carries was granted
it, and a word marked as read by many was granted to two, so that a refused transaction finds
somebody besides itself. Once the epoch is over nothing moves, and its promises hold.

**`DirtyListProofs`**: `ListsAreRings` (`ListsWellFormed`), `WalksSeeAll` (`RollbackSeesAll`) and
`BatchesBeginClean` (`BatchBeginsClean`), for any set of addresses and any threads. That some
links form one ring, and not several, would ask for an induction along `next`; `Ring` says it
without: `next` and `prev` are inverse on the links, and no non-empty part of them but the whole
is closed under `next`. With that, taking a link out (`RingRemove`) and putting one in behind the
last one (`RingInsert`) are set arguments. The invariant says that there are two disjoint
sets of links, `C` and `D`, such that

* `Links`: `list` holds the two rings, or it is what `Opened` makes of such a pair while a thread
  is about to close it; hence the clean list is a ring at any time;
* `Movers`: where a thread is tells where its link is: still in `C` when it is claimed, in neither
  when it has been taken out or is new. What the link's `next` may say then is
  part of it, because a walk that begins at the wrong moment follows it;
* `Flags`: what is dirty is in `D` or on its way;
* `Ahead`: what a walk owes lies between it and the base: it is in every set of links that has
  the one it comes to and goes on up to the base. A link that is inserted
  joins behind the last one, so it lies ahead of every walk (`AheadGrows`);
* `Cleaning`: `epoch_cleanup` and `tm_destroy` take the link behind the base, until it is the base.

A walk that begins before the first link of the dirty list points to itself follows the `next`
the link had before, and owes nothing (section 6, 3); unless that `next` is the link itself, as it
was when the link was alone in the clean list.

**`RefTMProofs`**: `Isolation` (`Isolated`) for all four locks, and `TicketsAreDistinct`
(`TicketsInUse`). The invariant says what each lock knows of who runs (`LockInv`), that two
transactions run together only as read-only ones under the reader-writer lock (`Exclusion`), and
of the tickets (`TicketInv`) that those in use are distinct and lie, counted from `pass` around
the modulus, in front of `take`, as many as there are threads with one. Distances survive the
wrap-around, comparisons would not. That tickets suffice for all threads at once is the
assumption the proof needs, and exactly as many as threads are enough.

**`BenchProofs`**, about `Sync`: `RoundsSeparated` (`RoundsDoNotOverlap`) and `MasterIsTold`
(`VerdictOfTheRound`). `status` is written by master and workers; the invariant `SyncInv` is a
picture of the round for each of its values: `Gathering` (Wait), `UnderWay` (Run, Abort), `Closed`
(Done, Fail), `Quitting` (Quit). It adds that the latest worker to arrive or to finish is the
only one left in its part of the code (`Latest`), what `nbready` counts in each phase, with the
two moments at which it has been reset and `status` has not yet moved on (`Counting`), and that
the master's verdict is that of the outcomes (`Verdict`).

About `Bench`: `BenchRoundsSeparated`, `BenchMasterIsTold`, `UnreachableIsNot` (`NothingUnexpected`),
`WhatIsUsedIsThere` (`NothingPulledAway`), `ExitCodeIsRight` (`ExitTells`). Measuring one library
after another starts `Sync` anew, so `BenchInv` is `SyncInv`, or a round that stands still
because a thread could not be started (`Stranded`); `InPlace` says that library, memory, runner
and workers are in the state main's place needs, unless a creation was too slow; `Blame`
says which faults main's place allows, and that the verdict tells of the workers' ones.

**`WorkloadProofs`**, about `CounterCheck`: `Separation` (`BarrierSeparates`), `TypeCorrect`,
`SoundMemoryPasses` (`NoFalseAlarm`). The inductive invariant of the barrier says
that `step` counts the workers that have entered and not begun to leave, and that
there is a number `r` of completed uses of the barrier such that either the mode is
"enter" and every worker is before, in, or just behind use `r + 1`, or it is "leave" and
every worker is in it. Between the access to `step` and the one to `mode` a worker is the
only one about to change the mode, because all others have entered, or left; without
this conjunct the mode could be set twice. On top of it `CheckInv` follows the shared
counter: from the time worker 0 has set it, its value is the number of decrements still owed
by all workers, as the cardinality of a set of pairs, which needs no sum over workers. The
barrier is what makes it so: no worker decrements before all have seen the
value that was set, and worker 0 looks for 0 only when all have taken their share.

A round of `check` in `Workload` is a behaviour of `CounterCheck` (`WorkloadChecks`), whatever came
before it, so both properties hold there too (`WorkloadSeparates`).

**`BankProofs`**, about `Bank`: `BankKeepsMoney` (its `NothingWrong` and types), from the inductive
invariant `BankInv` (`BankInductive`). That the bank is `Good` says

* `Formed`: every segment has an account and at most `nbaccounts`, and every one but the last
  is full, so that the last account is in the last segment, where `alloc_tx` looks for it;
* `Solvent`: no account is overdrawn;
* the parities and balances add up (`Value`) to `init_balance` for every account (`Number`).

A transfer has a moment at which the sum is wrong, between its two writes. `Short(b, extra)` is a
bank that is short of `extra`, so that `short_tx` goes from `Short(bank, 0)` over `Short(_, 1)` back
to it; if sender and receiver are one account, as they may be, the same two steps say so.
`Deallocated` is correct because what the removed account held above or below `init_balance`
goes to a parity, and because the first segment never becomes empty: more than two accounts
with the last segment down to one mean a segment before it. Where a worker's indices come from
does not matter: an attempt that was aborted half-way has changed them (`Retry`), and so the
lemma about the walk (`WalkFinds`) is about any index: what it finds is an account, and
otherwise `short_tx` draws again.

The sums are folds of the community modules over functions, whose definitions recurse over
finite sets. That such a fold exists and is a number, that adding, replacing and removing an
element changes it by as much, and that a constant adds up to a multiple, is proved by
induction on finite sets. The library's theorem of induction takes a predicate as a parameter,
which the provers cannot instantiate; `SetInduction` states it with a set of sets in the place of
the predicate and follows from the well-foundedness of `<` on the natural numbers.

About `Layout`, `Accounts` and `Workload`: `PointersLeadBack` (`PointersLead`), `RunFindsNothingWrong`
(`NothingWrong`), `WordsAreTheBank` (`RefinesBank`). `PointerLeadsBack` is the arithmetic: `next_pow2` is
a power of two that has room for the block and lies within the bits of a pointer
(it exists by `PointersReach` and `PowersOfTwo`), the block is aligned to it, the offset of a word is
below it, so that taking the remainders gives back block and offset. The inductive invariant
`WorkInv` (`WorkloadInductive`) says that the bank fulfils `BankInv` and

* in the first round, `InitInv`: the first segment is the only one in use, its `next` and `parity`
  are the zeroes that `tm_create` left, and once a worker has finished its first transaction of
  `init` all its accounts are there (`Begun`). Workers write the same values over each other;
* in later rounds there is a chain `c` of different blocks, which begins at `Start` and
  whose words the bank `Reads`: `next` of each is the pointer to the following one and of the last
  is null (`Chained`), each `count` is one of a segment (`Held`), the blocks in use are those of
  the chain and do not overlap, and `bank` is what they spell (`BankOf`).

That the blocks of the chain are different is what keeps a write to one segment from being seen
in another; that they do not overlap is carried along for the property, because words here belong
to blocks. A lemma per transaction (adding an account, a segment, removing
an account, or the segment with it, a transfer) follows its reads and writes word by word and
shows that the bank spelled afterwards is what `Bank` says. A segment that is added needs `Fresh`:
`parity` and `next` are written by nobody, so they are right only because the allocator clears
them. The walk along the chain ends because the chain has no more segments than there are
blocks (`ChainFits`), which is the bound `Chain` recurses up to.

Only model-checked: liveness (`WaiterEnters`, `WalkReturns`, `DestroyFreesAll`,
`TicketIsServed`, `BenchEnds`, `EveryCheckReturns`), which is out of the prover's reach together with
`ENABLED`.

## 6 What the checks found

1. **A write of an aborted transaction is committed** (`epoch_aborts`). A segment joins
   the dirty list after the call that touched it has succeeded, and
   `rollback_transaction` looks at the dirty list only. A `tm_write` of two words that
   is granted the first and refused the second leaves the first one stored and
   marked; if another transaction then reads in that segment, the end of the epoch
   publishes the word. `TM` cannot show it, because there a failing call and its rollback
   are one step, and whoever makes the call fail has completed a call in the same segment.
   It needs the steps inside.
2. **A committed free is lost** (`tm_free`). `tm_free` takes over the `owner` of the
   segment without looking for a conflict. If a second transaction frees the same
   segment and aborts, its rollback marks the segment, and the cleanup does not
   release it although a committed transaction freed it. The memory stays listed and
   readable.

3. **A rollback can walk for ever** (`dirty_walk`). `_link_insert` makes a link the base of
   an empty list before it makes the link point to itself, and `rollback_transaction`
   takes no lock. A rollback that begins in between remembers the base, follows the
   `next` the link had in the clean list, and goes around that list, which does not
   contain the base. If the link is new, its `next` is not even initialised; the
   property leaves that case out, as it is not a question of termination.
   `WalkReturns` is the other half: once inside the dirty list, a walk does end.
4. **Times add up** (`sync_runtime`). `Chrono::stop` adds to a total, and nobody resets
   it between rounds: the time `measure()` takes for a run contains all rounds before
   it, and the median is one of sums.

What could have gone wrong and does not: a failing call does not mark its segment
dirty, yet no mark survives the epoch (`CleanSlate`), because whoever refused the word
will mark the segment; several transactions race for one CAS on `dirty` and the losers
return before the segment is in the list, yet what they commit is published
(`Published`); words are copied outside of their spinlocks, yet never at the same time
(`NoRace`); a rollback that walks a list that grows misses no link that was there
(`RollbackSeesAll`); the bench's status and counter are separate atomics without a
common lock, yet no failure of a worker is lost and no worker gets a round ahead
(`VerdictOfTheRound`, `RoundsDoNotOverlap`); the spin barrier can be used again at once
(`BarrierSeparates`); a retried `short_tx` looks for other accounts than the ones its
parameters name (`workload.hpp:228`), and the bench's sums come out right all the same
(`NothingWrong`); the destructor of `Transaction` has only a flag to know whether the
transaction has already left the batcher, and the two always agree (`WrapperInStep`);
`tm_destroy` of either memory starts from pointers that many transactions have moved
about, and frees every segment once (`DestroyFreesAll`); whatever goes wrong in a round,
the exit code says so (`ExitTells`).

Five more observations, for which no run is listed because nothing in the repository
claims the opposite of the program's behaviour in so many words:

* `pthread_cond_wait` is called once, without a predicate (`batcher.c:36`). After a spurious wakeup a
  thread runs its transaction in an epoch that does not count it, `epoch_cleanup` may run
  beside a transaction, and a transaction may go on into the next epoch with marks and writes of
  the last. By the end of that epoch the counters are right again (`Accounting`).
* When `bounded_run` gives up on creating a memory, its exception unwinds `main`'s loop and
  the library is unloaded under the detached runner. When it gives up on destroying one,
  the exception meets `~TransactionalMemory`, which is implicitly `noexcept`, and ends the
  process.
* `wait_for` is called once, without a predicate (`common.hpp:281`). After a spurious wakeup the
  caller joins the runner with the mutex held that the runner needs to notify: both wait for
  ever. `BenchEnds` names this case as its exception.
* An exception that `func` throws in the runner thread is caught by nobody and ends the process.
* `tm_destroy` of the reference frees the region and then cleans up the lock inside
  (`reference/tm.c:396`).

## 7 What is not modelled

* `tm_size` (`tm.c:88`): nothing says what it should return after the first epoch.
* The width of `trans_counter` (an `int` that is counted up for every transaction), and
  `1 << exp` for segments of 2 GiB and more.
* What an `epoch_cleanup` that a spurious wakeup has put beside a transaction does to its
  memory: `TM`, `EpochSteps` and `DirtyList` suppose epochs without one, `Batcher` says when there is one.
* `tm_alloc` and `tm_free` at the granularity of `EpochSteps`.
* `link_append` and the rwlock wrappers of `lock.c`, which nothing calls.
* Exceptions inside `check`; a round of `run` that starts with the bank an earlier one has
  left. `Workload` has one round after the first.
* Weak memory: the control fields and flags are sequentially consistent atomics;
  data is handed over through a spinlock or through the mutex of the batcher.
* Failure of `malloc` and `posix_memalign` (a `tm_alloc` that fails changes nothing),
  `tm_create` using `region` before its test for NULL.
* Command line and output of `main`, and the clock's resolution.
* `tests.c`, `minunit.h`, build files, `submit.py`: no state of the system.

## 8 Plan

In this order, the most important first:

1. The memory under `SpuriousGate`: what is left of `SnapshotTM` when a transaction runs on into
   the next epoch.
2. Transaction numbers at their width, and `tm_size`.
