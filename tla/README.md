# A TLA+ verification of cereggii

cereggii is a C extension (with a thin Python layer) that gives free-threaded
Python a lock-free hash table, `AtomicDict`, and a family of small concurrent
objects.  This directory holds TLA+ modules translated from its sources, TLC
configurations that check them on small instances, and TLAPS proofs about the
core of the hash table.  Paths below are relative to `src/src/cereggii`.

## 1. Inventory

### AtomicDict

* **State.**  `metadata` is an `AtomicRef` to the current *generation*
  (`AtomicDictMeta`): an open-addressing `index` of 64-bit *nodes*
  (entry location, tag, distance), an array of `pages` of 128 *entries* (flags,
  key, hash, value), and what a resize needs (`resize_leader`,
  `node_to_migrate`, `participants`, three events).  Each thread has an
  *accessor* with a mutex, a reservation buffer and its share of the counters.
* **Table operations** (`insert.c`, `delete.c`, `lookup.c`, `node_ops.c`).
  Readers take no lock.  Writers hold their own accessor's mutex only, so they
  race with each other on nodes and values by compare-and-exchange.  An insert
  reserves an entry, fills it in, and publishes its location in the first empty
  slot of the key's probe sequence.  An update exchanges the entry's value.  A
  deletion exchanges the value for NULL and then the node for a tombstone.
* **Entry reservation** (`pages.c`, `accessor_storage.c`).  A thread reserves
  blocks of `buffer_size` entries by setting the flags of the first, keeps them
  in its buffer, and allocates the next page when the last one is full.
* **Resize** (`resize.c`, `accessor_storage.c`).  A thread that must grow becomes
  leader by compare-and-exchange or follows.  The leader locks `sync_op`,
  `accessors_lock` and every accessor's mutex, publishes the new generation, and
  all migrate blocks of the index until none is left.
* **Migration** (`resize.c`).  A block of the old index is responsible for the
  clusters that start in it.  The new index is uninitialised memory: each block
  clears its own part before it writes there.
* **`reduce`** (`insert.c`, `reduce_table.h`).  Folds an iterable into a local
  table and merges it into the dictionary, retrying lost races.
* **Bulk reads.**  `len()` keeps all writers out and moves the accessors' counters
  into `self->len`; `approx_len()` adds the counters up with no lock
  (`atomic_dict.c`).  `fast_iter()` walks the pages, not the index, with no lock
  (`iter.c`).  `batch_getitem()` looks the keys of a `dict` up one by one
  (`lookup.c`).
* **Construction** (`atomic_dict.c`).  `__init__` turns `metadata` from None to True,
  builds, and publishes the generation; other callers spin meanwhile.

### The other objects

* **AtomicRef** (`atomic_ref.c`): a cell that owns one reference.  Its
  difficulty is reference counting without a lock.
* **AtomicInt64** (`atomic_int.c`): 64-bit integer, load / compute /
  compare-and-exchange loops and C arithmetic in place of Python's.
* **AtomicCache** (`atomic_dict/atomic_cache.py`): a reservation entry makes
  one thread fill a key while the others wait for its event.
* **AtomicEvent** (`atomic_event.c`): a flag, a mutex and a condition variable.
* **CountDownLatch** (`count_down_latch.py`): an `AtomicInt64` and an
  `AtomicEvent`, changed one after the other.
* **call_once** (`misc.py`): an `AtomicRef` elects a leader, an `AtomicEvent` tells
  that it has finished.
* **ReadersWriterLock** (`locks.py`): three counters under an `RLock` and its
  `Condition`; the writers' side can be entered again.
* **AtomicBool, ThreadSet, ThreadHandle**: see section 8.

### What is hard, and the property that answers it

| part | hard behaviour | correct when |
|---|---|---|
| table | racing inserts of a key, deletions against updates, readers with stale locations | it is an atomic map; one live entry per key; published entries are stable; an empty slot remains |
| reservation | two threads on one block or page, entries put back after a failure | an entry is handed out once and blank; pages exist before they are used |
| resize | writers with old metadata, late followers, a failing leader | nobody writes during a migration, no block is lost, all calls return |
| migration | clusters that cross blocks, uninitialised memory, distance overflow | the new index has every node, findable, once |
| AtomicRef | object replaced between load and incref, or between two loads | counts balance |
| AtomicInt64 | lost updates, overflow, rounding | it is an `int`, or it raises |
| AtomicCache | invalidation and expiry against a fill | one fill at a time, fresh values, no lost wake-up |
| reduce | retries, failures half-way | every item counts exactly once |
| bulk reads | counters, pages and keys that change under the reader | `len()` is current, `approx_len()` is off by what changed meanwhile, iteration misses no key that stays, a batch holds values of its time |
| construction | racing or failing `__init__` | nobody sees a half-built dictionary |
| events | spurious wake-ups, a set between test and sleep | a wait returns after the set, and does |
| latch, call_once | count or result and event change separately | nobody passes early, nobody is forgotten, one outcome for all |
| readers-writer lock | nested acquisitions, shared condition | a writer is alone, nobody sleeps without cause |

The `hazards` of `PROJECT.json` give the line of each.

## 2. Modules

| module | models | composes / relates |
|---|---|---|
| `AtomicMap` | what AtomicDict promises: atomic calls on a map | abstract specification |
| `AtomicDictTable` | one generation of the table | implements `AtomicMap` (`Linearizable`) |
| `Reservation` | reservation buffers and pages | justifies `free` in `AtomicDictTable` |
| `Resize` | accessors, locks, leader and followers over several generations | justifies that the table does not move under a writer |
| `Migration` | what the migration of each block does to the new index | refines the atomic `Migrate` of `Resize` |
| `AtomicRef` | the cell and the reference counts | |
| `AtomicInt64` | the integer, against Python's `int` | |
| `AtomicCache` | one key of the cache | over an atomic dictionary |
| `Reduce` | the fold and the flush | over an atomic dictionary |
| `ReduceFunctions` | the specialised aggregates, against the built-ins | |
| `BulkReads` | `len`, `approx_len`, `fast_iter`, `batch_getitem` | extends `AtomicDictTable`: its writers, and readers next to them |
| `AtomicDictProofs` | theorems about `AtomicDictTable` and `BulkReads` | extends `BulkReads` |
| `Event` | what an event promises | abstract specification |
| `AtomicEvent` | flag, mutex, condition variable | implements `Event` (`ImplementsEvent`) |
| `CountDownLatch`, `CallOnce` | the latch, the function | each over an instance of `AtomicEvent` |
| `DictInit` | the once-only guard of `AtomicDict.__init__` | |
| `Synchronizers` | a program's threads on all three | composes `CountDownLatch`, `CallOnce` and `DictInit` |
| `ReadersWriterLock` | the readers-writer lock | |
| `ReservationProofs`, `ResizeProofs`, `MigrationProofs`, `AtomicRefProofs`, `AtomicCacheProofs`, `SynchronizersProofs`, `ReadersWriterLockProofs` | theorems | each extends the module it is about |
| `MC*` | constants for TLC | extend the module of the same name |

In every module a thread's `pc` names the shared access it makes next; one
action is one such access together with the thread-local code up to the next.
Atomics are sequentially consistent in the models: the code's acquire/release
pairs are all on the location the decision is taken on, except where noted.

**AtomicDictTable.**  A slot is `EMPTY`, `TOMBSTONE` or an entry's location; the
tag of a node is the tag of its entry's key (`Tag`), the distance is left out
because only the migration reads it.  `Distance0`, `Tag` and `Hash` are arbitrary
functions, so every pattern of collisions is an instance.  The size of the index
need not be a power of two.  An index of `Size` slots has at most `Size - 1`
entries (entry 0 is never handed out), which is the ratio the code has at
every size, pages holding as many entries as the smallest index has slots.
`GetEmptyEntry` hands out an entry and fills it in; it is private until
`CasNode` publishes it, so that its three stores are one step.  `ReadEntry` and `LookupEntry`
stand for `read_entry` and the comparison of keys, which may raise
(`EqCanRaise`).  `TryIncref` fails when the value that was read is no longer in
the entry and has been deallocated.  `NoEmptyEntry` is the failure of
`get_empty_entry`: the table must grow, or memory is exhausted.  `seen` is a history variable: the bindings a
call's key had since the call began.

**Reservation.**  Locations, blocks and pages with `EntriesInPage` entries.
`pages` may hold garbage beyond the last initialised element, as the array of
`meta_init_pages` does.  `Init` covers every length of `initial`.

**Resize.**  `metadata` is the number of the current generation.  `Migrate` is
the migration of one block, `Recount` the store of the thread's own count after
it.  `FailEvents` is the leader's failure path.  `StartLen` makes a `len()`, the
other caller of `begin_synchronous_operation`.

**Migration.**  `Init` is every index that insertions and deletions can build:
nodes at the first free slot of their probe sequence, with some of them
tombstones.  `MaxDistance` plays `UINT8_MAX`; hash bits are those that decide the
position in the old and in the new index.

**AtomicRef.**  `rc` is the count, `held` what each thread owns.  `Drop` is the
program giving up a reference, and is external.  `mismatched` is a history
variable: a `set` has replaced an object other than its `current_reference`;
`RefcountsBalance` speaks of what happens before.

**AtomicCache.**  The dictionary's cell for one key.  Time is the action
`Expire`; `Abort` is a fill that ends in a `BaseException`.

**AtomicInt64.**  `Width` bits.  `Outcome` is what C computes, a set where the
behaviour is undefined; `PythonInt` is what `int` computes, and `Differs` names the
divisions and shifts in which the two are known to disagree.

**Reduce.**  Every call uses one of the specialised aggregates of
`ReduceFunctions`, which any aggregate given to `reduce` resembles in being
commutative and associative.  `merged` is a history variable, the items each key
was given.  Values are integers, booleans, lists and, for `reduce_and` and `reduce_or`,
an object whose `__bool__` raises.  `PyObject_IsTrue` returns -1 for it, which C takes
for true, and the call goes on with an exception set (`raised`): a fold fails when the
iterable is exhausted and before anything is flushed, a flush ends in an error after
everything is merged.  Left out is a `StopIteration` from `__bool__`, which
`PyIter_NextItem` would clear.  Every other exception ends the call where it is raised.

**BulkReads.**  A reader's `task` is a record of the locals of the call it is in.
`len()` holds every accessor's mutex from `BeginLen` to `EndLen`, and the writers
hold theirs during a call, so that the two exclude each other; the order in which
`len()` takes the mutexes is the subject of `Resize`.  `StoreLen` and the
`ZeroLocalLen`s that follow are separate because `approx_len()` sees them come one by one.
`Watched` gives a reader under way what it needs to be judged: how much was
counted, which entries stayed, which bindings its keys had.  A dictionary starts
empty or with one key, which is in `self->len` and in nobody's counter.
`batch_getitem`'s prefetches and chunks leave no trace: its keys are looked up in
any order.  Everything happens in one generation.

**AtomicEvent.**  `at` is where a thread is in the event's code.  `cnd_wait` releases
the mutex and falls asleep in one step (`Test`), wakes up after a broadcast or for
no reason (`WakeUp`), and competes for the mutex before it tests again.  The
refinement maps `state` and the set of threads inside `wait()`.

**CountDownLatch, CallOnce.**  `CallSet` and `CallWait` start a call of the event,
which ends when the thread is `"out"` again.  `CallOnce` keeps result and exception
in `outcome`.  `aborted` is a function that ended in a `BaseException`.

**DictInit.**  `metadata` as the guard sees it.  What is built is in `Reservation`.

**ReadersWriterLock.**  The `RLock` makes each method's passage from one wait to
the next a single action.  Threads keep to the documented contract: they release
what they acquired, and do not ask for one side while they hold the other.

A type invariant that is not listed by a run is the first conjunct of one of the
module's invariants.

## 3. Runs

Each run finishes within three minutes on two cores.  The bounds are on the
number of calls, of generations, of pages or of deletions; each is a constant, and
`resize` has a state constraint besides.

| run | instance | shows |
|---|---|---|
| `table` | 3 threads, 2 colliding keys, 3 slots, 4 calls | the invariants of the table, `PublishedEntriesAreStable` and the refinement of `AtomicMap` |
| `bulk` | 2 writers, 2 calls; 2 readers, 2 reads; 2 colliding keys, 3 entries on 2 pages, 1 or 2 partitions | what each bulk read promises |
| `reservation` | 2 threads that fill up to 4 pages of 2 blocks | exclusivity, blankness, page allocation, termination |
| `resize` | 3 threads, 2 blocks, resizes that may fail: two in a row with 2 calls, one with 3 | mutual exclusion, no lost block, no leaked lock, no deadlock, the assertions of `common_resize` |
| `migration` | 4 slots to 8 in blocks of 2, distances cut at 1 | completeness, findability, counts, termination |
| `ref` | 3 threads, 2 objects, 4 calls | counts balance |
| `cache` | 3 threads, 3 calls, expiry and aborted fills | fills, publication, freshness, return |
| `int` | 2 threads, 3 calls of every kind on 4 bits | exactness of racing updates, return |
| `reduce` | 2 threads over 2 shared keys and a third with nothing to reduce or an item without a truth value, 2 deletions, 7 aggregates | equality with `sum`, `all`, `any`, `max`, `min`, concatenation and counting; totality; return |
| `sync` | 3 threads, one call each, latches of 0 to 2, 1 spurious wake-up per event | the refinement of `Event`, the latch, the single call, the single construction, return |
| `rwlock` | 4 threads, 2 nested acquisitions, any number of calls | exclusion, no needless sleep, return unless overtaken for ever |

Why the bounds are enough to be interesting.  In the table, two keys whose
probe sequences overlap in three slots meet wrap-around, tombstones in the middle
of a probe, an exhausted table and a lost compare-and-exchange at every point.
Four calls let a key be inserted, deleted and inserted again under a slow
reader.  In `resize` a leader, a follower and a third party (a late follower, a
writer or a `len()`) compete for two blocks.  A call that has grown the table may grow it
again, so that two calls are enough for a second resize to start while a follower is
still leaving the first; the constraint `LastCallSeesOneResize` stops exploring where
all three calls have begun and a second resize has a leader.  In
`migration` every cluster shape of a four-slot index occurs, with one that wraps
around, and distances that do not fit in a node.  In `cache` one call fills,
one invalidates and one races with both.  Every kind of overflow of a 4-bit
integer is one call away from its smallest value.  In `bulk` the two entries a
writer can use lie on different pages, the second of which is allocated
during the run, so that an iterator meets a page that was not there when it
started; two reads are what a `len()` under an `approx_len()`, or after another
`len()`, takes.  In `sync` three threads can be two waiters and the one they
wait for, or three that compete for one count; a second call of the same thread
adds nothing the others' calls do not do, but for the state space.  In `rwlock` two
writers and two readers can all sleep or hold at once.

### Disagreements

A run that expects a violation states a sentence of the code or of its
documentation, and TLC's trace shows how the code departs from it.

* `resize_failed`: after a failed resize, `resize_leader` stays set and writers
  loop for ever, against the comment of `resize.c:161` (`don't block other threads
  indefinitely`).

Four more such configurations are kept to be run by hand; each of them ends in a
counterexample too:

* `MCReservationAligned.cfg` (`Reservation`, `EmptyEntryIsBlank`): an
  `AtomicDict({...})` whose length plus one is a multiple of `buffer_size` buffers a
  block that another thread can reserve, too (`atomic_dict.c:275`).
* `MCAtomicRefSet.cfg` (`MCAtomicRef`, `QuiescentRefcounts`): `AtomicRef.set`,
  overtaken twice, drops a reference of the wrong object (`atomic_ref.c:104`).
* `MCCacheTombstone.cfg` (`AtomicCache`, `ReturnsCachedValue`):
  `AtomicCache.__getitem__`, having lost the race to fill, returns the internal
  tombstone (`atomic_cache.py:108`).
* `MCReduceTruth.cfg` (`MCReduce`, `StoresTruthValues`): `reduce_and` and `reduce_or`
  store the first value of a key itself (`atomic_dict/insert.c:635`), where the stub has
  its truth value (`_cereggii.pyi:572`, `atomic_dict[key] = not not value`).  For this
  reason `MatchesBuiltin` compares truth values.  A value whose `__bool__` raises is
  stored, too, or counts as true (`insert.c:637`, `insert.c:680`), where the function
  given in the stub would raise.

The passing runs keep these apart by their constants (an unaligned `initial` in
`reservation`) or by naming the state in the property (`mismatched` in `ref`,
`Abandoned` in `cache`, `Differs` in `int`, `aborted` and `failed` in `sync`, `moved` in
`bulk`), never by a guard the code does not
have.

Also noticed while modelling, and not the subject of a run:

* `AtomicDict(buffer_size=1)` puts a buffer of size 0, which
  `reservation_buffer_put` asserts against (`atomic_dict.c:292`).
* The debug assertion on the number of migrated nodes (`resize.c:142`) races with
  a follower that has left the migration and not yet stored its count.
* `AtomicInt64`: `//=` and `%=` round towards zero (`atomic_int.c:827`), `<<=`
  drops bits silently (`atomic_int.c:908`), and the quotient of the smallest
  integer by -1 is computed before its overflow is reported (`atomic_int.c:127`).
* `test_reduce_specialized_or` (`tests/test_atomic_dict.py:773`) calls `reduce_and`.
* `approx_len()` can be off while nobody writes, if a `len()` is moving the counters,
  and can be negative while others write (`atomic_dict.c:446`).
* `fast_iter()` can return a pair that was never in the dictionary: one that a
  `compare_and_set` has filled in and is about to put back (`iter.c:90`).
* `batch_getitem()` leaves its critical section by `goto fail` (`lookup.c:255`), and
  hands out a value without `_Py_TryIncref` (`lookup.c:259`).
* An `__init__` that fails leaves `metadata` at True: a later `__init__` of the same
  object spins for ever (`atomic_dict.c:81`).
* A `call_once` function that ends in a `BaseException` leaves every other caller
  waiting (`misc.py:61`).
* Readers that keep coming starve a writer of `ReadersWriterLock`
  (`locks.py:107`): without its first disjunct, `AcquireReturns` is violated.

## 4. Fairness

* `Resize!FairSpec` (run `resize_failed`): strong fairness of each thread's steps.  A thread that
  waits for a mutex is enabled again and again; CPython's `PyMutex` hands the lock
  over to a waiter after a while, so that it is not overtaken for ever.
* `Reservation!Spec`, `AtomicCache!FairSpec`, `AtomicInt64!FairSpec`,
  `Reduce!FairSpec`, `Migration!Spec`: weak fairness, that is, the operating system
  schedules every thread, and the program's callables (`fill`, `aggregate`)
  terminate.  No lock is waited for in these.
* `Synchronizers!FairSpec`: weak fairness of each thread's steps, mutexes included.
  Weak is enough since calls and spurious wake-ups are bounded: a mutex that is
  released in finitely many steps stays free in the end.
* `ReadersWriterLock!FairSpec`: weak fairness of acquiring and of releasing: awake
  threads get the `RLock`, and holders leave.  Calls are not bounded here, which is
  why `AcquireReturns` excepts a thread that is overtaken for ever.
* A call is never assumed to be made: fairness is on the steps of calls in
  progress.  Since calls are bounded, lock-free loops end; that a loop may be
  overtaken for ever by an endless stream of calls is inherent in the code.

## 5. Proofs

The proofs are for every value of the constants that satisfies the named
assumptions, all of which TLC evaluates in the runs.  Each inductive invariant was
checked by TLC on the bounds of section 3 before it was proved: with bounded numbers
in place of `Nat` where it quantifies over them, and without the set of all tasks in
`BulkTypes`.  In every proof module there is one lemma or one step per action, and
lemmas for what several actions need.

| module | theorem | states |
|---|---|---|
| `AtomicDictProofs` | `TypeCorrect` | `[]TypeOK` |
| | `KeysAreUnique` | `[]OneLiveEntryPerKey` |
| | `EntriesAreStable` | `PublishedEntriesAreStable` |
| | `ProbesAreSound` | `[]ProbeInvariant` |
| | `TombstonesAreWritten` | `[]TombstoneIsWritten` |
| | `ProbesStop` | `[]SomeSlotIsEmpty` |
| | `CallsAreAtomic` | `Linearizable`, the refinement of `AtomicMap` |
| | `LenIsExact` | `[]LenIsCurrent` |
| | `ApproxLenIsBounded` | `[]ApproxLenIsClose` |
| | `IterationsAreComplete` | `[]IterationIsComplete` |
| | `BatchesAreCurrent` | `[]BatchReadsAreCurrent` |
| `ReservationProofs` | `ReservationsAreExclusive` | `[]ReservedOnce` |
| | `EntriesAreBlank` | `[]EmptyEntryIsBlank` |
| | `PagesExist` | `[]PagesAreAllocated` |
| `ResizeProofs` | `NoWriterDuringMigration` | `[]WritersAreLockedOut` |
| | `EveryNodeIsMigrated` | `[]NoNodeIsLost` |
| | `ResizeAssertionsHold` | `[]AssertionsHold` |
| | `EveryMutexIsReleased` | `[]NoMutexIsLeaked` |
| | `NoBlockIsMigratedTwice` | `BlocksMigrateOnce` |
| | `NobodyWaitsForEverybody` | `[]NoDeadlock` |
| `MigrationProofs` | `EveryNodeArrives` | `[]MigrationIsComplete` |
| | `MigratedNodesAreFound` | `[]MigratedAreFindable` |
| `AtomicRefProofs` | `ReferencesBalance` | `[]RefcountsBalance` |
| `ReadersWriterLockProofs` | `LockIsExclusive` | `[]WriterIsAlone` |
| | `NoNotificationIsLost` | `[]SleepersAreBlocked` |
| `SynchronizersProofs` | `LatchOpensAtZero` | `[]EventFollowsCount` |
| | `FunctionRunsOnce` | `[]SameOutcomeForAll` |
| | `OneThreadBuilds` | `[]InitialisedOnce` |
| | `WaitsAreNotEarly` | the safety part of `ImplementsEvent` |
| `AtomicCacheProofs` | `FillsArePublished` | `[]PublishSucceeds` |
| | `ValuesAreFresh` | `[]ReturnsFreshValue` |

**The table** (`AtomicDictProofs`, first part).  For every set of threads, keys and values,
every size and all functions `Distance0`, `Tag` and `Hash`.  Assumptions: the table
has at least one slot, equal hashes give equal tags, the sentinels differ from each
other and from values (`SizeAssumption`, `HashAssumption`, `EqAssumption`,
`ConstantsDistinct`).  `OneLiveEntryPerKey` is not inductive: from a state in which an
inserting thread has skipped a live entry of its key, its compare-and-exchange
breaks it.  `ProbeInvariant` adds what is missing:

* `Ownership`: a reserved entry belongs to one thread and is not free;
* `ThreadState`: the local variables go with the program counter, and an entry
  that a thread examines is no longer private;
* `ProbeState`: the slots an inserting thread has passed are not empty and
  hold no live entry of its key;
* `NodeState`: a node's entry is in no other slot, and no slot of the probe
  sequence that led to it is empty.

When the compare-and-exchange finds an empty slot, no live entry of the key can
lie before it (`ProbeState`) or after it (`NodeState`).  The rest is that these
facts survive the steps of other threads, since slots and published entries
only age (`TableAges`, lemmas `DeadStaysDead`, `OthersKeep`, `NodeKept`).
`TombstoneIsWritten` needs in addition that a deleting thread is the only one to have
seen its entry's value go to `NULL` (`BurialInv`).  `SomeSlotIsEmpty` is a counting
argument: the slots that are not empty have had different entries, of which there
is one less than slots.

**Linearizability** (`AtomicDictProofs`, second part).  `LinState` says what each thread knows of
the bindings of its key: the current one is always among those `seen`; the slots a
lookup has passed hold no live entry of the key (`Passed`); whoever holds an entry
that has been deleted has seen `NOT_FOUND`.  Every commit of the table is then the
commit of `AtomicMap`, and every other step leaves the bindings alone.  These two
parts are about `Spec` of `AtomicDictTable` and use no assumption of `BulkReads`.

**Bulk reads** (`AtomicDictProofs`, third part).  For any set of readers and any finite
set of threads, any page size above one and any numbers of partitions
(`PageAssumption`, `ReadersAssumption`, `ThreadsAssumption`; a page of one entry would
be filled by entry 0, which is never handed out).  The invariant `BulkInv` contains
that of the second part, and adds:

* `LenState`, an account of the keys: their number is `len`, plus what is in the
  counters, plus what calls have changed and not counted yet (`Owed`).  A step changes
  both sides together, because a call owes exactly where the second part has it
  commit (`StepAccounted`).  While `len()` holds the mutexes nobody owes anything; the
  counters that it has added to `len` and not yet set to zero (`Zeroing`) are left out
  of the account.
* `ApproxOK`: what `approx_len()` has added up, and the counters it has still to read
  (`Left`), are within what was counted during the call of what there was when it
  began.  `MovedState` says that it knows when `len()` is moving the counters.
* `IterOK`: of the entries that were there all the time, those behind the iterator
  have been returned (`Before`), and those ahead are in pages it will visit; when it
  is alone it has returned nothing else.  The arithmetic of the jump from a page of a
  partition to the next one is in lemmas of their own.
* `BatchOK`: as for a lookup, no live entry of the key is behind the cursor, and what
  is in the batch was in the dictionary during the call.
* `PoolState`, `PageState`: entries that can be handed out are blank, and those that
  were are in allocated pages.

The sum of the counters is a difference of two cardinalities (`Total`, of `Units`), so
that changing one counter changes the sum by as much, without an induction.

**Reservation** (`ReservationProofs`).  Assumptions: a page is a whole number of
blocks and holds at least two entries; the pages of `__init__` fit the table it makes
and the bound `MaxPages` (`InitialLensFit`; `InitPageCount` is a minimum over powers of
two, about which the provers know nothing).  The theorems have the hypothesis
`NoLenFillsItsBlock`, without which they are false (section 3, disagreements).  The
invariant: a buffer lies within one block, whose flag is up, and the blocks of
different threads differ (`BufferState`); what is filled is in a block whose flag is
up and in nobody's remaining entries (`FilledState`); at most one thread has
installed a page that is not announced, and that page is the one after
`greatest_allocated_page` (`InstallState`); no flag is up beyond the announced pages
but that page's first (`FlagState`).  The arithmetic (a block is in one page, the
entry that is tried begins a block) is in lemmas of their own.

**Resize** (`ResizeProofs`).  For every set of threads, number of blocks and number of
generations, leaders that fail included.  None of the properties is inductive; the
invariant says who holds which mutex (`LockState`), how far the resize of each
generation is and who its one leader is (`GenState`, `LeadState`), that a thread sits on
one seat of the participants (`SeatState`), and that a thread which has read a seat
as not at work saw all blocks claimed before, so that its occupant works no more
(`WorkState`, `BlockState`).  A writer in its critical section holds its own mutex and a
leader that migrates holds them all.

`NoDeadlock` needs a second invariant (`WakeInv`), on top of the first: a seat that
reads 1 is that of a thread at its blocks (`Occupied`); so a participant that goes to
sleep, having read one, leaves a thread behind that has still to scan the seats, and
one such thread remains until the event is set (`Awaited`); a leader stays until it has
set the two events that are its own to set (`Led`, `EventState`).  Mutexes close no
circle: only the holder of `accessors_lock` waits for a `self_mutex` while it has
others, and it waits for a writer, which waits for nothing.  So either the holder of
the list can go on, or the list is free, and then all mutexes are, and the leader for
whom the followers wait can go on.

**Migration** (`MigrationProofs`).  For every size of index, every block size that
divides it, every value of `MaxDistance`, and every index that inserts and deletes can
build (`MigrationAssumption`; `SlotsAssumption` says that empty slots, tombstones and
garbage are not nodes).  The blocks' threads share the new index without any
synchronisation, so the proof is about who writes where.  The territory of a block goes
from its first empty slot to the first one after the block; territories are disjoint,
also where they wrap around.  The node of old slot `u` goes to a new slot between its
home and `2u + 1`: the two new slots of `u` are still empty when its turn comes, as the
nodes before it went no further than their own.  Its home is in the territory because
no old slot between a node and its home is empty.  The invariant: what a thread has
cleared stays initialised (`Cleared`), each node it has passed is in the new index at
one place from which no empty slot separates its home (`Placed`, `Once`), nothing else
is there (`Source`), and the counts are those of the nodes passed (`CountState`).  That a
set of slots has a least element is taken from the library's theorem on well-founded
relations.

**AtomicRef** (`AtomicRefProofs`).  For every finite set of threads, every set of objects
that does not contain `NULL`, and any number of calls (`RefAssumption`).  The
references to an object are the elements of a set (`References`), so that a step of one
thread changes their number by the change in that thread's share (`CountChanges`).
`CallState` says which call a thread can be in at each program counter and that its
locals are objects; the balance alone is not inductive because what a thread owns
(`Owned`) depends on both.  As in the run, nothing is said once a `set` has replaced an
object other than the one it holds a reference to (section 3, disagreements).

**ReadersWriterLock** (`ReadersWriterLockProofs`).  For every finite set of threads and
every depth of nesting.  The counters are cardinalities of sets of acquisitions
(`Holds`), so that a step adds or removes one element; `OneSide` says which side a
thread may be asking for.

**Synchronizers** (`SynchronizersProofs`).  `Uses` says how a client's program counter
goes with its position in the event's code, and is the same for latch and `call_once`.
`LatchInv` and `OnceInv` add that the count leaves one for zero once, and that there is
one leader.  `WaitsAreNotEarly` proves that every step of `AtomicEvent` is a step of
`Event` (`Event!Safety`), for both clients.

**AtomicCache** (`AtomicCacheProofs`).  For every finite set of threads and any bound on
calls.  `CellState`: what is in the cell belongs to the newest fill and is newer than
anything outdated, unless it has itself expired.  `CallState`: a call that lost the
race for a reservation has seen the cell change after it began.  `FillsAreCounted`
keeps the number of fills within the bound of calls.

## 6. Only model-checked

* Liveness (`ReservationEnds`, `MigrationEnds`, `ReduceReturns`, the `CallsReturn` of each
  module), and the fairness half of `ImplementsEvent`: the prover does no fairness.
* `NoDeadlock` of `Resize` is proved in terms of `Waits`, which lists the mutexes and
  events that a step waits for, and not of `ENABLED`, which the prover does not have.
  That a thread in a call has no step exactly when it `Waits` was checked by TLC on the
  bounds of the run.  That every call returns is shown as the absence of deadlock, the
  one loop without progress being that of `resize_failed` (section 3, disagreements).
* `MatchesBuiltin` of `Reduce` and `BehavesLikeInt` of `AtomicInt64`.  Both compare what
  is computed with a fold over data (the items of a key, the bits of an integer), and
  what a fold gives for every input needs an induction over the data.  That the bitwise
  operators stay within the width is such a fact, and so is every fact about `2 ^ Width`.

## 7. Plan

A model that remains to be written is the composition of `AtomicDictTable` with
`Resize`: readers (`get`, `batch_getitem`, `fast_iter`) that keep an old generation
while writers use the next one, which shares its pages.  Its proof can build on
`AtomicDictProofs`, `ResizeProofs` and `MigrationProofs`.

## 8. Not modelled

* `Resize` and `AtomicCache` take an event's `set` and `wait` as atomic, which is what
  `ImplementsEvent` shows of the event.
* Reads across a resize: see the plan.
* `AtomicDict.__init__`'s sizes (`min_size`) and its retry with a larger index, which
  a page of 128 entries for an index of at least 128 slots never needs.
* Errors of allocation inside `len()` and `approx_len()`: they return before they
  change anything.
* `AtomicBool` is an `AtomicRef` over two objects; `ThreadHandle` forwards calls;
  `ThreadSet` starts and joins threads: no protocol of their own.
* Garbage collection, traversal and deallocation, the `Debug` and `repr`
  functions, type tables, module initialisation.
* Calls back into the same dictionary from a key's `__eq__` or `__hash__`.
* Memory orders weaker than sequential consistency, and reference counts other
  than `AtomicRef`'s.
