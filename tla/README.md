# TLA+ models of the free-threading support in Python 1.4

This directory holds TLA+ models of the parts of the interpreter that the
free-threading patch makes concurrent. There are five components:

| Component | Source | Module(s) |
|---|---|---|
| Pooled object locks | `src/Python/pypooledlock.c`, `src/Include/pypooledlock.h` | `PooledLock` (detailed), `ObjectLock` (abstract), `MCPooledLock` |
| Thread-state registry | `src/Python/threadstate.c`, `src/Include/threadstate.h` | `ThreadStateRegistry`, `MCThreadStateRegistry` |
| Dictionary (mapping) object | `src/Objects/mappingobject.c` | `MappingObject` (detailed), `AbstractMapping` (abstract), `MCMappingObject` |
| List object | `src/Objects/listobject.c` | `ListObject` (detailed), `AbstractList` (abstract), `MCListObject` |
| Attribute-name cache of `getattro`/`setattro` | `src/Objects/mappingobject.c` 978-1074 | `NameCache`, composed with the registry in `InterpreterThreads`, `MCInterpreterThreads` |

Native mutexes (`src/Python/pymutex.c`, `src/Include/pymutex.h`) appear
inside the modules that use them. `PooledLock` models the record mutex in
both the POSIX and the NT build.

`PROJECT.json` maps every definition that models code to the lines it
translates. It also lists the runs, the mutants, the findings and the
hazards.

## How the parts interact

- **Pooled locks and objects.** Every list and dictionary carries a
  pointer slot, `Py_POOLED_INIT`. `Py_LIST_LOCK` and `Py_MAP_LOCK` call
  `PyPooledLock_Lock` on that slot.
- **Lock records.** `PyPooledLock_Lock` fills the slot with a lock record
  taken from a free queue, or a freshly malloc'd one. It guards the queue
  and the slots with one global `pooled_lock_mutex`.
- **Blocking.** A thread that finds the slot occupied increments
  `waiting`, then blocks on the record's own mutex.
- **Unlock.** `Unlock` gives the record back to the queue when nobody
  waits, and otherwise hands the mutex on.
- **Lazy unlock.** `LazyUnlock` and `LazyDone` let a scan such as
  `listindex`, `mapping_print` or `list_compare` drop the lock around a
  call to Python code without returning the record each time.
  `LazyUnlock` decrements `waiting` with `Py_SafeDecr`, which is
  serialised by a different mutex.
- **Deadlock detection.** It compares the record's `thread_id` with the
  caller's.
- **Objects use the lock, not its internals.** `ListObject` and
  `MappingObject` use the lock abstractly: a per-object holder that is
  taken and released atomically, with a failed lock when the holder locks
  again. This is justified by the run showing that `PooledLock` implements
  `ObjectLock`.
- **Thread-state registry.** It is independent of the pooled locks. It
  is a singly linked list of per-thread states that every thread walks
  without a lock on every `PyThreadState_Get`, and reorders
  (move-to-front) under `states_mutex`.
- **Name cache and registry.** Both are used by every interpreter thread.
  `getattro` and `setattro` keep one global entry, `last_name_object` and
  `last_name_char`, read and written under `_Py_CritMutex`
  (`Py_CRIT_LOCK`). The registry's `PyThreadState_New` takes the same
  mutex. `InterpreterThreads` composes the two components: each thread
  runs its registry program and its attribute calls, one call at a time.

## The modules

Every detailed module follows the same shape:

- `pc[t]` is the label of the step thread `t` is about to take.
- `prog[t]` is the sequence of calls the thread still has to make. The MC
  module gives it as a constant `Program`.
- A thread takes the head of its program (`Call`) and runs the actions of
  that operation one at a time.

Atomicity is kept exactly as the C code gives it:

- **One step per critical section.** Everything between taking and
  releasing a lock is a single step. It is atomic to the other threads,
  since they only touch the locked data under the same lock.
- **Separate steps for shared memory outside a lock.** Every read or
  write of shared memory made outside a lock is its own step, for example
  `a->ob_size` read before `Py_LIST_LOCK` or `pts->next` in the unlocked
  walk. Consecutive unlocked reads with no write between them may share a
  step, as `mappinginsert`'s fill test and `mappingresize`'s reads of
  `oldsize` and `oldtable` do; another thread can still act between that
  step and the lock.
- **Error paths.** Every early return and error path of the C function
  is an action or a disjunct with the code's guard.
- **`AllDone` and `Finished`.** `AllDone` holds when every program has
  returned. `Finished` is the stutter step taken after that.

### PooledLock / ObjectLock

State:

- `slot[o]`: the object's `PyPooledLock *`.
- `queue`: `pooled_lock_queue`.
- `allocated`: the records malloc has returned. The constant `Records`
  bounds malloc.
- `waiting[r]`, `owner[r]` (`thread_id`) and `mutex[r]`, the record's
  `PyMutex`: the thread that last entered it and its lock depth.
- `poolMutex`.
- The per-thread locals `rec` and `tmp`. `tmp` is the value loaded for a
  read-modify-write of `waiting`.
- `held[t]`: the objects whose lock `t` holds.

Actions follow the C lines one by one:

- `LockPool`, `LockSlotSet`, `LockInc`, `LockDetect`, `LockUndo`,
  `LockNoDeadlock`, `LockFromQueue`, `LockAlloc`, `LockNoMemory`,
  `LockMutex` and `LockStamp`.
- `UnlockRead` … `UnlockRelease`.
- `LazyRead`, `LazyLoad`, `LazyDec` and `LazyRelease`.
- `LazyDonePool` … `LazyDoneLock`.

The `PyMutex` of `pymutex.h` has two builds. The constant `Reentrant`
chooses between them:

- **POSIX** (`Reentrant = FALSE`): a default `pthread_mutex_t`. It waits
  until the mutex is unlocked, whoever locked it. Deadlock detection is
  on.
- **NT** (`Reentrant = TRUE`): a `CRITICAL_SECTION`. `CanEnter` also
  admits the owning thread again, and `Enter` counts the recursion.
  `PYMUTEX_REENTRANT` turns deadlock detection off, and `Py_SafeDecr` is
  the atomic `InterlockedDecrement`.

`Leave` by a thread that does not own the section is undefined, so it
either lowers the count or does nothing.

`++waiting` and `--waiting` are a load and a store. They are separate
steps only where another mutex could interleave, which is
`Py_SafeDecr`'s.

The programs are the exact pooled-lock call sequences made by callers in
`listobject.c` and `mappingobject.c`:

- a locked operation;
- a scan that misses;
- a scan that hits;
- a two-object operation.

When a lock fails, `Abort` unlocks what the caller already holds, as
`list_concat` and `list_ass_slice` do.

`ObjectLock` is the abstract lock: a holder per object. It is
instantiated with `holder <- HolderOf`, derived from `held`.

### ThreadStateRegistry

State:

- `next[p]`: the links.
- `head`: `states`.
- `owner[p]`: `thread_id`.
- `freed`.
- `mutex`.
- The per-thread locals of `Get`, `New`, `Free` and `Ensure`.

Every load of `pts->next` in an unlocked walk is a step (`LoadNext`).

A load from a node that `Free` has already freed returns either the stale
value or NULL. That is the nondeterministic outcome of a use after free
in this build, and the step is recorded so that `NoUseAfterFree` can
refer to it.

The actions are `GetHead` … `GetFront`, `EnsureHead`/`Cmp`/`Next`,
`NewAlloc` … `NewInsert`, and `FreeMain`/`FreeUnlink`/`FreeNode`.

### NameCache / InterpreterThreads

The cache exists only in a build with `POSSIBLE_OPTIMIZATION` defined.
The spec keeps it as an optional switch, off by default. The model is of
the build that enables it.

State:

- `last_name_object` and `last_name_char`.
- A small heap of string objects: `ob_text[a]` (NULL once freed) and
  `ob_refcnt[a]`. A string keeps its text inline, so a text pointer is
  the object's address. A read through it after a free sees whatever
  string was later allocated there, or nothing.
- The C locals `name`, `attr` and `temp` of each thread, and `want`, the
  text the caller asked for.

A call's name is either:

- an interned string that a code object keeps alive; or
- a fresh string the caller allocates for the call at a free address
  (so addresses are reused) and DECREFs after it.

Actions:

- `NameCall`: the type hook returns early, or the call starts.
- `CacheTest`: the locked test, and the hit.
- `CacheIncref`: on a miss, INCREF and `getstringvalue` outside the lock.
- `CacheStore`: the locked store.
- `CacheDecref`: `XDECREF(temp)`.
- `AttrUse`: `getattr`/`setattr` reads the text, and the caller releases
  its name.

`setattro` has exactly the same structure, so one set of actions models
both; a call's `op` says which. INCREF and DECREF are taken as atomic.

`ThreadStateRegistry` extends `NameCache`, so that each registry step can
leave the cache's state alone (`Goto` and `Return` keep `ncvars`
unchanged). A registry `Call` starts only while the thread is outside
getattro (`NcIdle`). `InterpreterThreads` adds the cache steps, each
taken only while the thread is outside every registry call, the way a C
thread makes one call at a time. The registry-only runs give every
thread an empty name program (`NoNames`), so the cache's state never
changes there.

### MappingObject / AbstractMapping

State:

- `table`: `ma_table`, a function from slots to entries holding a key
  (or None/Dummy) and a value.
- `size`, `fill` and `used`.
- `holder`: the dictionary lock.
- `loc[t]`: the C locals of the thread's call: a list length `n` read
  before locking, the scan slot or compare index `i`, compare's sorted
  key lists `ak` and `bk` and result `res`, the pairs a rendering has
  output so far, and whether an allocation has failed.
- `result`, with ints tagged `Num` and lists or strings tagged `ListOf`
  (the bag of what they hold).

`lookmapping` is the pure, RECURSIVE operator `Probe`:

- the initial slot comes from `Hash % size`;
- `IncrFrom` is the `3*sum+1` loop;
- the probe keeps the first dummy it sees;
- it cannot stop on a table without a NULL key, and that case is the
  `Hang` action.

`mappingresize` is `NewSize` (the primes table) and `Rehash` (the
reinsertion loop). It reads `oldsize` and `oldtable` before it locks;
that read is folded into `InsertCheck`'s unlocked step, and `Orphan`
marks it stale when another thread's resize or clear replaces and frees
the table before the lock is taken. `ResizeLocked` then either builds an
empty table (the stale `oldtable` was NULL: the current entries are
lost) or crashes (it reads the freed table and frees it again).

The operations are lookup, has_key, insert (with its resize), remove,
clear, length, keys, values, items, compare, repr and print. Each is
modelled as:

- the unlocked pre-check the code makes (`LookupCheck`, `InsertCheck`,
  `RemoveCheck`, `CompareCheck`, the unlocked `ma_used` of `LengthRead`
  and of `SnapAlloc`);
- then the locked body.

`keys`, `values` and `items` share `SnapAlloc` (the list of `ma_used`
items, which may fail) and `SnapLocked` (the loop with the lock held
throughout; `items`' tuple may fail inside it). `mapping_compare`
makes its two key lists with the same two actions, sorts them with
`cmpobject` (`SortKeys`), and then runs its loop as `CompareKey` (the
key comparison and hashing, with no lock) and `CompareLook` (both locks,
two `lookmapping`s with no size test, the lazy unlocks, the value
comparison). It falls back to address order when a list cannot be
made. `mapping_print` and `mapping_repr` are `RenderScan` (relock, the
next entry in use from slot `i`, lazy unlock) and `RenderOut` (the
element's print or repr outside the lock, which may fail).

The backward-compatible helpers `dictlookup`, `dictinsert` and
`dictremove` start with `DictKeyAlloc`: `newstringobject(key)`, which
may fail and then returns NULL or -1 at once. Otherwise they continue
with the steps of `mappinglookup`, `mappinginsert` or `mappingremove`.
The key string is the key itself. `AbstractMapping` gives a helper the
effect of the call it makes, or none with a failure in a thread whose
allocations may fail.

`cmpobject` and `hashobject` live in the interpreter's `object.c`,
outside this repository. The model takes `cmpobject` as the order
`Rank` with NULL first, and `hashobject(NULL)` as a crash.

`AbstractMapping` is an atomic dictionary from keys to values. Its
`DictCmp` is spec section 4.5's comparison: the sorted keys are compared
pairwise, then the values at the first differing position, then the
sizes. `MappingObject` refines it through `Contents`, the key→value pairs
in use. Refinement is checked only without a writer racing a scan,
since spec section 5 says multi-cycle scans are not linearizable.

### ListObject / AbstractList

State:

- `items[l]`: `ob_item[0 .. ob_size-1]`.
- `holder[l]`: the list's lock.
- `loc[t]`: the C locals, `where`, `lo`, `hi`, `size`, `n` and `cap`.
- `result`.
- `faults`: the threads that read or wrote outside an item array, or
  through a NULL pointer.

The operations are append, insert, item, ass_item, `setlistitem`
(whose index is tested only under the lock), del slice, slice
assignment from another list, sort (default order, or with a
comparison function), reverse, slice, concat, repeat,
tuple, index, count, remove, compare, repr and print. Each has:

- its unlocked `ob_size` reads;
- its allocation, which may fail when the thread is in `AllocFails`;
- its lock, with deadlock detection in concat;
- its locked body.

C `int` arithmetic is `Wrap`, with `IntBits` bits. `AbstractList` takes
every operation that completes in one lock cycle as atomic. Concat,
repeat and tuple are atomic "once both locks are held". The
multi-lock-cycle scans (slice, index, count and remove) are left
unconstrained except for this: a successful remove deletes an element
equal to its argument. Compare is lexicographic (`LexCmp`), and repr and
print return the list's elements or fail for lack of memory.

Sort with a comparison function (`SortCmpLock`, `SortCmpTest`,
`SortCmpQsort`) keeps the list locked from the size test to the end of
`qsort`. The comparator is a call into Python, so its outcome is chosen
nondeterministically: an order (`CmpLess`, ascending for a non-negative
argument, else descending), an error at the test call on the first two
items, or an error during `qsort`, which stops the sort with the items
in any permutation (`Shuffles`). `AbstractList` allows exactly these:
the sorted list, or for a list of two or more items an error with the
list rearranged. `ListObject` refines `AbstractList` with
`pending <- prog`.

## Runs

Each run's question and bounds:

| Run | cfg | Expect | What it shows |
|---|---|---|---|
| pl_safe | MCPooledLock_safe | pass | **Program:** three threads. t1 runs a missing scan and a hitting scan on A, then a locked op on B. t2 runs Pair(B, C). t3 runs Pair(C, C): its second Lock of C trips deadlock detection, and the abort ends t3's program. Two records for three objects exercise the queue, reuse and malloc failure. **Holds:** mutual exclusion, a sound free list, no self-block, no false deadlock report, the pool restored at the end, termination, and refinement of `ObjectLock`. |
| pl_ntreuse | MCPooledLock_ntreuse | violation | **Setup:** the NT build with one record. t1 locks and unlocks A, so the record goes to the queue still entered by t1. t2 locks B with that record, and t1 then locks B. **Violated:** `MutualExclusion`, because t1 re-enters the critical section it still owns while t2 holds B. |
| pl_lazyrace | MCPooledLock_lazyrace | violation | **Setup:** a scan hit on A racing a plain lock of A. **Violated:** `PoolRestored`, through the lost update of `waiting`. |
| pl_crosspair | MCPooledLock_crosspair | violation | **Setup:** two threads lock A then B and B then A, as concat(A, B) against concat(B, A) and mapping compare(A, B) against compare(B, A) do. **Violated:** `Termination`, because the threads deadlock. |
| ts_mtf | MCThreadStateRegistry_mtf | pass | **Setup:** the main thread and three workers run Ensure then Get, with a node able to move under a walker. **Holds:** the list stays a well-formed chain from the head, every registered state is reachable, Get never fails to find the caller, and everyone terminates. |
| rt_exit | MCInterpreterThreads_exit | pass | **Setup:** a worker lives its whole life, Free included, while the main thread calls Free, which keeps the main state. Meanwhile the main thread calls getattro with a fresh name `x` and setattro with interned `sx`. The worker calls getattro with a fresh `y`, a hooked type, and a fresh `x` again. Three string addresses are enough for a fresh name to reuse an address the cache held. **Holds:** `getattr`/`setattr` always read the name the caller passed. Every string's reference count equals its holders, and it is freed exactly when that count is 0. Only the worker changes the registry and the main thread never walks it, so the registry side of this run only supplies the interleavings of the two components; the registry's own properties are checked in ts_mtf and ts_freerace. |
| ts_freerace | MCThreadStateRegistry_freerace | violation | **Setup:** the main thread's Get walks while a worker frees its node. **Violated:** `NoUseAfterFree`. |
| mo_onewriter | MCMappingObject_onewriter | pass | **Setup:** T1 grows da from NULL to 3 and then 7 slots. Along the way it leaves dummies, replaces a value, misses a key, lists, renders, counts and clears. It compares da with db equal, differing in a value (both orders), in a key and as a prefix, and against an empty side, and calls has_key on dc. Meanwhile T2, whose every allocation may fail, writes (its replace, remove and missing lookup through `dictinsert`, `dictremove` and `dictlookup`), lists, renders and compares dc and dd. Hashes are chosen so that every probe collides. **Holds:** table consistency, no crash, atomicity against `AbstractMapping` and termination. |
| mo_clearrace | MCMappingObject_clearrace | violation | **Setup:** a lookup and a remove racing clear(). **Violated:** `NoCrash`, because lookmapping runs on an emptied table. |
| mo_fillrace | MCMappingObject_fillrace | violation | **Setup:** two threads insert three keys into one dictionary at once. **Violated:** `TableConsistent`, because both inserts skip the resize and the table is left with no NULL key. |
| lo_seq | MCListObject_seq | pass | **Setup:** T1 makes every list operation, on both its error and its success paths, including `setlistitem` in and out of range and a sort with a comparison function that may fail at its test call or during `qsort`, while T2 reads A. **Holds:** type, refinement of `AbstractList`, termination. |
| lo_shrink | MCListObject_shrink | pass | **Setup:** T1's copies (slice, concat, tuple, repeat), compares and renderings of A race T2's deletions from A. T1's allocations may fail; T2's may not, since its deletes would then store through a NULL `recycle` (see the hazard at `listobject.c:612`). T1 also runs A + A and a repeat whose size is negative in 8 bits. **Holds:** no item array is read or written outside its bounds, including the reads after every re-test under the lock in compare, print and repr. A + A releases A. Every call returns. |

### Why these bounds suffice

- **Two or three threads and two or three objects, records, keys or
  values.** This is the smallest setting in which every interleaving the
  code distinguishes can occur:
  - a waiter and a holder;
  - a record reused from the queue after being malloc'd;
  - a node moved to the front two places ahead of a walker;
  - a probe that steps over a dummy and a collision;
  - a resize that runs out of primes or calloc.

  Every action fires in some passing run. Two outcomes are reached by
  no run: `RecycleFails` (a deleting thread's allocation fails) and
  `ResizeLocked` on a stale `oldtable` (two resizers of one dictionary);
  both would fail a passing run's property. A larger
  model adds symmetric copies, not new orderings.
- **Three string addresses for two threads' names.** One holds the
  interned name, and two are for fresh names. Then a fresh name that the
  cache has displaced and released can be freed, and its address reused
  for the other thread's next name. The cache's own reference keeps a
  cached string alive, so a reused address never equals
  `last_name_object` while it is cached.
- **8-bit ints for list sizes.** `IntBits = 8` scales down the 32-bit
  `int`. lo_shrink reaches the negative wrap (2 items times 64), which
  `newlistobject` refuses. The positive wrap, which under-allocates,
  needs a list of three items (times 86); no run holds one.

## Fairness

- Each native thread's step is weakly fair:
  `WF_vars(Step(t))` for every thread.
- **Why the code justifies it.** The interpreter runs real threads
  (`thread_PyThread_start_new_thread`). The OS scheduler eventually runs
  every runnable thread, and a thread blocked on a mutex is not
  runnable.
- In `InterpreterThreads` the fair step is a thread's step in either
  component, `WF_vars(RtStep(t))`. It is the same thread, so the same
  justification holds.
- **What it does not assume.** Nothing about lock fairness or about the
  order in which waiters wake.
- **`Finished`.** The stutter step lets a run that has completed satisfy
  `Termination` without reporting a deadlock.

## Findings

A violation run shows each of these:

1. **Lost update of `waiting` (`pypooledlock.c:151`).** `Py_SafeDecr` is
   serialised by its own mutex, while `Lock` and `Unlock` change
   `waiting` under `pooled_lock_mutex`. A lazy unlock racing a lock loses
   an update, and the pool record is then reclaimed wrongly or never.
2. **Lock-order inversion (`listobject.c:488`).** `a + b` in one thread
   and `b + a` in another deadlock.
3. **Use after free (`threadstate.c:65`).** The unlocked walk of `Get`
   and `Ensure` can read a node that `Free` has freed.
4. **Clear race (`mappingobject.c:321`).** `ma_table != NULL` is tested
   without the lock. A clear in between makes `lookmapping` compute
   `sum % 0`.
5. **Queued records in the NT build (`pypooledlock.c:63`).** `Unlock`
   queues a record with its mutex still locked, and `Lock` hands a
   queued record out without locking it. That is sound for a POSIX
   mutex, which does not track its owner. A `CRITICAL_SECTION` stays
   owned by the thread that entered it, which may enter it again, and
   this build has no deadlock detection. So that thread passes
   `PyMutex_Lock` on the record while another thread holds the object
   now using it (pl_ntreuse).
6. **Fill race (`mappingobject.c:361`).** `mappinginsert` decides on the
   resize from `ma_fill` and `ma_size` read before locking. Two inserts
   into a 3-slot table holding one key both skip it, and the table ends
   with no NULL key. The comment at line 80 requires one, because without
   it `lookmapping` of an absent key loops for ever with the lock held.
7. **Lock-order inversion in `mapping_compare` (`mappingobject.c:877`).**
   It locks `a` then `b`, so `compare(a, b)` and `compare(b, a)` deadlock,
   just as concat does (pl_crosspair).

### Other races, not run

Modelling also met these races. They are recorded as hazards, and the
properties of the passing runs would catch them if a program exercised
them:

- **Unlocked append index (`listobject.c:732`).** `listappend` passes an
  `ob_size` read without the lock as the insert index, so two concurrent
  appends are not linearizable. `ProgramAppendRace` in `MCListObject`
  violates `ListSpec`.
- **Full table after a failed resize.** A failed resize that is
  ignored while one slot is free fills the last NULL slot.
- **Compare against a clear.** `mapping_compare` calls `lookmapping`
  without a size test, after `ma_used` checks made without the lock.
- **Renderings under a resize.** print and repr resume at slot `i` of a
  rebuilt table, so an entry can be listed twice or skipped. Spec
  section 5 allows this.
- **Stale size in `keys()`.** `mapping_keys` sizes its list from a stale
  `ma_used`.
- **Registry corruption.** `PyThreadState_Get`'s recheck is satisfied by
  a freed `prev`, and `New` misses the main thread's state while `Get`
  has it unlinked.
- **List operations on stale indices and sizes.**
  - `listremove` deletes at a stale index.
  - `list_ass_item` deletes nothing after passing a stale bounds check.
  - concat, repeat and tuple truncate a list that grew.
  - `size * n` wraps to a small positive count in `list_repeat`, which
    under-allocates the result.
- **Unchecked `recycle` in `list_ass_slice` (`listobject.c:612`).** A
  failed `NEW` during a delete or slice assignment is stored through at
  617 or 639 (`RecycleFails`).
- **Resize against a resize or clear (`mappingobject.c:253`).** The
  stale `oldtable` loses the entries or is freed twice.

## Not modelled, and the plan

- **Not modelled:**
  - a comparison function that calls back into the list it sorts (the
    comparator's effect is only its answer or its error), and keys whose
    hash or `__cmp__` call back into the dictionary;
  - the `a[i:j] = a` path of `list_ass_slice`;
  - dealloc and reference counts;
  - `getlistitem` as an entry point: it is documented as not thread
    safe, and its only caller here, `mapping_compare`, reads key lists
    that no other thread can reach (`CompareKey`), so it is no hazard;
  - `mappinggetnext`, documented as not thread safe (nothing in this repository
    calls it);
  - the non-optimized branch of `getattro`/`setattro`
    (`getstringvalue` and a NULL check). It touches no shared state.
    The optimized branch has no NULL check, but it is only reachable
    with a non-string name, which no caller passes;
  - `PyMutex_New` failure, which is fatal.
- **Plan, in order:**
  1. A composition that instantiates `PooledLock` inside `ListObject`
     in place of the abstract holder, checking that lazy scans and
     ordinary locks together keep the pool sound.
  2. Runs for the races listed under "Other races, not run", replacing
     weaker runs where they say more.
  3. A passing run of the NT build (`Reentrant = TRUE`) on programs in
     which no record is queued while another thread waits for it, e.g.
     the self-concatenation `a + a` that the POSIX build refuses with
     `SystemError`; and `PyMutex_New` failure in `PyPooledLock_Init`.
