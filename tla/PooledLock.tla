----------------------------- MODULE PooledLock -----------------------------
(***************************************************************************)
(* The pooled lock manager of Python/pypooledlock.c, with the embedded     *)
(* PyMutex of every record and the calls made on it by the list and        *)
(* mapping objects.  Every thread runs a program: a sequence of calls      *)
(* PyPooledLock_Lock / _Unlock / _LazyUnlock / _LazyDone on the lock slot  *)
(* (ob_lock) of an object, in the order one of the callers in              *)
(* Objects/listobject.c or Objects/mappingobject.c makes them.             *)
(*                                                                         *)
(* Granularity: a step is one access to memory that another thread may    *)
(* touch without holding the same mutex.  pl->waiting is incremented and   *)
(* decremented under pooled_lock_mutex by Lock/Unlock but by Py_SafeDecr   *)
(* (under _Py_RefMutex, a different mutex) in LazyUnlock, so each of these *)
(* read-modify-writes is a read step and a write step.                     *)
(*                                                                         *)
(* Reentrant selects the NT build of pymutex.h: CRITICAL_SECTION mutexes,  *)
(* no deadlock detection, and Py_SafeDecr an atomic InterlockedDecrement;  *)
(* thread_id does not exist there, and owner is only the model's record of *)
(* the holder.                                                             *)
(***************************************************************************)
EXTENDS Naturals, Sequences, FiniteSets, Functions, SequencesExt

CONSTANTS
    Threads,    \* native threads (get_thread_ident() values)
    Objects,    \* list / mapping objects, each with one ob_lock slot
    Records,    \* the PyPooledLock records malloc can return (MaxRecords)
    NoRecord,   \* NULL PyPooledLock *
    NoThread,   \* thread_id 0
    Reentrant,  \* PYMUTEX_REENTRANT: the NT_THREADS build of pymutex.h
    Program     \* Program[t]: the pooled-lock calls thread t makes

Calls == [fn : {"Lock", "Unlock", "LazyUnlock", "LazyDone"}, ob : Objects]

ASSUME /\ Reentrant \in BOOLEAN
       /\ NoRecord \notin Records
       /\ NoThread \notin Threads
       /\ \A t \in Threads : Program[t] \in Seq(Calls)

VARIABLES
    slot,       \* slot[o]: ob_lock of object o
    queue,      \* pooled_lock_queue, linked through pl->next (head first)
    allocated,  \* records malloc has returned so far
    waiting,    \* pl->waiting
    owner,      \* pl->thread_id (USE_DEADLOCK_DETECTION)
    mutex,      \* pl->mutex: the thread that last entered it, and depth
    poolMutex,  \* holder of pooled_lock_mutex
    pc,         \* control point of each thread
    prog,       \* calls thread t has still to make; Head is the current one
    rec,        \* local variable pl of the current call
    tmp,        \* register holding pl->waiting between read and write
    held        \* objects whose lock thread t holds (its callers' view)

vars == <<slot, queue, allocated, waiting, owner, mutex, poolMutex,
          pc, prog, rec, tmp, held>>

Unlocked == [by |-> NoThread, depth |-> 0]

Labels == {"idle",
           "lk_pool", "lk_body", "lk_inc", "lk_check", "lk_undo",
           "lk_mutex", "lk_stamp",
           "un_read", "un_pool", "un_test", "un_dec", "un_release",
           "lz_read", "lz_load", "lz_dec", "lz_release",
           "ld_pool", "ld_test", "ld_mutex"}

EntryLabel == [Lock |-> "lk_pool", Unlock |-> "un_read",
               LazyUnlock |-> "lz_read", LazyDone |-> "ld_pool"]

Obj(t) == Head(prog[t]).ob

Init ==
    /\ slot = [o \in Objects |-> NoRecord]       \* Py_POOLED_INIT
    /\ queue = <<>>                              \* PyPooledLock_Init
    /\ allocated = {}
    /\ waiting = [r \in Records |-> 0]
    /\ owner = [r \in Records |-> NoThread]
    /\ mutex = [r \in Records |-> Unlocked]
    /\ poolMutex = NoThread
    /\ pc = [t \in Threads |-> "idle"]
    /\ prog = Program
    /\ rec = [t \in Threads |-> NoRecord]
    /\ tmp = [t \in Threads |-> 0]
    /\ held = [t \in Threads |-> {}]

Goto(t, l) == pc' = [pc EXCEPT ![t] = l]

(***************************************************************************)
(* PyMutex (pymutex.h).  The POSIX build's pthread_mutex_lock on a default *)
(* mutex waits until the mutex is unlocked, whoever locked it, and          *)
(* pthread_mutex_unlock unlocks it.  The NT build's EnterCriticalSection    *)
(* also admits the thread that owns the section again, counting the        *)
(* recursion; LeaveCriticalSection lowers the count and frees the section  *)
(* at zero.  Leaving a section another thread owns is undefined: the count *)
(* is lowered or nothing happens.                                          *)
(***************************************************************************)
Locked(r) == mutex[r].depth > 0

CanEnter(r, t) == ~Locked(r) \/ (Reentrant /\ mutex[r].by = t)

Enter(r, t) == mutex' = [mutex EXCEPT ![r] = [by |-> t, depth |-> @.depth + 1]]

Lowered(r) ==
    [mutex EXCEPT ![r] = IF ~Reentrant \/ @.depth <= 1 THEN Unlocked
                         ELSE [by |-> @.by, depth |-> @.depth - 1]]

Leave(r, t) ==
    IF Reentrant /\ mutex[r].by # t THEN mutex' \in {mutex, Lowered(r)}
                                     ELSE mutex' = Lowered(r)

\* The current call returns to its caller.
Return(t) ==
    /\ pc' = [pc EXCEPT ![t] = "idle"]
    /\ prog' = [prog EXCEPT ![t] = Tail(@)]

(* A Lock call failed: every caller returns its error at once, first      *)
(* unlocking the one object it already holds (list_concat, list_ass_slice, *)
(* mapping_compare); no further pooled-lock call of that caller is made.   *)
Abort(t) ==
    /\ pc' = [pc EXCEPT ![t] = "idle"]
    /\ prog' = [prog EXCEPT ![t] =
                  [i \in 1..Cardinality(held[t]) |->
                      [fn |-> "Unlock", ob |-> SetToSeq(held[t])[i]]]]

\* The thread makes the next call of its program.
Call(t) ==
    /\ pc[t] = "idle"
    /\ prog[t] # <<>>
    /\ Goto(t, EntryLabel[Head(prog[t]).fn])
    /\ UNCHANGED <<slot, queue, allocated, waiting, owner, mutex,
                   poolMutex, prog, rec, tmp, held>>

AcquirePool(t, from, to) ==
    /\ pc[t] = from
    /\ poolMutex = NoThread
    /\ poolMutex' = t
    /\ Goto(t, to)
    /\ UNCHANGED <<slot, queue, allocated, waiting, owner, mutex,
                   prog, rec, tmp, held>>

(***************************************************************************)
(* PyPooledLock_Lock                                                       *)
(***************************************************************************)
LockPool(t) == AcquirePool(t, "lk_pool", "lk_body")

\* *ppl is set: take pl and load pl->waiting for ++pl->waiting.
LockSlotSet(t) ==
    /\ pc[t] = "lk_body"
    /\ slot[Obj(t)] # NoRecord
    /\ rec' = [rec EXCEPT ![t] = slot[Obj(t)]]
    /\ tmp' = [tmp EXCEPT ![t] = waiting[slot[Obj(t)]]]
    /\ Goto(t, "lk_inc")
    /\ UNCHANGED <<slot, queue, allocated, waiting, owner, mutex,
                   poolMutex, prog, held>>

LockInc(t) ==
    /\ pc[t] = "lk_inc"
    /\ waiting' = [waiting EXCEPT ![rec[t]] = tmp[t] + 1]
    /\ Goto(t, "lk_check")
    /\ UNCHANGED <<slot, queue, allocated, owner, mutex, poolMutex,
                   prog, rec, tmp, held>>

\* thread_id == get_thread_ident(): load pl->waiting for --pl->waiting.
\* The NT build has no USE_DEADLOCK_DETECTION (PYMUTEX_REENTRANT).
LockDetect(t) ==
    /\ pc[t] = "lk_check"
    /\ ~Reentrant
    /\ owner[rec[t]] = t
    /\ tmp' = [tmp EXCEPT ![t] = waiting[rec[t]]]
    /\ Goto(t, "lk_undo")
    /\ UNCHANGED <<slot, queue, allocated, waiting, owner, mutex,
                   poolMutex, prog, rec, held>>

\* Mutant: after rolling back, the caller retries the lock.
LockUndoRetry(t) ==
    /\ pc[t] = "lk_undo"
    /\ waiting' = [waiting EXCEPT ![rec[t]] = tmp[t] - 1]
    /\ poolMutex' = NoThread
    /\ Goto(t, "lk_pool")
    /\ UNCHANGED <<slot, queue, allocated, owner, mutex, prog, rec, tmp,
                   held>>

\* Store the decrement, unlock the pool, report "deadlock detected".
LockUndo(t) ==
    /\ pc[t] = "lk_undo"
    /\ waiting' = [waiting EXCEPT ![rec[t]] = tmp[t] - 1]
    /\ poolMutex' = NoThread
    /\ Abort(t)
    /\ UNCHANGED <<slot, queue, allocated, owner, mutex, rec, tmp, held>>

\* Mutant: the deadlock detection test is dropped.
LockNoDeadlockNoCheck(t) ==
    /\ pc[t] = "lk_check"
    /\ poolMutex' = NoThread
    /\ Goto(t, "lk_mutex")
    /\ UNCHANGED <<slot, queue, allocated, waiting, owner, mutex,
                   prog, rec, tmp, held>>

LockNoDeadlock(t) ==
    /\ pc[t] = "lk_check"
    /\ Reentrant \/ owner[rec[t]] # t
    /\ poolMutex' = NoThread
    /\ Goto(t, "lk_mutex")
    /\ UNCHANGED <<slot, queue, allocated, waiting, owner, mutex,
                   prog, rec, tmp, held>>

\* A record from the queue is already locked with waiting == 1.
LockFromQueue(t) ==
    /\ pc[t] = "lk_body"
    /\ slot[Obj(t)] = NoRecord
    /\ queue # <<>>
    /\ rec' = [rec EXCEPT ![t] = Head(queue)]
    /\ slot' = [slot EXCEPT ![Obj(t)] = Head(queue)]
    /\ queue' = Tail(queue)
    /\ poolMutex' = NoThread
    /\ Goto(t, "lk_stamp")
    /\ UNCHANGED <<allocated, waiting, owner, mutex, prog, tmp, held>>

NewRecord == CHOOSE r \in Records \ allocated : TRUE

\* Mutant: the fresh record is never locked (PyMutex_Lock missing).
LockAllocNoMutex(t) ==
    /\ pc[t] = "lk_body"
    /\ slot[Obj(t)] = NoRecord
    /\ queue = <<>>
    /\ allocated # Records
    /\ rec' = [rec EXCEPT ![t] = NewRecord]
    /\ slot' = [slot EXCEPT ![Obj(t)] = NewRecord]
    /\ allocated' = allocated \cup {NewRecord}
    /\ waiting' = [waiting EXCEPT ![NewRecord] = 1]
    /\ owner' = [owner EXCEPT ![NewRecord] = NoThread]
    /\ mutex' = [mutex EXCEPT ![NewRecord] = Unlocked]
    /\ poolMutex' = NoThread
    /\ Goto(t, "lk_stamp")
    /\ UNCHANGED <<queue, prog, tmp, held>>

\* malloc a record, initialise it with waiting 1 and thread_id 0.
LockAlloc(t) ==
    /\ pc[t] = "lk_body"
    /\ slot[Obj(t)] = NoRecord
    /\ queue = <<>>
    /\ allocated # Records
    /\ rec' = [rec EXCEPT ![t] = NewRecord]
    /\ slot' = [slot EXCEPT ![Obj(t)] = NewRecord]
    /\ allocated' = allocated \cup {NewRecord}
    /\ waiting' = [waiting EXCEPT ![NewRecord] = 1]
    /\ owner' = [owner EXCEPT ![NewRecord] = NoThread]
    /\ mutex' = [mutex EXCEPT ![NewRecord] = Unlocked]
    /\ poolMutex' = NoThread
    /\ Goto(t, "lk_mutex")
    /\ UNCHANGED <<queue, prog, tmp, held>>

\* malloc returned NULL: *ppl = NULL, unlock, PyErr_NoMemory.
LockNoMemory(t) ==
    /\ pc[t] = "lk_body"
    /\ slot[Obj(t)] = NoRecord
    /\ queue = <<>>
    /\ allocated = Records
    /\ poolMutex' = NoThread
    /\ Abort(t)
    /\ UNCHANGED <<slot, queue, allocated, waiting, owner, mutex,
                   rec, tmp, held>>

\* Mutant: the mutex is taken without waiting for it to be free.
LockMutexNoWait(t) ==
    /\ pc[t] = "lk_mutex"
    /\ Enter(rec[t], t)
    /\ Goto(t, "lk_stamp")
    /\ UNCHANGED <<slot, queue, allocated, waiting, owner, poolMutex,
                   prog, rec, tmp, held>>

\* PyMutex_Lock(&pl->mutex): blocks while another thread holds it.
LockMutex(t) ==
    /\ pc[t] = "lk_mutex"
    /\ CanEnter(rec[t], t)
    /\ Enter(rec[t], t)
    /\ Goto(t, "lk_stamp")
    /\ UNCHANGED <<slot, queue, allocated, waiting, owner, poolMutex,
                   prog, rec, tmp, held>>

\* pl->thread_id = get_thread_ident(); return 0.
LockStamp(t) ==
    /\ pc[t] = "lk_stamp"
    /\ owner' = [owner EXCEPT ![rec[t]] = t]
    /\ held' = [held EXCEPT ![t] = @ \cup {Obj(t)}]
    /\ Return(t)
    /\ UNCHANGED <<slot, queue, allocated, waiting, mutex, poolMutex,
                   rec, tmp>>

(***************************************************************************)
(* PyPooledLock_Unlock                                                     *)
(***************************************************************************)

\* PyPooledLock *pl = *ppl, read before the pool mutex is taken.
UnlockRead(t) ==
    /\ pc[t] = "un_read"
    /\ rec' = [rec EXCEPT ![t] = slot[Obj(t)]]
    /\ Goto(t, "un_pool")
    /\ UNCHANGED <<slot, queue, allocated, waiting, owner, mutex,
                   poolMutex, prog, tmp, held>>

UnlockPool(t) == AcquirePool(t, "un_pool", "un_test")

\* Mutant: the record is pushed by re-reading *ppl after clearing it.
UnlockToQueueReread(t) ==
    /\ pc[t] = "un_test"
    /\ waiting[rec[t]] = 1
    /\ slot' = [slot EXCEPT ![Obj(t)] = NoRecord]
    /\ queue' = <<slot'[Obj(t)]>> \o queue
    /\ owner' = [owner EXCEPT ![rec[t]] = NoThread]
    /\ poolMutex' = NoThread
    /\ held' = [held EXCEPT ![t] = @ \ {Obj(t)}]
    /\ Return(t)
    /\ UNCHANGED <<allocated, waiting, mutex, rec, tmp>>

\* Mutant: thread_id is not reset when the record goes to the queue.
UnlockToQueueKeepOwner(t) ==
    /\ pc[t] = "un_test"
    /\ waiting[rec[t]] = 1
    /\ queue' = <<rec[t]>> \o queue
    /\ slot' = [slot EXCEPT ![Obj(t)] = NoRecord]
    /\ poolMutex' = NoThread
    /\ held' = [held EXCEPT ![t] = @ \ {Obj(t)}]
    /\ Return(t)
    /\ UNCHANGED <<allocated, waiting, owner, mutex, rec, tmp>>

\* waiting == 1: push the still-locked record on the queue, clear the slot.
UnlockToQueue(t) ==
    /\ pc[t] = "un_test"
    /\ waiting[rec[t]] = 1
    /\ queue' = <<rec[t]>> \o queue
    /\ owner' = [owner EXCEPT ![rec[t]] = NoThread]
    /\ slot' = [slot EXCEPT ![Obj(t)] = NoRecord]
    /\ poolMutex' = NoThread
    /\ held' = [held EXCEPT ![t] = @ \ {Obj(t)}]
    /\ Return(t)
    /\ UNCHANGED <<allocated, waiting, mutex, rec, tmp>>

\* Somebody is waiting: load pl->waiting for --pl->waiting.
UnlockHandOff(t) ==
    /\ pc[t] = "un_test"
    /\ waiting[rec[t]] # 1
    /\ tmp' = [tmp EXCEPT ![t] = waiting[rec[t]]]
    /\ Goto(t, "un_dec")
    /\ UNCHANGED <<slot, queue, allocated, waiting, owner, mutex,
                   poolMutex, prog, rec, held>>

UnlockDec(t) ==
    /\ pc[t] = "un_dec"
    /\ waiting' = [waiting EXCEPT ![rec[t]] = tmp[t] - 1]
    /\ poolMutex' = NoThread
    /\ Goto(t, "un_release")
    /\ UNCHANGED <<slot, queue, allocated, owner, mutex, prog, rec, tmp,
                   held>>

\* Mutant: the release forgets every object the thread holds, not only
\* the one it unlocks.
UnlockReleaseAll(t) ==
    /\ pc[t] = "un_release"
    /\ owner' = [owner EXCEPT ![rec[t]] = NoThread]
    /\ Leave(rec[t], t)
    /\ held' = [held EXCEPT ![t] = {}]
    /\ Return(t)
    /\ UNCHANGED <<slot, queue, allocated, waiting, poolMutex, rec, tmp>>

\* thread_id = 0, then PyMutex_Unlock wakes a waiter.
UnlockRelease(t) ==
    /\ pc[t] = "un_release"
    /\ owner' = [owner EXCEPT ![rec[t]] = NoThread]
    /\ Leave(rec[t], t)
    /\ held' = [held EXCEPT ![t] = @ \ {Obj(t)}]
    /\ Return(t)
    /\ UNCHANGED <<slot, queue, allocated, waiting, poolMutex, rec, tmp>>

(***************************************************************************)
(* PyPooledLock_LazyUnlock: no pool mutex; Py_SafeDecr(&pl->waiting)       *)
(***************************************************************************)
LazyRead(t) ==
    /\ pc[t] = "lz_read"
    /\ rec' = [rec EXCEPT ![t] = slot[Obj(t)]]
    /\ Goto(t, "lz_load")
    /\ UNCHANGED <<slot, queue, allocated, waiting, owner, mutex,
                   poolMutex, prog, tmp, held>>

\* The NT build's Py_SafeDecr is InterlockedDecrement, one atomic step.
LazyLoad(t) ==
    /\ pc[t] = "lz_load"
    /\ IF Reentrant
       THEN /\ waiting' = [waiting EXCEPT ![rec[t]] = @ - 1]
            /\ Goto(t, "lz_release")
            /\ UNCHANGED tmp
       ELSE /\ tmp' = [tmp EXCEPT ![t] = waiting[rec[t]]]
            /\ Goto(t, "lz_dec")
            /\ UNCHANGED waiting
    /\ UNCHANGED <<slot, queue, allocated, owner, mutex, poolMutex, prog, rec,
                   held>>

LazyDec(t) ==
    /\ pc[t] = "lz_dec"
    /\ waiting' = [waiting EXCEPT ![rec[t]] = tmp[t] - 1]
    /\ Goto(t, "lz_release")
    /\ UNCHANGED <<slot, queue, allocated, owner, mutex, poolMutex,
                   prog, rec, tmp, held>>

\* Mutant: LazyUnlock does not reset thread_id.
LazyReleaseKeepOwner(t) ==
    /\ pc[t] = "lz_release"
    /\ Leave(rec[t], t)
    /\ held' = [held EXCEPT ![t] = @ \ {Obj(t)}]
    /\ Return(t)
    /\ UNCHANGED <<slot, queue, allocated, waiting, owner, poolMutex, rec,
                   tmp>>

LazyRelease(t) ==
    /\ pc[t] = "lz_release"
    /\ owner' = [owner EXCEPT ![rec[t]] = NoThread]
    /\ Leave(rec[t], t)
    /\ held' = [held EXCEPT ![t] = @ \ {Obj(t)}]
    /\ Return(t)
    /\ UNCHANGED <<slot, queue, allocated, waiting, poolMutex, rec, tmp>>

(***************************************************************************)
(* PyPooledLock_LazyDone                                                   *)
(***************************************************************************)
LazyDonePool(t) == AcquirePool(t, "ld_pool", "ld_test")

\* Nobody re-took the lock since the lazy unlock: reclaim the record.
LazyDoneReclaim(t) ==
    /\ pc[t] = "ld_test"
    /\ slot[Obj(t)] # NoRecord
    /\ waiting[slot[Obj(t)]] = 0
    /\ waiting' = [waiting EXCEPT ![slot[Obj(t)]] = 1]
    /\ rec' = [rec EXCEPT ![t] = slot[Obj(t)]]
    /\ Goto(t, "ld_mutex")
    /\ UNCHANGED <<slot, queue, allocated, owner, mutex, poolMutex,
                   prog, tmp, held>>

\* Mutant: LazyDone returns without looking at the slot (an empty macro).
LazyDoneSkipAlways(t) ==
    /\ pc[t] = "ld_test"
    /\ poolMutex' = NoThread
    /\ Return(t)
    /\ UNCHANGED <<slot, queue, allocated, waiting, owner, mutex, rec,
                   tmp, held>>

LazyDoneSkip(t) ==
    /\ pc[t] = "ld_test"
    /\ IF slot[Obj(t)] = NoRecord THEN TRUE ELSE waiting[slot[Obj(t)]] # 0
    /\ poolMutex' = NoThread
    /\ Return(t)
    /\ UNCHANGED <<slot, queue, allocated, waiting, owner, mutex, rec,
                   tmp, held>>

\* PyMutex_Lock with the pool mutex held, then push and clear the slot.
LazyDoneLock(t) ==
    /\ pc[t] = "ld_mutex"
    /\ CanEnter(rec[t], t)
    /\ Enter(rec[t], t)
    /\ queue' = <<rec[t]>> \o queue
    /\ slot' = [slot EXCEPT ![Obj(t)] = NoRecord]
    /\ poolMutex' = NoThread
    /\ Return(t)
    /\ UNCHANGED <<allocated, waiting, owner, rec, tmp, held>>

-----------------------------------------------------------------------------
AllDone == \A t \in Threads : pc[t] = "idle" /\ prog[t] = <<>>

\* Every program has returned: the process idles.
Finished == AllDone /\ UNCHANGED vars

Step(t) ==
    \/ Call(t)
    \/ LockPool(t) \/ LockSlotSet(t) \/ LockInc(t) \/ LockDetect(t)
    \/ LockUndo(t) \/ LockNoDeadlock(t) \/ LockFromQueue(t)
    \/ LockAlloc(t) \/ LockNoMemory(t) \/ LockMutex(t) \/ LockStamp(t)
    \/ UnlockRead(t) \/ UnlockPool(t) \/ UnlockToQueue(t)
    \/ UnlockHandOff(t) \/ UnlockDec(t) \/ UnlockRelease(t)
    \/ LazyRead(t) \/ LazyLoad(t) \/ LazyDec(t) \/ LazyRelease(t)
    \/ LazyDonePool(t) \/ LazyDoneReclaim(t) \/ LazyDoneSkip(t)
    \/ LazyDoneLock(t)

Next == (\E t \in Threads : Step(t)) \/ Finished

\* Every runnable native thread is eventually scheduled.
Spec == Init /\ [][Next]_vars /\ \A t \in Threads : WF_vars(Step(t))

-----------------------------------------------------------------------------
TypeOK ==
    /\ slot \in [Objects -> Records \cup {NoRecord}]
    /\ queue \in Seq(Records)
    /\ allocated \subseteq Records
    /\ waiting \in [Records -> Int]
    /\ owner \in [Records -> Threads \cup {NoThread}]
    /\ mutex \in [Records -> [by : Threads \cup {NoThread}, depth : Nat]]
    /\ poolMutex \in Threads \cup {NoThread}
    /\ pc \in [Threads -> Labels]
    /\ prog \in [Threads -> Seq(Calls)]
    /\ rec \in [Threads -> Records \cup {NoRecord}]
    /\ tmp \in [Threads -> Int]
    /\ held \in [Threads -> SUBSET Objects]

(* Mutual exclusion: no two threads are inside the pooled lock of the same *)
(* object at once, and the holder's object still names a mutex record    *)
(* stamped with the holder's thread id (what list and mapping operations  *)
(* rely on when they touch ob_item or ma_table after Py_POOLED_LOCK        *)
(* returned 0, and what deadlock detection compares against).             *)
MutualExclusion ==
    \A o \in Objects :
        /\ \A t1, t2 \in Threads : o \in held[t1] /\ o \in held[t2] => t1 = t2
        /\ \A t \in Threads :
               o \in held[t] =>
                   slot[o] # NoRecord /\ Locked(slot[o]) /\ owner[slot[o]] = t

(* The free list: every record malloc returned is in exactly one place,    *)
(* on pooled_lock_queue once or in the slot of exactly one object, and a  *)
(* queued record is ready for reuse ("waiting==1, mutex mutex, deadlock  *)
(* thread==0", the ASSERT after the pop in PyPooledLock_Lock).            *)
PoolIntegrity ==
    /\ \A r \in allocated :
          LET inQueue == {i \in DOMAIN queue : queue[i] = r}
              inSlot  == {o \in Objects : slot[o] = r}
          IN  Cardinality(inQueue) + Cardinality(inSlot) = 1
    /\ \A i \in DOMAIN queue :
          LET r == queue[i]
          IN  r \in allocated /\ waiting[r] = 1 /\ Locked(r)
              /\ owner[r] = NoThread

(* Deadlock detection never lets a thread block on a record it already    *)
(* holds: a re-entrant Py_POOLED_LOCK reports "deadlock detected".        *)
NoSelfBlock ==
    \A t \in Threads :
        pc[t] = "lk_mutex" =>
            ~\E o \in held[t] : slot[o] = rec[t]

(* And it never reports a deadlock to a thread that does not hold the     *)
(* object: thread_id is cleared on every path that gives the mutex up.    *)
NoFalseDeadlock ==
    [][\A t \in Threads : LockDetect(t) => Obj(t) \in held[t]]_vars

(* Once every program has returned, every record is back on the free list *)
(* and no object keeps one: the pool returns to its starting state        *)
(* (spec section 8, property 10).                                         *)
PoolRestored ==
    AllDone =>
        /\ \A o \in Objects : slot[o] = NoRecord
        /\ Range(queue) = allocated

(* Refinement: the pooled lock implements a plain per-object lock, the    *)
(* holder of o being the thread whose Py_POOLED_LOCK(o) returned 0 and     *)
(* which has not yet called Unlock or LazyUnlock on o.                    *)
HolderOf(o) ==
    IF \E t \in Threads : o \in held[t]
    THEN CHOOSE t \in Threads : o \in held[t]
    ELSE NoThread

AbstractLock == INSTANCE ObjectLock
                    WITH holder <- [o \in Objects |-> HolderOf(o)]

ObjectLockSpec == AbstractLock!Spec

(* Every thread's program returns: no thread blocks forever on a pooled   *)
(* lock or on pooled_lock_mutex.                                          *)
Termination == <>AllDone
=============================================================================
