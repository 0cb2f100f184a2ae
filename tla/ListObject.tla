----------------------------- MODULE ListObject -----------------------------
(***************************************************************************)
(* The list object of Objects/listobject.c built WITH_FREE_THREAD, used   *)
(* by several threads at once.  Every thread runs a program: a sequence of *)
(* calls of the list's operations on the lists in Lists.                  *)
(*                                                                         *)
(* Granularity.  The per-object pooled lock (Py_LIST_LOCK, _UNLOCK,       *)
(* _LAZY_UNLOCK, _LAZY_DONE) is the abstract lock `holder` of ObjectLock, *)
(* which PooledLock is shown to implement; a lazy unlock releases it and  *)
(* LazyDone, which only recycles the lock record, is not visible here.    *)
(* A section run under the lock is one step, since every other access to *)
(* ob_size and ob_item also takes the lock; each read of ob_size made     *)
(* without the lock is a step of its own.  Items are small integers,      *)
(* compared with cmpobject's integer order; reference counts and the     *)
(* allocation granularity of NRESIZE are left out.  `int` is IntBits wide. *)
(***************************************************************************)
EXTENDS Integers, Sequences, SequencesExt

CONSTANTS
    Threads,        \* native threads
    Lists,          \* list objects
    Values,         \* item values (integers > 0)
    NULL,           \* the NULL object pointer
    NoThread,       \* the pooled lock is not held
    IntBits,        \* width of C int
    AllocFails,     \* threads whose malloc / realloc may return NULL
    Program         \* Program[t]: the calls thread t makes

Ops == {"append", "insert", "item", "ass_item", "setitem", "del", "assign", "sort", "sortcmp",
        "reverse", "slice", "concat", "repeat", "tuple", "index", "count",
        "remove", "compare", "repr", "print"}

\* A call: operation, list l, second list m, integer arguments i j, item v.
Calls == [op : Ops, l : Lists, m : Lists, i : Int, j : Int,
          v : Values \cup {NULL}]

ASSUME /\ NULL \notin Values
       /\ AllocFails \subseteq Threads
       /\ \A t \in Threads : Program[t] \in Seq(Calls)

VARIABLES
    items,      \* items[l]: ob_item[0 .. ob_size-1] of list l
    holder,     \* holder[l]: the thread holding l's pooled lock
    pc,         \* control point of each thread
    prog,       \* calls thread t has still to make; Head is the current one
    loc,        \* the C locals of the current call
    result,     \* what each thread's last call returned
    faults      \* threads that read or wrote outside an item array
                \* (past its end, or through a NULL pointer)

vars == <<items, holder, pc, prog, loc, result, faults>>

Labels == {"idle", "ap_read", "ins", "item", "ai_check", "ai_lock", "del",
           "asg_a", "asg_b", "sort", "rev", "sl_read", "sl_clamp",
           "sl_copy", "cc_read", "cc_a", "cc_b", "rp_read", "rp_copy",
           "tp_read", "tp_copy", "scan", "cm_read", "cm_v", "cm_w", "cm_end",
           "rd_test", "rd_lock", "sc_lock", "sc_test", "sc_qsort", "si_lock",
           "crashed"}

Entry == [append |-> "ap_read", insert |-> "ins", item |-> "item",
          ass_item |-> "ai_check", setitem |-> "si_lock", del |-> "del", assign |-> "asg_a",
          sort |-> "sort", sortcmp |-> "sc_lock", reverse |-> "rev", slice |-> "sl_read",
          concat |-> "cc_read", repeat |-> "rp_read", tuple |-> "tp_read",
          index |-> "scan", count |-> "scan", remove |-> "scan",
          compare |-> "cm_read", repr |-> "rd_test", print |-> "rd_test"]

Locals == [where : Int, lo : Int, hi : Int, size : Int, size2 : Int,
           cap : Int, n : Int, idx : Int, cnt : Int, o1 : Int,
           out : Seq(Values)]

\* The value of a C int expression: two's complement wrap-around.
Wrap(x) == LET h == 2^(IntBits - 1)
           IN  ((x + h) % (2 * h)) - h

\* o = ob_item[i] of a list whose items are s: at or past ob_size the read
\* is outside the array.
ReadItem(t, s, i) == faults' = IF i >= Len(s) THEN faults \cup {t} ELSE faults

Ret(k, s) == [kind |-> k, seq |-> s]
Ok == Ret("ok", <<>>)

\* list_slice and list_ass_slice clamp ilow and ihigh into [0, size].
ClampLo(lo, n) == IF lo < 0 THEN 0 ELSE IF lo > n THEN n ELSE lo
ClampHi(hi, lo, n) == IF hi < lo THEN lo ELSE IF hi > n THEN n ELSE hi
Seg(s, lo, hi) == SubSeq(s, lo + 1, hi)

Init ==
    /\ items = [l \in Lists |-> <<>>]
    /\ holder = [l \in Lists |-> NoThread]
    /\ pc = [t \in Threads |-> "idle"]
    /\ prog = Program
    /\ loc = [t \in Threads |-> [where |-> 0, lo |-> 0, hi |-> 0, size |-> 0,
                  size2 |-> 0, cap |-> 0, n |-> 0, idx |-> 0, cnt |-> 0,
                  o1 |-> 0, out |-> <<>>]]
    /\ result = [t \in Threads |-> Ok]
    /\ faults = {}

Arg(t) == Head(prog[t])
L(t) == Arg(t).l
M(t) == Arg(t).m
Free(l) == holder[l] = NoThread
Goto(t, lbl) == pc' = [pc EXCEPT ![t] = lbl]
SetLoc(t, r) == loc' = [loc EXCEPT ![t] = r]

\* The call returns r: its thread goes back to its program.
Return(t, r) ==
    /\ result' = [result EXCEPT ![t] = r]
    /\ pc' = [pc EXCEPT ![t] = "idle"]
    /\ prog' = [prog EXCEPT ![t] = Tail(@)]

Call(t) ==
    /\ pc[t] = "idle"
    /\ prog[t] # <<>>
    /\ Goto(t, Entry[Arg(t).op])
    /\ SetLoc(t, [loc[t] EXCEPT !.lo = Arg(t).i, !.hi = Arg(t).j,
                                !.idx = 0, !.cnt = 0, !.out = <<>>])
    /\ UNCHANGED <<items, holder, prog, result, faults>>

(***************************************************************************)
(* listappend / listinsert -> ins1                                         *)
(***************************************************************************)

\* listappend: ins(self, (int) self->ob_size, v) reads ob_size unlocked.
AppendRead(t) ==
    /\ pc[t] = "ap_read"
    /\ SetLoc(t, [loc[t] EXCEPT !.where = Len(items[L(t)])])
    /\ Goto(t, "ins")
    /\ UNCHANGED <<items, holder, prog, result, faults>>

\* ins1 under Py_LIST_LOCK: NRESIZE to ob_size+1 (may fail), clamp where,
\* shift the suffix up, store v, ob_size++.
InsLocked(t) ==
    LET s == items[L(t)]
        w0 == IF Arg(t).op = "append" THEN loc[t].where ELSE Arg(t).i
        w == ClampLo(w0, Len(s))
    IN
    /\ pc[t] = "ins"
    /\ Free(L(t))
    /\ \/ /\ t \in AllocFails
          /\ Return(t, Ret("MemoryError", <<>>))
          /\ UNCHANGED items
       \/ /\ items' = [items EXCEPT ![L(t)] = InsertAt(s, w + 1, Arg(t).v)]
          /\ Return(t, Ok)
    /\ UNCHANGED <<holder, loc, faults>>

(***************************************************************************)
(* list_item, list_ass_item, list_ass_slice                               *)
(***************************************************************************)
ItemLocked(t) ==
    LET s == items[L(t)]
        i == Arg(t).i
    IN
    /\ pc[t] = "item"
    /\ Free(L(t))
    /\ Return(t, IF i < 0 \/ i >= Len(s) THEN Ret("IndexError", <<>>)
                 ELSE Ret("item", <<s[i + 1]>>))
    /\ UNCHANGED <<items, holder, loc, faults>>

\* list_ass_item: bounds test without the lock; a delete (v == NULL) goes
\* on as list_ass_slice(a, i, i+1, NULL).
AssItemCheck(t) ==
    LET i == Arg(t).i
    IN
    /\ pc[t] = "ai_check"
    /\ \/ /\ i < 0 \/ i >= Len(items[L(t)])
          /\ Return(t, Ret("IndexError", <<>>))
          /\ UNCHANGED loc
       \/ /\ 0 <= i /\ i < Len(items[L(t)])
          /\ Goto(t, IF Arg(t).v = NULL THEN "del" ELSE "ai_lock")
          /\ SetLoc(t, [loc[t] EXCEPT !.lo = i, !.hi = i + 1])
          /\ UNCHANGED <<prog, result>>
    /\ UNCHANGED <<items, holder, faults>>

\* Under the lock: re-test i >= ob_size, then store v.
AssItemLocked(t) ==
    LET s == items[L(t)]
        i == Arg(t).i
    IN
    /\ pc[t] = "ai_lock"
    /\ Free(L(t))
    /\ \/ /\ i >= Len(s)
          /\ Return(t, Ret("IndexError", <<>>))
          /\ UNCHANGED items
       \/ /\ i < Len(s)
          /\ items' = [items EXCEPT ![L(t)][i + 1] = Arg(t).v]
          /\ Return(t, Ok)
    /\ UNCHANGED <<holder, loc, faults>>

\* setlistitem, the C API's store: Py_LIST_LOCK_TEST, then i < 0 or
\* i >= ob_size tested only under the lock (IndexError), else the item is
\* replaced; the old item is released after the unlock.
SetItemLocked(t) ==
    LET s == items[L(t)]
        i == Arg(t).i
    IN
    /\ pc[t] = "si_lock"
    /\ Free(L(t))
    /\ \/ /\ i < 0 \/ i >= Len(s)
          /\ Return(t, Ret("IndexError", <<>>))
          /\ UNCHANGED items
       \/ /\ 0 <= i /\ i < Len(s)
          /\ items' = [items EXCEPT ![L(t)][i + 1] = Arg(t).v]
          /\ Return(t, Ok)
    /\ UNCHANGED <<holder, loc, faults>>

\* p = recycle = NEW(object *, ihigh-ilow) when ihigh > ilow, unchecked:
\* when it fails the first *p++ = item[k] stores through NULL and the
\* thread goes no further.
RecycleFails(t, lo, hi) ==
    /\ hi > lo /\ t \in AllocFails
    /\ faults' = faults \cup {t}
    /\ Goto(t, "crashed")
    /\ UNCHANGED <<items, prog, result>>

\* list_ass_slice(a, lo, hi, NULL) under the lock: clamp ilow and ihigh to
\* the current ob_size, allocate recycle, move the tail down, shrink (the
\* NRESIZE cannot fail).
DelLocked(t) ==
    LET s == items[L(t)]
        lo == ClampLo(loc[t].lo, Len(s))
        hi == ClampHi(loc[t].hi, lo, Len(s))
    IN
    /\ pc[t] = "del"
    /\ Free(L(t))
    /\ \/ RecycleFails(t, lo, hi)
       \/ /\ items' = [items EXCEPT ![L(t)] = Seg(s, 0, lo) \o Seg(s, hi, Len(s))]
          /\ Return(t, Ok)
          /\ UNCHANGED faults
    /\ UNCHANGED <<holder, loc>>

\* list_ass_slice(a, lo, hi, b) with b another list: lock a, then lock b.
AssignLockA(t) ==
    /\ pc[t] = "asg_a"
    /\ Free(L(t))
    /\ holder' = [holder EXCEPT ![L(t)] = t]
    /\ Goto(t, "asg_b")
    /\ UNCHANGED <<items, prog, loc, result, faults>>

\* Mutant: the error-free path unlocks b but leaves a locked.
AssignLockBKeepA(t) ==
    LET s == items[L(t)]
        r == items[M(t)]
        lo == ClampLo(loc[t].lo, Len(s))
        hi == ClampHi(loc[t].hi, lo, Len(s))
    IN
    /\ pc[t] = "asg_b"
    /\ Free(M(t))
    /\ \/ /\ Len(r) > hi - lo /\ t \in AllocFails
          /\ holder' = [holder EXCEPT ![L(t)] = NoThread]
          /\ Return(t, Ret("MemoryError", <<>>))
          /\ UNCHANGED items
       \/ /\ items' = [items EXCEPT ![L(t)] =
                          Seg(s, 0, lo) \o r \o Seg(s, hi, Len(s))]
          /\ Return(t, Ok)
          /\ UNCHANGED holder
    /\ UNCHANGED <<loc, faults>>


\* With both locks: n = b->ob_size, clamp, allocate recycle (unchecked),
\* NRESIZE when growing (may fail, both locks released, recycle freed),
\* move the tail, save the replaced items through recycle, copy b's items
\* in, unlock a and b.
AssignLockB(t) ==
    LET s == items[L(t)]
        r == items[M(t)]
        lo == ClampLo(loc[t].lo, Len(s))
        hi == ClampHi(loc[t].hi, lo, Len(s))
    IN
    /\ pc[t] = "asg_b"
    /\ Free(M(t))
    /\ holder' = [holder EXCEPT ![L(t)] = NoThread]
    /\ \/ RecycleFails(t, lo, hi)
       \/ /\ Len(r) > hi - lo /\ t \in AllocFails
          /\ Return(t, Ret("MemoryError", <<>>))
          /\ UNCHANGED <<items, faults>>
       \/ /\ items' = [items EXCEPT ![L(t)] =
                          Seg(s, 0, lo) \o r \o Seg(s, hi, Len(s))]
          /\ Return(t, Ok)
          /\ UNCHANGED faults
    /\ UNCHANGED loc

(***************************************************************************)
(* listsort (default comparison, or a comparison function) and listreverse*)
(***************************************************************************)
SortLocked(t) ==
    /\ pc[t] = "sort"
    /\ Free(L(t))
    /\ items' = [items EXCEPT ![L(t)] =
                    IF Len(@) <= 1 THEN @ ELSE SortSeq(@, <)]
    /\ Return(t, Ok)
    /\ UNCHANGED <<holder, loc, faults>>

(* listsort with a comparison function (args != NULL): the function is    *)
(* Python code, called with the list locked, and it may raise; calling    *)
(* the same list's methods from it is one way, since their Py_LIST_LOCK   *)
(* fails deadlock detection.  The call's i gives the order the function   *)
(* defines: ascending when i >= 0, else descending.                       *)
CmpLess(t, a, b) == IF Arg(t).i >= 0 THEN a < b ELSE a > b

\* The orders of s an interrupted in-place qsort can leave behind.
Shuffles(s) == {[k \in DOMAIN s |-> s[f[k]]] : f \in Bijection(DOMAIN s, DOMAIN s)}

\* Py_LIST_LOCK_TEST(self); a list of at most one item is unlocked and
\* None returned; else install the comparison function in the thread state.
SortCmpLock(t) ==
    /\ pc[t] = "sc_lock"
    /\ Free(L(t))
    /\ IF Len(items[L(t)]) <= 1
       THEN Return(t, Ok) /\ UNCHANGED holder
       ELSE holder' = [holder EXCEPT ![L(t)] = t] /\ Goto(t, "sc_test")
                                                 /\ UNCHANGED <<prog, result>>
    /\ UNCHANGED <<items, loc, faults>>

\* Mutant: the error return after the test call leaves the list locked.
SortCmpTestKeepLock(t) ==
    /\ pc[t] = "sc_test"
    /\ \/ Return(t, Ret("CmpError", <<>>)) /\ UNCHANGED holder
       \/ Goto(t, "sc_qsort") /\ UNCHANGED <<holder, prog, result>>
    /\ UNCHANGED <<items, loc, faults>>

\* cmp(ob_item[0], ob_item[1]) tests the function; if it raised, unlock,
\* restore the thread's comparison function and return NULL.
SortCmpTest(t) ==
    /\ pc[t] = "sc_test"
    /\ \/ /\ holder' = [holder EXCEPT ![L(t)] = NoThread]
          /\ Return(t, Ret("CmpError", <<>>))
       \/ Goto(t, "sc_qsort") /\ UNCHANGED <<holder, prog, result>>
    /\ UNCHANGED <<items, loc, faults>>

\* qsort with cmp: sorted by the function's order, or, once it has raised
\* (cmp then returns 0 without calling it), left in some order; unlock and
\* return None, or NULL if an error is set.
SortCmpQsort(t) ==
    /\ pc[t] = "sc_qsort"
    /\ \/ /\ items' = [items EXCEPT ![L(t)] = SortSeq(@, LAMBDA a, b : CmpLess(t, a, b))]
          /\ Return(t, Ok)
       \/ /\ \E p \in Shuffles(items[L(t)]) : items' = [items EXCEPT ![L(t)] = p]
          /\ Return(t, Ret("CmpError", <<>>))
    /\ holder' = [holder EXCEPT ![L(t)] = NoThread]
    /\ UNCHANGED <<loc, faults>>

ReverseLocked(t) ==
    /\ pc[t] = "rev"
    /\ Free(L(t))
    /\ items' = [items EXCEPT ![L(t)] = Reverse(@)]
    /\ Return(t, Ok)
    /\ UNCHANGED <<holder, loc, faults>>

(***************************************************************************)
(* list_slice: two lock cycles                                            *)
(***************************************************************************)

\* int size = a->ob_size, read before the lock is taken.
SliceRead(t) ==
    /\ pc[t] = "sl_read"
    /\ SetLoc(t, [loc[t] EXCEPT !.size = Len(items[L(t)])])
    /\ Goto(t, "sl_clamp")
    /\ UNCHANGED <<items, holder, prog, result, faults>>

\* Under the lock, clamp ilow and ihigh against the local size; lazy
\* unlock; newlistobject(ihigh - ilow), which may fail.
SliceClamp(t) ==
    LET lo == ClampLo(loc[t].lo, loc[t].size)
        hi == ClampHi(loc[t].hi, lo, loc[t].size)
    IN
    /\ pc[t] = "sl_clamp"
    /\ Free(L(t))
    /\ \/ /\ t \in AllocFails
          /\ Return(t, Ret("MemoryError", <<>>))
          /\ UNCHANGED loc
       \/ /\ SetLoc(t, [loc[t] EXCEPT !.lo = lo, !.hi = hi])
          /\ Goto(t, "sl_copy")
          /\ UNCHANGED <<prog, result>>
    /\ UNCHANGED <<items, holder, faults>>

\* Mutant: the bounds are not re-clamped after relocking (the read past
\* the end is a fault; what it returns is left as the live part).
SliceCopyNoReclamp(t) ==
    LET s == items[L(t)]
        hi == IF loc[t].hi > Len(s) THEN Len(s) ELSE loc[t].hi
    IN
    /\ pc[t] = "sl_copy"
    /\ Free(L(t))
    /\ faults' = IF loc[t].hi > Len(s) THEN faults \cup {t} ELSE faults
    /\ Return(t, Ret("list", Seg(s, loc[t].lo, hi)))
    /\ UNCHANGED <<items, holder, loc>>


\* Relock; "see if self changed while it was unlocked": if ob_size < size
\* re-clamp both bounds to ob_size; copy ob_item[ilow .. ihigh-1].
SliceCopy(t) ==
    LET s == items[L(t)]
        shrunk == Len(s) < loc[t].size
        lo == IF shrunk /\ loc[t].lo > Len(s) THEN Len(s) ELSE loc[t].lo
        hi == IF shrunk /\ loc[t].hi > Len(s) THEN Len(s) ELSE loc[t].hi
    IN
    /\ pc[t] = "sl_copy"
    /\ Free(L(t))
    /\ faults' = IF hi > Len(s) THEN faults \cup {t} ELSE faults
    /\ Return(t, Ret("list", Seg(s, lo, hi)))
    /\ UNCHANGED <<items, holder, loc>>

(***************************************************************************)
(* list_concat, list_repeat, listtuple: sizes read unlocked, then copied   *)
(***************************************************************************)

\* asize = a->ob_size; bsize = b->ob_size; newlistobject(asize + bsize).
ConcatRead(t) ==
    /\ pc[t] = "cc_read"
    /\ \/ /\ t \in AllocFails
          /\ Return(t, Ret("MemoryError", <<>>))
          /\ UNCHANGED loc
       \/ /\ SetLoc(t, [loc[t] EXCEPT !.size = Len(items[L(t)]),
                                      !.size2 = Len(items[M(t)])])
          /\ Goto(t, "cc_a")
          /\ UNCHANGED <<prog, result>>
    /\ UNCHANGED <<items, holder, faults>>

ConcatLockA(t) ==
    /\ pc[t] = "cc_a"
    /\ Free(L(t))
    /\ holder' = [holder EXCEPT ![L(t)] = t]
    /\ Goto(t, "cc_b")
    /\ UNCHANGED <<items, prog, loc, result, faults>>

\* Mutant: the deadlock error path returns without unlocking a.
ConcatDeadlockKeepLock(t) ==
    /\ pc[t] = "cc_b"
    /\ holder[M(t)] = t
    /\ Return(t, Ret("SystemError", <<>>))
    /\ UNCHANGED <<items, holder, loc, faults>>


\* Py_LIST_LOCK(b) when this thread already holds b (b is a): deadlock
\* detection fails the lock; a is unlocked and NULL returned.
ConcatDeadlock(t) ==
    /\ pc[t] = "cc_b"
    /\ holder[M(t)] = t
    /\ holder' = [holder EXCEPT ![L(t)] = NoThread]
    /\ Return(t, Ret("SystemError", <<>>))
    /\ UNCHANGED <<items, loc, faults>>

\* With both locks: shrink asize and bsize to ob_size if smaller, copy
\* a's first asize items then b's first bsize items, unlock a and b.
ConcatLocked(t) ==
    LET a == items[L(t)]
        b == items[M(t)]
        asz == IF Len(a) < loc[t].size THEN Len(a) ELSE loc[t].size
        bsz == IF Len(b) < loc[t].size2 THEN Len(b) ELSE loc[t].size2
    IN
    /\ pc[t] = "cc_b"
    /\ Free(M(t))
    /\ holder' = [holder EXCEPT ![L(t)] = NoThread]
    /\ faults' = IF asz > Len(a) \/ bsz > Len(b) THEN faults \cup {t}
                 ELSE faults
    /\ Return(t, Ret("list", Seg(a, 0, asz) \o Seg(b, 0, bsz)))
    /\ UNCHANGED <<items, loc>>

\* n < 0 becomes 0; size = a->ob_size; newlistobject(size * n) with the
\* product computed in int: negative is a bad call, else the allocation
\* holds that many items (or fails).
RepeatRead(t) ==
    LET n == IF Arg(t).i < 0 THEN 0 ELSE Arg(t).i
        size == Len(items[L(t)])
        cap == Wrap(size * n)
    IN
    /\ pc[t] = "rp_read"
    /\ \/ /\ cap < 0
          /\ Return(t, Ret("BadCall", <<>>))
          /\ UNCHANGED loc
       \/ /\ cap >= 0 /\ t \in AllocFails
          /\ Return(t, Ret("MemoryError", <<>>))
          /\ UNCHANGED loc
       \/ /\ cap >= 0
          /\ SetLoc(t, [loc[t] EXCEPT !.n = n, !.size = size, !.cap = cap])
          /\ Goto(t, "rp_copy")
          /\ UNCHANGED <<prog, result>>
    /\ UNCHANGED <<items, holder, faults>>

\* Under the lock: shrink size to ob_size if smaller, then the loops store
\* n * size item pointers into the new list's array of cap slots.
RepeatCopy(t) ==
    LET s == items[L(t)]
        size == IF Len(s) < loc[t].size THEN Len(s) ELSE loc[t].size
    IN
    /\ pc[t] = "rp_copy"
    /\ Free(L(t))
    /\ faults' = IF loc[t].n * size > loc[t].cap \/ size > Len(s)
                 THEN faults \cup {t} ELSE faults
    /\ Return(t, Ret("list",
                     FlattenSeq([k \in 1..loc[t].n |-> Seg(s, 0, size)])))
    /\ UNCHANGED <<items, holder, loc>>

\* n = ob_size; newtupleobject(n), which may fail.
TupleRead(t) ==
    /\ pc[t] = "tp_read"
    /\ \/ /\ t \in AllocFails
          /\ Return(t, Ret("MemoryError", <<>>))
          /\ UNCHANGED loc
       \/ /\ SetLoc(t, [loc[t] EXCEPT !.size = Len(items[L(t)])])
          /\ Goto(t, "tp_copy")
          /\ UNCHANGED <<prog, result>>
    /\ UNCHANGED <<items, holder, faults>>

\* Under the lock: n shrinks to ob_size if smaller; memcpy n items.
TupleCopy(t) ==
    LET s == items[L(t)]
        n == IF Len(s) < loc[t].size THEN Len(s) ELSE loc[t].size
    IN
    /\ pc[t] = "tp_copy"
    /\ Free(L(t))
    /\ faults' = IF n > Len(s) THEN faults \cup {t} ELSE faults
    /\ Return(t, Ret("list", Seg(s, 0, n)))
    /\ UNCHANGED <<items, holder, loc>>

(***************************************************************************)
(* listindex, listcount, listremove: one lock cycle per item              *)
(***************************************************************************)

\* Lock; i >= ob_size: unlock and end the scan ("x not in list", or the
\* count).
ScanEnd(t) ==
    /\ pc[t] = "scan"
    /\ Free(L(t))
    /\ loc[t].idx >= Len(items[L(t)])
    /\ Return(t, IF Arg(t).op = "count" THEN Ret("int", <<loc[t].cnt>>)
                 ELSE Ret("ValueError", <<>>))
    /\ UNCHANGED <<items, holder, loc, faults>>

\* Mutant: remove passes i+1 to list_ass_slice.
ScanHitNextIndex(t) ==
    LET i == loc[t].idx
    IN
    /\ pc[t] = "scan"
    /\ Free(L(t))
    /\ i < Len(items[L(t)])
    /\ items[L(t)][i + 1] = Arg(t).v
    /\ CASE Arg(t).op = "index" ->
              Return(t, Ret("int", <<i>>)) /\ UNCHANGED loc
         [] Arg(t).op = "remove" ->
              /\ SetLoc(t, [loc[t] EXCEPT !.lo = i + 1, !.hi = i + 2])
              /\ Goto(t, "del")
              /\ UNCHANGED <<prog, result>>
         [] Arg(t).op = "count" ->
              /\ SetLoc(t, [loc[t] EXCEPT !.idx = i + 1, !.cnt = @ + 1])
              /\ UNCHANGED <<pc, prog, result>>
    /\ UNCHANGED <<items, holder, faults>>


\* Mutant: the scan loop does not advance i after a mismatch.
ScanMissNoAdvance(t) ==
    /\ pc[t] = "scan"
    /\ Free(L(t))
    /\ loc[t].idx < Len(items[L(t)])
    /\ items[L(t)][loc[t].idx + 1] # Arg(t).v
    /\ UNCHANGED <<items, holder, pc, prog, loc, result, faults>>


\* o = ob_item[i]; lazy unlock; cmpobject(o, args) == 0.  index returns i;
\* remove calls list_ass_slice(self, i, i+1, NULL); count counts on.
ScanHit(t) ==
    LET i == loc[t].idx
    IN
    /\ pc[t] = "scan"
    /\ Free(L(t))
    /\ i < Len(items[L(t)])
    /\ items[L(t)][i + 1] = Arg(t).v
    /\ CASE Arg(t).op = "index" ->
              Return(t, Ret("int", <<i>>)) /\ UNCHANGED loc
         [] Arg(t).op = "remove" ->
              /\ SetLoc(t, [loc[t] EXCEPT !.lo = i, !.hi = i + 1])
              /\ Goto(t, "del")
              /\ UNCHANGED <<prog, result>>
         [] Arg(t).op = "count" ->
              /\ SetLoc(t, [loc[t] EXCEPT !.idx = i + 1, !.cnt = @ + 1])
              /\ UNCHANGED <<pc, prog, result>>
    /\ UNCHANGED <<items, holder, faults>>

ScanMiss(t) ==
    /\ pc[t] = "scan"
    /\ Free(L(t))
    /\ loc[t].idx < Len(items[L(t)])
    /\ items[L(t)][loc[t].idx + 1] # Arg(t).v
    /\ SetLoc(t, [loc[t] EXCEPT !.idx = @ + 1])
    /\ UNCHANGED <<items, holder, pc, prog, result, faults>>

(***************************************************************************)
(* list_compare: one lock cycle of v and one of w per pair of items       *)
(***************************************************************************)

\* int len = min(v->ob_size, w->ob_size), read without a lock; i = 0.
CmpRead(t) ==
    LET n == Min({Len(items[L(t)]), Len(items[M(t)])})
    IN
    /\ pc[t] = "cm_read"
    /\ SetLoc(t, [loc[t] EXCEPT !.n = n])
    /\ Goto(t, IF n > 0 THEN "cm_v" ELSE "cm_end")
    /\ UNCHANGED <<items, holder, prog, result, faults>>

\* Lock v; i >= ob_size: unlock and leave the loop; else o1 = ob_item[i]
\* and lazy unlock.
CmpLockV(t) ==
    LET s == items[L(t)]
        i == loc[t].idx
    IN
    /\ pc[t] = "cm_v"
    /\ Free(L(t))
    /\ \/ i >= Len(s) /\ Goto(t, "cm_end") /\ UNCHANGED <<loc, faults>>
       \/ /\ i < Len(s) /\ Goto(t, "cm_w")
          /\ SetLoc(t, [loc[t] EXCEPT !.o1 = s[i + 1]])
          /\ ReadItem(t, s, i)
    /\ UNCHANGED <<items, holder, prog, result>>

\* Lock w; i >= ob_size: unlock and leave the loop; else o2 = ob_item[i],
\* lazy unlock, and cmpobject(o1, o2): a difference is returned (after the
\* lazy done of both), equality goes on with i + 1 while i < len.
CmpLockW(t) ==
    LET s == items[M(t)]
        i == loc[t].idx
        o1 == loc[t].o1
    IN
    /\ pc[t] = "cm_w"
    /\ Free(M(t))
    /\ \/ /\ i >= Len(s)
          /\ Goto(t, "cm_end")
          /\ UNCHANGED <<loc, prog, result, faults>>
       \/ /\ i < Len(s) /\ o1 # s[i + 1]
          /\ Return(t, Ret("int", <<IF o1 < s[i + 1] THEN -1 ELSE 1>>))
          /\ ReadItem(t, s, i)
          /\ UNCHANGED loc
       \/ /\ i < Len(s) /\ o1 = s[i + 1]
          /\ SetLoc(t, [loc[t] EXCEPT !.idx = i + 1])
          /\ Goto(t, IF i + 1 < loc[t].n THEN "cm_v" ELSE "cm_end")
          /\ ReadItem(t, s, i)
          /\ UNCHANGED <<prog, result>>
    /\ UNCHANGED <<items, holder>>

\* Lazy done of v and w; return v->ob_size - w->ob_size, read unlocked.
CmpEnd(t) ==
    /\ pc[t] = "cm_end"
    /\ Return(t, Ret("int", <<Len(items[L(t)]) - Len(items[M(t)])>>))
    /\ UNCHANGED <<items, holder, loc, faults>>

(***************************************************************************)
(* list_repr and list_print: one lock cycle per item rendered             *)
(***************************************************************************)

\* The loop test i < ob_size, read without the lock.  When it fails both
\* lazy done and return what they rendered.
RenderTest(t) ==
    /\ pc[t] = "rd_test"
    /\ \/ /\ loc[t].idx < Len(items[L(t)])
          /\ Goto(t, "rd_lock")
          /\ UNCHANGED <<prog, result>>
       \/ /\ loc[t].idx >= Len(items[L(t)])
          /\ Return(t, Ret("list", loc[t].out))
    /\ UNCHANGED <<items, holder, loc, faults>>

\* Lock and re-test i < ob_size.  An item is taken with a new reference,
\* the lock lazily released and the item rendered, which may fail: print
\* returns -1 after the lazy done; repr's string becomes NULL, which ends
\* its loop and returns NULL.  Past the end list_print unlocks and breaks
\* out of the loop, while list_repr unlocks and goes on testing i + 1.
RenderLocked(t) ==
    LET s == items[L(t)]
        i == loc[t].idx
    IN
    /\ pc[t] = "rd_lock"
    /\ Free(L(t))
    /\ \/ /\ i < Len(s) /\ t \in AllocFails
          /\ Return(t, Ret(IF Arg(t).op = "repr" THEN "MemoryError"
                                                 ELSE "IOError", <<>>))
          /\ ReadItem(t, s, i)
          /\ UNCHANGED loc
       \/ /\ i < Len(s)
          /\ SetLoc(t, [loc[t] EXCEPT !.out = Append(@, s[i + 1]),
                                      !.idx = i + 1])
          /\ Goto(t, "rd_test")
          /\ ReadItem(t, s, i)
          /\ UNCHANGED <<prog, result>>
       \/ /\ i >= Len(s) /\ Arg(t).op = "print"
          /\ Return(t, Ret("list", loc[t].out))
          /\ UNCHANGED <<loc, faults>>
       \/ /\ i >= Len(s) /\ Arg(t).op = "repr"
          /\ SetLoc(t, [loc[t] EXCEPT !.idx = i + 1])
          /\ Goto(t, "rd_test")
          /\ UNCHANGED <<prog, result, faults>>
    /\ UNCHANGED <<items, holder>>

-----------------------------------------------------------------------------
AllDone == \A t \in Threads : pc[t] = "idle" /\ prog[t] = <<>>

\* Every program has returned: the process idles.
Finished == AllDone /\ UNCHANGED vars

Step(t) ==
    \/ Call(t) \/ AppendRead(t) \/ InsLocked(t) \/ ItemLocked(t)
    \/ AssItemCheck(t) \/ AssItemLocked(t) \/ SetItemLocked(t) \/ DelLocked(t)
    \/ AssignLockA(t) \/ AssignLockB(t) \/ SortLocked(t) \/ ReverseLocked(t)
    \/ SortCmpLock(t) \/ SortCmpTest(t) \/ SortCmpQsort(t)
    \/ SliceRead(t) \/ SliceClamp(t) \/ SliceCopy(t)
    \/ ConcatRead(t) \/ ConcatLockA(t) \/ ConcatDeadlock(t)
    \/ ConcatLocked(t) \/ RepeatRead(t) \/ RepeatCopy(t)
    \/ TupleRead(t) \/ TupleCopy(t) \/ ScanEnd(t) \/ ScanHit(t)
    \/ ScanMiss(t) \/ CmpRead(t) \/ CmpLockV(t) \/ CmpLockW(t) \/ CmpEnd(t)
    \/ RenderTest(t) \/ RenderLocked(t)

Next == (\E t \in Threads : Step(t)) \/ Finished

\* Every runnable native thread is eventually scheduled.
Spec == Init /\ [][Next]_vars /\ \A t \in Threads : WF_vars(Step(t))

-----------------------------------------------------------------------------
TypeOK ==
    /\ items \in [Lists -> Seq(Values)]
    /\ holder \in [Lists -> Threads \cup {NoThread}]
    /\ pc \in [Threads -> Labels]
    /\ prog \in [Threads -> Seq(Calls)]
    /\ loc \in [Threads -> Locals]
    /\ \A t \in Threads : result[t].kind \in
           {"ok", "item", "list", "int", "IndexError", "ValueError",
            "MemoryError", "SystemError", "BadCall", "IOError", "CmpError"}
    /\ faults \subseteq Threads
    /\ \A l \in Lists : holder[l] # NoThread =>
           pc[holder[l]] \in {"asg_b", "cc_b", "sc_test", "sc_qsort"}

(* Memory safety of the copies: list_slice, list_concat, list_repeat and  *)
(* listtuple never read past the live end of a list that shrank while it  *)
(* was unlocked, and never store more item pointers than the list they    *)
(* allocated holds (the re-clamp after relocking, and the size * n        *)
(* product of list_repeat).                                               *)
MemorySafe == faults = {}

(* Refinement: each call takes effect at one step, in the thread's order, *)
(* as the atomic list of AbstractList does (spec sections 4.4 and 5).     *)
AtomicList == INSTANCE AbstractList
                  WITH contents <- items, result <- result, pending <- prog

ListSpec == AtomicList!Spec

(* Every thread's program returns: no scan runs forever and no thread     *)
(* waits forever for a list lock.                                         *)
Termination == <>AllDone
=============================================================================
