--------------------------- MODULE MappingObject ---------------------------
(***************************************************************************)
(* The dictionaries of Objects/mappingobject.c in the free-threading       *)
(* build: each one's open-addressing table (ma_table, ma_size, ma_fill,    *)
(* ma_used) and the entry points that threads call on them.  The pooled   *)
(* lock of a dictionary is taken as the atomic lock of ObjectLock, which   *)
(* PooledLock refines, and a lazy unlock as a release; a locked section    *)
(* runs as one step, since every writer of the table holds the lock, while *)
(* the checks the code makes without the lock are steps of their own.     *)
(*                                                                         *)
(* Keys and values are model values; hashobject is the constant Hash and  *)
(* cmpobject the order Rank (keys whose __cmp__ re-enters the dictionary   *)
(* are not modelled).  cmpobject and hashobject live in the interpreter's  *)
(* object.c, outside this code: cmpobject orders NULL below every object   *)
(* and hashobject dereferences its argument.                               *)
(***************************************************************************)
EXTENDS Integers, Sequences, FiniteSets, SequencesExt

CONSTANTS
    Threads,
    Dicts,          \* the mapping objects
    Keys, Values,
    Hash,           \* Hash[k]: hashobject(k), small and non-negative
    Rank,           \* cmpobject's order of keys and values; the address
                    \* order of dictionaries
    None,           \* the NULL pointer (no key, no value)
    Dummy,          \* the dummy key of deleted entries
    NoThread,
    Ok, Err,        \* the 0 and -1 returns (KeyError, out of memory)
    Primes,         \* a prefix of primes[] in mappingobject.c
    AllocFails,     \* the threads whose malloc, calloc, newlistobject,
                    \* newtupleobject or printobject may fail
    Program         \* Program[t]: the calls thread t makes

Ops == [op : {"lookup", "has_key", "remove", "dictlookup", "dictremove"},
        d : Dicts, key : Keys]
       \cup [op : {"insert", "dictinsert"}, d : Dicts, key : Keys, val : Values]
       \cup [op : {"clear", "keys", "values", "items", "length", "repr",
                   "print"}, d : Dicts]
       \cup [op : {"compare"}, d : Dicts, e : Dicts]

ASSUME /\ Hash \in [Keys -> Nat]
       /\ Keys \cup Values \cup Dicts \subseteq DOMAIN Rank
       /\ AllocFails \subseteq Threads
       /\ \A t \in Threads : Program[t] \in Seq(Ops)

VARIABLES
    size,       \* size[d]: ma_size (0 while ma_table is NULL)
    table,      \* table[d]: ma_table[0 .. ma_size-1]
    fill,       \* fill[d]: ma_fill, entries whose key is not NULL
    used,       \* used[d]: ma_used, entries in use
    holder,     \* holder[d]: the thread holding d's lock
    pc, prog,
    loc,        \* the C locals of each thread's current call
    result      \* what the current or last call returned

vars == <<size, table, fill, used, holder, pc, prog, loc, result>>
tables == <<size, table, fill, used>>

Entry == [key : Keys \cup {None, Dummy}, value : Values \cup {None}]
EmptyEntry == [key |-> None, value |-> None]
Slots(n) == 0 .. (n - 1)
NoSlot == -1        \* lookmapping never returns: no NULL key on the path

\* n: a list length read before locking; i: the scan's slot or the
\* compare loop's index; ak, bk: compare's sorted key lists; res: its
\* result so far; out: what print or repr rendered; failed: an allocation
\* failed and the call goes on only to release what it holds; osize:
\* mappingresize's oldsize; stale: its oldtable is no longer ma_table.
Locals == [n : Nat, i : Nat, ak : Seq(Keys \cup {None}),
           bk : Seq(Keys \cup {None}), res : Int,
           out : Seq(Keys \X Values), failed : BOOLEAN,
           osize : Nat, stale : BOOLEAN]
NoLocals == [n |-> 0, i |-> 0, ak |-> <<>>, bk |-> <<>>, res |-> 0,
             out |-> <<>>, failed |-> FALSE, osize |-> 0, stale |-> FALSE]

(***************************************************************************)
(* lookmapping (Algorithm D) and the rehash of mappingresize               *)
(***************************************************************************)
\* do { sum = 3*sum + 1; incr = sum % size; } while (incr == 0);
RECURSIVE IncrFrom(_, _)
IncrFrom(sum, n) ==
    IF (3 * sum + 1) % n = 0 THEN IncrFrom(3 * sum + 1, n) ELSE (3 * sum + 1) % n

\* The for(;;) loop from slot i with free the first dummy seen; after n
\* probes every slot has been visited and the loop cycles for ever.
RECURSIVE Probe(_, _, _, _, _, _, _)
Probe(tbl, n, k, i, incr, free, left) ==
    IF left = 0 THEN NoSlot
    ELSE CASE tbl[i].key = None  -> IF free # NoSlot THEN free ELSE i
           [] tbl[i].key = Dummy ->
                 Probe(tbl, n, k, (i + incr) % n, incr,
                       IF free = NoSlot THEN i ELSE free, left - 1)
           [] tbl[i].key = k     -> i
           [] OTHER              -> Probe(tbl, n, k, (i + incr) % n, incr, free, left - 1)

LookMapping(tbl, n, k) ==
    Probe(tbl, n, k, Hash[k] % n, IncrFrom(Hash[k], n), NoSlot, n)

\* Mutant: the reinsertion loop stops one slot early (i < oldsize - 1).
RehashSkipLast(old, oldsize, n) ==
    LET RECURSIVE Fill(_, _)
        Fill(i, new) ==
            IF i >= oldsize - 1 THEN new
            ELSE Fill(i + 1,
                      IF old[i].value = None THEN new
                      ELSE [new EXCEPT ![LookMapping(new, n, old[i].key)] = old[i]])
    IN  Fill(0, [j \in Slots(n) |-> EmptyEntry])

\* The first pass of mappingresize: insertmapping of every entry in use,
\* in slot order, into a new calloc'd table of n slots.
Rehash(old, oldsize, n) ==
    LET RECURSIVE Fill(_, _)
        Fill(i, new) ==
            IF i = oldsize THEN new
            ELSE Fill(i + 1,
                      IF old[i].value = None THEN new
                      ELSE [new EXCEPT ![LookMapping(new, n, old[i].key)] = old[i]])
    IN  Fill(0, [j \in Slots(n) |-> EmptyEntry])

\* The first of primes[] above ma_used*2, or 0 when they ran out.
NewSize(u) ==
    LET ok == {i \in DOMAIN Primes : Primes[i] > u * 2}
    IN  IF ok = {} THEN 0 ELSE Primes[CHOOSE i \in ok : \A j \in ok : i <= j]

InUse(d) == {i \in Slots(size[d]) : table[d][i].value # None}

\* cmpobject: NULL first, then Rank; the result's sign only.
CmpObj(x, y) ==
    CASE x = y    -> 0
      [] x = None -> -1
      [] y = None -> 1
      [] OTHER    -> IF Rank[x] < Rank[y] THEN -1 ELSE 1

Sign(n) == IF n < 0 THEN -1 ELSE IF n > 0 THEN 1 ELSE 0

\* An int returned by mapping_length or mapping_compare; the list or string
\* of keys, values, items, repr or print, as the bag of what it holds.
Num(n) == [num |-> n]
ListOf(b) == [bag |-> b]

Init ==                                     \* newmappingobject
    /\ size = [d \in Dicts |-> 0]
    /\ table = [d \in Dicts |-> [j \in Slots(0) |-> EmptyEntry]]
    /\ fill = [d \in Dicts |-> 0]
    /\ used = [d \in Dicts |-> 0]
    /\ holder = [d \in Dicts |-> NoThread]
    /\ pc = [t \in Threads |-> "idle"]
    /\ prog = Program
    /\ loc = [t \in Threads |-> NoLocals]
    /\ result = [t \in Threads |-> None]

Arg(t) == Head(prog[t])
D(t) == Arg(t).d
Goto(t, l) == pc' = [pc EXCEPT ![t] = l]
SetLoc(t, r) == loc' = [loc EXCEPT ![t] = r]
Return(t) ==
    /\ pc' = [pc EXCEPT ![t] = "idle"]
    /\ prog' = [prog EXCEPT ![t] = Tail(@)]
Answer(t, r) == result' = [result EXCEPT ![t] = r]
Release(d) == holder' = [holder EXCEPT ![d] = NoThread]
Fails(t) == t \in AllocFails

Entry0 == [lookup |-> "lu_check", has_key |-> "hk_lock", insert |-> "in_check",
           remove |-> "rm_check", clear |-> "cl_lock", keys |-> "ks_alloc",
           values |-> "ks_alloc", items |-> "ks_alloc", length |-> "ln_read",
           compare |-> "cm_check", repr |-> "rd_lock", print |-> "rd_lock",
           dictlookup |-> "dk_alloc", dictinsert |-> "dk_alloc",
           dictremove |-> "dk_alloc"]

\* The mapping call each dict* helper makes with the key object it built.
DictCallee == [dictlookup |-> "lookup", dictinsert |-> "insert",
               dictremove |-> "remove"]

Call(t) ==
    /\ pc[t] = "idle"
    /\ prog[t] # <<>>
    /\ Goto(t, Entry0[Arg(t).op])
    /\ SetLoc(t, NoLocals)
    /\ UNCHANGED <<size, table, fill, used, holder, prog, result>>

\* Py_MAP_LOCK / Py_MAP_LOCK_TEST: the label after each lock request, and
\* the dictionary it locks (mapping_compare's second argument b at cb_*
\* and cm_lockb).
AfterLock == [lu_lock |-> "lu_look", hk_lock |-> "hk_look", rs_lock |-> "rs_body",
              in_lock |-> "in_body", rm_lock |-> "rm_body", cl_lock |-> "cl_body",
              ks_lock |-> "ks_body", ca_lock |-> "ca_body", cb_lock |-> "cb_body",
              cm_locka |-> "cm_lockb", cm_lockb |-> "cm_look", rd_lock |-> "rd_scan"]

Target(t) ==
    IF pc[t] \in {"cb_alloc", "cb_lock", "cb_body", "cm_lockb"} THEN Arg(t).e
    ELSE Arg(t).d

Lock(t) ==
    /\ pc[t] \in DOMAIN AfterLock
    /\ holder[Target(t)] = NoThread
    /\ holder' = [holder EXCEPT ![Target(t)] = t]
    /\ Goto(t, AfterLock[pc[t]])
    /\ UNCHANGED <<size, table, fill, used, prog, loc, result>>

\* lookmapping on an empty table computes sum % 0, and hashobject(NULL)
\* dereferences NULL (the process dies); lookmapping on a table without a
\* NULL key loops for ever, holding the lock (the thread takes no further
\* step).
Crash(t) == Goto(t, "crash")
Hang(t) == Goto(t, "hang")

(***************************************************************************)
(* mappinglookup and mapping_subscript; mapping_has_key                   *)
(***************************************************************************)
\* if (mp->ma_table == NULL) return NULL;  (read without the lock)
LookupCheck(t) ==
    /\ pc[t] = "lu_check"
    /\ IF size[D(t)] = 0 THEN Answer(t, None) /\ Return(t)
                         ELSE Goto(t, "lu_lock") /\ UNCHANGED <<prog, result>>
    /\ UNCHANGED <<size, table, fill, used, holder, loc>>

LookupLocked(t) ==
    LET d == D(t)
        ep == LookMapping(table[d], size[d], Arg(t).key)
    IN
    /\ pc[t] = "lu_look"
    /\ CASE size[d] = 0 -> Crash(t) /\ UNCHANGED <<prog, holder, result>>
         [] ep = NoSlot -> Hang(t) /\ UNCHANGED <<prog, holder, result>>
         [] OTHER -> Answer(t, table[d][ep].value) /\ Release(d) /\ Return(t)
    /\ UNCHANGED <<size, table, fill, used, loc>>

\* Mutant: has_key without the ma_size != 0 test.
HasKeyLockedNoSizeCheck(t) ==
    LET d == D(t)
        ep == LookMapping(table[d], size[d], Arg(t).key)
    IN
    /\ pc[t] = "hk_look"
    /\ CASE size[d] = 0 -> Crash(t) /\ UNCHANGED <<prog, holder, result>>
         [] ep = NoSlot -> Hang(t) /\ UNCHANGED <<prog, holder, result>>
         [] OTHER -> Answer(t, table[d][ep].value) /\ Release(d) /\ Return(t)
    /\ UNCHANGED <<size, table, fill, used, loc>>

\* ok = mp->ma_size != 0 && lookmapping(...)->me_value != NULL, under the
\* lock; the answer is recorded as the value it tested.
HasKeyLocked(t) ==
    LET d == D(t)
        ep == LookMapping(table[d], size[d], Arg(t).key)
    IN
    /\ pc[t] = "hk_look"
    /\ CASE size[d] = 0 -> Answer(t, None) /\ Release(d) /\ Return(t)
         [] ep = NoSlot -> Hang(t) /\ UNCHANGED <<prog, holder, result>>
         [] OTHER -> Answer(t, table[d][ep].value) /\ Release(d) /\ Return(t)
    /\ UNCHANGED <<size, table, fill, used, loc>>

\* mapping_length: return mp->ma_used, read without the lock.
LengthRead(t) ==
    /\ pc[t] = "ln_read"
    /\ Answer(t, Num(used[D(t)]))
    /\ Return(t)
    /\ UNCHANGED <<size, table, fill, used, holder, loc>>

(***************************************************************************)
(* dictlookup, dictinsert and dictremove                                   *)
(***************************************************************************)
\* keyo = newstringobject(key): a string key object of the C string, which
\* is the key itself here; when its allocation fails the helper returns
\* NULL or -1 at once.  Otherwise it calls mappinglookup, mappinginsert or
\* mappingremove with keyo, whose steps follow; the final Py_DECREF(keyo)
\* only drops the helper's own reference (reference counts are not
\* modelled).
DictKeyAlloc(t) ==
    /\ pc[t] = "dk_alloc"
    /\ \/ Goto(t, Entry0[DictCallee[Arg(t).op]]) /\ UNCHANGED <<prog, result>>
       \/ /\ Fails(t)
          /\ Answer(t, IF Arg(t).op = "dictlookup" THEN None ELSE Err)
          /\ Return(t)
    /\ UNCHANGED <<size, table, fill, used, holder, loc>>

(***************************************************************************)
(* mappinginsert, mappingresize and insertmapping                          *)
(***************************************************************************)
\* if (mp->ma_fill*3 >= mp->ma_size*2) resize, read without the lock; the
\* resize starts with oldsize = ma_size and oldtable = ma_table, also read
\* before it locks.
InsertCheck(t) ==
    /\ pc[t] = "in_check"
    /\ IF fill[D(t)] * 3 >= size[D(t)] * 2
       THEN Goto(t, "rs_lock") /\ SetLoc(t, [loc[t] EXCEPT !.osize = size[D(t)]])
       ELSE Goto(t, "in_lock") /\ UNCHANGED loc
    /\ UNCHANGED <<size, table, fill, used, holder, prog, result>>

\* d's ma_table is replaced by t (a resize or a clear), which frees the old
\* one: every other thread that read it as oldtable and has not rehashed
\* yet now holds a pointer to a freed table.
Orphan(t, d) ==
    loc' = [u \in Threads |->
               IF u # t /\ pc[u] \in {"rs_lock", "rs_body"} /\ D(u) = d
               THEN [loc[u] EXCEPT !.stale = TRUE] ELSE loc[u]]

\* mappingresize under the lock: pick the new size from the current
\* ma_used, calloc the table (which may fail), reinsert every entry in use
\* of oldtable[0 .. oldsize-1] and unlock; then XDECREF the old dummy keys
\* and XDEL(oldtable).  When oldtable is stale and was NULL the new table
\* starts empty and the current entries are lost; when it was a table, the
\* thread reads it after it was freed and frees it a second time (taken as
\* a crash).
ResizeLocked(t) ==
    LET d == D(t)
        n == NewSize(used[d])
        new == IF loc[t].stale THEN [j \in Slots(n) |-> EmptyEntry]
               ELSE Rehash(table[d], size[d], n)
        freed == loc[t].stale /\ loc[t].osize > 0
    IN
    /\ pc[t] = "rs_body"
    /\ Release(d)
    /\ \/ /\ n # 0 /\ ~freed
          /\ size' = [size EXCEPT ![d] = n]
          /\ table' = [table EXCEPT ![d] = new]
          /\ fill' = [fill EXCEPT ![d] = Cardinality({i \in Slots(n) : new[i].value # None})]
          /\ used' = [used EXCEPT ![d] = fill'[d]]
          /\ Orphan(t, d)
          /\ Goto(t, "in_lock")
       \/ /\ n # 0 /\ freed
          /\ Crash(t)
          /\ UNCHANGED <<size, table, fill, used, loc>>
       \/ /\ n = 0 \/ Fails(t)                  \* err_nomem
          /\ Goto(t, "rs_failed")
          /\ UNCHANGED <<size, table, fill, used, loc>>
    /\ UNCHANGED <<prog, result>>

\* Mutant: a failed resize is retried instead of falling back.
ResizeFailedRetry(t) ==
    /\ pc[t] = "rs_failed"
    /\ Goto(t, "in_check")
    /\ UNCHANGED <<size, table, fill, used, holder, prog, loc, result>>

\* if (mp->ma_fill+1 > mp->ma_size) return -1;  (read without the lock)
ResizeFailed(t) ==
    /\ pc[t] = "rs_failed"
    /\ IF fill[D(t)] + 1 > size[D(t)]
       THEN Answer(t, Err) /\ Return(t)
       ELSE Goto(t, "in_lock") /\ UNCHANGED <<prog, result>>
    /\ UNCHANGED <<size, table, fill, used, holder, loc>>

\* Mutant: an entry in use keeps its old value.
InsertLockedKeepValue(t) ==
    LET d == D(t)
        k == Arg(t).key
        ep == LookMapping(table[d], size[d], k)
    IN
    /\ pc[t] = "in_body"
    /\ CASE size[d] = 0 -> Crash(t) /\ UNCHANGED <<table, fill, used, prog, holder, result>>
         [] ep = NoSlot -> Hang(t) /\ UNCHANGED <<table, fill, used, prog, holder, result>>
         [] table[d][ep].value # None ->
               /\ UNCHANGED <<table, fill, used>>
               /\ Release(d) /\ Answer(t, Ok) /\ Return(t)
         [] OTHER ->
               /\ table' = [table EXCEPT ![d][ep] = [key |-> k, value |-> Arg(t).val]]
               /\ fill' = [fill EXCEPT ![d] = IF table[d][ep].key = None THEN @ + 1 ELSE @]
               /\ used' = [used EXCEPT ![d] = @ + 1]
               /\ Release(d) /\ Answer(t, Ok) /\ Return(t)
    /\ UNCHANGED <<size, loc>>

\* insertmapping(..., 1): replace the value of an entry in use, or fill a
\* NULL or dummy slot; then unlock.
InsertLocked(t) ==
    LET d == D(t)
        k == Arg(t).key
        ep == LookMapping(table[d], size[d], k)
    IN
    /\ pc[t] = "in_body"
    /\ CASE size[d] = 0 -> Crash(t) /\ UNCHANGED <<table, fill, used, prog, holder, result>>
         [] ep = NoSlot -> Hang(t) /\ UNCHANGED <<table, fill, used, prog, holder, result>>
         [] table[d][ep].value # None ->
               /\ table' = [table EXCEPT ![d][ep].value = Arg(t).val]
               /\ UNCHANGED <<fill, used>>
               /\ Release(d) /\ Answer(t, Ok) /\ Return(t)
         [] OTHER ->
               /\ table' = [table EXCEPT ![d][ep] = [key |-> k, value |-> Arg(t).val]]
               /\ fill' = [fill EXCEPT ![d] = IF table[d][ep].key = None THEN @ + 1 ELSE @]
               /\ used' = [used EXCEPT ![d] = @ + 1]
               /\ Release(d) /\ Answer(t, Ok) /\ Return(t)
    /\ UNCHANGED <<size, loc>>

(***************************************************************************)
(* mappingremove                                                           *)
(***************************************************************************)
\* if (ma_table == NULL) goto empty;  (read without the lock)
RemoveCheck(t) ==
    /\ pc[t] = "rm_check"
    /\ IF size[D(t)] = 0 THEN Answer(t, Err) /\ Return(t)
                         ELSE Goto(t, "rm_lock") /\ UNCHANGED <<prog, result>>
    /\ UNCHANGED <<size, table, fill, used, holder, loc>>

\* Mutant: the removed entry's key set to NULL instead of dummy.
RemoveLockedNullKey(t) ==
    LET d == D(t)
        ep == LookMapping(table[d], size[d], Arg(t).key)
    IN
    /\ pc[t] = "rm_body"
    /\ CASE size[d] = 0 -> Crash(t) /\ UNCHANGED <<table, used, prog, holder, result>>
         [] ep = NoSlot -> Hang(t) /\ UNCHANGED <<table, used, prog, holder, result>>
         [] table[d][ep].value = None ->
               Release(d) /\ Answer(t, Err) /\ Return(t) /\ UNCHANGED <<table, used>>
         [] OTHER ->
               /\ table' = [table EXCEPT ![d][ep] = EmptyEntry]
               /\ used' = [used EXCEPT ![d] = @ - 1]
               /\ Release(d) /\ Answer(t, Ok) /\ Return(t)
    /\ UNCHANGED <<size, fill, loc>>

\* The entry's key becomes dummy, never NULL, so that keys further along
\* its probe path stay reachable.
RemoveLocked(t) ==
    LET d == D(t)
        ep == LookMapping(table[d], size[d], Arg(t).key)
    IN
    /\ pc[t] = "rm_body"
    /\ CASE size[d] = 0 -> Crash(t) /\ UNCHANGED <<table, used, prog, holder, result>>
         [] ep = NoSlot -> Hang(t) /\ UNCHANGED <<table, used, prog, holder, result>>
         [] table[d][ep].value = None ->
               Release(d) /\ Answer(t, Err) /\ Return(t) /\ UNCHANGED <<table, used>>
         [] OTHER ->
               /\ table' = [table EXCEPT ![d][ep] = [key |-> Dummy, value |-> None]]
               /\ used' = [used EXCEPT ![d] = @ - 1]
               /\ Release(d) /\ Answer(t, Ok) /\ Return(t)
    /\ UNCHANGED <<size, fill, loc>>

(***************************************************************************)
(* mappingclear                                                            *)
(***************************************************************************)
\* Mutant: ma_size reset but ma_table left pointing at the old table.
ClearLockedKeepTable(t) ==
    LET d == D(t) IN
    /\ pc[t] = "cl_body"
    /\ Release(d)
    /\ Return(t)
    /\ IF size[d] = 0
       THEN UNCHANGED <<size, table, fill, used>>
       ELSE /\ size' = [size EXCEPT ![d] = 0]
            /\ fill' = [fill EXCEPT ![d] = 0]
            /\ used' = [used EXCEPT ![d] = 0]
            /\ UNCHANGED table
    /\ UNCHANGED <<loc, result>>

ClearLocked(t) ==
    LET d == D(t) IN
    /\ pc[t] = "cl_body"
    /\ Release(d)
    /\ Return(t)
    /\ IF size[d] = 0
       THEN UNCHANGED <<size, table, fill, used, loc>>
       ELSE /\ size' = [size EXCEPT ![d] = 0]
            /\ table' = [table EXCEPT ![d] = [j \in Slots(0) |-> EmptyEntry]]
            /\ fill' = [fill EXCEPT ![d] = 0]
            /\ used' = [used EXCEPT ![d] = 0]
            /\ Orphan(t, d)
    /\ UNCHANGED result

(***************************************************************************)
(* mapping_keys, mapping_values and mapping_items                         *)
(***************************************************************************)
\* The list of n items the loop builds: setlistitem(v, j, ...) for the j-th
\* entry in use, in slot order; items past the list's length are refused
\* and slots left unset stay NULL.
Snapshot(d, n, what) ==
    LET S == SetToSortSeq(InUse(d), <)
        Item(i) == CASE what = "values" -> table[d][i].value
                     [] what = "items"  -> <<table[d][i].key, table[d][i].value>>
                     [] OTHER           -> table[d][i].key
    IN  [j \in 1..n |-> IF j <= Len(S) THEN Item(S[j]) ELSE None]

\* sortlist(keys): listsort with cmpobject, NULL first.
SortKeys(s) == SortSeq(s, LAMBDA x, y : CmpObj(x, y) < 0)

\* mapping_compare's fallback when a key list could not be made: order by
\* address.
AddrOrder(a, b) == IF Rank[a] < Rank[b] THEN -1 ELSE 1

\* v = newlistobject(mp->ma_used), the size read without the lock.  In
\* mapping_compare a failure of the list for a still makes the list for b
\* (ca_*), one for b ends the call (cb_*).
SnapAlloc(t) ==
    LET after == [ks_alloc |-> "ks_lock", ca_alloc |-> "ca_lock",
                  cb_alloc |-> "cb_lock"]
    IN
    /\ pc[t] \in DOMAIN after
    /\ \/ /\ SetLoc(t, [loc[t] EXCEPT !.n = used[Target(t)]])
          /\ Goto(t, after[pc[t]])
          /\ UNCHANGED <<prog, result>>
       \/ /\ Fails(t) /\ pc[t] = "ks_alloc"
          /\ Answer(t, Err) /\ Return(t)
          /\ UNCHANGED loc
       \/ /\ Fails(t) /\ pc[t] = "ca_alloc"
          /\ SetLoc(t, [loc[t] EXCEPT !.failed = TRUE])
          /\ Goto(t, "cb_alloc")
          /\ UNCHANGED <<prog, result>>
       \/ /\ Fails(t) /\ pc[t] = "cb_alloc"
          /\ Answer(t, Num(AddrOrder(Arg(t).d, Arg(t).e))) /\ Return(t)
          /\ UNCHANGED loc
    /\ UNCHANGED <<size, table, fill, used, holder>>

\* The loop over the table with the lock held for the whole traversal, then
\* the unlock.  mapping_items' newtupleobject(2) may fail inside the loop:
\* it unlocks and returns NULL.  For mapping_compare the key list of b is
\* followed by the out-of-memory test and the choice of n, the shorter
\* length.
SnapLocked(t) ==
    LET d == Target(t)
        what == IF Arg(t).op = "compare" THEN "keys" ELSE Arg(t).op
        list == Snapshot(d, loc[t].n, what)
        ak == loc[t].ak
        bk == SortKeys(list)
        n == IF Len(ak) < Len(bk) THEN Len(ak) ELSE Len(bk)
    IN
    /\ pc[t] \in {"ks_body", "ca_body", "cb_body"}
    /\ Release(d)
    /\ \/ /\ pc[t] = "ks_body"
          /\ what = "items" /\ InUse(d) # {} /\ Fails(t)
          /\ Answer(t, Err) /\ Return(t)
          /\ UNCHANGED loc
       \/ /\ pc[t] = "ks_body"
          /\ Answer(t, ListOf(ToBag(list))) /\ Return(t)
          /\ UNCHANGED loc
       \/ /\ pc[t] = "ca_body"
          /\ SetLoc(t, [loc[t] EXCEPT !.ak = SortKeys(list)])
          /\ Goto(t, "cb_alloc")
          /\ UNCHANGED <<prog, result>>
       \/ /\ pc[t] = "cb_body" /\ loc[t].failed
          /\ Answer(t, Num(AddrOrder(Arg(t).d, Arg(t).e))) /\ Return(t)
          /\ UNCHANGED loc
       \/ /\ pc[t] = "cb_body" /\ ~loc[t].failed
          /\ SetLoc(t, [loc[t] EXCEPT !.bk = bk, !.n = n, !.i = 0, !.res = 0])
          /\ Goto(t, IF n > 0 THEN "cm_key" ELSE "cm_end")
          /\ UNCHANGED <<prog, result>>
    /\ UNCHANGED <<size, table, fill, used>>

(***************************************************************************)
(* mapping_compare                                                         *)
(***************************************************************************)
\* a == b, and the ma_used tests of both, read without a lock.
CompareCheck(t) ==
    LET a == Arg(t).d
        b == Arg(t).e
    IN
    /\ pc[t] = "cm_check"
    /\ CASE a = b          -> Answer(t, Num(0)) /\ Return(t)
         [] used[a] = 0    -> Answer(t, Num(IF used[b] # 0 THEN -1 ELSE 0)) /\ Return(t)
         [] used[b] = 0    -> Answer(t, Num(1)) /\ Return(t)
         [] OTHER          -> Goto(t, "ca_alloc") /\ UNCHANGED <<prog, result>>
    /\ UNCHANGED <<size, table, fill, used, holder, loc>>

\* akey = getlistitem(akeys, i), bkey likewise; res = cmpobject(akey,
\* bkey), breaking when they differ; then hashobject of both.
CompareKey(t) ==
    LET akey == loc[t].ak[loc[t].i + 1]
        bkey == loc[t].bk[loc[t].i + 1]
    IN
    /\ pc[t] = "cm_key"
    /\ \/ /\ CmpObj(akey, bkey) # 0
          /\ SetLoc(t, [loc[t] EXCEPT !.res = CmpObj(akey, bkey)])
          /\ Goto(t, "cm_end")
       \/ /\ CmpObj(akey, bkey) = 0 /\ akey = None
          /\ Crash(t) /\ UNCHANGED loc
       \/ /\ CmpObj(akey, bkey) = 0 /\ akey # None
          /\ Goto(t, "cm_locka") /\ UNCHANGED loc
    /\ UNCHANGED <<size, table, fill, used, holder, prog, result>>

\* With a and b locked: aval and bval by lookmapping, with no test of
\* ma_size; lazy unlock of both; a missing value ends the loop; else
\* res = cmpobject(aval, bval) and the loop goes on while res == 0.
CompareLook(t) ==
    LET a == Arg(t).d
        b == Arg(t).e
        key == loc[t].ak[loc[t].i + 1]
        ea == LookMapping(table[a], size[a], key)
        eb == LookMapping(table[b], size[b], key)
        aval == table[a][ea].value
        bval == table[b][eb].value
        i == loc[t].i + 1
    IN
    /\ pc[t] = "cm_look"
    /\ CASE size[a] = 0 -> Crash(t) /\ UNCHANGED <<holder, loc>>
         [] ea = NoSlot -> Hang(t) /\ UNCHANGED <<holder, loc>>
         [] size[b] = 0 -> Crash(t) /\ UNCHANGED <<holder, loc>>
         [] eb = NoSlot -> Hang(t) /\ UNCHANGED <<holder, loc>>
         [] aval = None \/ bval = None ->
               /\ holder' = [holder EXCEPT ![a] = NoThread, ![b] = NoThread]
               /\ Goto(t, "cm_end")
               /\ UNCHANGED loc
         [] OTHER ->
               /\ holder' = [holder EXCEPT ![a] = NoThread, ![b] = NoThread]
               /\ SetLoc(t, [loc[t] EXCEPT !.res = CmpObj(aval, bval), !.i = i])
               /\ Goto(t, IF CmpObj(aval, bval) # 0 \/ i >= loc[t].n
                          THEN "cm_end" ELSE "cm_key")
    /\ UNCHANGED <<size, table, fill, used, prog, result>>

\* if (res == 0) the ma_used of a and b decide, read without a lock; lazy
\* done of both.
CompareEnd(t) ==
    /\ pc[t] = "cm_end"
    /\ Answer(t, Num(IF loc[t].res # 0 THEN loc[t].res
                     ELSE Sign(used[Arg(t).d] - used[Arg(t).e])))
    /\ Return(t)
    /\ UNCHANGED <<size, table, fill, used, holder, loc>>

(***************************************************************************)
(* mapping_print and mapping_repr                                          *)
(***************************************************************************)
\* With the lock held, from slot i on while i < ma_size: the next entry in
\* use is taken (key and value with new references), ep's slot is kept and
\* the lock lazily released.  With none left, or once repr's string is
\* NULL, the lock is released and the call returns; repr's final
\* joinstring of "}" may fail.
RenderScan(t) ==
    LET d == D(t)
        next == {j \in InUse(d) : j >= loc[t].i}
        j == CHOOSE j \in next : \A x \in next : j <= x
        done == loc[t].failed \/ next = {}
    IN
    /\ pc[t] = "rd_scan"
    /\ Release(d)
    /\ \/ /\ ~done
          /\ SetLoc(t, [loc[t] EXCEPT !.out = Append(@, <<table[d][j].key,
                                                          table[d][j].value>>),
                                      !.i = j + 1])
          /\ Goto(t, "rd_out")
          /\ UNCHANGED <<prog, result>>
       \/ /\ done /\ ~loc[t].failed
          /\ Answer(t, ListOf(ToBag(loc[t].out))) /\ Return(t)
          /\ UNCHANGED loc
       \/ /\ done /\ Arg(t).op = "repr" /\ (loc[t].failed \/ Fails(t))
          /\ Answer(t, Err) /\ Return(t)
          /\ UNCHANGED loc
    /\ UNCHANGED <<size, table, fill, used>>

\* printobject or reprobject of the key and the value, outside the lock,
\* then the relock (ep = &mp->ma_table[i] in the table as it is then).
\* print returns -1 at once after a lazy done; repr's string becomes NULL
\* and it relocks to end the loop.
RenderOut(t) ==
    /\ pc[t] = "rd_out"
    /\ \/ Goto(t, "rd_lock") /\ UNCHANGED <<prog, loc, result>>
       \/ /\ Fails(t) /\ Arg(t).op = "print"
          /\ Answer(t, Err) /\ Return(t)
          /\ UNCHANGED loc
       \/ /\ Fails(t) /\ Arg(t).op = "repr"
          /\ SetLoc(t, [loc[t] EXCEPT !.failed = TRUE])
          /\ Goto(t, "rd_lock")
          /\ UNCHANGED <<prog, result>>
    /\ UNCHANGED <<size, table, fill, used, holder>>

(***************************************************************************)
(* Specification                                                           *)
(***************************************************************************)
AllDone == \A t \in Threads : pc[t] = "idle" /\ prog[t] = <<>>

Finished == AllDone /\ UNCHANGED vars

Step(t) ==
    \/ Call(t) \/ Lock(t)
    \/ DictKeyAlloc(t)
    \/ LookupCheck(t) \/ LookupLocked(t) \/ HasKeyLocked(t) \/ LengthRead(t)
    \/ InsertCheck(t) \/ ResizeLocked(t) \/ ResizeFailed(t) \/ InsertLocked(t)
    \/ RemoveCheck(t) \/ RemoveLocked(t) \/ ClearLocked(t)
    \/ SnapAlloc(t) \/ SnapLocked(t)
    \/ CompareCheck(t) \/ CompareKey(t) \/ CompareLook(t) \/ CompareEnd(t)
    \/ RenderScan(t) \/ RenderOut(t)

Next == (\E t \in Threads : Step(t)) \/ Finished

\* Every runnable native thread is eventually scheduled.
Spec == Init /\ [][Next]_vars /\ \A t \in Threads : WF_vars(Step(t))

(***************************************************************************)
(* Properties                                                              *)
(***************************************************************************)
TypeOK ==
    /\ \A d \in Dicts :
          /\ size[d] \in {0} \cup {Primes[i] : i \in DOMAIN Primes}
          /\ table[d] \in [Slots(size[d]) -> Entry]
          /\ fill[d] \in 0 .. size[d] /\ used[d] \in 0 .. size[d]
    /\ holder \in [Dicts -> Threads \cup {NoThread}]
    /\ prog \in [Threads -> Seq(Ops)]
    /\ loc \in [Threads -> Locals]

\* The comments above mappingentry and mappingobject: in every dictionary
\* an entry is in use exactly when its key is a real key; ma_fill and
\* ma_used count the non-NULL and the in-use keys; at least one NULL key
\* remains, so that lookmapping ends; and every key in use is found by
\* lookmapping at its own slot, i.e. no NULL key cuts its probe path and it
\* is stored once.  Holds after any sequence of inserts, removes, resizes
\* and clears of any threads.
TableConsistent ==
    \A d \in Dicts :
        /\ \A i \in Slots(size[d]) :
              (table[d][i].value # None) <=> (table[d][i].key \in Keys)
        /\ fill[d] = Cardinality({i \in Slots(size[d]) : table[d][i].key # None})
        /\ used[d] = Cardinality(InUse(d))
        /\ size[d] > 0 => fill[d] < size[d]
        /\ \A i \in InUse(d) : LookMapping(table[d], size[d], table[d][i].key) = i

\* No lookmapping runs on an empty table (sum % 0) and no hashobject on a
\* NULL key: every caller that read ma_table != NULL or ma_used != 0
\* still sees a table when it holds the lock.
NoCrash == \A t \in Threads : pc[t] # "crash"

\* What the tables store under each key.
Contents ==
    [d \in Dicts |->
        [k \in Keys |-> IF \E i \in InUse(d) : table[d][i].key = k
                        THEN table[d][CHOOSE i \in InUse(d) : table[d][i].key = k].value
                        ELSE None]]

\* Every call takes effect atomically, in its thread's order, on the
\* dictionaries it reports on: lookups, has_key, len, keys(), values(),
\* items(), repr, print and compare see exactly what inserts, removes and
\* clears left, and a resize changes nothing a caller can see.
Dict == INSTANCE AbstractMapping
            WITH contents <- Contents, result <- result, pending <- prog

MappingSpec == Dict!Spec

\* Every call returns (no lookmapping loops for ever, no lock is kept).
Termination == <>AllDone
====
