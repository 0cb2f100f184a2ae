---------------------------- MODULE MCPooledLock ----------------------------
(***************************************************************************)
(* Model-checking instances of PooledLock.  The programs are the exact     *)
(* sequences of pooled-lock calls made by callers in listobject.c and      *)
(* mappingobject.c on their success paths; PooledLock!Abort gives the      *)
(* error paths.                                                            *)
(***************************************************************************)
EXTENDS PooledLock

CONSTANTS t1, t2, t3, A, B, C

Lk(o)  == [fn |-> "Lock", ob |-> o]
Un(o)  == [fn |-> "Unlock", ob |-> o]
LzU(o) == [fn |-> "LazyUnlock", ob |-> o]
LzD(o) == [fn |-> "LazyDone", ob |-> o]

\* list_item, setlistitem, ins1, listsort, mappinginsert ...: lock, unlock.
LockedOp(o) == <<Lk(o), Un(o)>>

\* listindex / listcount over a one-element list that finds no match:
\* lock, lazy unlock, compare; lock, i >= ob_size, unlock; lazy done.
ScanMiss(o) == <<Lk(o), LzU(o), Lk(o), Un(o), LzD(o)>>

\* listindex / listremove whose first comparison matches: lazy done at once.
ScanHit(o) == <<Lk(o), LzU(o), LzD(o)>>

\* list_concat(a, b), list_ass_slice(a, .., b): lock a then b, unlock both.
Pair(a, b) == <<Lk(a), Lk(b), Un(a), Un(b)>>

\* Scans touch only objects no other thread locks; the others share B, C,
\* take them in one order, and t3 concatenates C with itself, which ends
\* its program (the second Lock of C always fails).
ProgramSafe ==
    [t \in {t1, t2, t3} |->
        CASE t = t1 -> ScanMiss(A) \o ScanHit(A) \o LockedOp(B)
          [] t = t2 -> Pair(B, C)
          [] t = t3 -> Pair(C, C)]

\* A lazy scan of A racing a plain lock of A (listindex vs. list_item).
ProgramLazyRace ==
    [t \in {t1, t2} |->
        CASE t = t1 -> ScanHit(A)
          [] t = t2 -> LockedOp(A)]

\* list_concat(A, B) in one thread and list_concat(B, A) in another; the
\* same two locks in the same order are taken by mapping_compare(A, B)
\* against mapping_compare(B, A) (mappingobject.c 877-881).
ProgramCrossPair ==
    [t \in {t1, t2} |->
        CASE t = t1 -> Pair(A, B)
          [] t = t2 -> Pair(B, A)]
\* The NT build: t1 locks and unlocks A, leaving the record it entered on
\* the queue; t2 takes that record for B; t1 then locks B.
ProgramNtReuse ==
    [t \in {t1, t2} |->
        CASE t = t1 -> LockedOp(A) \o LockedOp(B)
          [] t = t2 -> LockedOp(B)]
=============================================================================
