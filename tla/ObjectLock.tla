----------------------------- MODULE ObjectLock -----------------------------
(***************************************************************************)
(* What a per-object lock promises to listobject.c and mappingobject.c:    *)
(* every object has at most one holder; a thread takes a free object's    *)
(* lock and the holder gives it back.  Py_POOLED_LOCK may also fail        *)
(* (deadlock detected, out of memory), which leaves the lock unchanged and *)
(* so is a stuttering step here.                                          *)
(***************************************************************************)
CONSTANTS Threads, Objects, NoThread

VARIABLE holder     \* holder[o]: the thread holding o's lock, or NoThread

Init == holder = [o \in Objects |-> NoThread]

Acquire(t, o) ==
    /\ holder[o] = NoThread
    /\ holder' = [holder EXCEPT ![o] = t]

Release(t, o) ==
    /\ holder[o] = t
    /\ holder' = [holder EXCEPT ![o] = NoThread]

Next == \E t \in Threads, o \in Objects : Acquire(t, o) \/ Release(t, o)

Spec == Init /\ [][Next]_holder
=============================================================================
