------------------------ MODULE ThreadStateRegistry ------------------------
(***************************************************************************)
(* The thread state registry of Python/threadstate.c (WITH_THREAD and      *)
(* WITH_FREE_THREAD): the singly linked list `states` of PyThreadStateLL   *)
(* nodes, one per thread, with move-to-front in PyThreadState_Get.         *)
(* Writers of `states` and of p->next hold states_mutex; readers walk the  *)
(* list without it.  The node of thread t is identified with t.            *)
(*                                                                         *)
(* A step is one load or store of a shared pointer.  Reading a node after  *)
(* free() is undefined: the model lets the load of a freed node's `next`   *)
(* return the value it had or NULL (allocator metadata).                   *)
(*                                                                         *)
(* The same native threads (Threads, from NameCache) also call getattro    *)
(* and setattro.  A thread makes one call at a time: a registry call       *)
(* starts only while the thread is outside getattro/setattro, and no       *)
(* registry step touches the name cache's state (ncvars).                  *)
(***************************************************************************)
EXTENDS Naturals, Sequences, FiniteSets, NameCache

CONSTANTS
    Main,       \* main_thread, whose node _PyThreadState_Init creates
    Program     \* Program[t]: the registry calls thread t makes

Calls == {"Ensure", "Get", "Free"}

ASSUME /\ Main \in Threads
       /\ NULL \notin Threads
       /\ \A t \in Threads : Program[t] \in Seq(Calls)

VARIABLES
    states,     \* head of the list
    next,       \* next[n]: the `next` field of node n
    created,    \* nodes PyThreadState_New has malloc'd
    freed,      \* nodes PyThreadState_Free has free'd
    mutex,      \* holder of states_mutex
    pc,         \* control point of each thread
    prog,       \* calls still to make; Head is the current one
    pts,        \* local pointer being walked (pts / ptsMain)
    prev        \* local prev of PyThreadState_Get

regvars == <<states, next, created, freed, mutex, pc, prog, pts, prev>>

vars == <<regvars, ncvars>>

Ptr == Threads \cup {NULL}

Labels == {"idle", "fatal",
           "g_head", "g_cmp", "g_next", "g_lock", "g_check",
           "g_unlink", "g_relink", "g_front",
           "e_head", "e_cmp", "e_next",
           "n_alloc", "n_head", "n_cmp", "n_next", "n_insert",
           "f_unlink", "f_free"}

Entry == [Get |-> "g_head", Ensure |-> "e_head", Free |-> "f_unlink"]

\* The values a load of n->next may return.
LoadNext(n) == IF n \in freed THEN {next[n], NULL} ELSE {next[n]}

\* The nodes reachable from `states`, in list order (at most one lap).
RECURSIVE ListFrom(_, _)
ListFrom(n, k) ==
    IF n = NULL \/ k = 0 THEN <<>> ELSE <<n>> \o ListFrom(next[n], k - 1)

List == ListFrom(states, Cardinality(Threads) + 1)

Init ==                                     \* after _PyThreadState_Init
    /\ states = Main
    /\ next = [n \in Threads |-> NULL]
    /\ created = {Main}
    /\ freed = {}
    /\ mutex = NULL
    /\ pc = [t \in Threads |-> "idle"]
    /\ prog = Program
    /\ pts = [t \in Threads |-> NULL]
    /\ prev = [t \in Threads |-> NULL]
    /\ NcInit

Goto(t, l) == pc' = [pc EXCEPT ![t] = l] /\ UNCHANGED ncvars

Return(t) ==
    /\ pc' = [pc EXCEPT ![t] = "idle"]
    /\ prog' = [prog EXCEPT ![t] = Tail(@)]
    /\ UNCHANGED ncvars

Call(t) ==
    /\ pc[t] = "idle"
    /\ NcIdle(t)
    /\ prog[t] # <<>>
    /\ Goto(t, Entry[Head(prog[t])])
    /\ UNCHANGED <<states, next, created, freed, mutex, prog, pts, prev>>

(***************************************************************************)
(* PyThreadState_Get                                                       *)
(***************************************************************************)
GetHead(t) ==
    /\ pc[t] = "g_head"
    /\ pts' = [pts EXCEPT ![t] = states]
    /\ prev' = [prev EXCEPT ![t] = NULL]
    /\ Goto(t, "g_cmp")
    /\ UNCHANGED <<states, next, created, freed, mutex, prog>>

\* pts->thread_id == thread_id: on the fast path (prev unset) return at
\* once, otherwise move the node to the front under the mutex.
GetFound(t) ==
    /\ pc[t] = "g_cmp"
    /\ pts[t] = t
    /\ IF prev[t] = NULL THEN Return(t) ELSE Goto(t, "g_lock") /\ UNCHANGED prog
    /\ UNCHANGED <<states, next, created, freed, mutex, pts, prev>>

GetMiss(t) ==
    /\ pc[t] = "g_cmp"
    /\ pts[t] # t
    /\ Goto(t, "g_next")
    /\ UNCHANGED <<states, next, created, freed, mutex, prog, pts, prev>>

\* prev = pts; pts = pts->next; a NULL is Py_FatalError.
GetNext(t) ==
    /\ pc[t] = "g_next"
    /\ \E v \in LoadNext(pts[t]) :
          /\ prev' = [prev EXCEPT ![t] = pts[t]]
          /\ pts' = [pts EXCEPT ![t] = v]
          /\ Goto(t, IF v = NULL THEN "fatal" ELSE "g_cmp")
    /\ UNCHANGED <<states, next, created, freed, mutex, prog>>

GetLock(t) ==
    /\ pc[t] = "g_lock"
    /\ mutex = NULL
    /\ mutex' = t
    /\ Goto(t, "g_check")
    /\ UNCHANGED <<states, next, created, freed, prog, pts, prev>>

\* Mutant: the recheck of prev under the mutex left out.
GetCheckNoRecheck(t) ==
    /\ pc[t] = "g_check"
    /\ Goto(t, "g_unlink")
    /\ UNCHANGED <<states, next, created, freed, mutex, prog, pts, prev>>

\* prev->next != pts: another thread moved the prior node; rescan from
\* `states` (under the mutex the list does not change) for the new prev.
GetCheck(t) ==
    /\ pc[t] = "g_check"
    /\ \E v \in LoadNext(prev[t]) :
          IF v = pts[t]
          THEN Goto(t, "g_unlink") /\ UNCHANGED prev
          ELSE LET before == {n \in Threads : n \in created /\ next[n] = pts[t]
                                 /\ \E i \in DOMAIN List : List[i] = n}
               IN  IF before = {}
                   THEN Goto(t, "fatal") /\ UNCHANGED prev
                   ELSE /\ prev' = [prev EXCEPT ![t] = CHOOSE n \in before : TRUE]
                        /\ Goto(t, "g_unlink")
    /\ UNCHANGED <<states, next, created, freed, mutex, prog, pts>>

\* Mutant: the unlinked node's next cleared as well (pts->next = NULL).
GetUnlinkClear(t) ==
    /\ pc[t] = "g_unlink"
    /\ next' = [next EXCEPT ![prev[t]] = next[pts[t]], ![pts[t]] = NULL]
    /\ Goto(t, "g_relink")
    /\ UNCHANGED <<states, created, freed, mutex, prog, pts, prev>>

\* prev->next = pts->next
GetUnlink(t) ==
    /\ pc[t] = "g_unlink"
    /\ next' = [next EXCEPT ![prev[t]] = next[pts[t]]]
    /\ Goto(t, "g_relink")
    /\ UNCHANGED <<states, created, freed, mutex, prog, pts, prev>>

\* pts->next = states
GetRelink(t) ==
    /\ pc[t] = "g_relink"
    /\ next' = [next EXCEPT ![pts[t]] = states]
    /\ Goto(t, "g_front")
    /\ UNCHANGED <<states, created, freed, mutex, prog, pts, prev>>

\* Mutant: PyMutex_Unlock(states_mutex) forgotten.
GetFrontNoUnlock(t) ==
    /\ pc[t] = "g_front"
    /\ states' = pts[t]
    /\ Return(t)
    /\ UNCHANGED <<next, created, freed, mutex, pts, prev>>

\* states = pts; unlock.
GetFront(t) ==
    /\ pc[t] = "g_front"
    /\ states' = pts[t]
    /\ mutex' = NULL
    /\ Return(t)
    /\ UNCHANGED <<next, created, freed, pts, prev>>

(***************************************************************************)
(* PyThreadState_Ensure and PyThreadState_New                              *)
(***************************************************************************)
EnsureHead(t) ==
    /\ pc[t] = "e_head"
    /\ pts' = [pts EXCEPT ![t] = states]
    /\ Goto(t, "e_cmp")
    /\ UNCHANGED <<states, next, created, freed, mutex, prog, prev>>

\* while (pts && pts->thread_id != thread_id)
EnsureCmp(t) ==
    /\ pc[t] = "e_cmp"
    /\ CASE pts[t] = NULL -> Goto(t, "n_alloc") /\ UNCHANGED prog
         [] pts[t] = t    -> Return(t)
         [] OTHER         -> Goto(t, "e_next") /\ UNCHANGED prog
    /\ UNCHANGED <<states, next, created, freed, mutex, pts, prev>>

\* Mutant: the walk of Ensure does not advance (pts = pts).
EnsureNextNoAdvance(t) ==
    /\ pc[t] = "e_next"
    /\ Goto(t, "e_cmp")
    /\ UNCHANGED <<states, next, created, freed, mutex, prog, pts, prev>>

EnsureNext(t) ==
    /\ pc[t] = "e_next"
    /\ \E v \in LoadNext(pts[t]) : pts' = [pts EXCEPT ![t] = v]
    /\ Goto(t, "e_cmp")
    /\ UNCHANGED <<states, next, created, freed, mutex, prog, prev>>

\* malloc + memset; the main thread skips the search for main's node.
NewAlloc(t) ==
    /\ pc[t] = "n_alloc"
    /\ created' = created \cup {t}
    /\ next' = [next EXCEPT ![t] = NULL]
    /\ Goto(t, IF t = Main THEN "n_insert" ELSE "n_head")
    /\ UNCHANGED <<states, freed, mutex, prog, pts, prev>>

NewHead(t) ==
    /\ pc[t] = "n_head"
    /\ pts' = [pts EXCEPT ![t] = states]
    /\ Goto(t, "n_cmp")
    /\ UNCHANGED <<states, next, created, freed, mutex, prog, prev>>

\* Mutant: the loop condition of PyThreadState_Ensure pasted in, so New
\* searches for the caller's own node instead of the main thread's.
NewCmpOwnId(t) ==
    /\ pc[t] = "n_cmp"
    /\ Goto(t, CASE pts[t] = NULL -> "fatal"
                 [] pts[t] = t    -> "n_insert"
                 [] OTHER         -> "n_next")
    /\ UNCHANGED <<states, next, created, freed, mutex, prog, pts, prev>>

\* while (ptsMain->thread_id != main_thread); then the values inherited
\* from main's state are copied under Py_CRIT_LOCK (data not modelled).
NewCmp(t) ==
    /\ pc[t] = "n_cmp"
    /\ Goto(t, CASE pts[t] = NULL -> "fatal"        \* NULL dereference
                 [] pts[t] = Main -> "n_insert"
                 [] OTHER         -> "n_next")
    /\ UNCHANGED <<states, next, created, freed, mutex, prog, pts, prev>>

NewNext(t) ==
    /\ pc[t] = "n_next"
    /\ \E v \in LoadNext(pts[t]) :
          /\ pts' = [pts EXCEPT ![t] = v]
          /\ Goto(t, IF v = NULL THEN "fatal" ELSE "n_cmp")
    /\ UNCHANGED <<states, next, created, freed, mutex, prog, prev>>

\* Under states_mutex: pts->next = states; states = pts.
NewInsert(t) ==
    /\ pc[t] = "n_insert"
    /\ mutex = NULL
    /\ next' = [next EXCEPT ![t] = states]
    /\ states' = t
    /\ pts' = [pts EXCEPT ![t] = NULL]
    /\ Return(t)
    /\ UNCHANGED <<created, freed, mutex, prev>>

(***************************************************************************)
(* PyThreadState_Free                                                      *)
(***************************************************************************)
\* The main thread's state is never thrown out.
FreeMain(t) ==
    /\ pc[t] = "f_unlink"
    /\ t = Main
    /\ Return(t)
    /\ UNCHANGED <<states, next, created, freed, mutex, pts, prev>>

\* Under states_mutex: find the node and unlink it (one store).
FreeUnlink(t) ==
    /\ pc[t] = "f_unlink"
    /\ t # Main
    /\ mutex = NULL
    /\ IF \E i \in DOMAIN List : List[i] = t
       THEN /\ IF states = t
               THEN states' = next[t] /\ UNCHANGED next
               ELSE LET p == CHOOSE n \in Threads :
                                 \E i \in DOMAIN List : List[i] = n /\ next[n] = t
                    IN  next' = [next EXCEPT ![p] = next[t]] /\ UNCHANGED states
            /\ Goto(t, "f_free")
       ELSE Goto(t, "fatal") /\ UNCHANGED <<states, next>>
    /\ UNCHANGED <<created, freed, mutex, prog, pts, prev>>

\* Py_XDECREF of the frame and exception references, then free(pts).
FreeNode(t) ==
    /\ pc[t] = "f_free"
    /\ freed' = freed \cup {t}
    /\ Return(t)
    /\ UNCHANGED <<states, next, created, mutex, pts, prev>>

(***************************************************************************)
(* Next state relation and specification                                   *)
(***************************************************************************)
AllDone == \A t \in Threads : pc[t] = "idle" /\ prog[t] = <<>>

Finished == AllDone /\ UNCHANGED vars

Step(t) ==
    \/ Call(t)
    \/ GetHead(t) \/ GetFound(t) \/ GetMiss(t) \/ GetNext(t) \/ GetLock(t)
    \/ GetCheck(t) \/ GetUnlink(t) \/ GetRelink(t) \/ GetFront(t)
    \/ EnsureHead(t) \/ EnsureCmp(t) \/ EnsureNext(t)
    \/ NewAlloc(t) \/ NewHead(t) \/ NewCmp(t) \/ NewNext(t) \/ NewInsert(t)
    \/ FreeMain(t) \/ FreeUnlink(t) \/ FreeNode(t)

Next == (\E t \in Threads : Step(t)) \/ Finished

Spec == Init /\ [][Next]_vars /\ \A t \in Threads : WF_vars(Step(t))

(***************************************************************************)
(* Properties                                                              *)
(***************************************************************************)
TypeOK ==
    /\ states \in Ptr
    /\ next \in [Threads -> Ptr]
    /\ created \subseteq Threads /\ freed \subseteq created
    /\ mutex \in Ptr
    /\ mutex # NULL => pc[mutex] \in {"g_check", "g_unlink", "g_relink", "g_front"}
    /\ pc \in [Threads -> Labels]
    /\ prog \in [Threads -> Seq(Calls)]
    /\ pts \in [Threads -> Ptr] /\ prev \in [Threads -> Ptr]

\* Nodes whose owner has them in the registry: created and inserted by
\* PyThreadState_New, not unlinked by PyThreadState_Free, and not between
\* the unlink and the re-insertion of a move to the front.
Registered ==
    {t \in created \ freed :
        pc[t] \notin {"n_head", "n_cmp", "n_next", "n_insert", "f_free",
                      "g_relink", "g_front"}}

OnList(n) == \E i \in DOMAIN List : List[i] = n

\* The list `states` is NULL-terminated, holds no node twice, holds only
\* nodes that are allocated, and holds every registered thread's node,
\* whatever Get, New and Free interleave (the header comment's
\* read-consistency of `states`), as long as no Py_FatalError has ended the
\* process.
RegistryWellFormed ==
    (\A t \in Threads : pc[t] # "fatal") =>
    /\ Len(List) <= Cardinality(Threads)
    /\ \A i, j \in DOMAIN List : i # j => List[i] # List[j]
    /\ \A i \in DOMAIN List : List[i] \in created \ freed
    /\ \A t \in Registered : OnList(t)

\* The node a walk of the list is looking for: its own in Get and Ensure,
\* the main thread's in New.
WalkTarget(t) == IF pc[t] \in {"n_cmp", "n_next"} THEN Main ELSE t

Walking(t) ==
    \/ pc[t] \in {"g_cmp", "g_next", "n_cmp", "n_next"}
    \/ pc[t] \in {"e_cmp", "e_next"} /\ t \in created

\* The header comment's COROLLARY: a thread walking the list for a node that
\* is registered (its own in PyThreadState_Get and PyThreadState_Ensure,
\* main's in PyThreadState_New) always has that node ahead of it, although
\* other threads move their nodes to the front meanwhile.
ReachesOwn ==
    \A t \in Threads :
        Walking(t) =>
            LET ahead == ListFrom(pts[t], Cardinality(Threads) + 1)
            IN  \E i \in DOMAIN ahead : ahead[i] = WalkTarget(t)

\* No thread dereferences a node after PyThreadState_Free has freed it:
\* the lock-free walks of Get, Ensure and New read p->thread_id and
\* p->next, and the recheck of Get reads prev->next.
NoUseAfterFree ==
    \A t \in Threads :
        /\ pc[t] \in {"g_cmp", "g_next", "e_next", "n_cmp", "n_next"}
               => pts[t] \notin freed
        /\ pc[t] = "e_cmp" /\ pts[t] # NULL => pts[t] \notin freed
        /\ pc[t] = "g_check" => prev[t] \notin freed

\* No call ends in Py_FatalError: Get always finds the caller's node, New
\* always finds the main thread's node, Free always finds the caller's.
NoFatalError == \A t \in Threads : pc[t] # "fatal"

\* Every call returns: no walk loops on a cycle, no Py_FatalError, and
\* states_mutex is always released.
Termination == <>AllDone
=============================================================================
