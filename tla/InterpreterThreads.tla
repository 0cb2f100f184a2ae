------------------------- MODULE InterpreterThreads -------------------------
(***************************************************************************)
(* The interpreter's native threads with two of the shared structures they *)
(* use: the thread state registry (ThreadStateRegistry) and the attribute  *)
(* name cache of getattro and setattro (NameCache).  A thread is in at     *)
(* most one call at a time, and between calls it may go on with either.    *)
(* The two share the threads and _Py_CritMutex, whose critical sections    *)
(* (the profile and trace functions copied in PyThreadState_New, the cache *)
(* test and store) are single steps of each component.  Registry steps     *)
(* leave the cache alone and start only while the thread is outside        *)
(* getattro (ThreadStateRegistry's Goto, Return and Call); a cache step    *)
(* leaves the registry alone and starts only while the thread is outside   *)
(* every registry call.                                                    *)
(***************************************************************************)
EXTENDS ThreadStateRegistry

CacheStep(t) == NcStep(t) /\ pc[t] = "idle" /\ UNCHANGED regvars

RtStep(t) == Step(t) \/ CacheStep(t)

RtDone == AllDone /\ NcAllDone

RtNext == (\E t \in Threads : RtStep(t)) \/ (RtDone /\ UNCHANGED vars)

\* Every runnable native thread is eventually scheduled.
RtSpec == Init /\ [][RtNext]_vars /\ \A t \in Threads : WF_vars(RtStep(t))

=============================================================================
