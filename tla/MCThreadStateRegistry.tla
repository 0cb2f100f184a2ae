----------------------- MODULE MCThreadStateRegistry -----------------------
EXTENDS ThreadStateRegistry, TLC

CONSTANTS T1, T2, T3

\* A thread started by thread_PyThread_start_new_thread: Ensure creates its
\* state, Get is every later lookup of the current thread state.
Worker == <<"Ensure", "Get">>

\* Three workers start and look up their state while the others move
\* their nodes to the front (a node two places ahead of a walker can move
\* under it); the main thread checks it has its state; nobody exits.
ProgramMoveToFront ==
    [t \in {Main, T1, T2, T3} |-> IF t = Main THEN <<"Ensure">> ELSE Worker]

\* One worker runs its whole life, Free included, while the main thread
\* only calls Free (which keeps the main state).
ProgramExit ==
    [t \in {Main, T1} |->
        IF t = Main THEN <<"Free", "Free">>
                    ELSE <<"Ensure", "Get", "Ensure", "Get", "Free">>]

\* The main thread looks its state up while a worker exits.
ProgramFreeRace ==
    [t \in {Main, T1} |->
        IF t = Main THEN <<"Get", "Get">> ELSE <<"Ensure", "Get", "Free">>]
\* The registry alone: no thread calls getattro or setattro, and the heap
\* of name strings is empty.
NoNames == [t \in Threads |-> << >>]

NoInterned == << >>
=============================================================================
