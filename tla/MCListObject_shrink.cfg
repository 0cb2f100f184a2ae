CONSTANTS
    T1 = T1
    T2 = T2
    A = A
    B = B
    NULL = NULL
    NoThread = NoThread
    Threads = {T1, T2}
    Lists = {A, B}
    Values = {1, 2}
    IntBits = 8
    AllocFails = {T1}
    Program <- ProgramShrink

SPECIFICATION Spec

INVARIANT TypeOK
INVARIANT MemorySafe
PROPERTY Termination
