CONSTANTS
    t1 = t1
    t2 = t2
    t3 = t3
    A = A
    B = B
    C = C
    Threads = {t1, t2}
    Objects = {A, B}
    Records = {r1}
    NoRecord = NoRecord
    NoThread = NoThread
    Reentrant = TRUE
    Program <- ProgramNtReuse

SPECIFICATION Spec

INVARIANT MutualExclusion
CHECK_DEADLOCK FALSE
