CONSTANTS
    t1 = t1
    t2 = t2
    t3 = t3
    A = A
    B = B
    C = C
    Threads = {t1, t2}
    Objects = {A, B, C}
    Records = {r1, r2}
    NoRecord = NoRecord
    NoThread = NoThread
    Reentrant = FALSE
    Program <- ProgramLazyRace

SPECIFICATION Spec

INVARIANT PoolRestored
CHECK_DEADLOCK FALSE
