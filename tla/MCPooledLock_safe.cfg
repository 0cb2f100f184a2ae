CONSTANTS
    t1 = t1
    t2 = t2
    t3 = t3
    A = A
    B = B
    C = C
    Threads = {t1, t2, t3}
    Objects = {A, B, C}
    Records = {r1, r2}
    NoRecord = NoRecord
    NoThread = NoThread
    Reentrant = FALSE
    Program <- ProgramSafe

SPECIFICATION Spec

INVARIANT TypeOK
INVARIANT MutualExclusion
INVARIANT PoolIntegrity
INVARIANT NoSelfBlock
INVARIANT PoolRestored
PROPERTY ObjectLockSpec
PROPERTY NoFalseDeadlock
PROPERTY Termination
