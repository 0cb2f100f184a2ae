CONSTANTS
    Main = Main
    T1 = T1
    T2 = T2
    T3 = T3
    NULL = NULL
    Threads = {Main, T1, T2, T3}
    Addrs = {}
    Texts = {}
    Interned = {}
    InternText <- NoInterned
    NameProgram <- NoNames
    Program <- ProgramMoveToFront
SPECIFICATION Spec
INVARIANTS
    TypeOK
    ReachesOwn
    RegistryWellFormed
    NoFatalError
PROPERTIES
    Termination
