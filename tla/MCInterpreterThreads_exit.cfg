CONSTANTS
    Main = Main
    T1 = T1
    T2 = T2
    T3 = T3
    NULL = NULL
    s1 = s1
    s2 = s2
    sx = sx
    x = x
    y = y
    Threads = {Main, T1}
    Program <- ProgramExit
    Addrs = {s1, s2, sx}
    Texts = {x, y}
    Interned = {sx}
    InternText <- InternOf
    NameProgram <- NamesExit
SPECIFICATION RtSpec
INVARIANTS
    AttrIsName
    RefsBalanced
