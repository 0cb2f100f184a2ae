CONSTANTS
    T1 = T1
    T2 = T2
    T3 = T3
    da = da
    db = db
    dc = dc
    dd = dd
    k1 = k1
    k2 = k2
    k3 = k3
    v1 = v1
    v2 = v2
    None = None
    Dummy = Dummy
    NoThread = NoThread
    Ok = Ok
    Err = Err
    Keys = {k1, k2, k3}
    Values = {v1, v2}
    Hash <- HashOf
    Rank <- RankOf
    Primes <- PrimesPrefix
    Threads = {T1, T2}
    Dicts = {da}
    AllocFails = {}
    Program <- ProgramFillRace
SPECIFICATION Spec
CHECK_DEADLOCK FALSE
INVARIANT
    TableConsistent
