-------------------------- MODULE MCMappingObject --------------------------
EXTENDS MappingObject, TLC

CONSTANTS T1, T2, T3, da, db, dc, dd, k1, k2, k3, v1, v2

\* k1 and k2 share a slot in tables of 3 and of 7 slots, k2 and k3 in the
\* table of 3: every probe path has collisions to step over.
HashOf == (k1 :> 0) @@ (k2 :> 7) @@ (k3 :> 1)

\* cmpobject orders k1 < k2 < k3 and v1 < v2; the dictionaries lie in
\* memory in the order da, db, dc, dd.
RankOf == (k1 :> 1) @@ (k2 :> 2) @@ (k3 :> 3) @@ (v1 :> 1) @@ (v2 :> 2)
          @@ (da :> 1) @@ (db :> 2) @@ (dc :> 3) @@ (dd :> 4)

PrimesPrefix == <<3, 7, 13>>

Ins(d, k, v) == [op |-> "insert", d |-> d, key |-> k, val |-> v]
Look(d, k) == [op |-> "lookup", d |-> d, key |-> k]
Has(d, k) == [op |-> "has_key", d |-> d, key |-> k]
Del(d, k) == [op |-> "remove", d |-> d, key |-> k]
DLook(d, k) == [op |-> "dictlookup", d |-> d, key |-> k]
DIns(d, k, v) == [op |-> "dictinsert", d |-> d, key |-> k, val |-> v]
DDel(d, k) == [op |-> "dictremove", d |-> d, key |-> k]
Op(o, d) == [op |-> o, d |-> d]
Compare(d, e) == [op |-> "compare", d |-> d, e |-> e]

\* T1 writes da and db and may not run out of memory: it grows da from
\* NULL to 3 slots, leaves a dummy, rehashes into 3 slots and then 7,
\* replaces a value, misses a key; it compares da with db holding the same
\* pairs inserted in another order (equal), differing in one value (both
\* orders), in the first key, and as a prefix (the sizes decide); it lists,
\* renders, counts and clears da and compares an empty side.  It also asks
\* has_key of dc while T2 writes it.  T2 works on dc and dd alone and
\* every allocation of its calls may fail: the first insert (no table yet)
\* fails, a later one that only replaces a value goes ahead; its replace,
\* remove and missing lookup go through the dict* helpers, whose key
\* string may fail to allocate; and the
\* snapshots, renderings and compare may end in MemoryError.
ProgramOneWriter ==
    (T1 :> << Has(dc, k2), Ins(da, k1, v1), Ins(da, k2, v1), Del(da, k1),
              Del(da, k1), Has(dc, k1), Ins(da, k3, v2), Ins(da, k2, v2),
              Op("keys", da), Look(da, k1), Ins(db, k3, v2), Ins(db, k2, v2),
              Compare(da, db), Ins(db, k2, v1), Compare(da, db),
              Compare(db, da), Ins(db, k1, v2), Compare(da, db), Del(db, k3),
              Del(db, k1), Ins(db, k2, v2), Compare(da, db), Op("values", da),
              Op("items", da), Op("repr", da), Op("print", db),
              Op("length", da), Op("clear", da), Compare(da, db),
              Compare(db, da), Compare(db, db), Look(da, k2), Del(da, k2) >>)
    @@ (T2 :> << Ins(dc, k1, v1), Ins(dc, k2, v1), DIns(dc, k2, v2),
                 DDel(dc, k1), DLook(dc, k3), Ins(dd, k1, v1), Compare(dc, dd),
                 Op("items", dc), Op("repr", dc), Op("print", dc),
                 Op("keys", dd) >>)

\* Two threads insert into da at once: both read ma_fill = 1 before either
\* locks, neither resizes, and the third key takes the last NULL slot.
ProgramFillRace ==
    (T1 :> << Ins(da, k1, v1), Ins(da, k2, v1) >>)
    @@ (T2 :> << Ins(da, k3, v2) >>)

\* A lookup and a remove race with clear().
ProgramClearRace ==
    (T1 :> << Ins(da, k1, v1), Look(da, k1), Del(da, k1) >>)
    @@ (T2 :> << Op("clear", da) >>)
=============================================================================
