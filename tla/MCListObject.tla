---------------------------- MODULE MCListObject ----------------------------
(***************************************************************************)
(* Model-checking instances of ListObject: two threads, two lists, items  *)
(* 1 and 2, and an 8-bit C int so that list_repeat's size * n can wrap.   *)
(***************************************************************************)
EXTENDS ListObject, TLC

CONSTANTS T1, T2, A, B

\* One call of the list API: c(op, l, m, i, j, v).
C(op, l, m, i, j, v) == [op |-> op, l |-> l, m |-> m, i |-> i, j |-> j, v |-> v]
Add(l, v) == C("append", l, l, 0, 0, v)
Insert(l, i, v) == C("insert", l, l, i, 0, v)
Item(l, i) == C("item", l, l, i, 0, NULL)
SetItem(l, i, v) == C("ass_item", l, l, i, 0, v)
SetListItem(l, i, v) == C("setitem", l, l, i, 0, v)
DelSlice(l, lo, hi) == C("del", l, l, lo, hi, NULL)
Assign(l, lo, hi, m) == C("assign", l, m, lo, hi, NULL)
Sort(l) == C("sort", l, l, 0, 0, NULL)
SortCmp(l, d) == C("sortcmp", l, l, d, 0, NULL)
Rev(l) == C("reverse", l, l, 0, 0, NULL)
Slice(l, lo, hi) == C("slice", l, l, lo, hi, NULL)
Concat(l, m) == C("concat", l, m, 0, 0, NULL)
Repeat(l, n) == C("repeat", l, l, n, 0, NULL)
Tuple(l) == C("tuple", l, l, 0, 0, NULL)
Index(l, v) == C("index", l, l, 0, 0, v)
Count(l, v) == C("count", l, l, 0, 0, v)
RemoveItem(l, v) == C("remove", l, l, 0, 0, v)
Compare(l, m) == C("compare", l, m, 0, 0, NULL)
ReprList(l) == C("repr", l, l, 0, 0, NULL)
PrintList(l) == C("print", l, l, 0, 0, NULL)

\* T1 uses every operation on A and B; T2 only reads A while T1 works.
ProgramSequential ==
    (T1 :> << Add(A, 2), Add(A, 1), Insert(A, -1, 2), Add(B, 1),
              Assign(A, 1, 2, B), Item(A, 3), SetItem(A, 2, 2), SetListItem(A, 1, 1),
              SetListItem(A, -1, 2), Sort(A),
              Rev(A), SortCmp(A, -1), Compare(A, B), Compare(B, B), ReprList(A), PrintList(A),
              Concat(A, B), Repeat(A, 2), Tuple(A), Count(A, 2),
              Index(A, 1), RemoveItem(A, 1), SetItem(A, 0, NULL),
              SetItem(A, 5, 1), DelSlice(A, 0, 9), RemoveItem(A, 2),
              Compare(A, B) >>)
    @@ (T2 :> << Item(A, 0), Slice(A, 1, 3), Index(A, 1), Count(A, 1) >>)

\* T1 compares, renders and copies A while T2 shrinks it; allocations may fail; A + A; a repeat
\* whose size * n is negative as an 8-bit int.
ProgramShrink ==
    (T1 :> << Insert(A, 0, 1), Insert(A, 0, 2), SetItem(A, 1, 2),
              Slice(A, 0, 2),
              Compare(A, A), ReprList(A), PrintList(A),
              Concat(A, A), Concat(A, B), Tuple(A), Repeat(A, 64) >>)
    @@ (T2 :> << DelSlice(A, 0, 1), RemoveItem(A, 2) >>)

\* Two threads append to A at once.
ProgramAppendRace ==
    (T1 :> << Add(A, 1) >>) @@ (T2 :> << Add(A, 2) >>)
=============================================================================
