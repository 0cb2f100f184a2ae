---------------------------- MODULE AbstractList ----------------------------
(***************************************************************************)
(* What the list object promises its callers (spec sections 4.4 and 5):   *)
(* every operation that completes in one lock cycle (and Concat, whose    *)
(* size is "as observed once both locks are held") takes effect at once  *)
(* on the list, in each thread's call order.  Slice and the index, count  *)
(* and remove scans span several lock cycles and are not linearizable:    *)
(* their results are unconstrained, but a remove that succeeds deletes    *)
(* one element equal to its argument.  list_compare, list_repr and       *)
(* list_print span several lock cycles too; what is stated of them is     *)
(* their result when no other thread writes the lists during the call     *)
(* (the lexicographic order, every item in order), so the runs checking   *)
(* this module let only the writing thread call them.  ListObject refines  *)
(* this module.                                                           *)
(***************************************************************************)
EXTENDS Integers, Sequences, SequencesExt

CONSTANTS Threads, Lists, NULL, Program

VARIABLES
    contents,   \* contents[l]: the items of list l
    result,     \* what each thread's last call returned
    pending     \* the calls each thread has still to make

Ret(k, s) == [kind |-> k, seq |-> s]
Ok == Ret("ok", <<>>)

Init ==
    /\ contents = [l \in Lists |-> <<>>]
    /\ result = [t \in Threads |-> Ok]
    /\ pending = Program

\* Python's clamping of a slice [lo:hi] of a list of n items.
ClampLo(lo, n) == IF lo < 0 THEN 0 ELSE IF lo > n THEN n ELSE lo
ClampHi(hi, lo, n) == IF hi < lo THEN lo ELSE IF hi > n THEN n ELSE hi
Seg(s, lo, hi) == SubSeq(s, lo + 1, hi)

(* Lexicographic order of two lists of integers (spec section 4.4): the   *)
(* first differing pair of items decides, else the difference in length. *)
LexCmp(s1, s2) ==
    LET D == {k \in 1..Min({Len(s1), Len(s2)}) : s1[k] # s2[k]}
    IN  IF D = {} THEN Len(s1) - Len(s2)
        ELSE IF s1[Min(D)] < s2[Min(D)] THEN -1 ELSE 1

(* Sort with a comparison function (spec section 4.4) sorts in place by   *)
(* the function's order; an error the function raises aborts the sort,    *)
(* leaving the items in place in some order.                              *)
Rearranged(s) ==
    {[k \in DOMAIN s |-> s[f[k]]] : f \in Bijection(DOMAIN s, DOMAIN s)}

Answer(t, r) == result' = [result EXCEPT ![t] = r]
Set(l, s) == contents' = [contents EXCEPT ![l] = s]
Fail(t, k) == Answer(t, Ret(k, <<>>)) /\ UNCHANGED contents
Give(t, k, s) == Answer(t, Ret(k, s)) /\ UNCHANGED contents

Effect(t, c) ==
    LET s == contents[c.l]
        n == Len(s)
        lo == ClampLo(c.i, n)
        hi == ClampHi(c.j, lo, n)
    IN
    CASE c.op \in {"append", "insert"} ->
            LET w == IF c.op = "append" THEN n ELSE ClampLo(c.i, n)
            IN  \/ Set(c.l, InsertAt(s, w + 1, c.v)) /\ Answer(t, Ok)
                \/ Fail(t, "MemoryError")
      [] c.op = "item" ->
            IF c.i < 0 \/ c.i >= n THEN Fail(t, "IndexError")
            ELSE Give(t, "item", <<s[c.i + 1]>>)
      [] c.op = "ass_item" ->
            IF c.i < 0 \/ c.i >= n THEN Fail(t, "IndexError")
            ELSE /\ Set(c.l, IF c.v = NULL THEN RemoveAt(s, c.i + 1)
                             ELSE [s EXCEPT ![c.i + 1] = c.v])
                 /\ Answer(t, Ok)
      [] c.op = "setitem" ->
            IF c.i < 0 \/ c.i >= n THEN Fail(t, "IndexError")
            ELSE Set(c.l, [s EXCEPT ![c.i + 1] = c.v]) /\ Answer(t, Ok)
      [] c.op = "del" ->
            Set(c.l, Seg(s, 0, lo) \o Seg(s, hi, n)) /\ Answer(t, Ok)
      [] c.op = "assign" ->
            LET r == contents[c.m]
            IN  \/ Set(c.l, Seg(s, 0, lo) \o r \o Seg(s, hi, n))
                   /\ Answer(t, Ok)
                \/ Len(r) > hi - lo /\ Fail(t, "MemoryError")
      [] c.op = "sort" ->
            Set(c.l, SortSeq(s, <)) /\ Answer(t, Ok)
      [] c.op = "sortcmp" ->
            \/ /\ Set(c.l, SortSeq(s, LAMBDA a, b : IF c.i >= 0 THEN a < b
                                                          ELSE a > b))
               /\ Answer(t, Ok)
            \/ /\ n > 1
               /\ \E p \in Rearranged(s) : Set(c.l, p)
               /\ Answer(t, Ret("CmpError", <<>>))
      [] c.op = "reverse" ->
            Set(c.l, Reverse(s)) /\ Answer(t, Ok)
      [] c.op = "concat" ->
            \/ Give(t, "list", s \o contents[c.m])
            \/ Fail(t, "MemoryError")
      [] c.op = "repeat" ->
            \/ Give(t, "list", FlattenSeq([k \in 1..c.i |-> s]))
            \/ Fail(t, "MemoryError")
      [] c.op = "tuple" ->
            Give(t, "list", s) \/ Fail(t, "MemoryError")
      [] c.op = "compare" ->
            Give(t, "int", <<LexCmp(s, contents[c.m])>>)
      [] c.op \in {"repr", "print"} ->
            \/ Give(t, "list", s)
            \/ Fail(t, IF c.op = "repr" THEN "MemoryError" ELSE "IOError")
      [] c.op \in {"slice", "index", "count"} ->
            UNCHANGED contents
      [] c.op = "remove" ->
            \/ Fail(t, "ValueError")
            \/ /\ \E k \in 1..n : s[k] = c.v /\ Set(c.l, RemoveAt(s, k))
               /\ Answer(t, Ok)

Do(t) ==
    /\ pending[t] # <<>>
    /\ Effect(t, Head(pending[t]))
    /\ pending' = [pending EXCEPT ![t] = Tail(@)]

Next == \E t \in Threads : Do(t)

Spec == Init /\ [][Next]_<<contents, result, pending>>
=============================================================================
