-------------------------- MODULE AbstractMapping --------------------------
(***************************************************************************)
(* What Python dictionaries promise their callers: each thread's calls     *)
(* take effect one at a time, in the thread's order, each at once on a     *)
(* finite map from keys to values, and each reports what it saw.           *)
(* MappingObject refines this specification.                               *)
(*                                                                         *)
(* repr, print and compare run over several lock cycles and are not        *)
(* atomic under concurrent writers (spec section 5); what is stated of     *)
(* them here is their result when nobody writes the dictionaries during    *)
(* the call.                                                               *)
(***************************************************************************)
EXTENDS Integers, Sequences, FiniteSets, SequencesExt

CONSTANTS Threads, Dicts, Keys, Values, Rank, None, Ok, Err, AllocFails,
          Program

VARIABLES
    contents,   \* contents[d][k] is the value of k in d, or None
    result,     \* what each thread's last call returned
    pending     \* the calls each thread has still to make

Init ==
    /\ contents = [d \in Dicts |-> [k \in Keys |-> None]]
    /\ result = [t \in Threads |-> None]
    /\ pending = Program

Present(c) == {k \in Keys : c[k] # None}

\* A snapshot as the bag of what it lists: keys, values or (key, value)
\* pairs, each once per entry.
KeyBag(c) == [k \in Present(c) |-> 1]
ValueBag(c) == [v \in {c[k] : k \in Present(c)} |->
                    Cardinality({k \in Present(c) : c[k] = v})]
PairBag(c) == [p \in {<<k, c[k]>> : k \in Present(c)} |-> 1]

Less(x, y) == Rank[x] < Rank[y]
Cmp(x, y) == IF x = y THEN 0 ELSE IF Less(x, y) THEN -1 ELSE 1

\* Spec section 4.5, Compare: equal if both are empty, an empty one first;
\* else the keys of each in order, compared pairwise and then their values
\* at the first pair that differs; else the number of entries decides.
DictCmp(c1, c2) ==
    LET K1 == SetToSortSeq(Present(c1), Less)
        K2 == SetToSortSeq(Present(c2), Less)
        n == Min({Len(K1), Len(K2)})
        Diff == {i \in 1..n : K1[i] # K2[i] \/ c1[K1[i]] # c2[K2[i]]}
        i == Min(Diff)
    IN  CASE Len(K1) = 0 -> IF Len(K2) = 0 THEN 0 ELSE -1
          [] Len(K2) = 0 -> 1
          [] Diff # {} /\ K1[i] # K2[i] -> Cmp(K1[i], K2[i])
          [] Diff # {} -> Cmp(c1[K1[i]], c2[K2[i]])
          [] OTHER -> IF Len(K1) = Len(K2) THEN 0
                      ELSE IF Len(K1) < Len(K2) THEN -1 ELSE 1

Answer(t, r) == result' = [result EXCEPT ![t] = r]
Num(n) == [num |-> n]            \* an int result
ListOf(b) == [bag |-> b]         \* a list or string result
Put(d, c) == contents' = [contents EXCEPT ![d] = c]

\* dictlookup, dictinsert and dictremove: the call they make with a string
\* key built from the C string.
DictOp == [dictlookup |-> "lookup", dictinsert |-> "insert",
           dictremove |-> "remove"]

\* The effect of call c of thread t.  An insert may fail (no memory to grow
\* the table) and then changes nothing; a remove of an absent key is a
\* KeyError; clear() returns nothing; a call that builds a result may run
\* out of memory in a thread whose allocations can fail, and compare then
\* orders the two dictionaries by address.  A dict* helper has the effect
\* of its call, or, when the key string cannot be allocated, none.
RECURSIVE Effect(_, _)
Effect(t, c) ==
    LET m == contents[c.d]
        OrNoMemory(r) == Answer(t, ListOf(r)) \/ (t \in AllocFails /\ Answer(t, Err))
    IN
    CASE c.op \in {"lookup", "has_key"} ->
             Answer(t, m[c.key]) /\ UNCHANGED contents
      [] c.op = "insert" ->
             \/ Put(c.d, [m EXCEPT ![c.key] = c.val]) /\ Answer(t, Ok)
             \/ Answer(t, Err) /\ UNCHANGED contents
      [] c.op = "remove" ->
             /\ Put(c.d, [m EXCEPT ![c.key] = None])
             /\ Answer(t, IF m[c.key] = None THEN Err ELSE Ok)
      [] c.op \in DOMAIN DictOp ->
             \/ Effect(t, [c EXCEPT !.op = DictOp[c.op]])
             \/ /\ t \in AllocFails
                /\ Answer(t, IF c.op = "dictlookup" THEN None ELSE Err)
                /\ UNCHANGED contents
      [] c.op = "clear" ->
             Put(c.d, [k \in Keys |-> None]) /\ UNCHANGED result
      [] c.op = "length" ->
             Answer(t, Num(Cardinality(Present(m)))) /\ UNCHANGED contents
      [] c.op = "keys" -> OrNoMemory(KeyBag(m)) /\ UNCHANGED contents
      [] c.op = "values" -> OrNoMemory(ValueBag(m)) /\ UNCHANGED contents
      [] c.op \in {"items", "repr", "print"} ->
             OrNoMemory(PairBag(m)) /\ UNCHANGED contents
      [] c.op = "compare" ->
             /\ \/ Answer(t, Num(DictCmp(m, contents[c.e])))
                \/ /\ t \in AllocFails /\ c.d # c.e
                   /\ Answer(t, Num(IF Less(c.d, c.e) THEN -1 ELSE 1))
             /\ UNCHANGED contents

Do(t) ==
    /\ pending[t] # <<>>
    /\ Effect(t, Head(pending[t]))
    /\ pending' = [pending EXCEPT ![t] = Tail(@)]

Next == \E t \in Threads : Do(t)

Spec == Init /\ [][Next]_<<contents, result, pending>>
=============================================================================
