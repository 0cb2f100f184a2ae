----------------------------- MODULE NameCache -----------------------------
(***************************************************************************)
(* The single-entry attribute-name cache of getattro and setattro in       *)
(* Objects/mappingobject.c, built with POSSIBLE_OPTIMIZATION: the name     *)
(* object last looked up (last_name_object) and the text pointer into it   *)
(* (last_name_char), read and written only inside Py_CRIT_LOCK.  A         *)
(* critical section is one step: nothing else touches the two globals.     *)
(*                                                                         *)
(* Name strings live at addresses of a small heap.  A string object holds  *)
(* its text inline, so a text pointer is the address of the object, and    *)
(* reading through it after the object was freed reads whatever string     *)
(* now occupies that memory, or nothing.  INCREF and DECREF (object.h,     *)
(* outside this code) are taken as atomic.  Each call's name is either an  *)
(* interned string that code objects keep alive, or a fresh string the     *)
(* caller makes for the call and releases after it.                        *)
(***************************************************************************)
EXTENDS Naturals, Sequences, FiniteSets

CONSTANTS
    Threads,
    Addrs,          \* the heap's string objects
    Texts,          \* the attribute names they can spell
    Interned,       \* the addresses of strings that code objects hold
    InternText,     \* InternText[a]: the text of interned string a
    NULL,           \* the null pointer, and the contents of free memory
    NameProgram     \* NameProgram[t]: the getattro/setattro calls of t

NameCalls == [op : {"getattro", "setattro"}, name : Texts \cup Interned,
              hooked : BOOLEAN]

ASSUME /\ Interned \subseteq Addrs
       /\ InternText \in [Interned -> Texts]
       /\ NULL \notin Addrs \cup Texts
       /\ \A t \in Threads : NameProgram[t] \in Seq(NameCalls)

VARIABLES
    ob_text,            \* ob_text[a]: the text of the string at a, or NULL
    ob_refcnt,          \* ob_refcnt[a]
    last_name_object,
    last_name_char,
    npc,                \* control point of each thread's call
    nprog,              \* the calls still to make; Head is the current one
    name, attr, temp,   \* the C locals of getattro / setattro
    want                \* the text the caller asked for (history)

ncvars == <<ob_text, ob_refcnt, last_name_object, last_name_char, npc, nprog,
            name, attr, temp, want>>

NcInit ==
    /\ ob_text = [a \in Addrs |-> IF a \in Interned THEN InternText[a] ELSE NULL]
    /\ ob_refcnt = [a \in Addrs |-> IF a \in Interned THEN 1 ELSE 0]
    /\ last_name_object = NULL
    /\ last_name_char = NULL
    /\ npc = [t \in Threads |-> "idle"]
    /\ nprog = NameProgram
    /\ name = [t \in Threads |-> NULL]
    /\ attr = [t \in Threads |-> NULL]
    /\ temp = [t \in Threads |-> NULL]
    /\ want = [t \in Threads |-> NULL]

\* A fresh name is a string the caller made for this call.
Fresh(t) == Head(nprog[t]).name \in Texts

\* DECREF: the object is freed when its count reaches zero.
Decref(a) ==
    /\ ob_refcnt' = [ob_refcnt EXCEPT ![a] = @ - 1]
    /\ ob_text' = [ob_text EXCEPT ![a] = IF ob_refcnt[a] = 1 THEN NULL ELSE @]

NcGoto(t, l) == npc' = [npc EXCEPT ![t] = l]

\* The caller passes its name (making a fresh string at a free address
\* first); if v's type has tp_getattro or tp_setattro, the call is
\* delegated to it with name and the cache is not touched.
NameCall(t) ==
    LET c == Head(nprog[t]) IN
    /\ npc[t] = "idle"
    /\ nprog[t] # <<>>
    /\ \/ /\ c.hooked
          /\ nprog' = [nprog EXCEPT ![t] = Tail(@)]
          /\ UNCHANGED <<ob_text, ob_refcnt, npc, name, want>>
       \/ /\ ~c.hooked /\ c.name \in Interned
          /\ name' = [name EXCEPT ![t] = c.name]
          /\ want' = [want EXCEPT ![t] = InternText[c.name]]
          /\ NcGoto(t, "ga_test")
          /\ UNCHANGED <<ob_text, ob_refcnt, nprog>>
       \/ /\ ~c.hooked /\ c.name \in Texts
          /\ \E a \in {x \in Addrs : ob_text[x] = NULL} :
                /\ ob_text' = [ob_text EXCEPT ![a] = c.name]
                /\ ob_refcnt' = [ob_refcnt EXCEPT ![a] = 1]
                /\ name' = [name EXCEPT ![t] = a]
          /\ want' = [want EXCEPT ![t] = c.name]
          /\ NcGoto(t, "ga_test")
          /\ UNCHANGED nprog
    /\ UNCHANGED <<last_name_object, last_name_char, attr, temp>>

\* Py_CRIT_LOCK; a hit takes attr = last_name_char; Py_CRIT_UNLOCK.
CacheTest(t) ==
    /\ npc[t] = "ga_test"
    /\ IF name[t] = last_name_object
       THEN /\ attr' = [attr EXCEPT ![t] = last_name_char]
            /\ NcGoto(t, "ga_use")
       ELSE /\ NcGoto(t, "ga_incref")
            /\ UNCHANGED attr
    /\ UNCHANGED <<ob_text, ob_refcnt, last_name_object, last_name_char, nprog,
                   name, temp, want>>

\* Mutant: the miss stores name in the cache without INCREF(name).
CacheIncrefNoRef(t) ==
    /\ npc[t] = "ga_incref"
    /\ attr' = [attr EXCEPT ![t] = name[t]]
    /\ NcGoto(t, "ga_store")
    /\ UNCHANGED <<ob_text, ob_refcnt, last_name_object, last_name_char, nprog,
                   name, temp, want>>

\* On a miss, outside the lock: INCREF(name), attr = getstringvalue(name).
CacheIncref(t) ==
    /\ npc[t] = "ga_incref"
    /\ ob_refcnt' = [ob_refcnt EXCEPT ![name[t]] = @ + 1]
    /\ attr' = [attr EXCEPT ![t] = name[t]]
    /\ NcGoto(t, "ga_store")
    /\ UNCHANGED <<ob_text, last_name_object, last_name_char, nprog, name, temp,
                   want>>

\* Py_CRIT_LOCK; temp = last_name_object; last_name_object = name;
\* last_name_char = attr; Py_CRIT_UNLOCK.
CacheStore(t) ==
    /\ npc[t] = "ga_store"
    /\ temp' = [temp EXCEPT ![t] = last_name_object]
    /\ last_name_object' = name[t]
    /\ last_name_char' = attr[t]
    /\ NcGoto(t, "ga_decref")
    /\ UNCHANGED <<ob_text, ob_refcnt, nprog, name, attr, want>>

\* Mutant: the replaced entry is never released (no XDECREF(temp)).
CacheDecrefLeak(t) ==
    /\ npc[t] = "ga_decref"
    /\ NcGoto(t, "ga_use")
    /\ UNCHANGED <<ob_text, ob_refcnt, last_name_object, last_name_char, nprog,
                   name, attr, temp, want>>

\* XDECREF(temp): the reference the cache held on the name it replaced.
CacheDecref(t) ==
    /\ npc[t] = "ga_decref"
    /\ IF temp[t] = NULL THEN UNCHANGED <<ob_text, ob_refcnt>>
                         ELSE Decref(temp[t])
    /\ NcGoto(t, "ga_use")
    /\ UNCHANGED <<last_name_object, last_name_char, nprog, name, attr, temp,
                   want>>

\* getattr(v, attr) or setattr(v, attr, value) reads the text at attr; the
\* caller then releases a fresh name.
AttrUse(t) ==
    /\ npc[t] = "ga_use"
    /\ IF Fresh(t) THEN Decref(name[t]) ELSE UNCHANGED <<ob_text, ob_refcnt>>
    /\ NcGoto(t, "idle")
    /\ nprog' = [nprog EXCEPT ![t] = Tail(@)]
    /\ UNCHANGED <<last_name_object, last_name_char, name, attr, temp, want>>

NcIdle(t) == npc[t] = "idle"

NcAllDone == \A t \in Threads : npc[t] = "idle" /\ nprog[t] = <<>>

NcStep(t) ==
    \/ NameCall(t) \/ CacheTest(t) \/ CacheIncref(t) \/ CacheStore(t)
    \/ CacheDecref(t) \/ AttrUse(t)

(***************************************************************************)
(* Properties                                                              *)
(***************************************************************************)
\* getattr and setattr always read the text the caller passed: the pointer
\* taken from last_name_char on a hit, or from the caller's own name on a
\* miss, still points at a live string with that text, whatever other
\* threads have cached or released meanwhile.
AttrIsName == \A t \in Threads : npc[t] = "ga_use" => ob_text[attr[t]] = want[t]

\* Every reference is accounted for: a string's count is the number of its
\* holders (the code object of an interned name, a caller of a fresh one,
\* the cache, a miss between its INCREF and the store into the cache, a
\* replaced entry before its XDECREF), and a string is freed exactly when
\* nobody holds it.
Holders(a) ==
    (IF a \in Interned THEN 1 ELSE 0)
    + Cardinality({t \in Threads : npc[t] # "idle" /\ Fresh(t) /\ name[t] = a})
    + (IF last_name_object = a THEN 1 ELSE 0)
    + Cardinality({t \in Threads : npc[t] = "ga_store" /\ name[t] = a})
    + Cardinality({t \in Threads : npc[t] = "ga_decref" /\ temp[t] = a})

RefsBalanced ==
    \A a \in Addrs : /\ ob_refcnt[a] = Holders(a)
                     /\ (ob_text[a] = NULL) = (ob_refcnt[a] = 0)
=============================================================================
