------------------------ MODULE MCInterpreterThreads ------------------------
EXTENDS InterpreterThreads, MCThreadStateRegistry

CONSTANTS s1, s2, sx, x, y

\* sx is the interned "x" that code objects hold; s1 and s2 are free memory
\* for the strings callers build.
InternOf == sx :> x

Get(n) == [op |-> "getattro", name |-> n, hooked |-> FALSE]
Set(n) == [op |-> "setattro", name |-> n, hooked |-> FALSE]
Hooked(n) == [op |-> "getattro", name |-> n, hooked |-> TRUE]

\* Both threads look up built names "x" and "y" and the interned "x", so
\* that a hit, a miss that replaces a live entry, and a fresh string built
\* where a released one lay all happen while the other thread is between
\* its cache test and its use of the text.
NamesExit ==
    [t \in {Main, T1} |->
        IF t = Main THEN << Get(x), Set(sx) >>
                    ELSE << Get(y), Hooked(x), Get(x) >>]
=============================================================================
