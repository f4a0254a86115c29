--------------------------------- MODULE LRU ---------------------------------
(***************************************************************************)
(* What the memory cache promises: a bounded set of keys that gives up the *)
(* least recently used key, and no other, when a new one needs its place.  *)
(***************************************************************************)
EXTENDS FiniteSets, Naturals

CONSTANTS
    Keys,
    Capacity    \* how many keys are kept at most

VARIABLES
    kept,       \* the keys in the cache
    before      \* the pairs of kept keys, the less recently used one first

vars == <<kept, before>>

Init == kept = {} /\ before = {}

\* Keep the keys of S in their order, and k as the most recently used one.
KeepThen(S, k) ==
    /\ kept' = S \cup {k}
    /\ before' = (before \cap (S \X S)) \cup (S \X {k})

Use(k) == k \in kept /\ KeepThen(kept \ {k}, k)

LeastRecentlyUsed(S) == {o \in S : \A p \in S \ {o} : <<o, p>> \in before}

Store(k) ==
    LET others == kept \ {k} IN
    \/ Cardinality(others) < Capacity /\ KeepThen(others, k)
    \/ /\ Cardinality(others) = Capacity
       /\ \E o \in LeastRecentlyUsed(others) : KeepThen(others \ {o}, k)

\* Keys are deleted or their time to live is over.
Lose(S) ==
    /\ kept' = kept \ S
    /\ before' = before \cap (kept' \X kept')

Next ==
    \/ \E k \in Keys : Use(k) \/ Store(k)
    \/ \E S \in SUBSET kept : Lose(S)

Spec == Init /\ [][Next]_vars
=============================================================================
