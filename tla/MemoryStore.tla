----------------------------- MODULE MemoryStore -----------------------------
(***************************************************************************)
(* The in-memory cache store: createMemoryStore of src/cache/store.ts, its *)
(* NodeCache and the Map whose insertion order it keeps as recency.        *)
(*                                                                         *)
(* NodeCache counts an entry until it is removed, expired or not: a lookup *)
(* removes the expired entry it meets, a periodic sweep removes them all.  *)
(* Neither tells the store.  The insertion order of the Map is the set of  *)
(* its keys and the pairs of them in which the first was inserted first.   *)
(***************************************************************************)
EXTENDS Naturals, FiniteSets

CONSTANTS
    Keys,       \* cache keys
    MaxKeys     \* resolveMemoryCacheMaxKeys()

ASSUME KeysAssumption == IsFiniteSet(Keys)
ASSUME MaxKeysAssumption == MaxKeys \in Nat \ {0}

VARIABLES
    stored,     \* the keys that NodeCache counts
    expired,    \* those whose time to live is over
    tracked,    \* the keys of recency
    older       \* the pairs of tracked keys, in insertion order

vars == <<stored, expired, tracked, older>>

\* older orders the tracked keys strictly and totally.
Ordered ==
    /\ older \subseteq tracked \X tracked
    /\ \A a, b \in tracked :
          /\ a # b => <<a, b>> \in older \/ <<b, a>> \in older
          /\ ~(<<a, b>> \in older /\ <<b, a>> \in older)
    /\ \A a, b, c \in tracked : <<a, b>> \in older /\ <<b, c>> \in older => <<a, c>> \in older

TypeOK ==
    /\ stored \subseteq Keys /\ Cardinality(stored) <= MaxKeys
    /\ expired \subseteq stored
    /\ tracked \subseteq Keys
    /\ Ordered

Init == stored = {} /\ expired = {} /\ tracked = {} /\ older = {}

-----------------------------------------------------------------------------
(* NodeCache                                                               *)

\* del
del(S) == stored' = stored \ S /\ expired' = expired \ S

\* A new key is refused when the cache is full, even one it replaces.
Refuses(S) == Cardinality(S) >= MaxKeys

\* An entry's time to live is over.
Expire(k) ==
    /\ k \in stored \ expired
    /\ expired' = expired \cup {k}
    /\ UNCHANGED <<stored, tracked, older>>

\* The periodic check.
Sweep ==
    /\ expired # {}
    /\ del(expired)
    /\ UNCHANGED <<tracked, older>>

-----------------------------------------------------------------------------
(* recency                                                                 *)

\* recency.delete of the keys of S.
untrack(S) ==
    /\ tracked' = tracked \ S
    /\ older' = older \cap (tracked' \X tracked')

\* Mutant: a key that is tracked already keeps its place.
touch_KeepsPlace(k, S) ==
    LET rest == tracked \ S IN
    IF k \in rest
    THEN untrack(S)
    ELSE /\ tracked' = rest \cup {k}
         /\ older' = (older \cap (rest \X rest)) \cup (rest \X {k})

\* touch(k), after recency.delete of the keys of S.
touch(k, S) ==
    LET rest == tracked \ (S \cup {k}) IN
    /\ tracked' = rest \cup {k}
    /\ older' = (older \cap (rest \X rest)) \cup (rest \X {k})

-----------------------------------------------------------------------------
(* The store                                                               *)

get(k) ==
    \/ k \in stored \ expired /\ touch(k, {}) /\ UNCHANGED <<stored, expired>>
    \/ k \notin stored \ expired /\ del({k}) /\ untrack({k})

delete(k) == del({k}) /\ untrack({k})

\* Mutant: the loop goes on only while the cache is over its bound.
Full_OffByOne(S) == Cardinality(S) > MaxKeys

\* The loop condition of makeRoom.
Full(S) == Cardinality(S) >= MaxKeys

\* makeRoom's loop takes the keys of popped, oldest first and each while the
\* cache is full, until there is room or recency is empty.
Pops(queue, held, popped) ==
    /\ \A x \in popped, y \in queue : <<y, x>> \in older => y \in popped
    /\ \A x \in popped : Full(held \ {y \in popped : <<y, x>> \in older})
    /\ Full(held \ popped) => popped = queue

\* Its fallback then takes any keys that NodeCache still has, one by one.
FallsBack(held, taken) ==
    IF Full(held) THEN Cardinality(held \ taken) = MaxKeys - 1 ELSE taken = {}

\* makeRoom, c.set and, unless that throws, touch.
set(k) ==
    LET held == stored \ {k}  queue == tracked \ {k} IN
    \E popped \in SUBSET queue : \E taken \in SUBSET (held \ popped) :
        /\ Pops(queue, held, popped) /\ FallsBack(held \ popped, taken)
        /\ IF Refuses(held \ (popped \cup taken))
           THEN del(popped \cup taken \cup {k}) /\ untrack(popped \cup {k})
           ELSE /\ stored' = (held \ (popped \cup taken)) \cup {k}
                /\ expired' = expired \ (popped \cup taken \cup {k})
                /\ touch(k, popped)

-----------------------------------------------------------------------------
Next ==
    \/ \E k \in Keys : get(k) \/ set(k) \/ delete(k) \/ Expire(k)
    \/ Sweep

Spec == Init /\ [][Next]_vars

-----------------------------------------------------------------------------
(* Properties                                                              *)

\* Every entry is tracked, whatever expires unseen, so that the fallback, which
\* evicts an arbitrary entry, is never needed.
Tracked == stored \subseteq tracked

\* A set always finds room, at any bound and with any expired entries around.
AlwaysAccepts == [][\A k \in Keys : set(k) => k \in stored']_vars

\* The store is an LRU cache: a set evicts at most one entry, the one that was
\* read or written the longest time ago.
order == older \cap (stored \X stored)
LRUSpec == INSTANCE LRU WITH Capacity <- MaxKeys, kept <- stored, before <- order
ImplementsLRU == LRUSpec!Spec

(* Stated by the documentation                                             *)

\* "bounded to CACHE_MAX_KEYS": so are the keys the process keeps for recency.
RecencyBounded == Cardinality(tracked) <= MaxKeys
=============================================================================
