-------------------------- MODULE MemoryStoreProofs --------------------------
(***************************************************************************)
(* Proofs about the in-memory cache store, for any finite set of keys and  *)
(* any bound: its types with the bound, that every entry is tracked, that  *)
(* a set never fails, and that the store is an LRU cache.                  *)
(*                                                                         *)
(* All follow from the types and Tracked, which are inductive together:    *)
(* the loop of makeRoom pops keys that NodeCache has lost already until it *)
(* meets the oldest entry, and one entry less is room enough.              *)
(***************************************************************************)
EXTENDS MemoryStore, FiniteSetTheorems, TLAPS

USE KeysAssumption, MaxKeysAssumption

Inv == TypeOK /\ Tracked

-----------------------------------------------------------------------------
(* The insertion order                                                     *)

\* Removing keys from a Map keeps the order of the others.
LEMMA UntrackOrder ==
    ASSUME Ordered, NEW S, untrack(S)
    PROVE  Ordered'
<1>1. tracked' \subseteq tracked /\ older' \subseteq tracked' \X tracked'
  BY Zenon DEF untrack
<1>2. \A a, b \in tracked' : <<a, b>> \in older' <=> <<a, b>> \in older
  BY Zenon DEF untrack
<1> QED BY <1>1, <1>2 DEF Ordered

\* A touched key becomes the youngest, and the others keep their order.
LEMMA TouchOrder ==
    ASSUME Ordered, NEW k, NEW S, touch(k, S)
    PROVE  Ordered'
BY DEF Ordered, touch

-----------------------------------------------------------------------------
(* makeRoom                                                                *)

\* Sets of keys are finite, and a smaller one has fewer keys.
LEMMA KeySets ==
    ASSUME NEW S \in SUBSET Keys
    PROVE  /\ IsFiniteSet(S) /\ Cardinality(S) \in Nat
           /\ \A T \in SUBSET S : Cardinality(T) <= Cardinality(S)
           /\ \A x \in S : Cardinality(S \ {x}) = Cardinality(S) - 1
<1>1. IsFiniteSet(S)
  BY FS_Subset
<1> QED
  BY <1>1, FS_Subset, FS_CardinalityType, FS_RemoveElement

\* The loop pops nothing while there is room, and otherwise exactly one entry,
\* the oldest; then there is room.
LEMMA Popping ==
    ASSUME Inv, NEW k \in Keys, NEW popped \in SUBSET (tracked \ {k}),
           Pops(tracked \ {k}, stored \ {k}, popped)
    PROVE  /\ Cardinality((stored \ {k}) \ popped) \in Nat
           /\ Cardinality((stored \ {k}) \ popped) < MaxKeys
           /\ \/ Cardinality(stored \ {k}) < MaxKeys /\ popped = {}
              \/ /\ Cardinality(stored \ {k}) = MaxKeys
                 /\ \E o \in stored \ {k} :
                       /\ (stored \ {k}) \cap popped = {o}
                       /\ \A p \in (stored \ {k}) \ {o} : <<o, p>> \in older
<1> DEFINE held == stored \ {k}
           queue == tracked \ {k}
<1>1. held \in SUBSET Keys /\ held \subseteq queue
  BY DEF Inv, TypeOK, Tracked
<1>2. Cardinality(held) \in Nat /\ Cardinality(held) <= MaxKeys
  <2>1. stored \in SUBSET Keys /\ held \in SUBSET stored /\ Cardinality(stored) <= MaxKeys
    BY DEF Inv, TypeOK
  <2> QED BY <2>1, <1>1, KeySets
<1>3. \A T \in SUBSET held : Cardinality(T) \in Nat /\ Cardinality(T) <= Cardinality(held)
  BY <1>1, KeySets
<1>4. CASE Cardinality(held) < MaxKeys
  <2>1. ASSUME NEW x \in popped PROVE FALSE
    <3> DEFINE left == held \ {y \in popped : <<y, x>> \in older}
    <3>1. Cardinality(left) >= MaxKeys /\ left \in SUBSET held
      BY <2>1 DEF Pops, Full
    <3> HIDE DEF left
    <3> QED BY <3>1, <1>2, <1>3, <1>4
  <2> QED BY <2>1, <1>2, <1>3, <1>4
<1>5. CASE Cardinality(held) = MaxKeys
  <2>1. PICK o \in held : o \in popped
    <3> SUFFICES ASSUME held \cap popped = {} PROVE FALSE
      OBVIOUS
    <3>1. held \ popped = held
      OBVIOUS
    <3>2. popped = queue
      BY <3>1, <1>5 DEF Pops, Full
    <3>3. held = {}
      BY <3>2, <1>1
    <3> QED BY <3>3, <1>5, FS_EmptySet
  <2>2. ASSUME NEW x \in held \cap popped, NEW y \in held \cap popped, <<y, x>> \in older
        PROVE  FALSE
    <3> DEFINE left == held \ {z \in popped : <<z, x>> \in older}
    <3>1. Cardinality(left) >= MaxKeys
      BY <2>2 DEF Pops, Full
    <3>2. left \in SUBSET (held \ {y}) /\ held \ {y} \in SUBSET Keys
      BY <2>2, <1>1
    <3>3. Cardinality(left) <= Cardinality(held \ {y}) /\ Cardinality(left) \in Nat
      <4> HIDE DEF left
      <4> QED BY <3>2, <1>3, KeySets
    <3>4. Cardinality(held \ {y}) = Cardinality(held) - 1
      BY <1>1, <2>2, KeySets
    <3> QED BY <3>1, <3>3, <3>4, <1>5
  <2>3. \A p \in held \ {o} : p \notin popped
    BY <2>1, <2>2, <1>1 DEF Inv, TypeOK, Ordered
  <2>4. \A p \in held \ {o} : <<o, p>> \in older
    BY <2>1, <2>3, <1>1 DEF Pops, Inv, TypeOK, Ordered
  <2>5. held \ popped = held \ {o} /\ held \cap popped = {o}
    BY <2>1, <2>3
  <2>6. Cardinality(held \ {o}) = Cardinality(held) - 1
    BY <1>1, <2>1, KeySets
  <2> QED BY <2>4, <2>5, <2>6, <1>5
<1> QED BY <1>2, <1>4, <1>5

\* A set removes nothing from a cache with room, and the least recently used of
\* the other entries from a full one; then it stores and tracks its key.
LEMMA Setting ==
    ASSUME Inv, NEW k \in Keys, set(k)
    PROVE  \E evicted \in SUBSET (stored \ {k}), popped \in SUBSET (tracked \ {k}) :
              /\ evicted = popped \cap (stored \ {k})
              /\ \/ Cardinality(stored \ {k}) < MaxKeys /\ evicted = {}
                 \/ /\ Cardinality(stored \ {k}) = MaxKeys
                    /\ \E o \in stored \ {k} :
                          /\ evicted = {o}
                          /\ \A p \in (stored \ {k}) \ {o} : <<o, p>> \in older
              /\ Cardinality((stored \ {k}) \ evicted) < MaxKeys
              /\ stored' = ((stored \ {k}) \ evicted) \cup {k}
              /\ expired' = expired \ (evicted \cup {k})
              /\ touch(k, popped)
<1> DEFINE held == stored \ {k}
           queue == tracked \ {k}
<1>0. PICK popped \in SUBSET queue : \E taken \in SUBSET (held \ popped) :
        /\ Pops(queue, held, popped) /\ FallsBack(held \ popped, taken)
        /\ IF Refuses(held \ (popped \cup taken))
           THEN del(popped \cup taken \cup {k}) /\ untrack(popped \cup {k})
           ELSE /\ stored' = (held \ (popped \cup taken)) \cup {k}
                /\ expired' = expired \ (popped \cup taken \cup {k})
                /\ touch(k, popped)
  BY Zenon DEF set
<1>1. PICK taken \in SUBSET (held \ popped) :
        /\ Pops(queue, held, popped) /\ FallsBack(held \ popped, taken)
        /\ IF Refuses(held \ (popped \cup taken))
           THEN del(popped \cup taken \cup {k}) /\ untrack(popped \cup {k})
           ELSE /\ stored' = (held \ (popped \cup taken)) \cup {k}
                /\ expired' = expired \ (popped \cup taken \cup {k})
                /\ touch(k, popped)
  BY Zenon, <1>0
<1>2. /\ Cardinality(held \ popped) \in Nat
      /\ Cardinality(held \ popped) < MaxKeys
      /\ \/ Cardinality(held) < MaxKeys /\ popped = {}
         \/ /\ Cardinality(held) = MaxKeys
            /\ \E o \in held : /\ held \cap popped = {o}
                               /\ \A p \in held \ {o} : <<o, p>> \in older
  BY <1>1, Popping
<1>3. taken = {}
  BY <1>1, <1>2 DEF FallsBack, Full
<1>4. ~Refuses(held \ (popped \cup taken))
  BY <1>2, <1>3 DEF Refuses
<1>5. /\ stored' = (held \ popped) \cup {k}
      /\ expired' = expired \ (popped \cup {k})
      /\ touch(k, popped)
  BY <1>1, <1>3, <1>4
<1>6. expired \subseteq stored
  BY DEF Inv, TypeOK
<1>7. held \ popped = held \ (popped \cap held)
  OBVIOUS
<1>8. expired' = expired \ ((popped \cap held) \cup {k})
  BY <1>5, <1>6
<1> WITNESS popped \cap held \in SUBSET (stored \ {k}), popped \in SUBSET (tracked \ {k})
<1> QED BY <1>2, <1>5, <1>7, <1>8

-----------------------------------------------------------------------------
(* The invariant                                                           *)

\* One key more than fewer than MaxKeys are at most MaxKeys.
LEMMA OneMore ==
    ASSUME NEW S \in SUBSET Keys, Cardinality(S) < MaxKeys, NEW k \in Keys
    PROVE  Cardinality(S \cup {k}) <= MaxKeys
BY KeySets, FS_AddElement

\* Every step keeps the types, the bound and the order, and tracks what it
\* stores.
LEMMA InvStep == Inv /\ [Next]_vars => Inv'
<1> SUFFICES ASSUME Inv, [Next]_vars PROVE Inv'
  OBVIOUS
<1>0. /\ stored \in SUBSET Keys /\ Cardinality(stored) <= MaxKeys
      /\ expired \subseteq stored /\ stored \subseteq tracked /\ tracked \subseteq Keys
      /\ Ordered
  BY DEF Inv, TypeOK, Tracked
\* Entries are lost, in NodeCache or in both.
<1>1. ASSUME NEW S, del(S), stored' \subseteq tracked', tracked' \subseteq tracked,
             Ordered'
      PROVE  Inv'
  <2>1. stored' \in SUBSET stored /\ expired' \subseteq stored'
    BY <1>0, <1>1 DEF del
  <2>2. Cardinality(stored') <= MaxKeys
    <3>1. Cardinality(stored) \in Nat /\ Cardinality(stored') <= Cardinality(stored)
          /\ Cardinality(stored') \in Nat
      BY <1>0, <2>1, KeySets
    <3> QED BY <1>0, <3>1
  <2> QED BY <1>0, <1>1, <2>1, <2>2 DEF Inv, TypeOK, Tracked
<1>2. ASSUME NEW k \in Keys, delete(k) \/ (del({k}) /\ untrack({k})) PROVE Inv'
  <2>1. del({k}) /\ untrack({k})
    BY <1>2 DEF delete
  <2>2. Ordered'
    BY <1>0, <2>1, UntrackOrder
  <2>3. stored' \subseteq tracked' /\ tracked' \subseteq tracked
    BY <1>0, <2>1 DEF del, untrack
  <2> QED BY <1>1, <2>1, <2>2, <2>3
<1>3. ASSUME NEW k \in Keys, get(k) PROVE Inv'
  <2>1. CASE k \in stored \ expired /\ touch(k, {}) /\ UNCHANGED <<stored, expired>>
    <3>1. Ordered'
      BY <1>0, <2>1, TouchOrder
    <3>2. tracked' = tracked
      BY <1>0, <2>1 DEF touch
    <3> QED BY <1>0, <2>1, <3>1, <3>2 DEF Inv, TypeOK, Tracked
  <2> QED BY <1>2, <1>3, <2>1 DEF get
<1>4. ASSUME NEW k \in Keys, set(k) PROVE Inv'
  <2>1. PICK evicted \in SUBSET (stored \ {k}), popped \in SUBSET (tracked \ {k}) :
           /\ evicted = popped \cap (stored \ {k})
           /\ Cardinality((stored \ {k}) \ evicted) < MaxKeys
           /\ stored' = ((stored \ {k}) \ evicted) \cup {k}
           /\ expired' = expired \ (evicted \cup {k})
           /\ touch(k, popped)
    BY <1>4, Setting
  <2>2. Ordered'
    BY <1>0, <2>1, TouchOrder
  <2>3. Cardinality(stored') <= MaxKeys
    BY <1>0, <2>1, OneMore
  <2>4. /\ stored' \subseteq Keys /\ expired' \subseteq stored'
        /\ tracked' \subseteq Keys /\ stored' \subseteq tracked'
    BY <1>0, <2>1 DEF touch
  <2> QED BY <2>2, <2>3, <2>4 DEF Inv, TypeOK, Tracked
<1>5. ASSUME NEW k \in Keys, Expire(k) PROVE Inv'
  BY <1>0, <1>5 DEF Expire, Inv, TypeOK, Tracked, Ordered
<1>6. CASE Sweep
  <2>1. UNCHANGED <<tracked, older>> /\ del(expired)
    BY <1>6 DEF Sweep
  <2>2. Ordered' /\ stored' \subseteq tracked'
    BY <1>0, <2>1 DEF Ordered, del
  <2> QED BY <1>1, <2>1, <2>2
<1>7. CASE UNCHANGED vars
  BY <1>0, <1>7 DEF vars, Inv, TypeOK, Tracked, Ordered
<1> QED
  BY <1>2, <1>3, <1>4, <1>5, <1>6, <1>7 DEF Next

\* Types and tracking hold in every reachable state.
THEOREM InvInvariant == Spec => []Inv
<1>1. Init => Inv
  BY FS_EmptySet DEF Init, Inv, TypeOK, Tracked, Ordered
<1> QED
  BY <1>1, InvStep, PTL DEF Spec

\* TypeOK: NodeCache never holds more than the bound, and recency has one strict
\* order, for any finite set of keys and any bound.
THEOREM TypeCorrect == Spec => []TypeOK
<1>1. Inv => TypeOK
  BY DEF Inv
<1> QED
  BY <1>1, InvInvariant, PTL

\* Tracked: no expiry, sweep or eviction leaves an entry that recency lacks.
THEOREM EntriesTracked == Spec => []Tracked
<1>1. Inv => Tracked
  BY DEF Inv
<1> QED
  BY <1>1, InvInvariant, PTL

\* AlwaysAccepts: makeRoom always makes enough room for NodeCache.
THEOREM SetNeverFails == Spec => AlwaysAccepts
<1>1. ASSUME Inv, NEW k \in Keys, set(k) PROVE k \in stored'
  <2>1. PICK evicted \in SUBSET (stored \ {k}) :
           stored' = ((stored \ {k}) \ evicted) \cup {k}
    BY <1>1, Setting
  <2> QED BY <2>1
<1>2. Inv /\ [Next]_vars => [\A k \in Keys : set(k) => k \in stored']_vars
  BY <1>1
<1> QED
  BY <1>2, InvInvariant, PTL DEF Spec, AlwaysAccepts

-----------------------------------------------------------------------------
(* The LRU cache                                                           *)

\* Touching a key orders the stored keys that are left as before, and the
\* touched key after them.
LEMMA TouchedLast ==
    ASSUME Inv, NEW k \in Keys, NEW S \in SUBSET (stored \ {k}),
           NEW popped \in SUBSET (tracked \ {k}), popped \cap S = {},
           touch(k, popped), stored' = S \cup {k}
    PROVE  order' = (order \cap (S \X S)) \cup (S \X {k})
<1> DEFINE rest == tracked \ (popped \cup {k})
<1>1. older' = (older \cap (rest \X rest)) \cup (rest \X {k}) /\ S \subseteq rest
  BY DEF touch, Inv, Tracked
<1>2. k \notin rest /\ k \notin S
  OBVIOUS
<1>3. order' = older' \cap (stored' \X stored')
  BY DEF order
<1> HIDE DEF rest
<1>4. order \cap (S \X S) = older \cap (S \X S)
  BY DEF order
<1> QED BY <1>1, <1>2, <1>3, <1>4

\* ImplementsLRU: the store, its loop, its lost entries and its leftover keys
\* included, only ever evicts the least recently used entry.
THEOREM LRUImplemented == Spec => ImplementsLRU
<1>1. Init => LRUSpec!Init
  BY DEF Init, LRUSpec!Init, order
<1>2. Inv /\ [Next]_vars => [LRUSpec!Next]_LRUSpec!vars
  <2> SUFFICES ASSUME Inv, [Next]_vars PROVE [LRUSpec!Next]_LRUSpec!vars
    OBVIOUS
  <2>0. \A S : LRUSpec!Cardinality(S) = Cardinality(S)
    BY DEF LRUSpec!Cardinality, Cardinality
  <2>1. ASSUME NEW S, stored' = stored \ S,
               older' \cap (stored' \X stored') = older \cap (stored' \X stored')
        PROVE  LRUSpec!Next
    <3>1. LRUSpec!Lose(stored \cap S)
      BY <2>1 DEF LRUSpec!Lose, order
    <3> QED BY <3>1 DEF LRUSpec!Next
  <2>2. ASSUME NEW k \in Keys, delete(k) \/ (del({k}) /\ untrack({k})) PROVE LRUSpec!Next
    <3>1. stored' = stored \ {k} /\ untrack({k})
      BY <2>2 DEF delete, del
    <3>2. older' \cap (stored' \X stored') = older \cap (stored' \X stored')
      BY <3>1 DEF untrack, Inv, Tracked
    <3> QED BY <2>1, <3>1, <3>2
  <2>3. ASSUME NEW k \in Keys, get(k) PROVE LRUSpec!Next
    <3>1. CASE k \in stored \ expired /\ touch(k, {}) /\ UNCHANGED <<stored, expired>>
      <4> DEFINE others == stored \ {k}
      <4>1. order' = (order \cap (others \X others)) \cup (others \X {k})
        <5>1. others \in SUBSET (stored \ {k}) /\ {} \cap others = {}
              /\ stored' = others \cup {k}
          BY <3>1
        <5> HIDE DEF others
        <5> QED BY <3>1, <5>1, TouchedLast
      <4>2. LRUSpec!Use(k)
        BY <3>1, <4>1 DEF LRUSpec!Use, LRUSpec!KeepThen
      <4> QED BY <4>2 DEF LRUSpec!Next
    <3> QED BY <2>2, <2>3, <3>1 DEF get
  <2>4. ASSUME NEW k \in Keys, set(k) PROVE LRUSpec!Next
    <3>1. PICK evicted \in SUBSET (stored \ {k}), popped \in SUBSET (tracked \ {k}) :
              /\ evicted = popped \cap (stored \ {k})
              /\ \/ Cardinality(stored \ {k}) < MaxKeys /\ evicted = {}
                 \/ /\ Cardinality(stored \ {k}) = MaxKeys
                    /\ \E o \in stored \ {k} :
                          /\ evicted = {o}
                          /\ \A p \in (stored \ {k}) \ {o} : <<o, p>> \in older
              /\ stored' = ((stored \ {k}) \ evicted) \cup {k}
              /\ touch(k, popped)
      BY <2>4, Setting
    <3> DEFINE left == (stored \ {k}) \ evicted
    <3>2. order' = (order \cap (left \X left)) \cup (left \X {k})
      <4>1. left \in SUBSET (stored \ {k}) /\ popped \cap left = {} /\ stored' = left \cup {k}
        BY <3>1
      <4> HIDE DEF left
      <4> QED BY <3>1, <4>1, TouchedLast
    <3>3. stored' = left \cup {k}
      BY <3>1
    <3>4. CASE evicted = {} /\ Cardinality(stored \ {k}) < MaxKeys
      <4>1. left = stored \ {k}
        BY <3>4
      <4>2. LRUSpec!KeepThen(stored \ {k}, k)
        BY <3>2, <3>3, <4>1 DEF LRUSpec!KeepThen
      <4>3. LRUSpec!Store(k)
        BY <2>0, <3>4, <4>2 DEF LRUSpec!Store
      <4> QED BY <4>3 DEF LRUSpec!Next
    <3>5. ASSUME NEW o \in stored \ {k}, evicted = {o}, Cardinality(stored \ {k}) = MaxKeys,
                 \A p \in (stored \ {k}) \ {o} : <<o, p>> \in older
          PROVE  LRUSpec!Next
      <4>1. o \in LRUSpec!LeastRecentlyUsed(stored \ {k})
        BY <3>5 DEF LRUSpec!LeastRecentlyUsed, order
      <4>2. left = (stored \ {k}) \ {o}
        BY <3>5
      <4>3. LRUSpec!KeepThen((stored \ {k}) \ {o}, k)
        BY <3>2, <3>3, <4>2 DEF LRUSpec!KeepThen
      <4>4. LRUSpec!Store(k)
        BY <2>0, <3>5, <4>1, <4>3 DEF LRUSpec!Store
      <4> QED BY <4>4 DEF LRUSpec!Next
    <3> QED BY <3>1, <3>4, <3>5
  <2>5. ASSUME NEW k \in Keys, Expire(k) PROVE UNCHANGED LRUSpec!vars
    BY <2>5 DEF Expire, LRUSpec!vars, order
  <2>6. CASE Sweep
    BY <2>1, <2>6 DEF Sweep, del
  <2>7. CASE UNCHANGED vars
    BY <2>7 DEF vars, LRUSpec!vars, order
  <2> QED
    BY <2>2, <2>3, <2>4, <2>5, <2>6, <2>7 DEF Next
<1> QED
  BY <1>1, <1>2, InvInvariant, PTL DEF Spec, ImplementsLRU, LRUSpec!Spec
=============================================================================
