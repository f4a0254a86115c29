------------------------- MODULE NewsServiceProofs -------------------------
(***************************************************************************)
(* Proofs about the search service, for any set of searches and any finite *)
(* set of callers: one live entry per search, exact subscriber counts, no  *)
(* redundant load, and that the service implements a single flight for     *)
(* each search, every entry of which takes the way of a cache miss.        *)
(*                                                                         *)
(* Fresh entries are only created by callers that have none yet            *)
(* (CreatorsFresh); with it OneSearchPerKey is inductive. The counts need  *)
(* the waiters of an entry as a finite set, which a join extends by one    *)
(* caller and a release shrinks by one; exact counts tell who is the last  *)
(* to leave a flight.                                                      *)
(***************************************************************************)
EXTENDS NewsService, FiniteSetTheorems, TLAPS

USE BackendsAssumption, CallersAssumption, NoneAssumption

\* The callers that wait for an entry.
Waiters(e) == {c \in Callers : Waiting(c, e)}

\* The types but for subscribers, which follow from the exact counts.
Typed ==
    /\ backend \in {"memory", "redis"}
    /\ fresh \in [Keys -> Cached]
    /\ inFlight \in [Keys -> Callers \cup {None}]
    /\ shutdown \in BOOLEAN
    /\ pc \in [Callers -> {"idle", "reading", "waiting", "done"}]
    /\ key \in [Callers -> Keys \cup {None}]
    /\ seen \in [Callers -> Cached \cup {"error", None}]
    /\ gone \in [Callers -> BOOLEAN]
    /\ joined \in [Callers -> Callers \cup {None}]
    /\ result \in [Callers -> Ended \cup {None}]
    /\ phase \in [Callers -> {"none", "coordinating", "loading", "fallback",
                              "writing", "returning", "settled"}]
    /\ canceled \in [Callers -> BOOLEAN]
    /\ outcome \in [Callers -> Ended \cup {None}]
    /\ subscribers \in [Callers -> Int]

\* A caller that has not looked the search up yet owns no entry, one that has
\* read has a search, and one that waits has joined an entry.
CreatorsFresh ==
    \A c \in Callers :
        /\ pc[c] \in {"idle", "reading"} => phase[c] = "none"
        /\ pc[c] # "idle" => key[c] \in Keys
        /\ phase[c] # "none" => key[c] \in Keys
        /\ pc[c] = "waiting" => joined[c] \in Callers

Inv == Typed /\ CreatorsFresh

-----------------------------------------------------------------------------
(* Types                                                                   *)

USE DEF Cached, Status, Ended

\* A caller's step keeps the types.
LEMMA CallerTyping ==
    ASSUME Inv, NEW c \in Callers, CallerStep(c)
    PROVE  Inv'
<1> USE DEF Inv, Typed, CreatorsFresh
<1>1. ASSUME NEW k \in Keys, searchArticles(c, k) PROVE Inv'
  BY <1>1 DEF searchArticles, store, entry
<1>2. CASE ReadHit(c)
  BY <1>2 DEF ReadHit, Finish, store, entry
<1>3. CASE deleteCorruptCacheEntry(c)
  BY <1>3 DEF deleteCorruptCacheEntry, entry
<1>4. CASE Join(c)
  BY <1>4 DEF Join, Missed, Wait, Finish, store
<1>5. CASE Create(c)
  BY <1>5 DEF Create, Missed, Wait, Finish, store
<1>6. CASE Deliver(c)
  BY <1>6 DEF Deliver, Release, Finish, Share, store
<1>7. CASE Disconnect(c)
  <2>1. CASE pc[c] = "waiting"
    <3>1. joined[c] \in Callers /\ UNCHANGED <<joined, key, phase, outcome, seen, store>>
      BY <1>7, <2>1 DEF Disconnect
    <3>2. gone' \in [Callers -> BOOLEAN] /\ canceled' \in [Callers -> BOOLEAN]
      BY <1>7, <2>1, <3>1 DEF Disconnect, Release
    <3>3. subscribers' \in [Callers -> Int]
      BY <1>7, <2>1, <3>1 DEF Disconnect, Release
    <3>4. CreatorsFresh'
      BY <1>7, <2>1, <3>1 DEF Disconnect, Finish
    <3> QED
      BY <1>7, <2>1, <3>1, <3>2, <3>3, <3>4 DEF Disconnect, Finish, store
  <2>2. CASE pc[c] = "reading"
    BY <1>7, <2>2 DEF Disconnect, store
  <2> QED BY <1>7, <2>1, <2>2 DEF Disconnect
<1> QED
  BY <1>1, <1>2, <1>3, <1>4, <1>5, <1>6, <1>7 DEF CallerStep

\* A step of an entry's work keeps the types.
LEMMA EntryTyping ==
    ASSUME Inv, NEW e \in Callers, EntryStep(e)
    PROVE  Inv'
<1> USE DEF Inv, Typed, CreatorsFresh, Advance, Return, caller
<1>1. CASE CoordinateHit(e)
  BY <1>1 DEF CoordinateHit
<1>2. CASE StartLoad(e)
  BY <1>2 DEF StartLoad
<1>3. CASE Unwind(e)
  BY <1>3 DEF Unwind
<1>4. CASE ProviderSucceeds(e) \/ ProviderFails(e)
  BY <1>4 DEF ProviderSucceeds, ProviderFails
<1>5. CASE readStaleCachedArticles(e)
  BY <1>5 DEF readStaleCachedArticles
<1>6. CASE writeCachedArticles(e)
  BY <1>6 DEF writeCachedArticles
<1>7. CASE markInFlightSettled(e)
  BY <1>7 DEF markInFlightSettled, store
<1> QED
  BY <1>1, <1>2, <1>3, <1>4, <1>5, <1>6, <1>7 DEF EntryStep

\* Every step keeps the types.
LEMMA TypingStep == Inv /\ [Next]_vars => Inv'
<1> SUFFICES ASSUME Inv, [Next]_vars PROVE Inv'
  OBVIOUS
<1>1. ASSUME NEW c \in Callers, CallerStep(c) \/ EntryStep(c) PROVE Inv'
  BY <1>1, CallerTyping, EntryTyping
<1>2. CASE abortShutdown
  BY <1>2 DEF abortShutdown, store, caller, entry, Inv, Typed, CreatorsFresh
<1>3. ASSUME NEW k \in Keys, Others(k) PROVE Inv'
  BY <1>3 DEF Others, caller, entry, Inv, Typed, CreatorsFresh
<1>4. CASE UNCHANGED vars
  BY <1>4 DEF vars, store, caller, entry, Inv, Typed, CreatorsFresh
<1> QED
  BY <1>1, <1>2, <1>3, <1>4 DEF Next

-----------------------------------------------------------------------------
(* One live entry per search                                               *)

\* Only Create makes an entry live, for a search that has none registered;
\* only the end of its work takes an entry out of the map.
LEMMA OneSearchStep == Inv /\ OneSearchPerKey /\ [Next]_vars => OneSearchPerKey'
<1> SUFFICES ASSUME Inv, OneSearchPerKey, [Next]_vars,
                    NEW e \in Callers, Live(e)'
             PROVE  inFlight'[key'[e]] = e
  BY DEF OneSearchPerKey
<1> USE DEF Inv, Typed, CreatorsFresh, OneSearchPerKey, Live
<1>1. ASSUME NEW c \in Callers, CallerStep(c) PROVE inFlight'[key'[e]] = e
  <2>1. ASSUME NEW k \in Keys, searchArticles(c, k) PROVE inFlight'[key'[e]] = e
    BY <2>1 DEF searchArticles, entry
  <2>2. CASE Create(c)
    BY <2>2 DEF Create, Missed, Wait, Finish
  <2>3. CASE ReadHit(c) \/ deleteCorruptCacheEntry(c) \/ Join(c) \/ Deliver(c)
               \/ Disconnect(c)
    BY <2>3 DEF ReadHit, deleteCorruptCacheEntry, Join, Deliver, Disconnect, entry
  <2> QED
    BY <1>1, <2>1, <2>2, <2>3 DEF CallerStep
<1>2. ASSUME NEW d \in Callers, EntryStep(d) PROVE inFlight'[key'[e]] = e
  <2>1. CASE markInFlightSettled(d)
    BY <2>1 DEF markInFlightSettled, caller
  <2>2. CASE ~markInFlightSettled(d)
    <3>1. UNCHANGED <<inFlight, caller>> /\ Live(d)
          /\ \E to \in {"loading", "writing", "fallback", "returning"} :
                phase' = [phase EXCEPT ![d] = to]
      BY <1>2, <2>2 DEF EntryStep, CoordinateHit, StartLoad, Unwind, ProviderSucceeds,
            ProviderFails, readStaleCachedArticles, writeCachedArticles, Advance, Return
    <3>2. QED
      BY <3>1 DEF caller
  <2> QED BY <2>1, <2>2
<1>3. CASE abortShutdown \/ UNCHANGED vars
  BY <1>3 DEF abortShutdown, vars, caller, entry
<1>4. ASSUME NEW k \in Keys, Others(k) PROVE inFlight'[key'[e]] = e
  BY <1>4 DEF Others, caller, entry
<1> QED
  BY <1>1, <1>2, <1>3, <1>4 DEF Next

\* What is registered for a search is live work for that search.
Registered ==
    \A k \in Keys :
        inFlight[k] # None => Live(inFlight[k]) /\ key[inFlight[k]] = k

\* The map holds live work only.
LEMMA RegisteredStep == Inv /\ Registered /\ [Next]_vars => Registered'
<1> SUFFICES ASSUME Inv, Registered, [Next]_vars,
                    NEW k \in Keys, NEW e, e # None, inFlight'[k] = e
             PROVE  phase'[e] \notin {"none", "settled"} /\ key'[e] = k
  BY DEF Registered, Live
<1> USE DEF Inv, Typed, CreatorsFresh, Registered, Live
<1>1. ASSUME NEW c \in Callers, CallerStep(c)
      PROVE  phase'[e] \notin {"none", "settled"} /\ key'[e] = k
  <2>1. ASSUME NEW l \in Keys, searchArticles(c, l)
        PROVE  phase'[e] \notin {"none", "settled"} /\ key'[e] = k
    BY <2>1 DEF searchArticles, entry
  <2>2. CASE Create(c)
    BY <2>2 DEF Create, Missed
  <2>3. CASE ReadHit(c) \/ deleteCorruptCacheEntry(c) \/ Join(c) \/ Deliver(c)
               \/ Disconnect(c)
    BY <2>3 DEF ReadHit, deleteCorruptCacheEntry, Join, Deliver, Disconnect, entry
  <2> QED BY <1>1, <2>1, <2>2, <2>3 DEF CallerStep
<1>2. ASSUME NEW d \in Callers, EntryStep(d)
      PROVE  phase'[e] \notin {"none", "settled"} /\ key'[e] = k
  <2>1. CASE markInFlightSettled(d)
    BY <2>1 DEF markInFlightSettled, caller
  <2>2. CASE ~markInFlightSettled(d)
    <3>1. UNCHANGED <<inFlight, key>>
          /\ \E to \in {"loading", "writing", "fallback", "returning"} :
                phase' = [phase EXCEPT ![d] = to]
      BY <1>2, <2>2 DEF EntryStep, CoordinateHit, StartLoad, Unwind, ProviderSucceeds,
            ProviderFails, readStaleCachedArticles, writeCachedArticles, Advance, Return,
            caller
    <3> QED BY <3>1
  <2> QED BY <2>1, <2>2
<1>3. ASSUME NEW l \in Keys, Others(l) PROVE UNCHANGED <<inFlight, phase, key>>
  BY <1>3 DEF Others, entry, caller
<1>4. CASE abortShutdown \/ UNCHANGED vars
  BY <1>4 DEF abortShutdown, vars, entry, caller
<1> QED
  BY <1>1, <1>2, <1>3, <1>4 DEF Next

\* Nothing is in flight at first.
LEMMA InitTyping == Init => Inv /\ OneSearchPerKey
<1> SUFFICES ASSUME Init PROVE Inv /\ OneSearchPerKey
  OBVIOUS
<1>1. shutdown \in BOOLEAN
  BY Zenon DEF Init
<1>2. Typed
  BY <1>1 DEF Init, Typed
<1>3. CreatorsFresh /\ OneSearchPerKey
  BY DEF Init, CreatorsFresh, OneSearchPerKey, Live
<1>4. QED
  BY <1>2, <1>3 DEF Inv

\* Identical misses share one upstream search, however they interleave with
\* disconnects, aborts and settlements: at most one entry per search is live,
\* and it is the one a later miss finds.
THEOREM StampedeProtection == Spec => []OneSearchPerKey
<1>1. Init => Inv /\ OneSearchPerKey
  BY InitTyping
<1>2. Inv /\ OneSearchPerKey /\ [Next]_vars => Inv' /\ OneSearchPerKey'
  BY TypingStep, OneSearchStep
<1> QED
  BY <1>1, <1>2, PTL DEF Spec

-----------------------------------------------------------------------------
(* Subscribers                                                             *)

\* What a step does to the waiters: nothing, one joins, or one leaves.
Keeps ==
    /\ UNCHANGED <<subscribers, canceled>>
    /\ \A d, f \in Callers : Waiting(d, f)' <=> Waiting(d, f)

Joins(c, e) ==
    /\ subscribers' = [subscribers EXCEPT ![e] = @ + 1] /\ UNCHANGED canceled
    /\ ~Waiting(c, e)
    /\ \A d, f \in Callers : Waiting(d, f)' <=> Waiting(d, f) \/ (d = c /\ f = e)

Leaves(c, e) ==
    /\ Release(e)
    /\ Waiting(c, e)
    /\ \A d, f \in Callers : Waiting(d, f)' <=> Waiting(d, f) /\ d # c

WaitersChange == Keeps \/ \E c, e \in Callers : Joins(c, e) \/ Leaves(c, e)

\* A caller's step changes the waiters in one of the three ways.
LEMMA CallerWaiters ==
    ASSUME Inv, NEW c \in Callers, CallerStep(c)
    PROVE  WaitersChange
<1> USE DEF Inv, Typed, CreatorsFresh, Waiting
<1>1. ASSUME NEW k \in Keys, searchArticles(c, k) PROVE Keeps
  BY <1>1 DEF searchArticles, entry, Keeps
<1>2. CASE ReadHit(c) \/ deleteCorruptCacheEntry(c)
  <2>1. Keeps
    BY <1>2 DEF ReadHit, deleteCorruptCacheEntry, Finish, entry, Keeps
  <2> QED BY <2>1 DEF WaitersChange
<1>3. ASSUME NEW e \in Callers, pc[c] = "reading", Wait(c, e), UNCHANGED canceled
      PROVE  WaitersChange
  <2>1. CASE gone[c]
    <3>1. Keeps
      BY <1>3, <2>1 DEF Wait, Finish, Keeps
    <3> QED BY <3>1 DEF WaitersChange
  <2>2. CASE ~gone[c]
    <3>1. Joins(c, e)
      BY <1>3, <2>2 DEF Wait, Joins
    <3> QED BY <3>1 DEF WaitersChange
  <2> QED BY <2>1, <2>2
<1>4. CASE Join(c)
  <2>1. inFlight[key[c]] \in Callers
    BY <1>4 DEF Join, Missed
  <2> QED BY <1>3, <1>4, <2>1 DEF Join, Missed
<1>5. CASE Create(c)
  BY <1>3, <1>5 DEF Create, Missed
<1>6. CASE Deliver(c) \/ (Disconnect(c) /\ pc[c] = "waiting")
  <2>1. joined[c] \in Callers /\ pc[c] = "waiting" /\ Release(joined[c])
        /\ UNCHANGED joined /\ pc' = [pc EXCEPT ![c] = "done"]
    BY <1>6 DEF Deliver, Disconnect, Finish
  <2>2. PICK e \in Callers : e = joined[c]
    BY <2>1
  <2>3. \A d, f \in Callers : Waiting(d, f)' <=> Waiting(d, f) /\ d # c
    BY <2>1
  <2>4. Leaves(c, e)
    BY <2>1, <2>2, <2>3 DEF Leaves, Release
  <2> QED BY <2>4 DEF WaitersChange
<1>7. CASE Disconnect(c) /\ pc[c] # "waiting"
  <2>1. Keeps
    BY <1>7 DEF Disconnect, Keeps
  <2> QED BY <2>1 DEF WaitersChange
<1> QED
  BY <1>1, <1>2, <1>4, <1>5, <1>6, <1>7 DEF CallerStep, WaitersChange

\* So does every step.
LEMMA StepWaiters == Inv /\ [Next]_vars => WaitersChange
<1> SUFFICES ASSUME Inv, [Next]_vars PROVE WaitersChange
  OBVIOUS
<1>1. ASSUME NEW c \in Callers, CallerStep(c) PROVE WaitersChange
  BY <1>1, CallerWaiters
<1>2. ASSUME UNCHANGED <<caller, subscribers, canceled>> PROVE WaitersChange
  BY <1>2 DEF caller, Waiting, WaitersChange, Keeps
<1>3. ASSUME NEW e \in Callers, EntryStep(e) PROVE WaitersChange
  <2>1. UNCHANGED <<caller, subscribers, canceled>>
    BY <1>3 DEF EntryStep, CoordinateHit, StartLoad, Unwind, ProviderSucceeds,
          ProviderFails, readStaleCachedArticles, writeCachedArticles,
          markInFlightSettled, Advance, Return
  <2> QED BY <1>2, <2>1
<1>4. CASE abortShutdown \/ UNCHANGED vars
  BY <1>2, <1>4 DEF abortShutdown, vars, entry
<1>5. ASSUME NEW k \in Keys, Others(k) PROVE WaitersChange
  BY <1>2, <1>5 DEF Others, entry
<1> QED
  BY <1>1, <1>3, <1>4, <1>5 DEF Next

\* The waiters of an entry are finitely many.
LEMMA WaitersFinite ==
    ASSUME NEW e \in Callers
    PROVE  IsFiniteSet(Waiters(e)) /\ Waiters(e) \subseteq Callers
<1>1. Waiters(e) \subseteq Callers
  BY DEF Waiters
<1> QED
  BY <1>1, FS_Subset

\* The counts stay exact: one more waiter, one more subscriber.
LEMMA CountStep ==
    ASSUME Inv, SubscribersExact, [Next]_vars
    PROVE  SubscribersExact'
<1> SUFFICES ASSUME NEW f \in Callers
             PROVE  subscribers'[f] = Cardinality(Waiters(f)')
  BY DEF SubscribersExact, Waiters
<1>1. subscribers[f] = Cardinality(Waiters(f)) /\ subscribers \in [Callers -> Int]
  BY DEF SubscribersExact, Waiters, Inv, Typed
<1>2. CASE Keeps
  <2>1. Waiters(f)' = Waiters(f)
    BY <1>2 DEF Keeps, Waiters
  <2> QED BY <1>1, <1>2, <2>1 DEF Keeps
<1>3. ASSUME NEW c \in Callers, NEW e \in Callers, Joins(c, e)
      PROVE  subscribers'[f] = Cardinality(Waiters(f)')
  <2>1. CASE f = e
    <3>1. Waiters(f)' = Waiters(f) \cup {c} /\ c \notin Waiters(f)
      BY <1>3, <2>1 DEF Joins, Waiters
    <3>2. Cardinality(Waiters(f)') = Cardinality(Waiters(f)) + 1
      BY <3>1, WaitersFinite, FS_AddElement
    <3> QED BY <1>1, <1>3, <2>1, <3>2 DEF Joins
  <2>2. CASE f # e
    <3>1. Waiters(f)' = Waiters(f)
      BY <1>3, <2>2 DEF Joins, Waiters
    <3> QED BY <1>1, <1>3, <2>2, <3>1 DEF Joins
  <2> QED BY <2>1, <2>2
<1>4. ASSUME NEW c \in Callers, NEW e \in Callers, Leaves(c, e)
      PROVE  subscribers'[f] = Cardinality(Waiters(f)')
  <2>1. CASE f = e
    <3>1. Waiters(f)' = Waiters(f) \ {c} /\ c \in Waiters(f)
      BY <1>4, <2>1 DEF Leaves, Waiters
    <3>2. Cardinality(Waiters(f)') = Cardinality(Waiters(f)) - 1
      BY <3>1, WaitersFinite, FS_RemoveElement
    <3> QED BY <1>1, <1>4, <2>1, <3>2 DEF Leaves, Release
  <2>2. CASE f # e
    <3>1. Waiters(f)' = Waiters(f)
      BY <1>4, <2>2 DEF Leaves, Waiters, Waiting
    <3> QED BY <1>1, <1>4, <2>2, <3>1 DEF Leaves, Release
  <2> QED BY <2>1, <2>2
<1> QED
  BY <1>2, <1>3, <1>4, StepWaiters DEF WaitersChange

\* Nobody waits at first.
LEMMA InitCounts == Init => SubscribersExact
<1> SUFFICES ASSUME Init PROVE SubscribersExact
  OBVIOUS
<1>1. \A e \in Callers : {c \in Callers : Waiting(c, e)} = {}
  BY DEF Init, Waiting
<1> QED
  BY <1>1, FS_EmptySet DEF Init, SubscribersExact

\* An entry's subscribers count its waiting callers, across joins, disconnects
\* and deliveries in any order.
THEOREM ExactSubscribers == Spec => []SubscribersExact
<1>1. Init => Inv /\ SubscribersExact
  BY InitTyping, InitCounts
<1>2. Inv /\ SubscribersExact /\ [Next]_vars => Inv' /\ SubscribersExact'
  BY TypingStep, CountStep
<1> QED
  BY <1>1, <1>2, PTL DEF Spec

\* Type correctness of the search service; the counts are natural numbers.
THEOREM TypeCorrect == Spec => []TypeOK
<1>1. Init => Inv
  BY InitTyping
<1>2. Inv /\ [Next]_vars => Inv'
  BY TypingStep
<1>3. Inv /\ SubscribersExact => TypeOK
  <2> SUFFICES ASSUME Inv, SubscribersExact PROVE TypeOK
    OBVIOUS
  <2>1. \A e \in Callers : subscribers[e] \in Nat
    <3> SUFFICES ASSUME NEW e \in Callers PROVE subscribers[e] \in Nat
      OBVIOUS
    <3>1. subscribers[e] = Cardinality(Waiters(e))
      BY DEF SubscribersExact, Waiters
    <3> QED BY <3>1, WaitersFinite, FS_CardinalityType
  <2>2. subscribers \in [Callers -> Nat]
    BY <2>1 DEF Inv, Typed
  <2> QED BY <2>2 DEF Inv, Typed, TypeOK
<1> QED
  BY <1>1, <1>2, <1>3, ExactSubscribers, PTL DEF Spec

-----------------------------------------------------------------------------
(* Aborts                                                                  *)

\* Only the last waiter of live work aborts it, and leaves nobody behind.
LEMMA AbortStep ==
    ASSUME Inv, SubscribersExact, [Next]_vars,
           NEW e \in Callers, ~canceled[e], canceled'[e]
    PROVE  Live(e) /\ \A c \in Callers : ~Waiting(c, e)'
<1>1. canceled \in [Callers -> BOOLEAN]
  BY DEF Inv, Typed
<1>2. PICK c \in Callers, f \in Callers : Leaves(c, f)
  BY StepWaiters DEF WaitersChange, Keeps, Joins
<1>3. f = e /\ Live(e) /\ subscribers[e] = 1
  BY <1>1, <1>2 DEF Leaves, Release
<1>4. Cardinality(Waiters(e)) = 1
  BY <1>3 DEF SubscribersExact, Waiters
<1>5. \E x : Waiters(e) = {x}
  BY <1>4, WaitersFinite, FS_Singleton
<1>6. c \in Waiters(e)
  BY <1>2, <1>3 DEF Leaves, Waiters
<1>7. Waiters(e) = {c}
  BY <1>5, <1>6
<1>8. \A d \in Callers : ~Waiting(d, e)'
  BY <1>2, <1>3, <1>7 DEF Leaves, Waiters
<1> QED
  BY <1>3, <1>8

-----------------------------------------------------------------------------
(* One miss per load                                                       *)

\* Only the creator of an entry answers with a miss, and it has then finished,
\* so that it joins no other.
MissesOwned ==
    \A c \in Callers : result[c] = "miss" => joined[c] = c /\ pc[c] = "done"

\* A result is given once, at the end, and a miss to the creator alone.
LEMMA MissStep == Inv /\ MissesOwned /\ [Next]_vars => MissesOwned'
<1> SUFFICES ASSUME Inv, MissesOwned, [Next]_vars,
                    NEW d \in Callers, result'[d] = "miss"
             PROVE  joined'[d] = d /\ pc'[d] = "done"
  BY DEF MissesOwned
<1> USE DEF Inv, Typed, MissesOwned
<1>1. ASSUME NEW c \in Callers, CallerStep(c) PROVE joined'[d] = d /\ pc'[d] = "done"
  <2>1. ASSUME NEW k \in Keys, searchArticles(c, k)
        PROVE  joined'[d] = d /\ pc'[d] = "done"
    BY <2>1 DEF searchArticles
  <2>2. CASE ReadHit(c) \/ deleteCorruptCacheEntry(c)
    BY <2>2 DEF ReadHit, deleteCorruptCacheEntry, Finish
  <2>3. CASE Join(c) \/ Create(c)
    BY <2>3 DEF Join, Create, Missed, Wait, Finish
  <2>4. CASE Deliver(c)
    BY <2>4 DEF Deliver, Finish, Share
  <2>5. CASE Disconnect(c)
    BY <2>5 DEF Disconnect, Finish
  <2> QED
    BY <1>1, <2>1, <2>2, <2>3, <2>4, <2>5 DEF CallerStep
<1>2. ASSUME UNCHANGED caller PROVE joined'[d] = d /\ pc'[d] = "done"
  BY <1>2 DEF caller
<1>3. ASSUME NEW e \in Callers, EntryStep(e) PROVE UNCHANGED caller
  BY <1>3 DEF EntryStep, CoordinateHit, StartLoad, Unwind, ProviderSucceeds,
        ProviderFails, readStaleCachedArticles, writeCachedArticles,
        markInFlightSettled, Advance, Return
<1>4. CASE abortShutdown \/ (\E k \in Keys : Others(k)) \/ UNCHANGED vars
  BY <1>2, <1>4 DEF abortShutdown, Others, vars
<1> QED
  BY <1>1, <1>2, <1>3, <1>4 DEF Next

\* However many callers share a load, one of them reports the miss, and the
\* others that it was coalesced.
THEOREM OneMiss == Spec => []OneMissPerLoad
<1>1. Init => Inv /\ MissesOwned
  BY InitTyping DEF Init, MissesOwned
<1>2. Inv /\ MissesOwned /\ [Next]_vars => Inv' /\ MissesOwned'
  BY TypingStep, MissStep
<1>3. MissesOwned => OneMissPerLoad
  BY DEF MissesOwned, OneMissPerLoad
<1> QED
  BY <1>1, <1>2, <1>3, PTL DEF Spec

-----------------------------------------------------------------------------
(* The flights                                                             *)

FlightInv ==
    /\ Inv /\ OneSearchPerKey /\ SubscribersExact /\ MissesOwned /\ Registered

\* What makes no entry live or settled, moves no waiter and ends no call with a
\* miss is no step of the flights.
LEMMA FlightsStay ==
    ASSUME \A e \in Callers :
               /\ Live(e)' = Live(e) /\ (phase'[e] = "settled") = (phase[e] = "settled")
               /\ phase[e] # "none" => key'[e] = key[e]
               /\ (pc'[e] = "waiting") = (pc[e] = "waiting") /\ joined'[e] = joined[e]
               /\ (result'[e] = "miss") = (result[e] = "miss"),
           UNCHANGED canceled
    PROVE  UNCHANGED Flights!vars
<1>1. flight' = flight
  BY DEF flight
<1>2. search' = search
  BY DEF search, Live
<1>3. waits' = waits
  BY DEF waits
<1>4. calledOff' = calledOff /\ misses' = misses
  BY DEF calledOff, misses
<1> QED
  BY <1>1, <1>2, <1>3, <1>4 DEF Flights!vars

\* A caller that joins waits for the flight of its search.
LEMMA JoinFlies ==
    ASSUME FlightInv, NEW c \in Callers, Join(c)
    PROVE  UNCHANGED Flights!vars \/ Flights!Next
<1> USE DEF FlightInv, Inv, Typed, CreatorsFresh
<1>1. PICK f \in Callers : f = inFlight[key[c]]
  BY DEF Join, Missed
<1>2. /\ pc[c] = "reading" /\ key[c] \in Keys /\ Live(f) /\ key[f] = key[c]
      /\ result[c] # "miss"
  BY <1>1 DEF Join, Missed, Registered, MissesOwned
<1>3. CASE gone[c]
  <2>1. UNCHANGED Flights!vars
    BY <1>2, <1>3, FlightsStay DEF Join, Wait, Finish, Live
  <2> QED BY <2>1
<1>4. CASE ~gone[c]
  <2>1. /\ UNCHANGED <<phase, key, result, canceled>>
        /\ pc' = [pc EXCEPT ![c] = "waiting"] /\ joined' = [joined EXCEPT ![c] = f]
    BY <1>1, <1>4 DEF Join, Wait
  <2>2. UNCHANGED <<flight, search, calledOff, misses>>
    BY <2>1 DEF flight, search, calledOff, misses, Live
  <2>3. waits' = [waits EXCEPT ![c] = f] /\ waits[c] = None
    BY <1>2, <2>1 DEF waits
  <2>4. f \in Flights!Flying(key[c])
    BY <1>2 DEF Flights!Flying, flight, search, Live
  <2>5. Flights!Join(c, key[c])
    BY <2>2, <2>3, <2>4 DEF Flights!Join
  <2> QED BY <1>2, <2>5 DEF Flights!Next
<1> QED BY <1>3, <1>4

\* A caller that creates an entry starts a flight, of which there is none.
LEMMA CreateFlies ==
    ASSUME FlightInv, NEW c \in Callers, Create(c)
    PROVE  Flights!Next
<1> USE DEF FlightInv, Inv, Typed, CreatorsFresh
<1>1. /\ pc[c] = "reading" /\ key[c] \in Keys /\ phase[c] = "none" /\ result[c] # "miss"
      /\ inFlight[key[c]] = None
  BY DEF Create, Missed, MissesOwned
<1>2. Flights!Flying(key[c]) = {}
  BY <1>1 DEF Flights!Flying, flight, search, Live, OneSearchPerKey
<1>3. UNCHANGED <<key, canceled>> /\ phase' = [phase EXCEPT ![c] = "coordinating"]
  BY DEF Create
<1>4. flight[c] = "none" /\ waits[c] = None
  BY <1>1 DEF flight, waits, Live
<1>5. flight' = [flight EXCEPT ![c] = "flying"]
  BY <1>3 DEF flight, Live
<1>6. search' = [search EXCEPT ![c] = key[c]]
  BY <1>3 DEF search
<1>7. waits' \in {waits, [waits EXCEPT ![c] = c]} /\ misses' = misses
  <2>1. CASE gone[c]
    BY <1>1, <2>1 DEF Create, Wait, Finish, waits, misses
  <2>2. CASE ~gone[c]
    <3>1. /\ result' = result
          /\ pc' = [pc EXCEPT ![c] = "waiting"] /\ joined' = [joined EXCEPT ![c] = c]
      BY <2>2 DEF Create, Wait
    <3>2. misses' = misses
      BY <3>1 DEF misses
    <3>3. waits' = [waits EXCEPT ![c] = c]
      BY <3>1 DEF waits
    <3> QED BY <3>2, <3>3
  <2> QED BY <2>1, <2>2
<1>8. calledOff' = calledOff
  BY <1>3 DEF calledOff
<1>9. Flights!Start(c, key[c])
  BY <1>2, <1>4, <1>5, <1>6, <1>7, <1>8 DEF Flights!Start
<1> QED BY <1>1, <1>9 DEF Flights!Next

\* A delivery is the answer of a flight that has landed, a miss only to the
\* caller that has started it.
LEMMA DeliverAnswers ==
    ASSUME FlightInv, NEW c \in Callers, Deliver(c)
    PROVE  Flights!Next
<1> USE DEF FlightInv, Inv, Typed, CreatorsFresh
<1>1. PICK f \in Callers : f = joined[c]
  BY DEF Deliver
<1>2. /\ pc[c] = "waiting" /\ phase[f] = "settled" /\ result[c] # "miss"
      /\ UNCHANGED <<phase, key, joined>> /\ pc' = [pc EXCEPT ![c] = "done"]
      /\ result' = [result EXCEPT ![c] = Share(c, outcome[f])]
  BY <1>1 DEF Deliver, Finish, MissesOwned
<1>3. canceled' = canceled
  BY <1>1, <1>2 DEF Deliver, Release, Live
<1>4. waits[c] = f /\ flight[f] = "landed" /\ f # None
  BY <1>1, <1>2 DEF waits, flight, Live
<1>5. waits' = [waits EXCEPT ![c] = None]
  BY <1>2 DEF waits
<1>6. UNCHANGED <<flight, search, calledOff>>
  BY <1>2, <1>3 DEF flight, search, calledOff, Live
<1>7. misses' \in {misses} \cup {misses \cup {w} : w \in {c} \cap {waits[c]}}
  <2>1. CASE Share(c, outcome[f]) = "miss"
    <3>1. f = c
      BY <1>1, <2>1 DEF Share
    <3>2. misses' = misses \cup {c}
      BY <1>2, <2>1 DEF misses
    <3> QED BY <1>4, <3>1, <3>2
  <2>2. CASE Share(c, outcome[f]) # "miss"
    BY <1>2, <2>2 DEF misses
  <2> QED BY <2>1, <2>2
<1>8. Flights!Answer(c)
  BY <1>4, <1>5, <1>6, <1>7 DEF Flights!Answer
<1> QED BY <1>8 DEF Flights!Next

\* The count is one exactly when nobody else waits.
LEMMA LastSubscriber ==
    ASSUME SubscribersExact, NEW c \in Callers, NEW f \in Callers, Waiting(c, f)
    PROVE  (subscribers[f] = 1) <=> \A d \in Callers \ {c} : ~Waiting(d, f)
<1>1. subscribers[f] = Cardinality(Waiters(f)) /\ IsFiniteSet(Waiters(f)) /\ c \in Waiters(f)
  BY WaitersFinite DEF SubscribersExact, Waiters
<1>2. subscribers[f] = 1 <=> \E x : Waiters(f) = {x}
  BY <1>1, FS_Singleton
<1>3. (\E x : Waiters(f) = {x}) <=> Waiters(f) = {c}
  BY <1>1
<1>4. Waiters(f) = {c} <=> \A d \in Callers \ {c} : ~Waiting(d, f)
  BY <1>1 DEF Waiters
<1> QED BY <1>2, <1>3, <1>4

\* A waiter that disconnects leaves its flight, and calls it off if it is alone.
LEMMA DisconnectLeaves ==
    ASSUME FlightInv, NEW c \in Callers, Disconnect(c)
    PROVE  UNCHANGED Flights!vars \/ Flights!Next
<1> USE DEF FlightInv, Inv, Typed, CreatorsFresh
<1>1. CASE pc[c] # "waiting"
  <2>1. UNCHANGED <<phase, key, pc, joined, result, canceled>>
    BY <1>1 DEF Disconnect
  <2>2. UNCHANGED Flights!vars
    BY <2>1, FlightsStay DEF Live
  <2> QED BY <2>2
<1>2. CASE pc[c] = "waiting"
  <2>1. PICK f \in Callers : f = joined[c]
    BY <1>2
  <2>2. /\ UNCHANGED <<phase, key, joined>> /\ pc' = [pc EXCEPT ![c] = "done"]
        /\ result' = [result EXCEPT ![c] = "aborted"] /\ result[c] # "miss"
        /\ canceled' = [canceled EXCEPT ![f] = @ \/ (Live(f) /\ subscribers[f] = 1)]
    BY <1>2, <2>1 DEF Disconnect, Release, Finish, MissesOwned
  <2>3. /\ waits[c] = f /\ f # None /\ waits' = [waits EXCEPT ![c] = None]
        /\ UNCHANGED <<flight, search, misses>>
    <3>1. waits[c] = f /\ f # None /\ waits' = [waits EXCEPT ![c] = None]
      BY <1>2, <2>1, <2>2 DEF waits
    <3>2. flight' = flight /\ search' = search
      BY <2>2 DEF flight, search, Live
    <3>3. misses' = misses
      BY <2>2 DEF misses
    <3> QED BY <3>1, <3>2, <3>3
  <2>4. (flight[f] = "flying") = Live(f)
    BY DEF flight, Live
  <2>5. (\A d \in Callers \ {c} : waits[d] # f) <=> subscribers[f] = 1
    <3>1. \A d \in Callers : waits[d] = f <=> Waiting(d, f)
      BY DEF waits, Waiting
    <3>2. Waiting(c, f)
      BY <1>2, <2>1 DEF Waiting
    <3> QED BY <3>1, <3>2, LastSubscriber
  <2>6. calledOff' = IF Live(f) /\ subscribers[f] = 1 THEN calledOff \cup {f} ELSE calledOff
    <3>1. CASE Live(f) /\ subscribers[f] = 1
      <4>1. canceled' = [canceled EXCEPT ![f] = TRUE]
        BY <2>2, <3>1
      <4>2. calledOff' = calledOff \cup {f}
        BY <4>1 DEF calledOff
      <4> QED BY <3>1, <4>2
    <3>2. CASE ~(Live(f) /\ subscribers[f] = 1)
      <4>1. canceled' = canceled
        BY <2>2, <3>2
      <4> QED BY <3>2, <4>1 DEF calledOff
    <3> QED BY <3>1, <3>2
  <2>7. Flights!Leave(c)
    BY <2>3, <2>4, <2>5, <2>6 DEF Flights!Leave
  <2> QED BY <2>7 DEF Flights!Next
<1> QED BY <1>1, <1>2

\* A step of an entry's work lands its flight or leaves it flying.
LEMMA EntryFlies ==
    ASSUME FlightInv, NEW e \in Callers, EntryStep(e)
    PROVE  UNCHANGED Flights!vars \/ Flights!Next
<1> USE DEF FlightInv, Inv, Typed
<1>1. CASE markInFlightSettled(e)
  <2>1. /\ phase[e] = "returning" /\ phase' = [phase EXCEPT ![e] = "settled"]
        /\ UNCHANGED <<pc, key, joined, result, canceled>>
    BY <1>1 DEF markInFlightSettled, caller
  <2>2. flight[e] = "flying" /\ flight' = [flight EXCEPT ![e] = "landed"]
    BY <2>1 DEF flight, Live
  <2>3. UNCHANGED <<search, calledOff, waits, misses>>
    BY <2>1 DEF search, calledOff, waits, misses
  <2>4. Flights!Land(e)
    BY <2>2, <2>3 DEF Flights!Land
  <2> QED BY <2>4 DEF Flights!Next
<1>2. CASE ~markInFlightSettled(e)
  <2>1. /\ UNCHANGED <<pc, key, joined, result, canceled>> /\ Live(e)
        /\ \E to \in {"loading", "writing", "fallback", "returning"} :
              phase' = [phase EXCEPT ![e] = to]
    BY <1>2 DEF EntryStep, CoordinateHit, StartLoad, Unwind, ProviderSucceeds,
          ProviderFails, readStaleCachedArticles, writeCachedArticles, Advance, Return,
          caller, Live
  <2>2. UNCHANGED Flights!vars
    BY <2>1, FlightsStay DEF Live
  <2> QED BY <2>2
<1> QED BY <1>1, <1>2

\* Every step is one of the flights, or none.
LEMMA FlightsStep ==
    FlightInv /\ [Next]_vars => UNCHANGED Flights!vars \/ Flights!Next
<1> SUFFICES ASSUME FlightInv, [Next]_vars
             PROVE  UNCHANGED Flights!vars \/ Flights!Next
  OBVIOUS
<1> USE DEF FlightInv, Inv, Typed, CreatorsFresh
<1>1. ASSUME NEW c \in Callers, NEW k \in Keys, searchArticles(c, k)
      PROVE  UNCHANGED Flights!vars
  BY <1>1, FlightsStay DEF searchArticles, entry, Live
<1>2. ASSUME NEW c \in Callers, ReadHit(c) \/ deleteCorruptCacheEntry(c)
      PROVE  UNCHANGED Flights!vars
  <2>1. result[c] # "miss" /\ pc[c] = "reading"
    BY <1>2 DEF ReadHit, deleteCorruptCacheEntry, MissesOwned
  <2> QED
    BY <1>2, <2>1, FlightsStay DEF ReadHit, deleteCorruptCacheEntry, Finish, entry, Live
<1>3. ASSUME NEW c \in Callers, CallerStep(c)
      PROVE  UNCHANGED Flights!vars \/ Flights!Next
  BY <1>1, <1>2, <1>3, JoinFlies, CreateFlies, DeliverAnswers, DisconnectLeaves
     DEF CallerStep
<1>4. ASSUME NEW e \in Callers, EntryStep(e)
      PROVE  UNCHANGED Flights!vars \/ Flights!Next
  BY <1>4, EntryFlies
<1>5. CASE abortShutdown \/ (\E k \in Keys : Others(k)) \/ UNCHANGED vars
  <2>1. UNCHANGED <<phase, key, pc, joined, result, canceled>>
    BY <1>5 DEF abortShutdown, Others, vars, caller, entry
  <2>2. UNCHANGED Flights!vars
    BY <2>1, FlightsStay DEF Live
  <2> QED BY <2>2
<1> QED
  BY <1>3, <1>4, <1>5 DEF Next

\* At first there is no flight.
LEMMA InitFlights == Init => FlightInv /\ Flights!Init
<1> SUFFICES ASSUME Init PROVE FlightInv /\ Flights!Init
  OBVIOUS
<1>1. FlightInv
  BY InitTyping, InitCounts DEF Init, FlightInv, MissesOwned, Registered
<1>2. flight = [f \in Callers |-> "none"] /\ search = [f \in Callers |-> None]
  BY DEF Init, flight, search, Live
<1>3. waits = [c \in Callers |-> None] /\ calledOff = {} /\ misses = {}
  BY DEF Init, waits, calledOff, misses
<1> QED
  BY <1>1, <1>2, <1>3 DEF Flights!Init

\* The service implements the flights: its counter and its map do, for any
\* number of callers, what the set of those that wait would do, and no step
\* lets a caller past a flight, calls off one that is waited for, leaves one
\* flying that nobody waits for any more, or answers before it has landed.
THEOREM SingleFlightImplemented == Spec => Flights!Spec /\ ImplementsSingleFlight
<1>1. FlightInv /\ [Next]_vars => FlightInv'
  BY TypingStep, OneSearchStep, CountStep, MissStep, RegisteredStep DEF FlightInv
<1>2. FlightInv /\ [Next]_vars =>
        [UNCHANGED Flights!vars \/ Flights!Next]_vars
  BY FlightsStep
<1>3. FlightInv /\ [Next]_vars => [Flights!Next]_(Flights!vars)
  BY FlightsStep
<1> QED
  BY <1>1, <1>2, <1>3, InitFlights, PTL DEF Spec, Flights!Spec, ImplementsSingleFlight

-----------------------------------------------------------------------------
(* The memory store                                                        *)

\* What an event-loop turn leaves to a caller that has just read.
Calm == \A e \in Callers : Live(e) => phase[e] = "loading" /\ ~canceled[e] /\ ~shutdown

\* With the memory store, one caller reads at a time, what it has seen is what
\* the cache holds, and nothing is loaded whose articles are there.
MemoryInv ==
    backend = "memory" =>
        /\ \A k \in Keys : fresh[k] # "corrupt"
        /\ \A c \in Callers : pc[c] = "reading" =>
              /\ seen[c] = fresh[key[c]]
              /\ \A d \in Callers : pc[d] = "reading" => d = c
              /\ Calm
        /\ \A e \in Callers :
              phase[e] \in {"coordinating", "loading"} => fresh[key[e]] # "articles"

\* A caller's step: a read comes after every other turn has ended, and an entry
\* is created by a caller that still sees what the cache holds.
LEMMA MemoryCaller ==
    ASSUME Inv, MemoryInv, NEW c \in Callers, CallerStep(c)
    PROVE  MemoryInv'
<1> SUFFICES ASSUME backend = "memory" PROVE MemoryInv'
  <2>1. UNCHANGED backend
    BY DEF CallerStep, searchArticles, ReadHit, deleteCorruptCacheEntry, Join, Create,
          Deliver, Disconnect, store
  <2> QED BY <2>1 DEF MemoryInv
<1> USE DEF Inv, Typed, CreatorsFresh, MemoryInv, Calm, Live
<1>1. ASSUME NEW k \in Keys, searchArticles(c, k) PROVE MemoryInv'
  BY <1>1 DEF searchArticles, Quiet, store, entry
<1>2. CASE ReadHit(c)
  BY <1>2 DEF ReadHit, Finish, store, entry
<1>3. CASE deleteCorruptCacheEntry(c)
  BY <1>3 DEF deleteCorruptCacheEntry
<1>4. CASE Join(c)
  BY <1>4 DEF Join, Missed, Wait, Finish, store
<1>5. CASE Create(c)
  BY <1>5 DEF Create, Missed, Wait, Finish, store
<1>6. CASE Deliver(c)
  <2>1. UNCHANGED canceled
    BY <1>6 DEF Deliver, Release
  <2> QED BY <1>6, <2>1 DEF Deliver, Finish, store
<1>7. CASE Disconnect(c)
  <2>1. \A d \in Callers : pc'[d] # "reading"
    BY <1>7 DEF Disconnect, Quiet, Finish
  <2> QED BY <1>7, <2>1 DEF Disconnect, store
<1> QED
  BY <1>1, <1>2, <1>3, <1>4, <1>5, <1>6, <1>7 DEF CallerStep

\* A step of an entry's work: the articles are written by the only entry of
\* their search, which is then no longer loading.
LEMMA MemoryEntry ==
    ASSUME Inv, OneSearchPerKey, MemoryInv, NEW e \in Callers, EntryStep(e)
    PROVE  MemoryInv'
<1> SUFFICES ASSUME backend = "memory" PROVE MemoryInv'
  <2>1. UNCHANGED backend
    BY DEF EntryStep, CoordinateHit, StartLoad, Unwind, ProviderSucceeds, ProviderFails,
          readStaleCachedArticles, writeCachedArticles, markInFlightSettled, Advance,
          Return, store
  <2> QED BY <2>1 DEF MemoryInv
<1> USE DEF Inv, Typed, CreatorsFresh, MemoryInv, Calm, Live
<1>1. \A d \in Callers : pc[d] # "reading"
  BY DEF EntryStep, CoordinateHit, StartLoad, Unwind, ProviderSucceeds, ProviderFails,
        readStaleCachedArticles, writeCachedArticles, markInFlightSettled, Advance,
        Return, Quiet
<1>2. CASE writeCachedArticles(e)
  <2>1. \A d \in Callers : Live(d) /\ key[d] = key[e] => d = e
    BY <1>2 DEF writeCachedArticles, Advance, Return, OneSearchPerKey
  <2> QED
    BY <1>1, <1>2, <2>1 DEF writeCachedArticles, Advance, Return, caller
<1>3. CASE markInFlightSettled(e)
  BY <1>1, <1>3 DEF markInFlightSettled, store, caller
<1>4. CASE CoordinateHit(e) \/ StartLoad(e) \/ Unwind(e) \/ ProviderSucceeds(e)
             \/ ProviderFails(e) \/ readStaleCachedArticles(e)
  BY <1>1, <1>4 DEF CoordinateHit, StartLoad, Unwind, ProviderSucceeds, ProviderFails,
        readStaleCachedArticles, Advance, Return, caller
<1> QED
  BY <1>2, <1>3, <1>4 DEF EntryStep

\* Every step keeps it.
LEMMA MemoryStep ==
    Inv /\ OneSearchPerKey /\ MemoryInv /\ [Next]_vars => MemoryInv'
<1> SUFFICES ASSUME Inv, OneSearchPerKey, MemoryInv, [Next]_vars PROVE MemoryInv'
  OBVIOUS
<1>1. ASSUME NEW c \in Callers, CallerStep(c) \/ EntryStep(c) PROVE MemoryInv'
  BY <1>1, MemoryCaller, MemoryEntry
<1> USE DEF MemoryInv, Calm, Live
<1>2. CASE abortShutdown
  BY <1>2 DEF abortShutdown, Quiet, store, caller, entry
<1>3. ASSUME NEW k \in Keys, Others(k) PROVE MemoryInv'
  BY <1>3 DEF Others, Quiet, caller, entry, Inv, Typed, CreatorsFresh
<1>4. CASE UNCHANGED vars
  BY <1>4 DEF vars, store, caller, entry
<1> QED
  BY <1>1, <1>2, <1>3, <1>4 DEF Next

\* With the memory store the provider is not asked for articles that the cache
\* holds: what a caller reads is still so when it creates its entry, and the
\* only writer of a search is its own entry.
THEOREM NoLoadRedundant == Spec => []NoRedundantLoad
<1>1. Init => Inv /\ OneSearchPerKey /\ MemoryInv
  BY InitTyping DEF Init, MemoryInv
<1>2. Inv /\ OneSearchPerKey /\ MemoryInv /\ [Next]_vars
        => Inv' /\ OneSearchPerKey' /\ MemoryInv'
  BY TypingStep, OneSearchStep, MemoryStep
<1>3. MemoryInv => NoRedundantLoad
  BY DEF MemoryInv, NoRedundantLoad
<1> QED
  BY <1>1, <1>2, <1>3, PTL DEF Spec
-----------------------------------------------------------------------------
(* The way of a miss                                                       *)

\* What leaves the place and the signal of an entry alone is to its miss at most
\* a change of the cache.
LEMMA MissStays ==
    ASSUME NEW e \in Callers, UNCHANGED <<phase[e], canceled[e]>>
    PROVE  MissOf(e)!Next
<1>1. Place(e)' = Place(e)
  BY DEF Place
<1>2. (key[e] # None /\ fresh[key[e]] = "articles")' \in BOOLEAN
  OBVIOUS
<1>3. MissOf(e)!Others
  BY <1>1, <1>2 DEF MissOf!Others
<1> QED BY <1>3 DEF MissOf!Next

\* A caller begins a miss when it creates an entry, and cancels one when it
\* leaves an entry as its last subscriber.
LEMMA CallerMiss ==
    ASSUME Inv, NEW c \in Callers, CallerStep(c), NEW e \in Callers
    PROVE  MissOf(e)!Next
<1> USE DEF Inv, Typed, CreatorsFresh
<1>1. CASE UNCHANGED <<phase[e], canceled[e]>>
  BY <1>1, MissStays
<1>2. CASE Create(c)
  <2>1. phase[c] = "none" /\ phase' = [phase EXCEPT ![c] = "coordinating"]
        /\ UNCHANGED <<canceled, key, fresh>>
    BY <1>2 DEF Create, Missed, store
  <2>2. CASE e = c
    <3>1. Place(e) = "none" /\ Place(e)' = "coordinating"
      BY <2>1, <2>2 DEF Place
    <3>2. MissOf(e)!Begin
      BY <2>1, <3>1 DEF MissOf!Begin, MissOf!Go
    <3> QED BY <3>2 DEF MissOf!Next
  <2> QED BY <1>1, <2>1, <2>2
<1>3. ASSUME Deliver(c) \/ Disconnect(c), canceled'[e] # canceled[e]
      PROVE  MissOf(e)!Next
  <2>1. UNCHANGED <<phase, key, fresh>>
    BY <1>3 DEF Deliver, Disconnect, store
  <2>2. Live(e) /\ canceled'[e] = TRUE
    <3>1. PICK f \in Callers : Release(f)
      BY <1>3 DEF Deliver, Disconnect
    <3> QED BY <1>3, <3>1 DEF Release
  <2>3. Place(e) # "none" /\ Place(e)' = Place(e)
    BY <2>1, <2>2 DEF Place, Live
  <2>4. MissOf(e)!Cancel
    BY <2>1, <2>2, <2>3 DEF MissOf!Cancel
  <2> QED BY <2>4 DEF MissOf!Next
<1>4. CASE Deliver(c) \/ Disconnect(c)
  <2>1. UNCHANGED phase
    BY <1>4 DEF Deliver, Disconnect
  <2> QED BY <1>1, <1>3, <1>4, <2>1
<1>5. ASSUME NEW k \in Keys, searchArticles(c, k) PROVE UNCHANGED <<phase, canceled>>
  BY <1>5 DEF searchArticles, entry
<1>6. CASE ReadHit(c) \/ deleteCorruptCacheEntry(c) \/ Join(c)
  <2>1. UNCHANGED <<phase, canceled>>
    BY <1>6 DEF ReadHit, deleteCorruptCacheEntry, Join, entry
  <2> QED BY <1>1, <2>1
<1> QED
  BY <1>1, <1>2, <1>4, <1>5, <1>6 DEF CallerStep

\* An entry's own step is one step of its miss, or none.
LEMMA EntryMiss ==
    ASSUME Inv, NEW e \in Callers, EntryStep(e)
    PROVE  UNCHANGED MissOf(e)!vars \/ MissOf(e)!Next
<1> USE DEF Inv, Typed, CreatorsFresh, MissOf!Go
<1>1. UNCHANGED <<key, canceled>> /\ canceled[e] \in BOOLEAN /\ key[e] \in Keys
      /\ key[e] # None
  BY DEF EntryStep, CoordinateHit, StartLoad, Unwind, ProviderSucceeds, ProviderFails,
        readStaleCachedArticles, writeCachedArticles, markInFlightSettled, Advance,
        Return, caller
<1>2. CASE CoordinateHit(e)
  <2>1. Place(e) = "coordinating" /\ Place(e)' = "ended" /\ fresh' = fresh
    BY <1>2 DEF CoordinateHit, Return, Advance, Place
  <2>2. MissOf(e)!Hit
    BY <1>1, <1>2, <2>1 DEF CoordinateHit, MissOf!Hit
  <2> QED BY <2>2 DEF MissOf!Next
<1>3. CASE StartLoad(e)
  <2>1. Place(e) = "coordinating" /\ Place(e)' = "loading" /\ fresh' = fresh
    BY <1>3 DEF StartLoad, Advance, Place
  <2>2. MissOf(e)!Load
    BY <1>1, <1>3, <2>1 DEF StartLoad, MissOf!Load
  <2> QED BY <2>2 DEF MissOf!Next
<1>4. CASE Unwind(e)
  <2>1. CASE canceled[e] /\ Return(e, "coordinating", "aborted")
    <3>1. Place(e) = "coordinating" /\ Place(e)' = "ended" /\ fresh' = fresh
      BY <1>4, <2>1 DEF Unwind, Return, Advance, Place
    <3>2. MissOf(e)!GiveUp
      BY <1>1, <2>1, <3>1 DEF MissOf!GiveUp
    <3> QED BY <3>2 DEF MissOf!Next
  <2>2. CASE Return(e, "loading", "aborted")
    <3>1. Place(e) = "loading" /\ Place(e)' = "ended" /\ fresh' = fresh
      BY <1>4, <2>2 DEF Unwind, Return, Advance, Place
    <3>2. MissOf(e)!Fail
      BY <1>1, <3>1 DEF MissOf!Fail
    <3> QED BY <3>2 DEF MissOf!Next
  <2> QED BY <1>4, <2>1, <2>2 DEF Unwind
<1>5. CASE ProviderSucceeds(e)
  <2>1. Place(e) = "loading" /\ Place(e)' = "writing" /\ fresh' = fresh
    BY <1>5 DEF ProviderSucceeds, Advance, Place
  <2>2. MissOf(e)!Answer
    BY <1>1, <1>5, <2>1 DEF ProviderSucceeds, MissOf!Answer
  <2> QED BY <2>2 DEF MissOf!Next
<1>6. CASE ProviderFails(e)
  <2>1. Place(e)' = Place(e) /\ fresh' = fresh
    BY <1>6 DEF ProviderFails, Advance, Place
  <2> QED BY <1>1, <2>1 DEF MissOf!vars
<1>7. CASE readStaleCachedArticles(e)
  <2>1. Place(e) = "loading" /\ Place(e)' = "ended" /\ fresh' = fresh
    BY <1>7 DEF readStaleCachedArticles, Return, Advance, Place
  <2>2. MissOf(e)!Fail
    BY <1>1, <2>1 DEF MissOf!Fail
  <2> QED BY <2>2 DEF MissOf!Next
<1>8. CASE writeCachedArticles(e)
  <2>1. Place(e) = "writing" /\ Place(e)' = "ended"
    BY <1>8 DEF writeCachedArticles, Return, Advance, Place
  <2>2. fresh'[key[e]] = "articles" \/ fresh' = fresh
    BY <1>1, <1>8 DEF writeCachedArticles
  <2>3. MissOf(e)!Write
    BY <1>1, <2>1, <2>2 DEF MissOf!Write
  <2> QED BY <2>3 DEF MissOf!Next
<1>9. CASE markInFlightSettled(e)
  <2>1. Place(e)' = Place(e) /\ fresh' = fresh
    BY <1>9 DEF markInFlightSettled, store, Place
  <2> QED BY <1>1, <2>1 DEF MissOf!vars
<1> QED
  BY <1>2, <1>3, <1>4, <1>5, <1>6, <1>7, <1>8, <1>9 DEF EntryStep

\* To the miss of one entry, the steps of the others and of the surroundings are
\* changes of the cache.
LEMMA ServiceMiss ==
    ASSUME Inv, [Next]_vars, NEW e \in Callers
    PROVE  UNCHANGED MissOf(e)!vars \/ MissOf(e)!Next
<1>1. ASSUME NEW c \in Callers, CallerStep(c) PROVE MissOf(e)!Next
  BY <1>1, CallerMiss
<1>2. ASSUME NEW d \in Callers, EntryStep(d), d # e PROVE MissOf(e)!Next
  <2>1. UNCHANGED <<phase[e], canceled[e]>>
    BY <1>2 DEF Inv, Typed, EntryStep, CoordinateHit, StartLoad, Unwind, ProviderSucceeds,
       ProviderFails, readStaleCachedArticles, writeCachedArticles, markInFlightSettled,
       Advance, Return
  <2> QED BY <2>1, MissStays
<1>3. ASSUME EntryStep(e) PROVE UNCHANGED MissOf(e)!vars \/ MissOf(e)!Next
  BY <1>3, EntryMiss
<1>4. CASE abortShutdown \/ (\E k \in Keys : Others(k)) \/ UNCHANGED vars
  BY <1>4, MissStays DEF abortShutdown, Others, vars, entry
<1> QED
  BY <1>1, <1>2, <1>3, <1>4 DEF Next

\* The work of an entry is that of one miss, the same that CacheLease is shown to
\* do: what CacheLease says of the calls of the coordinator the service may rely
\* on, whoever joins, leaves or is delivered meanwhile.
THEOREM MissImplemented == Spec => ImplementsMiss
<1>1. Init => Inv /\ \A e \in Callers : MissOf(e)!Init
  <2> SUFFICES ASSUME Init, NEW e \in Callers PROVE MissOf(e)!Init
    BY InitTyping
  <2>1. phase[e] = "none" /\ ~canceled[e]
    BY DEF Init
  <2>2. Place(e) = "none"
    BY <2>1 DEF Place
  <2> QED BY <2>1, <2>2 DEF MissOf!Init
<1>2. Inv /\ [Next]_vars =>
        [\A e \in Callers : UNCHANGED MissOf(e)!vars \/ MissOf(e)!Next]_vars
  BY ServiceMiss
<1> QED
  BY <1>1, <1>2, TypingStep, PTL DEF Spec, ImplementsMiss
=============================================================================
