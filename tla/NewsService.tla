----------------------------- MODULE NewsService -----------------------------
(***************************************************************************)
(* The search service of one process: cache lookup, the in-flight map that *)
(* coalesces identical misses, subscriber counting, abort of abandoned     *)
(* work, stale fallback and cache write-back                               *)
(* (src/services/newsService.ts).                                          *)
(*                                                                         *)
(* An in-flight entry is identified by the caller that creates it.  Redis  *)
(* commands take time: other events come between a read and its use.  With *)
(* the memory store every await is a microtask, so an event-loop turn runs *)
(* to completion first; Quiet says so.                                     *)
(***************************************************************************)
EXTENDS Integers, FiniteSets

CONSTANTS
    Callers,    \* calls of searchArticles
    Keys,       \* normalized searches
    Backends    \* the stores getCacheStore may choose: "memory", "redis"

ASSUME BackendsAssumption == Backends \subseteq {"memory", "redis"}
ASSUME CallersAssumption == IsFiniteSet(Callers)

VARIABLES
    backend,        \* the singleton cache store
    fresh,          \* the fresh entry it holds for each search
    inFlight,       \* inFlightSearches: the entry registered for each search
    shutdown,       \* the process signal has aborted
    pc, key,        \* a caller's place in searchArticles, and its search
    seen,           \* what its cache read returned, until it is used
    gone,           \* its signal is aborted: the client has disconnected
    joined,         \* the entry it waits for
    result,         \* the cache status it answers with, or how it failed
    phase,          \* an entry's place in fetchArticlesFromUpstream
    subscribers,    \* entry.subscribers
    canceled,       \* entry.controller.signal.aborted
    outcome         \* what entry.promise resolves or rejects with

store == <<backend, fresh>>
caller == <<pc, key, seen, gone, joined, result>>
entry == <<phase, subscribers, canceled, outcome>>
vars == <<store, inFlight, shutdown, caller, entry>>

CONSTANT None   \* no entry, no search, no result

Cached == {"absent", "articles", "corrupt"}
Status == {"hit", "miss", "coalesced", "stale"}
Ended == Status \cup {"error", "aborted"}

ASSUME NoneAssumption == None \notin Callers /\ None \notin Keys /\ None \notin Ended

\* entry.settled is false: its work is still going on.
Live(e) == phase[e] \notin {"none", "settled"}
Waiting(c, e) == pc[c] = "waiting" /\ joined[c] = e

\* With the memory store, the microtasks of the last event have all run: the
\* only work in progress is a provider call that nothing has aborted.
Quiet ==
    backend = "memory" =>
        \A c \in Callers :
            /\ pc[c] \in {"idle", "waiting", "done"}
            /\ pc[c] = "waiting" => phase[joined[c]] # "settled"
            /\ Live(c) => phase[c] = "loading" /\ ~canceled[c] /\ ~shutdown

TypeOK ==
    /\ backend \in {"memory", "redis"}
    /\ fresh \in [Keys -> Cached]
    /\ inFlight \in [Keys -> Callers \cup {None}]
    /\ shutdown \in BOOLEAN
    /\ pc \in [Callers -> {"idle", "reading", "waiting", "done"}]
    /\ key \in [Callers -> Keys \cup {None}]
    /\ seen \in [Callers -> Cached \cup {"error", None}]
    /\ gone \in [Callers -> BOOLEAN]
    /\ joined \in [Callers -> Callers \cup {None}]
    /\ result \in [Callers -> Ended \cup {None}]
    /\ phase \in [Callers -> {"none", "coordinating", "loading", "fallback",
                              "writing", "returning", "settled"}]
    /\ subscribers \in [Callers -> Nat]
    /\ canceled \in [Callers -> BOOLEAN]
    /\ outcome \in [Callers -> Ended \cup {None}]

Init ==
    /\ backend \in Backends
    /\ fresh = [k \in Keys |-> "absent"]
    /\ inFlight = [k \in Keys |-> None]
    /\ shutdown = FALSE
    /\ pc = [c \in Callers |-> "idle"]
    /\ key = [c \in Callers |-> None]
    /\ seen = [c \in Callers |-> None]
    /\ gone = [c \in Callers |-> FALSE]
    /\ joined = [c \in Callers |-> None]
    /\ result = [c \in Callers |-> None]
    /\ phase = [c \in Callers |-> "none"]
    /\ subscribers = [c \in Callers |-> 0]
    /\ canceled = [c \in Callers |-> FALSE]
    /\ outcome = [c \in Callers |-> None]

-----------------------------------------------------------------------------
(* searchArticles                                                          *)

\* The call up to its cache read.  An error is a miss; only Redis has errors.
\* A call whose signal is already aborted throws at once and changes nothing.
searchArticles(c, k) ==
    /\ pc[c] = "idle" /\ Quiet
    /\ pc' = [pc EXCEPT ![c] = "reading"]
    /\ key' = [key EXCEPT ![c] = k]
    /\ \E value \in {fresh[k]} \cup (IF backend = "redis" THEN {"error"} ELSE {}) :
          seen' = [seen EXCEPT ![c] = value]
    /\ UNCHANGED <<store, inFlight, shutdown, gone, joined, result, entry>>

Finish(c, r) ==
    /\ pc' = [pc EXCEPT ![c] = "done"]
    /\ result' = [result EXCEPT ![c] = r]

ReadHit(c) ==
    /\ pc[c] = "reading" /\ seen[c] = "articles"
    /\ Finish(c, "hit")
    /\ seen' = [seen EXCEPT ![c] = None]
    /\ UNCHANGED <<store, inFlight, shutdown, key, gone, joined, entry>>

\* A corrupt value is deleted, best effort, whatever the key holds by now, and
\* then counts as a miss.
deleteCorruptCacheEntry(c) ==
    /\ pc[c] = "reading" /\ seen[c] = "corrupt"
    /\ seen' = [seen EXCEPT ![c] = "absent"]
    /\ \E value \in {"absent", fresh[key[c]]} :
          fresh' = [fresh EXCEPT ![key[c]] = value]
    /\ UNCHANGED <<backend, inFlight, shutdown, pc, key, gone, joined,
                   result, entry>>

Missed(c) == pc[c] = "reading" /\ seen[c] \in {"absent", "error"}

\* Mutant: a caller subscribes before its signal is checked.
Wait_SubscribesFirst(c, e) ==
    /\ seen' = [seen EXCEPT ![c] = None]
    /\ subscribers' = [subscribers EXCEPT ![e] = @ + 1]
    /\ IF gone[c]
       THEN Finish(c, "aborted") /\ UNCHANGED joined
       ELSE /\ pc' = [pc EXCEPT ![c] = "waiting"]
            /\ joined' = [joined EXCEPT ![c] = e]
            /\ UNCHANGED result

\* waitForInFlightSearch: an aborted caller throws before it subscribes.
Wait(c, e) ==
    /\ seen' = [seen EXCEPT ![c] = None]
    /\ IF gone[c]
       THEN Finish(c, "aborted") /\ UNCHANGED <<joined, subscribers>>
       ELSE /\ pc' = [pc EXCEPT ![c] = "waiting"]
            /\ joined' = [joined EXCEPT ![c] = e]
            /\ subscribers' = [subscribers EXCEPT ![e] = @ + 1]
            /\ UNCHANGED result

\* The search is in flight: coalesce.
Join(c) ==
    /\ Missed(c)
    /\ inFlight[key[c]] # None
    /\ Wait(c, inFlight[key[c]])
    /\ UNCHANGED <<store, inFlight, shutdown, key, gone, phase, canceled, outcome>>

\* Mutant: the map is not consulted.
Create_Always(c) ==
    /\ Missed(c)
    /\ inFlight' = [inFlight EXCEPT ![key[c]] = c]
    /\ phase' = [phase EXCEPT ![c] = "coordinating"]
    /\ Wait(c, c)
    /\ UNCHANGED <<store, shutdown, key, gone, canceled, outcome>>

\* createInFlightSearch: register the entry and start its work, then wait.
Create(c) ==
    /\ Missed(c)
    /\ inFlight[key[c]] = None
    /\ inFlight' = [inFlight EXCEPT ![key[c]] = c]
    /\ phase' = [phase EXCEPT ![c] = "coordinating"]
    /\ Wait(c, c)
    /\ UNCHANGED <<store, shutdown, key, gone, canceled, outcome>>

\* Mutant: everybody who shared the load reports the miss.
Share_NotRelabelled(c, r) == r

\* The caller's share of a settled promise: only the creator reports a miss.
Share(c, r) == IF joined[c] # c /\ r = "miss" THEN "coalesced" ELSE r

\* Mutant: a release aborts work that others still wait for.
Release_AbortsShared(e) ==
    /\ subscribers' = [subscribers EXCEPT ![e] = @ - 1]
    /\ canceled' = [canceled EXCEPT ![e] = @ \/ Live(e)]

\* Mutant: the last release aborts settled work too.
Release_AbortsSettled(e) ==
    /\ subscribers' = [subscribers EXCEPT ![e] = @ - 1]
    /\ canceled' = [canceled EXCEPT ![e] = @ \/ subscribers[e] = 1]

\* release() of a waiter: the last one aborts work that is still going on.
Release(e) ==
    /\ subscribers' = [subscribers EXCEPT ![e] = @ - 1]
    /\ canceled' = [canceled EXCEPT ![e] = @ \/ (Live(e) /\ subscribers[e] = 1)]

\* Mutant: a waiter has no handler for a rejected promise.
Deliver_OnlyResolved(c) ==
    /\ pc[c] = "waiting" /\ phase[joined[c]] = "settled"
    /\ outcome[joined[c]] \in Status
    /\ Release(joined[c])
    /\ Finish(c, Share(c, outcome[joined[c]]))
    /\ UNCHANGED <<store, inFlight, shutdown, key, seen, gone, joined,
                   phase, outcome>>

\* The promise has settled: a waiter releases and takes its share.
Deliver(c) ==
    /\ pc[c] = "waiting" /\ phase[joined[c]] = "settled"
    /\ Release(joined[c])
    /\ Finish(c, Share(c, outcome[joined[c]]))
    /\ UNCHANGED <<store, inFlight, shutdown, key, seen, gone, joined,
                   phase, outcome>>

\* The client disconnects.  A waiter releases its entry and is rejected; a
\* caller still reading notices later, if at all.
Disconnect(c) ==
    /\ pc[c] \in {"reading", "waiting"} /\ ~gone[c] /\ Quiet
    /\ gone' = [gone EXCEPT ![c] = TRUE]
    /\ IF pc[c] = "waiting"
       THEN Release(joined[c]) /\ Finish(c, "aborted")
       ELSE UNCHANGED <<subscribers, canceled, pc, result>>
    /\ UNCHANGED <<store, inFlight, shutdown, key, seen, joined, phase, outcome>>

-----------------------------------------------------------------------------
(* The work of an entry: fetchArticlesFromUpstream                         *)

Advance(e, from, to) ==
    /\ phase[e] = from
    /\ phase' = [phase EXCEPT ![e] = to]
    /\ UNCHANGED <<inFlight, shutdown, caller, subscribers, canceled, backend>>

Return(e, from, r) ==
    /\ Advance(e, from, "returning")
    /\ outcome' = [outcome EXCEPT ![e] = r]

\* coordinateCacheMiss finds the articles another replica has written.
CoordinateHit(e) ==
    /\ Return(e, "coordinating", "coalesced")
    /\ backend = "redis" /\ ~canceled[e] /\ fresh[key[e]] = "articles"
    /\ UNCHANGED fresh

\* Mutant: the load is called without a look at the signal.
StartLoad_IgnoresAbort(e) ==
    /\ Advance(e, "coordinating", "loading")
    /\ UNCHANGED <<fresh, outcome>>

\* coordinateCacheMiss calls load: bypassed, leased, failed open or expired.
StartLoad(e) ==
    /\ ~canceled[e]
    /\ Advance(e, "coordinating", "loading")
    /\ UNCHANGED <<fresh, outcome>>

\* Coordination and the provider notice the abort; there is no fallback.  The
\* provider also gives up when the process shuts down.
Unwind(e) ==
    /\ \/ canceled[e] /\ Return(e, "coordinating", "aborted")
       \/ (canceled[e] \/ shutdown) /\ Return(e, "loading", "aborted")
    /\ UNCHANGED fresh

ProviderSucceeds(e) ==
    /\ ~canceled[e] /\ ~shutdown /\ Quiet
    /\ Advance(e, "loading", "writing")
    /\ UNCHANGED <<fresh, outcome>>

ProviderFails(e) ==
    /\ ~canceled[e] /\ ~shutdown /\ Quiet
    /\ Advance(e, "loading", "fallback")
    /\ UNCHANGED <<fresh, outcome>>

\* The stale copy is served, or the provider's error is rethrown; there may be
\* a copy or not.  The abort signal is not consulted.
readStaleCachedArticles(e) ==
    /\ \E r \in {"stale", "error"} : Return(e, "fallback", r)
    /\ UNCHANGED fresh

\* Redis may refuse the fresh write.  The write of the stale copy that follows
\* is part of the time until the promise settles.
writeCachedArticles(e) ==
    /\ Return(e, "writing", "miss")
    /\ \/ fresh' = [fresh EXCEPT ![key[e]] = "articles"]
       \/ backend = "redis" /\ UNCHANGED fresh

\* The promise settles, after the lease is released: markInFlightSettled.
markInFlightSettled(e) ==
    /\ phase[e] = "returning"
    /\ phase' = [phase EXCEPT ![e] = "settled"]
    /\ inFlight' = IF inFlight[key[e]] = e
                   THEN [inFlight EXCEPT ![key[e]] = None] ELSE inFlight
    /\ UNCHANGED <<store, shutdown, caller, subscribers, canceled, outcome>>

-----------------------------------------------------------------------------
(* The surroundings                                                        *)

abortShutdown ==
    /\ ~shutdown /\ Quiet
    /\ shutdown' = TRUE
    /\ UNCHANGED <<store, inFlight, caller, entry>>

\* An entry expires or is evicted, and in Redis another replica writes it or
\* it is damaged.
Others(k) ==
    /\ Quiet
    /\ \E value \in {"absent"} \cup (IF backend = "redis" THEN Cached ELSE {}) :
          fresh' = [fresh EXCEPT ![k] = value]
    /\ UNCHANGED <<backend, inFlight, shutdown, caller, entry>>

-----------------------------------------------------------------------------
CallerStep(c) ==
    \/ \E k \in Keys : searchArticles(c, k)
    \/ ReadHit(c) \/ deleteCorruptCacheEntry(c) \/ Join(c) \/ Create(c)
    \/ Deliver(c) \/ Disconnect(c)

EntryStep(e) ==
    \/ CoordinateHit(e) \/ StartLoad(e) \/ Unwind(e)
    \/ ProviderSucceeds(e) \/ ProviderFails(e) \/ readStaleCachedArticles(e)
    \/ writeCachedArticles(e) \/ markInFlightSettled(e)

Next ==
    \/ \E c \in Callers : CallerStep(c) \/ EntryStep(c)
    \/ abortShutdown
    \/ \E k \in Keys : Others(k)

Spec == Init /\ [][Next]_vars

-----------------------------------------------------------------------------
(* Properties                                                              *)

\* Stampede protection: a search has at most one entry whose work goes on, and
\* it is the registered one, so that every later miss joins it.
OneSearchPerKey ==
    \A e \in Callers : Live(e) => inFlight[key[e]] = e

\* entry.subscribers counts the callers that wait for the entry, across joins,
\* disconnects and deliveries in any order.
SubscribersExact ==
    \A e \in Callers : subscribers[e] = Cardinality({c \in Callers : Waiting(c, e)})

\* One load is reported as one miss: the others that shared it are coalesced.
OneMissPerLoad ==
    \A c, d \in Callers :
        /\ joined[c] = joined[d] /\ joined[c] # None
        /\ result[c] = "miss" /\ result[d] = "miss"
        => c = d

\* With the memory store the provider is never asked for a search whose fresh
\* articles are in the cache: between the write and the end of the entry there
\* is no gap through which a caller starts the load again.
NoRedundantLoad ==
    backend = "memory" =>
        \A e \in Callers : phase[e] = "loading" => fresh[key[e]] # "articles"

\* Callers and entries implement the abstract flights, of which the counter of
\* subscribers and the map are no part: "the shared provider is aborted only when
\* no subscribers remain", and then it is, whatever has joined, disconnected and
\* been delivered before; every later miss joins the entry whose work goes on.
flight == [e \in Callers |-> IF Live(e) THEN "flying"
                            ELSE IF phase[e] = "settled" THEN "landed" ELSE "none"]
search == [e \in Callers |-> IF phase[e] = "none" THEN None ELSE key[e]]
waits == [c \in Callers |-> IF pc[c] = "waiting" THEN joined[c] ELSE None]
calledOff == {e \in Callers : canceled[e]}
misses == {c \in Callers : result[c] = "miss"}
Flights == INSTANCE SingleFlight WITH Searches <- Keys, canceled <- calledOff
ImplementsSingleFlight ==
    Flights!Init /\ [][UNCHANGED Flights!vars \/ Flights!Next]_vars

\* The work of an entry is that of one miss: an entry whose last subscriber has
\* gone neither asks the provider nor takes its answer, and answers are cached,
\* or refused by the cache, before the entry ends.
Place(e) ==
    CASE phase[e] = "fallback" -> "loading"
      [] phase[e] \in {"returning", "settled"} -> "ended"
      [] OTHER -> phase[e]
MissOf(e) == INSTANCE Miss WITH
    place <- Place(e), canceled <- canceled[e],
    cached <- key[e] # None /\ fresh[key[e]] = "articles"
ImplementsMiss ==
    /\ \A e \in Callers : MissOf(e)!Init
    /\ [][\A e \in Callers : UNCHANGED MissOf(e)!vars \/ MissOf(e)!Next]_vars
=============================================================================
