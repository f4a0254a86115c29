# Formal models of news-api

TLA+ models of the News API (`src/`, TypeScript on Express), TLC configurations
that check them on small instances, and TLAPS proofs of what matters most for
every value of their constants. The reference is the code; paths below are those
of the repository.

    tlc -config Requests.cfg MCRequests    # check a model
    tlapm RequestsProofs.tla               # check its proofs

1. [The system](#1-the-system)
2. [Modules](#2-modules)
3. [Model checking](#3-model-checking)
4. [Proofs](#4-proofs)
5. [Where documents and code disagree](#5-where-documents-and-code-disagree)
6. [What is not modelled](#6-what-is-not-modelled)
7. [Plan](#7-plan)

## 1. The system

A process answers searches for news. It asks one upstream provider (GNews) and
keeps the answers in a cache. The cache and the request quota live in process
memory, or in Redis when `REDIS_URL` is set; then several replicas share both.

    client ─ HTTP server ─ rate limiter ─ controller ─ search service ─ provider adapter ─ GNews
                               │                            │   │
                               │                       cache store  cache-miss coordinator
                               └──────── Redis ─────────────┴───────────┘
    process signals ─ graceful shutdown ─ (lifecycle flags) ─ all of the above

Each component, the state it keeps, what it does, what is hard about it and what
makes it correct:

**Search service** (`src/services/newsService.ts`). *State*: the map
`inFlightSearches` and, per entry, a promise, a subscriber count, an abort
controller and a settled flag. *Operations*: `searchArticles` (read the cache,
delete a corrupt value, join or create an entry, wait), release of a waiter, the
work of an entry (coordinate, load, fall back to the stale copy, write back).
*Hard*: the map is consulted after an `await`; waiters come, disconnect and are
answered in any order around the settlement; an aborted entry stays registered
until it settles. *Correct when* one load runs per search, it is aborted when
and only when nobody waits, one load is reported as one miss, and everyone gets
an answer.

**Provider adapter** (`src/providers/gnewsProvider.ts`, `retry.ts`). *State*: the
circuit of the process (`failures`, `openedAt`, `halfOpenInFlight`); per search
its deadline, its attempt and its signals. *Operations*: admission by the
circuit, attempts and backoff, the settlement of a search on each of its paths.
*Hard*: concurrent searches share one circuit; a search may outlive a cooldown;
the deadline, the caller and the shutdown race. *Correct when* the half-open slot
is always given back, a probe is alone and decides the circuit, and every search
ends within its budget.

**Cache-miss coordinator** (`src/cache/coordinator.ts`, `config/cache.ts`, the
lease commands of `src/cache/store.ts`). *State*: one lease key per cache key in
Redis, with an owner token and a TTL; per call a deadline, a poll delay and a
heartbeat. *Operations*: acquire, re-read, load, renew, release; wait by polling.
*Hard*: every command may fail, be lost after it took effect, be resent or be
late; a lease may expire under its owner; an abort may come anywhere. *Correct
when* nobody touches another's lease, the heartbeat keeps it, one replica loads,
and a waiter is never blocked for long.

**Cache store** (`src/cache/store.ts`). *State*: in memory a NodeCache and the Map
`recency`. *Operations*: `get`, `set` with eviction, `delete`. *Hard*: NodeCache
removes expired entries behind the store's back, and refuses a key when full.
*Correct when* a set always succeeds and evicts the least recently used key.

**Rate limiter and Redis command runner** (`src/middleware/rateLimit.ts`,
`src/redis/commandRunner.ts`). *State*: one Redis client per process, a hit
counter per client and window in Redis. *Operations*: wait for the connection,
send a command under a timeout, count, decide; the same for `/ready`; disconnect.
*Hard*: readiness, end and timeouts race; ioredis resends commands; a reply may
be lost after the hit has been counted. *Correct when* the quota holds across
replicas, failures refuse, and a check takes bounded time.

**Controllers, request cancellation, error handler** (`src/controllers/`,
`src/utils/validation.ts`, `src/runtime/requestCancellation.ts`,
`src/middleware/errorHandler.ts`, `src/app.ts`). *State*: per request an abort
signal with a `close` listener. *Operations*: validate the parameters and make a
search of them, answer or pass the error on. *Hard*: requests of different routes
and spellings may stand for one search; the close of a connection races the
limiter, the search and the response; the error handler drops aborted requests in
silence. *Correct when* every connected client is answered, requests share a
search exactly if they ask for the same, and no work goes on for clients that
have left.

**Transport events** (`src/runtime/httpServerEvents.ts`, `config/httpServer.ts`).
*State*: per event a window with the warnings emitted and suppressed in it; the
sockets are Node's. *Operations*: answer a request that cannot be parsed or is
late, count and log it, log requests that Node drops. *Hard*: the parser fails
on one request while the response to an earlier one is being written; the wall
clock may be set back under the window. *Correct when* responses are never
written into, warnings are bounded, and none is lost without being counted.

**API client** (`src/client/newsApiClient.ts`), with the server's validators and
errors (`http/conditional.ts`, `http/responses.ts`, `http/retryAfter.ts`). *State*:
none; applications keep envelopes with their tags. *Operations*: plain and
conditional reads, errors with Retry-After hints. *Hard*: a response may be cut off
anywhere; the tag leaves out parts of the envelope; hints come from the provider in
two forms. *Correct when* a 304 stands for a copy the application has, and hints
neither invite it back too early nor keep it away for ever.

**Configuration** (`config/numbers.ts` and the modules that use it). *State*: none.
*Hard*: any text in the environment, settings that bound each other, defaults that
exceed a configured maximum. *Correct when* related settings fit together whatever
the environment holds.

**Graceful shutdown** (`src/runtime/shutdown.ts`, `lifecycle.ts`, `src/server.ts`).
*State*: draining and abort flags, a timer, `finalized`, `forced`, the cleanup.
*Hard*: repeated signals, an error of `server.close`, a cleanup that hangs or
fails, and the deadline, in any order. *Correct when* the process exits by its
deadline, spares requests until then, and reports status 0 truthfully.

What remains is stateless and observed by nothing else: small middleware,
metrics, tracing and log formatting, generated types (section 6).

## 2. Modules

| Module | Models | Proofs |
| --- | --- | --- |
| `CircuitBreaker` | circuit, retries, deadline and signals of `GNewsProvider.search` | `CircuitBreakerProofs` |
| `Circuit` | abstract: the circuit breaker of the documentation | |
| `NewsService` | `searchArticles` and the work of in-flight entries | `NewsServiceProofs` |
| `SingleFlight` | abstract: what coalescing promises its callers | |
| `Miss` | abstract: the way of one cache miss, as coordinator and service share it | |
| `SearchParameters` | from a request's parameters to its search, its key and the provider's query | `RequestsProofs` |
| `Requests` | a search request from limiter to response, composed with the two above | `RequestsProofs` |
| `CacheLease` | `coordinateCacheMiss` in any number of replicas, and the lease in Redis | `CacheLeaseProofs` |
| `Lease` | abstract: what an owner-token lease promises | |
| `MemoryStore` | `createMemoryStore`, over NodeCache | `MemoryStoreProofs` |
| `LRU` | abstract: a bounded least-recently-used cache | |
| `RateLimit` | limiter, readiness probe, command runner, Redis connections and counter | `RateLimitProofs` |
| `Quota` | abstract: one atomic limiter with a fixed window | |
| `Shutdown` | signal handler, deadline, cleanup | `ShutdownProofs` |
| `Config` | the numeric settings | `ApiClientProofs` |
| `HttpServer` | connections, client errors, dropped requests, the limiter of their warnings | `ApiClientProofs` |
| `ApiClient` | the client library over `HttpServer`: validators, errors, hints | `ApiClientProofs` |

`MCNewsService`, `MCRequests`, `MCApiClient` and `MCRateLimit` give their models symmetry sets and
small constants. Actions and variables bear the names of the functions and fields
they stand for, wherever the code has a name. A definition called `X_Something`
with a comment that begins "Mutant" is not part of a specification: it is a
plausible mistake in `X`, and substituting it for `X` violates the property it was
written for.

### How the code becomes actions

JavaScript runs one event at a time, and the reactions queued by an event (the
microtasks) run before the next event. So an action is a piece of code between
two awaits that really wait: for a timer, the network, or Redis. What other code
can do at an `await` is what other actions can do there.

* **`NewsService`** is one process. `fresh` is the cache entry of a search,
  `seen` what a caller's read has returned before the caller acts on it: with
  Redis anything may happen between the two. With the memory store the awaits
  are microtasks only; `Quiet` holds external events back until they have run.
  An entry is named for its creator. Its work is a sequence of phases: coordinate,
  load, fall back or write, return, settle. The coordinator appears as its
  outcomes (another replica's articles, a load, an abort), the provider as
  success, failure or abort, and other replicas as `Others`, which changes the
  cache.
* **`SearchParameters`** takes a parameter as absent, wrong or given, the last with
  the value its parser makes of it and the spelling it came in. `searchCacheKey` and
  `toProviderParams` list the fields the code lists, so that a field missing from
  either shows.
* **`Requests`** extends `NewsService`: the request of a caller has its name.
  `asked` are its parameters, `stage` and `open` the request and its connection;
  `Handle` calls the service with the search the parameters stand for. Every step
  of the service is a step here, and the reaction of the controller or the error
  handler is part of the step that ends the search. `Close` aborts the signal only when
  the listener is registered, which is after the limiter. `ServiceImplemented`
  says that the composition is still a `NewsService`.
* **`CircuitBreaker`** keeps instants relative to now, `sinceOpened` and `age`, so
  that no bound on the clock is needed. A search in a slot ends by one of
  `Succeed`, `FailDefinitely`, `FailTransiently` with no retry left,
  `FailPermanently`, `TimeOut` and `Cancel`, the ways out of the `try`; the last
  two are the first lines of the `catch`.
* **`CacheLease`** lets a command take effect in one step some time after it was
  issued. A command that is neither slow nor failing takes less than a tick;
  whatever goes wrong (an error before or after Redis executed the command, a
  lost reply and its resend, a slow step, a lost cache entry) uses up one of
  `MaxFaults`. The heartbeat is a timer of its own, whose renewal may still be in
  flight when the call is over.
* **`MemoryStore`** represents insertion order as the pairs of keys in which the
  first was inserted first, which proofs handle better than sequences. `Pops` and
  `FallsBack` describe what the loops of `makeRoom` remove.
* **`RateLimit`** has one counter, that of one client. `Ready`, `Drop` and
  `disconnectRateLimitStore` are the events of a replica's connection, with the
  commands they release or reject; `LateHit` is a hit that Redis executes after
  its request has given up.
* **`HttpServer`** and **`ApiClient`** have one state, in two modules: what the
  server does with a connection (`stage`, and `wire`, what it has written of the
  present response) and what the application at its other end makes of it. `wire`
  tells the start of a response, its rest and the raw answer of the transport
  layer apart. One resource is read, whose envelope is reduced to the articles, as
  a digest is to what it covers. The clock of the log limiter ticks, or is set back
  at most `MaxBack` times; `recent` keeps the warnings that are younger than a window,
  with their numbers and their real age.
* **`Config`** has the clamping functions as operators over what `Number()` makes of
  a variable; `ServerInit` starts a server with whatever they make of an
  environment.
* **`Shutdown`** distinguishes a cleanup that is *queued* (a promise reaction)
  from one that runs: `process.exit` never lets the former start.

Data are reduced to what decisions depend on. A search is a key, a cached value
is absent, articles or corrupt, counters saturate where the code stops looking
(`failures` at the threshold, `hits` above the limit).

## 3. Model checking

`PROJECT.json` lists each run with its module, configuration and properties. Runs
marked *doc* check a statement of a document that the code does not keep, and
TLC finds the counterexample of section 5.

| Run | Instance | Distinct states | Question |
| --- | --- | --- | --- |
| `news` | 3 callers, 2 searches, both stores | 2,256,230 | coalescing under every order of reads, joins, disconnects, settlements |
| `requests` | 2 requests, 3 combinations of parameters, both stores | 392,584 | is everyone answered, do the right requests share, and does work go on for nobody? |
| `requests_doc` | the same, Redis | | *doc* |
| `circuit` | 3 searches, threshold 2, budget 1, cooldown 1 or 2, 1 retry | 217,070 | the slot is freed and searches settle for either proportion; a probe is alone where no search outlives a cooldown |
| `circuit_doc` | 3 searches, budget 2, cooldown 1 (shipped: 60 s and 30 s) | | *doc* |
| `lease` | 2 replicas, TTL 2, heartbeat 1, wait 2, poll up to 2, 2 faults | 38,967 | ownership, single fill, bounded waits, every call ends |
| `memory` | 5 keys, room for 3 | 20,536 | bounded LRU, every set succeeds |
| `memory_doc` | 3 keys, room for 2 | | *doc* |
| `quota` | 2 requests at any of 2 replicas, limit 1, window 2, timeouts 2 and 1, 2 commands per check | 518,432 | shared quota, fail closed, bounded checks |
| `shutdown` | 3 requests, deadline 3 | 957 | exit in time, with a truthful status |
| `shutdown_doc` | 1 request, deadline 1 | | *doc* |
| `http` | 1 connection, 2 contents, 4 hints, 4 transport events, burst 1, window 2, 1 step back of the clock | 3,699,154 | whole responses, truthful 304s and hints, bounded and complete warnings |

### The properties

* **`NewsService`**: `OneSearchPerKey` (live work is the registered one),
  `SubscribersExact` (the count is the number of waiters), `NoRedundantLoad` (in
  memory, nothing is loaded that the cache holds) and `ImplementsSingleFlight` (a
  search has one flight, joined while it flies, called off by the last that leaves
  and by nobody else, and told as a miss to its starter alone).
* **`Requests`**: `RequestTypeOK` (request and call are in step, and an aborted
  signal means a closed connection), `DropsExplained` (the reasons for which a
  request may end without a response), `WorkForClients` (in memory, work that
  goes on is awaited by somebody connected), `CoalescedAlike` (requests share work
  exactly if they ask the provider for the same), `ImplementsMiss` (every entry of
  the service takes the way of a cache miss, in the whole pipeline), `RequestsSettle`.
* **`CircuitBreaker`**: `ProbeAlive` and `SearchSettles` for every timing;
  `ProbeExclusive` and `ImplementsCircuit` where the search budget is below the
  cooldown, a condition they state (`ShortBudget`). The latter says that flags,
  counter, retries, deadlines and aborts together are the documented machine:
  failures open it, a cooldown passes, one probe alone closes it or opens it anew.
* **`CacheLease`**: `ImplementsLease`, `OwnerHolds`, `SingleFill`,
  `LeakOnlyByAbort`, `WaitBounded`, `ImplementsMiss`, `CallsEnd`. Those that
  only hold when nothing fails say so by `Faultless`; the others hold under faults.
* **`MemoryStore`**: `AlwaysAccepts`, `ImplementsLRU`.
* **`RateLimit`**: `QuotaShared`, `ImplementsQuota` (the replicas are one limiter
  that decides each request at an instant: no pass without a grant, no 429 before
  the quota is used up), `CheckBounded`, `ChecksEnd`.
* **`Shutdown`**: `CleanExit`, `DeadlineMet`, `RequestsSpared`, `Exits`.
* **`ApiClient`**: `ResponsesIntact` (the transport layer never writes into a
  response that has started), `CopyCurrent` (a 304 stands for a copy the
  application has and that was current when it was answered), `RetryHintHonest`
  (hints are bounded and never too short, the bound apart), `SuppressionAccounted`
  (each suppressed warning is reported once or waits to be), `WarningsBounded` (at
  most two budgets in any window of real time, even when the clock is set back).
  `ClientTypeOK` includes that headers are due before their request.

`Miss` is stated of two modules. `NewsService` takes the coordinator as its outcomes,
`CacheLease` takes the provider and the cache as theirs; that both take the same way
of a miss, with the same abort and the same cache, is what lets one stand in the
place of the other. The properties that refer to an abstract module by its next-state
relation put the stuttering first, `[][UNCHANGED vars \/ Next]_v`, which TLC
evaluates several times faster than `[][Next]_vars`; the theorems state both.

The other modules' type invariants are checked with their properties where a bug in
the code could break them (`TypeOK` of `CircuitBreaker`, `RateLimit` and
`Shutdown`), and proved everywhere. `BackoffBounded`, which TLC evaluates with
`MCApiClient`, is the bound of the jittered backoff over all settings.

### Why the bounds are enough

*Callers*: three are one that creates an entry, one that joins it and one that
comes after its end or its abort; with two searches, an entry can settle while
another key's is live. Two suffice for `requests`, whose only new state is one
request's own and what two requests ask for: the same by different routes and
spellings, different searches, or something that is refused. *Circuit*: three
searches are an old one admitted before the circuit opened, a probe, and a second
probe or a failure beside it; a threshold of two makes one failure not open the
circuit. *Replicas*: an owner and one waiter, who then becomes the owner; the lease
is one key, so more replicas only add waiters. Two faults allow a fault on each
side, or a fault and a slow step, and every behaviour of the lease's expiry needs
one. *Memory*: two keys more than fit leave room for an eviction with expired
entries, and for keys in `recency` that NodeCache no longer has. *Quota*: two
requests over a limit of one, at the same replica or different ones, and two
commands so that a retry within a check happens. *Connections* share nothing but
the log limiter, so one is enough; it is reused after every response. Four
transport events are a warning, two that are suppressed and the one that reports
them; one step back is enough for two bursts to meet. `MaxSafe` is scaled to
2,000,000, above every maximum, and one limit exceeds it. The hints are a negative
one, one above the cap, and dates around a second. *Times* are as small as their
order allows (heartbeat < TTL, budget below or above the cooldown). The proofs of
section 4 remove the bounds for most of the safety properties.

Symmetry is used in `news` (callers and searches) and `http` (contents), neither of
which checks liveness. `quota`, which does, uses that replicas are alike only to fix
the one that serves the first request (`MCRateLimit`): every behaviour is one of
these with its replicas renamed.

### Fairness

Liveness is checked under weak fairness of what the runtime does by itself:

* the clock runs and due timers fire: `Tick`, `DeadlineFires`, `TimeOut`, `Beat`,
  `forceExit`;
* queued reactions run: `Cancel`, `Closed`, `CleanupStarts`, `Search`;
* in `CacheLease` the steps of a call and its renewal, since every Redis command
  has a timeout and every load the total budget of `CircuitBreaker`
  (`SearchSettles`);
* in `Requests` the limiter, whose check is bounded (`ChecksEnd` of `RateLimit`),
  and the work of an entry, by the same budget.

Nothing is assumed of the provider, Redis or the clients elsewhere: the provider
may never answer in `CircuitBreaker`, Redis never in `RateLimit`, requests and
disconnects may hang in `Shutdown`, and clients may never leave.

Deadlock is checked where the system runs for ever (`CircuitBreaker`,
`CacheLease`, `MemoryStore`, `ApiClient`). The other models end: every caller is served once,
or the process exits.

## 4. Proofs

Eight modules hold proofs, checked to their last leaf. They assume the named
`ASSUME`s on the constants, each in the module that declares the constant (finite
sets of callers, requests or keys where something is counted; positive times and
limits; the heartbeat shorter than the TTL; `None` and `NoOne` outside the sets
they are added to; keys that include every search a request may stand for), and
nothing else. The theorems about the circuit's types and slot hold for any timing; the two about a
lone probe and the documented circuit breaker say of themselves that they need a short budget, which the shipped
defaults are not (section 5).

| Module | Theorem | Property |
| --- | --- | --- |
| `CircuitBreakerProofs` | `TypeCorrect`, `SlotNeverOrphaned` | `TypeOK`, `ProbeAlive` |
| | `ExclusiveProbe`, `CircuitImplemented` | `ProbeExclusive`, `ImplementsCircuit` |
| `NewsServiceProofs` | `TypeCorrect`, `StampedeProtection` | `TypeOK`, `OneSearchPerKey` |
| | `ExactSubscribers`, `NoLoadRedundant` | `SubscribersExact`, `NoRedundantLoad` |
| | `SingleFlightImplemented`, `MissImplemented` | `ImplementsSingleFlight`, `ImplementsMiss` |
| | `OneMiss` | `OneMissPerLoad`: sharers of a load report one miss |
| `RequestsProofs` | `ServiceImplemented` | `RequestSpec => Spec` of `NewsService` |
| | `RequestsCoalesced` | `ImplementsMiss` and `ImplementsSingleFlight`, of the pipeline |
| | `RequestTypeCorrect`, `DropsAccounted` | `RequestTypeOK`, `DropsExplained` |
| | `WorkAttended`, `SharesExactly` | `WorkForClients`, `CoalescedAlike` |
| `CacheLeaseProofs` | `TypeCorrect`, `DeadlineKept` | `TypeOK`, `WaitBounded` |
| | `LeaseImplemented`, `HeartbeatSuffices`, `MissImplemented` | `ImplementsLease`, `OwnerHolds`, `ImplementsMiss` |
| | `FilledOnce`, `LeakByAbort` | `SingleFill`, `LeakOnlyByAbort` |
| `MemoryStoreProofs` | `TypeCorrect`, `EntriesTracked`, `SetNeverFails`, `LRUImplemented` | `TypeOK`, `Tracked`, `AlwaysAccepts`, `ImplementsLRU` |
| `ShutdownProofs` | `TypeCorrect`, `StatusTruthful`, `DeadlineHolds`, `RequestsProtected` | `TypeOK`, `CleanExit`, `DeadlineMet`, `RequestsSpared` |
| `RateLimitProofs` | `TypeCorrect`, `QuotaKept`, `BudgetKept` | `TypeOK`, `QuotaShared`, `CheckBounded` |
| | `QuotaImplemented` | `ImplementsQuota` |
| | `ClosedOnFailure` | `FailsClosed`: passes and refusals agree with the count |
| `ApiClientProofs` | `SettingsSound`, `BackoffBound` | related settings fit for every environment; the backoff is between 1 and 3000 ms |
| | `ClientTypeCorrect`, `IntactResponses`, `CurrentCopies` | `ClientTypeOK`, `ResponsesIntact`, `CopyCurrent` |
| | `HonestRetryHints`, `Accounted`, `WarningsKept` | `RetryHintHonest`, `SuppressionAccounted`, `WarningsBounded` |

### The arguments

* **A probe is alone** (`Exclusion`). That no other search is in flight beside a
  probe is not inductive: a probe is admitted when the circuit has been open for a
  cooldown, and one must know that nothing is left from before. `OlderThanOpening`
  says that a search in flight while the circuit is open began before it opened,
  so it is at least as old as the opening; with a budget below the cooldown it has
  reached its deadline before the cooldown is over. `ProbeHoldsSlot` and
  `ProbeAlive` tie the flag to the probe.
* **The circuit breaker** (`CircuitImplemented`). Every end of a search is one of
  three things to the abstract circuit: a success, a failure, or nothing said of the
  provider. That a failure of the probe opens the circuit, which the code leaves to
  the counter, needs `Exhausted`: a circuit that is not closed has used up its
  failures. That a cancellation opens it for a probe and leaves it for others needs
  that a probe is in flight exactly while the slot is taken (`SettledProbe`).
* **Subscriber counts** (`ExactSubscribers`). Every step keeps the set of waiters,
  adds one caller to one entry, or removes one, and changes the count by as much
  (`WaitersChange`); cardinality does the rest. It needs that a caller's own entry
  is new when the caller creates it (`CreatorsFresh`).
* **One miss** (`MissesOwned`). Only the creator of an entry reports a miss, when it
  is done, so two that do have created different entries.
* **The single flight** (`SingleFlightImplemented`). The abstract flight is called off
  by the last of the *set* of those that wait, the code decides by a *counter*: exact
  counts make them one (`LastSubscriber`). A new flight is the only one because what
  is live is registered, and a joined one flies because what is registered is live
  work for its search (`Registered`). `MissesOwned` gives misses to starters.
* **The way of a miss** (`MissImplemented`, of both). In the coordinator an abort is
  seen at every step that could lead to the provider, a failure of Redis included,
  and a call that ends without it has found the articles; in the service each entry
  is followed through its phases. Steps of others leave the place of a miss alone
  and change the cache only.
* **No redundant load** (`MemoryInv`). With the memory store a caller's read and
  what it does about it are one turn: while one reads, nobody else does, what it
  has seen is what the cache holds, and nothing is about to change the cache
  (`Calm`, which the guard `Quiet` of a new call establishes).
* **Drops** (`DropsAccounted`). `ServiceInv` adds to the above that an outcome of
  "aborted" has a reason (`Outcomes`), that what is registered is live work for
  its search (`Registered`), and that only with Redis, and never for its own
  entry, does a caller wait for aborted work (`JoinsSound`).
* **Work for clients** (`WorkAttended`). `Attended`: with the memory store live,
  unaborted work has a waiter whose signal is not aborted. Counts being exact, the
  last one to leave is the one that aborts.
* **Sharing** (`SharesExactly`). `Linked`: a call is made for the search its request
  stands for, and whoever has joined an entry has its creator's search.
  `KeyDeterminesSearch` says that the cache key and the provider's query have the
  same fields; the converse, that equals share, is `OneSearchPerKey`.
* **The heartbeat** (`HeartbeatSuffices`). `Held` bounds the life of the owner's
  lease from below by the time to the next renewal that is due (`Assured`), which
  a renewal restores to the TTL before a tick can use it up.
* **Single fill** (`Filling`). An owner that writes still holds the lease (`Held`),
  so nobody else works; once it has written, whoever wins the lease next finds the
  articles in the second read. **Leaks** (`Left`): without faults a call that is
  over has the lease only if it was aborted before it heard that it had won.
* **A waiter's deadline** (`DeadlineKept`). `Deadline`: time waited plus the
  delay left is within the deadline, plus the slow steps taken from the faults.
* **The lease** (`LeaseImplemented`) and **the LRU cache** (`LRUImplemented`) map
  every step of the detailed model to a step of the abstract one or a stutter. The
  lease needs `Owned`: only who has begun to load renews. The cache needs that
  the loop of `makeRoom` pops keys in recency order until the first that frees a
  place, stored keys being tracked (`Tracked`); so keys of swept entries go
  first and one stored key at most.
* **The quota** (`QuotaKept`, `Numbered`). Hits of one window have different
  numbers as long as they are within the limit, so the requests that pass inject
  into `1..Limit`. **One limiter** (`QuotaImplemented`): a request is decided when
  Redis executes its command; every other step of connections, timers and replicas
  is a stutter or lets requests fail (`Quiet`), and the reply tells the verdict that
  the count stands for, since an executed command has been counted (`Counted`).
  **The budget** (`BudgetKept`, `Budgeted`): age plus what is left
  of the timer is within the budget of the commands sent so far.
* **The transport layer** (`ConnInv`). `WireGood` ties what has been written to what
  the server does: nothing for a request that is served, a header for one that is
  answered, and no open connection ends with a header that a body follows, so a raw
  answer comes after complete responses only. `AnswerGood` says that an application
  asks with tags of its copies, that a copy lies under the tag of its contents, and
  what a 304 or a hint was derived from. Connections are independent (`Frame`).
* **The warnings** (`LogInv`). The suppressed are those reported and those that
  wait; the sum is restored by either way of taking an event. **Their bound**
  (`WarningsGood`): warnings are numbered, the recent ones are among those of the
  present window and one burst before it, and what came before the window or opened
  it is at least as old as the window by its clock, since a step back takes from that
  clock and never adds to it. So a window that is over has left nothing recent of the one
  before, and there are never more numbers than two budgets (`NumbersCounted`):
  counting numbers takes the place of an induction over a sum.
* **The settings** (`SettingsSound`). A positive setting lies within its maximum when
  its fallback does (`PositiveRange`), which each use makes sure of.
* **The exit** (`Clocks`, `Clean`). Elapsed time and the time left on the deadline add up to
  the timeout until the deadline is disarmed, which only happens with the exit;
  and a cleanup with status 0 starts only when no request is active.

### Only model-checked

Liveness (`SearchSettles`, `RequestsSettle`, `CallsEnd`, `Exits`, `ChecksEnd`), for
which the prover's treatment of fairness (`ENABLED`) does not reach. Every safety
property of a run is proved. No module that is proved about uses a recursive operator.

## 5. Where documents and code disagree

Each has a run that shows it; all are ways for documented guarantees to be weaker
than stated.

1. **Two half-open probes** (`circuit_doc`, `gnewsProvider.ts:99`). Any search that
   settles clears the half-open slot. One admitted before the circuit opened may
   take 60 s, longer than the 30 s cooldown, settle during a probe, and let a second
   probe in. README.md:34 and ARCHITECTURE.md:146 promise one at a time. It holds
   when the budget is below the cooldown (`ExclusiveProbe`).
2. **No response for a connected client** (`requests_doc`, `newsService.ts:333`,
   `errorHandler.ts:34`). With Redis, an entry aborted by its last waiter stays
   registered while it unwinds. A request that joins it then is rejected with the
   abort, and the error handler sends nothing. `DropsAccounted` proves that this
   is the only way.
3. **Recency outgrows its bound** (`memory_doc`, `store.ts:49`). NodeCache's sweep
   does not tell the store, whose Map keeps the keys until they are looked up,
   rewritten or evicted. OPERATIONS.md:95 says "bounded to CACHE_MAX_KEYS".
4. **A forced exit skips the cleanup** (`shutdown_doc`, `shutdown.ts:61`).
   `forceExit` queues the cleanup in a promise reaction and exits in the same turn.
   OPERATIONS.md:120 says the Redis connections are closed on shutdown.

Also seen while modelling, and part of the models' behaviours, without a run of
their own:

* with Redis, an entry created or left by callers that disconnected during their
  cache read is aborted by nobody (`newsService.ts:272`), and a client that leaves
  while the limiter waits for Redis is not noticed
  (`requestCancellation.ts:82`): `WorkForClients` is therefore stated for the
  memory store;
* a lease stays until its TTL when its call is aborted between the acquisition and
  its reply (`coordinator.ts:149`; `LeakOnlyByAbort` says that this is the only
  way when nothing fails);
* a lease TTL of 1 ms gets a heartbeat of 1 ms (`config/cache.ts:31`), outside the
  assumption `Heartbeat < TTL`, which `SettingsSound` proves of every other TTL;
* the jittered backoff exceeds `MAX_RETRY_DELAY_MS` by up to half (`retry.ts:45`),
  and by no more (`BackoffBound`);
* the client library has no timeout of its own (`newsApiClient.ts`), so no liveness is
  claimed of its calls: they wait for as long as the connection is silent.

## 6. What is not modelled

* *Within modelled components*: `normalizeArticles` beyond the rejection of a payload,
  the parsing of cached values (they appear as corrupt or not) and so the value side
  of the Redis store, request bodies and their parser's errors, the request id, and
  the routes that serve no searches. Which of the texts of a title or a source
  match an article is left open: either may be found or not.
* *Settings* that are texts or stand alone (`config/env.ts`, URLs, keys, log levels):
  the numbers among them are constants of the modules that use them.
* *express-rate-limit's own memory store*, used without Redis: a library that the
  code configures and leaves alone.
* *Other middleware* (API key, request id, security headers): stateless checks of
  one request; the API key appears as a refusal in `Requests`.
* *Observability* (logging, metrics, tracing) is read by nothing else, apart from the
  limiter of log lines in `HttpServer`. *Generated and declared types* run no code.
* External code is modelled only by how the code uses it: NodeCache's count,
  refusal and sweep; ioredis' statuses, resends and `SET NX PX`; the increment
  script of rate-limit-redis; Node's `server.close`, its parser's errors and its
  limit of requests per socket.

`PROJECT.json` maps every definition to the lines it stands for, and lists the
hazards of the code with the properties that cover them; the one without a
property of a run is the backoff, which the theorem `BackoffBound` settles.

## 7. Plan

Done, in this order: `CircuitBreaker`, `NewsService`, `CacheLease` with `Lease`,
`MemoryStore` with `LRU`, `Shutdown`, `RateLimit`, `Requests`, `Config`,
`HttpServer` with `ApiClient`, `SearchParameters`, the proofs of their safety
properties, and the abstract specifications `Miss`, `SingleFlight`, `Circuit` and
`Quota` with the refinements.

Left:

1. An abstract shutdown: the process as requests, cleanup and exit see it, without
   flags and timer, implemented by `Shutdown`.
2. What the abstract modules guarantee, proved once of them (a quota of `Quota`, one
   probe of `Circuit`), as a second way to the same invariants.
3. A composition of `NewsService` with `CacheLease`: two processes that coalesce
   locally and compete for the lease. `Miss` is the interface it would go through:
   both sides are proved to implement it.
4. `Requests` with `Shutdown`: an unanswered request holds `server.close` until the
   deadline.
