------------------------------- MODULE Requests -------------------------------
(***************************************************************************)
(* A search request on its way through one process: the rate limiter, the  *)
(* controller with the abort signal of its client, the search service, the *)
(* response or the error handler, and a client that may leave at any time  *)
(* (src/app.ts, src/controllers, src/middleware/errorHandler.ts,           *)
(* src/runtime/requestCancellation.ts).                                    *)
(*                                                                         *)
(* The request of a caller of searchArticles has the caller's name; every  *)
(* step of NewsService is a step here, taken on behalf of its request.     *)
(* The search a call is made for is the one its parameters stand for.      *)
(* REDIS_URL chooses both stores: with Redis the limiter waits for its     *)
(* counter, without it the limiter is done within the same turn.           *)
(***************************************************************************)
EXTENDS NewsService, SearchParameters

CONSTANT Inputs     \* the parameters that the requests may have, all together

\* Keys are the searches that requests may stand for.
SearchKey(input) == searchCacheKey(ArticleSearchOptions(input))
ASSUME KeysAssumption ==
    \A inputs \in Inputs : \A c \in Callers :
        IsValid(inputs[c]) => SearchKey(inputs[c]) \in Keys

VARIABLES
    asked,      \* the parameters of each request
    stage,      \* where a request is, or how it has ended
    open        \* its connection: res has not emitted close

pipeline == <<asked, stage, open>>
requestVars == <<vars, pipeline>>

\* Ways to be answered, and the silent end of an aborted request.
Refusals == {"limited", "unavailable", "unauthorized", "invalid"}
Answers == Refusals \cup {"ok", "notModified", "notFound", "failed"}
Over == Answers \cup {"dropped"}

\* The request and the call made for it are in step, and an aborted signal means
\* a closed connection.
RequestTypeOK ==
    /\ asked \in Inputs
    /\ stage \in [Callers -> {"none", "limiting", "searching"} \cup Over]
    /\ open \in [Callers -> BOOLEAN]
    /\ \A c \in Callers :
          /\ stage[c] = "none" => open[c]
          /\ stage[c] = "searching" <=> pc[c] \in {"reading", "waiting"}
          /\ stage[c] \in {"none", "limiting"} \cup Refusals <=> pc[c] = "idle"
          /\ gone[c] => ~open[c]

RequestInit ==
    /\ Init
    /\ asked \in Inputs
    /\ stage = [c \in Callers |-> "none"]
    /\ open = [c \in Callers |-> TRUE]

\* Without Redis nothing comes between the arrival of a request and its handler.
Prompt == backend = "memory" => \A c \in Callers : stage[c] # "limiting"

-----------------------------------------------------------------------------
(* The middleware and the controllers                                      *)

\* The request reaches the rate limiter.
Arrive(c) ==
    /\ stage[c] = "none" /\ Quiet /\ Prompt
    /\ stage' = [stage EXCEPT ![c] = "limiting"]
    /\ UNCHANGED <<vars, asked, open>>

\* The quota is used up, the limiter's store has failed, or the API key or a
\* parameter is wrong.
Refuse(c) ==
    /\ stage[c] = "limiting"
    /\ \E r \in Refusals :
          /\ r = "invalid" => ~IsValid(asked[c])
          /\ stage' = [stage EXCEPT ![c] = r]
    /\ UNCHANGED <<vars, asked, open>>

\* The controller accepts the parameters, registers its close listener and calls
\* the service.
Handle(c) ==
    /\ stage[c] = "limiting" /\ IsValid(asked[c])
    /\ stage' = [stage EXCEPT ![c] = "searching"]
    /\ \E k \in Keys : k = SearchKey(asked[c]) /\ searchArticles(c, k)
    /\ UNCHANGED <<asked, open>>

\* Articles are narrowed to a source, however few are left, or to the one of a
\* title, which may not be there.
Representations(input) ==
    {"ok", "notModified"} \cup (IF input.route = "title" THEN {"notFound"} ELSE {})

\* What the controller, or the error handler, makes of the end of the search.
Reactions(c, r) ==
    IF r \in Status THEN Representations(asked[c])
    ELSE IF r = "error" THEN {"failed"} ELSE {"dropped"}

\* Mutant: a rejection of the search is not passed on to the error handler.
React_OnlyResolved(c) ==
    IF pc'[c] = "done" /\ result'[c] \in Status
    THEN \E s \in Reactions(c, result'[c]) : stage' = [stage EXCEPT ![c] = s]
    ELSE UNCHANGED stage

\* The reactions to the end of the search run in the same turn.
React(c) ==
    IF pc'[c] = "done"
    THEN \E s \in Reactions(c, result'[c]) : stage' = [stage EXCEPT ![c] = s]
    ELSE UNCHANGED stage

\* The search goes on, or ends with or without an error.
Search(c) ==
    /\ stage[c] = "searching" /\ Prompt
    /\ ReadHit(c) \/ deleteCorruptCacheEntry(c) \/ Join(c) \/ Create(c) \/ Deliver(c)
    /\ React(c)
    /\ UNCHANGED <<asked, open>>

\* Mutant: nothing listens for the close of the connection.
Close_Unheard(c) ==
    /\ open[c] /\ stage[c] # "none" /\ Quiet /\ Prompt
    /\ open' = [open EXCEPT ![c] = FALSE]
    /\ UNCHANGED <<vars, asked, stage>>

\* The client leaves.  The close listener of a request that is being served
\* aborts its signal; before it is registered, and after the response has
\* ended, nobody notices.
Close(c) ==
    /\ open[c] /\ stage[c] # "none" /\ Quiet /\ Prompt
    /\ open' = [open EXCEPT ![c] = FALSE]
    /\ \/ stage[c] = "searching" /\ Disconnect(c) /\ React(c)
       \/ stage[c] # "searching" /\ UNCHANGED <<vars, stage>>
    /\ UNCHANGED asked

\* The work of the process goes on: a load, the cache, the shutdown.
Background ==
    /\ Prompt
    /\ \/ \E e \in Callers : EntryStep(e)
       \/ abortShutdown
       \/ \E k \in Keys : Others(k)
    /\ UNCHANGED pipeline

-----------------------------------------------------------------------------
RequestNext ==
    \/ \E c \in Callers :
          Arrive(c) \/ Refuse(c) \/ Handle(c) \/ Search(c) \/ Close(c)
    \/ Background

RequestSpec == RequestInit /\ [][RequestNext]_requestVars

\* The limiter's check is bounded (ChecksEnd of RateLimit), and promises are run
\* to their end as in NewsService.  Clients need not come or leave.
RequestFairness ==
    \A c \in Callers :
        /\ WF_requestVars(Refuse(c) \/ Handle(c))
        /\ WF_requestVars(Search(c))
        /\ WF_requestVars(EntryStep(c) /\ Background)

FairRequestSpec == RequestSpec /\ RequestFairness

-----------------------------------------------------------------------------
(* Properties                                                              *)

\* A request that ends without a response belongs to a client that has left,
\* except while the process is shutting down, and except for one way with Redis:
\* it joined work that had been aborted before.
DropsExplained ==
    \A c \in Callers :
        stage[c] = "dropped" =>
            \/ ~open[c] \/ shutdown
            \/ /\ backend = "redis"
               /\ joined[c] \notin {None, c} /\ canceled[joined[c]]

\* "when no waiters remain, the provider request and retry delay are aborted":
\* without Redis, work that goes on has a waiter whose client is connected.
WorkForClients ==
    backend = "memory" =>
        \A e \in Callers :
            Live(e) /\ ~canceled[e] => \E c \in Callers : Waiting(c, e) /\ open[c]

\* "identical in-flight misses share one upstream call": what requests share is
\* what each of them would have asked the provider for, whatever their routes and
\* spellings, and two that wait for work going on share it if they ask the same.
CoalescedAlike ==
    LET Upstream(c) == toProviderParams(ArticleSearchOptions(asked[c]))
        InProgress(c) == pc[c] = "waiting" /\ Live(joined[c])
    IN  \A c, d \in Callers :
            /\ joined[c] = joined[d] /\ joined[c] # None => Upstream(c) = Upstream(d)
            /\ InProgress(c) /\ InProgress(d) /\ Upstream(c) = Upstream(d)
               => joined[c] = joined[d]

\* Every request that has arrived is answered or dropped, with either store.
RequestsSettle == \A c \in Callers : stage[c] = "limiting" ~> stage[c] \in Over

(* Stated by the documentation                                             *)

\* "Coalesced upstream work continues for remaining waiters": a request is left
\* without a response only when its client has left.
DropsOnlyGone ==
    \A c \in Callers : stage[c] = "dropped" => ~open[c] \/ shutdown
=============================================================================
