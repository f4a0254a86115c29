---------------------------- MODULE RequestsProofs ----------------------------
(***************************************************************************)
(* Proofs about the request pipeline, for any finite set of requests, any  *)
(* searches and either store.  A step of the pipeline is a step of the     *)
(* search service or leaves it alone, so that the theorems about the       *)
(* service hold of the composition.                                        *)
(***************************************************************************)
EXTENDS Requests, NewsServiceProofs

USE CallersAssumption, NoneAssumption DEF Cached, Status, Ended

-----------------------------------------------------------------------------
(* The composition                                                         *)

\* A step of the pipeline is a step of the search service, or none.
LEMMA ServiceStep == [RequestNext]_requestVars => [Next]_vars
<1> SUFFICES ASSUME [RequestNext]_requestVars PROVE [Next]_vars
  OBVIOUS
<1>1. ASSUME NEW c \in Callers, Arrive(c) \/ Refuse(c) PROVE UNCHANGED vars
  BY <1>1 DEF Arrive, Refuse
<1>2. ASSUME NEW c \in Callers, Handle(c) \/ Search(c) PROVE Next
  BY <1>2 DEF Handle, Search, Next, CallerStep
<1>3. ASSUME NEW c \in Callers, Close(c) PROVE [Next]_vars
  BY <1>3 DEF Close, Next, CallerStep
<1>4. CASE Background
  BY <1>4 DEF Background, Next
<1>5. CASE UNCHANGED requestVars
  BY <1>5 DEF requestVars
<1> QED
  BY <1>1, <1>2, <1>3, <1>4, <1>5 DEF RequestNext

\* The pipeline implements the search service: every theorem about NewsService
\* holds of the process that serves requests.
THEOREM ServiceImplemented == RequestSpec => Spec
<1>1. RequestInit => Init
  BY DEF RequestInit
<1> QED
  BY <1>1, ServiceStep, PTL DEF RequestSpec, Spec

\* The process that serves requests coalesces them into single flights, and
\* every miss of it takes the way of a miss: what newsService.ts
\* promises holds below the routes, their disconnects and the shutdown too.
THEOREM RequestsCoalesced ==
    RequestSpec => Flights!Spec /\ ImplementsSingleFlight /\ ImplementsMiss
BY ServiceImplemented, SingleFlightImplemented, MissImplemented

-----------------------------------------------------------------------------
(* Types                                                                   *)

\* What a step of the search service does to the callers other than c, and to
\* their disconnects.
Frame(c) ==
    /\ \A d \in Callers \ {c} : pc'[d] = pc[d]
    /\ UNCHANGED gone

\* A search goes on, or ends; its client stays as it was.
LEMMA SearchFrame ==
    ASSUME Inv, NEW c \in Callers,
           ReadHit(c) \/ deleteCorruptCacheEntry(c) \/ Join(c) \/ Create(c) \/ Deliver(c)
    PROVE  Frame(c) /\ pc'[c] \in {"reading", "waiting", "done"}
<1> USE DEF Inv, Typed, Frame, Finish, Wait, Missed
<1>1. CASE ReadHit(c) \/ deleteCorruptCacheEntry(c)
  BY <1>1 DEF ReadHit, deleteCorruptCacheEntry
<1>2. CASE Join(c) \/ Create(c)
  BY <1>2 DEF Join, Create
<1>3. CASE Deliver(c)
  BY <1>3 DEF Deliver
<1> QED BY <1>1, <1>2, <1>3

\* A disconnect ends a caller that waits, and only marks one that reads.
LEMMA DisconnectFrame ==
    ASSUME Inv, NEW c \in Callers, Disconnect(c)
    PROVE  /\ \A d \in Callers \ {c} : pc'[d] = pc[d] /\ gone'[d] = gone[d]
           /\ pc[c] = "waiting" => pc'[c] = "done" /\ result'[c] = "aborted"
           /\ pc[c] = "reading" => pc'[c] = "reading"
           /\ pc[c] \in {"reading", "waiting"}
BY DEF Inv, Typed, Disconnect, Finish

\* The reactions to the end of a search end the request.
LEMMA ReactStep ==
    ASSUME NEW c \in Callers, React(c),
           stage \in [Callers -> {"none", "limiting", "searching"} \cup Over]
    PROVE  /\ stage' \in [Callers -> {"none", "limiting", "searching"} \cup Over]
           /\ \A d \in Callers \ {c} : stage'[d] = stage[d]
           /\ pc'[c] = "done" => stage'[c] \in Over \ Refusals
           /\ pc'[c] # "done" => stage'[c] = stage[c]
BY DEF React, Reactions, Over, Answers, Refusals, Representations

\* Steps of the surroundings and of the work leave the callers alone.
LEMMA BackgroundFrame ==
    Background => UNCHANGED <<pc, key, gone, joined, backend, pipeline>>
<1> SUFFICES ASSUME Background PROVE UNCHANGED <<pc, key, gone, joined, backend, pipeline>>
  OBVIOUS
<1>1. ASSUME NEW e \in Callers, EntryStep(e) PROVE UNCHANGED <<pc, key, gone, joined, backend>>
  BY <1>1 DEF EntryStep, CoordinateHit, StartLoad, Unwind, ProviderSucceeds, ProviderFails,
        readStaleCachedArticles, writeCachedArticles, markInFlightSettled, Advance, Return,
        caller, store
<1> QED
  BY <1>1 DEF Background, abortShutdown, Others, caller, store

\* Every step of the pipeline keeps the request and its call in step.
LEMMA RequestTypingStep ==
    Inv /\ RequestTypeOK /\ [RequestNext]_requestVars => RequestTypeOK'
<1> SUFFICES ASSUME Inv, RequestTypeOK, [RequestNext]_requestVars PROVE RequestTypeOK'
  OBVIOUS
<1> USE DEF RequestTypeOK, Over, Answers, Refusals, Representations
<1>1. ASSUME NEW c \in Callers, Arrive(c) \/ Refuse(c) PROVE RequestTypeOK'
  BY <1>1 DEF Arrive, Refuse, vars, caller
<1>2. ASSUME NEW c \in Callers, Handle(c) PROVE RequestTypeOK'
  BY <1>2 DEF Handle, searchArticles, Inv, Typed
<1>3. ASSUME NEW c \in Callers, Search(c) PROVE RequestTypeOK'
  BY <1>3, SearchFrame, ReactStep DEF Search, Frame
<1>4. ASSUME NEW c \in Callers, Close(c) PROVE RequestTypeOK'
  <2>1. CASE stage[c] = "searching"
    BY <1>4, <2>1, DisconnectFrame, ReactStep DEF Close
  <2>2. CASE stage[c] # "searching"
    BY <1>4, <2>2 DEF Close, vars, caller
  <2> QED BY <2>1, <2>2
<1>5. CASE Background
  BY <1>5, BackgroundFrame DEF pipeline
<1>6. CASE UNCHANGED requestVars
  BY <1>6 DEF requestVars, pipeline, vars, caller
<1> QED
  BY <1>1, <1>2, <1>3, <1>4, <1>5, <1>6 DEF RequestNext

\* No request has arrived at first.
LEMMA InitRequests == RequestInit => RequestTypeOK
BY DEF RequestInit, Init, RequestTypeOK, Over, Answers, Refusals, Representations

\* A request is being served exactly while its call is in progress, and only the
\* close of its connection aborts its signal.
THEOREM RequestTypeCorrect == RequestSpec => []RequestTypeOK
<1>1. RequestInit => Inv /\ RequestTypeOK
  BY InitTyping, InitRequests DEF RequestInit
<1>2. Inv /\ RequestTypeOK /\ [RequestNext]_requestVars => Inv' /\ RequestTypeOK'
  BY TypingStep, ServiceStep, RequestTypingStep
<1> QED
  BY <1>1, <1>2, PTL DEF RequestSpec

-----------------------------------------------------------------------------
(* Requests that end without a response                                    *)

\* Work is only aborted once it has begun, ends with an outcome, and ends as
\* aborted only if it or the process was.
Outcomes ==
    \A e \in Callers :
        /\ phase[e] = "none" => ~canceled[e]
        /\ phase[e] \in {"returning", "settled"} => outcome[e] # None
        /\ outcome[e] = "aborted" => canceled[e] \/ shutdown

\* Only with Redis a caller waits for aborted work, and never for its own; with
\* the memory store no work is live and aborted while a caller reads.
JoinsSound ==
    \A c \in Callers :
        /\ pc[c] = "waiting" /\ canceled[joined[c]] => backend = "redis" /\ joined[c] # c
        /\ pc[c] = "reading" /\ backend = "memory" =>
              \A e \in Callers : Live(e) => ~canceled[e]

ServiceInv == Inv /\ SubscribersExact /\ Outcomes /\ Registered /\ JoinsSound

\* An abort is a disconnect, between two turns.
LEMMA AbortIsDisconnect ==
    ASSUME Inv, [Next]_vars, NEW e \in Callers, ~canceled[e], canceled'[e]
    PROVE  Live(e) /\ \E c \in Callers : Disconnect(c)
<1> USE DEF Inv, Typed
<1>1. ASSUME NEW c \in Callers, CallerStep(c)
      PROVE  Live(e) /\ Disconnect(c)
  <2>1. ASSUME NEW k \in Keys, searchArticles(c, k) PROVE FALSE
    BY <2>1 DEF searchArticles, entry
  <2>2. CASE ReadHit(c) \/ deleteCorruptCacheEntry(c) \/ Join(c) \/ Create(c)
    BY <2>2 DEF ReadHit, deleteCorruptCacheEntry, Join, Create, entry
  <2>3. CASE Deliver(c)
    BY <2>3 DEF Deliver, Release, Live
  <2>4. CASE Disconnect(c)
    BY <2>4 DEF Disconnect, Release
  <2> QED BY <1>1, <2>1, <2>2, <2>3, <2>4 DEF CallerStep
<1>2. ASSUME NEW d \in Callers, EntryStep(d) PROVE FALSE
  BY <1>2 DEF EntryStep, CoordinateHit, StartLoad, Unwind, ProviderSucceeds, ProviderFails,
        readStaleCachedArticles, writeCachedArticles, markInFlightSettled, Advance, Return
<1>3. ASSUME NEW k \in Keys, Others(k) PROVE FALSE
  BY <1>3 DEF Others, entry
<1> QED
  BY <1>1, <1>2, <1>3 DEF Next, abortShutdown, vars, entry

\* A caller's step starts at most one entry, its own, and changes no outcome.
LEMMA CallerPhases ==
    ASSUME Inv, NEW c \in Callers, CallerStep(c)
    PROVE  /\ outcome' = outcome /\ shutdown' = shutdown /\ backend' = backend
           /\ \/ UNCHANGED <<phase, inFlight>>
              \/ /\ phase[c] = "none" /\ phase' = [phase EXCEPT ![c] = "coordinating"]
                 /\ inFlight' = [inFlight EXCEPT ![key[c]] = c]
                 /\ UNCHANGED <<key, canceled>>
BY DEF Inv, Typed, CreatorsFresh, CallerStep, searchArticles, ReadHit, Missed, Join, Create,
       deleteCorruptCacheEntry, Deliver, Disconnect, entry, store

\* Aborts are never taken back.
LEMMA AbortsLast ==
    ASSUME Inv, [Next]_vars, NEW e \in Callers, canceled[e]
    PROVE  canceled'[e]
BY StepWaiters DEF WaitersChange, Keeps, Joins, Leaves, Release, Inv, Typed

\* The outcomes stay accounted for.
LEMMA OutcomesStep == Inv /\ Outcomes /\ [Next]_vars => Outcomes'
<1> SUFFICES ASSUME Inv, Outcomes, [Next]_vars, NEW e \in Callers
             PROVE  /\ phase'[e] = "none" => ~canceled'[e]
                    /\ phase'[e] \in {"returning", "settled"} => outcome'[e] # None
                    /\ outcome'[e] = "aborted" => canceled'[e] \/ shutdown'
  BY DEF Outcomes
<1> USE DEF Outcomes
<1>1. /\ canceled[e] => canceled'[e]
      /\ canceled'[e] => canceled[e] \/ Live(e)
  BY AbortsLast, AbortIsDisconnect
<1>2. ASSUME NEW c \in Callers, CallerStep(c)
      PROVE  /\ phase'[e] = "none" => ~canceled'[e]
             /\ phase'[e] \in {"returning", "settled"} => outcome'[e] # None
             /\ outcome'[e] = "aborted" => canceled'[e] \/ shutdown'
  BY <1>1, <1>2, CallerPhases DEF Live, Inv, Typed
<1>3. ASSUME NEW d \in Callers, EntryStep(d)
      PROVE  /\ phase'[e] = "none" => ~canceled'[e]
             /\ phase'[e] \in {"returning", "settled"} => outcome'[e] # None
             /\ outcome'[e] = "aborted" => canceled'[e] \/ shutdown'
  BY <1>3 DEF Inv, Typed, EntryStep, CoordinateHit, StartLoad, Unwind, ProviderSucceeds,
        ProviderFails, readStaleCachedArticles, writeCachedArticles, markInFlightSettled,
        Advance, Return
<1>4. ASSUME NEW k \in Keys, Others(k)
      PROVE  UNCHANGED <<phase, canceled, outcome, shutdown>>
  BY <1>4 DEF Others, entry
<1>5. CASE abortShutdown
  BY <1>5 DEF abortShutdown, entry
<1>6. CASE UNCHANGED vars
  BY <1>6 DEF vars, entry
<1> QED
  BY <1>2, <1>3, <1>4, <1>5, <1>6 DEF Next

\* A caller starts to wait for its own new work, or for registered work that,
\* with the memory store, has not been aborted.
LEMMA WaitSound ==
    ASSUME Inv, Outcomes, Registered, JoinsSound, NEW c \in Callers, CallerStep(c),
           pc[c] # "waiting", pc'[c] = "waiting", canceled'[joined'[c]]
    PROVE  backend' = "redis" /\ joined'[c] # c
<1> USE DEF Inv, Typed, CreatorsFresh
<1>1. Join(c) \/ Create(c)
  BY DEF CallerStep, searchArticles, ReadHit, deleteCorruptCacheEntry, Deliver, Disconnect,
         Finish, Missed
<1>2. CASE Join(c)
  <2>1. PICK e \in Callers : e = inFlight[key[c]]
    BY <1>2 DEF Join, Missed
  <2>2. joined'[c] = e /\ canceled[e] /\ backend' = backend /\ pc[c] = "reading"
    BY <1>2, <2>1 DEF Join, Missed, Wait, Finish, store
  <2>3. Live(e) /\ phase[c] = "none"
    BY <2>1, <2>2 DEF Registered
  <2> QED BY <2>2, <2>3 DEF JoinsSound, Live
<1>3. CASE Create(c)
  BY <1>3 DEF Create, Missed, Wait, Finish, Outcomes
<1> QED BY <1>1, <1>2, <1>3

\* Whoever waits, waits soundly.
LEMMA JoinsStep == ServiceInv /\ [Next]_vars => JoinsSound'
<1> SUFFICES ASSUME ServiceInv, [Next]_vars PROVE JoinsSound'
  OBVIOUS
<1> USE DEF ServiceInv
<1>1. ASSUME NEW e \in Callers, ~canceled[e], canceled'[e]
      PROVE  \A c \in Callers : ~Waiting(c, e)'
  BY <1>1, AbortStep
<1>2. ASSUME NEW c \in Callers, CallerStep(c) PROVE JoinsSound'
  <2>1. /\ \A d \in Callers \ {c} : pc'[d] = pc[d] /\ joined'[d] = joined[d]
        /\ pc[c] = "waiting" => pc'[c] = "done"
        /\ pc'[c] = "reading" => pc[c] = "reading" \/ Quiet
    BY <1>2 DEF Inv, Typed, CallerStep, searchArticles, ReadHit, deleteCorruptCacheEntry,
          Join, Create, Deliver, Disconnect, Wait, Finish, Missed
  <2>2. backend' = backend
    BY <1>2, CallerPhases
  <2>3. ASSUME NEW d \in Callers, pc'[d] = "waiting", canceled'[joined'[d]]
        PROVE  backend' = "redis" /\ joined'[d] # d
    <3>1. CASE d = c
      BY <1>2, <2>1, <2>3, <3>1, WaitSound DEF Inv, Typed
    <3>2. CASE d # c
      <4>1. pc[d] = "waiting" /\ joined'[d] = joined[d] /\ joined[d] \in Callers
        BY <2>1, <2>3, <3>2 DEF Inv, CreatorsFresh
      <4>2. canceled[joined[d]]
        BY <1>1, <2>3, <4>1 DEF Waiting
      <4> QED BY <2>2, <4>1, <4>2 DEF JoinsSound
    <3> QED BY <3>1, <3>2
  <2>4. ASSUME NEW d \in Callers, pc'[d] = "reading", backend' = "memory",
               NEW e \in Callers, Live(e)'
        PROVE  ~canceled'[e]
    <3>1. CASE canceled[e]
      <4>1. Live(e)
        BY <1>2, <2>4, <3>1, CallerPhases DEF Live, Outcomes, Inv, Typed
      <4>2. pc[d] # "reading" /\ d = c
        BY <2>1, <2>2, <2>4, <3>1, <4>1 DEF JoinsSound
      <4>3. Quiet
        BY <2>1, <2>4, <4>2
      <4> QED BY <2>2, <2>4, <3>1, <4>1, <4>3 DEF Quiet
    <3>2. CASE ~canceled[e] /\ canceled'[e]
      <4>1. PICK f \in Callers : Disconnect(f)
        BY <3>2, AbortIsDisconnect
      <4>2. pc[d] # "reading" /\ (pc'[d] = pc[d] \/ pc'[d] = "done")
        BY <2>2, <2>4, <4>1 DEF Disconnect, Quiet, Finish, Inv, Typed
      <4> QED BY <2>4, <4>2
    <3> QED BY <3>1, <3>2
  <2> QED BY <2>3, <2>4 DEF JoinsSound
<1>3. ASSUME UNCHANGED <<pc, joined, canceled, backend>>,
             \A e \in Callers : Live(e)' => Live(e)
      PROVE  JoinsSound'
  BY <1>3 DEF JoinsSound
<1>4. ASSUME NEW d \in Callers, EntryStep(d) PROVE JoinsSound'
  <2>1. UNCHANGED <<pc, joined, canceled, backend>>
    BY <1>4 DEF EntryStep, CoordinateHit, StartLoad, Unwind, ProviderSucceeds, ProviderFails,
          readStaleCachedArticles, writeCachedArticles, markInFlightSettled, Advance, Return,
          caller, store
  <2>2. Live(d) /\ \E to : phase' = [phase EXCEPT ![d] = to]
    BY <1>4 DEF EntryStep, CoordinateHit, StartLoad, Unwind, ProviderSucceeds, ProviderFails,
          readStaleCachedArticles, writeCachedArticles, markInFlightSettled, Advance, Return,
          Live
  <2>3. \A e \in Callers : Live(e)' => Live(e)
    BY <2>2 DEF Live, Inv, Typed
  <2> QED BY <1>3, <2>1, <2>3
<1>5. ASSUME NEW k \in Keys, Others(k) PROVE JoinsSound'
  BY <1>3, <1>5 DEF Others, entry, caller, Live
<1>6. CASE abortShutdown \/ UNCHANGED vars
  BY <1>3, <1>6 DEF abortShutdown, vars, entry, caller, store, Live
<1> QED
  BY <1>2, <1>4, <1>5, <1>6 DEF Next

\* The invariant of the service that the pipeline relies on.
LEMMA ServiceInvStep == ServiceInv /\ [Next]_vars => ServiceInv'
BY TypingStep, CountStep, OutcomesStep, RegisteredStep, JoinsStep DEF ServiceInv

\* It holds when nothing has been called.
LEMMA InitService == Init => ServiceInv
<1> SUFFICES ASSUME Init PROVE ServiceInv
  OBVIOUS
<1>1. Inv /\ SubscribersExact
  BY InitTyping, InitCounts
<1>2. Outcomes /\ Registered /\ JoinsSound
  BY DEF Init, Outcomes, Registered, JoinsSound
<1> QED
  BY <1>1, <1>2 DEF ServiceInv

\* Why a call that is in progress ends as aborted.
LEMMA AbortedCall ==
    ASSUME ServiceInv, RequestTypeOK, NEW c \in Callers, Search(c),
           pc'[c] = "done", result'[c] \notin Status \cup {"error"}
    PROVE  \/ ~open[c] \/ shutdown
           \/ backend = "redis" /\ joined'[c] \notin {None, c} /\ canceled[joined'[c]]
<1> USE DEF ServiceInv, Inv, Typed, CreatorsFresh
<1>1. CASE ReadHit(c) \/ deleteCorruptCacheEntry(c)
  BY <1>1 DEF ReadHit, deleteCorruptCacheEntry, Finish
<1>2. CASE Join(c) \/ Create(c)
  BY <1>2 DEF Join, Create, Wait, Missed, RequestTypeOK
<1>3. CASE Deliver(c)
  <2>1. PICK e \in Callers : e = joined[c]
    BY <1>3 DEF Deliver
  <2>2. joined' = joined /\ pc[c] = "waiting" /\ outcome[e] # None
        /\ result'[c] = Share(c, outcome[e])
    BY <1>3, <2>1 DEF Deliver, Finish, Outcomes
  <2>3. outcome[e] = "aborted"
    BY <2>2 DEF Share
  <2>4. canceled[e] \/ shutdown
    BY <2>3 DEF Outcomes
  <2> QED BY <2>1, <2>2, <2>4 DEF JoinsSound
<1> QED
  BY <1>1, <1>2, <1>3 DEF Search

\* A request that has ended keeps its call, and its excuse.
LEMMA DroppedStays ==
    ASSUME Inv, RequestTypeOK, [RequestNext]_requestVars,
           NEW c \in Callers, stage[c] = "dropped"
    PROVE  /\ stage'[c] = "dropped" /\ joined'[c] = joined[c]
           /\ backend' = backend /\ (shutdown => shutdown') /\ (~open[c] => ~open'[c])
<1> USE DEF RequestTypeOK, Over, Answers, Refusals, Representations
<1>1. pc[c] = "done"
  BY DEF Inv, Typed
<1>2. ASSUME NEW d \in Callers, CallerStep(d)
      PROVE  joined'[c] = joined[c] /\ UNCHANGED <<backend, shutdown>>
  BY <1>1, <1>2 DEF Inv, Typed, CallerStep, searchArticles, ReadHit, Join, Create, Missed,
        Wait, Finish, deleteCorruptCacheEntry, Deliver, Disconnect, store
<1>3. ASSUME NEW d \in Callers, Arrive(d) \/ Refuse(d)
      PROVE  stage'[c] = "dropped" /\ UNCHANGED <<vars, open>>
  BY <1>3 DEF Arrive, Refuse
<1>4. ASSUME NEW d \in Callers, Handle(d)
      PROVE  stage'[c] = "dropped" /\ UNCHANGED open /\ CallerStep(d)
  BY <1>4 DEF Handle, CallerStep
<1>5. ASSUME NEW d \in Callers, Search(d)
      PROVE  stage'[c] = "dropped" /\ UNCHANGED open /\ CallerStep(d)
  BY <1>5, ReactStep DEF Search, CallerStep
<1>6. ASSUME NEW d \in Callers, Close(d)
      PROVE  /\ stage'[c] = "dropped" /\ (~open[c] => ~open'[c])
             /\ CallerStep(d) \/ UNCHANGED vars
  BY <1>6, ReactStep DEF Close, CallerStep
<1>7. CASE Background
  <2>1. shutdown => shutdown'
    BY <1>7 DEF Background, abortShutdown, Others, EntryStep, CoordinateHit, StartLoad, Unwind,
          ProviderSucceeds, ProviderFails, readStaleCachedArticles, writeCachedArticles,
          markInFlightSettled, Advance, Return
  <2> QED BY <1>7, <2>1, BackgroundFrame DEF pipeline
<1>8. CASE UNCHANGED requestVars
  BY <1>8 DEF requestVars, pipeline, vars, store, caller
<1> QED
  BY <1>2, <1>3, <1>4, <1>5, <1>6, <1>7, <1>8 DEF RequestNext, vars, store, caller

\* Every silent end has one of the three excuses.
LEMMA DropsStep ==
    ServiceInv /\ RequestTypeOK /\ DropsExplained /\ [RequestNext]_requestVars
        => DropsExplained'
<1> SUFFICES ASSUME ServiceInv, RequestTypeOK, DropsExplained, [RequestNext]_requestVars,
                    NEW c \in Callers, stage'[c] = "dropped"
             PROVE  \/ ~open'[c] \/ shutdown'
                    \/ /\ backend' = "redis"
                       /\ joined'[c] \notin {None, c} /\ canceled'[joined'[c]]
  BY DEF DropsExplained
<1> USE DEF ServiceInv, RequestTypeOK, Over, Answers, Refusals, Representations
<1>1. [Next]_vars
  BY ServiceStep
<1>2. \A e \in Callers : canceled[e] => canceled'[e]
  BY <1>1, AbortsLast
<1>3. joined \in [Callers -> Callers \cup {None}] /\ joined' \in [Callers -> Callers \cup {None}]
  BY <1>1, TypingStep DEF Inv, Typed
<1>4. CASE stage[c] = "dropped"
  BY <1>2, <1>3, <1>4, DroppedStays DEF DropsExplained
<1>5. CASE stage[c] # "dropped"
  <2>1. ASSUME NEW d \in Callers, Arrive(d) \/ Refuse(d) \/ Handle(d) PROVE FALSE
    BY <1>5, <2>1 DEF Arrive, Refuse, Handle
  <2>2. ASSUME NEW d \in Callers, Search(d)
        PROVE  \/ ~open'[c] \/ shutdown'
               \/ /\ backend' = "redis"
                  /\ joined'[c] \notin {None, c} /\ canceled'[joined'[c]]
    <3>1. d = c /\ pc'[c] = "done"
      BY <1>5, <2>2, ReactStep DEF Search
    <3>2. result'[c] \notin Status \cup {"error"}
      BY <1>5, <2>2, <3>1 DEF Search, React, Reactions
    <3>3. \/ ~open[c] \/ shutdown
          \/ backend = "redis" /\ joined'[c] \notin {None, c} /\ canceled[joined'[c]]
      BY <2>2, <3>1, <3>2, AbortedCall
    <3>4. CallerStep(c) /\ UNCHANGED open
      BY <2>2, <3>1 DEF Search, CallerStep
    <3>5. UNCHANGED <<backend, shutdown>>
      BY <3>4, CallerPhases
    <3> QED BY <1>2, <1>3, <3>3, <3>4, <3>5
  <2>3. ASSUME NEW d \in Callers, Close(d) PROVE ~open'[c]
    BY <1>5, <2>3, ReactStep DEF Close
  <2>4. CASE Background \/ UNCHANGED requestVars
    BY <1>5, <2>4, BackgroundFrame DEF pipeline, requestVars
  <2> QED
    BY <2>1, <2>2, <2>3, <2>4 DEF RequestNext
<1> QED BY <1>4, <1>5

\* Nothing has ended at first.
LEMMA InitDrops == RequestInit => ServiceInv /\ RequestTypeOK /\ DropsExplained
<1> SUFFICES ASSUME RequestInit PROVE ServiceInv /\ RequestTypeOK /\ DropsExplained
  OBVIOUS
<1>1. ServiceInv /\ RequestTypeOK
  BY InitService, InitRequests DEF RequestInit
<1>2. DropsExplained
  BY DEF RequestInit, DropsExplained
<1> QED BY <1>1, <1>2

\* A request ends without a response only if its client has left, the process is
\* shutting down, or, with Redis, it joined work aborted before.
THEOREM DropsAccounted == RequestSpec => []DropsExplained
<1>1. RequestInit => ServiceInv /\ RequestTypeOK /\ DropsExplained
  BY InitDrops
<1>2. ServiceInv /\ RequestTypeOK /\ DropsExplained /\ [RequestNext]_requestVars
        => ServiceInv' /\ RequestTypeOK' /\ DropsExplained'
  BY ServiceStep, ServiceInvStep, RequestTypingStep, DropsStep DEF ServiceInv
<1> QED
  BY <1>1, <1>2, PTL DEF RequestSpec

-----------------------------------------------------------------------------
(* Work for clients                                                        *)

\* With the memory store a request whose search has not ended belongs to a
\* connected client, and live work that is not aborted has a waiter.
Attended ==
    backend = "memory" =>
        /\ \A c \in Callers : stage[c] \in {"limiting", "searching"} => open[c]
        /\ \A e \in Callers : Live(e) /\ ~canceled[e] => \E c \in Callers : Waiting(c, e)

\* A release that does not abort live work leaves a waiter.
LEMMA ReleaseLeaves ==
    ASSUME Inv, SubscribersExact, NEW c \in Callers, NEW e \in Callers, Leaves(c, e),
           Live(e), ~canceled'[e]
    PROVE  \E d \in Callers : Waiting(d, e)'
<1>1. subscribers[e] # 1
  BY DEF Leaves, Release, Inv, Typed
<1>2. Cardinality(Waiters(e)) # 1
  BY <1>1 DEF SubscribersExact, Waiters
<1>3. Waiters(e) # {c}
  <2>1. Cardinality({c}) = 1
    BY FS_Singleton
  <2> QED BY <1>2, <2>1
<1>4. c \in Waiters(e)
  BY DEF Leaves, Waiters
<1>5. PICK d \in Waiters(e) : d # c
  BY <1>3, <1>4
<1> QED BY <1>5 DEF Leaves, Waiters

\* Live work keeps a waiter, as long as no caller that starts work has left.
LEMMA WaitersStay ==
    ASSUME Inv, SubscribersExact, [Next]_vars, \A c \in Callers : pc[c] = "reading" => ~gone[c],
           \A e \in Callers : Live(e) /\ ~canceled[e] => \E c \in Callers : Waiting(c, e),
           NEW e \in Callers, Live(e)', ~canceled'[e]
    PROVE  \E c \in Callers : Waiting(c, e)'
<1>1. ~canceled[e]
  BY AbortsLast
<1>2. CASE Live(e)
  <2>1. PICK d \in Callers : Waiting(d, e)
    BY <1>1, <1>2
  <2>2. CASE Keeps
    BY <2>1, <2>2 DEF Keeps
  <2>3. ASSUME NEW c \in Callers, NEW f \in Callers, Joins(c, f)
        PROVE  Waiting(d, e)'
    BY <2>1, <2>3 DEF Joins
  <2>4. ASSUME NEW c \in Callers, NEW f \in Callers, Leaves(c, f)
        PROVE  \E g \in Callers : Waiting(g, e)'
    <3>1. CASE f = e
      BY <1>2, <2>4, <3>1, ReleaseLeaves
    <3>2. CASE f # e
      BY <2>1, <2>4, <3>2 DEF Leaves, Waiting
    <3> QED BY <3>1, <3>2
  <2> QED
    BY <2>2, <2>3, <2>4, StepWaiters DEF WaitersChange
<1>3. CASE ~Live(e)
  <2>1. ASSUME NEW c \in Callers, CallerStep(c) PROVE Create(c) /\ c = e
    BY <1>3, <2>1, CallerPhases DEF CallerStep, Live, Inv, Typed, CreatorsFresh, Create, Missed,
          searchArticles, ReadHit, deleteCorruptCacheEntry, Join, Deliver, Disconnect, entry
  <2>2. ASSUME NEW d \in Callers, EntryStep(d) PROVE FALSE
    <3>1. Live(d) /\ \E to : phase' = [phase EXCEPT ![d] = to]
      BY <2>2 DEF EntryStep, CoordinateHit, StartLoad, Unwind, ProviderSucceeds, ProviderFails,
            readStaleCachedArticles, writeCachedArticles, markInFlightSettled, Advance, Return,
            Live
    <3> QED BY <1>3, <3>1 DEF Live, Inv, Typed
  <2>3. ASSUME NEW k \in Keys, Others(k) PROVE FALSE
    BY <1>3, <2>3 DEF Others, entry, Live
  <2>4. Create(e)
    BY <1>3, <2>1, <2>2, <2>3 DEF Next, abortShutdown, vars, entry, Live
  <2>5. ~gone[e]
    BY <2>4 DEF Create, Missed
  <2> QED
    BY <2>4, <2>5 DEF Create, Missed, Wait, Waiting, Inv, Typed
<1> QED BY <1>2, <1>3

\* Every step keeps the clients and the waiters.
LEMMA AttendedStep ==
    ServiceInv /\ RequestTypeOK /\ Attended /\ [RequestNext]_requestVars => Attended'
<1> SUFFICES ASSUME ServiceInv, RequestTypeOK, Attended, [RequestNext]_requestVars,
                    backend' = "memory"
             PROVE  /\ \A c \in Callers :
                          stage'[c] \in {"limiting", "searching"} => open'[c]
                    /\ \A e \in Callers :
                          Live(e)' /\ ~canceled'[e] => \E c \in Callers : Waiting(c, e)'
  BY DEF Attended
<1> USE DEF ServiceInv, RequestTypeOK
<1>1. [Next]_vars
  BY ServiceStep
<1>2. backend = "memory"
  <2>1. ASSUME NEW c \in Callers, CallerStep(c) PROVE UNCHANGED backend
    BY <2>1, CallerPhases
  <2>2. ASSUME NEW d \in Callers, EntryStep(d) PROVE UNCHANGED backend
    BY <2>2 DEF EntryStep, CoordinateHit, StartLoad, Unwind, ProviderSucceeds, ProviderFails,
          readStaleCachedArticles, writeCachedArticles, markInFlightSettled, Advance, Return,
          store
  <2> QED
    BY <1>1, <2>1, <2>2 DEF Next, abortShutdown, Others, vars, store
<1>3. \A c \in Callers : stage[c] \in {"limiting", "searching"} => open[c]
  BY <1>2 DEF Attended
<1>4. \A c \in Callers : pc[c] = "reading" => ~gone[c]
  BY <1>3
<1>5. ASSUME NEW c \in Callers, Arrive(c) \/ Refuse(c) \/ Handle(c), NEW d \in Callers,
             stage'[d] \in {"limiting", "searching"}
      PROVE  open'[d]
  BY <1>3, <1>5 DEF Arrive, Refuse, Handle, Refusals
<1>6. ASSUME NEW c \in Callers, Search(c), NEW d \in Callers,
             stage'[d] \in {"limiting", "searching"}
      PROVE  open'[d]
  BY <1>3, <1>6, ReactStep DEF Search, Over, Answers, Refusals, Representations
<1>7. ASSUME NEW c \in Callers, Close(c), NEW d \in Callers,
             stage'[d] \in {"limiting", "searching"}
      PROVE  open'[d]
  <2>1. CASE d # c
    BY <1>3, <1>7, <2>1, ReactStep DEF Close
  <2>2. CASE d = c
    <3>1. pc[c] # "reading" /\ stage[c] # "limiting"
      BY <1>2, <1>7 DEF Close, Quiet, Prompt
    <3>2. CASE stage[c] = "searching"
      BY <1>7, <2>2, <3>1, <3>2, DisconnectFrame, ReactStep
         DEF Close, Over, Answers, Refusals, Representations
    <3>3. CASE stage[c] # "searching"
      BY <1>7, <2>2, <3>1, <3>3 DEF Close
    <3> QED BY <3>2, <3>3
  <2> QED BY <2>1, <2>2
<1>8. ASSUME Background \/ UNCHANGED requestVars, NEW d \in Callers,
             stage'[d] \in {"limiting", "searching"}
      PROVE  open'[d]
  BY <1>3, <1>8, BackgroundFrame DEF pipeline, requestVars
<1>9. \A c \in Callers : stage'[c] \in {"limiting", "searching"} => open'[c]
  BY <1>5, <1>6, <1>7, <1>8 DEF RequestNext
<1>10. ASSUME NEW e \in Callers, Live(e)', ~canceled'[e]
       PROVE  \E c \in Callers : Waiting(c, e)'
  BY <1>1, <1>2, <1>4, <1>10, WaitersStay DEF Attended
<1> QED BY <1>9, <1>10

\* Without Redis, work that goes on is awaited by a connected client: whatever
\* clients leave when, the last one's departure aborts it.
THEOREM WorkAttended == RequestSpec => []WorkForClients
<1>1. RequestInit => ServiceInv /\ RequestTypeOK /\ Attended
  <2>1. RequestInit => ServiceInv /\ RequestTypeOK
    BY InitDrops
  <2>2. RequestInit => Attended
    BY DEF RequestInit, Init, Attended, Live
  <2> QED BY <2>1, <2>2
<1>2. ServiceInv /\ RequestTypeOK /\ Attended /\ [RequestNext]_requestVars
        => ServiceInv' /\ RequestTypeOK' /\ Attended'
  BY ServiceStep, ServiceInvStep, RequestTypingStep, AttendedStep DEF ServiceInv
<1>3. RequestTypeOK /\ Attended => WorkForClients
  BY DEF RequestTypeOK, Attended, WorkForClients, Waiting
<1> QED
  BY <1>1, <1>2, <1>3, PTL DEF RequestSpec
-----------------------------------------------------------------------------
(* Shared searches                                                         *)

\* A call is made for the search its request stands for, and whoever has joined
\* an entry has the search of its creator.
Linked ==
    \A c \in Callers :
        /\ pc[c] # "idle" => key[c] = SearchKey(asked[c])
        /\ joined[c] # None => /\ pc[c] # "idle" /\ pc[joined[c]] # "idle"
                               /\ key[c] = key[joined[c]]

\* Requests have the same key exactly if they ask the provider for the same.
LEMMA KeyDeterminesSearch ==
    ASSUME NEW input1, NEW input2
    PROVE  SearchKey(input1) = SearchKey(input2)
             <=> toProviderParams(ArticleSearchOptions(input1))
                   = toProviderParams(ArticleSearchOptions(input2))
<1> DEFINE o1 == ArticleSearchOptions(input1)
           o2 == ArticleSearchOptions(input2)
<1> HIDE DEF o1, o2
<1>1. searchCacheKey(o1) = searchCacheKey(o2)
        <=> toProviderParams(o1) = toProviderParams(o2)
  BY SMT DEF searchCacheKey, toProviderParams
<1> QED
  BY <1>1 DEF SearchKey, o1, o2

\* Every step keeps calls and entries linked to their searches.
LEMMA LinkedStep ==
    Inv /\ Registered /\ Linked /\ [RequestNext]_requestVars => Linked'
<1> SUFFICES ASSUME Inv, Registered, Linked, [RequestNext]_requestVars PROVE Linked'
  OBVIOUS
<1> USE DEF Linked, Inv, Typed, CreatorsFresh
<1>1. ASSUME NEW c \in Callers, Arrive(c) \/ Refuse(c) PROVE Linked'
  BY <1>1 DEF Arrive, Refuse, vars, caller
<1>2. ASSUME NEW c \in Callers, Handle(c) PROVE Linked'
  BY <1>2 DEF Handle, searchArticles
<1>3. ASSUME NEW c \in Callers, Search(c) PROVE Linked'
  <2>1. pc[c] # "idle" /\ UNCHANGED <<key, asked>>
    BY <1>3 DEF Search, ReadHit, deleteCorruptCacheEntry, Join, Create, Deliver, Missed
  <2>2. CASE ReadHit(c) \/ deleteCorruptCacheEntry(c) \/ Deliver(c)
    BY <2>1, <2>2 DEF ReadHit, deleteCorruptCacheEntry, Deliver, Finish
  <2>3. CASE Join(c)
    <3>1. PICK e \in Callers : e = inFlight[key[c]]
      BY <2>3 DEF Join, Missed
    <3>2. pc[e] # "idle" /\ key[e] = key[c]
      BY <2>3, <3>1 DEF Join, Missed, Registered, Live
    <3>3. /\ joined' \in {joined, [joined EXCEPT ![c] = e]}
          /\ \E to \in {"waiting", "done"} : pc' = [pc EXCEPT ![c] = to]
      BY <2>3, <3>1 DEF Join, Wait, Finish
    <3> QED BY <2>1, <3>2, <3>3
  <2>4. CASE Create(c)
    <3>1. /\ joined' \in {joined, [joined EXCEPT ![c] = c]}
          /\ \E to \in {"waiting", "done"} : pc' = [pc EXCEPT ![c] = to]
      BY <2>4 DEF Create, Wait, Finish
    <3> QED BY <2>1, <3>1
  <2> QED BY <1>3, <2>2, <2>3, <2>4 DEF Search
<1>4. ASSUME NEW c \in Callers, Close(c) PROVE Linked'
  BY <1>4 DEF Close, Disconnect, Finish, vars, caller
<1>5. CASE Background
  BY <1>5, BackgroundFrame DEF pipeline
<1>6. CASE UNCHANGED requestVars
  BY <1>6 DEF requestVars, pipeline, vars, caller
<1> QED
  BY <1>1, <1>2, <1>3, <1>4, <1>5, <1>6 DEF RequestNext

\* Linked calls share exactly the work they would have asked for themselves.
LEMMA LinkedShare == Inv /\ OneSearchPerKey /\ Linked => CoalescedAlike
<1> SUFFICES ASSUME Inv, OneSearchPerKey, Linked PROVE CoalescedAlike
  OBVIOUS
<1> DEFINE Upstream(c) == toProviderParams(ArticleSearchOptions(asked[c]))
           InProgress(c) == pc[c] = "waiting" /\ Live(joined[c])
<1> SUFFICES ASSUME NEW c \in Callers, NEW d \in Callers
             PROVE  /\ joined[c] = joined[d] /\ joined[c] # None => Upstream(c) = Upstream(d)
                    /\ InProgress(c) /\ InProgress(d) /\ Upstream(c) = Upstream(d)
                       => joined[c] = joined[d]
  BY DEF CoalescedAlike
<1>1. SearchKey(asked[c]) = SearchKey(asked[d]) <=> Upstream(c) = Upstream(d)
  BY KeyDeterminesSearch
<1> HIDE DEF Upstream
<1>2. ASSUME joined[c] = joined[d], joined[c] # None PROVE Upstream(c) = Upstream(d)
  BY <1>1, <1>2 DEF Linked
<1>3. ASSUME InProgress(c), InProgress(d), Upstream(c) = Upstream(d)
      PROVE  joined[c] = joined[d]
  <2>1. joined[c] \in Callers /\ joined[d] \in Callers
    BY <1>3 DEF Inv, CreatorsFresh
  <2>2. key[joined[c]] = key[c] /\ key[joined[d]] = key[d] /\ key[c] = key[d]
    BY <1>1, <1>3, <2>1, NoneAssumption DEF Linked
  <2> QED BY <1>3, <2>1, <2>2 DEF OneSearchPerKey
<1> QED BY <1>2, <1>3

\* Requests share work exactly when they would have asked the provider for the
\* same, for any parameters they may have.
THEOREM SharesExactly == RequestSpec => []CoalescedAlike
<1>1. RequestInit => ServiceInv /\ OneSearchPerKey /\ Linked
  <2>1. RequestInit => ServiceInv
    BY InitService DEF RequestInit
  <2>2. RequestInit => OneSearchPerKey /\ Linked
    BY DEF RequestInit, Init, OneSearchPerKey, Live, Linked
  <2> QED BY <2>1, <2>2
<1>2. ServiceInv /\ OneSearchPerKey /\ Linked /\ [RequestNext]_requestVars
        => ServiceInv' /\ OneSearchPerKey' /\ Linked'
  BY ServiceStep, ServiceInvStep, OneSearchStep, LinkedStep DEF ServiceInv
<1>3. ServiceInv /\ OneSearchPerKey /\ Linked => CoalescedAlike
  BY LinkedShare DEF ServiceInv
<1> QED
  BY <1>1, <1>2, <1>3, PTL DEF RequestSpec
=============================================================================
