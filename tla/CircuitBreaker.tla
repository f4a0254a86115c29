--------------------------- MODULE CircuitBreaker ---------------------------
(***************************************************************************)
(* The provider adapter: GNewsProvider.search with the process-wide        *)
(* circuit breaker, the retry loop it runs in, the total deadline of a     *)
(* search, the caller's cancellation and process shutdown                  *)
(* (src/providers/gnewsProvider.ts, src/providers/retry.ts).               *)
(*                                                                         *)
(* Time advances by Tick.  Instants are kept relative to now: age is the   *)
(* time since a search began, sinceOpened the time since circuit.openedAt, *)
(* capped at cooldown because the code only asks whether the cooldown has  *)
(* passed.  No bound on the run of the clock is needed.  The cooldown is   *)
(* configured apart from the budget of a search, so it is a variable that  *)
(* starts with any of the values and stays.                                *)
(***************************************************************************)
EXTENDS Integers

CONSTANTS
    Requests,       \* slots for concurrent calls of search
    Threshold,      \* failureThreshold(): failures that open the circuit
    Cooldowns,      \* values of cooldownMs(), in ticks
    TotalTimeout,   \* UPSTREAM_TOTAL_TIMEOUT_MS, in ticks
    MaxRetries      \* retryAttempts()

ASSUME ThresholdAssumption == Threshold \in Nat \ {0}
ASSUME CooldownsAssumption == \A ticks \in Cooldowns : ticks \in Nat \ {0}
ASSUME TotalTimeoutAssumption == TotalTimeout \in Nat \ {0}
ASSUME MaxRetriesAssumption == MaxRetries \in Nat

VARIABLES
    cooldown,           \* cooldownMs()
    failures,           \* circuit.failures, saturating at Threshold
    sinceOpened,        \* Date.now() - circuit.openedAt, or NotOpen
    halfOpenInFlight,   \* circuit.halfOpenInFlight
    draining,           \* shutdownSignal().aborted
    pc,                 \* where the search of a slot is
    circuitState,       \* what assertCircuitAllowsRequest returned to it
    age,                \* time since its deadline was armed
    attempt,            \* withUpstreamRetries' counter
    aborted             \* which of its own two signals have fired

circuit == <<failures, sinceOpened, halfOpenInFlight>>
process == <<draining, cooldown>>
search == <<pc, circuitState, age, attempt, aborted>>
vars == <<circuit, process, search>>

\* circuit.openedAt === undefined
NotOpen == -1

Active(r) == pc[r] # "idle"
Probe(r) == Active(r) /\ circuitState[r] = "half_open"

\* requestSignal.aborted: the caller, the process or the deadline.
RequestAborted(r) == draining \/ aborted[r] # {}

DeadlineExceeded(r) ==
    "deadline" \in aborted[r] /\ "client" \notin aborted[r] /\ ~draining

TypeOK ==
    /\ failures \in 0..Threshold
    /\ cooldown \in Cooldowns
    /\ sinceOpened \in {NotOpen} \cup 0..cooldown
    /\ halfOpenInFlight \in BOOLEAN
    /\ draining \in BOOLEAN
    /\ pc \in [Requests -> {"idle", "requesting", "backingOff"}]
    /\ circuitState \in [Requests -> {"closed", "half_open"}]
    /\ age \in [Requests -> 0..TotalTimeout]
    /\ attempt \in [Requests -> 0..MaxRetries]
    /\ aborted \in [Requests -> SUBSET {"client", "deadline"}]

Init ==
    /\ cooldown \in Cooldowns
    /\ failures = 0
    /\ sinceOpened = NotOpen
    /\ halfOpenInFlight = FALSE
    /\ draining = FALSE
    /\ pc = [r \in Requests |-> "idle"]
    /\ circuitState = [r \in Requests |-> "closed"]
    /\ age = [r \in Requests |-> 0]
    /\ attempt = [r \in Requests |-> 0]
    /\ aborted = [r \in Requests |-> {}]

-----------------------------------------------------------------------------
(* The circuit                                                             *)

closeCircuit ==
    /\ failures' = 0
    /\ sinceOpened' = NotOpen
    /\ halfOpenInFlight' = FALSE

recordProviderFailure ==
    /\ halfOpenInFlight' = FALSE
    /\ failures' = IF failures < Threshold THEN failures + 1 ELSE Threshold
    /\ sinceOpened' = IF failures + 1 >= Threshold /\ sinceOpened = NotOpen
                      THEN 0 ELSE sinceOpened

\* Mutant: a canceled probe leaves its slot taken.
recordCanceledProbe_KeepsSlot(r) == UNCHANGED circuit

\* Mutant: a canceled probe frees its slot without reopening the window.
recordCanceledProbe_NoWindow(r) ==
    IF circuitState[r] = "half_open"
    THEN halfOpenInFlight' = FALSE /\ UNCHANGED <<sinceOpened, failures>>
    ELSE UNCHANGED circuit

\* Only a probe returns the circuit to a fresh open window.
recordCanceledProbe(r) ==
    IF circuitState[r] = "half_open"
    THEN /\ halfOpenInFlight' = FALSE
         /\ sinceOpened' = 0
         /\ UNCHANGED failures
    ELSE UNCHANGED circuit

-----------------------------------------------------------------------------
(* A search                                                                *)

Begin(r, state) ==
    /\ pc[r] = "idle"
    /\ ~draining
    /\ pc' = [pc EXCEPT ![r] = "requesting"]
    /\ circuitState' = [circuitState EXCEPT ![r] = state]
    /\ UNCHANGED <<process, age, attempt, aborted>>

\* Mutant: the first check of assertCircuitAllowsRequest is missing.
SearchClosed_IgnoresProbe(r) ==
    /\ sinceOpened = NotOpen
    /\ Begin(r, "closed")
    /\ UNCHANGED circuit

\* assertCircuitAllowsRequest admits the call.  A call it refuses, and one
\* whose signal is aborted at the start, throws and changes nothing.
SearchClosed(r) ==
    /\ sinceOpened = NotOpen /\ ~halfOpenInFlight
    /\ Begin(r, "closed")
    /\ UNCHANGED circuit

SearchProbe(r) ==
    /\ sinceOpened = cooldown
    /\ Begin(r, "half_open")
    /\ sinceOpened' = NotOpen
    /\ halfOpenInFlight' = TRUE
    /\ UNCHANGED failures

\* The call returns or throws; the finally block cancels its deadline.
Leave(r) ==
    /\ pc' = [pc EXCEPT ![r] = "idle"]
    /\ circuitState' = [circuitState EXCEPT ![r] = "closed"]
    /\ age' = [age EXCEPT ![r] = 0]
    /\ attempt' = [attempt EXCEPT ![r] = 0]
    /\ aborted' = [aborted EXCEPT ![r] = {}]
    /\ UNCHANGED process

Answered(r) == pc[r] = "requesting" /\ ~RequestAborted(r)

\* A 2xx answer whose payload normalizeArticles accepts.
Succeed(r) == Answered(r) /\ closeCircuit /\ Leave(r)

\* A failure that is not retried and counts: an invalid payload, 429, a 5xx
\* outside the retryable set, a transport error outside it.
FailDefinitely(r) == Answered(r) /\ recordProviderFailure /\ Leave(r)

\* Mutant: one retry too many.
FailTransiently_OffByOne(r) ==
    /\ Answered(r)
    /\ \/ /\ attempt[r] <= MaxRetries
          /\ pc' = [pc EXCEPT ![r] = "backingOff"]
          /\ UNCHANGED <<circuit, process, circuitState, age, attempt, aborted>>
       \/ /\ attempt[r] > MaxRetries
          /\ recordProviderFailure
          /\ Leave(r)

\* A retryable status or transport error, the per-attempt timeout included.
FailTransiently(r) ==
    /\ Answered(r)
    /\ \/ /\ attempt[r] < MaxRetries
          /\ pc' = [pc EXCEPT ![r] = "backingOff"]
          /\ UNCHANGED <<circuit, process, circuitState, age, attempt, aborted>>
       \/ /\ attempt[r] = MaxRetries
          /\ recordProviderFailure
          /\ Leave(r)

\* A permanent 4xx is no provider failure, and proves a probe reachable.
FailPermanently(r) ==
    /\ Answered(r)
    /\ IF circuitState[r] = "half_open" THEN closeCircuit ELSE UNCHANGED circuit
    /\ Leave(r)

\* The backoff sleep ends and the next attempt is sent.
Retry(r) ==
    /\ pc[r] = "backingOff" /\ ~RequestAborted(r)
    /\ pc' = [pc EXCEPT ![r] = "requesting"]
    /\ attempt' = [attempt EXCEPT ![r] = @ + 1]
    /\ UNCHANGED <<circuit, process, circuitState, age, aborted>>

\* Mutant: the total deadline is retried like a timed-out attempt.
TimeOut_Retried(r) ==
    /\ Active(r) /\ DeadlineExceeded(r)
    /\ attempt[r] < MaxRetries
    /\ pc' = [pc EXCEPT ![r] = "backingOff"]
    /\ UNCHANGED <<circuit, process, circuitState, age, attempt, aborted>>

\* The catch block when only the total deadline has fired.
TimeOut(r) ==
    /\ Active(r) /\ DeadlineExceeded(r)
    /\ recordProviderFailure
    /\ Leave(r)

\* The catch block when the caller or the process has aborted.
Cancel(r) ==
    /\ Active(r) /\ RequestAborted(r) /\ ~DeadlineExceeded(r)
    /\ recordCanceledProbe(r)
    /\ Leave(r)

-----------------------------------------------------------------------------
(* The signals and the clock                                               *)

Abort(r, source) ==
    /\ Active(r)
    /\ source \notin aborted[r]
    /\ aborted' = [aborted EXCEPT ![r] = @ \cup {source}]
    /\ UNCHANGED <<circuit, process, pc, circuitState, age, attempt>>

ClientAbort(r) == Abort(r, "client")

DeadlineFires(r) == age[r] = TotalTimeout /\ Abort(r, "deadline")

abortShutdown ==
    /\ ~draining
    /\ draining' = TRUE
    /\ UNCHANGED <<cooldown, circuit, search>>

\* A due deadline fires, and the rejected search settles, before time goes on:
\* timers run before new I/O is polled, promise reactions before the next timer.
Tick ==
    /\ \A r \in Requests : Active(r) => age[r] < TotalTimeout
    /\ age' = [r \in Requests |-> IF Active(r) THEN age[r] + 1 ELSE age[r]]
    /\ sinceOpened' = IF sinceOpened \in 0..(cooldown - 1)
                      THEN sinceOpened + 1 ELSE sinceOpened
    /\ UNCHANGED <<failures, halfOpenInFlight, process,
                   pc, circuitState, attempt, aborted>>

-----------------------------------------------------------------------------
Step(r) ==
    \/ SearchClosed(r) \/ SearchProbe(r)
    \/ Succeed(r) \/ FailDefinitely(r) \/ FailTransiently(r)
    \/ FailPermanently(r) \/ Retry(r)
    \/ TimeOut(r) \/ Cancel(r)
    \/ ClientAbort(r) \/ DeadlineFires(r)

Next == Tick \/ abortShutdown \/ \E r \in Requests : Step(r)

Spec == Init /\ [][Next]_vars

\* The clock runs, a due timer fires and a rejected promise is handled.  The
\* provider need never answer and callers need never come or go.
Fairness ==
    /\ WF_vars(Tick)
    /\ \A r \in Requests : /\ WF_vars(DeadlineFires(r))
                           /\ WF_vars(TimeOut(r))
                           /\ WF_vars(Cancel(r))

FairSpec == Spec /\ Fairness

-----------------------------------------------------------------------------
(* Properties, for every timing                                            *)

\* halfOpenInFlight refuses every call, so a probe must be in flight to clear
\* it: the flag never outlives the searches that hold the half_open state.
ProbeAlive ==
    halfOpenInFlight =>
        sinceOpened = NotOpen /\ \E r \in Requests : Probe(r)

\* Every search settles, whatever the provider and the callers do, retries and
\* backoff included.
SearchSettles == \A r \in Requests : Active(r) ~> ~Active(r)

(* Properties, when no search outlives a cooldown                          *)

ShortBudget == TotalTimeout < cooldown

\* "exactly one request is allowed through as the half-open recovery probe;
\* concurrent callers remain short-circuited until that probe settles": while
\* a probe is in flight no other search is.
ProbeExclusive ==
    ShortBudget => \A r, q \in Requests : Probe(r) /\ Active(q) => q = r

\* The three states of README's "small circuit breaker".
circuitPhase ==
    IF halfOpenInFlight THEN "half_open"
    ELSE IF sinceOpened = NotOpen THEN "closed" ELSE "open"

Breaker == INSTANCE Circuit WITH
    Calls <- Requests,
    state <- circuitPhase,
    waited <- IF sinceOpened = NotOpen THEN 0 ELSE sinceOpened,
    calls <- {r \in Requests : Active(r)}

\* The flags and the counter of the process, its retry loops, deadlines, aborts
\* and shutdown together are a circuit breaker: failures open it, no call is
\* admitted before the cooldown has passed, a probe is alone in flight, and its
\* end closes the circuit or opens it for a whole new cooldown.
ImplementsCircuit ==
    /\ ShortBudget => Breaker!Init
    /\ [][ShortBudget => Breaker!Next \/ UNCHANGED Breaker!vars]_vars

(* Stated by the documentation for every timing                            *)

\* "Recovery admits one half-open probe at a time."
AtMostOneProbe ==
    \A r, q \in Requests : Probe(r) /\ Probe(q) => q = r
=============================================================================
