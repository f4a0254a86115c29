--------------------------- MODULE ApiClientProofs ---------------------------
(***************************************************************************)
(* Proofs about the settings, the transport layer and the client library,  *)
(* for every environment, any connections, contents and Retry-After        *)
(* values.                                                                 *)
(***************************************************************************)
EXTENDS ApiClient, FiniteSetTheorems, TLAPS

USE MaxBackAssumption

-----------------------------------------------------------------------------
(* Settings                                                                *)

\* A positive setting is a positive integer within its maximum.
LEMMA PositiveRange ==
    ASSUME NEW raw \in Raws, NEW maximum \in Nat, NEW fallback \in Nat,
           0 < fallback, fallback <= maximum
    PROVE  LET value == resolvePositiveIntegerEnv(raw, fallback, maximum)
           IN  value \in Nat /\ 0 < value /\ value <= maximum
<1>1. raw.form = "number" => raw.value \in Int
  BY DEF Raws, Unset, Blank, Junk
<1> DEFINE value == resolveNonNegativeIntegerEnv(raw, fallback, maximum)
<1>2. value \in Nat /\ value <= maximum
  BY <1>1 DEF resolveNonNegativeIntegerEnv, AtMost
<1> HIDE DEF value
<1>3. QED
  BY <1>2 DEF resolvePositiveIntegerEnv, value

\* Whatever the environment holds, headers are due before their request.
LEMMA ServerTimes ==
    ASSUME NEW raw1 \in Raws, NEW raw2 \in Raws
    PROVE  LET budget == resolveServerRequestTimeoutMs(raw1)
           IN  /\ budget \in Nat
               /\ resolveServerHeadersTimeoutMs(raw2, budget) \in 1..budget
<1> DEFINE budget == resolveServerRequestTimeoutMs(raw1)
           maximum == AtMost(60000, budget)
           fallback == AtMost(10000, maximum)
<1>1. budget \in Nat /\ 0 < budget
  BY PositiveRange, SMT DEF resolveServerRequestTimeoutMs
<1> HIDE DEF budget
<1>2. /\ maximum \in Nat /\ maximum <= budget
      /\ fallback \in Nat /\ 0 < fallback /\ fallback <= maximum
  BY <1>1, SMT DEF AtMost
<1>3. resolveServerHeadersTimeoutMs(raw2, budget)
        = resolvePositiveIntegerEnv(raw2, fallback, maximum)
  BY DEF resolveServerHeadersTimeoutMs
<1> HIDE DEF maximum, fallback
<1>4. LET value == resolvePositiveIntegerEnv(raw2, fallback, maximum)
      IN  value \in Nat /\ 0 < value /\ value <= maximum
  BY <1>2, PositiveRange
<1>5. resolveServerHeadersTimeoutMs(raw2, budget) \in 1..budget
  BY <1>1, <1>2, <1>3, <1>4, SMT
<1> QED
  BY <1>1, <1>5 DEF budget

\* Whatever the environment holds, the heartbeat of a lease comes before half
\* its life is over, but for a life of a single millisecond.
LEMMA LeaseTimes ==
    ASSUME NEW raw1 \in Raws, NEW raw2 \in Raws
    PROVE  LET ttl == resolveCacheLeaseTtlMs(raw1)
               heartbeat == resolveCacheLeaseHeartbeatMs(raw2, ttl)
           IN  /\ ttl \in Nat \ {0} /\ heartbeat \in Nat \ {0}
               /\ ttl > 1 => 2 * heartbeat <= ttl
<1> DEFINE ttl == resolveCacheLeaseTtlMs(raw1)
           half == AtLeast(1, ttl \div 2)
           maximum == AtMost(15000, half)
           value == resolvePositiveIntegerEnv(raw2, half, maximum)
<1>1. ttl \in Nat /\ 0 < ttl /\ ttl <= 30000
  BY PositiveRange, SMT DEF resolveCacheLeaseTtlMs
<1>2. resolveCacheLeaseHeartbeatMs(raw2, ttl) = AtMost(maximum, value)
  BY DEF resolveCacheLeaseHeartbeatMs
<1> HIDE DEF ttl
<1>3. half \in Nat /\ 0 < half /\ half <= 15000 /\ (ttl > 1 => 2 * half <= ttl)
  BY <1>1, SMT DEF AtLeast
<1> HIDE DEF half
<1>4. maximum = half
  BY <1>3, SMT DEF AtMost
<1>5. value \in Nat /\ 0 < value /\ value <= half
  BY <1>3, <1>4, PositiveRange
<1> HIDE DEF maximum, value
<1>6. AtMost(maximum, value) = value
  BY <1>4, <1>5, <1>3, SMT DEF AtMost
<1>7. /\ resolveCacheLeaseHeartbeatMs(raw2, ttl) \in Nat \ {0}
      /\ ttl > 1 => 2 * resolveCacheLeaseHeartbeatMs(raw2, ttl) <= ttl
  BY <1>1, <1>2, <1>3, <1>5, <1>6, SMT
<1> QED
  BY <1>1, <1>7 DEF ttl

\* The times the process computes from any environment: headers are due before
\* their request, and a lease of more than a millisecond is renewed before half
\* its life is over, which CacheLease needs of its times.
THEOREM SettingsSound ==
    ASSUME NEW raw1 \in Raws, NEW raw2 \in Raws
    PROVE  /\ LET budget == resolveServerRequestTimeoutMs(raw1)
              IN  resolveServerHeadersTimeoutMs(raw2, budget) \in 1..budget
           /\ LET ttl == resolveCacheLeaseTtlMs(raw1)
                  heartbeat == resolveCacheLeaseHeartbeatMs(raw2, ttl)
              IN  ttl > 1 => 0 < heartbeat /\ 2 * heartbeat <= ttl
<1>1. LET budget == resolveServerRequestTimeoutMs(raw1)
      IN  resolveServerHeadersTimeoutMs(raw2, budget) \in 1..budget
  BY ServerTimes
<1>2. LET ttl == resolveCacheLeaseTtlMs(raw1)
          heartbeat == resolveCacheLeaseHeartbeatMs(raw2, ttl)
      IN  ttl > 1 => 0 < heartbeat /\ 2 * heartbeat <= ttl
  <2> DEFINE ttl == resolveCacheLeaseTtlMs(raw1)
             heartbeat == resolveCacheLeaseHeartbeatMs(raw2, ttl)
  <2>1. /\ ttl \in Nat \ {0} /\ heartbeat \in Nat \ {0}
        /\ ttl > 1 => 2 * heartbeat <= ttl
    BY LeaseTimes
  <2> HIDE DEF ttl, heartbeat
  <2>2. ttl > 1 => 0 < heartbeat /\ 2 * heartbeat <= ttl
    BY <2>1, SMT
  <2> QED BY <2>2 DEF ttl, heartbeat
<1> QED
  BY <1>1, <1>2

\* The backoff of a retry is at least a millisecond and, by its jitter, at most
\* half more than MAX_RETRY_DELAY_MS, for every setting.
THEOREM BackoffBound ==
    ASSUME NEW raw \in Raws, NEW attempt \in 0..2,
           NEW jitter \in Nat, 500 <= jitter, jitter <= 1500
    PROVE  LET delay == retryDelayMs(retryBaseDelayMs(raw), attempt, jitter)
           IN  delay \in Nat /\ 1 <= delay /\ delay <= 3000
<1> DEFINE base == retryBaseDelayMs(raw)
           factor == <<1, 2, 4>>[attempt + 1]
           exponential == AtMost(2000, base * factor)
           rounded == (exponential * jitter + 500) \div 1000
<1>1. base \in Nat /\ 0 < base
  BY PositiveRange, SMT DEF retryBaseDelayMs
<1>2. retryDelayMs(base, attempt, jitter) = AtLeast(1, rounded)
  BY DEF retryDelayMs
<1> HIDE DEF base
<1>3. factor \in {1, 2, 4}
  BY SMT
<1> HIDE DEF factor
<1>4. base * factor \in Nat /\ 0 < base * factor
  BY <1>1, <1>3, SMT
<1>5. exponential \in Nat /\ exponential <= 2000
  BY <1>4, SMT DEF AtMost
<1> HIDE DEF exponential
<1>6. exponential * jitter \in Nat /\ exponential * jitter <= 2000 * jitter
  BY <1>5, SMT
<1> DEFINE product == exponential * jitter
<1>7. product \in Nat /\ product <= 3000000
  BY <1>6, SMT
<1>8. rounded = (product + 500) \div 1000
  OBVIOUS
<1> HIDE DEF product, rounded
<1>9. rounded \in Nat /\ rounded <= 3000
  BY <1>7, <1>8, SMT
<1>10. AtLeast(1, rounded) \in Nat /\ 1 <= AtLeast(1, rounded) /\ AtLeast(1, rounded) <= 3000
  BY <1>9, SMT DEF AtLeast
<1> QED
  BY <1>2, <1>10 DEF base
-----------------------------------------------------------------------------
(* The budget of warnings                                                  *)

\* The settings of the server, its clock and its log, each of its type.
LogTyped ==
    /\ settings.http.headersTimeout \in 1..settings.http.requestTimeout
    /\ burst \in Nat \ {0} /\ windowMs \in Nat \ {0}
    /\ backs \in 0..MaxBack
    /\ states \in [Events -> [since : (backs - MaxBack)..(windowMs + MaxBack),
                              emitted : 0..burst, suppressed : Nat]]
    /\ totals \in [Events -> [events : Nat, warnings : Nat,
                              suppressed : Nat, reported : Nat]]

LogInv == LogTyped /\ SuppressionAccounted

\* The settings come from some environment, whatever it holds.
LEMMA SettingsTyped ==
    ASSUME ServerInit
    PROVE  /\ settings.http.headersTimeout \in 1..settings.http.requestTimeout
           /\ burst \in Nat \ {0} /\ windowMs \in Nat \ {0}
<1>1. PICK env \in Environments :
          settings = [http |-> resolveHttpServerSettings(env),
                      log |-> resolveHttpServerLogSettings(env)]
  BY Zenon DEF ServerInit
<1>2. env \in [Names -> Raws]
  BY EnvironmentsAssumption, Zenon
<1>3. \A name \in Names : env[name] \in Raws
  BY <1>2, Zenon
<1>4. /\ env["SERVER_REQUEST_TIMEOUT_MS"] \in Raws
      /\ env["SERVER_HEADERS_TIMEOUT_MS"] \in Raws
      /\ env["SERVER_TRANSPORT_LOG_BURST"] \in Raws
      /\ env["SERVER_TRANSPORT_LOG_WINDOW_MS"] \in Raws
  BY <1>3, Zenon DEF Names
<1>5. settings.http.headersTimeout \in 1..settings.http.requestTimeout
  <2>1. resolveServerHeadersTimeoutMs(env["SERVER_HEADERS_TIMEOUT_MS"],
            resolveServerRequestTimeoutMs(env["SERVER_REQUEST_TIMEOUT_MS"]))
        \in 1..resolveServerRequestTimeoutMs(env["SERVER_REQUEST_TIMEOUT_MS"])
    BY <1>4, ServerTimes, Zenon
  <2> QED BY <1>1, <2>1, Zenon DEF resolveHttpServerSettings
<1>6. burst \in Nat \ {0}
  <2>1. burst = resolvePositiveIntegerEnv(env["SERVER_TRANSPORT_LOG_BURST"], 10, 100)
    BY <1>1, SMT DEF burst, resolveHttpServerLogSettings
  <2> QED BY <1>4, <2>1, PositiveRange, SMT
<1>7. windowMs \in Nat \ {0}
  <2>1. windowMs
          = resolvePositiveIntegerEnv(env["SERVER_TRANSPORT_LOG_WINDOW_MS"], 60000, 300000)
    BY <1>1, SMT DEF windowMs, resolveHttpServerLogSettings
  <2> DEFINE value(raw) == resolvePositiveIntegerEnv(raw, 60000, 300000)
  <2>2. ASSUME NEW raw \in Raws PROVE value(raw) \in Nat /\ 0 < value(raw)
    BY PositiveRange, SMT
  <2> QED BY <1>4, <2>1, <2>2, SMT
<1> QED
  BY <1>5, <1>6, <1>7

\* Nothing has been counted at first.
LEMMA InitLog == ASSUME ServerInit PROVE LogInv
<1>1. LogTyped
  BY SettingsTyped DEF LogTyped, ServerInit
<1>2. SuppressionAccounted
  BY DEF ServerInit, SuppressionAccounted
<1> QED
  BY <1>1, <1>2 DEF LogInv

\* Counting and logging an event keeps the accounts.
LEMMA ObserveStep ==
    ASSUME LogInv, NEW e \in Events, Observe(e)
    PROVE  LogInv'
<1> USE DEF LogInv, LogTyped
<1>1. /\ UNCHANGED <<settings, warns, backs, burst, windowMs>>
      /\ logHttpServerEvent(e)
  BY Zenon DEF Observe, burst, windowMs
<1>2. states[e] \in [since : (backs - MaxBack)..(windowMs + MaxBack),
                     emitted : 0..burst, suppressed : Nat]
  BY Zenon
<1>3. take(states[e]) \in [since : (backs - MaxBack)..(windowMs + MaxBack),
                           emitted : 0..burst, suppressed : Nat]
  BY <1>2, SMT DEF take, Over, Emits
<1> HIDE DEF LogInv, LogTyped
<1>4. /\ states \in [Events -> [since : (backs - MaxBack)..(windowMs + MaxBack),
                                emitted : 0..burst, suppressed : Nat]]
      /\ totals \in [Events -> [events : Nat, warnings : Nat,
                                suppressed : Nat, reported : Nat]]
  BY Zenon DEF LogInv, LogTyped
<1>5. states' \in [Events -> [since : (backs' - MaxBack)..(windowMs' + MaxBack),
                              emitted : 0..burst', suppressed : Nat]]
  BY <1>1, <1>3, <1>4 DEF logHttpServerEvent
<1>6. totals' \in [Events -> [events : Nat, warnings : Nat,
                              suppressed : Nat, reported : Nat]]
  BY <1>1, <1>2, <1>4 DEF logHttpServerEvent
<1>7. SuppressionAccounted'
  <2> SUFFICES ASSUME NEW f \in Events
               PROVE  /\ totals'[f].suppressed
                           = totals'[f].reported + states'[f].suppressed
                      /\ warns' => totals'[f].events
                           = totals'[f].warnings + totals'[f].suppressed
    BY Zenon DEF SuppressionAccounted
  <2>1. /\ totals[f].suppressed = totals[f].reported + states[f].suppressed
        /\ warns => totals[f].events = totals[f].warnings + totals[f].suppressed
    BY DEF LogInv, SuppressionAccounted
  <2>2. CASE f # e
    BY <1>1, <1>4, <2>1, <2>2 DEF logHttpServerEvent
  <2>3. CASE f = e
    BY <1>1, <1>2, <1>4, <2>1, <2>3 DEF logHttpServerEvent, take, Over, Emits
  <2> QED BY <2>2, <2>3
<1> QED
  BY <1>1, <1>5, <1>6, <1>7 DEF LogInv, LogTyped

\* The clock moves windows, not counts.
LEMMA ClockStep ==
    ASSUME LogInv, Tick \/ StepBack
    PROVE  LogInv'
<1> USE DEF LogInv, LogTyped
<1>1. UNCHANGED <<settings, warns, totals, burst, windowMs>>
  BY DEF Tick, StepBack, burst, windowMs
<1>2. ASSUME NEW n \in {-1, 1}, Shift(n), backs' \in 0..MaxBack,
             n = -1 => backs' = backs - 1, n = 1 => backs' = backs
      PROVE  LogInv'
  <2>1. states' \in [Events -> [since : (backs' - MaxBack)..(windowMs' + MaxBack),
                                emitted : 0..burst', suppressed : Nat]]
    BY <1>1, <1>2 DEF Shift, AtMost
  <2>2. \A e \in Events : states'[e].suppressed = states[e].suppressed
    BY <1>2 DEF Shift
  <2>3. SuppressionAccounted'
    BY <1>1, <2>2 DEF SuppressionAccounted
  <2> QED BY <1>1, <1>2, <2>1, <2>3
<1>3. CASE Tick
  BY <1>2, <1>3 DEF Tick
<1>4. CASE StepBack
  BY <1>2, <1>4 DEF StepBack
<1> QED
  BY <1>3, <1>4

\* A step of a connection logs at most one event.
LEMMA ClientLog ==
    ASSUME NEW c \in Connections, ClientStep(c)
    PROVE  (\E e \in Events : Observe(e)) \/ UNCHANGED <<settings, warns, log, backs>>
<1>1. CASE request(c) \/ Return(c)
  BY <1>1 DEF request, Return, serverVars
<1>2. CASE sendEnvelope(c) \/ sendError(c) \/ Accept(c) \/ EndResponse(c)
  BY <1>2 DEF sendEnvelope, sendError, StartResponse, Accept, EndResponse
<1>3. CASE dropRequest(c)
  BY <1>3 DEF dropRequest, Events
<1>4. ASSUME NEW code \in Codes, handleHttpClientError(c, code)
      PROVE  \E e \in Events : Observe(e)
  BY <1>4 DEF handleHttpClientError, Events
<1> QED
  BY <1>1, <1>2, <1>3, <1>4 DEF ClientStep

\* Every step keeps the accounts.
LEMMA LogStep == LogInv /\ [ClientNext]_clientVars => LogInv'
<1> SUFFICES ASSUME LogInv, [ClientNext]_clientVars PROVE LogInv'
  OBVIOUS
<1>1. ASSUME UNCHANGED <<settings, warns, log, backs>> PROVE LogInv'
  BY <1>1 DEF log, LogInv, LogTyped, SuppressionAccounted, burst, windowMs
<1>2. ASSUME NEW c \in Connections, ClientStep(c) PROVE LogInv'
  BY <1>1, <1>2, ClientLog, ObserveStep
<1>3. CASE Change \/ UNCHANGED clientVars
  BY <1>1, <1>3 DEF Change, clientVars, serverVars
<1>4. CASE Tick \/ StepBack
  BY <1>4, ClockStep
<1> QED
  BY <1>2, <1>3, <1>4 DEF ClientNext

\* No suppressed warning is lost or reported twice, whatever events come, in
\* whichever windows, and however the wall clock moves back.
THEOREM Accounted == ClientSpec => []SuppressionAccounted
<1>1. ClientInit => LogInv
  BY InitLog DEF ClientInit
<1>2. LogInv => SuppressionAccounted
  BY DEF LogInv
<1> QED
  BY <1>1, <1>2, LogStep, PTL DEF ClientSpec
\* Of the recent warnings of an event no two have the same number; all are among
\* the burst before its present window and those of the window, whose first one
\* is as old as the window is by the wall clock, or older: what is lost of the
\* window's age is lost to StepBack, never gained.
WarningsGood(e) ==
    LET warnings == totals[e].warnings
        state == states[e]
    IN  /\ recent[e] \subseteq [nr : 1..warnings, age : Ages]
        /\ \A v, w \in recent[e] : v.nr = w.nr => v = w
        /\ \A w \in recent[e] :
              /\ w.nr > warnings - state.emitted - burst
              /\ w.nr <= warnings - state.emitted + 1 => w.age >= state.since
        /\ state.emitted = 0 => state.since >= windowMs + backs

BudgetInv ==
    /\ DOMAIN recent = Events
    /\ \A e \in Events : WarningsGood(e)

\* What LogInv says of the state of one event.
LEMMA LogOf ==
    ASSUME LogInv, NEW e \in Events
    PROVE  /\ burst \in Nat \ {0} /\ windowMs \in Nat \ {0} /\ backs \in 0..MaxBack
           /\ states[e] \in [since : (backs - MaxBack)..(windowMs + MaxBack),
                              emitted : 0..burst, suppressed : Nat]
           /\ totals[e] \in [events : Nat, warnings : Nat,
                              suppressed : Nat, reported : Nat]
  BY DEF LogInv, LogTyped

\* A warning is numbered next; the first of a window finds only warnings of the
\* window before it, since all others are older than windowMs.
LEMMA ObserveBudget ==
    ASSUME LogInv, BudgetInv, NEW e \in Events, Observe(e)
    PROVE  BudgetInv'
<1>1. /\ UNCHANGED <<settings, warns, backs, burst, windowMs, Ages>>
      /\ logHttpServerEvent(e)
  BY Zenon DEF Observe, burst, windowMs, Ages
<1>2. DOMAIN recent' = Events
  BY <1>1 DEF logHttpServerEvent, BudgetInv
<1>3. ASSUME NEW f \in Events, f # e PROVE WarningsGood(f)'
  <2>1. recent'[f] = recent[f] /\ states'[f] = states[f] /\ totals'[f] = totals[f]
    BY <1>1, <1>3 DEF logHttpServerEvent, LogInv, LogTyped, BudgetInv
  <2>2. WarningsGood(f)
    BY DEF BudgetInv
  <2> QED BY <1>1, <2>1, <2>2 DEF WarningsGood
<1>4. WarningsGood(e) /\ LogInv
  BY DEF BudgetInv
<1>5. ASSUME ~(warns /\ Emits(states[e])) PROVE WarningsGood(e)'
  <2>1. recent' = recent /\ totals'[e].warnings = totals[e].warnings
    BY <1>1, <1>5, LogOf DEF logHttpServerEvent, LogInv, LogTyped
  <2>2. /\ states'[e].since = states[e].since
        /\ states'[e].emitted = states[e].emitted
    BY <1>1, <1>5, LogOf DEF logHttpServerEvent, LogInv, LogTyped, take, Emits
  <2> QED BY <1>1, <1>4, <2>1, <2>2 DEF WarningsGood
<1>6. ASSUME warns /\ Emits(states[e]) PROVE WarningsGood(e)'
  <2> DEFINE n == totals[e].warnings
             new == [nr |-> n + 1, age |-> 0]
  <2>1. /\ recent'[e] = recent[e] \cup {new}
        /\ totals'[e].warnings = n + 1
        /\ states'[e] = take(states[e])
    BY <1>1, <1>6 DEF logHttpServerEvent, LogInv, LogTyped, BudgetInv
  <2>2. /\ burst \in Nat \ {0} /\ windowMs \in Nat \ {0}
        /\ states[e].since \in Int /\ states[e].emitted \in 0..burst
        /\ n \in Nat /\ backs \in Nat
    BY LogOf
  <2>3. /\ new \in [nr : 1..(n + 1), age : Ages]
        /\ \A w \in recent[e] : w \in [nr : 1..n, age : Ages] /\ w.nr # new.nr
    BY <1>4, <2>2 DEF WarningsGood, Ages
  <2>4. recent'[e] \subseteq [nr : 1..(n + 1), age : Ages]
    BY <2>1, <2>2, <2>3
  <2>5. \A v, w \in recent'[e] : v.nr = w.nr => v = w
    BY <1>4, <2>1, <2>3 DEF WarningsGood
  <2>6. CASE Over(states[e])
    <3>1. states'[e].since = 0 /\ states'[e].emitted = 1
      BY <2>1, <2>6 DEF take
    <3>2. ASSUME NEW w \in recent'[e]
          PROVE  w.nr > n - burst /\ w.age >= 0
      <4>1. CASE w = new
        BY <2>2, <4>1
      <4>2. CASE w \in recent[e]
        <5>1. w.age < states[e].since /\ w.age >= 0
          BY <2>2, <2>3, <2>6, <4>2 DEF Over, Ages
        <5>2. w.nr > n - states[e].emitted + 1
          BY <1>4, <2>2, <2>3, <4>2, <5>1 DEF WarningsGood, Ages
        <5> QED BY <2>2, <2>3, <4>2, <5>1, <5>2
      <4> QED BY <2>1, <4>1, <4>2
    <3> QED BY <1>1, <2>1, <2>2, <2>4, <2>5, <3>1, <3>2 DEF WarningsGood
  <2>7. CASE ~Over(states[e])
    <3>1. /\ states'[e].since = states[e].since
          /\ states'[e].emitted = states[e].emitted + 1
      BY <1>6, <2>1, <2>2, <2>7, LogOf DEF take
    <3>2. states[e].emitted > 0
      BY <1>4, <2>2, <2>7 DEF WarningsGood, Over
    <3>3. ASSUME NEW w \in recent'[e]
          PROVE  /\ w.nr > n - states[e].emitted - burst
                 /\ w.nr <= n - states[e].emitted + 1 => w.age >= states[e].since
      <4>1. CASE w = new
        BY <2>2, <3>2, <4>1
      <4>2. CASE w \in recent[e]
        BY <1>4, <4>2 DEF WarningsGood
      <4> QED BY <2>1, <4>1, <4>2
    <3> QED BY <1>1, <2>1, <2>2, <2>4, <2>5, <3>1, <3>2, <3>3 DEF WarningsGood
  <2> QED BY <2>6, <2>7
<1> QED
  BY <1>2, <1>3, <1>5, <1>6 DEF BudgetInv

\* A tick makes warnings older together with their window; a step back makes
\* only the window younger.
LEMMA ClockBudget ==
    ASSUME LogInv, BudgetInv, Tick \/ StepBack
    PROVE  BudgetInv'
<1>1. UNCHANGED <<settings, warns, totals, burst, windowMs, Ages>>
  BY DEF Tick, StepBack, burst, windowMs, Ages
<1>2. DOMAIN recent' = Events
  BY DEF Tick, StepBack, BudgetInv
<1>3. ASSUME NEW e \in Events PROVE WarningsGood(e)'
  <2> DEFINE n == totals[e].warnings
             since == states[e].since
             emitted == states[e].emitted
  <2>1. WarningsGood(e)
    BY DEF BudgetInv
  <2>2. /\ burst \in Nat \ {0} /\ windowMs \in Nat \ {0} /\ backs \in 0..MaxBack
        /\ since \in Int /\ since <= windowMs + MaxBack /\ emitted \in 0..burst
        /\ n \in Nat
    BY LogOf
  <2>3. \A w \in recent[e] : w.nr \in Int /\ w.age \in 0..(windowMs - 1)
    BY <2>1, <2>2 DEF WarningsGood, Ages
  <2>4. CASE Tick
    <3>1. /\ states'[e].since = AtMost(windowMs + MaxBack, since + 1)
          /\ states'[e].emitted = emitted
          /\ recent'[e] = Older(recent[e]) /\ backs' = backs
      BY <2>4, LogOf DEF Tick, Shift
    <3>2. /\ states'[e].since <= since + 1
          /\ states'[e].since \in {since + 1, windowMs + MaxBack}
      BY <2>2, <3>1 DEF AtMost
    <3>3. \A v \in recent'[e] : \E w \in recent[e] :
              v = [w EXCEPT !.age = @ + 1] /\ w.age + 1 \in Ages
      BY <3>1 DEF Older
    <3>4. \A v \in recent'[e] : \E w \in recent[e] :
              /\ v = [nr |-> w.nr, age |-> w.age + 1]
              /\ w.nr \in 1..n /\ w.age + 1 \in Ages
      BY <2>1, <3>3 DEF WarningsGood
    <3>5. recent'[e] \subseteq [nr : 1..n, age : Ages]
      BY <3>4
    <3>6. \A v, w \in recent'[e] : v.nr = w.nr => v = w
      BY <2>1, <2>3, <3>4 DEF WarningsGood
    <3>7. ASSUME NEW v \in recent'[e]
          PROVE  /\ v.nr > n - emitted - burst
                 /\ v.nr <= n - emitted + 1 => v.age >= states'[e].since
      <4>1. PICK w \in recent[e] : v = [nr |-> w.nr, age |-> w.age + 1]
        BY <3>4
      <4>2. /\ w.nr > n - emitted - burst
            /\ w.nr <= n - emitted + 1 => w.age >= since
        BY <2>1 DEF WarningsGood
      <4> QED BY <2>2, <2>3, <3>2, <4>1, <4>2
    <3>8. emitted = 0 => states'[e].since >= windowMs + backs
      BY <2>1, <2>2, <3>2 DEF WarningsGood
    <3> QED BY <1>1, <3>1, <3>5, <3>6, <3>7, <3>8 DEF WarningsGood
  <2>5. CASE StepBack
    <3>1. /\ states'[e].since = since - 1 /\ states'[e].emitted = emitted
          /\ recent'[e] = recent[e] /\ backs' = backs - 1
      BY <2>2, <2>5, LogOf DEF StepBack, Shift, AtMost
    <3>2. ASSUME NEW w \in recent'[e]
          PROVE  /\ w.nr > n - emitted - burst
                 /\ w.nr <= n - emitted + 1 => w.age >= states'[e].since
      BY <2>1, <2>2, <2>3, <3>1 DEF WarningsGood
    <3>3. emitted = 0 => states'[e].since >= windowMs + backs'
      BY <2>1, <2>2, <3>1 DEF WarningsGood
    <3> QED BY <1>1, <2>1, <3>1, <3>2, <3>3 DEF WarningsGood
  <2> QED BY <2>4, <2>5
<1> QED
  BY <1>2, <1>3 DEF BudgetInv

\* Every step keeps the budget.
LEMMA BudgetStep == LogInv /\ BudgetInv /\ [ClientNext]_clientVars => BudgetInv'
<1> SUFFICES ASSUME LogInv, BudgetInv, [ClientNext]_clientVars PROVE BudgetInv'
  OBVIOUS
<1>1. ASSUME UNCHANGED <<settings, warns, log, backs>> PROVE BudgetInv'
  BY <1>1 DEF log, BudgetInv, WarningsGood, Ages, burst, windowMs
<1>2. ASSUME NEW c \in Connections, ClientStep(c) PROVE BudgetInv'
  BY <1>1, <1>2, ClientLog, ObserveBudget
<1>3. CASE Change \/ UNCHANGED clientVars
  BY <1>1, <1>3 DEF Change, clientVars, serverVars
<1>4. CASE Tick \/ StepBack
  BY <1>4, ClockBudget
<1> QED
  BY <1>2, <1>3, <1>4 DEF ClientNext

\* Warnings with different numbers out of an interval are no more than it is long.
LEMMA NumbersCounted ==
    ASSUME NEW R, NEW first \in Int, NEW n \in Nat,
           \A w \in R : w.nr \in first..(first + n - 1),
           \A v, w \in R : v.nr = w.nr => v = w
    PROVE  Cardinality(R) \in Nat /\ Cardinality(R) <= n
<1> DEFINE numbers == first..(first + n - 1)
           nr == [w \in R |-> w.nr]
<1>1. IsFiniteSet(numbers) /\ Cardinality(numbers) = n
  BY FS_Interval
<1>2. nr \in Injection(R, numbers)
  BY DEF Injection, IsInjective
<1> HIDE DEF numbers, nr
<1>3. IsFiniteSet(R) /\ Cardinality(R) <= Cardinality(numbers)
  BY <1>1, <1>2, FS_Injection, Zenon
<1> QED
  BY <1>1, <1>3, FS_CardinalityType

\* Whatever the wall clock does backwards and however events come, any windowMs
\* of real time see at most the warnings of two windows.
THEOREM WarningsKept == ClientSpec => []WarningsBounded
<1>1. ClientInit => LogInv /\ BudgetInv
  BY InitLog, SettingsTyped DEF ClientInit, ServerInit, BudgetInv, WarningsGood
<1>2. LogInv /\ BudgetInv => WarningsBounded
  <2> SUFFICES ASSUME LogInv, BudgetInv, NEW e \in Events
               PROVE  Cardinality(recent[e]) <= 2 * burst
    BY DEF WarningsBounded
  <2> DEFINE n == totals[e].warnings
             length == states[e].emitted + burst
             first == n - length + 1
  <2>1. WarningsGood(e) /\ n \in Nat /\ burst \in Nat /\ states[e].emitted \in 0..burst
    BY LogOf DEF BudgetInv
  <2>2. \A w \in recent[e] : w.nr \in first..(first + length - 1)
    BY <2>1 DEF WarningsGood
  <2>3. \A v, w \in recent[e] : v.nr = w.nr => v = w
    BY <2>1 DEF WarningsGood
  <2>4. first \in Int /\ length \in Nat /\ length <= 2 * burst
    BY <2>1
  <2> HIDE DEF first, length
  <2>5. Cardinality(recent[e]) \in Nat /\ Cardinality(recent[e]) <= length
    BY <2>2, <2>3, <2>4, NumbersCounted
  <2> QED BY <2>1, <2>4, <2>5
<1> QED
  BY <1>1, <1>2, LogStep, BudgetStep, PTL DEF ClientSpec
-----------------------------------------------------------------------------
(* What is written to a connection                                         *)

Parts == {"raw", "head", "body"}

\* What Append does to the parts that have been written.
LEMMA AppendFacts ==
    ASSUME NEW w \in Seq(Parts), NEW p \in Parts
    PROVE  /\ Append(w, p) \in Seq(Parts)
           /\ Append(w, p) # <<>> /\ Len(Append(w, p)) = Len(w) + 1
           /\ Append(w, p)[Len(w) + 1] = p
           /\ \A i \in 1..Len(w) : Append(w, p)[i] = w[i]
  OBVIOUS

\* A single part.
LEMMA SinglePart == Append(<<>>, "head") = <<"head">>
  OBVIOUS

\* A part that has arrived first was written first.
LEMMA PrefixFacts ==
    ASSUME NEW w \in Seq(Parts), NEW n \in 0..Len(w), SubSeq(w, 1, n) # <<>>
    PROVE  w # <<>> /\ SubSeq(w, 1, n)[1] = w[1]
  OBVIOUS

Started(c) == wire[c] # <<>> /\ wire[c][1] = "head"

ConnTyped ==
    /\ data \in Versions
    /\ stage \in [Connections -> {"open", "serving", "responding", "destroyed"}]
    /\ wire \in [Connections -> Seq(Parts)]
    /\ call \in [Connections -> {"none", "waiting"}]
    /\ result \in [Connections -> {"none", "ok", "notModified", "apiError", "error"}]
    /\ response = [c \in Connections |-> response[c]]
    /\ asked = [c \in Connections |-> asked[c]]
    /\ copies = [c \in Connections |-> copies[c]]

\* A connection serves a call that waits for it; nothing has been written for a
\* request that is served, a header of one that is answered; an open connection
\* ends with a header only where no body follows.
WireGood(c) ==
    /\ stage[c] \in {"serving", "responding"} => call[c] = "waiting"
    /\ result[c] # "none" => call[c] = "none"
    /\ stage[c] = "serving" => wire[c] = <<>>
    /\ stage[c] = "responding" => wire[c] = <<"head">>
    /\ stage[c] = "open" /\ wire[c] # <<>> /\ wire[c][Len(wire[c])] = "head"
          => response[c].status = "304"
    /\ \A i \in 1..(Len(wire[c]) - 1) :
          wire[c][i + 1] = "raw" => wire[c][i] # "head" \/ response[c].status = "304"

\* What 304 promises, and what the hint of an error does.
Justified(c) ==
    \/ asked[c] = <<Star>>
    \/ \E copy \in copies[c] : copy.etag = response[c].etag /\ copy.body = response[c].body

Honest(hint, given) ==
    given # NoHint =>
        /\ given \in 0..MaxRetryAfter
        /\ given = MaxRetryAfter \/ given * 1000 >= AtLeast(0, Demand(hint))
        /\ given * 1000 < AtLeast(0, Demand(hint)) + 1000

\* What the application asks with comes from its copies.
FromCopies(c) ==
    \/ asked[c] \in {<<>>, <<Star>>}
    \/ \E weak \in BOOLEAN, copy \in copies[c] :
          LET own == Tag(weak, copy.etag.digest)
          IN  \/ asked[c] = <<own>>
              \/ \E kind \in {"token", "open"} : asked[c] = <<Other(kind), own>>

\* The application asks with tags of its copies, and a copy is under the tag of
\* its contents.
AnswerGood(c) ==
    /\ response[c].status \in {"none", "200", "304", "error"}
    /\ Started(c) => response[c].status # "none"
    /\ result[c] = "notModified" => response[c].status = "304"
    /\ result[c] = "apiError" => response[c].status = "error"
    /\ FromCopies(c)
    /\ \A copy \in copies[c] : copy.etag = createWeakEntityTag(copy.body)
    /\ response[c].status \in {"200", "304"} =>
          response[c].etag = createWeakEntityTag(response[c].body)
    /\ response[c].status = "304" => Justified(c)
    /\ response[c].status = "error" => Honest(response[c].hint, response[c].retryAfter)

ConnInv == ConnTyped /\ \A c \in Connections : WireGood(c) /\ AnswerGood(c)

\* The connections are independent of each other, and of the rest of the state.
Only(c) ==
    \A d \in Connections \ {c} :
        /\ stage'[d] = stage[d] /\ wire'[d] = wire[d] /\ call'[d] = call[d]
        /\ asked'[d] = asked[d] /\ response'[d] = response[d]
        /\ copies'[d] = copies[d] /\ result'[d] = result[d]

LEMMA Frame ==
    ASSUME ConnInv, NEW c \in Connections, Only(c), ConnTyped',
           WireGood(c)', AnswerGood(c)'
    PROVE  ConnInv'
<1>1. ASSUME NEW d \in Connections, d # c PROVE WireGood(d)' /\ AnswerGood(d)'
  <2>1. WireGood(d) /\ AnswerGood(d)
    BY DEF ConnInv
  <2>2. /\ stage'[d] = stage[d] /\ wire'[d] = wire[d] /\ call'[d] = call[d]
        /\ asked'[d] = asked[d] /\ response'[d] = response[d]
        /\ copies'[d] = copies[d] /\ result'[d] = result[d]
    BY <1>1 DEF Only
  <2>3. WireGood(d)'
    BY <2>1, <2>2 DEF WireGood
  <2>4. AnswerGood(d)'
    BY <2>1, <2>2 DEF AnswerGood, Started, Justified, FromCopies
  <2> QED BY <2>3, <2>4
<1> QED
  BY <1>1 DEF ConnInv

-----------------------------------------------------------------------------
(* Retry-After                                                             *)

\* Every hint that reaches a client is honest, whatever the provider sends.
LEMMA HonestHints ==
    ASSUME NEW hint \in Hints, NEW given,
           \/ \E status \in {429, 500, 503} : given = mapAxiosError(status, hint)
           \/ /\ hint.form = "date" /\ hint.value > 0
              /\ given = circuitRetryAfter(hint.value)
    PROVE  Honest(hint, given)
<1>1. hint \in AllHints
  BY HintsAssumption, Zenon
<1>2. hint.value \in Int
  BY <1>1 DEF AllHints, Useless
<1>3. MaxRetryAfter \in Nat /\ 1 <= MaxRetryAfter
  BY SMT DEF MaxRetryAfter
<1>4. CASE given = normalizeRetryAfter(hint)
  <2>1. CASE hint.form = "seconds" /\ hint.value \in 0..MaxSafe
    <3>1. given = AtMost(MaxRetryAfter, hint.value) /\ hint.value >= 0
      BY <1>2, <1>4, <2>1, MaxSafeAssumption, SMT DEF normalizeRetryAfter
    <3>2. Demand(hint) = hint.value * 1000
      BY <2>1 DEF Demand
    <3> QED BY <1>2, <1>3, <3>1, <3>2, SMT DEF Honest, AtMost, AtLeast
  <2>2. CASE ~(hint.form = "seconds" /\ hint.value \in 0..MaxSafe) /\ hint.form = "date"
    <3>1. given = AtMost(MaxRetryAfter, AtLeast(0, (hint.value + 999) \div 1000))
      BY <1>4, <2>2 DEF normalizeRetryAfter
    <3>2. Demand(hint) = hint.value
      BY <2>2 DEF Demand
    <3> QED BY <1>2, <1>3, <3>1, <3>2, SMT DEF Honest, AtMost, AtLeast
  <2>3. CASE ~(hint.form = "seconds" /\ hint.value \in 0..MaxSafe) /\ hint.form # "date"
    BY <1>4, <2>3 DEF normalizeRetryAfter, Honest
  <2> QED BY <2>1, <2>2, <2>3
<1>5. CASE given = NoHint
  BY <1>5 DEF Honest
<1>6. CASE hint.form = "date" /\ hint.value > 0 /\ given = circuitRetryAfter(hint.value)
  <2>1. Demand(hint) = hint.value
    BY <1>6 DEF Demand
  <2> QED BY <1>2, <1>3, <1>6, <2>1, SMT DEF Honest, circuitRetryAfter, AtMost, AtLeast
<1> QED
  BY <1>4, <1>5, <1>6 DEF mapAxiosError
-----------------------------------------------------------------------------
(* The steps of a connection                                               *)

\* The library sends a request: nothing of a response to it is there yet.
LEMMA RequestStep ==
    ASSUME ConnInv, NEW c \in Connections, request(c)
    PROVE  ConnInv'
<1> USE DEF ConnInv, ConnTyped
<1>1. PICK header \in Headers(c) : asked' = [asked EXCEPT ![c] = header]
  BY DEF request
<1>2. ConnTyped'
  <2>1. <<>> \in Seq(Parts)
    OBVIOUS
  <2> QED BY <1>1, <2>1 DEF request, Become
<1>3. Only(c)
  BY <1>1 DEF request, Become, Only
<1>4. WireGood(c)'
  BY DEF request, Become, WireGood
<1>5. AnswerGood(c)'
  <2>1. copies'[c] = copies[c] /\ asked'[c] = header
    BY <1>1 DEF request
  <2>2. FromCopies(c)'
    BY <2>1 DEF FromCopies, Headers
  <2> QED BY <2>1, <2>2 DEF request, AnswerGood, Started
<1> QED
  BY <1>2, <1>3, <1>4, <1>5, Frame

\* The tag of an answer decides by what the application has.
LEMMA EnvelopeStep ==
    ASSUME ConnInv, NEW c \in Connections, sendEnvelope(c),
           UNCHANGED <<data, call, asked, copies, result>>
    PROVE  ConnInv'
<1> DEFINE etag == createWeakEntityTag(data)
           unchanged == matchesIfNoneMatch(asked[c], etag)
<1>1. /\ StartResponse(c, unchanged)
      /\ response' = [response EXCEPT ![c] =
            [status |-> IF unchanged THEN "304" ELSE "200", etag |-> etag, body |-> data]]
  BY DEF sendEnvelope
<1>2. WireGood(c) /\ AnswerGood(c) /\ ConnTyped
  BY DEF ConnInv
<1>3. /\ stage[c] = "serving" /\ wire[c] = <<>> /\ call[c] = "waiting" /\ result[c] = "none"
  BY <1>1, <1>2 DEF StartResponse, WireGood
<1>4. wire' = [wire EXCEPT ![c] = <<"head">>]
  BY <1>1, <1>3, SinglePart DEF StartResponse, Write
<1>5. stage' = [stage EXCEPT ![c] = IF unchanged THEN "open" ELSE "responding"]
  BY <1>1 DEF StartResponse, Become
<1>6. /\ response'[c].status = IF unchanged THEN "304" ELSE "200"
      /\ response'[c].etag = etag /\ response'[c].body = data
  BY <1>1, <1>2 DEF ConnTyped
<1>7. unchanged => Justified(c)'
  <2> SUFFICES ASSUME unchanged PROVE Justified(c)'
    OBVIOUS
  <2>1. FromCopies(c)
        /\ \A copy \in copies[c] : copy.etag = createWeakEntityTag(copy.body)
    BY <1>2 DEF AnswerGood
  <2>2. PICK tag \in parseEntityTags(asked[c]) : tag = Star \/ tag.digest = etag.digest
    BY DEF matchesIfNoneMatch
  <2>3. CASE asked[c] = <<>> \/ asked[c] = <<Star>>
    BY <2>2, <2>3 DEF parseEntityTags, Justified
  <2>4. ASSUME NEW copy \in copies[c], NEW weak \in BOOLEAN,
               LET own == Tag(weak, copy.etag.digest)
               IN  \/ asked[c] = <<own>>
                   \/ \E kind \in {"token", "open"} : asked[c] = <<Other(kind), own>>
        PROVE  Justified(c)'
    <3>1. tag = Tag(weak, copy.etag.digest)
      BY <2>2, <2>4 DEF parseEntityTags, Other
    <3>2. copy.etag.digest = etag.digest
      BY <2>2, <3>1 DEF Tag, Star, Other
    <3>3. copy.etag = Tag(TRUE, copy.body) /\ etag = Tag(TRUE, data)
      BY <2>1 DEF createWeakEntityTag
    <3>4. copy.etag = etag /\ copy.body = data
      <4>1. \A articles : Tag(TRUE, articles).digest = articles
        BY DEF Tag
      <4> QED BY <3>2, <3>3, <4>1
    <3> QED BY <1>6, <3>4 DEF Justified
  <2> QED BY <2>1, <2>3, <2>4 DEF FromCopies
<1>8. ConnTyped' /\ Only(c)
  <2>1. wire' \in [Connections -> Seq(Parts)]
    BY <1>2, <1>4 DEF ConnTyped, Parts
  <2>2. stage' \in [Connections -> {"open", "serving", "responding", "destroyed"}]
    BY <1>2, <1>5 DEF ConnTyped
  <2>3. response' = [d \in Connections |-> response'[d]]
    BY <1>1, <1>2 DEF ConnTyped
  <2>4. Only(c)
    BY <1>1, <1>2, <1>4, <1>5 DEF ConnTyped, Only
  <2> QED BY <1>2, <2>1, <2>2, <2>3, <2>4 DEF ConnTyped
<1>9. WireGood(c)'
  BY <1>2, <1>3, <1>4, <1>5, <1>6 DEF WireGood, ConnTyped
<1>10. AnswerGood(c)'
  <2>1. FromCopies(c)' = FromCopies(c)
    BY DEF FromCopies
  <2> QED BY <1>2, <1>3, <1>6, <1>7, <2>1 DEF AnswerGood
<1> QED
  BY <1>8, <1>9, <1>10, Frame

\* An error carries an honest hint.
LEMMA ErrorStep ==
    ASSUME ConnInv, NEW c \in Connections, sendError(c),
           UNCHANGED <<data, call, asked, copies, result>>
    PROVE  ConnInv'
<1>1. StartResponse(c, FALSE)
  BY DEF sendError
<1>2. PICK hint \in Hints :
          \E retryAfter \in {mapAxiosError(status, hint) : status \in {429, 500, 503}}
                \cup (IF hint.form = "date" /\ hint.value > 0
                      THEN {circuitRetryAfter(hint.value)} ELSE {}) :
             response' = [response EXCEPT ![c] =
                 [status |-> "error", hint |-> hint, retryAfter |-> retryAfter]]
  BY Zenon DEF sendError
<1>3. PICK retryAfter \in {mapAxiosError(status, hint) : status \in {429, 500, 503}}
                \cup (IF hint.form = "date" /\ hint.value > 0
                      THEN {circuitRetryAfter(hint.value)} ELSE {}) :
             response' = [response EXCEPT ![c] =
                 [status |-> "error", hint |-> hint, retryAfter |-> retryAfter]]
  BY <1>2
<1>4. Honest(hint, retryAfter)
  BY HonestHints
<1>5. WireGood(c) /\ AnswerGood(c) /\ ConnTyped
  BY DEF ConnInv
<1>6. /\ stage[c] = "serving" /\ wire[c] = <<>> /\ call[c] = "waiting" /\ result[c] = "none"
  BY <1>1, <1>5 DEF StartResponse, WireGood
<1>7. wire' = [wire EXCEPT ![c] = <<"head">>]
  BY <1>1, <1>6, SinglePart DEF StartResponse, Write
<1>8. stage' = [stage EXCEPT ![c] = "responding"]
  BY <1>1 DEF StartResponse, Become
<1>9. /\ response'[c].status = "error"
      /\ response'[c].hint = hint /\ response'[c].retryAfter = retryAfter
  BY <1>3, <1>5 DEF ConnTyped
<1>10. ConnTyped' /\ Only(c)
  <2>1. wire' \in [Connections -> Seq(Parts)]
    BY <1>5, <1>7 DEF ConnTyped, Parts
  <2>2. response' = [d \in Connections |-> response'[d]]
    BY <1>3, <1>5 DEF ConnTyped
  <2>3. Only(c)
    BY <1>3, <1>5, <1>7, <1>8 DEF ConnTyped, Only
  <2>4. stage' \in [Connections -> {"open", "serving", "responding", "destroyed"}]
    BY <1>5, <1>8 DEF ConnTyped
  <2>5. /\ data' \in Versions
        /\ call' \in [Connections -> {"none", "waiting"}]
        /\ result' \in [Connections -> {"none", "ok", "notModified", "apiError", "error"}]
        /\ asked' = [d \in Connections |-> asked'[d]]
        /\ copies' = [d \in Connections |-> copies'[d]]
    BY <1>5 DEF ConnTyped
  <2>6. ConnTyped'
    BY <2>1, <2>2, <2>4, <2>5, Zenon DEF ConnTyped
  <2> QED BY <2>3, <2>6
<1>11. WireGood(c)'
  <2>1. /\ stage'[c] = "responding" /\ wire'[c] = <<"head">>
        /\ call'[c] = "waiting" /\ result'[c] = "none"
    BY <1>5, <1>6, <1>7, <1>8 DEF ConnTyped
  <2>2. Len(wire'[c]) = 1
    BY <2>1
  <2> QED BY <2>1, <2>2 DEF WireGood
<1>12. AnswerGood(c)'
  <2>1. FromCopies(c)' = FromCopies(c)
    BY DEF FromCopies
  <2> QED BY <1>4, <1>5, <1>6, <1>9, <2>1 DEF AnswerGood
<1> QED
  BY <1>10, <1>11, <1>12, Frame

\* What follows a header is no header: the request that it answers stays the
\* same.
LEMMA SocketFrame ==
    ASSUME ConnInv, NEW c \in Connections,
           UNCHANGED <<data, call, asked, copies, result, response>>,
           NEW to \in {"open", "serving", "destroyed"},
           UNCHANGED stage \/ Become(c, to),
           UNCHANGED wire \/ Write(c, "raw") \/ Write(c, "body"),
           WireGood(c)'
    PROVE  ConnInv'
<1>1. AnswerGood(c) /\ ConnTyped /\ wire[c] \in Seq(Parts)
  BY DEF ConnInv, ConnTyped
<1>2. /\ stage' \in [Connections -> {"open", "serving", "responding", "destroyed"}]
      /\ \A d \in Connections \ {c} : stage'[d] = stage[d]
  <2>1. stage \in [Connections -> {"open", "serving", "responding", "destroyed"}]
    BY <1>1 DEF ConnTyped
  <2>2. CASE UNCHANGED stage
    BY <2>1, <2>2
  <2>3. CASE stage' = [stage EXCEPT ![c] = to]
    BY <2>1, <2>3
  <2> QED BY <2>2, <2>3 DEF Become
<1>3. /\ wire' \in [Connections -> Seq(Parts)]
      /\ \A d \in Connections \ {c} : wire'[d] = wire[d]
      /\ Started(c)' => Started(c)
  <2>1. CASE UNCHANGED wire
    BY <1>1, <2>1 DEF ConnTyped, Started
  <2>2. ASSUME NEW part \in {"raw", "body"}, Write(c, part)
        PROVE  /\ wire' \in [Connections -> Seq(Parts)]
               /\ \A d \in Connections \ {c} : wire'[d] = wire[d]
               /\ Started(c)' => Started(c)
    <3>1. wire' = [wire EXCEPT ![c] = Append(wire[c], part)] /\ part \in Parts
      BY <1>1, <2>2 DEF Write, ConnTyped, Parts
    <3>2. /\ Append(wire[c], part) \in Seq(Parts)
          /\ Append(wire[c], part)[Len(wire[c]) + 1] = part
          /\ \A i \in 1..Len(wire[c]) : Append(wire[c], part)[i] = wire[c][i]
      BY <1>1, <3>1, AppendFacts
    <3>3. wire'[c] = Append(wire[c], part)
      BY <1>1, <3>1 DEF ConnTyped
    <3>4. CASE wire[c] = <<>>
      BY <1>1, <2>2, <3>1, <3>2, <3>3, <3>4 DEF ConnTyped, Started
    <3>5. CASE wire[c] # <<>>
      <4>1. 1 \in 1..Len(wire[c])
        BY <1>1, <3>5
      <4> QED BY <1>1, <3>1, <3>2, <3>3, <3>5, <4>1 DEF ConnTyped, Started
    <3> QED BY <3>4, <3>5
  <2> QED BY <2>1, <2>2
<1>4. AnswerGood(c)'
  <2>1. FromCopies(c)' = FromCopies(c)
    BY DEF FromCopies
  <2> QED BY <1>1, <1>3, <2>1 DEF AnswerGood, Justified
<1> QED
  BY <1>1, <1>2, <1>3, <1>4, Frame DEF ConnTyped, Only

\* The server takes a request, or writes to its connection: the transport layer
\* stays out of a response that has started.
LEMMA ServerStep ==
    ASSUME ConnInv, NEW c \in Connections,
           UNCHANGED <<data, call, asked, copies, result, response>>,
           \/ Unanswered(c) /\ (Accept(c) \/ dropRequest(c))
           \/ EndResponse(c)
           \/ \E code \in Codes : handleHttpClientError(c, code)
    PROVE  ConnInv'
<1>1. WireGood(c) /\ ConnTyped /\ wire[c] \in Seq(Parts) /\ stage[c] = stage[c]
  BY DEF ConnInv, ConnTyped
<1>2. ASSUME NEW part \in Parts, Write(c, part)
      PROVE  /\ wire'[c] \in Seq(Parts) /\ Len(wire'[c]) = Len(wire[c]) + 1
             /\ wire'[c][Len(wire[c]) + 1] = part
             /\ \A i \in 1..Len(wire[c]) : wire'[c][i] = wire[c][i]
  <2>1. wire'[c] = Append(wire[c], part)
    BY <1>1, <1>2 DEF Write, ConnTyped
  <2> QED BY <1>1, <2>1, AppendFacts
<1>3. ASSUME NEW to \in {"open", "serving", "destroyed"}, Become(c, to)
      PROVE  stage'[c] = to
  BY <1>1, <1>3 DEF Become, ConnTyped
<1>4. CASE Unanswered(c) /\ Accept(c)
  <2>1. WireGood(c)'
    BY <1>1, <1>3, <1>4 DEF Unanswered, Accept, WireGood
  <2> QED BY <1>4, <2>1, SocketFrame DEF Accept
<1>5. CASE Unanswered(c) /\ dropRequest(c)
  <2>1. WireGood(c)'
    <3>1. wire'[c][1] = "raw" /\ Len(wire'[c]) = 1
      BY <1>1, <1>2, <1>5 DEF Unanswered, dropRequest, Parts
    <3> QED BY <1>1, <1>5, <3>1 DEF Unanswered, dropRequest, WireGood
  <2> QED BY <1>5, <2>1, SocketFrame DEF dropRequest
<1>6. CASE EndResponse(c)
  <2>1. WireGood(c)'
    <3>1. wire'[c][1] = "head" /\ wire'[c][2] = "body" /\ Len(wire'[c]) = 2
      <4>1. wire[c] = <<"head">> /\ Write(c, "body") /\ "body" \in Parts
        BY <1>1, <1>6 DEF EndResponse, WireGood, Parts
      <4>2. Len(wire[c]) = 1 /\ wire[c][1] = "head"
        BY <4>1
      <4> QED BY <1>2, <4>1, <4>2
    <3>2. stage'[c] = "open"
      BY <1>3, <1>6 DEF EndResponse
    <3> QED BY <1>1, <3>1, <3>2 DEF WireGood
  <2> QED BY <1>6, <2>1, SocketFrame DEF EndResponse
<1>7. ASSUME NEW code \in Codes, handleHttpClientError(c, code)
      PROVE  ConnInv'
  <2>1. /\ stage[c] # "destroyed" /\ Become(c, "destroyed")
        /\ (~hasSentResponse(c) /\ Write(c, "raw")) \/ UNCHANGED wire
    BY <1>7 DEF handleHttpClientError
  <2>2. stage'[c] = "destroyed"
    BY <1>3, <2>1
  <2>3. WireGood(c)'
    <3>1. CASE UNCHANGED wire
      BY <1>1, <2>2, <3>1 DEF WireGood
    <3>2. CASE ~hasSentResponse(c) /\ Write(c, "raw")
      <4>1. /\ wire'[c] \in Seq(Parts) /\ Len(wire'[c]) = Len(wire[c]) + 1
            /\ wire'[c][Len(wire[c]) + 1] = "raw"
            /\ \A i \in 1..Len(wire[c]) : wire'[c][i] = wire[c][i]
        BY <1>2, <3>2 DEF Parts
      <4>2. stage[c] \in {"open", "serving"}
        BY <1>1, <2>1, <3>2 DEF ConnTyped, hasSentResponse
      <4>3. ASSUME NEW i \in 1..(Len(wire'[c]) - 1), wire'[c][i + 1] = "raw"
            PROVE  wire'[c][i] # "head" \/ response'[c].status = "304"
        <5>1. CASE i < Len(wire[c])
          BY <1>1, <4>1, <4>3, <5>1 DEF WireGood
        <5>2. CASE i = Len(wire[c])
          <6>1. wire[c] # <<>> /\ wire'[c][i] = wire[c][Len(wire[c])]
            BY <1>1, <4>1, <4>3, <5>2
          <6>2. stage[c] = "open"
            BY <1>1, <4>2, <6>1 DEF WireGood
          <6> QED BY <1>1, <6>1, <6>2 DEF WireGood
        <5> QED BY <1>1, <4>1, <4>3, <5>1, <5>2
      <4> QED BY <1>1, <2>2, <4>3 DEF WireGood
    <3> QED BY <2>1, <3>1, <3>2
  <2> QED BY <2>1, <2>3, SocketFrame
<1> QED
  BY <1>4, <1>5, <1>6, <1>7

\* A call returns with what has arrived of the response to it.
LEMMA ReturnStep ==
    ASSUME ConnInv, NEW c \in Connections, Return(c)
    PROVE  ConnInv'
<1>1. WireGood(c) /\ AnswerGood(c) /\ ConnTyped /\ wire[c] \in Seq(Parts)
  BY DEF ConnInv, ConnTyped
<1>2. PICK received \in Received(c) :
          result' = [result EXCEPT ![c] = Outcome(c, received)]
  BY DEF Return
<1>3. Outcome(c, received) \in {"ok", "notModified", "apiError", "error"}
  BY DEF Outcome
<1>4. result'[c] = Outcome(c, received) /\ call'[c] = "none"
  BY <1>1, <1>2 DEF Return, ConnTyped
<1>5. stage[c] \in {"open", "destroyed"}
  BY <1>1 DEF Received, WireGood, ConnTyped
<1>6. received # <<>> /\ received[1] = "head" => Started(c)
  <2>1. CASE stage[c] = "destroyed"
    <3>1. PICK n \in 0..Len(wire[c]) : received = SubSeq(wire[c], 1, n)
      BY <2>1 DEF Received
    <3> QED BY <1>1, <3>1, PrefixFacts DEF Started
  <2>2. CASE stage[c] = "open"
    BY <2>2 DEF Received, Started
  <2> QED BY <1>5, <2>1, <2>2
<1>7. /\ result'[c] = "notModified" => response[c].status = "304"
      /\ result'[c] = "apiError" => response[c].status = "error"
      /\ result'[c] = "ok" => response[c].status = "200"
  BY <1>1, <1>4, <1>6 DEF Outcome, AnswerGood
<1>8. /\ copies[c] \subseteq copies'[c]
      /\ \A copy \in copies'[c] : copy.etag = createWeakEntityTag(copy.body)
      /\ \A d \in Connections \ {c} : copies'[d] = copies[d]
      /\ copies' = [d \in Connections |-> copies'[d]]
  <2>1. CASE result'[c] = "ok"
    <3>1. copies' = [copies EXCEPT ![c] = @ \cup
              {[etag |-> response[c].etag, body |-> response[c].body]}]
      BY <2>1 DEF Return
    <3>2. copies'[c] = copies[c] \cup
              {[etag |-> response[c].etag, body |-> response[c].body]}
      BY <1>1, <3>1 DEF ConnTyped
    <3>3. response[c].etag = createWeakEntityTag(response[c].body)
      BY <1>1, <1>7, <2>1 DEF AnswerGood
    <3>4. \A copy \in copies'[c] : copy.etag = createWeakEntityTag(copy.body)
      BY <1>1, <3>2, <3>3 DEF AnswerGood
    <3> QED BY <1>1, <3>1, <3>2, <3>4 DEF ConnTyped
  <2>2. CASE result'[c] # "ok"
    <3>1. copies' = copies
      BY <2>2 DEF Return
    <3> QED BY <1>1, <3>1 DEF AnswerGood, ConnTyped
  <2> QED BY <2>1, <2>2
<1>9. FromCopies(c)'
  <2>1. FromCopies(c) /\ copies[c] \subseteq copies'[c] /\ asked'[c] = asked[c]
    BY <1>1, <1>8 DEF AnswerGood, Return
  <2> QED BY <2>1 DEF FromCopies
<1>10. WireGood(c)'
  BY <1>1, <1>4, <1>5 DEF Return, serverVars, sockets, WireGood
<1>11. AnswerGood(c)'
  <2>1. Started(c)' = Started(c) /\ response'[c] = response[c] /\ asked'[c] = asked[c]
    BY DEF Return, serverVars, sockets, Started
  <2>2. Justified(c) => Justified(c)'
    BY <1>8, <2>1 DEF Justified
  <2> QED BY <1>1, <1>7, <1>8, <1>9, <2>1, <2>2 DEF AnswerGood
<1>12. ConnTyped'
  BY <1>1, <1>2, <1>3, <1>8 DEF ConnTyped, Return, serverVars, sockets
<1>13. Only(c)
  BY <1>1, <1>2, <1>8 DEF ConnTyped, Return, serverVars, sockets, Only
<1> QED
  BY <1>10, <1>11, <1>12, <1>13, Frame
\* Every step keeps the connections.
LEMMA ConnStep == ConnInv /\ [ClientNext]_clientVars => ConnInv'
<1> SUFFICES ASSUME ConnInv, [ClientNext]_clientVars PROVE ConnInv'
  OBVIOUS
<1>1. ASSUME NEW c \in Connections, ClientStep(c) PROVE ConnInv'
  BY <1>1, RequestStep, ReturnStep, EnvelopeStep, ErrorStep, ServerStep DEF ClientStep
<1>2. ASSUME UNCHANGED <<sockets, client>>, data' \in Versions PROVE ConnInv'
  <2>1. UNCHANGED <<stage, wire, call, asked, response, copies, result>>
    BY <1>2 DEF sockets, client
  <2>2. ConnTyped'
    BY <1>2, <2>1 DEF ConnInv, ConnTyped
  <2>3. ASSUME NEW c \in Connections PROVE WireGood(c)' /\ AnswerGood(c)'
    <3>1. WireGood(c) /\ AnswerGood(c)
      BY DEF ConnInv
    <3>2. WireGood(c)'
      BY <2>1, <3>1 DEF WireGood
    <3>3. AnswerGood(c)'
      BY <2>1, <3>1 DEF AnswerGood, Started, Justified, FromCopies
    <3> QED BY <3>2, <3>3
  <2> QED BY <2>2, <2>3 DEF ConnInv
<1>3. CASE Change
  BY <1>2, <1>3 DEF Change, serverVars
<1>4. CASE (Tick \/ StepBack) /\ UNCHANGED <<data, client>>
  BY <1>2, <1>4 DEF Tick, StepBack, ConnInv, ConnTyped
<1>5. CASE UNCHANGED clientVars
  BY <1>2, <1>5 DEF clientVars, serverVars, ConnInv, ConnTyped
<1> QED
  BY <1>1, <1>3, <1>4, <1>5 DEF ClientNext

\* At first nothing is written and nothing is known.
LEMMA InitConn == ASSUME ClientInit PROVE ConnInv
<1> USE DEF ClientInit, ServerInit
<1>1. ConnTyped
  BY DEF ConnTyped
<1>2. ASSUME NEW c \in Connections PROVE WireGood(c) /\ AnswerGood(c)
  BY DEF WireGood, AnswerGood, Started, FromCopies
<1> QED
  BY <1>1, <1>2 DEF ConnInv

\* Type correctness of the transport layer and its clients, and the settings in
\* force: headers are due before their request, in every environment.
THEOREM ClientTypeCorrect == ClientSpec => []ClientTypeOK
<1>1. ClientInit => LogInv /\ ConnInv
  BY InitLog, InitConn DEF ClientInit
<1>2. LogInv /\ ConnInv => ClientTypeOK
  BY DEF LogInv, LogTyped, ConnInv, ConnTyped, WireGood, Parts, ClientTypeOK, ServerTypeOK
<1> QED
  BY <1>1, <1>2, LogStep, ConnStep, PTL DEF ClientSpec

\* The transport layer's own answer never lands in a response that has started,
\* whenever the parser fails or a deadline passes.
THEOREM IntactResponses == ClientSpec => []ResponsesIntact
<1>1. ClientInit => ConnInv
  BY InitConn
<1>2. ConnInv => ResponsesIntact
  BY DEF ConnInv, WireGood, ResponsesIntact
<1> QED
  BY <1>1, <1>2, ConnStep, PTL DEF ClientSpec

\* An application that is told "not modified" has the present contents, whatever
\* happened to its tag on the way, to the contents and to the connection.
THEOREM CurrentCopies == ClientSpec => []CopyCurrent
<1>1. ClientInit => ConnInv
  BY InitConn
<1>2. ConnInv => CopyCurrent
  BY DEF ConnInv, AnswerGood, Justified, CopyCurrent
<1> QED
  BY <1>1, <1>2, ConnStep, PTL DEF ClientSpec

\* The Retry-After of an error is bounded and never cuts the provider's demand
\* short but by the bound, for every value the provider or the circuit gives.
THEOREM HonestRetryHints == ClientSpec => []RetryHintHonest
<1>1. ClientInit => ConnInv
  BY InitConn
<1>2. ConnInv => RetryHintHonest
  <2> SUFFICES ASSUME ConnInv, NEW c \in Connections, result[c] = "apiError"
               PROVE  Honest(response[c].hint, response[c].retryAfter)
    BY DEF RetryHintHonest, Honest
  <2> QED BY DEF ConnInv, AnswerGood
<1> QED
  BY <1>1, <1>2, ConnStep, PTL DEF ClientSpec
=============================================================================
