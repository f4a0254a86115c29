------------------------------ MODULE HttpServer ------------------------------
(***************************************************************************)
(* The transport layer of the HTTP server: what becomes of a connection    *)
(* whose input cannot be parsed, is late or exceeds the requests of a      *)
(* socket, and the budget of warnings about it                             *)
(* (src/runtime/httpServerEvents.ts, src/config/httpServer.ts).            *)
(*                                                                         *)
(* The limiter reads the wall clock, which Tick advances and StepBack sets *)
(* back.  Only the time since a window began matters, and only up to       *)
(* windowMs + MaxBack: the steps that are left cannot bring a window that  *)
(* old back into force.  An event that has no window yet is like one whose *)
(* window is over.                                                         *)
(***************************************************************************)
EXTENDS Config, Sequences, FiniteSets

CONSTANTS
    Connections,    \* sockets of the server
    Codes,          \* error.code of a clientError
    Environments,   \* values of the process' environment
    MaxBack,        \* bound on the steps back of the wall clock
    MaxEvents       \* bound on transport events

Names == {"SERVER_REQUEST_TIMEOUT_MS", "SERVER_HEADERS_TIMEOUT_MS",
          "SERVER_MAX_REQUESTS_PER_SOCKET", "SERVER_TRANSPORT_LOG_BURST",
          "SERVER_TRANSPORT_LOG_WINDOW_MS"}

ASSUME EnvironmentsAssumption == Environments \subseteq [Names -> Raws]
ASSUME MaxBackAssumption == MaxBack \in Nat

VARIABLES
    settings,   \* the resolved settings of the server and of its log
    warns,      \* logger.isLevelEnabled("warn")
    states,     \* HttpServerLogLimiter.states, of each event
    totals,     \* the counters of each event, and what its warnings report
    recent,     \* its warnings of the last windowMs, with their real age
    backs,      \* steps back of the wall clock left
    happened,   \* transport events so far
    stage,      \* what the server does with a connection
    wire        \* what it has written of the present response

log == <<states, totals, recent>>
sockets == <<stage, wire>>
serverVars == <<settings, warns, log, backs, happened, sockets>>

classifyHttpClientError(code) ==
    CASE code = "ERR_HTTP_REQUEST_TIMEOUT" -> "request_timeout"
      [] code = "HPE_HEADER_OVERFLOW" -> "header_overflow"
      [] code = "HPE_CHUNK_EXTENSIONS_OVERFLOW" -> "chunk_extensions_overflow"
      [] OTHER -> "client_error"

Events == {classifyHttpClientError(code) : code \in Codes} \cup {"dropped_request"}

burst == settings.log.burst
windowMs == settings.log.windowMs
Ages == 0..(windowMs - 1)

ServerTypeOK ==
    /\ settings.http.headersTimeout \in 1..settings.http.requestTimeout
    /\ burst \in Nat \ {0} /\ windowMs \in Nat \ {0}
    /\ backs \in 0..MaxBack
    /\ states \in [Events -> [since : (backs - MaxBack)..(windowMs + MaxBack),
                              emitted : 0..burst, suppressed : Nat]]
    /\ totals \in [Events -> [events : Nat, warnings : Nat,
                              suppressed : Nat, reported : Nat]]
    /\ stage \in [Connections -> {"open", "serving", "responding", "destroyed"}]
    /\ wire \in [Connections -> Seq({"raw", "head", "body"})]

ServerInit ==
    /\ \E env \in Environments :
          settings = [http |-> resolveHttpServerSettings(env),
                      log |-> resolveHttpServerLogSettings(env)]
    /\ warns \in BOOLEAN
    /\ states = [e \in Events |->
                    [since |-> windowMs + MaxBack, emitted |-> 0, suppressed |-> 0]]
    /\ totals = [e \in Events |->
                    [events |-> 0, warnings |-> 0, suppressed |-> 0, reported |-> 0]]
    /\ recent = [e \in Events |-> {}]
    /\ backs = MaxBack
    /\ happened = 0
    /\ stage = [c \in Connections |-> "open"]
    /\ wire = [c \in Connections |-> <<>>]

-----------------------------------------------------------------------------
(* The budget of warnings                                                  *)

Over(state) == state.since >= windowMs
Emits(state) == Over(state) \/ state.emitted < burst

\* Mutant: the count of suppressed warnings outlives its report.
take_KeepsSuppressed(state) ==
    IF Over(state) THEN [state EXCEPT !.since = 0, !.emitted = 1]
    ELSE IF Emits(state) THEN [state EXCEPT !.emitted = @ + 1]
    ELSE [state EXCEPT !.suppressed = @ + 1]

\* Mutant: the first warning of a window is not counted.
take_FirstFree(state) ==
    IF Over(state) THEN [since |-> 0, emitted |-> 0, suppressed |-> 0]
    ELSE IF Emits(state) THEN [state EXCEPT !.emitted = @ + 1]
    ELSE [state EXCEPT !.suppressed = @ + 1]

\* The limiter's state after an event: a new window, one more warning, or one
\* more that is suppressed.
take(state) ==
    IF Over(state) THEN [since |-> 0, emitted |-> 1, suppressed |-> 0]
    ELSE IF Emits(state) THEN [state EXCEPT !.emitted = @ + 1]
    ELSE [state EXCEPT !.suppressed = @ + 1]

\* logHttpServerEvent, after the event has been counted: a disabled level keeps
\* the limiter out of it.  The first warning of a window reports the suppressed.
logHttpServerEvent(e) ==
    LET state == states[e]
        warning == warns /\ Emits(state)
    IN  /\ states' = IF warns THEN [states EXCEPT ![e] = take(state)] ELSE states
        /\ totals' = [totals EXCEPT ![e] =
              [events |-> @.events + 1,
               warnings |-> IF warning THEN @.warnings + 1 ELSE @.warnings,
               suppressed |-> IF warns /\ ~warning
                              THEN @.suppressed + 1 ELSE @.suppressed,
               reported |-> IF warning /\ Over(state)
                            THEN @.reported + state.suppressed ELSE @.reported]]
        /\ recent' = IF warning
                     THEN [recent EXCEPT ![e] = @ \cup
                             {[nr |-> totals[e].warnings + 1, age |-> 0]}]
                     ELSE recent

\* A transport event is counted and logged.
Observe(e) ==
    /\ happened < MaxEvents
    /\ happened' = happened + 1
    /\ logHttpServerEvent(e)
    /\ UNCHANGED <<settings, warns, backs>>

-----------------------------------------------------------------------------
(* The connections                                                         *)

Write(c, part) == wire' = [wire EXCEPT ![c] = Append(@, part)]
Become(c, to) == stage' = [stage EXCEPT ![c] = to]

\* socket._httpMessage has sent its header.
hasSentResponse(c) == stage[c] = "responding"

\* Mutant: a response that has started is not noticed.
handleHttpClientError_Interrupts(c, code) ==
    /\ stage[c] # "destroyed"
    /\ Observe(classifyHttpClientError(code))
    /\ Write(c, "raw") \/ UNCHANGED wire
    /\ Become(c, "destroyed")

\* The parser's default response is reproduced, unless the socket cannot be
\* written or a response has started; the socket is destroyed in any case.
handleHttpClientError(c, code) ==
    /\ stage[c] # "destroyed"
    /\ Observe(classifyHttpClientError(code))
    /\ \/ ~hasSentResponse(c) /\ Write(c, "raw")
       \/ UNCHANGED wire
    /\ Become(c, "destroyed")

\* dropRequest: beyond the requests of a socket, Node answers 503 by itself.
dropRequest(c) ==
    /\ stage[c] = "open" /\ settings.http.maxRequestsPerSocket > 0
    /\ Observe("dropped_request")
    /\ Write(c, "raw")
    /\ UNCHANGED stage

\* A complete request reaches the application.
Accept(c) ==
    /\ stage[c] = "open"
    /\ Become(c, "serving")
    /\ UNCHANGED <<settings, warns, log, backs, happened, wire>>

\* The response starts; without a body it is complete.  Nothing is written to a
\* socket that has been destroyed.
StartResponse(c, bodyless) ==
    /\ stage[c] = "serving"
    /\ Write(c, "head")
    /\ Become(c, IF bodyless THEN "open" ELSE "responding")
    /\ UNCHANGED <<settings, warns, log, backs, happened>>

\* The rest of the response has been written.
EndResponse(c) ==
    /\ stage[c] = "responding"
    /\ Write(c, "body")
    /\ Become(c, "open")
    /\ UNCHANGED <<settings, warns, log, backs, happened>>

-----------------------------------------------------------------------------
(* The clock                                                               *)

Shift(elapsed) ==
    states' = [e \in Events |-> [states[e] EXCEPT !.since =
                  AtMost(windowMs + MaxBack, @ + elapsed)]]

\* Warnings a tick later, those of more than windowMs left out.
Older(warnings) ==
    {[w EXCEPT !.age = @ + 1] : w \in {w \in warnings : w.age + 1 \in Ages}}

Tick ==
    /\ Shift(1)
    /\ recent' = [e \in Events |-> Older(recent[e])]
    /\ UNCHANGED <<settings, warns, totals, backs, happened, sockets>>

\* The wall clock is set back.
StepBack ==
    /\ backs > 0 /\ backs' = backs - 1
    /\ Shift(-1)
    /\ UNCHANGED <<settings, warns, totals, recent, happened, sockets>>

-----------------------------------------------------------------------------
(* Properties                                                              *)

\* "every event increments news_http_server_events_total, while suppressed
\* warnings increment news_http_server_log_suppressed_total.  The next warning
\* after a window rollover reports only how many warnings were suppressed":
\* every event is a warning or suppressed, and every suppressed one has been
\* reported once or waits to be.
SuppressionAccounted ==
    \A e \in Events :
        /\ totals[e].suppressed = totals[e].reported + states[e].suppressed
        /\ warns => totals[e].events = totals[e].warnings + totals[e].suppressed

\* Whatever the wall clock does backwards, any windowMs of real time see at most
\* the budgets of two windows.
WarningsBounded ==
    \A e \in Events : Cardinality(recent[e]) <= 2 * burst
=============================================================================
