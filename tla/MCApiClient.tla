----------------------------- MODULE MCApiClient -----------------------------
(* The client and the server on a small instance: a headers timeout that is *)
(* unset and limited by its request timeout, a limit that is no safe        *)
(* integer, a small log budget, and Retry-After values that are negative,   *)
(* above the cap and around a second.  Contents are interchangeable.        *)
EXTENDS ApiClient, TLC

Env(requestTimeout, headersTimeout) ==
    [SERVER_REQUEST_TIMEOUT_MS |-> requestTimeout,
     SERVER_HEADERS_TIMEOUT_MS |-> headersTimeout,
     SERVER_MAX_REQUESTS_PER_SOCKET |-> Numeral(2000001),
     SERVER_TRANSPORT_LOG_BURST |-> Numeral(1),
     SERVER_TRANSPORT_LOG_WINDOW_MS |-> Numeral(2)]

SmallEnvironments == {Env(Numeral(5000), Unset)}
SmallHints == {Seconds(-1), Seconds(100000), Date(1), Date(-1001)}

Symmetry == Permutations(Versions)

\* The jittered backoff of a retry, for every setting: at least a millisecond,
\* and at most half more than MAX_RETRY_DELAY_MS.
ASSUME BackoffBounded ==
    \A base \in 1..2000, attempt \in 0..2, jitter \in {500, 501, 999, 1000, 1500} :
        retryDelayMs(base, attempt, jitter) \in 1..3000
=============================================================================
