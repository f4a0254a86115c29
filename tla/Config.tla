-------------------------------- MODULE Config --------------------------------
(***************************************************************************)
(* The numeric settings: what the process makes of the environment         *)
(* (src/config/numbers.ts and the modules of src/config that use it).      *)
(*                                                                         *)
(* A raw value is a variable of the environment, reduced to what Number()  *)
(* makes of it: unset, blank, not a number, or a number.                   *)
(***************************************************************************)
EXTENDS Integers

CONSTANT MaxSafe    \* Number.MAX_SAFE_INTEGER

ASSUME MaxSafeAssumption == MaxSafe \in Nat /\ MaxSafe >= 300000

Unset == [form |-> "unset", value |-> 0]
Blank == [form |-> "blank", value |-> 0]
Junk == [form |-> "junk", value |-> 0]
Numeral(n) == [form |-> "number", value |-> n]
Raws == {Unset, Blank, Junk} \cup [form : {"number"}, value : Int]

AtMost(maximum, n) == IF n < maximum THEN n ELSE maximum
AtLeast(minimum, n) == IF n > minimum THEN n ELSE minimum

\* Unset and blank values fall back, and so do values that are no safe integer
\* or are negative; an unset value takes the maximum into account.
resolveNonNegativeIntegerEnv(raw, fallback, maximum) ==
    IF raw = Unset THEN AtMost(maximum, fallback)
    ELSE IF raw.form = "number" /\ raw.value \in 0..MaxSafe
         THEN AtMost(maximum, raw.value) ELSE fallback

resolvePositiveIntegerEnv(raw, fallback, maximum) ==
    LET value == resolveNonNegativeIntegerEnv(raw, fallback, maximum)
    IN  IF value > 0 THEN value ELSE fallback

-----------------------------------------------------------------------------
(* The HTTP server                                                         *)

resolveServerRequestTimeoutMs(raw) == resolvePositiveIntegerEnv(raw, 75000, 120000)

\* Mutant: the request timeout does not bound the headers timeout.
resolveServerHeadersTimeoutMs_Independent(raw, requestTimeoutMs) ==
    resolvePositiveIntegerEnv(raw, 10000, 60000)

resolveServerHeadersTimeoutMs(raw, requestTimeoutMs) ==
    LET maximum == AtMost(60000, requestTimeoutMs)
    IN  resolvePositiveIntegerEnv(raw, AtMost(10000, maximum), maximum)

resolveServerMaxRequestsPerSocket(raw) == resolveNonNegativeIntegerEnv(raw, 1000, 10000)

resolveHttpServerSettings(env) ==
    LET requestTimeout ==
            resolveServerRequestTimeoutMs(env["SERVER_REQUEST_TIMEOUT_MS"])
    IN  [requestTimeout |-> requestTimeout,
         headersTimeout |-> resolveServerHeadersTimeoutMs(
             env["SERVER_HEADERS_TIMEOUT_MS"], requestTimeout),
         maxRequestsPerSocket |-> resolveServerMaxRequestsPerSocket(
             env["SERVER_MAX_REQUESTS_PER_SOCKET"])]

resolveHttpServerLogSettings(env) ==
    [burst |-> resolvePositiveIntegerEnv(env["SERVER_TRANSPORT_LOG_BURST"], 10, 100),
     windowMs |-> resolvePositiveIntegerEnv(
         env["SERVER_TRANSPORT_LOG_WINDOW_MS"], 60000, 300000)]

-----------------------------------------------------------------------------
(* The cache-miss lease                                                    *)

resolveCacheLeaseTtlMs(raw) == resolvePositiveIntegerEnv(raw, 5000, 30000)

resolveCacheLeaseHeartbeatMs(raw, leaseTtlMs) ==
    LET half == AtLeast(1, leaseTtlMs \div 2)
        maximum == AtMost(15000, half)
    IN  AtMost(maximum, resolvePositiveIntegerEnv(raw, half, maximum))

-----------------------------------------------------------------------------
(* The provider calls                                                      *)

retryAttempts(raw) == resolveNonNegativeIntegerEnv(raw, 1, 3)
retryBaseDelayMs(raw) == resolvePositiveIntegerEnv(raw, 100, 2000)

\* The jitter is a number of thousandths from 500 to 1500, the attempt at most
\* the second retry; Math.round rounds up from a half.
retryDelayMs(base, attempt, jitter) ==
    LET exponential == AtMost(2000, base * <<1, 2, 4>>[attempt + 1])
    IN  AtLeast(1, (exponential * jitter + 500) \div 1000)
=============================================================================
