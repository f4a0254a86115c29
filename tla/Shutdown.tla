------------------------------- MODULE Shutdown -------------------------------
(***************************************************************************)
(* Graceful shutdown: the handler of SIGTERM and SIGINT, the draining and  *)
(* abort flags it raises, the HTTP server it closes, the cleanup of the    *)
(* stores, and the deadline that forces the exit                           *)
(* (src/runtime/shutdown.ts, src/runtime/lifecycle.ts, src/server.ts).     *)
(*                                                                         *)
(* Callbacks, timers and the answers of the stores come in any order, but  *)
(* a queued promise reaction runs before any of them.  process.exit ends   *)
(* the process at once: what is queued then never happens.                 *)
(***************************************************************************)
EXTENDS Integers

CONSTANTS
    Requests,   \* HTTP requests
    Timeout     \* SHUTDOWN_TIMEOUT_MS, in ticks

ASSUME TimeoutAssumption == Timeout \in Nat \ {0}

VARIABLES
    draining,       \* lifecycle.draining; the handler has started
    aborted,        \* shutdownSignal().aborted
    timeoutLeft,    \* time until forceExit runs, or NoTimer
    finalized,
    forced,
    cleanup,        \* how far the cleanup is
    cleanupExit,    \* the exit code it ends with, or NoExit
    exitCode,       \* how the process has exited, or NoExit
    closeFailed,    \* server.close has reported an error
    request,        \* where a request is
    elapsed         \* time since the first signal, saturating past Timeout

flags == <<draining, aborted, timeoutLeft, finalized, forced>>
cleaning == <<cleanup, cleanupExit>>
vars == <<flags, cleaning, exitCode, closeFailed, request, elapsed>>

NoTimer == -1
NoExit == -1

\* cleanupStarted is cleanup # "none", cleanupCompleted is cleanup = "settled".
CleanupSteps == {"none", "queued", "cache", "rateLimit", "tracing", "settled"}

TypeOK ==
    /\ draining \in BOOLEAN /\ aborted \in BOOLEAN /\ finalized \in BOOLEAN
    /\ forced \in BOOLEAN /\ closeFailed \in BOOLEAN
    /\ timeoutLeft \in {NoTimer} \cup 0..Timeout
    /\ cleanup \in CleanupSteps
    /\ cleanupExit \in {NoExit, 0, 1}
    /\ exitCode \in {NoExit, 0, 1}
    /\ request \in [Requests -> {"none", "active", "finished", "killed"}]
    /\ elapsed \in 0..(Timeout + 1)
    \* a process that goes on has not been forced, and is finalized exactly when
    \* its cleanup is under way
    /\ exitCode = NoExit => /\ ~forced /\ cleanup # "settled"
                            /\ (finalized <=> cleanup # "none")

Init ==
    /\ draining = FALSE /\ aborted = FALSE
    /\ timeoutLeft = NoTimer
    /\ finalized = FALSE /\ forced = FALSE
    /\ cleanup = "none" /\ cleanupExit = NoExit /\ exitCode = NoExit
    /\ closeFailed = FALSE
    /\ request = [r \in Requests |-> "none"]
    /\ elapsed = 0

Running == exitCode = NoExit
Active(r) == request[r] = "active"

-----------------------------------------------------------------------------
(* createShutdownHandler                                                   *)

\* Mutant: a repeated signal starts the shutdown again.
shutdown_Repeats ==
    /\ Running
    /\ draining' = TRUE
    /\ timeoutLeft' = Timeout
    /\ UNCHANGED <<aborted, finalized, forced, cleaning, exitCode, closeFailed,
                   request, elapsed>>

\* The first signal: drain, arm the deadline and close the server, which from
\* then on accepts no connection.  Repeated signals are logged, no more.
shutdown ==
    /\ Running /\ ~draining
    /\ draining' = TRUE
    /\ timeoutLeft' = Timeout
    /\ UNCHANGED <<aborted, finalized, forced, cleaning, exitCode, closeFailed,
                   request, elapsed>>

startCleanup(code) ==
    IF cleanup = "none" THEN cleanup' = "queued" /\ cleanupExit' = code
                        ELSE UNCHANGED cleaning

\* Mutant: the callback stops the timer, as if nothing could hang any more.
finish_StopsTimer(failed) ==
    /\ ~finalized
    /\ finalized' = TRUE
    /\ closeFailed' = failed
    /\ startCleanup(IF failed THEN 1 ELSE 0)
    /\ timeoutLeft' = NoTimer
    /\ UNCHANGED <<draining, aborted, forced, exitCode, request, elapsed>>

\* Mutant: an error of server.close is not reported.
finish_IgnoresError(failed) ==
    /\ ~finalized
    /\ finalized' = TRUE
    /\ closeFailed' = failed
    /\ startCleanup(0)
    /\ UNCHANGED <<draining, aborted, timeoutLeft, forced, exitCode, request, elapsed>>

finish(failed) ==
    /\ ~finalized
    /\ finalized' = TRUE
    /\ closeFailed' = failed
    /\ startCleanup(IF failed THEN 1 ELSE 0)
    /\ UNCHANGED <<draining, aborted, timeoutLeft, forced, exitCode, request, elapsed>>

\* Mutant: the server counts as closed once it stops accepting connections.
Closed_Early == Running /\ draining /\ finish(FALSE)

\* server.close calls back once every connection has ended.
Closed ==
    /\ Running /\ draining /\ \A r \in Requests : ~Active(r)
    /\ finish(FALSE)

\* server.close throws or calls back with an error.
CloseFails == Running /\ draining /\ finish(TRUE)

\* Mutant: the deadline does not exit itself, but leaves it to the cleanup.
forceExit_CleansFirst ==
    /\ Running /\ timeoutLeft = 0 /\ cleanup # "queued"
    /\ forced' = TRUE /\ finalized' = TRUE /\ aborted' = TRUE
    /\ timeoutLeft' = NoTimer
    /\ request' = [r \in Requests |-> IF Active(r) THEN "killed" ELSE request[r]]
    /\ startCleanup(1)
    /\ UNCHANGED <<draining, exitCode, closeFailed, elapsed>>

\* The deadline.  The cleanup it starts is only queued when the process exits.
forceExit ==
    /\ Running /\ timeoutLeft = 0 /\ cleanup # "queued"
    /\ forced' = TRUE /\ finalized' = TRUE /\ aborted' = TRUE
    /\ timeoutLeft' = NoTimer
    /\ request' = [r \in Requests |-> IF Active(r) THEN "killed" ELSE request[r]]
    /\ startCleanup(NoExit)
    /\ exitCode' = 1
    /\ UNCHANGED <<draining, closeFailed, elapsed>>

-----------------------------------------------------------------------------
(* The cleanup of server.ts                                                *)

Advance(from, to) ==
    /\ Running /\ cleanup = from
    /\ cleanup' = to
    /\ UNCHANGED <<flags, cleanupExit, exitCode, closeFailed, request, elapsed>>

\* The queued reaction calls it.
CleanupStarts == Advance("queued", "cache")

\* A store has been disconnected, or has failed to; the next one is.
CleanupStep == Advance("cache", "rateLimit") \/ Advance("rateLimit", "tracing")

\* Tracing is shut down, and the last reaction exits.
CleanupSettles ==
    /\ Running /\ cleanup = "tracing"
    /\ cleanup' = "settled"
    /\ timeoutLeft' = NoTimer
    /\ exitCode' = IF cleanupExit # NoExit /\ ~forced THEN cleanupExit ELSE exitCode
    /\ UNCHANGED <<draining, aborted, finalized, forced, cleanupExit, closeFailed,
                   request, elapsed>>

-----------------------------------------------------------------------------
(* The surroundings                                                        *)

\* A request arrives while the server accepts connections.
Accept(r) ==
    /\ Running /\ ~draining /\ request[r] = "none"
    /\ request' = [request EXCEPT ![r] = "active"]
    /\ UNCHANGED <<flags, cleaning, exitCode, closeFailed, elapsed>>

\* It is answered and its connection ends.
Complete(r) ==
    /\ Running /\ Active(r)
    /\ request' = [request EXCEPT ![r] = "finished"]
    /\ UNCHANGED <<flags, cleaning, exitCode, closeFailed, elapsed>>

\* A due timer and a due callback of server.close run before time goes on.
Tick ==
    /\ Running /\ draining /\ timeoutLeft # 0 /\ cleanup # "queued"
    /\ finalized \/ \E r \in Requests : Active(r)
    /\ timeoutLeft' = IF timeoutLeft = NoTimer THEN NoTimer ELSE timeoutLeft - 1
    /\ elapsed' = IF elapsed <= Timeout THEN elapsed + 1 ELSE elapsed
    /\ UNCHANGED <<draining, aborted, finalized, forced, cleaning, exitCode,
                   closeFailed, request>>

-----------------------------------------------------------------------------
Next ==
    \/ shutdown \/ Closed \/ CloseFails \/ forceExit
    \/ CleanupStarts \/ CleanupStep \/ CleanupSettles
    \/ \E r \in Requests : Accept(r) \/ Complete(r)
    \/ Tick

Spec == Init /\ [][Next]_vars

\* The clock runs, due timers fire, due callbacks and queued reactions run.
\* Requests need not end, and the stores need not disconnect.
Fairness ==
    /\ WF_vars(Tick) /\ WF_vars(forceExit)
    /\ WF_vars(Closed) /\ WF_vars(CleanupStarts)

FairSpec == Spec /\ Fairness

-----------------------------------------------------------------------------
(* Properties                                                              *)

\* Exit status 0 says that every request was answered, no provider work was
\* aborted, the server closed without an error and the cleanup is done.
CleanExit ==
    exitCode = 0 =>
        /\ \A r \in Requests : request[r] \in {"none", "finished"}
        /\ ~aborted /\ ~closeFailed
        /\ cleanup = "settled"

\* "The existing SHUTDOWN_TIMEOUT_MS setting is the single deadline": whatever
\* hangs, and however often the signal is repeated, the process has exited by it.
DeadlineMet == Running => elapsed <= Timeout

\* "lets active HTTP requests finish, and aborts outbound provider work only when
\* SHUTDOWN_TIMEOUT_MS expires": until then nothing is aborted, and the stores
\* stay connected while a request may need them, unless the server cannot close.
RequestsSpared ==
    /\ aborted \/ (\E r \in Requests : request[r] = "killed") => elapsed = Timeout
    /\ cleanup # "none" /\ ~closeFailed /\ Running => \A r \in Requests : ~Active(r)

\* Once a signal has arrived the process exits.
Exits == draining ~> ~Running

(* Stated by the documentation                                             *)

\* "On shutdown the server closes the cache and rate-limit Redis connections":
\* the process does not exit before it has called for it.
ConnectionsClosed == ~Running => cleanup \notin {"none", "queued"}
=============================================================================
