------------------------------ MODULE RateLimit ------------------------------
(***************************************************************************)
(* The shared request quota: the rate-limit middleware of every replica,   *)
(* its readiness probe, the command runner both go through, the Redis      *)
(* connection of a replica, and the one hit counter of a client in Redis   *)
(* (src/middleware/rateLimit.ts, src/redis/commandRunner.ts).              *)
(*                                                                         *)
(* Hits are counted up to Limit + 1, all that a decision can tell apart.   *)
(* A ready or end event and the commands or rejections it releases are one *)
(* step: promise reactions run before the next event of the connection.    *)
(***************************************************************************)
EXTENDS Integers, FiniteSets

CONSTANTS
    Requests,       \* requests of one client, each served once
    Replicas,       \* processes
    Limit,          \* RATE_LIMIT_MAX
    Window,         \* RATE_LIMIT_WINDOW_MS, in ticks
    Connect,        \* the connection timeout, in ticks
    Command,        \* the command timeout, in ticks
    MaxCommands     \* commands the store sends at most for one request

ASSUME RequestsAssumption == IsFiniteSet(Requests)
ASSUME LimitAssumption == Limit \in Nat \ {0}
ASSUME TimesAssumption ==
    Window \in Nat \ {0} /\ Connect \in Nat \ {0} /\ Command \in Nat \ {0}
ASSUME MaxCommandsAssumption == MaxCommands \in Nat \ {0}

VARIABLES
    conn,           \* client.status of a replica, its transient states as one
    hits,           \* the counter in Redis
    windowLeft,     \* the time it has left
    pc,             \* where the check of a request is, and how it ended
    kind,           \* an API request, or a probe of /ready
    server,         \* the replica that serves it
    count,          \* the hit Redis has counted for it
    current,        \* that hit belongs to the current window
    commands,       \* during a check, the commands sent for it,
    timer,          \* what is left of the timeout it waits under,
    age             \* and the time since it arrived

counter == <<hits, windowLeft>>
check == <<commands, timer, age>>
request == <<pc, kind, server, count, current, check>>
vars == <<conn, counter, request>>

Ended == {"passed", "limited", "refused", "ready"}
InFlight(r) == pc[r] \in {"sent", "executed", "lost"}
Checking(r) == pc[r] = "waiting" \/ InFlight(r)

\* A waiter waits for a connection that may still come, each timer within its budget.
TypeOK ==
    /\ conn \in [Replicas -> {"connecting", "ready", "end"}]
    /\ hits \in 0..(Limit + 1) /\ windowLeft \in 0..Window
    /\ (hits = 0 <=> windowLeft = 0)
    /\ pc \in [Requests -> {"idle", "waiting", "sent", "executed", "lost"} \cup Ended]
    /\ kind \in [Requests -> {"api", "probe"}]
    /\ server \in [Requests -> Replicas]
    /\ commands \in [Requests -> 0..MaxCommands]
    /\ count \in [Requests -> 0..(Limit + 1)]
    /\ current \in [Requests -> BOOLEAN]
    /\ timer \in [Requests -> Nat]
    /\ age \in [Requests -> Nat]
    /\ \A r \in Requests :
          /\ pc[r] = "waiting" => conn[server[r]] = "connecting" /\ timer[r] <= Connect
          /\ InFlight(r) => conn[server[r]] # "end" /\ timer[r] <= Command

Init ==
    /\ conn = [p \in Replicas |-> "connecting"]
    /\ hits = 0 /\ windowLeft = 0
    /\ pc = [r \in Requests |-> "idle"]
    /\ kind = [r \in Requests |-> "api"]
    /\ server \in [Requests -> Replicas]
    /\ commands = [r \in Requests |-> 0]
    /\ count = [r \in Requests |-> 0]
    /\ current = [r \in Requests |-> FALSE]
    /\ timer = [r \in Requests |-> 0]
    /\ age = [r \in Requests |-> 0]

-----------------------------------------------------------------------------
(* The middleware and the command runner                                   *)

\* The check of a request is over.
Settle(r, how) ==
    /\ pc' = [pc EXCEPT ![r] = how]
    /\ commands' = [commands EXCEPT ![r] = 0]
    /\ timer' = [timer EXCEPT ![r] = 0]
    /\ age' = [age EXCEPT ![r] = 0]

\* Mutant: an error of the store lets the request pass.
Refuse_FailsOpen(r) == Settle(r, "passed")

\* The store has failed: 503, or an unavailable store for the probe.
Refuse(r) == Settle(r, "refused")

\* runCommand: issue the command at once, or after waitForReady.
Run(r) ==
    \/ /\ conn[server[r]] # "end"
       /\ commands' = [commands EXCEPT ![r] = @ + 1]
       /\ UNCHANGED age
       /\ \/ /\ conn[server[r]] = "ready"
             /\ pc' = [pc EXCEPT ![r] = "sent"]
             /\ timer' = [timer EXCEPT ![r] = Command]
          \/ /\ conn[server[r]] = "connecting"
             /\ pc' = [pc EXCEPT ![r] = "waiting"]
             /\ timer' = [timer EXCEPT ![r] = Connect]
    \/ conn[server[r]] = "end" /\ Refuse(r)

\* The command is rejected.  The store may send another one; the probe does not.
Fail(r) ==
    \/ kind[r] = "api" /\ commands[r] < MaxCommands /\ Run(r)
    \/ Refuse(r)

\* An API request, or /ready, which skips the limiter and runs the probe.
Arrive(r) ==
    /\ pc[r] = "idle"
    /\ \E k \in {"api", "probe"} : kind' = [kind EXCEPT ![r] = k]
    /\ Run(r)
    /\ UNCHANGED <<conn, counter, server, count, current>>

\* Mutant: a wait that times out begins again.
TimeOut_WaitsAgain(r) ==
    /\ Checking(r) /\ timer[r] = 0
    /\ IF pc[r] = "waiting"
       THEN timer' = [timer EXCEPT ![r] = Connect] /\ UNCHANGED <<pc, commands, age>>
       ELSE Fail(r)
    /\ UNCHANGED <<conn, counter, kind, server, count, current>>

\* Mutant: only commands time out, waiting for the connection does not.
TimeOut_CommandsOnly(r) ==
    /\ InFlight(r) /\ timer[r] = 0
    /\ Fail(r)
    /\ UNCHANGED <<conn, counter, kind, server, count, current>>

\* The connection or the command timeout.
TimeOut(r) ==
    /\ Checking(r) /\ timer[r] = 0
    /\ Fail(r)
    /\ UNCHANGED <<conn, counter, kind, server, count, current>>

\* Redis answers with an error, or the client gives up resending.
CommandFails(r) ==
    /\ InFlight(r)
    /\ Fail(r)
    /\ UNCHANGED <<conn, counter, kind, server, count, current>>

\* The reply arrives.  The limiter passes the request or hands it its 429, the
\* probe reports the store available.
Reply(r) ==
    /\ pc[r] = "executed"
    /\ Settle(r, IF kind[r] = "probe" THEN "ready"
                 ELSE IF count[r] <= Limit THEN "passed" ELSE "limited")
    /\ UNCHANGED <<conn, counter, kind, server, count, current>>

-----------------------------------------------------------------------------
(* The Redis connection of a replica                                       *)

\* Mutant: the connect timer goes on as the command timer.
Ready_KeepsTimer(p) ==
    /\ conn[p] = "connecting"
    /\ conn' = [conn EXCEPT ![p] = "ready"]
    /\ pc' = [r \in Requests |->
                 IF server[r] = p /\ pc[r] \in {"waiting", "lost"} THEN "sent" ELSE pc[r]]
    /\ UNCHANGED <<counter, kind, server, count, current, check>>

\* The ready event: the waiters issue their commands, and ioredis resends what
\* was in flight when the connection was lost, under its old timeout.
Ready(p) ==
    /\ conn[p] = "connecting"
    /\ conn' = [conn EXCEPT ![p] = "ready"]
    /\ pc' = [r \in Requests |->
                 IF server[r] = p /\ pc[r] \in {"waiting", "lost"} THEN "sent" ELSE pc[r]]
    /\ timer' = [r \in Requests |->
                    IF server[r] = p /\ pc[r] = "waiting" THEN Command ELSE timer[r]]
    /\ UNCHANGED <<counter, kind, server, count, current, commands, age>>

\* The connection is lost; ioredis goes on reconnecting.
Drop(p) ==
    /\ conn[p] = "ready"
    /\ conn' = [conn EXCEPT ![p] = "connecting"]
    /\ pc' = [r \in Requests |->
                 IF server[r] = p /\ InFlight(r) THEN "lost" ELSE pc[r]]
    /\ UNCHANGED <<counter, kind, server, count, current, check>>

\* disconnectRateLimitStore quits the client: the end event rejects the waiters,
\* and what is still in flight fails.  A quit that fails leaves all as it was.
disconnectRateLimitStore(p) ==
    LET rejected == {r \in Requests : server[r] = p /\ Checking(r)} IN
    /\ conn[p] # "end"
    /\ conn' = [conn EXCEPT ![p] = "end"]
    /\ pc' = [r \in Requests |-> IF r \in rejected THEN "refused" ELSE pc[r]]
    /\ commands' = [r \in Requests |-> IF r \in rejected THEN 0 ELSE commands[r]]
    /\ timer' = [r \in Requests |-> IF r \in rejected THEN 0 ELSE timer[r]]
    /\ age' = [r \in Requests |-> IF r \in rejected THEN 0 ELSE age[r]]
    /\ UNCHANGED <<counter, kind, server, count, current>>

-----------------------------------------------------------------------------
(* Redis and the clock                                                     *)

\* Mutant: every hit prolongs the window.
Hit_ExtendsWindow ==
    /\ hits' = IF hits <= Limit THEN hits + 1 ELSE hits
    /\ windowLeft' = Window

\* The increment script: count the hit, and open a window with the first one.
Hit ==
    /\ hits' = IF hits <= Limit THEN hits + 1 ELSE hits
    /\ windowLeft' = IF hits = 0 THEN Window ELSE windowLeft

\* Redis executes a command; a resent one is executed again.
Execute(r) ==
    /\ pc[r] = "sent"
    /\ pc' = [pc EXCEPT ![r] = "executed"]
    /\ \/ /\ kind[r] = "api"
          /\ Hit
          /\ count' = [count EXCEPT ![r] = hits']
          /\ current' = [current EXCEPT ![r] = TRUE]
       \/ kind[r] = "probe" /\ UNCHANGED <<counter, count, current>>
    /\ UNCHANGED <<conn, kind, server, check>>

\* A hit nobody waits for: its command has timed out before Redis executed it.
LateHit == Hit /\ UNCHANGED <<conn, request>>

\* Due timers fire before time goes on.
Tick ==
    /\ \A r \in Requests : Checking(r) => timer[r] > 0
    /\ windowLeft > 0 \/ \E r \in Requests : Checking(r)
    /\ windowLeft' = IF windowLeft > 0 THEN windowLeft - 1 ELSE 0
    /\ hits' = IF windowLeft <= 1 THEN 0 ELSE hits
    /\ current' = [r \in Requests |-> current[r] /\ windowLeft > 1]
    /\ timer' = [r \in Requests |-> IF Checking(r) THEN timer[r] - 1 ELSE timer[r]]
    /\ age' = [r \in Requests |-> IF Checking(r) THEN age[r] + 1 ELSE age[r]]
    /\ UNCHANGED <<conn, pc, kind, server, commands, count>>

-----------------------------------------------------------------------------
Next ==
    \/ \E r \in Requests :
          Arrive(r) \/ TimeOut(r) \/ CommandFails(r) \/ Execute(r) \/ Reply(r)
    \/ \E p \in Replicas : Ready(p) \/ Drop(p) \/ disconnectRateLimitStore(p)
    \/ LateHit
    \/ Tick

Spec == Init /\ [][Next]_vars

\* The clock runs and due timers fire.  Redis need never answer.
Fairness == WF_vars(Tick) /\ \A r \in Requests : WF_vars(TimeOut(r))

FairSpec == Spec /\ Fairness

-----------------------------------------------------------------------------
(* Properties                                                              *)

\* "shares the quota across instances": of the requests counted in a window no
\* more than the quota pass, whatever is lost, resent, timed out or late.
QuotaShared == Cardinality({r \in Requests : pc[r] = "passed" /\ current[r]}) <= Limit

\* "fails closed ... if its store is unavailable": a request passes only with a
\* count within the quota, and gets a 429 only with a count above it.
FailsClosed ==
    \A r \in Requests :
        /\ pc[r] = "passed" => count[r] \in 1..Limit
        /\ pc[r] = "limited" => count[r] > Limit

\* What the requests see of the limiter: the verdict Redis has come to, and how
\* their checks end.
used == IF hits <= Limit THEN hits ELSE Limit

verdict ==
    [r \in Requests |-> IF count[r] = 0 THEN "none"
                        ELSE IF count[r] <= Limit THEN "granted" ELSE "denied"]

answer ==
    [r \in Requests |-> CASE pc[r] \in {"passed", "limited"} -> pc[r]
                          [] pc[r] \in {"refused", "ready"} -> "failed"
                          [] OTHER -> "none"]

Limiter == INSTANCE Quota WITH left <- windowLeft

\* "replicas share quotas", and fail closed: with the counter in Redis and the
\* decisions in the replicas, commands lost, resent, timed out and late, they are
\* one limiter that grants each window its quota at most, lets none pass without
\* a grant and turns none away before the quota is used up.
ImplementsQuota ==
    Limiter!Init /\ [][UNCHANGED Limiter!vars \/ Limiter!Next]_vars

\* A check takes at most a connection and a command timeout for each command,
\* however often the connection comes and goes.
CheckBounded ==
    \A r \in Requests :
        age[r] <= (IF kind[r] = "api" THEN MaxCommands ELSE 1) * (Connect + Command)

\* Every check ends, even if Redis never answers.
ChecksEnd == \A r \in Requests : Checking(r) ~> ~Checking(r)
=============================================================================
