--------------------------- MODULE RateLimitProofs ---------------------------
(***************************************************************************)
(* Proofs about the shared quota, for any number of requests, replicas and *)
(* commands, any quota and any times: no step of a request, a connection   *)
(* or Redis passes a request over the quota or without a count, every      *)
(* check is over within its budget, and all of it implements one atomic    *)
(* limiter.                                                                *)
(*                                                                         *)
(* The hits of one window are numbered: two requests counted in it within  *)
(* the quota have different numbers (Numbered), so that those that pass    *)
(* are no more than the numbers there are.                                 *)
(***************************************************************************)
EXTENDS RateLimit, FiniteSetTheorems, TLAPS

USE RequestsAssumption, LimitAssumption, TimesAssumption, MaxCommandsAssumption

-----------------------------------------------------------------------------
(* Types                                                                   *)

\* What the steps of a check keep beside its type.
Counted ==
    \A r \in Requests :
        /\ pc[r] = "idle" => commands[r] = 0
        /\ pc[r] = "executed" /\ kind[r] = "api" => count[r] > 0

Inv == TypeOK /\ Counted

\* A step of the middleware that concerns the check of one request.
CheckStep(r) == Arrive(r) \/ TimeOut(r) \/ CommandFails(r) \/ Reply(r)

\* What becomes of the check: it is over, a command is issued, or it waits.
Outcome(r) ==
    \/ \E how \in Ended : Settle(r, how)
    \/ /\ commands[r] < MaxCommands
       /\ commands' = [commands EXCEPT ![r] = @ + 1] /\ UNCHANGED age
       /\ \/ /\ conn[server[r]] = "ready"
             /\ pc' = [pc EXCEPT ![r] = "sent"]
             /\ timer' = [timer EXCEPT ![r] = Command]
          \/ /\ conn[server[r]] = "connecting"
             /\ pc' = [pc EXCEPT ![r] = "waiting"]
             /\ timer' = [timer EXCEPT ![r] = Connect]

\* Every step of the middleware leaves the rest of the system alone.
LEMMA CheckOutcome ==
    ASSUME Inv, NEW r \in Requests, CheckStep(r)
    PROVE  /\ Outcome(r)
           /\ UNCHANGED <<conn, counter, server, count, current>>
           /\ \A s \in Requests \ {r} : kind'[s] = kind[s]
           /\ kind' \in [Requests -> {"api", "probe"}]
           /\ kind'[r] = "probe" => commands'[r] <= 1
<1> USE DEF Inv, TypeOK, Counted, Ended
<1>1. CASE Arrive(r)
  <2>1. commands'[r] <= 1
    BY <1>1 DEF Arrive, Run, Refuse, Settle
  <2> QED BY <1>1, <2>1 DEF Arrive, Run, Refuse, Outcome
<1>2. CASE TimeOut(r) \/ CommandFails(r)
  <2>1. Fail(r) /\ UNCHANGED <<conn, counter, kind, server, count, current>>
    BY <1>2 DEF TimeOut, CommandFails
  <2>2. Outcome(r)
    BY <2>1 DEF Fail, Run, Refuse, Outcome
  <2>3. kind'[r] = "probe" => commands'[r] <= 1
    BY <2>1 DEF Fail, Refuse, Settle
  <2> QED BY <2>1, <2>2, <2>3
<1>3. CASE Reply(r)
  <2>1. commands'[r] <= 1
    BY <1>3 DEF Reply, Settle
  <2> QED BY <1>3, <2>1 DEF Reply, Outcome
<1> QED BY <1>1, <1>2, <1>3 DEF CheckStep

\* The outcome of a check keeps the types.
LEMMA CheckTyping ==
    ASSUME Inv, NEW r \in Requests, CheckStep(r)
    PROVE  Inv'
<1>1. /\ Outcome(r) /\ UNCHANGED <<conn, counter, server, count, current>>
      /\ kind' \in [Requests -> {"api", "probe"}]
      /\ \A s \in Requests \ {r} : kind'[s] = kind[s]
  BY CheckOutcome
<1>2. /\ conn' = conn /\ hits' = hits /\ windowLeft' = windowLeft
      /\ server' = server /\ count' = count /\ current' = current
  BY <1>1 DEF counter
<1> USE DEF Inv, TypeOK, Counted, Ended, Checking, InFlight
<1>3. ASSUME NEW how \in Ended, Settle(r, how) PROVE Inv'
  BY <1>1, <1>2, <1>3 DEF Settle
<1>4. CASE ~\E how \in Ended : Settle(r, how)
  BY <1>1, <1>2, <1>4 DEF Outcome
<1> QED BY <1>3, <1>4

\* Every step keeps the types.
LEMMA TypingStep == Inv /\ [Next]_vars => Inv'
<1> SUFFICES ASSUME Inv, [Next]_vars PROVE Inv'
  OBVIOUS
<1>1. ASSUME NEW r \in Requests, CheckStep(r) PROVE Inv'
  BY <1>1, CheckTyping
<1> USE DEF Inv, TypeOK, Counted, Ended, Checking, InFlight
<1>2. ASSUME NEW r \in Requests, Execute(r) PROVE Inv'
  <2>1. hits' \in 0..(Limit + 1) /\ windowLeft' \in 0..Window /\ (hits' = 0 <=> windowLeft' = 0)
    BY <1>2 DEF Execute, Hit, counter
  <2>2. /\ pc' = [pc EXCEPT ![r] = "executed"]
        /\ UNCHANGED <<conn, kind, server, commands, timer, age>>
    BY <1>2 DEF Execute, check
  <2>3. /\ count' \in [Requests -> 0..(Limit + 1)] /\ current' \in [Requests -> BOOLEAN]
        /\ \A s \in Requests : pc'[s] = "executed" /\ kind[s] = "api" => count'[s] > 0
    <3>1. CASE kind[r] = "api"
      <4>1. /\ count' = [count EXCEPT ![r] = hits'] /\ current' = [current EXCEPT ![r] = TRUE]
            /\ hits' > 0
        BY <1>2, <3>1 DEF Execute, Hit
      <4> QED BY <2>1, <2>2, <4>1
    <3>2. CASE kind[r] # "api"
      <4>1. count' = count /\ current' = current
        BY <1>2, <3>2 DEF Execute
      <4>2. count' \in [Requests -> 0..(Limit + 1)] /\ current' \in [Requests -> BOOLEAN]
        BY <4>1
      <4>3. ASSUME NEW s \in Requests, pc'[s] = "executed", kind[s] = "api"
            PROVE  count'[s] > 0
        <5>1. s # r /\ pc[s] = "executed"
          BY <2>2, <3>2, <4>3
        <5> QED BY <4>1, <4>3, <5>1
      <4> QED BY <4>2, <4>3
    <3> QED BY <3>1, <3>2
  <2>4. pc[r] = "sent"
    BY <1>2 DEF Execute
  <2>5. pc' \in [Requests -> {"idle", "waiting", "sent", "executed", "lost"} \cup Ended]
    BY <2>2
  <2>6. \A s \in Requests :
          /\ pc'[s] = "waiting" => conn'[server'[s]] = "connecting" /\ timer'[s] <= Connect
          /\ InFlight(s)' => conn'[server'[s]] # "end" /\ timer'[s] <= Command
    BY <2>2, <2>4
  <2>7. Counted'
    BY <2>2, <2>3, <2>4
  <2>8. TypeOK'
    BY <2>1, <2>2, <2>3, <2>5, <2>6
  <2> QED BY <2>7, <2>8
<1>3. ASSUME NEW p \in Replicas, Ready(p) PROVE Inv'
  BY <1>3 DEF Ready, counter
<1>4. ASSUME NEW p \in Replicas, Drop(p) PROVE Inv'
  BY <1>4 DEF Drop, counter, check
<1>5. ASSUME NEW p \in Replicas, disconnectRateLimitStore(p) PROVE Inv'
  BY <1>5 DEF disconnectRateLimitStore, counter
<1>6. CASE LateHit
  BY <1>6 DEF LateHit, Hit, request, check
<1>7. CASE Tick
  BY <1>7 DEF Tick
<1>8. CASE UNCHANGED vars
  BY <1>8 DEF vars, counter, request, check
<1> QED
  BY <1>1, <1>2, <1>3, <1>4, <1>5, <1>6, <1>7, <1>8 DEF Next, CheckStep

\* No request has arrived at first.
LEMMA InitTyping == Init => Inv
<1> SUFFICES ASSUME Init PROVE Inv
  OBVIOUS
<1>1. current \in [Requests -> BOOLEAN]
  BY Zenon DEF Init
<1> QED
  BY <1>1 DEF Init, Inv, TypeOK, Counted, Ended, Checking, InFlight

\* Types, for any number of requests and replicas and any times: whoever waits
\* waits for a connection that may still come, every timer within its budget.
THEOREM TypeCorrect == Spec => []TypeOK
<1>1. Inv => TypeOK
  BY DEF Inv
<1> QED
  BY <1>1, InitTyping, TypingStep, PTL DEF Spec

-----------------------------------------------------------------------------
(* The quota                                                               *)

\* The requests counted in the current window have the numbers of its hits, and
\* no two share one within the quota.
Numbered ==
    \A r \in Requests :
        current[r] =>
            /\ count[r] \in 1..hits
            /\ \A s \in Requests \ {r} :
                  current[s] /\ count[r] <= Limit => count[s] # count[r]

\* What has ended, and what a step does to it: only Execute counts, and never for
\* a request that has ended; only Reply lets a request pass.
LEMMA FailsClosedStep == Inv /\ FailsClosed /\ [Next]_vars => FailsClosed'
<1> SUFFICES ASSUME Inv, FailsClosed, [Next]_vars, NEW r \in Requests
             PROVE  /\ pc'[r] = "passed" => count'[r] \in 1..Limit
                    /\ pc'[r] = "limited" => count'[r] > Limit
  BY DEF FailsClosed
<1> USE DEF Inv, TypeOK, Counted, FailsClosed
<1>1. ASSUME NEW s \in Requests, Arrive(s) \/ TimeOut(s) \/ CommandFails(s)
      PROVE  count' = count /\ (pc'[r] = pc[r] \/ pc'[r] \notin {"passed", "limited"})
  BY <1>1 DEF Arrive, TimeOut, CommandFails, Fail, Run, Refuse, Settle
<1>2. ASSUME NEW s \in Requests, Reply(s)
      PROVE  /\ pc'[r] = "passed" => count'[r] \in 1..Limit
             /\ pc'[r] = "limited" => count'[r] > Limit
  BY <1>2 DEF Reply, Settle
<1>3. ASSUME NEW s \in Requests, Execute(s)
      PROVE  (r # s /\ pc'[r] = pc[r] /\ count'[r] = count[r]) \/ pc'[r] = "executed"
  BY <1>3 DEF Execute
<1>4. ASSUME NEW p \in Replicas, Ready(p) \/ Drop(p) \/ disconnectRateLimitStore(p)
      PROVE  count' = count /\ (pc'[r] = pc[r] \/ pc'[r] \notin {"passed", "limited"})
  BY <1>4 DEF Ready, Drop, disconnectRateLimitStore
<1>5. CASE LateHit \/ Tick \/ UNCHANGED vars
  BY <1>5 DEF LateHit, Tick, vars, request
<1> QED
  BY <1>1, <1>2, <1>3, <1>4, <1>5 DEF Next

\* A request passes only with a count within the quota, and is refused as over
\* the quota only with a count above it.
THEOREM ClosedOnFailure == Spec => []FailsClosed
<1>1. Init => Inv /\ FailsClosed
  BY InitTyping DEF Init, FailsClosed
<1>2. Inv /\ FailsClosed /\ [Next]_vars => Inv' /\ FailsClosed'
  BY TypingStep, FailsClosedStep
<1> QED
  BY <1>1, <1>2, PTL DEF Spec

\* A hit gets a number of its own, until the quota is used up.
LEMMA NumberedStep == Inv /\ Numbered /\ [Next]_vars => Numbered'
<1> SUFFICES ASSUME Inv, Numbered, [Next]_vars PROVE Numbered'
  OBVIOUS
<1> USE DEF Inv, TypeOK, Numbered
<1>1. ASSUME NEW r \in Requests, CheckStep(r) PROVE Numbered'
  BY <1>1, CheckOutcome DEF counter
<1>2. ASSUME NEW r \in Requests, Execute(r) PROVE Numbered'
  <2>1. CASE kind[r] = "api"
    <3>1. /\ count' = [count EXCEPT ![r] = hits'] /\ current' = [current EXCEPT ![r] = TRUE]
          /\ hits' = IF hits <= Limit THEN hits + 1 ELSE hits
      BY <1>2, <2>1 DEF Execute, Hit
    <3>2. hits' \in 1..(Limit + 1) /\ hits' >= hits /\ (hits' <= Limit => hits' > hits)
      BY <3>1
    <3> QED BY <3>1, <3>2
  <2>2. CASE kind[r] # "api"
    BY <1>2, <2>2 DEF Execute, counter
  <2> QED BY <2>1, <2>2
<1>3. ASSUME NEW p \in Replicas, Ready(p) \/ Drop(p) \/ disconnectRateLimitStore(p)
      PROVE  Numbered'
  BY <1>3 DEF Ready, Drop, disconnectRateLimitStore, counter
<1>4. CASE LateHit
  BY <1>4 DEF LateHit, Hit, request
<1>5. CASE Tick
  <2>1. \A r \in Requests : current'[r] => current[r] /\ windowLeft > 1
    BY <1>5, Zenon DEF Tick
  <2>2. count' = count /\ (windowLeft > 1 => hits' = hits)
    BY <1>5 DEF Tick
  <2> QED BY <2>1, <2>2
<1>6. CASE UNCHANGED vars
  BY <1>6 DEF vars, counter, request
<1> QED
  BY <1>1, <1>2, <1>3, <1>4, <1>5, <1>6 DEF Next, CheckStep

\* Different numbers within the quota are no more than the quota.
LEMMA QuotaCount ==
    ASSUME Inv, FailsClosed, Numbered
    PROVE  QuotaShared
<1> DEFINE P == {r \in Requests : pc[r] = "passed" /\ current[r]}
           f == [r \in P |-> count[r]]
<1>1. f \in Injection(P, 1..Limit)
  <2>1. f \in [P -> 1..Limit]
    BY DEF FailsClosed
  <2>2. \A r, s \in P : f[r] = f[s] => r = s
    BY DEF FailsClosed, Numbered
  <2> QED BY <2>1, <2>2 DEF Injection, IsInjective
<1>2. IsFiniteSet(1..Limit) /\ Cardinality(1..Limit) = Limit
  BY FS_Interval
<1>3. Cardinality(P) <= Cardinality(1..Limit)
  BY <1>1, <1>2, FS_Injection
<1> QED
  BY <1>2, <1>3 DEF QuotaShared

\* Of the requests counted in one window no more than the quota pass, at any
\* number of replicas, whatever is lost, resent, timed out or late.
THEOREM QuotaKept == Spec => []QuotaShared
<1>1. Init => Inv /\ FailsClosed /\ Numbered
  BY InitTyping DEF Init, FailsClosed, Numbered
<1>2. Inv /\ FailsClosed /\ Numbered /\ [Next]_vars => Inv' /\ FailsClosed' /\ Numbered'
  BY TypingStep, FailsClosedStep, NumberedStep
<1> QED
  BY <1>1, <1>2, QuotaCount, PTL DEF Spec

-----------------------------------------------------------------------------
(* One limiter                                                             *)

\* Grants of a window, and the verdict on a request, by the counter.
LEMMA LimiterReads ==
    ASSUME Inv
    PROVE  /\ hits <= Limit => used = hits
           /\ hits > Limit => used = Limit
           /\ used = 0 <=> hits = 0
           /\ hits = 0 <=> windowLeft = 0
           /\ hits \in 0..(Limit + 1)
           /\ used \in 0..Limit
           /\ windowLeft \in 0..Window
BY DEF Inv, TypeOK, used

\* Nothing that concerns the limiter happens.
Quiet(S) ==
    /\ UNCHANGED <<hits, windowLeft, count>>
    /\ \A r \in Requests : answer'[r] = IF r \in S THEN "failed" ELSE answer[r]

\* Then some requests fail together, or nothing is seen of the step.
LEMMA QuietImplements ==
    ASSUME NEW S \in SUBSET {r \in Requests : answer[r] = "none"}, Quiet(S)
    PROVE  Limiter!Next
<1>1. answer' = [r \in Requests |-> IF r \in S THEN "failed" ELSE answer[r]]
  BY DEF Quiet, answer
<1>2. UNCHANGED <<used, windowLeft, verdict>>
  BY DEF Quiet, used, verdict
<1>3. Limiter!Fail
  BY <1>1, <1>2, Zenon DEF Limiter!Fail
<1> QED
  BY <1>3 DEF Limiter!Next

\* A check that is over passes only with a grant, and is limited only when denied.
LEMMA ReplyImplements ==
    ASSUME Inv, NEW r \in Requests, Reply(r)
    PROVE  Limiter!Next
<1> USE DEF Inv, TypeOK, Counted, Ended
<1>1. /\ pc[r] = "executed" /\ UNCHANGED <<hits, windowLeft, count>>
      /\ pc' = [pc EXCEPT ![r] = IF kind[r] = "probe" THEN "ready"
                                 ELSE IF count[r] <= Limit THEN "passed" ELSE "limited"]
  BY DEF Reply, Settle, counter
<1>2. answer[r] = "none"
  BY <1>1 DEF answer
<1>3. CASE kind[r] = "probe"
  <2>1. Quiet({r})
    BY <1>1, <1>3 DEF Quiet, answer
  <2> QED BY <1>2, <2>1, QuietImplements
<1>4. CASE kind[r] # "probe"
  <2>1. count[r] > 0
    BY <1>1, <1>4
  <2>2. verdict[r] = IF count[r] <= Limit THEN "granted" ELSE "denied"
    BY <2>1 DEF verdict
  <2>3. answer' = [answer EXCEPT ![r] = IF verdict[r] = "granted" THEN "passed" ELSE "limited"]
    BY <1>1, <1>4, <2>2 DEF answer
  <2>4. UNCHANGED <<used, windowLeft, verdict>>
    BY <1>1 DEF used, verdict
  <2>5. Limiter!Reply(r)
    BY <1>2, <2>2, <2>3, <2>4 DEF Limiter!Reply
  <2> QED BY <2>5 DEF Limiter!Next
<1> QED BY <1>3, <1>4

\* A hit is a grant, or has no effect on a quota that is used up.
LEMMA HitCharges ==
    ASSUME Inv, Hit
    PROVE  /\ hits < Limit => Limiter!Charge /\ hits' = hits + 1
           /\ hits >= Limit => UNCHANGED <<used, windowLeft>> /\ hits' = Limit + 1
<1> USE LimiterReads
<1>1. ASSUME hits < Limit PROVE Limiter!Charge /\ hits' = hits + 1
  BY <1>1 DEF Hit, used, Limiter!Charge
<1>2. ASSUME hits >= Limit PROVE UNCHANGED <<used, windowLeft>> /\ hits' = Limit + 1
  BY <1>2 DEF Hit, used
<1> QED
  BY <1>1, <1>2

\* The number of its hit is the verdict on a request.
LEMMA CountDecides ==
    ASSUME Inv, NEW r \in Requests, hits' > 0, count' = [count EXCEPT ![r] = hits']
    PROVE  verdict' = [verdict EXCEPT ![r] = IF hits' <= Limit THEN "granted" ELSE "denied"]
<1> DEFINE Verdict(n) == IF n = 0 THEN "none" ELSE IF n <= Limit THEN "granted" ELSE "denied"
<1>1. count \in [Requests -> 0..(Limit + 1)]
  BY DEF Inv, TypeOK
<1>2. Verdict(hits') = IF hits' <= Limit THEN "granted" ELSE "denied"
  OBVIOUS
<1>3. /\ verdict = [s \in Requests |-> Verdict(count[s])]
      /\ verdict' = [s \in Requests |-> Verdict(count'[s])]
  BY DEF verdict
<1> HIDE DEF Verdict
<1> QED
  BY <1>1, <1>2, <1>3

\* The execution of its command decides a request.
LEMMA ExecuteImplements ==
    ASSUME Inv, NEW r \in Requests, Execute(r)
    PROVE  Limiter!Next
<1> USE DEF Inv, TypeOK, Ended
<1>1. pc[r] = "sent" /\ pc' = [pc EXCEPT ![r] = "executed"]
  BY DEF Execute
<1>2. answer[r] = "none" /\ answer' = answer
  BY <1>1 DEF answer
<1>3. CASE kind[r] = "api"
  <2>1. Hit /\ count' = [count EXCEPT ![r] = hits']
    BY <1>3 DEF Execute
  <2>2. CASE hits < Limit
    <3>1. Limiter!Charge /\ hits' = hits + 1
      BY <2>1, <2>2, HitCharges
    <3>2. hits' > 0 /\ hits' <= Limit
      BY <2>2, <3>1
    <3>3. verdict' = [verdict EXCEPT ![r] = "granted"]
      BY <2>1, <3>2, CountDecides
    <3>4. Limiter!Grant(r)
      BY <1>2, <3>1, <3>3 DEF Limiter!Grant, Limiter!Decide
    <3> QED BY <3>4 DEF Limiter!Next
  <2>3. CASE hits >= Limit
    <3>1. UNCHANGED <<used, windowLeft>> /\ hits' = Limit + 1
      BY <2>1, <2>3, HitCharges
    <3>2. hits' > 0 /\ ~(hits' <= Limit)
      BY <3>1
    <3>3. verdict' = [verdict EXCEPT ![r] = "denied"]
      BY <2>1, <3>2, CountDecides
    <3>4. used = Limit
      BY <2>3, LimiterReads
    <3>5. Limiter!Deny(r)
      BY <1>2, <3>1, <3>3, <3>4 DEF Limiter!Deny, Limiter!Decide
    <3> QED BY <3>5 DEF Limiter!Next
  <2> QED BY <2>2, <2>3
<1>4. CASE kind[r] # "api"
  <2>1. Quiet({})
    BY <1>2, <1>4 DEF Execute, Quiet, counter
  <2> QED BY <2>1, QuietImplements
<1> QED BY <1>3, <1>4

\* Every step of the system is a step of the limiter, or none.
LEMMA LimiterStep == Inv /\ [Next]_vars => Limiter!Next \/ UNCHANGED Limiter!vars
<1> SUFFICES ASSUME Inv, [Next]_vars PROVE Limiter!Next \/ UNCHANGED Limiter!vars
  OBVIOUS
<1>1. ASSUME NEW r \in Requests, Arrive(r) \/ TimeOut(r) \/ CommandFails(r)
      PROVE  Limiter!Next
  <2> USE DEF Inv, TypeOK, Ended
  <2>1. /\ pc[r] = "idle" \/ Checking(r)
        /\ Run(r) \/ Refuse(r)
        /\ UNCHANGED <<hits, windowLeft, count>>
    BY <1>1 DEF Arrive, TimeOut, CommandFails, Fail, Checking, counter
  <2>2. answer[r] = "none"
    BY <2>1 DEF answer, Checking, InFlight
  <2>3. CASE pc' = [pc EXCEPT ![r] = "refused"]
    <3>1. Quiet({r})
      BY <2>1, <2>3 DEF Quiet, answer
    <3> QED BY <2>2, <3>1, QuietImplements
  <2>4. CASE pc' = [pc EXCEPT ![r] = "sent"] \/ pc' = [pc EXCEPT ![r] = "waiting"]
    <3>1. Quiet({})
      BY <2>1, <2>2, <2>4 DEF Quiet, answer
    <3> QED BY <3>1, QuietImplements
  <2> QED BY <2>1, <2>3, <2>4 DEF Run, Refuse, Settle
<1>2. ASSUME NEW r \in Requests, Execute(r) \/ Reply(r) PROVE Limiter!Next
  BY <1>2, ExecuteImplements, ReplyImplements
<1>3. ASSUME NEW p \in Replicas, Ready(p) \/ Drop(p) \/ disconnectRateLimitStore(p)
      PROVE  Limiter!Next
  <2> USE DEF Inv, TypeOK, Ended, Checking, InFlight
  <2>1. CASE Ready(p) \/ Drop(p)
    <3>1. Quiet({})
      BY <2>1 DEF Ready, Drop, counter, Quiet, answer
    <3> QED BY <3>1, QuietImplements
  <2>2. CASE disconnectRateLimitStore(p)
    <3> DEFINE S == {r \in Requests : server[r] = p /\ Checking(r)}
    <3>1. S \in SUBSET {r \in Requests : answer[r] = "none"}
      BY DEF answer
    <3>2. Quiet(S)
      BY <2>2 DEF disconnectRateLimitStore, counter, Quiet, answer
    <3> QED BY <3>1, <3>2, QuietImplements
  <2> QED BY <1>3, <2>1, <2>2
<1>4. CASE LateHit
  <2>1. Hit /\ UNCHANGED <<verdict, answer>>
    BY <1>4 DEF LateHit, request, verdict, answer
  <2>2. CASE hits < Limit
    BY <2>1, <2>2, HitCharges DEF Limiter!Waste, Limiter!Next
  <2>3. CASE hits >= Limit
    BY <2>1, <2>3, HitCharges DEF Limiter!vars
  <2> QED BY <2>2, <2>3, LimiterReads
<1>5. CASE Tick
  <2>1. UNCHANGED <<verdict, answer>>
    BY <1>5 DEF Tick, verdict, answer
  <2>2. CASE windowLeft > 0
    <3>1. windowLeft \in Nat /\ windowLeft' = windowLeft - 1
      BY <1>5, <2>2, LimiterReads DEF Tick
    <3>2. hits' = IF windowLeft = 1 THEN 0 ELSE hits
      BY <1>5, <2>2, <3>1 DEF Tick
    <3>3. used' = IF windowLeft = 1 THEN 0 ELSE used
      <4>1. CASE windowLeft = 1
        BY <3>2, <4>1 DEF used
      <4>2. CASE windowLeft # 1
        BY <3>2, <4>2 DEF used
      <4> QED BY <4>1, <4>2
    <3>4. Limiter!Tick
      BY <2>1, <2>2, <3>1, <3>3 DEF Limiter!Tick
    <3> QED BY <3>4 DEF Limiter!Next
  <2>3. CASE ~(windowLeft > 0)
    <3>1. windowLeft = 0 /\ hits = 0 /\ windowLeft' = 0 /\ hits' = 0
      BY <1>5, <2>3, LimiterReads DEF Tick
    <3> QED BY <2>1, <3>1 DEF used, Limiter!vars
  <2> QED BY <2>2, <2>3
<1>6. CASE UNCHANGED vars
  BY <1>6 DEF vars, counter, request, used, verdict, answer, Limiter!vars
<1> QED
  BY <1>1, <1>2, <1>3, <1>4, <1>5, <1>6 DEF Next

\* At first no window is open and nobody has been told anything.
LEMMA InitLimiter == Init => Limiter!Init
BY DEF Init, used, verdict, answer, Limiter!Init

\* The replicas, their connections and the counter in Redis implement one atomic
\* limiter, for any number of replicas and requests and any quota: no grant
\* beyond the quota of a window, no pass without a grant, no 429 before the quota
\* is used up, whatever is lost, resent, timed out or late.
THEOREM QuotaImplemented == Spec => ImplementsQuota /\ Limiter!Spec
<1>1. Inv /\ [Next]_vars =>
        /\ [UNCHANGED Limiter!vars \/ Limiter!Next]_vars
        /\ [Limiter!Next]_Limiter!vars
  BY LimiterStep
<1> QED
  BY <1>1, InitTyping, InitLimiter, TypingStep, PTL
     DEF Spec, ImplementsQuota, Limiter!Spec

-----------------------------------------------------------------------------
(* The budget of a check                                                   *)

\* The time that n commands may take.
Budget(n) == n * (Connect + Command)

\* A command more has a connection and a command timeout more.
LEMMA BudgetGrows ==
    ASSUME NEW n \in Nat
    PROVE  Budget(n) \in Nat /\ Budget(n + 1) = Budget(n) + Connect + Command
BY DEF Budget

\* More commands may take longer.
LEMMA BudgetMonotone ==
    ASSUME NEW m \in Nat, NEW n \in Nat, m <= n
    PROVE  Budget(m) <= Budget(n)
<1>1. PICK d \in Nat : n = m + d
  <2>1. n - m \in Nat /\ n = m + (n - m)
    OBVIOUS
  <2> QED BY <2>1
<1>2. Budget(n) = Budget(m) + Budget(d)
  BY <1>1 DEF Budget
<1> QED BY <1>2, BudgetGrows

\* What a check has taken and may still take under its timer is within the budget
\* of the commands sent so far; who waits has a whole command timeout left.
Within(r) ==
    /\ Checking(r) => commands[r] > 0
    /\ ~Checking(r) => age[r] = 0
    /\ kind[r] = "probe" => commands[r] <= 1
    /\ pc[r] = "waiting" => age[r] + timer[r] + Command <= Budget(commands[r])
    /\ InFlight(r) => age[r] + timer[r] <= Budget(commands[r])

Budgeted == \A r \in Requests : Within(r)

\* A check stays within its budget when it is over, waits or sends a command.
LEMMA CheckWithin ==
    ASSUME Inv, Budgeted, NEW r \in Requests, CheckStep(r)
    PROVE  Budgeted'
<1>1. /\ Outcome(r) /\ UNCHANGED server /\ \A s \in Requests \ {r} : kind'[s] = kind[s]
      /\ kind'[r] = "probe" => commands'[r] <= 1
  BY CheckOutcome
<1> USE DEF Inv, TypeOK, Counted, Ended, Checking, InFlight
<1>2. age[r] <= Budget(commands[r])
  <2>1. /\ commands[r] \in Nat /\ age[r] \in Nat /\ timer[r] \in Nat
        /\ Budget(commands[r]) \in Nat
    BY BudgetGrows
  <2>2. Within(r)
    BY DEF Budgeted
  <2> QED BY <2>1, <2>2 DEF Within
<1>3. /\ Budget(commands[r]) \in Nat
      /\ Budget(commands[r] + 1) = Budget(commands[r]) + Connect + Command
  BY BudgetGrows
<1>4. ASSUME NEW s \in Requests, s # r PROVE Within(s)'
  <2>1. pc'[s] = pc[s] /\ commands'[s] = commands[s] /\ timer'[s] = timer[s]
        /\ age'[s] = age[s] /\ kind'[s] = kind[s]
    BY <1>1, <1>4 DEF Outcome, Settle
  <2> QED BY <2>1 DEF Budgeted, Within
<1>5. Within(r)'
  <2>1. ASSUME NEW how \in Ended, Settle(r, how) PROVE Within(r)'
    BY <1>1, <2>1 DEF Settle, Within
  <2>2. CASE ~\E how \in Ended : Settle(r, how)
    <3>1. commands'[r] = commands[r] + 1 /\ age'[r] = age[r]
          /\ \/ pc'[r] = "sent" /\ timer'[r] = Command
             \/ pc'[r] = "waiting" /\ timer'[r] = Connect
      BY <1>1, <2>2 DEF Outcome
    <3> QED BY <1>1, <1>2, <1>3, <3>1 DEF Within
  <2> QED BY <2>1, <2>2
<1> QED BY <1>4, <1>5 DEF Budgeted

\* Every step keeps every check within its budget.
LEMMA BudgetStep == Inv /\ Budgeted /\ [Next]_vars => Budgeted'
<1> SUFFICES ASSUME Inv, Budgeted, [Next]_vars PROVE Budgeted'
  OBVIOUS
<1>1. ASSUME NEW r \in Requests, CheckStep(r) PROVE Budgeted'
  BY <1>1, CheckWithin
<1> USE DEF Inv, TypeOK, Budgeted, Within, Checking, InFlight
<1>2. ASSUME NEW r \in Requests, Execute(r) PROVE Budgeted'
  BY <1>2 DEF Execute, check
<1>3. ASSUME NEW p \in Replicas, Ready(p) PROVE Budgeted'
  <2>1. \A r \in Requests : Budget(commands[r]) \in Nat
    BY BudgetGrows
  <2> QED BY <1>3, <2>1 DEF Ready
<1>4. ASSUME NEW p \in Replicas, Drop(p) PROVE Budgeted'
  BY <1>4 DEF Drop, check
<1>5. ASSUME NEW p \in Replicas, disconnectRateLimitStore(p) PROVE Budgeted'
  BY <1>5 DEF disconnectRateLimitStore
<1>6. CASE Tick
  <2>1. \A r \in Requests : Budget(commands[r]) \in Nat
    BY BudgetGrows
  <2>2. UNCHANGED <<pc, kind, commands>>
        /\ timer' = [r \in Requests |-> IF Checking(r) THEN timer[r] - 1 ELSE timer[r]]
        /\ age' = [r \in Requests |-> IF Checking(r) THEN age[r] + 1 ELSE age[r]]
    BY <1>6 DEF Tick
  <2> QED BY <2>1, <2>2
<1>7. CASE LateHit \/ UNCHANGED vars
  BY <1>7 DEF LateHit, vars, request, check
<1> QED
  BY <1>1, <1>2, <1>3, <1>4, <1>5, <1>6, <1>7 DEF Next, CheckStep

\* A check takes at most a connection and a command timeout for each command it
\* may send, however often the connection comes and goes.
THEOREM BudgetKept == Spec => []CheckBounded
<1>1. Init => Inv /\ Budgeted
  BY InitTyping DEF Init, Budgeted, Within, Checking, InFlight
<1>2. Inv /\ Budgeted /\ [Next]_vars => Inv' /\ Budgeted'
  BY TypingStep, BudgetStep
<1>3. Inv /\ Budgeted => CheckBounded
  <2> SUFFICES ASSUME Inv, Budgeted, NEW r \in Requests
               PROVE  age[r] <= (IF kind[r] = "api" THEN MaxCommands ELSE 1)
                                    * (Connect + Command)
    BY DEF CheckBounded
  <2> USE DEF Inv, TypeOK
  <2>1. commands[r] \in Nat /\ age[r] \in Nat /\ Budget(commands[r]) \in Nat
    BY BudgetGrows
  <2>2. age[r] <= Budget(commands[r])
    BY <2>1 DEF Budgeted, Within, Checking
  <2>3. CASE kind[r] = "api"
    <3>1. Budget(commands[r]) <= Budget(MaxCommands) /\ Budget(MaxCommands) \in Nat
      BY BudgetGrows, BudgetMonotone
    <3>2. age[r] <= Budget(MaxCommands)
      BY <2>1, <2>2, <3>1
    <3> QED BY <2>3, <3>2 DEF Budget
  <2>4. CASE kind[r] # "api"
    <3>1. commands[r] <= 1
      BY <2>4 DEF Budgeted, Within
    <3>2. Budget(commands[r]) <= Budget(1) /\ Budget(1) \in Nat
      BY <2>1, <3>1, BudgetGrows, BudgetMonotone
    <3>3. age[r] <= Budget(1)
      BY <2>1, <2>2, <3>2
    <3> QED BY <2>4, <3>3 DEF Budget
  <2> QED BY <2>3, <2>4
<1> QED
  BY <1>1, <1>2, <1>3, PTL DEF Spec
=============================================================================
