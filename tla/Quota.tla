--------------------------------- MODULE Quota ---------------------------------
(***************************************************************************)
(* The limiter the replicas implement together: one counter that decides   *)
(* each request at a single instant.  A window opens with its first grant, *)
(* lasts its time and grants no more than the quota; a request passes only *)
(* with a grant, and is turned away only if the quota was used up.  Grants *)
(* may be wasted on requests that fail, and be given twice.                *)
(***************************************************************************)
EXTENDS Integers

CONSTANTS Requests, Limit, Window

VARIABLES
    used,       \* grants of the window
    left,       \* the time it has left
    verdict,    \* "none", "granted" or "denied": what a request was told
    answer      \* "none" yet, "passed", "limited" or "failed"

vars == <<used, left, verdict, answer>>

Init ==
    /\ used = 0 /\ left = 0
    /\ verdict = [r \in Requests |-> "none"]
    /\ answer = [r \in Requests |-> "none"]

Charge ==
    /\ used < Limit
    /\ used' = used + 1
    /\ left' = IF used = 0 THEN Window ELSE left

Decide(r, how) == answer[r] = "none" /\ verdict' = [verdict EXCEPT ![r] = how]

Grant(r) == Charge /\ Decide(r, "granted") /\ UNCHANGED answer

Deny(r) == used = Limit /\ Decide(r, "denied") /\ UNCHANGED <<used, left, answer>>

Waste == Charge /\ UNCHANGED <<verdict, answer>>

Reply(r) ==
    /\ answer[r] = "none" /\ verdict[r] # "none"
    /\ answer' = [answer EXCEPT ![r] = IF verdict[r] = "granted" THEN "passed" ELSE "limited"]
    /\ UNCHANGED <<used, left, verdict>>

\* Requests that fail together, with a grant or without.
Fail ==
    \E failed \in SUBSET {r \in Requests : answer[r] = "none"} :
        /\ answer' = [r \in Requests |-> IF r \in failed THEN "failed" ELSE answer[r]]
        /\ UNCHANGED <<used, left, verdict>>

Tick ==
    /\ left > 0
    /\ left' = left - 1
    /\ used' = IF left = 1 THEN 0 ELSE used
    /\ UNCHANGED <<verdict, answer>>

Next ==
    \/ \E r \in Requests : Grant(r) \/ Deny(r) \/ Reply(r)
    \/ Waste \/ Fail \/ Tick

Spec == Init /\ [][Next]_vars
=============================================================================
