-------------------------------- MODULE Circuit --------------------------------
(***************************************************************************)
(* A circuit breaker as the documentation describes it.  Closed, it admits *)
(* calls until so many failures have come without a success; open, it      *)
(* admits none for a cooldown; then one probe alone decides.               *)
(***************************************************************************)
EXTENDS Integers

CONSTANTS Calls, Threshold

VARIABLES
    state,      \* "closed", "open" or "half_open"
    failures,   \* since the last success, as far as they count
    waited,     \* how long the circuit has been open
    cooldown,   \* how long it has to be
    calls       \* the admitted calls that have not ended

vars == <<state, failures, waited, cooldown, calls>>

Init == state = "closed" /\ failures = 0 /\ waited = 0 /\ calls = {}

Move(to, count) ==
    /\ state' = to /\ failures' = count /\ waited' = 0 /\ UNCHANGED cooldown
Close == Move("closed", 0)
Open == Move("open", Threshold)
Stay == UNCHANGED <<state, failures, waited, cooldown>>

Admit(c) ==
    /\ state = "closed"
    /\ calls' = calls \cup {c}
    /\ Stay

\* Whatever was in flight at the opening has ended.
AdmitProbe(c) ==
    /\ state = "open" /\ waited = cooldown /\ calls = {}
    /\ calls' = {c}
    /\ Move("half_open", failures)

Wait ==
    /\ state = "open" /\ waited < cooldown
    /\ waited' = waited + 1
    /\ UNCHANGED <<state, failures, cooldown, calls>>

End(c) == c \in calls /\ calls' = calls \ {c}

\* The provider answers, late answers of calls that saw it fail included.
Succeed(c) == End(c) /\ Close

\* A failure counts while the circuit is closed, and fails a probe.
Fail(c) ==
    /\ End(c)
    /\ \/ state = "closed" /\ failures + 1 < Threshold /\ Move("closed", failures + 1)
       \/ state = "closed" /\ failures + 1 >= Threshold /\ Open
       \/ state = "half_open" /\ Open
       \/ state = "open" /\ Stay

\* A call that says nothing of the provider: a probe has to be made again.
Abandon(c) ==
    /\ End(c)
    /\ IF state = "half_open" THEN Open ELSE Stay

Next ==
    \/ Wait
    \/ \E c \in Calls :
          Admit(c) \/ AdmitProbe(c) \/ Succeed(c) \/ Fail(c) \/ Abandon(c)

Spec == Init /\ [][Next]_vars
=============================================================================
