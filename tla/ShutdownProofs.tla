--------------------------- MODULE ShutdownProofs ---------------------------
(***************************************************************************)
(* Proofs about graceful shutdown, for any set of requests and any         *)
(* deadline: what exit status 0 says, that the deadline is met, and that   *)
(* requests, provider work and stores are spared until then.               *)
(*                                                                         *)
(* The deadline needs Clocks: from the first signal to the exit the timer  *)
(* is armed with what is left of the budget.                               *)
(***************************************************************************)
EXTENDS Shutdown, TLAPS

USE TimeoutAssumption
USE DEF Running, Active, NoTimer, NoExit, flags, cleaning

\* Between the first signal and the exit the timer holds the rest of the budget.
Clocks ==
    /\ ~draining => elapsed = 0 /\ timeoutLeft = NoTimer /\ Running /\ cleanup = "none"
    /\ draining /\ Running => timeoutLeft \in Nat /\ elapsed + timeoutLeft = Timeout

\* Only the deadline aborts and kills, at the end of the budget, and nothing
\* else takes the stores from a request unless the server cannot close.
Spared ==
    /\ Running => ~aborted /\ \A r \in Requests : request[r] # "killed"
    /\ RequestsSpared

\* A cleanup under way will end in an exit, with status 0 only when the server has
\* closed without error.
Clean ==
    /\ Running /\ cleanup # "none" => cleanupExit # NoExit
    /\ cleanupExit = 0 => ~closeFailed /\ cleanup # "none"
    /\ CleanExit

Inv == TypeOK /\ Clocks /\ Spared /\ Clean

\* The first conjunct is preserved, given the others.
LEMMA TypingStep == Inv /\ [Next]_vars => TypeOK'
<1> SUFFICES ASSUME Inv, [Next]_vars PROVE TypeOK'
  OBVIOUS
<1> USE DEF Inv, TypeOK, CleanupSteps
<1>1. CASE shutdown
  BY <1>1 DEF shutdown
<1>2. CASE Closed
  BY <1>2 DEF Closed, finish, startCleanup
<1>3. CASE CloseFails
  <2>1. /\ exitCode = -1 /\ cleanup = "none" /\ ~forced /\ ~finalized
        /\ finalized' = TRUE /\ closeFailed' = TRUE
        /\ cleanup' = "queued" /\ cleanupExit' = 1
    BY <1>3 DEF CloseFails, finish, startCleanup
  <2>2. UNCHANGED <<draining, aborted, timeoutLeft, forced, exitCode, request, elapsed>>
    BY <1>3 DEF CloseFails, finish
  <2>3. /\ draining' \in BOOLEAN /\ aborted' \in BOOLEAN /\ finalized' \in BOOLEAN
        /\ forced' \in BOOLEAN /\ closeFailed' \in BOOLEAN
    BY <2>1, <2>2, Zenon
  <2> QED
    BY <2>1, <2>2, <2>3
<1>4. CASE forceExit
  BY <1>4 DEF forceExit, startCleanup
<1>5. CASE CleanupStarts \/ CleanupStep
  BY <1>5 DEF CleanupStarts, CleanupStep, Advance
<1>6. CASE CleanupSettles
  <2>1. /\ exitCode = -1 /\ cleanup = "tracing" /\ cleanup' = "settled"
        /\ cleanupExit # -1 /\ ~forced
    BY <1>6 DEF CleanupSettles, Clean
  <2>2. exitCode' = cleanupExit
    BY <1>6, <2>1, Zenon DEF CleanupSettles
  <2>3. /\ timeoutLeft' = -1
        /\ UNCHANGED <<draining, aborted, finalized, forced, cleanupExit, closeFailed,
                       request, elapsed>>
    BY <1>6 DEF CleanupSettles
  <2> QED
    BY <2>1, <2>2, <2>3
<1>7. ASSUME NEW r \in Requests, Accept(r) \/ Complete(r) PROVE TypeOK'
  BY <1>7 DEF Accept, Complete
<1>8. CASE Tick
  BY <1>8 DEF Tick, Clocks
<1>9. CASE UNCHANGED vars
  BY <1>9 DEF vars
<1> QED
  BY <1>1, <1>2, <1>3, <1>4, <1>5, <1>6, <1>7, <1>8, <1>9 DEF Next

\* Only the clock moves the timer, and what it takes from it elapsed gains.
LEMMA ClocksStep == Inv /\ [Next]_vars => Clocks'
<1> SUFFICES ASSUME Inv, [Next]_vars PROVE Clocks'
  OBVIOUS
<1> USE DEF Inv, TypeOK, Clocks
<1>1. CASE shutdown
  BY <1>1 DEF shutdown
<1>2. CASE Closed \/ CloseFails
  BY <1>2 DEF Closed, CloseFails, finish, startCleanup
<1>3. CASE forceExit
  <2>1. exitCode = -1 /\ timeoutLeft = 0 /\ exitCode' = 1 /\ UNCHANGED draining
    BY <1>3, Zenon DEF forceExit
  <2>2. draining
    BY <2>1
  <2> QED
    BY <2>1, <2>2
<1>4. CASE CleanupStarts \/ CleanupStep
  BY <1>4 DEF CleanupStarts, CleanupStep, Advance
<1>8. CASE CleanupSettles
  <2>1. exitCode = -1 /\ cleanup = "tracing" /\ cleanupExit # -1 /\ ~forced
    BY <1>8 DEF CleanupSettles, Clean
  <2>2. exitCode' = cleanupExit /\ UNCHANGED draining
    BY <1>8, <2>1, Zenon DEF CleanupSettles
  <2>3. draining
    BY <2>1
  <2> QED
    BY <2>1, <2>2, <2>3
<1>5. ASSUME NEW r \in Requests, Accept(r) \/ Complete(r) PROVE Clocks'
  BY <1>5 DEF Accept, Complete
<1>6. CASE Tick
  BY <1>6 DEF Tick
<1>7. CASE UNCHANGED vars
  BY <1>7 DEF vars
<1> QED
  BY <1>1, <1>2, <1>3, <1>4, <1>5, <1>6, <1>7, <1>8 DEF Next

\* Requests are only killed at the deadline; only a server without requests closes.
LEMMA SparedStep == Inv /\ [Next]_vars => Spared' /\ Clean'
<1> SUFFICES ASSUME Inv, [Next]_vars PROVE Spared' /\ Clean'
  OBVIOUS
<1> USE DEF Inv, TypeOK, Clocks, Spared, RequestsSpared, Clean, CleanExit
<1>1. CASE shutdown
  BY <1>1 DEF shutdown
<1>2. CASE Closed \/ CloseFails
  BY <1>2 DEF Closed, CloseFails, finish, startCleanup
<1>3. CASE forceExit
  <2>1. /\ exitCode = -1 /\ exitCode' = 1 /\ timeoutLeft = 0
        /\ closeFailed' = closeFailed /\ elapsed' = elapsed
        /\ (cleanup = "none" => cleanupExit' = -1 /\ cleanup' = "queued")
        /\ (cleanup # "none" => cleanupExit' = cleanupExit /\ cleanup' = cleanup)
    BY <1>3, Zenon DEF forceExit, startCleanup
  <2>2. draining /\ elapsed = Timeout
    BY <2>1
  <2>3. Spared'
    BY <2>1, <2>2
  <2>4. cleanupExit' = 0 => ~closeFailed' /\ cleanup' # "none"
    BY <2>1
  <2> QED
    BY <2>1, <2>3, <2>4
<1>4. CASE CleanupStarts \/ CleanupStep \/ CleanupSettles
  BY <1>4 DEF CleanupStarts, CleanupStep, Advance, CleanupSettles
<1>5. ASSUME NEW r \in Requests, Accept(r) \/ Complete(r) PROVE Spared' /\ Clean'
  BY <1>5 DEF Accept, Complete
<1>6. CASE Tick
  BY <1>6 DEF Tick
<1>7. CASE UNCHANGED vars
  BY <1>7 DEF vars
<1> QED
  BY <1>1, <1>2, <1>3, <1>4, <1>5, <1>6, <1>7 DEF Next

\* The inductive invariant: types, clocks, spared requests and pending exits.
THEOREM InvInvariant == Spec => []Inv
<1>1. Init => Inv
  <2> SUFFICES ASSUME Init PROVE Inv
    OBVIOUS
  <2>1. /\ draining = FALSE /\ aborted = FALSE /\ finalized = FALSE
        /\ forced = FALSE /\ closeFailed = FALSE
    BY DEF Init
  <2>2. /\ draining \in BOOLEAN /\ aborted \in BOOLEAN /\ finalized \in BOOLEAN
        /\ forced \in BOOLEAN /\ closeFailed \in BOOLEAN
    BY <2>1, Zenon
  <2>3. /\ timeoutLeft = -1 /\ cleanup = "none" /\ cleanupExit = -1 /\ exitCode = -1
        /\ request = [r \in Requests |-> "none"] /\ elapsed = 0
    BY DEF Init
  <2>4. TypeOK
    BY <2>1, <2>2, <2>3 DEF TypeOK, CleanupSteps
  <2>5. Clocks
    BY <2>1, <2>3 DEF Clocks
  <2>6. Spared
    BY <2>1, <2>3 DEF Spared, RequestsSpared
  <2>7. Clean
    BY <2>1, <2>3 DEF Clean, CleanExit
  <2> QED
    BY <2>4, <2>5, <2>6, <2>7 DEF Inv
<1>2. Inv /\ [Next]_vars => Inv'
  BY TypingStep, ClocksStep, SparedStep DEF Inv
<1> QED
  BY <1>1, <1>2, PTL DEF Spec

\* TypeOK: the flags of the handler stay consistent.
THEOREM TypeCorrect == Spec => []TypeOK
<1>1. Inv => TypeOK
  BY DEF Inv
<1> QED
  BY <1>1, InvInvariant, PTL

\* CleanExit: status 0 is never reported after an abort, an error of
\* server.close, a killed request or an unfinished cleanup.
THEOREM StatusTruthful == Spec => []CleanExit
<1>1. Inv => CleanExit
  BY DEF Inv, Clean
<1> QED
  BY <1>1, InvInvariant, PTL

\* DeadlineMet: no order of signals, callbacks and hanging disconnects keeps the
\* process past its deadline.
THEOREM DeadlineHolds == Spec => []DeadlineMet
<1>1. Inv => DeadlineMet
  BY DEF Inv, TypeOK, Clocks, DeadlineMet
<1> QED
  BY <1>1, InvInvariant, PTL

\* RequestsSpared: nothing is aborted or killed early, and the stores outlive
\* the requests.
THEOREM RequestsProtected == Spec => []RequestsSpared
<1>1. Inv => RequestsSpared
  BY DEF Inv, Spared
<1> QED
  BY <1>1, InvInvariant, PTL
=============================================================================
