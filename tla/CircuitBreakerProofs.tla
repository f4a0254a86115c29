------------------------ MODULE CircuitBreakerProofs ------------------------
(***************************************************************************)
(* Proofs about the provider adapter's circuit breaker, for every number   *)
(* of requests, threshold, cooldowns, budget and retry limit.              *)
(*                                                                         *)
(* ProbeAlive is inductive with the types. The exclusive probe needs the   *)
(* strengthening Exclusion: requests still in flight while the circuit is  *)
(* open began before it opened, so that a search budget below the cooldown *)
(* leaves none when the probe is admitted. With it every step maps to a    *)
(* step of the abstract circuit or to none.                                *)
(***************************************************************************)
EXTENDS CircuitBreaker, TLAPS

USE ThresholdAssumption, CooldownsAssumption, TotalTimeoutAssumption,
    MaxRetriesAssumption

\* A search backs off only when a retry is left to it.
BackoffBound == \A r \in Requests : pc[r] = "backingOff" => attempt[r] < MaxRetries

TypeInv == TypeOK /\ BackoffBound

\* Every assignment to the circuit keeps it well typed.
LEMMA CircuitTyping ==
    ASSUME TypeOK, NEW r \in Requests,
           closeCircuit \/ recordProviderFailure \/ recordCanceledProbe(r)
             \/ UNCHANGED circuit
    PROVE  /\ failures' \in 0..Threshold
           /\ sinceOpened' \in {NotOpen} \cup 0..cooldown
           /\ halfOpenInFlight' \in BOOLEAN
<1>1. CASE closeCircuit
  <2>1. failures' \in 0..Threshold /\ sinceOpened' \in {NotOpen} \cup 0..cooldown
    BY <1>1 DEF closeCircuit
  <2>2. halfOpenInFlight' \in BOOLEAN
    BY <1>1 DEF closeCircuit
  <2> QED BY <2>1, <2>2
<1>2. CASE recordProviderFailure
  <2>1. failures' \in 0..Threshold /\ sinceOpened' \in {NotOpen} \cup 0..cooldown
    BY <1>2 DEF TypeOK, recordProviderFailure, NotOpen
  <2>2. halfOpenInFlight' \in BOOLEAN
    BY <1>2 DEF recordProviderFailure
  <2> QED BY <2>1, <2>2
<1>3. CASE recordCanceledProbe(r)
  <2>1. failures' \in 0..Threshold /\ sinceOpened' \in {NotOpen} \cup 0..cooldown
    BY <1>3 DEF TypeOK, recordCanceledProbe, circuit
  <2>2. halfOpenInFlight' \in BOOLEAN
    BY <1>3, Zenon DEF TypeOK, recordCanceledProbe, circuit
  <2> QED BY <2>1, <2>2
<1>4. CASE UNCHANGED circuit
  BY <1>4 DEF TypeOK, circuit
<1> QED
  BY <1>1, <1>2, <1>3, <1>4

\* Leaving a search resets its slot and keeps the slots well typed.
LEMMA LeaveTyping ==
    ASSUME TypeInv, NEW r \in Requests, Leave(r)
    PROVE  /\ BackoffBound'
           /\ draining' \in BOOLEAN /\ cooldown' = cooldown
           /\ pc' \in [Requests -> {"idle", "requesting", "backingOff"}]
           /\ circuitState' \in [Requests -> {"closed", "half_open"}]
           /\ age' \in [Requests -> 0..TotalTimeout]
           /\ attempt' \in [Requests -> 0..MaxRetries]
           /\ aborted' \in [Requests -> SUBSET {"client", "deadline"}]
<1>1. BackoffBound'
  BY DEF TypeInv, TypeOK, BackoffBound, Leave
<1>2. QED
  BY <1>1 DEF TypeInv, TypeOK, Leave, process

\* A search settles, with one of the four effects on the circuit.
Settles(r) ==
    /\ Active(r)
    /\ Leave(r)
    /\ \/ closeCircuit
       \/ recordProviderFailure
       \/ recordCanceledProbe(r)
       \/ circuitState[r] = "closed" /\ UNCHANGED circuit

\* A search goes on, or one of its signals fires: no effect on the circuit.
Proceeds(r) ==
    /\ UNCHANGED <<circuit, process, circuitState, age>>
    /\ pc' \in [Requests -> {"idle", "requesting", "backingOff"}]
    /\ attempt' \in [Requests -> 0..MaxRetries]
    /\ aborted' \in [Requests -> SUBSET {"client", "deadline"}]
    /\ \A q \in Requests : pc'[q] = "idle" <=> pc[q] = "idle"
    /\ BackoffBound'

\* Every step of a search begins it, settles it or lets it proceed.
LEMMA StepKinds ==
    ASSUME TypeInv, NEW r \in Requests, Step(r)
    PROVE  SearchClosed(r) \/ SearchProbe(r) \/ Settles(r) \/ Proceeds(r)
<1>1. CASE SearchClosed(r) \/ SearchProbe(r)
  BY <1>1
<1>2. CASE Succeed(r)
  BY <1>2 DEF Succeed, Answered, Active, Settles
<1>3. CASE FailDefinitely(r)
  BY <1>3 DEF FailDefinitely, Answered, Active, Settles
<1>4. CASE FailTransiently(r)
  <2>1. CASE /\ attempt[r] < MaxRetries 
             /\ pc' = [pc EXCEPT ![r] = "backingOff"]
             /\ UNCHANGED <<circuit, process, circuitState, age, attempt, aborted>>
    <3>1. BackoffBound'
      BY <1>4, <2>1 DEF TypeInv, TypeOK, BackoffBound
    <3>2. QED
      BY <1>4, <2>1, <3>1 DEF FailTransiently, Answered, TypeInv, TypeOK, Proceeds
  <2>2. CASE recordProviderFailure /\ Leave(r)
    BY <1>4, <2>2 DEF FailTransiently, Answered, Active, Settles
  <2> QED BY <1>4, <2>1, <2>2 DEF FailTransiently
<1>5. CASE FailPermanently(r)
  <2>1. CASE circuitState[r] = "half_open"
    BY <1>5, <2>1 DEF FailPermanently, Answered, Active, Settles
  <2>2. CASE circuitState[r] # "half_open"
    BY <1>5, <2>2 DEF FailPermanently, Answered, Active, Settles, TypeInv, TypeOK
  <2> QED BY <2>1, <2>2
<1>6. CASE Retry(r)
  <2>1. pc' \in [Requests -> {"idle", "requesting", "backingOff"}]
        /\ \A q \in Requests : pc'[q] = "idle" <=> pc[q] = "idle"
    BY <1>6 DEF Retry, TypeInv, TypeOK
  <2>2. attempt[r] < MaxRetries
    BY <1>6 DEF Retry, TypeInv, BackoffBound
  <2>3. attempt' \in [Requests -> 0..MaxRetries]
    BY <1>6, <2>2 DEF Retry, TypeInv, TypeOK
  <2>4. BackoffBound'
    BY <1>6 DEF Retry, TypeInv, TypeOK, BackoffBound
  <2>5. QED
    BY <1>6, <2>1, <2>3, <2>4 DEF Retry, TypeInv, TypeOK, Proceeds
<1>7. CASE TimeOut(r)
  BY <1>7 DEF TimeOut, Settles
<1>8. CASE Cancel(r)
  BY <1>8 DEF Cancel, Settles
<1>9. CASE ClientAbort(r) \/ DeadlineFires(r)
  BY <1>9 DEF ClientAbort, DeadlineFires, Abort, TypeInv, TypeOK, BackoffBound, Proceeds
<1> QED
  BY <1>1, <1>2, <1>3, <1>4, <1>5, <1>6, <1>7, <1>8, <1>9 DEF Step

-----------------------------------------------------------------------------
(* Types                                                                   *)

\* The clock keeps the types: a live search is below its budget when it ticks.
LEMMA TickTyping == TypeInv /\ Tick => TypeInv'
<1> SUFFICES ASSUME TypeInv, Tick PROVE TypeInv'
  OBVIOUS
<1>1. sinceOpened' \in {NotOpen} \cup 0..cooldown
  BY DEF TypeInv, TypeOK, Tick, NotOpen
<1>2. age' \in [Requests -> 0..TotalTimeout]
  BY DEF TypeInv, TypeOK, Tick, Active
<1>3. QED
  BY <1>1, <1>2 DEF TypeInv, TypeOK, BackoffBound, Tick, process

\* Every step keeps the types and the bound on retries.
LEMMA TypeStep == TypeInv /\ [Next]_vars => TypeInv'
<1> SUFFICES ASSUME TypeInv, [Next]_vars PROVE TypeInv'
  OBVIOUS
<1>1. CASE Tick
  BY <1>1, TickTyping
<1>2. CASE abortShutdown
  BY <1>2 DEF TypeInv, TypeOK, BackoffBound, abortShutdown, circuit, search
<1>3. ASSUME NEW r \in Requests, Step(r) PROVE TypeInv'
  <2>1. CASE SearchClosed(r)
    BY <2>1 DEF SearchClosed, Begin, TypeInv, TypeOK, BackoffBound, circuit, process
  <2>2. CASE SearchProbe(r)
    BY <2>2 DEF SearchProbe, Begin, TypeInv, TypeOK, BackoffBound, process
  <2>3. CASE Settles(r)
    <3>1. /\ failures' \in 0..Threshold
          /\ sinceOpened' \in {NotOpen} \cup 0..cooldown
          /\ halfOpenInFlight' \in BOOLEAN
      BY <2>3, CircuitTyping DEF Settles, TypeInv
    <3>2. QED
      BY <2>3, <3>1, LeaveTyping DEF Settles, TypeInv, TypeOK
  <2>4. CASE Proceeds(r)
    BY <2>4 DEF Proceeds, TypeInv, TypeOK, circuit, process
  <2> QED
    BY <1>3, <2>1, <2>2, <2>3, <2>4, StepKinds
<1>4. CASE UNCHANGED vars
  BY <1>4 DEF TypeInv, TypeOK, BackoffBound, vars, circuit, process, search
<1> QED
  BY <1>1, <1>2, <1>3, <1>4 DEF Next

\* Nothing is in flight at first, so the types and the bound hold.
LEMMA InitTyping == Init => TypeInv
<1> SUFFICES ASSUME Init PROVE TypeInv
  OBVIOUS
<1>1. /\ failures \in 0..Threshold
      /\ sinceOpened \in {NotOpen} \cup 0..cooldown
  BY DEF Init
<1>2. /\ halfOpenInFlight \in BOOLEAN
      /\ draining \in BOOLEAN
  BY Zenon DEF Init
<1>3. /\ age \in [Requests -> 0..TotalTimeout]
      /\ attempt \in [Requests -> 0..MaxRetries]
  BY DEF Init
<1>4. QED
  BY <1>1, <1>2, <1>3 DEF Init, TypeInv, TypeOK, BackoffBound

\* Type correctness of the provider adapter.
THEOREM TypeCorrect == Spec => []TypeOK
<1>1. Init => TypeInv
  BY InitTyping
<1>2. TypeInv /\ [Next]_vars => TypeInv'
  BY TypeStep
<1>3. TypeInv => TypeOK
  BY DEF TypeInv
<1> QED
  BY <1>1, <1>2, <1>3, PTL DEF Spec

-----------------------------------------------------------------------------
(* The half-open slot is never orphaned                                    *)

\* A step of the circuit clears the slot whenever the settling search is a
\* probe, and a search that is none leaves the others alone.
LEMMA AliveStep == TypeInv /\ ProbeAlive /\ [Next]_vars => ProbeAlive'
<1> SUFFICES ASSUME TypeInv, ProbeAlive, [Next]_vars, halfOpenInFlight'
             PROVE  sinceOpened' = NotOpen /\ \E r \in Requests : Probe(r)'
  BY DEF ProbeAlive
<1>1. CASE Tick
  <2>1. PICK q \in Requests : Probe(q)
    BY <1>1 DEF Tick, ProbeAlive
  <2>2. Probe(q)'
    BY <1>1, <2>1 DEF Tick, Probe, Active
  <2>3. sinceOpened' = NotOpen
    BY <1>1 DEF Tick, ProbeAlive, NotOpen
  <2> QED BY <2>2, <2>3
<1>2. CASE abortShutdown \/ UNCHANGED vars
  BY <1>2 DEF abortShutdown, vars, circuit, search, ProbeAlive, Probe, Active
<1>3. ASSUME NEW r \in Requests, Step(r)
      PROVE  sinceOpened' = NotOpen /\ \E q \in Requests : Probe(q)'
  <2>1. CASE SearchClosed(r)
    BY <2>1 DEF SearchClosed, circuit
  <2>2. CASE SearchProbe(r)
    <3>1. Probe(r)'
      BY <2>2 DEF SearchProbe, Begin, TypeInv, TypeOK, Probe, Active
    <3>2. QED BY <2>2, <3>1 DEF SearchProbe
  <2>3. CASE Settles(r)
    <3>1. circuitState[r] # "half_open" /\ UNCHANGED circuit
      BY <2>3 DEF Settles, closeCircuit, recordProviderFailure, recordCanceledProbe
    <3>2. PICK q \in Requests : Probe(q)
      BY <3>1 DEF circuit, ProbeAlive
    <3>3. q # r
      BY <3>1, <3>2 DEF Probe
    <3>4. Probe(q)'
      BY <2>3, <3>2, <3>3 DEF Settles, Leave, TypeInv, TypeOK, Probe, Active
    <3>5. QED BY <3>1, <3>4 DEF circuit, ProbeAlive
  <2>4. CASE Proceeds(r)
    BY <2>4 DEF Proceeds, circuit, ProbeAlive, Probe, Active
  <2> QED
    BY <1>3, <2>1, <2>2, <2>3, <2>4, StepKinds
<1> QED
  BY <1>1, <1>2, <1>3 DEF Next

\* The half-open flag, which refuses every caller, is only ever set while a
\* probe is in flight: no order of answers, timeouts, cancellations and
\* shutdown leaves the circuit refusing for ever.
THEOREM SlotNeverOrphaned == Spec => []ProbeAlive
<1>1. Init => TypeInv /\ ProbeAlive
  BY InitTyping DEF Init, ProbeAlive
<1>2. TypeInv /\ ProbeAlive /\ [Next]_vars => TypeInv' /\ ProbeAlive'
  BY TypeStep, AliveStep
<1> QED
  BY <1>1, <1>2, PTL DEF Spec

-----------------------------------------------------------------------------
(* One probe at a time, when no search outlives a cooldown                 *)

\* Only the probe itself clears the slot it holds.
ProbeHoldsSlot == \A r \in Requests : Probe(r) => halfOpenInFlight

\* While a probe is in flight no other search is.
Alone == \A r, q \in Requests : Probe(r) /\ Active(q) => q = r

\* A search in flight while the circuit is open began before it opened.
OlderThanOpening ==
    sinceOpened # NotOpen => \A r \in Requests : Active(r) => age[r] >= sinceOpened

\* An open or half-open circuit has used up its failures.
Exhausted == sinceOpened # NotOpen \/ halfOpenInFlight => failures = Threshold

Exclusion ==
    /\ TypeInv
    /\ ProbeAlive
    /\ ProbeHoldsSlot
    /\ Alone
    /\ OlderThanOpening
    /\ Exhausted

\* The settling of a search that is not a probe but has an effect on the slot,
\* or of the only probe, leaves no probe behind.
LEMMA SettleExclusion ==
    ASSUME Exclusion, NEW r \in Requests, Settles(r)
    PROVE  ProbeHoldsSlot' /\ Alone' /\ OlderThanOpening' /\ Exhausted'
<1> USE DEF Exclusion
<1>1. \A q \in Requests : /\ Active(q)' <=> Active(q) /\ q # r
                          /\ Probe(q)' <=> Probe(q) /\ q # r
                          /\ Active(q)' => age'[q] = age[q]
  BY DEF Settles, Leave, TypeInv, TypeOK, Active, Probe
<1>2. Alone'
  BY <1>1 DEF Alone
<1>3. ProbeHoldsSlot'
  <2> SUFFICES ASSUME NEW q \in Requests, Probe(q)' PROVE halfOpenInFlight'
    BY DEF ProbeHoldsSlot
  <2>1. Probe(q) /\ q # r
    BY <1>1
  <2>2. FALSE
    BY <2>1 DEF Settles, Alone
  <2> QED BY <2>2
<1>4. OlderThanOpening'
  <2> SUFFICES ASSUME sinceOpened' # NotOpen, NEW q \in Requests, Active(q)'
               PROVE  age'[q] >= sinceOpened'
    BY DEF OlderThanOpening
  <2>1. sinceOpened' = 0 \/ sinceOpened' = sinceOpened
    BY DEF Settles, closeCircuit, recordProviderFailure, recordCanceledProbe, circuit
  <2>2. Active(q) /\ age'[q] = age[q] /\ age[q] \in 0..TotalTimeout
    BY <1>1 DEF TypeInv, TypeOK
  <2>3. CASE sinceOpened' = 0
    BY <2>2, <2>3
  <2>4. CASE sinceOpened' = sinceOpened
    BY <2>2, <2>4 DEF OlderThanOpening
  <2> QED BY <2>1, <2>3, <2>4
<1>5. Exhausted'
  <2>1. CASE closeCircuit
    BY <2>1 DEF closeCircuit, Exhausted
  <2>2. CASE recordProviderFailure
    <3>1. failures \in 0..Threshold
      BY DEF TypeInv, TypeOK
    <3>2. CASE sinceOpened = NotOpen
      BY <2>2, <3>1, <3>2 DEF recordProviderFailure, Exhausted
    <3>3. CASE sinceOpened # NotOpen
      BY <2>2, <3>1, <3>3 DEF recordProviderFailure, Exhausted
    <3> QED BY <3>2, <3>3
  <2>3. CASE recordCanceledProbe(r)
    BY <2>3 DEF recordCanceledProbe, Settles, ProbeHoldsSlot, Probe, Exhausted, circuit
  <2>4. CASE UNCHANGED circuit
    BY <2>4 DEF circuit, Exhausted
  <2> QED BY <2>1, <2>2, <2>3, <2>4 DEF Settles
<1> QED
  BY <1>2, <1>3, <1>4, <1>5

\* When the cooldown has passed, whatever began before the opening is gone.
LEMMA NoneOlder ==
    ASSUME ShortBudget, Exclusion, NEW r \in Requests, SearchProbe(r)
    PROVE  \A q \in Requests : ~Active(q)
<1> USE DEF Exclusion
<1>0. cooldown \in Nat \ {0}
  BY DEF TypeInv, TypeOK
<1> SUFFICES ASSUME NEW q \in Requests, Active(q) PROVE FALSE
  BY Zenon
<1>1. age[q] >= cooldown /\ age[q] \in 0..TotalTimeout
  BY DEF SearchProbe, OlderThanOpening, NotOpen, TypeInv, TypeOK
<1> QED BY <1>0, <1>1 DEF ShortBudget

\* So the admitted probe is alone.
LEMMA ProbeAdmission ==
    ASSUME ShortBudget, Exclusion, NEW r \in Requests, SearchProbe(r)
    PROVE  ProbeHoldsSlot' /\ Alone' /\ OlderThanOpening' /\ Exhausted'
<1> USE DEF Exclusion
<1>0. cooldown \in Nat \ {0}
  BY DEF TypeInv, TypeOK
<1>1. \A q \in Requests : ~Active(q)
  BY NoneOlder
<1>2. \A q \in Requests : Active(q)' => q = r
  BY <1>1 DEF SearchProbe, Begin, TypeInv, TypeOK, Active
<1>3. ProbeHoldsSlot'
  BY DEF SearchProbe, ProbeHoldsSlot
<1>4. Alone'
  BY <1>2 DEF Alone, Probe
<1>5. OlderThanOpening'
  BY DEF SearchProbe, OlderThanOpening
<1>6. Exhausted'
  BY <1>0 DEF SearchProbe, Exhausted, NotOpen
<1> QED
  BY <1>3, <1>4, <1>5, <1>6

\* Every step keeps the exclusion.
LEMMA ExclusionStep ==
    ASSUME ShortBudget, Exclusion, [Next]_vars
    PROVE  Exclusion'
<1> USE DEF Exclusion
<1>1. TypeInv' /\ ProbeAlive'
  BY TypeStep, AliveStep
<1>2. CASE Tick
  <2>1. \A q \in Requests : /\ Active(q)' <=> Active(q)
                            /\ Probe(q)' <=> Probe(q)
    BY <1>2 DEF Tick, Active, Probe
  <2>2. ProbeHoldsSlot' /\ Alone'
    BY <1>2, <2>1 DEF Tick, ProbeHoldsSlot, Alone
  <2>3. OlderThanOpening'
    <3> SUFFICES ASSUME sinceOpened' # NotOpen, NEW q \in Requests, Active(q)'
                 PROVE  age'[q] >= sinceOpened'
      BY DEF OlderThanOpening
    <3>1. Active(q) /\ age[q] \in 0..TotalTimeout /\ age'[q] = age[q] + 1
      BY <1>2, <2>1 DEF Tick, TypeInv, TypeOK
    <3>2. sinceOpened \in 0..cooldown
      BY <1>2 DEF Tick, TypeInv, TypeOK, NotOpen
    <3>3. age[q] >= sinceOpened
      BY <3>1, <3>2 DEF OlderThanOpening, NotOpen
    <3>4. sinceOpened' = sinceOpened \/ sinceOpened' = sinceOpened + 1
      BY <1>2 DEF Tick
    <3> QED BY <3>1, <3>2, <3>3, <3>4
  <2>4. Exhausted'
    BY <1>2 DEF Tick, Exhausted, TypeInv, TypeOK, NotOpen
  <2> QED BY <1>1, <2>2, <2>3, <2>4
<1>3. CASE abortShutdown \/ UNCHANGED vars
  <2>1. UNCHANGED <<circuit, search>>
    BY <1>3 DEF abortShutdown, vars
  <2> QED
    BY <1>1, <2>1 DEF circuit, search, ProbeHoldsSlot, Alone,
                      OlderThanOpening, Exhausted, Probe, Active
<1>4. ASSUME NEW r \in Requests, Step(r)
      PROVE  ProbeHoldsSlot' /\ Alone' /\ OlderThanOpening' /\ Exhausted'
  <2>1. CASE SearchClosed(r)
    <3>1. \A q \in Requests : ~Probe(q)
      BY <2>1 DEF SearchClosed, ProbeHoldsSlot
    <3>2. \A q \in Requests : ~Probe(q)'
      BY <2>1, <3>1 DEF SearchClosed, Begin, TypeInv, TypeOK, Probe, Active
    <3> QED
      BY <2>1, <3>2 DEF SearchClosed, circuit, ProbeHoldsSlot, Alone,
                        OlderThanOpening, Exhausted
  <2>2. CASE SearchProbe(r)
    BY <2>2, ProbeAdmission
  <2>3. CASE Settles(r)
    BY <2>3, SettleExclusion
  <2>4. CASE Proceeds(r)
    BY <2>4 DEF Proceeds, circuit, ProbeHoldsSlot, Alone,
                OlderThanOpening, Exhausted, Probe, Active
  <2> QED
    BY <1>4, <2>1, <2>2, <2>3, <2>4, StepKinds
<1> QED
  BY <1>1, <1>2, <1>3, <1>4 DEF Next

\* Nothing is in flight at first.
LEMMA InitExclusion == Init => Exclusion
<1> SUFFICES ASSUME Init PROVE Exclusion
  OBVIOUS
<1>1. \A r \in Requests : ~Active(r)
  <2>1. pc = [r \in Requests |-> "idle"]
    BY DEF Init
  <2> QED BY <2>1, Zenon DEF Active
<1>2. ProbeAlive /\ ProbeHoldsSlot /\ Alone /\ OlderThanOpening /\ Exhausted
  BY <1>1 DEF Init, ProbeAlive, ProbeHoldsSlot, Alone, OlderThanOpening,
              Exhausted, Probe
<1>3. QED
  BY <1>2, InitTyping DEF Exclusion

\* The cooldown of a process never changes.
LEMMA CooldownStays ==
    ASSUME TypeInv, [Next]_vars
    PROVE  cooldown' = cooldown /\ (ShortBudget' <=> ShortBudget)
<1>1. ASSUME NEW r \in Requests, Step(r) PROVE cooldown' = cooldown
  <2>1. CASE SearchClosed(r) \/ SearchProbe(r)
    BY <2>1 DEF SearchClosed, SearchProbe, Begin, process
  <2>2. CASE Settles(r) \/ Proceeds(r)
    BY <2>2 DEF Settles, Leave, Proceeds, process
  <2> QED BY <1>1, <2>1, <2>2, StepKinds
<1>2. cooldown' = cooldown
  BY <1>1 DEF Next, Tick, abortShutdown, vars, process
<1> QED
  BY <1>2 DEF ShortBudget

\* The exclusion, as an invariant of every process.
ExclusionInv == TypeInv /\ (ShortBudget => Exclusion)

\* It holds at first, and every step keeps it.
LEMMA ExclusionInvariant ==
    /\ Init => ExclusionInv
    /\ ExclusionInv /\ [Next]_vars => ExclusionInv'
<1>1. Init => ExclusionInv
  BY InitExclusion, InitTyping DEF ExclusionInv
<1>2. ASSUME ExclusionInv, [Next]_vars PROVE ExclusionInv'
  <2>1. TypeInv'
    BY <1>2, TypeStep DEF ExclusionInv
  <2>2. ShortBudget' => ShortBudget
    BY <1>2, CooldownStays DEF ExclusionInv
  <2>3. ShortBudget => Exclusion'
    BY <1>2, ExclusionStep DEF ExclusionInv
  <2> QED BY <2>1, <2>2, <2>3 DEF ExclusionInv
<1> QED
  BY <1>1, <1>2

\* When no search outlives a cooldown, the half-open probe is exclusive: while
\* it is in flight, every other caller is refused.
THEOREM ExclusiveProbe == Spec => []ProbeExclusive
<1>1. ExclusionInv => ProbeExclusive
  BY DEF ExclusionInv, Exclusion, Alone, ProbeExclusive
<1> QED
  BY <1>1, ExclusionInvariant, PTL DEF Spec

-----------------------------------------------------------------------------
(* The circuit breaker of the documentation                                *)

\* What the abstract circuit makes of the variables of the process.
LEMMA Phases ==
    ASSUME Exclusion
    PROVE  /\ circuitPhase = "half_open" <=> halfOpenInFlight
           /\ circuitPhase = "open" <=> sinceOpened # NotOpen
           /\ circuitPhase = "closed" <=> ~halfOpenInFlight /\ sinceOpened = NotOpen
           /\ halfOpenInFlight => sinceOpened = NotOpen
           /\ circuitPhase # "closed" => failures = Threshold
           /\ failures \in 0..Threshold
           /\ sinceOpened # NotOpen => sinceOpened \in 0..cooldown
BY DEF Exclusion, ProbeAlive, Exhausted, circuitPhase, TypeInv, TypeOK

\* A call that ends leaves the calls in flight, and no other does.
LEMMA SettleEnds ==
    ASSUME Exclusion, NEW r \in Requests, Settles(r)
    PROVE  Breaker!End(r) /\ cooldown' = cooldown
<1>1. \A q \in Requests : Active(q)' <=> Active(q) /\ q # r
  BY DEF Exclusion, Settles, Leave, TypeInv, TypeOK, Active
<1> QED
  BY <1>1 DEF Settles, Leave, process, Breaker!End

\* A probe is in flight exactly while the circuit is half-open, and then it is
\* the call that ends.
LEMMA SettledProbe ==
    ASSUME Exclusion, NEW r \in Requests, Settles(r)
    PROVE  halfOpenInFlight <=> circuitState[r] = "half_open"
<1>1. circuitState[r] = "half_open" => halfOpenInFlight
  BY DEF Settles, Exclusion, ProbeHoldsSlot, Probe
<1>2. ASSUME halfOpenInFlight PROVE circuitState[r] = "half_open"
  <2>1. PICK q \in Requests : Probe(q)
    BY <1>2 DEF Exclusion, ProbeAlive
  <2>2. q = r
    BY <2>1 DEF Settles, Exclusion, Alone
  <2> QED BY <2>1, <2>2 DEF Probe
<1> QED
  BY <1>1, <1>2

\* Whatever the search and the circuit have come to, the end of a search is
\* the end of a call.
LEMMA SettleImplements ==
    ASSUME Exclusion, NEW r \in Requests, Settles(r)
    PROVE  Breaker!Succeed(r) \/ Breaker!Fail(r) \/ Breaker!Abandon(r)
<1> USE SettleEnds, Phases
<1>1. CASE closeCircuit
  <2>1. Breaker!Close
    BY <1>1 DEF closeCircuit, circuitPhase, Breaker!Close, Breaker!Move
  <2> QED BY <2>1 DEF Breaker!Succeed
<1>2. CASE recordProviderFailure
  <2>1. CASE sinceOpened # NotOpen
    <3>1. /\ ~halfOpenInFlight /\ ~halfOpenInFlight'
          /\ sinceOpened' = sinceOpened /\ failures' = failures
      BY <1>2, <2>1 DEF recordProviderFailure
    <3>2. Breaker!Stay
      BY <3>1 DEF Breaker!Stay, circuitPhase
    <3> QED BY <2>1, <3>2 DEF Breaker!Fail
  <2>2. CASE sinceOpened = NotOpen /\ failures + 1 < Threshold
    <3>1. ~halfOpenInFlight /\ circuitPhase = "closed"
      BY <2>2
    <3>2. Breaker!Move("closed", failures + 1)
      BY <1>2, <2>2, <3>1 DEF recordProviderFailure, circuitPhase, Breaker!Move
    <3> QED BY <2>2, <3>1, <3>2 DEF Breaker!Fail
  <2>3. CASE sinceOpened = NotOpen /\ failures + 1 >= Threshold
    <3>1. failures' = Threshold /\ sinceOpened' = 0 /\ ~halfOpenInFlight'
      BY <1>2, <2>3 DEF recordProviderFailure
    <3>2. Breaker!Open
      BY <3>1 DEF circuitPhase, NotOpen, Breaker!Open, Breaker!Move
    <3>3. circuitPhase = "closed" \/ circuitPhase = "half_open"
      BY <2>3
    <3> QED BY <2>3, <3>2, <3>3 DEF Breaker!Fail
  <2> QED BY <2>1, <2>2, <2>3
<1>3. CASE \/ recordCanceledProbe(r)
           \/ circuitState[r] = "closed" /\ UNCHANGED circuit
  <2>1. CASE circuitState[r] = "half_open"
    <3>1. failures = Threshold /\ circuitPhase = "half_open"
      BY <2>1, SettledProbe
    <3>2. Breaker!Open
      BY <1>3, <2>1, <3>1 DEF recordCanceledProbe, circuitPhase, NotOpen,
                              Breaker!Open, Breaker!Move
    <3> QED BY <3>1, <3>2 DEF Breaker!Abandon
  <2>2. CASE circuitState[r] # "half_open"
    <3>1. circuitPhase # "half_open"
      BY <2>2, SettledProbe
    <3>2. Breaker!Stay
      BY <1>3, <2>2 DEF recordCanceledProbe, circuit, circuitPhase, Breaker!Stay
    <3> QED BY <3>1, <3>2 DEF Breaker!Abandon
  <2> QED BY <2>1, <2>2
<1> QED
  BY <1>1, <1>2, <1>3 DEF Settles

\* An admitted search is an admitted call: while the circuit is closed, or as
\* the probe, when those that saw the circuit open have ended.
LEMMA AdmissionImplements ==
    ASSUME ShortBudget, Exclusion, NEW r \in Requests,
           SearchClosed(r) \/ SearchProbe(r)
    PROVE  Breaker!Admit(r) \/ Breaker!AdmitProbe(r)
<1> USE Phases
<1>1. \A q \in Requests : Active(q)' <=> Active(q) \/ q = r
  BY DEF SearchClosed, SearchProbe, Begin, Exclusion, TypeInv, TypeOK, Active
<1>2. CASE SearchClosed(r)
  <2>1. Breaker!Stay
    BY <1>2 DEF SearchClosed, Begin, circuit, process, circuitPhase, Breaker!Stay
  <2> QED BY <1>1, <1>2, <2>1 DEF SearchClosed, Breaker!Admit
<1>3. CASE SearchProbe(r)
  <2>0. cooldown \in Nat \ {0}
    BY DEF Exclusion, TypeInv, TypeOK
  <2>1. \A q \in Requests : ~Active(q)
    BY <1>3, NoneOlder
  <2>2. circuitPhase = "open" /\ sinceOpened = cooldown
    BY <1>3, <2>0 DEF SearchProbe, NotOpen
  <2>3. Breaker!Move("half_open", failures)
    BY <1>3 DEF SearchProbe, Begin, process, circuitPhase, Breaker!Move
  <2> QED BY <1>1, <2>0, <2>1, <2>2, <2>3 DEF NotOpen, Breaker!AdmitProbe
<1> QED
  BY <1>2, <1>3

\* Every step of the process is a step of the abstract circuit, or none.
LEMMA CircuitStep ==
    ASSUME ShortBudget, Exclusion, [Next]_vars
    PROVE  Breaker!Next \/ UNCHANGED Breaker!vars
<1>1. CASE Tick
  <2>1. \A q \in Requests : Active(q)' <=> Active(q)
    BY <1>1 DEF Tick, Active
  <2>2. UNCHANGED <<failures, halfOpenInFlight, cooldown>>
    BY <1>1 DEF Tick, process
  <2>3. CASE sinceOpened \in 0..(cooldown - 1)
    <3>0. cooldown \in Nat \ {0}
      BY DEF Exclusion, TypeInv, TypeOK
    <3>1. sinceOpened' = sinceOpened + 1 /\ sinceOpened # NotOpen /\ sinceOpened' # NotOpen
      BY <1>1, <2>3, <3>0 DEF Tick, NotOpen
    <3>2. circuitPhase = "open" /\ circuitPhase' = circuitPhase
      BY <2>2, <3>1, Phases DEF circuitPhase
    <3>3. Breaker!Wait
      BY <2>1, <2>2, <2>3, <3>0, <3>1, <3>2 DEF Breaker!Wait
    <3> QED BY <3>3 DEF Breaker!Next
  <2>4. CASE sinceOpened \notin 0..(cooldown - 1)
    BY <1>1, <2>1, <2>2, <2>4 DEF Tick, circuitPhase, Breaker!vars
  <2> QED BY <2>3, <2>4
<1>2. CASE abortShutdown \/ UNCHANGED vars
  BY <1>2 DEF abortShutdown, vars, circuit, process, search, circuitPhase, Active, Breaker!vars
<1>3. ASSUME NEW r \in Requests, Step(r)
      PROVE  Breaker!Next \/ UNCHANGED Breaker!vars
  <2>1. CASE SearchClosed(r) \/ SearchProbe(r)
    BY <2>1, AdmissionImplements DEF Breaker!Next
  <2>2. CASE Settles(r)
    BY <2>2, SettleImplements DEF Breaker!Next
  <2>3. CASE Proceeds(r)
    <3>1. \A q \in Requests : Active(q)' <=> Active(q)
      BY <2>3 DEF Proceeds, Active
    <3> QED BY <2>3, <3>1 DEF Proceeds, circuit, process, circuitPhase, Breaker!vars
  <2> QED BY <1>3, <2>1, <2>2, <2>3, StepKinds DEF Exclusion
<1> QED
  BY <1>1, <1>2, <1>3 DEF Next

\* At first the circuit is closed and nothing is in flight.
LEMMA InitCircuit == Init => Breaker!Init
<1> SUFFICES ASSUME Init PROVE Breaker!Init
  OBVIOUS
<1>1. \A r \in Requests : ~Active(r)
  <2>1. pc = [r \in Requests |-> "idle"]
    BY DEF Init
  <2> QED BY <2>1, Zenon DEF Active
<1> QED
  BY <1>1 DEF Init, circuitPhase, Breaker!Init

\* When no search outlives a cooldown, the adapter is the circuit breaker of
\* the documentation: whatever order answers, retries, deadlines, aborts and
\* shutdown come in, no call is admitted while it is open, a probe is alone in
\* flight, and its end closes the circuit or opens it for a whole new cooldown.
THEOREM CircuitImplemented ==
    /\ Spec => ImplementsCircuit
    /\ Spec /\ ShortBudget => Breaker!Spec
<1>1. ASSUME ExclusionInv, [Next]_vars
      PROVE  /\ [ShortBudget => Breaker!Next \/ UNCHANGED Breaker!vars]_vars
             /\ ShortBudget => [Breaker!Next]_Breaker!vars
             /\ ShortBudget' <=> ShortBudget
  BY <1>1, CircuitStep, CooldownStays DEF ExclusionInv
<1>2. Init => Breaker!Init
  BY InitCircuit
<1> QED
  BY <1>1, <1>2, ExclusionInvariant, PTL DEF Spec, ImplementsCircuit, Breaker!Spec
=============================================================================
