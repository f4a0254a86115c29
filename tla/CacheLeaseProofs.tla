--------------------------- MODULE CacheLeaseProofs ---------------------------
(***************************************************************************)
(* Proofs about the cross-replica lease, for any set of loaders, any times *)
(* with the heartbeat below the time to live, and any number of faults:    *)
(* types, the waiter's deadline, the abstract lease, the way of a miss,    *)
(* the heartbeat that keeps an owner's lease alive, the single fill, and   *)
(* the leases that are left behind.                                        *)
(*                                                                         *)
(* The deadline needs Deadline, which counts what a sleeper still sleeps.  *)
(* The heartbeat needs Held, which relates the life of the lease to the    *)
(* next beat: it is renewed in full one heartbeat after it was, and a      *)
(* heartbeat is shorter than its life. While nothing fails, Left says who  *)
(* holds the lease at each place of a call, and Filling that an owner's    *)
(* articles are in the cache before its lease is free.                     *)
(***************************************************************************)
EXTENDS CacheLease, TLAPS

USE NoOneAssumption, TimesAssumption, FaultsAssumption
USE DEF Goto, Fault, Leave, redis, waiter, heartbeat

\* A call's time waited and still to sleep stay within its deadline, one tick
\* per fault apart.
Deadline ==
    \A l \in Loaders :
        pc[l] \in {"idle", "acquiring", "polling", "sleeping"} =>
            waited[l] + sleepLeft[l] <= Wait + (MaxFaults - faults)

\* An owner has had the lease, and only owners renew.
Owned ==
    \A l \in Loaders :
        /\ leased[l] => pc[l] \in {"loading", "writing", "releasing", "done"}
        /\ beating[l] \/ renewing[l] => leased[l]

\* TypeOK in two parts: what the clocks and the lease are, and what only says
\* yes or no.
Timed ==
    /\ lease \in Loaders \cup {NoOne}
    /\ leaseLeft \in 0..TTL
    /\ pc \in [Loaders -> {"idle", "acquiring", "won", "rechecking", "loading",
                           "writing", "releasing", "polling", "sleeping", "done"}]
    /\ waited \in [Loaders -> 0..(Wait + MaxFaults)]
    /\ sleepLeft \in [Loaders -> 0..MaxPoll]
    /\ renewLeft \in [Loaders -> 0..Heartbeat]
    /\ faults \in 0..MaxFaults

Flagged ==
    /\ fresh \in BOOLEAN
    /\ aborted \in [Loaders -> BOOLEAN]
    /\ leased \in [Loaders -> BOOLEAN]
    /\ result \in [Loaders -> {"none", "loaded"}]
    /\ beating \in [Loaders -> BOOLEAN]
    /\ renewing \in [Loaders -> BOOLEAN]

Inv == Timed /\ Flagged /\ Deadline /\ Owned

CallStep(l) == Start(l) \/ Progress(l) \/ Beat(l) \/ Renew(l) \/ Abort(l)

\* Every step of a call keeps the invariant.
LEMMA CallTyping ==
    ASSUME Inv, NEW l \in Loaders, CallStep(l)
    PROVE  Inv'
<1> USE DEF Inv, Timed, Flagged, Deadline, Owned
<1>1. CASE Start(l)
  BY <1>1 DEF Start
<1>2. CASE Acquire(l)
  BY <1>2 DEF Acquire, SetLease, AcquireFailed, LoadUnleased
<1>3. CASE Won(l)
  BY <1>3 DEF Won
<1>4. CASE Recheck(l)
  <2>1. Timed' /\ Deadline'
    BY <1>4 DEF Recheck, BecomeOwner
  <2>2. Flagged'
    BY <1>4 DEF Recheck, BecomeOwner
  <2>3. Owned'
    BY <1>4 DEF Recheck, BecomeOwner
  <2> QED BY <2>1, <2>2, <2>3
<1>5. CASE Poll(l)
  BY <1>5 DEF Poll, LoadUnleased, PollDelays
<1>6. CASE Wake(l)
  BY <1>6 DEF Wake
<1>7. CASE LoadSucceeds(l)
  BY <1>7 DEF LoadSucceeds
<1>8. CASE LoadFails(l)
  BY <1>8 DEF LoadFails, EndLoad
<1>9. CASE WriteFresh(l)
  <2>1. Timed' /\ Deadline'
    BY <1>9 DEF WriteFresh, EndLoad
  <2>2. Flagged'
    BY <1>9 DEF WriteFresh, EndLoad
  <2>3. Owned'
    BY <1>9 DEF WriteFresh, EndLoad
  <2> QED BY <2>1, <2>2, <2>3
<1>10. CASE Release(l)
  BY <1>10 DEF Release, releaseLease
<1>11. CASE Beat(l)
  BY <1>11 DEF Beat
<1>12. CASE Renew(l)
  <2>1. Timed' /\ Deadline'
    BY <1>12 DEF Renew, renewLease
  <2>2. Flagged'
    BY <1>12 DEF Renew, renewLease
  <2>3. Owned'
    BY <1>12 DEF Renew, renewLease
  <2> QED BY <2>1, <2>2, <2>3
<1>13. CASE Abort(l)
  BY <1>13 DEF Abort
<1> QED
  BY <1>1, <1>2, <1>3, <1>4, <1>5, <1>6, <1>7, <1>8, <1>9, <1>10, <1>11,
     <1>12, <1>13 DEF CallStep, Progress

\* So does the clock: a waiter that is overdue uses up a fault per tick.
LEMMA TickTyping == Inv /\ Tick => Inv'
<1> USE DEF Inv, Timed, Flagged, Deadline, Owned
<1> SUFFICES ASSUME Inv, Tick PROVE Inv'
  OBVIOUS
<1>1. faults' \in 0..MaxFaults /\ faults' <= faults
  BY DEF Tick
<1>2. /\ lease' \in Loaders \cup {NoOne}
      /\ leaseLeft' \in 0..TTL
      /\ sleepLeft' \in [Loaders -> 0..MaxPoll]
      /\ renewLeft' \in [Loaders -> 0..Heartbeat]
  BY DEF Tick, Less
<1>3. waited' \in [Loaders -> 0..(Wait + MaxFaults)]
  BY DEF Tick, Less, Timely
<1>4. Flagged' /\ Owned' /\ pc' = pc
  BY Zenon DEF Tick
<1>5. Deadline'
  BY <1>1, <1>4 DEF Tick, Less, Timely
<1> QED BY <1>1, <1>2, <1>3, <1>4, <1>5

\* The invariant is inductive.
LEMMA Typing == Inv /\ [Next]_vars => Inv'
<1> SUFFICES ASSUME Inv, [Next]_vars PROVE Inv'
  OBVIOUS
<1>1. ASSUME NEW l \in Loaders, CallStep(l) PROVE Inv'
  BY <1>1, CallTyping
<1>2. CASE Evict
  <2>1. Timed' /\ Deadline' /\ Owned'
    BY <1>2 DEF Evict, Inv, Timed, Deadline, Owned
  <2>2. Flagged'
    BY <1>2 DEF Evict, Inv, Flagged
  <2> QED BY <2>1, <2>2 DEF Inv
<1>3. CASE Tick
  BY <1>3, TickTyping
<1>4. CASE UNCHANGED vars
  BY <1>4 DEF vars, Inv, Timed, Flagged, Deadline, Owned
<1> QED
  BY <1>1, <1>2, <1>3, <1>4 DEF Next, CallStep

\* Types, deadlines and ownership hold in every reachable state.
THEOREM InvInvariant == Spec => []Inv
<1>1. Init => Inv
  <2> SUFFICES ASSUME Init PROVE Inv
    OBVIOUS
  <2>1. Timed /\ Deadline
    BY DEF Init, Timed, Deadline
  <2>2. Flagged
    BY DEF Init, Flagged
  <2>3. Owned
    BY DEF Init, Owned
  <2> QED BY <2>1, <2>2, <2>3 DEF Inv
<1> QED
  BY <1>1, Typing, PTL DEF Spec

\* TypeOK: every variable keeps its type, for every value of the constants.
THEOREM TypeCorrect == Spec => []TypeOK
<1>1. Inv => TypeOK
  BY Zenon DEF Inv, Timed, Flagged, TypeOK
<1> QED
  BY <1>1, InvInvariant, PTL

\* WaitBounded: no sequence of polls carries a waiter past its deadline.
THEOREM DeadlineKept == Spec => []WaitBounded
<1>1. Inv => WaitBounded
  BY DEF Inv, Timed, Deadline, WaitBounded
<1> QED
  BY <1>1, InvInvariant, PTL

-----------------------------------------------------------------------------
(* The abstract lease                                                      *)

USE DEF began, ended

\* A step that leaves the lease alone at most begins or ends one owner's work.
LEMMA LeaseUntouched ==
    ASSUME Inv, NEW l \in Loaders, UNCHANGED <<lease, leaseLeft>>,
           \/ UNCHANGED <<began, ended>>
           \/ began' = began \cup {l} /\ UNCHANGED ended
           \/ ended' = ended \cup {l} /\ UNCHANGED began
    PROVE  [LeaseSpec!Next]_LeaseSpec!vars
BY Zenon DEF LeaseSpec!Next, LeaseSpec!vars, LeaseSpec!Begin, LeaseSpec!End

\* Every step of a call is a step of the abstract lease, or leaves it alone.
LEMMA CallRefines ==
    ASSUME Inv, NEW l \in Loaders, CallStep(l)
    PROVE  [LeaseSpec!Next]_LeaseSpec!vars
<1> USE DEF Inv, Timed, Flagged
<1>1. CASE Start(l) \/ Won(l) \/ Poll(l) \/ Wake(l) \/ LoadSucceeds(l)
           \/ LoadFails(l) \/ WriteFresh(l) \/ Beat(l) \/ Abort(l)
  <2>1. UNCHANGED <<lease, leaseLeft>> /\ UNCHANGED began
    BY <1>1 DEF Start, Won, Poll, Wake, LoadSucceeds, LoadFails, WriteFresh,
                EndLoad, Beat, Abort, LoadUnleased
  <2>2. ended' = ended \/ ended' = ended \cup {l}
    BY <1>1 DEF Start, Won, Poll, Wake, LoadSucceeds, LoadFails, WriteFresh,
                EndLoad, Beat, Abort, LoadUnleased
  <2> QED BY <2>1, <2>2, LeaseUntouched
<1>2. CASE Recheck(l)
  <2>1. UNCHANGED <<lease, leaseLeft>>
    BY <1>2 DEF Recheck
  <2>2. \/ began' = began /\ ended' = ended \cup {l}
        \/ began' = began \cup {l} /\ ended' = ended
    BY <1>2 DEF Recheck, BecomeOwner
  <2> QED BY <2>1, <2>2, LeaseUntouched
<1>3. CASE Acquire(l)
  <2>1. began' = began /\ ended' \in {ended, ended \cup {l}} /\ l \notin ended
    BY <1>3 DEF Acquire, AcquireFailed, LoadUnleased
  <2>2. SetLease(l) \/ UNCHANGED <<lease, leaseLeft>>
    BY <1>3 DEF Acquire
  <2>3. CASE SetLease(l)
    BY <2>1, <2>3 DEF SetLease, LeaseSpec!Next, LeaseSpec!Acquire
  <2> QED BY <2>1, <2>2, <2>3, LeaseUntouched
<1>4. CASE Release(l)
  <2>1. began' = began /\ ended' = ended /\ l \in ended
    BY <1>4 DEF Release
  <2>2. releaseLease(l) \/ UNCHANGED <<lease, leaseLeft>>
    BY <1>4 DEF Release
  <2>3. CASE releaseLease(l) /\ lease = l
    BY <2>1, <2>3 DEF releaseLease, LeaseSpec!Next, LeaseSpec!Release
  <2> QED BY <2>1, <2>2, <2>3, LeaseUntouched DEF releaseLease
<1>5. CASE Renew(l)
  <2>1. began' = began /\ ended' = ended /\ l \in began
    BY <1>5 DEF Renew, Owned
  <2>2. renewLease(l) \/ UNCHANGED <<lease, leaseLeft>>
    BY <1>5 DEF Renew
  <2>3. CASE renewLease(l) /\ lease = l
    BY <2>1, <2>3 DEF renewLease, LeaseSpec!Next, LeaseSpec!Renew
  <2> QED BY <2>1, <2>2, <2>3, LeaseUntouched DEF renewLease
<1> QED
  BY <1>1, <1>2, <1>3, <1>4, <1>5 DEF CallStep, Progress

\* ImplementsLease: whatever fails, whatever is slow and whatever arrives late,
\* the lease commands of the replicas only do what the abstract lease allows.
THEOREM LeaseImplemented == Spec => ImplementsLease
<1>1. Init => LeaseSpec!Init
  BY DEF Init, LeaseSpec!Init
<1>2. Inv /\ [Next]_vars => [LeaseSpec!Next]_LeaseSpec!vars
  <2> SUFFICES ASSUME Inv, [Next]_vars PROVE [LeaseSpec!Next]_LeaseSpec!vars
    OBVIOUS
  <2>1. ASSUME NEW l \in Loaders, CallStep(l) PROVE [LeaseSpec!Next]_LeaseSpec!vars
    BY <2>1, CallRefines
  <2>2. CASE Evict
    BY <2>2 DEF Evict, LeaseSpec!vars
  <2>3. CASE Tick
    <3>1. UNCHANGED <<began, ended>>
      BY <2>3 DEF Tick
    <3>2. leaseLeft \in Nat
      BY DEF Inv, Timed
    <3>3. CASE leaseLeft > 0
      BY <2>3, <3>1, <3>2, <3>3 DEF Tick, Less, LeaseSpec!Next, LeaseSpec!Pass
    <3>4. CASE leaseLeft = 0
      BY <2>3, <3>1, <3>4 DEF Tick, Less, LeaseSpec!vars
    <3> QED BY <3>2, <3>3, <3>4
  <2>4. CASE UNCHANGED vars
    BY <2>4 DEF vars, LeaseSpec!vars
  <2> QED
    BY <2>1, <2>2, <2>3, <2>4 DEF Next, CallStep
<1> QED
  BY <1>1, <1>2, InvInvariant, PTL DEF Spec, ImplementsLease, LeaseSpec!Spec

-----------------------------------------------------------------------------
(* The heartbeat                                                           *)

\* The call holds a lease it has just won.
JustWon(l) == pc[l] \in {"won", "rechecking"}

\* The call loads as the owner, and nobody has aborted it.
Working(l) == leased[l] /\ pc[l] \in {"loading", "writing"} /\ ~aborted[l]

\* The time the lease has at least, while its owner works.
Assured(l) == (TTL - Heartbeat) + (IF renewing[l] THEN 0 ELSE renewLeft[l])

\* Without faults the lease of a working owner outlives the wait for the next
\* beat, by as much as the time to live exceeds the heartbeat.
Held ==
    Faultless =>
        \A l \in Loaders :
            /\ JustWon(l) => lease = l /\ leaseLeft = TTL
            /\ Working(l) => /\ beating[l]
                            /\ lease = l
                            /\ leaseLeft >= Assured(l)

\* A call does not touch another call's locals, nor the lease another holds.
LEMMA OthersUntouched ==
    ASSUME Inv, NEW l \in Loaders, CallStep(l), NEW m \in Loaders, m # l
    PROVE  /\ pc'[m] = pc[m] /\ renewLeft'[m] = renewLeft[m]
           /\ leased'[m] = leased[m] /\ aborted'[m] = aborted[m]
           /\ beating'[m] = beating[m] /\ renewing'[m] = renewing[m]
           /\ lease = m => UNCHANGED <<lease, leaseLeft>>
<1> USE DEF Inv, Timed, Flagged
<1>1. /\ pc'[m] = pc[m] /\ renewLeft'[m] = renewLeft[m]
      /\ leased'[m] = leased[m] /\ aborted'[m] = aborted[m]
      /\ beating'[m] = beating[m] /\ renewing'[m] = renewing[m]
  BY DEF CallStep, Progress, Start, Acquire, AcquireFailed, LoadUnleased, Won,
         Recheck, BecomeOwner, Poll, Wake, LoadSucceeds, LoadFails, WriteFresh,
         EndLoad, Release, Beat, Renew, Abort
<1>2. ASSUME lease = m PROVE UNCHANGED <<lease, leaseLeft>>
  BY <1>2 DEF CallStep, Progress, Start, Acquire, SetLease, Won, Recheck, Poll,
         Wake, LoadSucceeds, LoadFails, WriteFresh, Release, releaseLease, Beat,
         Renew, renewLease, Abort
<1> QED BY <1>1, <1>2

\* A call's own steps keep what it is assured of.
LEMMA OwnHeld ==
    ASSUME Inv, NEW l \in Loaders, CallStep(l), faults' = faults,
           JustWon(l) => lease = l /\ leaseLeft = TTL,
           Working(l) => beating[l] /\ lease = l /\ leaseLeft >= Assured(l)
    PROVE  /\ JustWon(l)' => lease' = l /\ leaseLeft' = TTL
           /\ Working(l)' => beating'[l] /\ lease' = l /\ leaseLeft' >= Assured(l)'
<1> USE DEF Inv, Timed, Flagged, JustWon, Working, Assured
<1>1. CASE Start(l) \/ Won(l) \/ Poll(l) \/ Wake(l) \/ Abort(l)
  BY <1>1 DEF Start, Won, Poll, Wake, Abort, LoadUnleased, Owned
<1>2. CASE Acquire(l)
  BY <1>2 DEF Acquire, AcquireFailed, LoadUnleased, SetLease, Owned
<1>3. CASE Recheck(l)
  BY <1>3 DEF Recheck, BecomeOwner, Owned
<1>4. CASE LoadSucceeds(l) \/ LoadFails(l) \/ WriteFresh(l) \/ Release(l)
  BY <1>4 DEF LoadSucceeds, LoadFails, WriteFresh, EndLoad, Release, Owned
<1>5. CASE Beat(l)
  BY <1>5 DEF Beat
<1>6. CASE Renew(l)
  BY <1>6 DEF Renew, renewLease
<1> QED
  BY <1>1, <1>2, <1>3, <1>4, <1>5, <1>6 DEF CallStep, Progress

\* While the heartbeat is in time the clock takes no lease from its owner.
LEMMA TickHolds ==
    ASSUME Inv, Tick, Held, faults' = faults, Faultless, NEW l \in Loaders
    PROVE  /\ JustWon(l)' => lease' = l /\ leaseLeft' = TTL
           /\ Working(l)' => beating'[l] /\ lease' = l /\ leaseLeft' >= Assured(l)'
<1> USE DEF Inv, Timed, Flagged
<1>1. Timely
  BY DEF Tick
<1>2. ~JustWon(l)'
  BY <1>1 DEF Timely, JustWon, Tick
<1>3. ASSUME Working(l)' PROVE beating'[l] /\ lease' = l /\ leaseLeft' >= Assured(l)'
  <2>1. beating[l] /\ lease = l /\ leaseLeft >= Assured(l)
    BY <1>3 DEF Tick, Working, Held
  <2>2. ~renewing[l] /\ renewLeft[l] > 0 /\ ~renewing'[l] /\ beating'[l]
    BY <1>1, <2>1 DEF Timely, Tick
  <2>3. renewLeft'[l] = renewLeft[l] - 1
    BY <2>2 DEF Tick, Less
  <2>4. leaseLeft' = leaseLeft - 1 /\ lease' = lease
    BY <2>1, <2>2 DEF Tick, Less, Assured
  <2> QED BY <2>1, <2>2, <2>3, <2>4 DEF Assured
<1> QED BY <1>2, <1>3

\* Held is inductive, relative to the invariant.
LEMMA Holding == Inv /\ Inv' /\ Held /\ [Next]_vars => Held'
<1> SUFFICES ASSUME Inv, Inv', Held, [Next]_vars, Faultless', NEW m \in Loaders
             PROVE  /\ JustWon(m)' => lease' = m /\ leaseLeft' = TTL
                    /\ Working(m)' => beating'[m] /\ lease' = m /\ leaseLeft' >= Assured(m)'
  BY Zenon DEF Held
<1> USE DEF Inv, Timed
<1>1. Faultless /\ faults' = faults
  BY DEF Faultless, Next, Start, Progress, Acquire, Won, Recheck, Poll, Wake,
         LoadSucceeds, LoadFails, WriteFresh, EndLoad, Release, Beat, Renew,
         Abort, Evict, Tick, vars
<1>2. /\ JustWon(m) => lease = m /\ leaseLeft = TTL
      /\ Working(m) => beating[m] /\ lease = m /\ leaseLeft >= Assured(m)
  BY <1>1 DEF Held
<1>3. ASSUME NEW l \in Loaders, CallStep(l), l = m
      PROVE  /\ JustWon(m)' => lease' = m /\ leaseLeft' = TTL
             /\ Working(m)' => beating'[m] /\ lease' = m /\ leaseLeft' >= Assured(m)'
  <2>1. CallStep(m)
    BY <1>3
  <2> QED BY <1>1, <1>2, <2>1, OwnHeld
<1>4. ASSUME NEW l \in Loaders, CallStep(l), l # m
      PROVE  /\ JustWon(m)' => lease' = m /\ leaseLeft' = TTL
             /\ Working(m)' => beating'[m] /\ lease' = m /\ leaseLeft' >= Assured(m)'
  <2>1. /\ pc'[m] = pc[m] /\ renewLeft'[m] = renewLeft[m]
        /\ leased'[m] = leased[m] /\ aborted'[m] = aborted[m]
        /\ beating'[m] = beating[m] /\ renewing'[m] = renewing[m]
        /\ lease = m => UNCHANGED <<lease, leaseLeft>>
    BY <1>4, OthersUntouched
  <2> QED BY <1>2, <2>1 DEF JustWon, Working, Assured
<1>5. CASE Evict \/ UNCHANGED vars
  BY <1>2, <1>5 DEF Evict, vars, JustWon, Working, Assured
<1>6. CASE Tick
  BY <1>1, <1>6, TickHolds
<1> QED
  BY <1>3, <1>4, <1>5, <1>6 DEF Next, CallStep

\* OwnerHolds: with a heartbeat below the time to live, and no failure, an owner
\* that works keeps its lease, however long its load takes.
THEOREM HeartbeatSuffices == Spec => []OwnerHolds
<1>1. Init => Held
  BY DEF Init, Held, JustWon, Working
<1>2. Held => OwnerHolds
  BY DEF Held, Working, OwnerHolds
<1>3. Spec => [](Inv /\ Held)
  BY <1>1, InvInvariant, Holding, PTL DEF Spec
<1> QED
  BY <1>2, <1>3, PTL

-----------------------------------------------------------------------------
(* The way of a miss                                                       *)

Coordinating(l) == pc[l] \in {"acquiring", "won", "rechecking", "polling", "sleeping"}

\* A call's own step is one step of its miss, or none: every await of the
\* coordinator is followed by a look at the signal.
LEMMA OwnMiss ==
    ASSUME Inv, NEW l \in Loaders, CallStep(l)
    PROVE  UNCHANGED MissOf(l)!vars \/ MissOf(l)!Next
<1> USE DEF Inv, Timed, Flagged, Place, MissOf!vars, MissOf!Go
<1>1. /\ pc' = [pc EXCEPT ![l] = pc'[l]]
      /\ aborted[l] \in BOOLEAN /\ fresh \in BOOLEAN
  BY DEF CallStep, Progress, Start, Acquire, AcquireFailed, LoadUnleased, Won,
         Recheck, BecomeOwner, Poll, Wake, LoadSucceeds, LoadFails, WriteFresh,
         EndLoad, Release, Beat, Renew, Abort, Goto, Leave
<1>2. CASE Start(l)
  <2>1. MissOf(l)!Begin
    BY <1>2 DEF Start, Goto, redis, MissOf!Begin
  <2> QED BY <2>1 DEF MissOf!Next
<1>3. ASSUME Coordinating(l), UNCHANGED <<aborted, fresh>>,
             \/ Coordinating(l)'
             \/ pc'[l] = "loading" /\ ~aborted[l]
             \/ pc'[l] \in {"releasing", "done"} /\ (aborted[l] \/ fresh)
      PROVE  UNCHANGED MissOf(l)!vars \/ MissOf(l)!Next
  <2>1. CASE Coordinating(l)'
    BY <1>3, <2>1 DEF Coordinating
  <2>2. CASE pc'[l] = "loading" /\ ~aborted[l]
    <3>1. MissOf(l)!Load
      BY <1>3, <2>2 DEF Coordinating, MissOf!Load
    <3> QED BY <3>1 DEF MissOf!Next
  <2>3. CASE pc'[l] \in {"releasing", "done"} /\ aborted[l]
    <3>1. MissOf(l)!GiveUp
      BY <1>3, <2>3 DEF Coordinating, MissOf!GiveUp
    <3> QED BY <3>1 DEF MissOf!Next
  <2>4. CASE pc'[l] \in {"releasing", "done"} /\ ~aborted[l] /\ fresh
    <3>1. MissOf(l)!Hit
      BY <1>3, <2>4 DEF Coordinating, MissOf!Hit
    <3> QED BY <3>1 DEF MissOf!Next
  <2> QED BY <1>3, <2>1, <2>2, <2>3, <2>4
<1>4. CASE Acquire(l) \/ Won(l) \/ Recheck(l) \/ Poll(l) \/ Wake(l)
  <2>1. Coordinating(l) /\ UNCHANGED <<aborted, fresh>>
    BY <1>4 DEF Acquire, Won, Recheck, Poll, Wake, redis, Coordinating
  <2>2. \/ Coordinating(l)'
        \/ pc'[l] = "loading" /\ ~aborted[l]
        \/ pc'[l] \in {"releasing", "done"} /\ (aborted[l] \/ fresh)
    BY <1>1, <1>4 DEF Acquire, AcquireFailed, LoadUnleased, Won, Recheck, BecomeOwner,
       Poll, Wake, Goto, Leave, Coordinating
  <2> QED BY <1>3, <2>1, <2>2
<1>5. CASE LoadSucceeds(l)
  <2>1. MissOf(l)!Answer
    BY <1>5 DEF LoadSucceeds, Goto, redis, MissOf!Answer
  <2> QED BY <2>1 DEF MissOf!Next
<1>6. CASE LoadFails(l)
  <2>1. MissOf(l)!Fail
    BY <1>6 DEF LoadFails, EndLoad, Goto, redis, MissOf!Fail
  <2> QED BY <2>1 DEF MissOf!Next
<1>7. CASE WriteFresh(l)
  <2>1. MissOf(l)!Write
    BY <1>7 DEF WriteFresh, EndLoad, Goto, MissOf!Write
  <2> QED BY <2>1 DEF MissOf!Next
<1>8. CASE Release(l) \/ Beat(l) \/ Renew(l)
  BY <1>1, <1>8 DEF Release, Beat, Renew, Goto, redis
<1>9. CASE Abort(l)
  <2>1. MissOf(l)!Cancel
    BY <1>9 DEF Abort, redis, MissOf!Cancel
  <2> QED BY <2>1 DEF MissOf!Next
<1> QED
  BY <1>2, <1>4, <1>5, <1>6, <1>7, <1>8, <1>9 DEF CallStep, Progress

\* To the miss of one call, the steps of the others and of the surroundings are
\* changes of the cache.
LEMMA MissStep ==
    ASSUME Inv, Inv', [Next]_vars, NEW m \in Loaders
    PROVE  UNCHANGED MissOf(m)!vars \/ MissOf(m)!Next
<1> USE DEF Inv, Timed, Flagged
<1>1. ASSUME UNCHANGED <<pc[m], aborted[m]>>
      PROVE  UNCHANGED MissOf(m)!vars \/ MissOf(m)!Next
  <2>1. fresh' \in BOOLEAN /\ Place(m)' = Place(m)
    BY <1>1 DEF Place
  <2>2. MissOf(m)!Others
    BY <1>1, <2>1 DEF MissOf!Others
  <2> QED BY <2>2 DEF MissOf!Next
<1>2. ASSUME NEW l \in Loaders, CallStep(l), l # m
      PROVE  UNCHANGED MissOf(m)!vars \/ MissOf(m)!Next
  BY <1>1, <1>2, OthersUntouched
<1>3. CASE CallStep(m)
  BY <1>3, OwnMiss
<1>4. CASE Evict \/ Tick \/ UNCHANGED vars
  BY <1>1, <1>4 DEF Evict, Tick, vars
<1> QED
  BY <1>2, <1>3, <1>4 DEF Next, CallStep

\* Every call does the work of one miss: no path leads from an abort to a load,
\* whichever await it finds the call in, and none around the cache's answer.
THEOREM MissImplemented == Spec => ImplementsMiss
<1>1. Init => \A l \in Loaders : MissOf(l)!Init
  <2> SUFFICES ASSUME Init, NEW l \in Loaders PROVE MissOf(l)!Init
    OBVIOUS
  <2>1. pc[l] = "idle" /\ ~aborted[l]
    BY <1>1 DEF Init
  <2>2. Place(l) = "none"
    BY <2>1 DEF Place
  <2> QED BY <2>1, <2>2 DEF MissOf!Init
<1>2. Inv /\ Inv' /\ [Next]_vars =>
        [\A l \in Loaders : UNCHANGED MissOf(l)!vars \/ MissOf(l)!Next]_vars
  BY MissStep
<1> QED
  BY <1>1, <1>2, InvInvariant, PTL DEF Spec, ImplementsMiss
-----------------------------------------------------------------------------
(* What is left of a lease                                                 *)

\* Without faults a call has no lease before it wins one, none when it loads
\* without, and at its end only one whose winning it was aborted over.
Left(l) ==
    /\ pc[l] \in {"idle", "acquiring", "polling", "sleeping"} => lease # l
    /\ pc[l] \in {"loading", "writing"} /\ ~leased[l] => lease # l
    /\ pc[l] = "done" /\ lease = l => aborted[l] /\ ~leased[l]

\* Nobody is given the lease but the call that asks for it.
LEMMA LeaseTakers ==
    ASSUME Inv, [Next]_vars, NEW m \in Loaders, lease # m, lease' = m
    PROVE  pc[m] = "acquiring" /\ SetLease(m)
<1>1. ASSUME NEW l \in Loaders, CallStep(l) PROVE pc[m] = "acquiring" /\ SetLease(m)
  <2>1. lease' \in {lease, NoOne} \/ (Acquire(l) /\ SetLease(l))
    BY <1>1 DEF CallStep, Progress, Start, Acquire, Won, Recheck, Poll, Wake,
       LoadSucceeds, LoadFails, WriteFresh, Release, releaseLease, Beat, Renew,
       renewLease, Abort
  <2>2. Acquire(l) /\ SetLease(l)
    BY <2>1
  <2>3. l = m
    BY <2>2 DEF SetLease
  <2> QED BY <2>2, <2>3 DEF Acquire
<1>2. ~(Evict \/ Tick \/ UNCHANGED vars)
  BY DEF Evict, Tick, vars
<1> QED
  BY <1>1, <1>2 DEF Next, CallStep

\* A call's own steps keep it.
LEMMA OwnLeft ==
    ASSUME Inv, NEW l \in Loaders, CallStep(l), faults' = faults, Left(l)
    PROVE  Left(l)'
<1> USE DEF Inv, Timed, Flagged, Left
<1>1. CASE Start(l) \/ Won(l) \/ Poll(l) \/ Wake(l) \/ Abort(l)
  BY <1>1 DEF Start, Won, Poll, Wake, Abort, LoadUnleased, Owned
<1>2. CASE Acquire(l)
  BY <1>2 DEF Acquire, SetLease, Owned
<1>3. CASE Recheck(l)
  BY <1>3 DEF Recheck, BecomeOwner, Owned
<1>4. CASE LoadSucceeds(l) \/ LoadFails(l) \/ WriteFresh(l)
  BY <1>4 DEF LoadSucceeds, LoadFails, WriteFresh, EndLoad, Owned
<1>5. CASE Release(l)
  BY <1>5 DEF Release, releaseLease
<1>6. CASE Beat(l) \/ Renew(l)
  BY <1>6 DEF Beat, Renew, renewLease
<1> QED
  BY <1>1, <1>2, <1>3, <1>4, <1>5, <1>6 DEF CallStep, Progress

\* A run without faults so far has had none before.
LEMMA StillFaultless ==
    ASSUME Inv, Inv', [Next]_vars, Faultless'
    PROVE  Faultless /\ faults' = faults
BY DEF Inv, Timed, Faultless, Next, Start, Progress, Acquire, Won, Recheck, Poll,
       Wake, LoadSucceeds, LoadFails, WriteFresh, EndLoad, Release, Beat, Renew,
       Abort, Evict, Tick, vars

AllLeft == Faultless => \A l \in Loaders : Left(l)

\* Every step keeps it.
LEMMA LeftStep == Inv /\ Inv' /\ AllLeft /\ [Next]_vars => AllLeft'
<1> SUFFICES ASSUME Inv, Inv', AllLeft, [Next]_vars, Faultless', NEW m \in Loaders
             PROVE  Left(m)'
  BY DEF AllLeft
<1>1. Faultless /\ faults' = faults /\ Left(m)
  BY StillFaultless DEF AllLeft
<1>2. CASE CallStep(m)
  BY <1>1, <1>2, OwnLeft
<1>3. ASSUME NEW l \in Loaders, CallStep(l), l # m PROVE Left(m)'
  <2>1. pc'[m] = pc[m] /\ leased'[m] = leased[m] /\ aborted'[m] = aborted[m]
    BY <1>3, OthersUntouched
  <2>2. lease' = m => lease = m
    <3>1. CASE lease' = m /\ lease # m
      <4>1. SetLease(m) /\ pc[m] = "acquiring"
        BY <3>1, LeaseTakers
      <4>2. lease' \in {lease, NoOne, l}
        BY <1>3 DEF CallStep, Progress, Start, Acquire, SetLease, Won, Recheck, Poll,
           Wake, LoadSucceeds, LoadFails, WriteFresh, Release, releaseLease, Beat,
           Renew, renewLease, Abort
      <4> QED BY <1>3, <3>1, <4>2
    <3> QED BY <3>1
  <2> QED BY <1>1, <2>1, <2>2 DEF Left
<1>4. CASE Evict \/ Tick \/ UNCHANGED vars
  BY <1>1, <1>4 DEF Evict, Tick, vars, Left
<1> QED
  BY <1>2, <1>3, <1>4 DEF Next, CallStep

\* LeakOnlyByAbort: without faults, a call that ends leaves its lease to expire
\* only if it was aborted while its acquisition was answered.
THEOREM LeakByAbort == Spec => []LeakOnlyByAbort
<1>1. Init => AllLeft
  <2> SUFFICES ASSUME Init, NEW l \in Loaders PROVE Left(l)
    BY Zenon DEF AllLeft
  <2>1. pc[l] = "idle" /\ lease # l
    BY DEF Init
  <2> QED BY <2>1 DEF Left
<1>2. AllLeft => LeakOnlyByAbort
  BY DEF AllLeft, Left, LeakOnlyByAbort
<1>3. Spec => [](Inv /\ AllLeft)
  BY <1>1, InvInvariant, LeftStep, PTL DEF Spec
<1> QED
  BY <1>2, <1>3, PTL

-----------------------------------------------------------------------------
(* One load                                                                *)

\* A call whose articles are loaded has ended.
Filled(l) == leased[l] /\ result[l] = "loaded"

\* Without faults an owner that writes has its lease, and once an owner has
\* written, the articles are there and no other can come so far.
Filling ==
    Faultless =>
        \A l \in Loaders :
            /\ result[l] = "loaded" => pc[l] \in {"releasing", "done"}
            /\ leased[l] /\ pc[l] = "writing" => lease = l
            /\ Filled(l) =>
                  /\ fresh
                  /\ \A m \in Loaders : m # l /\ leased[m] =>
                        /\ ~Filled(m) /\ pc[m] # "writing"
                        /\ pc[m] = "loading" => aborted[m]

\* Every step keeps it: who writes holds the lease, so that nobody else works;
\* who wins the lease later finds the articles.
LEMMA FillStep == Inv /\ Inv' /\ Held /\ Filling /\ [Next]_vars => Filling'
<1> SUFFICES ASSUME Inv, Inv', Held, Filling, [Next]_vars, Faultless'
             PROVE  Filling'
  BY DEF Filling
<1> USE DEF Inv, Timed, Flagged, Filled
<1>1. Faultless /\ faults' = faults
  BY StillFaultless
<1>2. faults = MaxFaults /\ faults' = MaxFaults
  BY <1>1 DEF Faultless
<1>3. ASSUME NEW l \in Loaders, CallStep(l) PROVE Filling'
  <2>1. ASSUME NEW m \in Loaders, m # l
        PROVE  /\ pc'[m] = pc[m] /\ leased'[m] = leased[m] /\ aborted'[m] = aborted[m]
               /\ result'[m] = result[m]
               /\ lease = m => lease' = m
    <3>1. result'[m] = result[m]
      BY <1>3, <2>1 DEF CallStep, Progress, Start, Acquire, AcquireFailed, LoadUnleased,
         Won, Recheck, BecomeOwner, Poll, Wake, LoadSucceeds, LoadFails, WriteFresh,
         EndLoad, Release, Beat, Renew, Abort
    <3> QED BY <1>3, <2>1, <3>1, OthersUntouched
  <2>2. fresh => fresh'
    BY <1>3 DEF CallStep, Progress, Start, Acquire, Won, Recheck, Poll, Wake,
       LoadSucceeds, LoadFails, WriteFresh, Release, Beat, Renew, Abort
  <2>3. CASE WriteFresh(l)
    <3>1. /\ pc[l] = "writing" /\ fresh' = TRUE /\ lease' = lease
          /\ pc'[l] \in {"releasing", "done"} /\ leased' = leased
          /\ result'[l] = "loaded"
      BY <1>2, <2>3 DEF WriteFresh, EndLoad
    <3>2. ASSUME NEW m \in Loaders, m # l, leased[m], leased[l]
          PROVE  /\ ~Filled(m) /\ pc[m] # "writing"
                 /\ pc[m] = "loading" => aborted[m]
      <4>1. lease = l
        BY <1>1, <3>1, <3>2 DEF Filling
      <4>2. ~Filled(m)
        BY <1>1, <3>1, <3>2 DEF Filling
      <4>3. pc[m] # "writing"
        BY <1>1, <3>2, <4>1 DEF Filling
      <4>4. pc[m] = "loading" => aborted[m]
        BY <1>1, <3>2, <4>1 DEF Held, Working
      <4> QED BY <4>2, <4>3, <4>4
    <3>3. ASSUME NEW m \in Loaders
          PROVE  /\ result'[m] = "loaded" => pc'[m] \in {"releasing", "done"}
                 /\ leased'[m] /\ pc'[m] = "writing" => lease' = m
      BY <1>1, <2>1, <3>1, Zenon DEF Filling
    <3>4. ASSUME NEW m \in Loaders, NEW n \in Loaders, n # m, Filled(m)', leased'[n]
          PROVE  /\ ~Filled(n)' /\ pc'[n] # "writing"
                 /\ pc'[n] = "loading" => aborted'[n]
      <4>1. CASE m = l
        BY <2>1, <3>1, <3>2, <3>4, <4>1, Zenon
      <4>2. CASE m # l
        <5>1. Filled(m) /\ leased[n]
          BY <2>1, <3>1, <3>4, <4>2, Zenon
        <5>2. n # l
          BY <1>1, <3>1, <3>4, <5>1 DEF Filling
        <5>3. /\ pc'[n] = pc[n] /\ leased'[n] = leased[n]
              /\ aborted'[n] = aborted[n] /\ result'[n] = result[n]
          BY <2>1, <5>2, Zenon
        <5>4. /\ ~Filled(n) /\ pc[n] # "writing"
              /\ pc[n] = "loading" => aborted[n]
          BY <1>1, <3>4, <5>1, <5>3, Zenon DEF Filling
        <5> QED BY <5>3, <5>4, Zenon
      <4> QED BY <4>1, <4>2
    <3> QED BY <3>1, <3>3, <3>4 DEF Filling
  <2>4. CASE LoadSucceeds(l)
    <3>1. /\ pc[l] = "loading" /\ ~aborted[l] /\ pc'[l] = "writing"
          /\ UNCHANGED <<lease, fresh, aborted, leased, result>>
      BY <2>4 DEF LoadSucceeds
    <3>2. leased[l] => lease = l
      BY <1>1, <3>1 DEF Held, Working
    <3> QED BY <1>1, <2>1, <3>1, <3>2 DEF Filling
  <2>5. CASE Recheck(l)
    <3>1. UNCHANGED <<lease, fresh, aborted, result>> /\ pc[l] = "rechecking"
          /\ (\/ pc'[l] = "releasing" /\ leased' = leased
              \/ pc'[l] = "loading" /\ ~fresh)
      BY <1>2, <2>5 DEF Recheck, BecomeOwner
    <3>2. \A m \in Loaders : Filled(m) => fresh
      BY <1>1 DEF Filling
    <3>3. result[l] # "loaded" /\ ~leased[l]
      BY <1>1, <3>1 DEF Filling, Owned
    <3> QED BY <1>1, <2>1, <3>1, <3>2, <3>3 DEF Filling
  <2>6. CASE ~WriteFresh(l) /\ ~LoadSucceeds(l) /\ ~Recheck(l)
    <3>1. result' = result /\ leased' = leased /\ (aborted[l] => aborted'[l])
          /\ (pc'[l] # "writing" \/ pc'[l] = pc[l])
      BY <1>3, <2>6 DEF CallStep, Progress, Start, Acquire, AcquireFailed, LoadUnleased,
         Won, Poll, Wake, LoadFails, EndLoad, Release, Beat, Renew, Abort
    <3>2. pc[l] \in {"releasing", "done"} => pc'[l] \in {"releasing", "done"}
      BY <1>3, <2>6 DEF CallStep, Progress, Start, Acquire, Won, Poll, Wake, LoadFails,
         Release, Beat, Renew, Abort
    <3>3. pc[l] = "writing" => lease' = lease
      BY <1>3, <2>6 DEF CallStep, Progress, Start, Acquire, Won, Poll, Wake, LoadFails,
         Release, Beat, Renew, renewLease, Abort
    <3>4. pc'[l] = "loading" /\ leased[l] => pc[l] = "loading"
      BY <1>3, <2>6 DEF CallStep, Progress, Start, Acquire, AcquireFailed, LoadUnleased,
         Won, Poll, Wake, LoadFails, EndLoad, Release, Beat, Renew, Abort, Owned
    <3>5. ASSUME NEW m \in Loaders
          PROVE  /\ result'[m] = "loaded" => pc'[m] \in {"releasing", "done"}
                 /\ leased'[m] /\ pc'[m] = "writing" => lease' = m
                 /\ Filled(m)' => Filled(m) /\ fresh'
      <4>1. CASE m = l
        BY <1>1, <2>2, <3>1, <3>2, <3>3, <4>1 DEF Filling
      <4>2. CASE m # l
        BY <1>1, <2>1, <2>2, <3>1, <4>2 DEF Filling
      <4> QED BY <4>1, <4>2
    <3>6. ASSUME NEW m \in Loaders, NEW n \in Loaders, n # m, Filled(m)', leased'[n]
          PROVE  /\ ~Filled(n)' /\ pc'[n] # "writing"
                 /\ pc'[n] = "loading" => aborted'[n]
      <4>1. /\ ~Filled(n) /\ pc[n] # "writing" /\ leased[n]
            /\ pc[n] = "loading" => aborted[n]
        BY <1>1, <3>1, <3>5, <3>6 DEF Filling
      <4>2. CASE n = l
        BY <3>1, <3>4, <4>1, <4>2
      <4>3. CASE n # l
        BY <2>1, <4>1, <4>3, Zenon
      <4> QED BY <4>2, <4>3
    <3> QED BY <3>5, <3>6 DEF Filling
  <2> QED BY <2>3, <2>4, <2>5, <2>6
<1>4. CASE Evict \/ UNCHANGED vars
  BY <1>1, <1>2, <1>4 DEF Evict, vars, Filling
<1>5. CASE Tick
  <2>1. Timely
    BY <1>2, <1>5 DEF Tick
  <2> QED BY <1>1, <1>5, <2>1 DEF Tick, Timely, Filling
<1> QED
  BY <1>3, <1>4, <1>5 DEF Next, CallStep

\* SingleFill: without faults the replicas load the articles of a miss once as
\* owners of its lease, whatever the loads take and whoever is aborted.
THEOREM FilledOnce == Spec => []SingleFill
<1>1. Init => Held /\ Filling
  BY DEF Init, Held, JustWon, Working, Filling, Filled
<1>2. Filling => SingleFill
  BY DEF Filling, Filled, SingleFill
<1>3. Spec => [](Inv /\ Held /\ Filling)
  BY <1>1, InvInvariant, Holding, FillStep, PTL DEF Spec
<1> QED
  BY <1>2, <1>3, PTL
=============================================================================
