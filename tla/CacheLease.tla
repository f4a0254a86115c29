------------------------------ MODULE CacheLease ------------------------------
(***************************************************************************)
(* Cross-replica coordination of one cache miss: calls of                  *)
(* coordinateCacheMiss in any number of processes, the Redis lease they    *)
(* compete for, the owner's heartbeat, and the fresh cache entry they      *)
(* share (src/cache/coordinator.ts and the Redis store of                  *)
(* src/cache/store.ts).                                                    *)
(*                                                                         *)
(* A Redis command takes effect in one step, some time after it is issued. *)
(* Whatever goes wrong uses up one of MaxFaults: a failed command, a lost  *)
(* reply, a resent command, a slow command or timer, a lost cache entry.   *)
(* A command that is neither slow nor failing takes less than a tick.      *)
(***************************************************************************)
EXTENDS Integers

CONSTANTS
    Loaders,    \* calls of coordinateCacheMiss, each with its owner token
    NoOne,      \* the lease key is absent
    TTL,        \* resolveCacheLeaseTtlMs(), in ticks
    Heartbeat,  \* resolveCacheLeaseHeartbeatMs(), in ticks
    Wait,       \* resolveCacheLeaseWaitMs(), in ticks
    MaxPoll,    \* the longest jittered poll delay, in ticks
    MaxFaults   \* bound on faults

ASSUME NoOneAssumption == NoOne \notin Loaders
ASSUME TimesAssumption ==
    /\ Heartbeat \in Nat \ {0} /\ TTL \in Nat /\ Heartbeat < TTL
    /\ Wait \in Nat \ {0} /\ MaxPoll \in Nat \ {0}
ASSUME FaultsAssumption == MaxFaults \in Nat

VARIABLES
    lease, leaseLeft,   \* the lease key in Redis and its remaining life
    fresh,              \* the fresh cache entry exists
    pc,                 \* where a call is
    aborted,            \* its signal is aborted
    leased,             \* it loads, or has loaded, as the owner
    result,             \* how its load ended
    waited,             \* time since it started to wait
    sleepLeft,          \* what is left of its poll delay
    beating,            \* its heartbeat is not stopped
    renewLeft,          \* time to the heartbeat's next timer event
    renewing,           \* renewalInFlight: a renewal has been sent
    faults              \* faults left

redis == <<lease, leaseLeft, fresh>>
waiter == <<waited, sleepLeft>>
heartbeat == <<beating, renewLeft, renewing>>
vars == <<redis, pc, aborted, leased, result, waiter, heartbeat, faults>>

TypeOK ==
    /\ lease \in Loaders \cup {NoOne}
    /\ leaseLeft \in 0..TTL
    /\ fresh \in BOOLEAN
    /\ pc \in [Loaders -> {"idle", "acquiring", "won", "rechecking", "loading",
                           "writing", "releasing", "polling", "sleeping", "done"}]
    /\ aborted \in [Loaders -> BOOLEAN]
    /\ leased \in [Loaders -> BOOLEAN]
    /\ result \in [Loaders -> {"none", "loaded"}]
    /\ waited \in [Loaders -> 0..(Wait + MaxFaults)]
    /\ sleepLeft \in [Loaders -> 0..MaxPoll]
    /\ beating \in [Loaders -> BOOLEAN]
    /\ renewLeft \in [Loaders -> 0..Heartbeat]
    /\ renewing \in [Loaders -> BOOLEAN]
    /\ faults \in 0..MaxFaults

Init ==
    /\ lease = NoOne /\ leaseLeft = 0 /\ fresh = FALSE
    /\ pc = [l \in Loaders |-> "idle"]
    /\ aborted = [l \in Loaders |-> FALSE]
    /\ leased = [l \in Loaders |-> FALSE]
    /\ result = [l \in Loaders |-> "none"]
    /\ waited = [l \in Loaders |-> 0]
    /\ sleepLeft = [l \in Loaders |-> 0]
    /\ beating = [l \in Loaders |-> FALSE]
    /\ renewLeft = [l \in Loaders |-> 0]
    /\ renewing = [l \in Loaders |-> FALSE]
    /\ faults = MaxFaults

Goto(l, to) == pc' = [pc EXCEPT ![l] = to]
Fault == faults > 0 /\ faults' = faults - 1

-----------------------------------------------------------------------------
(* Redis: the lease commands                                               *)

\* SET key owner PX ttl NX, where the key is absent.
SetLease(l) == lease = NoOne /\ lease' = l /\ leaseLeft' = TTL

\* Mutant: the release deletes without comparing.
releaseLease_Any(l) == lease' = NoOne /\ leaseLeft' = 0

\* RELEASE_LEASE_SCRIPT: compare and delete.
releaseLease(l) ==
    IF lease = l THEN lease' = NoOne /\ leaseLeft' = 0
                 ELSE UNCHANGED <<lease, leaseLeft>>

\* Mutant: the renewal is one more SET NX.
renewLease_SetNX(l) ==
    IF lease = NoOne THEN lease' = l /\ leaseLeft' = TTL
                     ELSE UNCHANGED <<lease, leaseLeft>>

\* RENEW_LEASE_SCRIPT: compare and pexpire.
renewLease(l) ==
    /\ leaseLeft' = IF lease = l THEN TTL ELSE leaseLeft
    /\ UNCHANGED lease

-----------------------------------------------------------------------------
(* coordinateCacheMiss                                                     *)

Start(l) ==
    /\ pc[l] = "idle"
    /\ Goto(l, "acquiring")
    /\ UNCHANGED <<redis, aborted, leased, result, waiter, heartbeat, faults>>

\* The call is over: its locals are gone, a renewal in flight is not.
Leave(l, to) ==
    /\ Goto(l, to)
    /\ waited' = [waited EXCEPT ![l] = 0]
    /\ sleepLeft' = [sleepLeft EXCEPT ![l] = 0]

\* load() outside the lease: fail open, or the wait has expired.
LoadUnleased(l) == Leave(l, "loading") /\ UNCHANGED leased

\* Mutant: a failed attempt fails open without looking at the signal.
AcquireFailed_IgnoresAbort(l) == LoadUnleased(l)

\* An attempt that fails throws if the call is aborted, and fails open if not.
AcquireFailed(l) == IF aborted[l] THEN Leave(l, "done") ELSE LoadUnleased(l)

\* tryAcquireLease answers.  A refused or failed attempt is acted on at once; a
\* won lease is acted on when its reply arrives.
Acquire(l) ==
    /\ pc[l] = "acquiring"
    /\ \/ SetLease(l) /\ Goto(l, "won") /\ UNCHANGED <<waiter, faults>>
       \/ /\ lease # NoOne /\ UNCHANGED <<lease, leaseLeft, faults>>
          /\ IF aborted[l] THEN Leave(l, "done")
                           ELSE Goto(l, "polling") /\ UNCHANGED waiter
       \* the command fails, before or after Redis has executed it
       \/ /\ Fault
          /\ SetLease(l) \/ UNCHANGED <<lease, leaseLeft>>
          /\ AcquireFailed(l)
       \* the reply is lost and the client resends: the key now holds the owner
       \* itself, and the second SET NX is refused
       \/ /\ Fault
          /\ SetLease(l)
          /\ IF aborted[l] THEN Leave(l, "done")
                           ELSE Goto(l, "polling") /\ UNCHANGED waiter
    /\ UNCHANGED <<fresh, aborted, leased, result, heartbeat>>

\* The reply of a won lease.  An aborted call throws here, and keeps the lease.
Won(l) ==
    /\ pc[l] = "won"
    /\ IF aborted[l] THEN Leave(l, "done")
                     ELSE Goto(l, "rechecking") /\ UNCHANGED waiter
    /\ UNCHANGED <<redis, aborted, leased, result, heartbeat, faults>>

BecomeOwner(l) ==
    /\ Leave(l, "loading")
    /\ leased' = [leased EXCEPT ![l] = TRUE]
    /\ beating' = [beating EXCEPT ![l] = TRUE]
    /\ renewLeft' = [renewLeft EXCEPT ![l] = Heartbeat]
    /\ UNCHANGED renewing

\* Mutant: the owner loads without reading the fresh entry again.
Recheck_Skipped(l) ==
    /\ pc[l] = "rechecking"
    /\ BecomeOwner(l)
    /\ UNCHANGED <<redis, aborted, result, faults>>

\* The owner reads the fresh entry again, then loads with a heartbeat.
Recheck(l) ==
    /\ pc[l] = "rechecking"
    /\ \/ /\ aborted[l] \/ fresh
          /\ Leave(l, "releasing")
          /\ UNCHANGED <<leased, heartbeat, faults>>
       \/ /\ ~aborted[l]
          /\ IF fresh THEN Fault ELSE UNCHANGED faults
          /\ BecomeOwner(l)
    /\ UNCHANGED <<redis, aborted, result>>

\* Mutant: the delay is not cut at the deadline.
PollDelays_Uncut(l) == 1..MaxPoll

\* Math.min(waitDelayMs(), remainingMs)
PollDelays(l) == {d \in 1..MaxPoll : d <= Wait - waited[l]}

\* The waiter reads the fresh entry: return it, give up waiting, or sleep for a
\* jittered delay cut at the deadline.  A failed read fails open, or counts as
\* a miss where the reader has caught it.
Poll(l) ==
    /\ pc[l] = "polling"
    /\ \/ /\ aborted[l] \/ fresh
          /\ Leave(l, "done")
          /\ UNCHANGED faults
       \/ /\ ~aborted[l] /\ Fault
          /\ LoadUnleased(l)
       \/ /\ ~aborted[l]
          /\ IF fresh THEN Fault ELSE UNCHANGED faults
          /\ \/ waited[l] >= Wait /\ LoadUnleased(l)
             \/ /\ Goto(l, "sleeping")
                /\ \E delay \in PollDelays(l) :
                      sleepLeft' = [sleepLeft EXCEPT ![l] = delay]
                /\ UNCHANGED waited
    /\ UNCHANGED <<redis, aborted, leased, result, heartbeat>>

\* Mutant: the abort listener clears the timer and does not reject.
Wake_NeverRejects(l) ==
    /\ pc[l] = "sleeping" /\ ~aborted[l] /\ sleepLeft[l] = 0
    /\ Goto(l, "acquiring")
    /\ UNCHANGED <<redis, aborted, leased, result, waiter, heartbeat, faults>>

\* The delay ends, or the abort listener cuts it short.
Wake(l) ==
    /\ pc[l] = "sleeping"
    /\ \/ aborted[l] /\ Leave(l, "done")
       \/ ~aborted[l] /\ sleepLeft[l] = 0 /\ Goto(l, "acquiring") /\ UNCHANGED waiter
    /\ UNCHANGED <<redis, aborted, leased, result, heartbeat, faults>>

\* Mutant: the lease is not released after a load.
EndLoad_KeepsLease(l) ==
    /\ Goto(l, "done")
    /\ beating' = [beating EXCEPT ![l] = FALSE]
    /\ renewLeft' = [renewLeft EXCEPT ![l] = 0]
    /\ UNCHANGED <<renewing, aborted, leased, waiter>>

\* load() has ended: stop the heartbeat, and release the lease if owned.
EndLoad(l) ==
    /\ Goto(l, IF leased[l] THEN "releasing" ELSE "done")
    /\ beating' = [beating EXCEPT ![l] = FALSE]
    /\ renewLeft' = [renewLeft EXCEPT ![l] = 0]
    /\ UNCHANGED <<renewing, aborted, leased, waiter>>

\* The provider answers, and the articles are to be written.
LoadSucceeds(l) ==
    /\ pc[l] = "loading" /\ ~aborted[l]
    /\ Goto(l, "writing")
    /\ UNCHANGED <<redis, aborted, leased, result, waiter, heartbeat, faults>>

\* The provider fails or is aborted; a stale copy makes no difference here.
LoadFails(l) ==
    /\ pc[l] = "loading"
    /\ EndLoad(l)
    /\ UNCHANGED <<redis, result, faults>>

WriteFresh(l) ==
    /\ pc[l] = "writing"
    /\ \/ fresh' = TRUE /\ UNCHANGED faults
       \/ Fault /\ UNCHANGED fresh
    /\ result' = [result EXCEPT ![l] = "loaded"]
    /\ EndLoad(l)
    /\ UNCHANGED <<lease, leaseLeft>>

\* The finally block; an error is swallowed, whether Redis executed it or not.
Release(l) ==
    /\ pc[l] = "releasing"
    /\ \/ releaseLease(l) /\ UNCHANGED faults
       \/ Fault /\ (releaseLease(l) \/ UNCHANGED <<lease, leaseLeft>>)
    /\ Goto(l, "done")
    /\ UNCHANGED <<fresh, aborted, leased, result, waiter, heartbeat>>

-----------------------------------------------------------------------------
(* startLeaseHeartbeat                                                     *)

\* The interval timer: one renewal at a time, none once aborted.
Beat(l) ==
    /\ beating[l] /\ renewLeft[l] = 0
    /\ renewLeft' = [renewLeft EXCEPT ![l] = Heartbeat]
    /\ renewing' = [renewing EXCEPT ![l] = @ \/ ~aborted[l]]
    /\ UNCHANGED <<redis, pc, aborted, leased, result, waiter, beating, faults>>

\* The renewal answers, perhaps after the heartbeat has stopped.  A lost lease
\* stops the heartbeat; an error does not.
Renew(l) ==
    /\ renewing[l]
    /\ renewing' = [renewing EXCEPT ![l] = FALSE]
    /\ \/ /\ renewLease(l)
          /\ beating' = [beating EXCEPT ![l] = @ /\ lease = l]
          /\ renewLeft' = [renewLeft EXCEPT ![l] = IF lease = l THEN @ ELSE 0]
          /\ UNCHANGED faults
       \/ /\ Fault
          /\ renewLease(l) \/ UNCHANGED <<lease, leaseLeft>>
          /\ UNCHANGED <<beating, renewLeft>>
    /\ UNCHANGED <<fresh, pc, aborted, leased, result, waiter>>

-----------------------------------------------------------------------------
(* The surroundings                                                        *)

\* The last subscriber of the search has gone.
Abort(l) ==
    /\ pc[l] \notin {"idle", "done"} /\ ~aborted[l]
    /\ aborted' = [aborted EXCEPT ![l] = TRUE]
    /\ UNCHANGED <<redis, pc, leased, result, waiter, heartbeat, faults>>

Evict ==
    /\ fresh /\ Fault
    /\ fresh' = FALSE
    /\ UNCHANGED <<lease, leaseLeft, pc, aborted, leased, result, waiter, heartbeat>>

\* No command is outstanding and no timer is due.
Timely ==
    \A l \in Loaders :
        /\ pc[l] \notin {"acquiring", "won", "rechecking", "polling", "writing",
                         "releasing"}
        /\ pc[l] = "sleeping" => sleepLeft[l] > 0 /\ ~aborted[l]
        /\ beating[l] => renewLeft[l] > 0
        /\ ~renewing[l]

Less(n) == IF n > 0 THEN n - 1 ELSE 0

Tick ==
    /\ IF Timely THEN UNCHANGED faults ELSE Fault
    /\ leaseLeft' = Less(leaseLeft)
    /\ lease' = IF leaseLeft = 1 THEN NoOne ELSE lease
    /\ waited' = [l \in Loaders |->
                    IF pc[l] \in {"acquiring", "polling", "sleeping"}
                    THEN waited[l] + 1 ELSE waited[l]]
    /\ sleepLeft' = [l \in Loaders |-> Less(sleepLeft[l])]
    /\ renewLeft' = [l \in Loaders |-> Less(renewLeft[l])]
    /\ UNCHANGED <<fresh, pc, aborted, leased, result, beating, renewing>>

-----------------------------------------------------------------------------
Progress(l) ==
    \/ Acquire(l) \/ Won(l) \/ Recheck(l) \/ Poll(l) \/ Wake(l)
    \/ LoadSucceeds(l) \/ LoadFails(l) \/ WriteFresh(l) \/ Release(l)

Next ==
    \/ \E l \in Loaders : Start(l) \/ Progress(l) \/ Beat(l) \/ Renew(l) \/ Abort(l)
    \/ Evict
    \/ Tick

Spec == Init /\ [][Next]_vars

\* Time passes, timers fire, every command is answered or fails within its
\* timeout, and every load ends within the provider's total budget.
Fairness ==
    /\ WF_vars(Tick)
    /\ \A l \in Loaders : WF_vars(Progress(l)) /\ WF_vars(Beat(l)) /\ WF_vars(Renew(l))

FairSpec == Spec /\ Fairness

-----------------------------------------------------------------------------
(* Properties                                                              *)

Faultless == faults = MaxFaults

began == {l \in Loaders : leased[l]}
ended == {l \in Loaders : pc[l] \in {"releasing", "done"}}

\* The lease commands implement the abstract lease: a release or renewal that
\* arrives after its lease has expired never touches the next owner's.
LeaseSpec == INSTANCE Lease WITH Owners <- Loaders, holder <- lease, left <- leaseLeft
ImplementsLease == LeaseSpec!Spec

\* While it loads, an owner keeps its lease, however long the load takes: the
\* heartbeat is in time when nothing fails.
OwnerHolds ==
    Faultless =>
        \A l \in Loaders :
            leased[l] /\ pc[l] \in {"loading", "writing"} /\ ~aborted[l] => lease = l

\* When nothing fails, at most one owner loads the articles; those that get the
\* lease after it find them in the cache.
SingleFill ==
    Faultless =>
        \A l, m \in Loaders :
            /\ leased[l] /\ result[l] = "loaded"
            /\ leased[m] /\ result[m] = "loaded"
            => l = m

\* When nothing fails, a finished call leaves its lease behind only if it was
\* aborted while the acquisition was answered.
LeakOnlyByAbort ==
    Faultless =>
        \A l \in Loaders : pc[l] = "done" /\ lease = l => aborted[l] /\ ~leased[l]

\* "A waiter deadline can permit duplicate upstream work": the poll delays never
\* carry a waiter past its deadline, slow steps apart.
WaitBounded ==
    \A l \in Loaders :
        pc[l] \in {"acquiring", "polling", "sleeping"} =>
            waited[l] <= Wait + (MaxFaults - faults)

\* A call does the work of one miss: an abort "cancels a waiter without falling
\* through to upstream", wherever it comes, and a call that takes neither the
\* articles from the cache nor an abort goes to the provider.
Place(l) ==
    CASE pc[l] \in {"acquiring", "won", "rechecking", "polling", "sleeping"}
           -> "coordinating"
      [] pc[l] \in {"loading", "writing"} -> pc[l]
      [] pc[l] \in {"releasing", "done"} -> "ended"
      [] OTHER -> "none"
MissOf(l) == INSTANCE Miss WITH
    place <- Place(l), canceled <- aborted[l], cached <- fresh
ImplementsMiss ==
    /\ \A l \in Loaders : MissOf(l)!Init
    /\ [][\A l \in Loaders : UNCHANGED MissOf(l)!vars \/ MissOf(l)!Next]_vars

\* Every call ends: a lease held by another replica, leaked or for ever renewed,
\* delays a miss and never blocks it.
CallsEnd == \A l \in Loaders : pc[l] # "idle" ~> pc[l] = "done"
=============================================================================
