-------------------------------- MODULE Lease --------------------------------
(***************************************************************************)
(* What the owner-token lease of one cache key promises: at most one       *)
(* holder at a time; a lease ends before its time only once its holder has *)
(* ended its work, and is extended only for a holder whose work has begun. *)
(* So nobody ever takes or keeps alive the lease of somebody else.         *)
(***************************************************************************)
EXTENDS Naturals

CONSTANTS
    Owners,     \* owner tokens, one per call of coordinateCacheMiss
    TTL,        \* leaseTtlMs, in ticks
    NoOne       \* the key is absent

VARIABLES
    holder,     \* the token the key holds
    left,       \* the time it has left
    began,      \* the owners that have begun to load as the owner
    ended       \* the owners that need the lease no more

vars == <<holder, left, began, ended>>

Init == holder = NoOne /\ left = 0 /\ began = {} /\ ended = {}

Begin(o) == began' = began \cup {o} /\ UNCHANGED <<holder, left, ended>>

End(o) == ended' = ended \cup {o} /\ UNCHANGED <<holder, left, began>>

\* An owner whose acquisition fails may end before it learns that it succeeded.
Acquire(o) ==
    /\ holder = NoOne /\ o \notin ended
    /\ holder' = o /\ left' = TTL
    /\ ended' \in {ended, ended \cup {o}}
    /\ UNCHANGED began

Renew(o) ==
    /\ holder = o /\ o \in began
    /\ left' = TTL
    /\ UNCHANGED <<holder, began, ended>>

Release(o) ==
    /\ holder = o /\ o \in ended
    /\ holder' = NoOne /\ left' = 0
    /\ UNCHANGED <<began, ended>>

\* Time passes; a lease without time left is gone.
Pass ==
    /\ left > 0
    /\ left' = left - 1
    /\ holder' = IF left = 1 THEN NoOne ELSE holder
    /\ UNCHANGED <<began, ended>>

Next ==
    \/ Pass
    \/ \E o \in Owners : Begin(o) \/ End(o) \/ Acquire(o) \/ Renew(o) \/ Release(o)

Spec == Init /\ [][Next]_vars
=============================================================================
