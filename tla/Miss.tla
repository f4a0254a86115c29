--------------------------------- MODULE Miss ---------------------------------
(***************************************************************************)
(* The way of one cache miss to its articles, as those that wait for it    *)
(* may rely on it and as the coordinator and the service share it: a       *)
(* canceled miss never goes to the provider and takes no answer of it, a   *)
(* miss ends without the provider only when the articles are cached or it  *)
(* is canceled, and what the provider has answered is offered to the cache *)
(* before the miss ends.                                                   *)
(***************************************************************************)
VARIABLES
    place,      \* "none", "coordinating", "loading", "writing" or "ended"
    canceled,   \* nobody waits for it any more
    cached      \* the cache holds the articles

vars == <<place, canceled, cached>>

Init == place = "none" /\ ~canceled

Go(from, to) == place = from /\ place' = to /\ UNCHANGED canceled

Begin == Go("none", "coordinating") /\ UNCHANGED cached
Hit == Go("coordinating", "ended") /\ ~canceled /\ cached /\ UNCHANGED cached
GiveUp == Go("coordinating", "ended") /\ canceled /\ UNCHANGED cached
Load == Go("coordinating", "loading") /\ ~canceled /\ UNCHANGED cached
Answer == Go("loading", "writing") /\ ~canceled /\ UNCHANGED cached
Fail == Go("loading", "ended") /\ UNCHANGED cached
Write == Go("writing", "ended") /\ (cached' \/ UNCHANGED cached)

Cancel == place # "none" /\ canceled' = TRUE /\ UNCHANGED <<place, cached>>

\* Replicas write the articles, and they expire.
Others == cached' \in BOOLEAN /\ UNCHANGED <<place, canceled>>

Next ==
    \/ Begin \/ Hit \/ GiveUp \/ Load \/ Answer \/ Fail \/ Write
    \/ Cancel \/ Others

Spec == Init /\ [][Next]_vars
=============================================================================
