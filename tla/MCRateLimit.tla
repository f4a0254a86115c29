----------------------------- MODULE MCRateLimit ------------------------------
(* RateLimit on a small instance.  Nothing tells the replicas apart before   *)
(* a request is served, so the one that serves the first request is fixed.   *)
EXTENDS RateLimit

CONSTANTS firstRequest, firstReplica

MCInit == Init /\ server[firstRequest] = firstReplica

MCSpec == MCInit /\ [][Next]_vars /\ Fairness
=============================================================================
