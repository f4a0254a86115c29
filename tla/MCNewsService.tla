--------------------------- MODULE MCNewsService ---------------------------
(* The search service on a small instance, its callers and searches being   *)
(* interchangeable.                                                         *)
EXTENDS NewsService, TLC

Symmetry == Permutations(Callers) \cup Permutations(Keys)
=============================================================================
