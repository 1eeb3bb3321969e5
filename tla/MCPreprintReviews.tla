-------------------------- MODULE MCPreprintReviews --------------------------
(* Interchangeable requests and workers.                                     *)
EXTENDS PreprintReviews, TLC

Symmetry == Permutations(Requests) \cup Permutations(Workers)
=============================================================================
