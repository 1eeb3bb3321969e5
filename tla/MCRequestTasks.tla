---------------------------- MODULE MCRequestTasks ----------------------------
(* RequestTasks with one thread of each kind.                              *)
EXTENDS RequestTasks, TLC

CONSTANTS api, web, script, r1, r2, w1, w2

WorkerSymmetry == Permutations(Workers)

=============================================================================
