---------------------------- MODULE MCWorkerKeys ----------------------------
(* Finite instances of the worker's key pool for TLC. *)
EXTENDS WorkerKeys, TLC

CONSTANTS t1, t2
AnyThread == Permutations({t1, t2})
=============================================================================
