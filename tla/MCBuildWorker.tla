---------------------------- MODULE MCBuildWorker ----------------------------
(* Small instances of the resumable build: two workers, one job. *)
EXTENDS BuildWorkerProps

CONSTANTS w1, w2

TwoWorkers == {w1, w2}
=============================================================================
