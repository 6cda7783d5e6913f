---------------------------- MODULE MCLocalBuild ----------------------------
(* The workers and the user of the LOCAL build for TLC. *)
EXTENDS LocalBuild

CONSTANTS w1, w2, u1
=============================================================================
