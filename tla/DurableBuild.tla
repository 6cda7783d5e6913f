---------------------------- MODULE DurableBuild ----------------------------
(***************************************************************************)
(* What the resumable build is for, without workers, rows or checkpoints:  *)
(* windows of history become durable, and a job is COMPLETED only at a     *)
(* moment when all of them are.                                            *)
(***************************************************************************)
CONSTANTS Keys, Jobs
VARIABLES
  given,     \* keys the bucket has been given
  complete   \* jobs shown as COMPLETED

Init == given = {} /\ complete = {}

Put(k) == given' = given \cup {k} /\ UNCHANGED complete

Complete(j) ==
  /\ Keys \subseteq given
  /\ complete' = complete \cup {j} /\ UNCHANGED given

\* A resumed job, or one whose verdict a second worker overwrites.
Reopen(j) == complete' = complete \ {j} /\ UNCHANGED given

Next == \/ \E k \in Keys : Put(k)
        \/ \E j \in Jobs : Complete(j) \/ Reopen(j)

Spec == Init /\ [][Next]_<<given, complete>>
=============================================================================
