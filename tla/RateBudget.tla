----------------------------- MODULE RateBudget -----------------------------
(***************************************************************************)
(* What a rate limiter is for, without threads, turns, deques, windows or  *)
(* cooldowns: time passes and keys are used, and a key that was used Limit *)
(* times is free again when the first of its last Limit uses is a Window   *)
(* old.                                                                    *)
(***************************************************************************)
EXTENDS Integers, Sequences

CONSTANTS Keys, Limit, Window
VARIABLES
  time,
  uses   \* uses[k]: when key k was used, oldest first

Init == time \in Nat /\ uses = [k \in Keys |-> <<>>]

TimePasses == time' \in Nat /\ time' >= time

Free(k) ==
  Len(uses[k]) >= Limit => time' >= uses[k][Len(uses[k]) - Limit + 1] + Window

Use(k) ==
  /\ TimePasses /\ Free(k)
  /\ uses' = [uses EXCEPT ![k] = Append(@, time')]

Next == \/ TimePasses /\ UNCHANGED uses
        \/ \E k \in Keys : Use(k)

Spec == Init /\ [][Next]_<<time, uses>>
=============================================================================
