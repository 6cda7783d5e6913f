----------------------------- MODULE MCKeyPool ------------------------------
(* A finite instance of the key pool for TLC: two sessions that configure the
   same key under one alias and different keys under the other, one loader thread each. *)
EXTENDS KeyPool, TLC

CONSTANTS t1, t2, s1, s2, k1, k2, k3

BothThreads == {t1, t2}
BothSessions == {s1, s2}
TwoSessions == (t1 :> s1) @@ (t2 :> s2)
MixedKeys == (s1 :> <<k1, k2>>) @@ (s2 :> <<k1, k3>>)
=============================================================================
