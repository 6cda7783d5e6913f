--------------------------- MODULE MCUniverseRuns ---------------------------
(* Finite instances of the sessions over the symbol universe for TLC. *)
EXTENDS UniverseRuns

CONSTANTS A, B, s1, s2

BothOrdered == {<<A, B>>}
=============================================================================
