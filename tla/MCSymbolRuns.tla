--------------------------- MODULE MCSymbolRuns ---------------------------
(* Finite instances of the multi-symbol run for TLC. *)
EXTENDS SymbolRuns, TLC

CONSTANTS A, B, C, s1, s2

\* Two sessions over symbols of their own, each with faults of its own: the session of
\* A and B may be cut off anywhere, or lost and restored from any file, and the file of
\* C may not be written.
TheirSymbols == s1 :> <<A, B>> @@ s2 :> <<C>>
OneSymbol == s1 :> <<A>>
TheirFaults == s1 :> {"interrupt", "lost", "runner"} @@ s2 :> {"publish", "save"}
NoFaults == [s \in Sessions |-> {}]
=============================================================================
