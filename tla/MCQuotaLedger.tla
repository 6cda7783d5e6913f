--------------------------- MODULE MCQuotaLedger ---------------------------
(* A finite instance of the quota ledger for TLC. *)
EXTENDS QuotaLedger, TLC

CONSTANTS c1, c2
AnyClient == Permutations({c1, c2})
=============================================================================
