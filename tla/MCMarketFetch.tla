--------------------------- MODULE MCMarketFetch ----------------------------
(* A finite instance of the market data orchestrator for TLC. *)
EXTENDS MarketFetch

CONSTANTS f1, f2, fcs, twelve, any

TwoFetchers == {f1, f2}
TwelveAlone == <<twelve>>
TwelveThenFcs == <<twelve, fcs>>
OneContent == {any}
EitherFetcher == Permutations(TwoFetchers)
=============================================================================
