-------------------------- MODULE MC_PayoutEngine --------------------------
(* Prices near 30000, so that different distances share a relative score. *)
EXTENDS PayoutEngine

MCRates == {None, 1000}
MCBands == {None, 1}
=============================================================================
