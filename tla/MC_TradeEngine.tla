--------------------------- MODULE MC_TradeEngine ---------------------------
(* Instances of TradeEngine: a maker, a taker or the random generator. *)
EXTENDS TradeEngine
=============================================================================
