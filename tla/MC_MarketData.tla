--------------------------- MODULE MC_MarketData ---------------------------
(* Streams of one ticker: two adds and a cancel, or an order and its new     *)
(* quantity; an order and its cancellation.                                  *)
EXTENDS MarketData

E(type, id, qty) == Event(type, id, qty)

MCStream == {<<E("ADD", 1, 1), E("ADD", 2, 2), E("CANCEL", 2, 2)>>,
             <<E("ADD", 1, 2), E("MODIFY", 1, 1)>>}

MCStreamCancel == {<<E("ADD", 1, 1), E("CANCEL", 1, 1)>>}
=============================================================================
