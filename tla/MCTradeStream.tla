--------------------------- MODULE MCTradeStream ---------------------------
(* Instances of TradeStream.                                             *)
EXTENDS TradeStream
=============================================================================
