-------------------------- MODULE MCMarketPipeline --------------------------
(* MarketPipeline on short inputs: its constants are numbers. *)
EXTENDS MarketPipeline
=============================================================================
