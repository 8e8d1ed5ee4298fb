------------------------------ MODULE MCFanOut ------------------------------
(* TickPath with few sockets and events, and all exchanges. *)
EXTENDS TickPath

MCExchanges == <<"kraken", "okx", "bybit", "kucoin">>
=============================================================================
