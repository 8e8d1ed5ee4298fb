--------------------------- MODULE MCAlgoExecution ---------------------------
(* PaperAlgo on small plans, with one visitor. *)
EXTENDS PaperAlgo

Stock     == [slashed |-> FALSE, base |-> "share", quote |-> "none", brief |-> TRUE, listed |-> TRUE]
BareCoin  == [slashed |-> FALSE, base |-> "coin", quote |-> "fiat", brief |-> TRUE, listed |-> FALSE]
Pair      == [slashed |-> TRUE, base |-> "coin", quote |-> "usdt", brief |-> FALSE, listed |-> FALSE]
Metal     == [slashed |-> TRUE, base |-> "metal", quote |-> "fiat", brief |-> FALSE, listed |-> FALSE]
Index     == [slashed |-> FALSE, base |-> "index", quote |-> "none", brief |-> TRUE, listed |-> TRUE]

Request(op, s) == [op |-> op, of |-> s]

MCPaperAsks == {Request("ticker", s) : s \in {Stock, BareCoin, Pair, Metal}}
MCAsks == MCPaperAsks \cup {Request("snapshot", Stock), Request("ohlcv", Index)}
=============================================================================
