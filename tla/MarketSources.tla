--------------------------- MODULE MarketSources ---------------------------
(***************************************************************************)
(* market_data_service.py: which sources a request for live data asks and  *)
(* in which order, the circuit breaker around yfinance and the cached      *)
(* pages.  A client is a task of the process that awaits one request at a  *)
(* time.  A source other than Yahoo may answer or fail at any time; Yahoo  *)
(* is down for a while, and a ticker it does not list looks the same to    *)
(* the breaker.  What an answer says is left out.                          *)
(***************************************************************************)
EXTENDS Integers, Sequences, FiniteSets

CONSTANTS
  Clients,      \* tasks that ask for market data
  Asks,         \* the requests they may make
  Keys          \* the providers whose credentials are configured

TripAfter == 3  \* _YF_TRIP_AFTER

Operations == {"ticker", "ohlcv", "orderbook", "trades", "snapshot", "breadth"}
Pages      == {"snapshot", "breadth"}

Instrument ==
  [slashed : BOOLEAN,                                       \* "EUR/USD" or "EURUSD"
   base    : {"fiat", "metal", "coin", "share", "index"},
   quote   : {"fiat", "usdt", "none"},
   brief   : BOOLEAN,                                       \* six letters at the most
   listed  : BOOLEAN]                                       \* Yahoo knows the ticker

ASSUME SourcesAssumption ==
  Asks \subseteq [op : Operations, of : Instrument] /\ Keys \subseteq {"oanda", "alpaca"}

VARIABLES
  yahoo_up,     \* Yahoo serves this client's address
  failures,     \* _yf_consecutive_failures, of which more than TripAfter say the same
  paused,       \* time.time() < _yf_blocked_until
  cache,        \* _ttl_cache: per page what the entry of the last 60 seconds holds
  request       \* where each client's request is

breaker == <<failures, paused>>
sources == <<yahoo_up, failures, paused, cache, request>>

Outcomes == {"data", "nothing"}

Idle == [at |-> "idle"]

-----------------------------------------------------------------------------
(* Domain routing.                                                         *)

IsForex(s) == s.quote = "fiat" /\ s.base \in {"fiat", "metal"}

\* A bare "BTCUSD" passes for a ticker.
IsEquity(s) == ~ s.slashed /\ s.brief /\ s.base # "index" /\ ~ IsForex(s)

\* The stages of a request in their order; the sources of one stage are asked together.
Keyed(p) == IF p \in Keys THEN <<{p}>> ELSE <<>>

\* Alpaca lists pairs under their slashed form only.
AlpacaLast(s) == IF s.slashed THEN Keyed("alpaca") ELSE <<>>

TickerChain(s) ==
  IF IsForex(s) THEN Keyed("oanda")
  ELSE IF IsEquity(s) THEN Keyed("alpaca") \o <<{"yahoo"}>>
  ELSE <<{"kraken", "okx"}>> \o AlpacaLast(s)

OhlcvChain(s) ==
  IF IsForex(s) THEN Keyed("oanda")
  ELSE (IF IsEquity(s) THEN Keyed("alpaca")
        ELSE <<{"kraken"}, {"kraken"}, {"okx"}, {"bybit"}>> \o AlpacaLast(s))
         \o (IF s.quote = "usdt" /\ s.slashed THEN <<>> ELSE <<{"yahoo"}>>)

BookChain(s) ==
  IF IsForex(s) THEN Keyed("oanda")
  ELSE IF IsEquity(s) THEN Keyed("alpaca")
  ELSE <<{"kraken"}, {"kraken"}, {"okx"}>> \o AlpacaLast(s)

TradesChain(s) == BookChain(s)

\* The rest of a page comes from the exchanges or is missing, and never fails it; one
\* of its stocks stands for all of them.
SnapshotChain(s) == Keyed("alpaca") \o <<{"yahoo"}>>

BreadthChain(s) == <<{"yahoo"}>>

Chain(ask) ==
  CASE ask.op = "ticker"    -> TickerChain(ask.of)
    [] ask.op = "ohlcv"     -> OhlcvChain(ask.of)
    [] ask.op = "orderbook" -> BookChain(ask.of)
    [] ask.op = "trades"    -> TradesChain(ask.of)
    [] ask.op = "snapshot"  -> SnapshotChain(ask.of)
    [] ask.op = "breadth"   -> BreadthChain(ask.of)

-----------------------------------------------------------------------------
SourcesInit ==
  /\ yahoo_up = TRUE /\ failures = 0 /\ paused = FALSE
  /\ cache = [p \in Pages |-> "none"]
  /\ request = [c \in Clients |-> Idle]

Put(c, r) == request' = [request EXCEPT ![c] = r]

Asking(ask, left) == [at |-> "asking", ask |-> ask, left |-> left]
Done(ask, got)    == [at |-> "done", ask |-> ask, got |-> got]

\* A page is stored with whatever it has.
Finish(c, ask, got) ==
  /\ Put(c, Done(ask, got))
  /\ cache' = IF ask.op \in Pages THEN [cache EXCEPT ![ask.op] = got] ELSE cache

\* A page that was built in the last minute is served as it is.
Ask(c, ask) ==
  /\ request[c].at = "idle"
  /\ IF ask.op \in Pages /\ cache[ask.op] # "none"
     THEN Put(c, Done(ask, cache[ask.op]))
     ELSE Put(c, Asking(ask, Chain(ask)))
  /\ UNCHANGED <<yahoo_up, breaker, cache>>

\* A source of the first stage answers, or all of them fail or time out.
AskSources(c) ==
  LET r == request[c]
  IN  /\ r.at = "asking" /\ r.left # <<>> /\ "yahoo" \notin Head(r.left)
      /\ \/ Finish(c, r.ask, "data")
         \/ Put(c, Asking(r.ask, Tail(r.left))) /\ UNCHANGED cache
      /\ UNCHANGED <<yahoo_up, breaker>>

\* Mutation of YahooReady: the count of failures decides, not the clock.
CountDecides == failures < TripAfter

YahooReady == ~ paused

AskYahoo(c) ==
  LET r == request[c]
  IN  /\ r.at = "asking" /\ r.left # <<>> /\ "yahoo" \in Head(r.left)
      /\ IF YahooReady THEN Put(c, [at |-> "download", ask |-> r.ask])
                       ELSE Put(c, Asking(r.ask, Tail(r.left)))
      /\ UNCHANGED <<yahoo_up, breaker, cache>>

\* Downloads in flight when the breaker trips do not prolong the pause.
Failed ==
  /\ failures' = IF failures < TripAfter THEN failures + 1 ELSE failures
  /\ paused' = (paused \/ failures' >= TripAfter)

Succeeded == failures' = 0 /\ UNCHANGED paused

\* Mutation of AfterFailure: the download is tried again.
Again == <<{"yahoo"}>>

\* Yahoo is the last source of every request.
AfterFailure == <<>>

\* A page about the market asks for tickers that are listed.
Listed(ask) == ask.op \in Pages \/ ask.of.listed

DownloadEnds(c) ==
  LET r == request[c]
  IN  /\ r.at = "download"
      /\ IF yahoo_up /\ Listed(r.ask)
         THEN Succeeded /\ Finish(c, r.ask, "data")
         ELSE Failed /\ Put(c, Asking(r.ask, AfterFailure)) /\ UNCHANGED cache
      /\ UNCHANGED yahoo_up

Exhausted(c) ==
  LET r == request[c]
  IN  /\ r.at = "asking" /\ r.left = <<>>
      /\ Finish(c, r.ask, "nothing")
      /\ UNCHANGED <<yahoo_up, breaker>>

\* The client has its answer.
Answered(c) ==
  /\ request[c].at = "done"
  /\ Put(c, Idle)
  /\ UNCHANGED <<yahoo_up, breaker, cache>>

\* wait_for around the request, or a client that goes away, cancels it.  The thread
\* of a download runs on, and no one tells the breaker how it ended.
GivesUp(c) ==
  /\ request[c].at \in {"asking", "download"}
  /\ Put(c, Idle)
  /\ UNCHANGED <<yahoo_up, breaker, cache>>

\* _YF_COOLDOWN_S have passed.  The count stays: the next failure pauses again.
CooldownOver ==
  /\ paused /\ paused' = FALSE
  /\ UNCHANGED <<yahoo_up, failures, cache, request>>

CacheLapses(p) ==
  /\ cache[p] # "none"
  /\ cache' = [cache EXCEPT ![p] = "none"]
  /\ UNCHANGED <<yahoo_up, breaker, request>>

YahooToggles ==
  /\ yahoo_up' = ~ yahoo_up
  /\ UNCHANGED <<breaker, cache, request>>

Advance(c) == AskSources(c) \/ AskYahoo(c) \/ DownloadEnds(c) \/ Exhausted(c)

-----------------------------------------------------------------------------
\* Type invariant of the requests, the breaker and the cache.
SourcesTypeOK ==
  /\ yahoo_up \in BOOLEAN /\ paused \in BOOLEAN
  /\ failures \in 0..TripAfter
  /\ cache \in [Pages -> Outcomes \cup {"none"}]
  /\ \A c \in Clients : request[c].at \in {"idle", "asking", "download", "done"}

UsesYahoo(ask) ==
  \E i \in DOMAIN Chain(ask) : "yahoo" \in Chain(ask)[i]

AsksUnlisted(c) == request[c].at # "idle" /\ ~ Listed(request[c].ask)

Empty(c) ==
  request[c].at = "done" /\ request[c].got = "nothing" /\ UsesYahoo(request[c].ask)

\* "a rate-limited environment degrades" and no longer than the outage: once Yahoo is
\* up for good and no one asks for a ticker it does not list, requests that may fall
\* back on Yahoo stop coming back empty, from the cache too.
EquitiesComeBack ==
  <>[](yahoo_up /\ \A c \in Clients : ~ AsksUnlisted(c)) => <>[](\A c \in Clients : ~ Empty(c))
=============================================================================
