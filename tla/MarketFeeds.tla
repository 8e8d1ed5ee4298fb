---------------------------- MODULE MarketFeeds ----------------------------
(***************************************************************************)
(* Where ticks come from.  run_market_workers of workers/orchestrator.py   *)
(* starts one task per kind of provider, and each tries to keep its feed   *)
(* alive for as long as the process lives: CryptoProvider rotates through  *)
(* exchanges, AlpacaProvider polls, ForexProvider streams its instruments  *)
(* in batches or polls public rates.  The tasks share nothing but the      *)
(* process, so this module follows one of them.  Venues go down and come   *)
(* back as they like; a lost connection is noticed.                        *)
(***************************************************************************)
EXTENDS Integers, Sequences

CONSTANTS
  ActiveClasses,    \* asset_class of the active symbols
  Exchanges,        \* crypto_fallback: the exchanges in the order they are tried
  Lists,            \* the exchanges that list one of the crypto symbols
  Batches,          \* batches of forex instruments
  MaxRestarts       \* bound: times the process is started again

ASSUME FeedsAssumption ==
  /\ Exchanges # <<>>
  /\ Batches \in Nat \ {0} /\ MaxRestarts \in Nat

VARIABLES
  provider,   \* the provider this behaviour is about
  creds,      \* its credentials in the settings: "none", "good" or "refused"
  up,         \* the venues that answer
  feed,       \* where its task is, with the exchange or batch in turn
  unseen,     \* the latest trade has not been published
  restarts    \* of the process so far

feedVars == <<provider, creds, up, feed, unseen, restarts>>

-----------------------------------------------------------------------------
\* The provider of an asset class; a symbol of any other class is left out.
ProviderOf(class) ==
  CASE class \in {"crypto", "cryptocurrency"} -> "crypto"
    [] class \in {"equities", "equity", "stock", "stocks"} -> "stocks"
    [] class \in {"fx", "forex", "currency", "commodity", "metal", "bond", "index"} -> "forex"
    [] OTHER -> "none"

Providers == {ProviderOf(c) : c \in ActiveClasses} \ {"none"}

\* What the task asks, in its order: exchanges are public, public rates replace OANDA.
Rounds ==
  CASE provider = "crypto" -> Exchanges
    [] provider = "stocks" -> <<"alpaca">>
    [] OTHER -> IF creds = "none" THEN <<"rates">> ELSE [i \in 1 .. Batches |-> "oanda"]

Venues  == {Rounds[i] : i \in DOMAIN Rounds}
Venue   == Rounds[feed.at_round]
Answers == Venue \in up

\* Without credentials the poller of stocks returns at once.
Disabled == provider = "stocks" /\ creds = "none"
Started  == [at |-> IF Disabled THEN "stopped" ELSE "connecting", at_round |-> 1]

FeedsInit ==
  /\ provider \in Providers
  /\ creds \in {"none", "good", "refused"}
  /\ up = Venues
  /\ feed = Started
  /\ unseen = TRUE
  /\ restarts = 0

Goes(at, i) == feed' = [at |-> at, at_round |-> i]

-----------------------------------------------------------------------------
\* Mutation of NextRound: the rotation stays with the last one.
StaysLast == IF feed.at_round < Len(Rounds) THEN feed.at_round + 1 ELSE feed.at_round

\* The next exchange, the next batch.
NextRound == IF feed.at_round < Len(Rounds) THEN feed.at_round + 1 ELSE 1

\* 401 and 403 end the task.
Refused == provider # "crypto" /\ creds = "refused"

\* An exchange without a symbol of ours, or without a way to watch it, is passed over.
Unlisted == provider = "crypto" /\ Venue \notin Lists

\* load_markets, a poll, or the start of a batch's stream.
Connect ==
  /\ feed.at = "connecting" /\ Answers
  /\ IF Refused THEN Goes("stopped", 1)
     ELSE IF Unlisted THEN Goes("connecting", NextRound)
     ELSE Goes("streaming", feed.at_round)
  /\ UNCHANGED <<provider, creds, up, unseen, restarts>>

\* An error on the way or in mid-stream: a pause with back-off, then the next exchange.
\* An exception takes forex back to its first batch, a status but 200 on to the next.
Falters ==
  /\ feed.at \in {"connecting", "streaming"} /\ ~ Answers
  /\ \E i \in {NextRound} \cup (IF provider = "crypto" THEN {} ELSE {1}) : Goes("resting", i)
  /\ UNCHANGED <<provider, creds, up, unseen, restarts>>

Rested ==
  /\ feed.at = "resting"
  /\ Goes("connecting", feed.at_round)
  /\ UNCHANGED <<provider, creds, up, unseen, restarts>>

\* OANDA ends a stream, and the task asks for the next batch.  (Only then: as long as
\* the stream of one batch lasts, the instruments of the others have no ticks.)
StreamEnds ==
  /\ provider = "forex" /\ creds = "good" /\ feed.at = "streaming"
  /\ Goes("connecting", NextRound)
  /\ UNCHANGED <<provider, creds, up, unseen, restarts>>

\* A trade comes over the exchange's stream and is published (_emit).
Streamed ==
  /\ provider = "crypto" /\ feed.at = "streaming" /\ Answers
  /\ unseen /\ unseen' = FALSE
  /\ UNCHANGED <<provider, creds, up, feed, restarts>>

\* A poll finds the latest trade, and publishes it unless it is the one it remembers.
Polled ==
  /\ provider = "stocks" /\ feed.at = "streaming" /\ Answers
  /\ unseen /\ unseen' = FALSE
  /\ UNCHANGED <<provider, creds, up, feed, restarts>>

\* A price with both sides comes over OANDA's stream; public rates are published at
\* every poll, old or new.
Quoted ==
  /\ provider = "forex" /\ feed.at = "streaming" /\ Answers
  /\ unseen \/ creds = "none"
  /\ unseen' = FALSE
  /\ UNCHANGED <<provider, creds, up, feed, restarts>>

\* There is a new trade at the venue.
Trades ==
  /\ ~ unseen /\ unseen' = TRUE
  /\ UNCHANGED <<provider, creds, up, feed, restarts>>

Toggles(v) ==
  /\ up' = IF v \in up THEN up \ {v} ELSE up \cup {v}
  /\ UNCHANGED <<provider, creds, feed, unseen, restarts>>

\* The process ends, by itself when any task of gather raises, and is started again; the
\* poller of stocks has forgotten what it published.
Restarts ==
  /\ restarts < MaxRestarts
  /\ restarts' = restarts + 1
  /\ feed' = Started
  /\ unseen' = (unseen \/ provider = "stocks")
  /\ UNCHANGED <<provider, creds, up>>

Proceeds == Connect \/ Falters \/ Rested

FeedsNext ==
  \/ Proceeds \/ StreamEnds \/ Streamed \/ Polled \/ Quoted \/ Trades \/ Restarts
  \/ \E v \in Venues : Toggles(v)

-----------------------------------------------------------------------------
\* A venue that would serve the feed.
Serves(v) == ~ Disabled /\ ~ Refused /\ (provider = "crypto" => v \in Lists)

\* "Trying next exchange", "the outer loop retries": unless its credentials are missing
\* or refused, a feed streams again and again once one venue that serves it is up for
\* good, however long the outage and whatever the other venues do.
FeedsComeBack ==
  \A v \in {Exchanges[i] : i \in DOMAIN Exchanges} \cup {"alpaca", "oanda", "rates"} :
    <>[](v \in Venues \cap up /\ Serves(v)) => []<>(feed.at = "streaming")
=============================================================================
