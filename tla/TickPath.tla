------------------------------ MODULE TickPath ------------------------------
(***************************************************************************)
(* The two ends of the path of a tick, MarketFeeds in the ingestion        *)
(* process and FanOut in the API process.  Between them is Redis: the      *)
(* listener sees the feeds as it sees any publisher, and never answers.    *)
(* A behaviour is therefore about one of the two ends.                     *)
(***************************************************************************)
EXTENDS FanOut, MarketFeeds

VARIABLE end    \* "feeds" or "screens"

tickVars == <<fanVars, feedVars, end>>

\* In a behaviour about the screens some feed stands still.
TickInit ==
  /\ FanInit /\ FeedsInit /\ end \in {"feeds", "screens"}
  /\ end = "screens" => provider = (CHOOSE p \in Providers : TRUE) /\ creds = "none"

Feeds   == end = "feeds" /\ FeedsNext /\ UNCHANGED <<fanVars, end>>
Screens == end = "screens" /\ FanNext /\ UNCHANGED <<feedVars, end>>

TickNext == Feeds \/ Screens

\* The event loops run a task that can run; venues, clients and publishers owe nothing.
TickSpec ==
  /\ TickInit /\ [][TickNext]_tickVars
  /\ WF_tickVars(end = "screens" /\ Listens /\ UNCHANGED <<feedVars, end>>)
  /\ WF_tickVars(end = "feeds" /\ Proceeds /\ UNCHANGED <<fanVars, end>>)

-----------------------------------------------------------------------------
\* See MarketFeeds: a feed comes back when a venue that serves it does.
FeedsReturn == end = "feeds" => FeedsComeBack
=============================================================================
