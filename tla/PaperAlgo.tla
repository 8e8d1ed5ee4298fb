----------------------------- MODULE PaperAlgo -----------------------------
(***************************************************************************)
(* AlgoExecution together with MarketSources: at the paper broker the task *)
(* asks market_data_service for a price while it holds the order's row     *)
(* lock, and a slice without a price ends the schedule.  Another client,   *)
(* the visitor, uses the same breaker and cache.  At any other broker the  *)
(* two never meet, and the sources stand still.                            *)
(***************************************************************************)
EXTENDS AlgoExecution, MarketSources

CONSTANTS
  Schedule,      \* the client that is run_algo_order
  PaperAsks      \* ticker requests about the symbols of paper orders

ASSUME PaperAssumption == Schedule \in Clients /\ PaperAsks \subseteq Asks

VARIABLE
  price          \* where the price of a slice comes from, fixed from the start: a
                 \* real venue, the limit of a paper order, or a ticker request

paperVars == <<algoVars, sources, price>>

Prices == [from : {"venue", "limit"}] \cup [from : {"ticker"}, ask : PaperAsks]

IsPaper == price.from # "venue"

\* It is filled in full at once and nobody is told.
PaperBroker == [pushes |-> FALSE, in_full |-> TRUE]

PaperInit ==
  /\ AlgoInit /\ SourcesInit
  /\ price \in Prices
  /\ IsPaper => broker = PaperBroker

-----------------------------------------------------------------------------
(* run_algo_order.  A paper order with a limit price is filled at it.      *)

NoPriceAsked == price.from # "ticker"

\* PaperAdapter.submit_order of a market slice, under the row lock.
AskPrice ==
  /\ ~ NoPriceAsked /\ task = "locked"
  /\ Ask(Schedule, price.ask)
  /\ UNCHANGED algoVars

PricedSlice ==
  /\ task = "locked" /\ request[Schedule].at = "done"
  /\ IF request[Schedule].got = "data"
     THEN SliceAtVenue
     ELSE UNCHANGED traded /\ SliceFails
  /\ UNCHANGED broker
  /\ Answered(Schedule)

RunTask ==
  /\ \/ AskPrice
     \/ PricedSlice
     \/ /\ SliceBegin \/ SliceCommit \/ (NoPriceAsked /\ (SliceAtVenue \/ SliceFails))
        /\ UNCHANGED <<broker, sources>>
  /\ UNCHANGED price

\* The task ends alone, or with the process, which takes breaker and cache with it.
EndOfTask ==
  /\ TaskDies
  /\ \/ UNCHANGED <<breaker, cache>> /\ Put(Schedule, Idle)
     \/ /\ IsPaper
        /\ failures' = 0 /\ paused' = FALSE
        /\ cache' = [p \in Pages |-> "none"]
        /\ request' = [c \in Clients |-> Idle]
  /\ UNCHANGED <<broker, yahoo_up, price>>

-----------------------------------------------------------------------------
(* The rest of the system.                                                 *)

EndCancel == (CancelCommit \/ CancelDies) /\ UNCHANGED <<broker, sources, price>>

Others ==
  \/ EndCancel
  \/ /\ \/ Place \/ CancelBegin
        \/ \E i \in Slices : PushEvent(i) \/ LateExecution(i)
     /\ UNCHANGED <<broker, sources, price>>

Sourcing(A) == IsPaper /\ A /\ UNCHANGED <<algoVars, price>>

Serve(c) == Sourcing(Advance(c))

Leave(c) == Sourcing(c # Schedule /\ Answered(c))

PassTime == Sourcing(CooldownOver \/ \E p \in Pages : CacheLapses(p))

Visit ==
  \E c \in Clients \ {Schedule} : Sourcing(GivesUp(c) \/ \E ask \in Asks : Ask(c, ask))

PaperNext ==
  \/ RunTask \/ EndOfTask \/ Others
  \/ Visit \/ PassTime \/ Sourcing(YahooToggles)
  \/ \E c \in Clients : Serve(c) \/ Leave(c)

\* Every await of a task ends (a request to a source has its time-out) and time
\* passes.  The database hands a row lock over in the order in which it was asked
\* for: users who cancel do not keep the task from it.
Fairness ==
  /\ SF_paperVars(RunTask)
  /\ WF_paperVars(EndCancel)
  /\ \A c \in Clients : WF_paperVars(Serve(c)) /\ WF_paperVars(Leave(c))
  /\ WF_paperVars(Sourcing(CooldownOver))
  /\ \A p \in Pages : WF_paperVars(Sourcing(CacheLapses(p)))

PaperSpec == PaperInit /\ [][PaperNext]_paperVars /\ Fairness

-----------------------------------------------------------------------------
\* A schedule that has started ends, whatever market data, the users and the broker
\* do: no slice keeps the row lock for ever.
ScheduleEnds == task = "waiting" ~> task = "over"
=============================================================================
