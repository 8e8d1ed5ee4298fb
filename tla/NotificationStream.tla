------------------------- MODULE NotificationStream -------------------------
(***************************************************************************)
(* The push notifications of one open page: _notification_generator of     *)
(* endpoints/intelligence.py asks the database every few seconds what the  *)
(* symbols' decisions are and tells the page about the changes, composed   *)
(* with the feed.  The generator's memory ends with the connection, so the *)
(* page's begins anew here when it connects again.  (Regime changes, stale *)
(* feeds and kill switches are told of without a memory, or again at every *)
(* poll.)                                                                  *)
(***************************************************************************)
EXTENDS IntelligenceFeed

VARIABLES
  prev,     \* prev_decisions
  heard     \* the last notification the page received about each symbol

streamVars == <<prev, heard>>
vars == <<mkt, active, worker, listed, phase, task, cache, prev, heard>>

Unseen == [s \in Symbols |-> "unseen"]
Untold == [s \in Symbols |-> "nothing"]

StreamInit == prev = Unseen /\ heard = Untold

-----------------------------------------------------------------------------
\* Mutation of Event: a pause between two states is forgotten.
FromBlockOnly(old, new) ==
  IF old = "unseen" \/ old = new THEN "none"
  ELSE IF new = "BLOCK" THEN "BLOCK"
  ELSE IF new = "ALLOW" /\ old = "BLOCK" THEN "CLEAR" ELSE "none"

\* The notification a change of decision gives; the first decision is remembered
\* and not told.
Event(old, new) ==
  IF old = "unseen" \/ old = new THEN "none"
  ELSE IF new = "BLOCK" THEN "BLOCK"
  ELSE IF new = "ALLOW" /\ old \in {"BLOCK", "WAIT"} THEN "CLEAR" ELSE "none"

\* One symbol of a poll: an active one with recent ticks.
Poll(s) ==
  LET d == NotifyDecision(mkt[s])
      e == Event(prev[s], d)
  IN  /\ s \in active /\ mkt[s].ticks > 0
      /\ prev' = [prev EXCEPT ![s] = d]
      /\ heard' = IF e = "none" THEN heard ELSE [heard EXCEPT ![s] = e]
      /\ UNCHANGED feedVars

\* The page is loaded again, or the database failed under the generator's session.
Reconnect ==
  /\ prev' = Unseen /\ heard' = Untold
  /\ UNCHANGED feedVars

Init == FeedInit /\ StreamInit

Next ==
  \/ FeedNext /\ UNCHANGED streamVars
  \/ \E s \in Symbols : Poll(s)
  \/ Reconnect

Spec == Init /\ [][Next]_vars /\ FeedFairness

-----------------------------------------------------------------------------
\* What the page was last told of a symbol holds as far as the stream knows: it was
\* not told "blocked" of a symbol that is clear, nor "cleared" of one that is blocked,
\* through whatever states the symbol went and however often it dropped out.
PageToldTheTruth ==
  \A s \in Symbols :
    /\ heard[s] = "BLOCK" => prev[s] # "ALLOW"
    /\ heard[s] = "CLEAR" => prev[s] # "BLOCK"
=============================================================================
