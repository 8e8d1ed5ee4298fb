----------------------------- MODULE AlpacaSync -----------------------------
(***************************************************************************)
(* One resting order at Alpaca and its reconciliation,                     *)
(* alpaca_fill_sync._sync_order, from the poller and from the trade-update *)
(* stream of every server process.  Alpaca reports the cumulative quantity *)
(* of the order at once, and each single execution, with its price, in an  *)
(* activities feed that may lag behind.  What the feed does not cover yet  *)
(* is held back, and is recorded at the average price once a grace period  *)
(* is over.  The clock of that period is a dictionary of the process.      *)
(*                                                                         *)
(* Quantities are counted in executions: the k-th execution is unit k.     *)
(***************************************************************************)
EXTENDS Integers, OrderStatus

CONSTANTS
  Procs,         \* the server's processes
  Nobody,        \* the holder of a free row
  MaxExecs,      \* the executions that complete the order
  Grace,         \* ALPACA_ACTIVITY_LAG_GRACE_SECS, in ticks
  MaxFaults      \* bound on restarts, and on rollbacks that change a dictionary

ASSUME ProcAssumption  == Nobody \notin Procs
ASSUME BoundAssumption == MaxExecs \in Nat \ {0} /\ Grace \in Nat \ {0} /\ MaxFaults \in Nat

VARIABLES
  status,      \* Order.status
  filled_qty,  \* Order.filled_qty
  fills,       \* the price each unit was recorded at, in the order's Fill rows
  vstate,      \* the order at Alpaca
  traded,      \* the executions there
  feed,        \* how many of them the activities feed shows
  events,      \* the trade updates sent
  holder,      \* the process whose session holds the order's row lock
  stage,       \* where that session is: "free", "asking" or "holding"
  view,        \* the broker_state and the execution it acts on
  lag_seen,    \* _activity_lag_first_seen of each process, as an age
  faults

row   == <<status, filled_qty, fills>>
venue == <<vstate, traded, feed, events>>
sess  == <<holder, stage, view>>
vars  == <<status, filled_qty, fills, vstate, traded, feed, events,
           holder, stage, view, lag_seen, faults>>

Units    == 1..MaxExecs
Unbooked == 0
Average  == -1     \* the price of a unit is the number of its execution, or this
Never    == -1     \* the age of a clock that does not run
Ages     == {Never} \cup 0..Grace

VenueStates == {"working", "filled", "cancelled", "expired", "rejected"}

\* What get_order and the updates call the order; print is 0 without an execution.
View == [status : {"SUBMITTED"} \cup Statuses, filled : 0..MaxExecs, print : 0..MaxExecs]

Word(vs, q) ==
  CASE vs = "working"   -> IF q > 0 THEN "PARTIAL" ELSE "SUBMITTED"
    [] vs = "filled"    -> "FILLED"
    [] vs = "cancelled" -> "CANCELLED"
    [] vs = "expired"   -> "EXPIRED"
    [] vs = "rejected"  -> "REJECTED"

NoView == [status |-> "SUBMITTED", filled |-> 0, print |-> 0]
Current == [status |-> Word(vstate, traded), filled |-> traded, print |-> 0]

\* submit_order has handed the order back as working, with its ticket.
Init ==
  /\ status = "SUBMITTED" /\ filled_qty = 0 /\ fills = [k \in Units |-> Unbooked]
  /\ vstate = "working" /\ traded = 0 /\ feed = 0 /\ events = {}
  /\ holder = Nobody /\ stage = "free" /\ view = NoView
  /\ lag_seen = [p \in Procs |-> Never]
  /\ faults = 0

-----------------------------------------------------------------------------
(* Alpaca.  An update carries the state of the order and, for an           *)
(* execution, its print; updates may be late, repeated, reordered or lost. *)

Executes ==
  /\ vstate = "working" /\ traded < MaxExecs
  /\ traded' = traded + 1
  /\ vstate' = IF traded' = MaxExecs THEN "filled" ELSE "working"
  /\ events' = events \cup
       {[status |-> Word(vstate', traded'), filled |-> traded', print |-> traded']}
  /\ UNCHANGED <<feed, row, sess, lag_seen, faults>>

Ends ==
  /\ vstate = "working"
  /\ vstate' \in {"cancelled", "expired", "rejected"}
  /\ events' = events \cup {[status |-> Word(vstate', traded), filled |-> traded, print |-> 0]}
  /\ UNCHANGED <<traded, feed, row, sess, lag_seen, faults>>

FeedCatchesUp ==
  /\ feed < traded
  /\ feed' = feed + 1
  /\ UNCHANGED <<vstate, traded, events, row, sess, lag_seen, faults>>

-----------------------------------------------------------------------------
(* A session of a process, which holds the row lock from its begin on.     *)

SubmittedOnly == status = "SUBMITTED"

\* The candidates of a pass, and the re-check under the lock.
StillOpen == status \in LiveStatuses

Begin(p, at, v) ==
  /\ holder = Nobody /\ StillOpen
  /\ holder' = p /\ stage' = at /\ view' = v
  /\ UNCHANGED <<row, venue, lag_seen, faults>>

PollBegin(p) == Begin(p, "asking", NoView)

\* _handle_trade_update, with the state the update carries.
PushBegin(p) == \E e \in events : Begin(p, "holding", e)

\* adapter.get_order
PollFetch(p) ==
  /\ holder = p /\ stage = "asking"
  /\ stage' = "holding" /\ view' = Current
  /\ UNCHANGED <<row, venue, holder, lag_seen, faults>>

Release == holder' = Nobody /\ stage' = "free" /\ view' = NoView

NewlyFilled == view.filled - filled_qty

AnyPrint == view.print # 0

\* The print of the update is the whole delta.
PrintCovers == view.print # 0 /\ NewlyFilled = 1

\* get_order_fills returns what the feed shows, or nothing when it fails.
Shown == {0, feed}

Upto(shown) == IF shown > filled_qty THEN shown ELSE filled_qty

\* The remainder when the feed shows the first `shown` executions.
Short(shown) == NewlyFilled > 0 /\ ~ PrintCovers /\ Upto(shown) < view.filled

\* The lag was first seen at least Grace ago; setdefault starts the clock.
GraceOver(p) == lag_seen[p] >= Grace

Deferred(p, shown) == Short(shown) /\ ~ GraceOver(p)

\* filled_qty after the Fill rows of the delta.
Booked(p, shown) ==
  IF NewlyFilled <= 0 THEN filled_qty
  ELSE IF PrintCovers THEN view.filled
  ELSE IF Short(shown) /\ GraceOver(p) THEN view.filled
  ELSE Upto(shown)

Price(shown, k) ==
  IF PrintCovers THEN view.print ELSE IF k <= shown THEN k ELSE Average

EagerStatus(p, shown) == IF NewlyFilled > 0 \/ view.status \in TerminalStatuses
                         THEN view.status ELSE status

\* FILLED waits for a deferred remainder; PARTIAL needs a change; the rest is taken over.
NewStatus(p, shown) ==
  CASE view.status = "FILLED" -> IF Deferred(p, shown) THEN "PARTIAL" ELSE "FILLED"
    [] view.status = "PARTIAL" /\ NewlyFilled > 0 -> "PARTIAL"
    [] view.status \in TerminalUnfilled -> view.status
    [] OTHER -> status

\* What the pass leaves in the dictionary, whether its transaction commits or not.
LagClock(p, shown) ==
  CASE view.status \in TerminalUnfilled -> Never
    [] view.status \notin TerminalUnfilled /\ Deferred(p, shown)
         -> IF lag_seen[p] = Never THEN 0 ELSE lag_seen[p]
    [] ~ Deferred(p, shown) /\ (view.status = "FILLED" \/ (NewlyFilled > 0 /\ ~ PrintCovers))
         -> Never
    [] OTHER -> lag_seen[p]

Commit(p) ==
  \E shown \in Shown :
    /\ holder = p /\ stage = "holding"
    /\ filled_qty' = Booked(p, shown)
    /\ fills' = [k \in Units |-> IF k > filled_qty /\ k <= filled_qty'
                                   THEN Price(shown, k) ELSE fills[k]]
    /\ status' = NewStatus(p, shown)
    /\ lag_seen' = [lag_seen EXCEPT ![p] = LagClock(p, shown)]
    /\ Release
    /\ UNCHANGED <<venue, faults>>

\* An exception before or after the dictionary is touched: the row is rolled back.
Rollback(p) ==
  /\ holder = p
  /\ \/ UNCHANGED <<lag_seen, faults>>
     \/ \E shown \in Shown :
          /\ stage = "holding" /\ faults < MaxFaults
          /\ faults' = faults + 1
          /\ lag_seen' = [lag_seen EXCEPT ![p] = LagClock(p, shown)]
  /\ Release
  /\ UNCHANGED <<row, venue>>

\* A process dies and starts again with an empty dictionary.
Restart(p) ==
  /\ faults < MaxFaults
  /\ faults' = faults + 1
  /\ lag_seen' = [lag_seen EXCEPT ![p] = Never]
  /\ IF holder = p THEN Release ELSE UNCHANGED sess
  /\ UNCHANGED <<row, venue>>

\* cancel_order, which takes the same lock; Alpaca may have been reached or not.
UserCancels ==
  /\ holder = Nobody /\ StillOpen
  /\ status' = "CANCELLED"
  /\ \/ vstate = "working" /\ vstate' = "cancelled"
     \/ UNCHANGED vstate
  /\ UNCHANGED <<filled_qty, fills, traded, feed, events, sess, lag_seen, faults>>

-----------------------------------------------------------------------------
Older(a) == IF a = Never \/ a = Grace THEN a ELSE a + 1

\* Time passes; a clock stops counting at Grace.
Tick ==
  /\ lag_seen' = [p \in Procs |-> Older(lag_seen[p])]
  /\ lag_seen' # lag_seen
  /\ UNCHANGED <<row, venue, sess, faults>>

Next ==
  \/ Executes \/ Ends \/ FeedCatchesUp
  \/ \E p \in Procs : PollBegin(p) \/ PushBegin(p) \/ PollFetch(p)
                        \/ Commit(p) \/ Rollback(p) \/ Restart(p)
  \/ UserCancels \/ Tick

Spec == Init /\ [][Next]_vars

\* Every process polls the open orders for ever and its database serves lock requests
\* in order: SF on PollBegin.  Alpaca answers a question that is asked again and again,
\* and a pass with a current answer is not rolled back each time: SF on PollFetch and
\* PollCommit.  A session that has begun ends, and time passes: WF.
PollCommit(p) == Commit(p) /\ view = Current

Fairness ==
  /\ \A p \in Procs : /\ SF_vars(PollBegin(p)) /\ SF_vars(PollFetch(p))
                      /\ SF_vars(PollCommit(p)) /\ WF_vars(Commit(p) \/ Rollback(p))
  /\ WF_vars(Tick)

FairSpec == Spec /\ Fairness

-----------------------------------------------------------------------------
\* Type invariant: every variable stays in its domain.
TypeOK ==
  /\ status \in Statuses /\ filled_qty \in 0..MaxExecs
  /\ fills \in [Units -> {Unbooked, Average} \cup Units]
  /\ vstate \in VenueStates /\ traded \in 0..MaxExecs /\ feed \in 0..traded
  /\ events \subseteq View
  /\ holder \in Procs \cup {Nobody} /\ stage \in {"free", "asking", "holding"}
  /\ view \in View
  /\ lag_seen \in [Procs -> Ages]
  /\ faults \in 0..MaxFaults

\* The Fill rows are exactly the units the row shows, none beyond what Alpaca
\* executed, and each is at the price of its own execution or at the average: polls
\* and updates that overlap neither repeat nor mix up executions.
PrintsAreReal ==
  /\ filled_qty <= traded
  /\ \A k \in Units : fills[k] \in IF k <= filled_qty THEN {k, Average} ELSE {Unbooked}

\* "Transitioning FILLED now would drop it from the sync scan with the remainder
\* unrecorded": an order shown FILLED has all its executions recorded.
FilledIsComplete == status = "FILLED" => vstate = "filled" /\ filled_qty = traded

\* An order that is complete at Alpaca does not stay open for ever, though the feed
\* never catches up, updates are lost and processes restart.
DeferralEnds == (status \in LiveStatuses /\ vstate = "filled") ~> status \in TerminalStatuses
=============================================================================
