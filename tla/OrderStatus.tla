---------------------------- MODULE OrderStatus ----------------------------
(***************************************************************************)
(* The vocabulary of orders: the statuses an Order row can hold and the    *)
(* moves Order.transition() accepts (ALLOWED_ORDER_TRANSITIONS).  "NONE"   *)
(* is the source's None: a constructed row that is not in the table yet.   *)
(***************************************************************************)

Statuses == {"NEW", "SUBMITTED", "PARTIAL", "FILLED", "CANCELLED", "REJECTED", "EXPIRED"}

\* OrderStatus.OPEN: what counts as open for the risk gate and the kill switch.
OpenStatuses == {"NEW", "SUBMITTED", "PARTIAL"}

\* What every writer that locks an order re-checks under the lock.
LiveStatuses == {"SUBMITTED", "PARTIAL"}

\* The statuses whose row in the transition table is empty.
TerminalStatuses == {"FILLED", "CANCELLED", "REJECTED", "EXPIRED"}

\* broker_fill_sync.TERMINAL_UNFILLED: broker statuses that end an order.
TerminalUnfilled == {"CANCELLED", "EXPIRED", "REJECTED"}

RowStatuses == Statuses \cup {"NONE"}

Moves ==
  [ s \in RowStatuses |->
      CASE s = "NONE"      -> {"NEW", "SUBMITTED", "REJECTED"}
        [] s = "NEW"       -> {"SUBMITTED", "CANCELLED", "REJECTED", "EXPIRED"}
        [] s = "SUBMITTED" -> Statuses \ {"NEW"}
        [] s = "PARTIAL"   -> Statuses \ {"NEW", "SUBMITTED"}
        [] OTHER           -> {} ]

\* One committed transaction makes one move, or the two of an order that is
\* constructed, SUBMITTED and settled in the request that places it.
CommittedMoves(s) == Moves[s] \cup UNION {Moves[t] : t \in Moves[s]}
=============================================================================
