---------------------------- MODULE OrderLedger ----------------------------
(***************************************************************************)
(* What the order book promises, whoever moves it: an order follows the    *)
(* transition table, the quantity its row records only grows, never runs   *)
(* ahead of what the venue has executed, and nothing about an order        *)
(* changes once its status is terminal.  `traded` is the venue's truth,    *)
(* `status` and `filled_qty` are the row's columns.                        *)
(***************************************************************************)
EXTENDS Integers, OrderStatus

CONSTANTS
  Orders,     \* order ids
  OrderQty    \* the quantity each order asks for

VARIABLES status, filled_qty, traded

ledger == <<status, filled_qty, traded>>

Init ==
  /\ status = [o \in Orders |-> "NONE"]
  /\ filled_qty = [o \in Orders |-> 0]
  /\ traded = [o \in Orders |-> 0]

\* The venue executes some more of an order.
Trade(o) ==
  \E q \in 1..OrderQty :
    /\ q > traded[o]
    /\ traded' = [traded EXCEPT ![o] = q]
    /\ UNCHANGED <<status, filled_qty>>

\* A transaction commits a new status together with the quantity it books.
Settle(o) ==
  \E s \in CommittedMoves(status[o]), q \in filled_qty[o]..traded[o] :
    /\ status' = [status EXCEPT ![o] = s]
    /\ filled_qty' = [filled_qty EXCEPT ![o] = q]
    /\ UNCHANGED traded

\* Fills are booked on a live order whose status stays as it is.
Book(o) ==
  \E q \in filled_qty[o]..traded[o] :
    /\ status[o] \in LiveStatuses
    /\ filled_qty' = [filled_qty EXCEPT ![o] = q]
    /\ UNCHANGED <<status, traded>>

Next == \E o \in Orders : Trade(o) \/ Settle(o) \/ Book(o)

Spec == Init /\ [][Next]_ledger
=============================================================================
