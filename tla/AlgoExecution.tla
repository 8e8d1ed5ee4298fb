--------------------------- MODULE AlgoExecution ---------------------------
(***************************************************************************)
(* One algorithmic order: execution_algo.run_algo_order, the background    *)
(* task that sends the slices of the plan one after the other, each in a   *)
(* database session of its own that holds the order's row lock while the   *)
(* broker is called.  A user may cancel between slices, the process may    *)
(* die anywhere, and nothing resumes the schedule.  The push handlers look *)
(* an order up by the ticket on its row, and an algorithmic order's row    *)
(* carries the ticket of its latest slice.                                 *)
(***************************************************************************)
EXTENDS Integers, Functions, OrderStatus

CONSTANTS
  Qty,           \* the quantity of the order
  Display        \* the quantity of a slice

ASSUME PlanAssumption == Qty \in Nat \ {0} /\ Display \in 1..Qty

VARIABLES
  broker,      \* what the order's broker does, fixed from the start
  status,      \* Order.status
  filled_qty,  \* Order.filled_qty
  ticket,      \* the slice whose ticket Order.broker_order_id holds, 0 for none
  task,        \* where run_algo_order is
  slice,       \* the slice it works on
  lock,        \* the session that holds the order's row
  traded,      \* what the venue executed of each slice
  events       \* slices about which an event is on its way

row      == <<status, filled_qty, ticket>>
venue    == <<traded, events>>
algoVars == <<broker, status, filled_qty, ticket, task, slice, lock, traded, events>>

\* It sends an event about each execution; it executes every slice it accepts at
\* once and in full.
Brokers == [pushes : BOOLEAN, in_full : BOOLEAN]

-----------------------------------------------------------------------------
(* _slice_plan, ICEBERG: Display at a time, the rest last; with Display a  *)
(* divisor of Qty it is the TWAP plan.                                     *)

N == (Qty + Display - 1) \div Display
Slices == 1..N

SliceQty(i) == IF i < N THEN Display ELSE Qty - (N - 1) * Display

Executed == SumFunction(traded)

AlgoInit ==
  /\ broker \in Brokers
  /\ status = "NONE" /\ filled_qty = 0 /\ ticket = 0
  /\ task = "unborn" /\ slice = 1 /\ lock = "free"
  /\ traded = [i \in Slices |-> 0] /\ events = {}

-----------------------------------------------------------------------------
(* submit_order commits the row; start_algo_execution starts the task.     *)

Place ==
  /\ status = "NONE"
  /\ status' = "SUBMITTED"
  /\ task' = "waiting"
  /\ UNCHANGED <<filled_qty, ticket, slice, lock, venue>>

-----------------------------------------------------------------------------
(* run_algo_order, one iteration.                                          *)

AnyStatus == TRUE

\* "re-checks the order's live status before submitting", under the lock.
MaySend == status \in LiveStatuses

SliceBegin ==
  /\ task = "waiting" /\ lock = "free"
  /\ IF MaySend THEN task' = "locked" /\ lock' = "task"
                ELSE task' = "over" /\ UNCHANGED lock
  /\ UNCHANGED <<row, slice, venue>>

\* The venue executes q of slice i and may tell so.
Execute(i, q) ==
  /\ traded' = [traded EXCEPT ![i] = q]
  /\ events' = IF broker.pushes THEN events \cup {i} ELSE events

\* adapter.submit_order(slice) returns; how much was executed is up to the broker.
SliceAtVenue ==
  /\ task = "locked"
  /\ task' = "answered"
  /\ \/ Execute(slice, SliceQty(slice))
     \/ ~ broker.in_full /\ \E q \in 1..(SliceQty(slice) - 1) : Execute(slice, q)
     \/ ~ broker.in_full /\ UNCHANGED venue
  /\ UNCHANGED <<row, slice, lock>>

\* It raises: the venue refused the slice or, after a time-out, may have executed it.
\* The failure is audited and the schedule stops where it is.
SliceFails ==
  /\ task = "locked"
  /\ task' = "over" /\ lock' = "free"
  /\ Execute(slice, SliceQty(slice)) \/ UNCHANGED venue
  /\ UNCHANGED <<row, slice>>

AlwaysDisplay(i) == Display

\* What a slice adds to filled_qty: its own quantity, whatever the broker said.
SliceFill(i) == SliceQty(i)

Settled(new_filled) == IF new_filled >= Qty THEN "FILLED" ELSE "PARTIAL"

SliceCommit ==
  LET new_filled == filled_qty + SliceFill(slice)
  IN  /\ task = "answered"
      /\ filled_qty' = new_filled
      /\ ticket' = slice
      /\ status' = Settled(new_filled)
      /\ slice' = IF slice < N THEN slice + 1 ELSE slice
      /\ task' = IF slice < N THEN "waiting" ELSE "over"
      /\ lock' = "free"
      /\ UNCHANGED venue

\* The process dies, or the session fails after the broker was called: the
\* transaction is rolled back and no one takes the schedule up again.
TaskDies ==
  /\ task \in {"waiting", "locked", "answered"}
  /\ task' = "over"
  /\ lock' = IF lock = "task" THEN "free" ELSE lock
  /\ UNCHANGED <<row, slice, venue>>

-----------------------------------------------------------------------------
(* cancel_order, which takes the same lock.  The slice the row points to   *)
(* is past cancelling or refused, and the broker's answer is ignored.      *)

CancelBegin ==
  /\ lock = "free" /\ status \in LiveStatuses
  /\ lock' = "cancel"
  /\ UNCHANGED <<row, task, slice, venue>>

CancelCommit ==
  /\ lock = "cancel"
  /\ status' = "CANCELLED"
  /\ lock' = "free"
  /\ UNCHANGED <<filled_qty, ticket, task, slice, venue>>

CancelDies ==
  /\ lock = "cancel"
  /\ lock' = "free"
  /\ UNCHANGED <<row, task, slice, venue>>

-----------------------------------------------------------------------------
(* An event about a slice, handled by sync_order_against_broker in one     *)
(* transaction: the order is found by its ticket, its type is not asked.   *)
(* A slice that executed in full is FILLED; another one may be PARTIAL.    *)

PushEvent(i) ==
  LET newly_filled == traded[i] - filled_qty
  IN  /\ i \in events /\ ticket = i
      /\ lock = "free" /\ status \in LiveStatuses
      /\ filled_qty' = IF newly_filled > 0 THEN traded[i] ELSE filled_qty
      /\ \/ status' = "FILLED"
         \/ /\ traded[i] < SliceQty(i)
            /\ status' = IF newly_filled > 0 THEN "PARTIAL" ELSE status
      /\ UNCHANGED <<ticket, task, slice, lock, venue>>

\* A slice the broker only accepted is executed later.
LateExecution(i) ==
  /\ ~ broker.in_full
  /\ traded[i] = 0
  /\ i <= ticket \/ (i = slice /\ task = "answered")
  /\ \E q \in 1..SliceQty(i) : Execute(i, q)
  /\ UNCHANGED <<row, task, slice, lock>>

-----------------------------------------------------------------------------
AlgoNext ==
  /\ \/ Place
     \/ SliceBegin \/ SliceAtVenue \/ SliceFails \/ SliceCommit \/ TaskDies
     \/ CancelBegin \/ CancelCommit \/ CancelDies
     \/ \E i \in Slices : PushEvent(i) \/ LateExecution(i)
  /\ UNCHANGED broker

AlgoSpec == AlgoInit /\ [][AlgoNext]_algoVars

-----------------------------------------------------------------------------
\* Type invariant: every variable stays in its domain.
AlgoTypeOK ==
  /\ broker \in Brokers
  /\ status \in RowStatuses
  /\ filled_qty \in 0..Qty
  /\ ticket \in 0..N
  /\ task \in {"unborn", "waiting", "locked", "answered", "over"}
  /\ slice \in Slices
  /\ lock \in {"free", "task", "cancel"}
  /\ traded \in [Slices -> 0..Display]
  /\ events \subseteq Slices

\* At a broker that fills in full, what the row records was executed, and wherever
\* the schedule stops at most one slice that was executed goes unrecorded.  (One
\* slice per transaction.)
BookedIsExecuted ==
  broker.in_full => filled_qty <= Executed /\ Executed - filled_qty <= Display

\* "A user cancelling mid-schedule stops future slices": from the commit that ends
\* the order on, no slice is sent to the broker and none is recorded.
TerminalStops ==
  [][(status \in TerminalStatuses) => UNCHANGED row /\ task' \in {task, "over"}]_algoVars
=============================================================================
