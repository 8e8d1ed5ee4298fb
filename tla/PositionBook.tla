---------------------------- MODULE PositionBook ----------------------------
(***************************************************************************)
(* The position rows of one trader in one symbol at one broker, and the    *)
(* sessions that net fills into them: positions_service.                   *)
(* apply_fill_to_position, called by every path that writes a Fill.  The   *)
(* SELECT ... FOR UPDATE finds the open rows of its snapshot, waits for    *)
(* their locks and drops the rows that were closed meanwhile; when nothing *)
(* is left the fill opens a row, and no constraint of the table keeps two  *)
(* sessions from doing so at once.  The kill switch closes the rows it has *)
(* read without a lock.                                                    *)
(***************************************************************************)
EXTENDS Integers, Sequences, Functions

CONSTANTS
  Workers,    \* concurrent sessions, each with one fill to record
  Fills,      \* what may be filled: the quantity, signed by the order's side, at a price
  MaxFills    \* bound on the fills that are begun

ASSUME FillAssumption ==
  Fills \subseteq [qty : Int \ {0}, price : Nat \ {0}] /\ MaxFills \in Nat

VARIABLES
  rows,    \* the Position rows, in the order they were inserted
  begun,   \* the number of fills begun
  net,     \* the signed sum of the fills committed
  cash,    \* what they brought in: minus price times signed quantity
  pc,      \* "idle", "waiting" for row locks, or "netting"
  fill,    \* each session's fill
  found,   \* the open rows in its snapshot; once locked, the rows it holds
  read,    \* the row it nets into as it read it
  doomed   \* the rows the kill switch has read, {} when it is not at work

vars == <<rows, begun, net, cash, pc, fill, found, read, doomed>>

\* qty carries the sign of the side: LONG is positive.
Row    == [qty : Int, avg_cost : Nat, realized : Int, open : BOOLEAN]
NoFill == [qty |-> 0, price |-> 0]

\* What a session nets into when the query returned nothing: row 0.
NoRow == [id |-> 0, row |-> [qty |-> 0, avg_cost |-> 0, realized |-> 0, open |-> FALSE]]

Open == {i \in DOMAIN rows : rows[i].open}

Init ==
  /\ rows = <<>> /\ begun = 0 /\ net = 0 /\ cash = 0
  /\ pc = [w \in Workers |-> "idle"]
  /\ fill = [w \in Workers |-> NoFill]
  /\ found = [w \in Workers |-> {}]
  /\ read = [w \in Workers |-> NoRow]
  /\ doomed = {}

-----------------------------------------------------------------------------
(* The arithmetic of apply_fill_to_position.                               *)

Size(q) == IF q < 0 THEN -q ELSE q

Least(a, b) == IF a < b THEN a ELSE b

\* The first fill opens the row.
Opened(f) == [qty |-> f.qty, avg_cost |-> f.price, realized |-> 0, open |-> TRUE]

\* Same direction: the cost basis is the weighted average.  (The quotient is exact
\* when the prices are multiples of the quantities that can arise.)
Extended(p, f) ==
  LET total == Size(p.qty) + Size(f.qty)
  IN  [p EXCEPT !.qty = p.qty + f.qty,
                !.avg_cost = (p.avg_cost * Size(p.qty) + f.price * Size(f.qty)) \div total]

Gain(p, f) ==
  (f.price - p.avg_cost) * Least(Size(p.qty), Size(f.qty)) * (IF p.qty > 0 THEN 1 ELSE -1)

FlipKeepsBasis(p, f) ==
  LET new == p.qty + f.qty
  IN  [p EXCEPT !.qty = new, !.realized = @ + Gain(p, f), !.open = (new # 0)]

\* Opposite direction: reduce, close, or flip at the price of the fill.
Reduced(p, f) ==
  LET new == p.qty + f.qty
      q   == [p EXCEPT !.qty = new, !.realized = @ + Gain(p, f)]
  IN  IF new = 0 THEN [q EXCEPT !.open = FALSE]
      ELSE IF new * p.qty > 0 THEN q
      ELSE [q EXCEPT !.avg_cost = f.price]

Netted(p, f) == IF p.qty * f.qty >= 0 THEN Extended(p, f) ELSE Reduced(p, f)

-----------------------------------------------------------------------------
(* A session that records a fill.                                          *)

LockAlways(w, rs) == TRUE

\* No other session holds one of the rows.
LocksFree(w, rs) == \A x \in Workers \ {w} : pc[x] = "netting" => found[x] \cap rs = {}

FillSelect(w) ==
  /\ pc[w] = "idle" /\ begun < MaxFills
  /\ \E f \in Fills : fill' = [fill EXCEPT ![w] = f]
  /\ begun' = begun + 1
  /\ pc' = [pc EXCEPT ![w] = "waiting"]
  /\ found' = [found EXCEPT ![w] = Open]
  /\ UNCHANGED <<rows, net, cash, read, doomed>>

AsFound(w) == found[w]

\* The rows of the snapshot that are still open once their locks are granted.
StillOpen(w) == found[w] \cap Open

\* .first() of a result without an order.
FillLock(w) ==
  /\ pc[w] = "waiting" /\ LocksFree(w, found[w])
  /\ pc' = [pc EXCEPT ![w] = "netting"]
  /\ found' = [found EXCEPT ![w] = StillOpen(w)]
  /\ IF StillOpen(w) = {} THEN read' = [read EXCEPT ![w] = NoRow]
     ELSE \E i \in StillOpen(w) : read' = [read EXCEPT ![w] = [id |-> i, row |-> rows[i]]]
  /\ UNCHANGED <<rows, begun, net, cash, fill, doomed>>

FillEnds(w) ==
  /\ pc' = [pc EXCEPT ![w] = "idle"]
  /\ fill' = [fill EXCEPT ![w] = NoFill]
  /\ found' = [found EXCEPT ![w] = {}]
  /\ read' = [read EXCEPT ![w] = NoRow]

\* The transaction commits the Fill row and the position row together.
FillCommit(w) ==
  LET f == fill[w]
      r == read[w]
  IN  /\ pc[w] = "netting"
      /\ rows' = IF r.id = 0 THEN Append(rows, Opened(f))
                 ELSE [rows EXCEPT ![r.id] = Netted(r.row, f)]
      /\ net' = net + f.qty
      /\ cash' = cash - f.qty * f.price
      /\ FillEnds(w)
      /\ UNCHANGED <<begun, doomed>>

\* Something else in the transaction fails, or the process dies.
FillAbort(w) ==
  /\ pc[w] # "idle"
  /\ FillEnds(w)
  /\ UNCHANGED <<rows, begun, net, cash, doomed>>

-----------------------------------------------------------------------------
(* The position half of trigger_kill_switch.                               *)

KillSelect ==
  /\ doomed = {} /\ Open # {}
  /\ doomed' = Open
  /\ UNCHANGED <<rows, begun, net, cash, pc, fill, found, read>>

\* UPDATE positions SET is_open, closed_at: granted once the rows are not locked.
KillCommit ==
  /\ doomed # {}
  /\ \A w \in Workers : pc[w] = "netting" => found[w] \cap doomed = {}
  /\ rows' = [i \in DOMAIN rows |->
                IF i \in doomed THEN [rows[i] EXCEPT !.open = FALSE] ELSE rows[i]]
  /\ doomed' = {}
  /\ UNCHANGED <<begun, net, cash, pc, fill, found, read>>

-----------------------------------------------------------------------------
Next ==
  \/ \E w \in Workers : FillSelect(w) \/ FillLock(w) \/ FillCommit(w) \/ FillAbort(w)
  \/ KillSelect \/ KillCommit

Spec == Init /\ [][Next]_vars

-----------------------------------------------------------------------------
\* Type invariant: every variable stays in its domain.
TypeOK ==
  /\ rows \in Seq(Row)
  /\ begun \in 0..MaxFills /\ net \in Int /\ cash \in Int
  /\ pc \in [Workers -> {"idle", "waiting", "netting"}]
  /\ fill \in [Workers -> Fills \cup {NoFill}]
  /\ found \in [Workers -> SUBSET DOMAIN rows]
  /\ read \in [Workers -> [id : 0..Len(rows), row : Row]]
  /\ doomed \subseteq DOMAIN rows

\* What the rows add up to.
Quantities(rs) == SumFunction([i \in DOMAIN rs |-> rs[i].qty])
Costs(rs)      == SumFunction([i \in DOMAIN rs |-> rs[i].avg_cost * rs[i].qty])
Profits(rs)    == SumFunction([i \in DOMAIN rs |-> rs[i].realized])

\* Each committed fill moves the book by its quantity, once: over all rows, the ones
\* a kill switch closed included, the quantities add up to the fills, whatever
\* sessions raced for the row or for being the first.
FillsConserved == Quantities(rows) = net

\* No money appears or disappears in the netting: realized profit is what the fills
\* brought in plus the cost basis of what is still held, through every extension,
\* reduction, close and flip.
PnLConserved == Profits(rows) = cash + Costs(rows)
=============================================================================
