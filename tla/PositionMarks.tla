---------------------------- MODULE PositionMarks ----------------------------
(***************************************************************************)
(* The other writers of the rows of PositionBook.  Two jobs revalue the    *)
(* open rows, mark_open_positions of position_marks.py every minute and    *)
(* snapshot_pnl of backtest_worker.py every five: each reads the rows,     *)
(* asks for a price and writes unrealized_pnl, without a lock in between.  *)
(* adopt_broker_holding of endpoints/brokers.py sets a row to what the     *)
(* broker holds.  Each row's update waits for the session that locked it.  *)
(***************************************************************************)
EXTENDS PositionBook

CONSTANTS
  Jobs,         \* the revaluing jobs
  Marks,        \* prices they may be given
  Holdings,     \* what the broker may hold: a quantity, not 0, and an average price
  MaxAdopted    \* bound on the adoptions

ASSUME MarkAssumption ==
  /\ Marks \subseteq Nat \ {0} /\ MaxAdopted \in Nat
  /\ Holdings \subseteq [qty : Int \ {0}, price : Nat]

VARIABLES
  unreal,     \* unrealized_pnl of each row
  job,        \* what each job has read: the open rows and their unrealized_pnl
  adopting,   \* the rows an adoption has read, and the holding
  adopted     \* the number of adoptions

markVars == <<unreal, job, adopting, adopted>>
bookVars == <<vars, markVars>>

Resting  == [at |-> "resting", seen |-> <<>>]
NoHolding == [at |-> "idle", read |-> NoRow, holding |-> [qty |-> 0, price |-> 0]]

MarksInit ==
  /\ Init
  /\ unreal = <<>>
  /\ job = [j \in Jobs |-> Resting]
  /\ adopting = NoHolding /\ adopted = 0

\* The rows no session that records a fill has locked.
Unlocked == {i \in DOMAIN rows : \A w \in Workers : pc[w] = "netting" => i \notin found[w]}

-----------------------------------------------------------------------------
(* Fills, and the kill switch, which leaves unrealized_pnl as it is.       *)

\* What a row has gained at price m.
Gained(p, m) == (m - p.avg_cost) * Size(p.qty) * (IF p.qty > 0 THEN 1 ELSE -1)

\* A row that is extended, reduced or flipped is marked at the price of the fill.
MarkedBy(f, p) == IF p.open THEN Gained(p, f.price) ELSE 0

FillMarks(w) ==
  LET i == read[w].id
  IN  /\ FillCommit(w)
      /\ unreal' = IF i = 0 THEN Append(unreal, 0)
                   ELSE [unreal EXCEPT ![i] = MarkedBy(fill[w], rows'[i])]
      /\ UNCHANGED <<job, adopting, adopted>>

Sessions ==
  \/ \E w \in Workers :
       \/ FillMarks(w)
       \/ (FillSelect(w) \/ FillLock(w) \/ FillAbort(w)) /\ UNCHANGED markVars
  \/ (KillSelect \/ KillCommit) /\ UNCHANGED markVars

-----------------------------------------------------------------------------
(* A revaluing job.                                                        *)

\* Mutation of Revalued: only rows that have never been marked.
NeverMarked == {i \in Open : unreal[i] = 0}

Revalued == Open

JobReads(j) ==
  /\ job[j] = Resting /\ Open # {}
  /\ job' = [job EXCEPT ![j] = [at |-> "pricing",
               seen |-> [i \in Revalued |-> [row |-> rows[i], unreal |-> unreal[i]]]]]
  /\ UNCHANGED <<vars, unreal, adopting, adopted>>

\* The rows whose value at price m is not the one that was read.
Moved(j, m) ==
  {i \in DOMAIN job[j].seen : Gained(job[j].seen[i].row, m) # job[j].seen[i].unreal}

\* One price serves all rows of the symbol.
JobWrites(j) ==
  /\ job[j].at = "pricing"
  /\ \E m \in Marks :
       /\ Moved(j, m) \subseteq Unlocked
       /\ unreal' = [i \in DOMAIN unreal |->
            IF i \in Moved(j, m) THEN Gained(job[j].seen[i].row, m) ELSE unreal[i]]
  /\ job' = [job EXCEPT ![j] = Resting]
  /\ UNCHANGED <<vars, adopting, adopted>>

\* No price, an error, or the end of the process.
JobFails(j) ==
  /\ job[j].at = "pricing"
  /\ job' = [job EXCEPT ![j] = Resting]
  /\ UNCHANGED <<vars, unreal, adopting, adopted>>

-----------------------------------------------------------------------------
(* adopt_broker_holding.                                                   *)

\* .first() of the open rows, which are not locked.
AdoptReads ==
  /\ adopting = NoHolding /\ adopted < MaxAdopted
  /\ \E h \in Holdings :
       \/ /\ Open = {}
          /\ adopting' = [at |-> "writing", read |-> NoRow, holding |-> h]
       \/ \E i \in Open :
            adopting' = [at |-> "writing", read |-> [id |-> i, row |-> rows[i]], holding |-> h]
  /\ adopted' = adopted + 1
  /\ UNCHANGED <<vars, unreal, job>>

\* The ORM writes a column only where the new value is not the one it read.
Column(new, was, is) == IF new = was THEN is ELSE new

Sign(q) == IF q > 0 THEN 1 ELSE -1

Overwritten(p, was, h) ==
  [p EXCEPT !.qty = Column(Sign(h.qty), Sign(was.qty), Sign(p.qty))
                      * Column(Size(h.qty), Size(was.qty), Size(p.qty)),
            !.avg_cost = Column(h.price, was.avg_cost, @)]

\* What an adoption changes in the book came from outside, not from a fill.
AdoptWrites ==
  LET h == adopting.holding
      i == adopting.read.id
  IN  /\ adopting.at = "writing" /\ i \in Unlocked \cup {0}
      /\ rows' = IF i = 0 THEN Append(rows, Opened(h))
                 ELSE [rows EXCEPT ![i] = Overwritten(rows[i], adopting.read.row, h)]
      /\ unreal' = IF i = 0 THEN Append(unreal, 0) ELSE unreal
      /\ net' = net + Quantities(rows') - Quantities(rows)
      /\ cash' = cash - Costs(rows') + Costs(rows)
      /\ adopting' = NoHolding
      /\ UNCHANGED <<begun, pc, fill, found, read, doomed, job, adopted>>

AdoptFails ==
  /\ adopting.at = "writing"
  /\ adopting' = NoHolding
  /\ UNCHANGED <<vars, unreal, job, adopted>>

-----------------------------------------------------------------------------
MarksNext ==
  \/ Sessions
  \/ \E j \in Jobs : JobReads(j) \/ JobWrites(j) \/ JobFails(j)
  \/ AdoptReads \/ AdoptWrites \/ AdoptFails

\* A session that has begun ends, a job runs when it is due, and the source of prices
\* answers it now and then.
MarksSpec ==
  /\ MarksInit /\ [][MarksNext]_bookVars
  /\ \A w \in Workers :
       WF_bookVars(FillMarks(w) \/ ((FillLock(w) \/ FillAbort(w)) /\ UNCHANGED markVars))
  /\ \A j \in Jobs : WF_bookVars(JobReads(j)) /\ SF_bookVars(JobWrites(j))

-----------------------------------------------------------------------------
\* A closed row is history: a session that found it open and waited for its lock does
\* not net into it any more, and a kill switch does not reopen it.  (The re-check of
\* is_open under the row lock; an adoption has no such check.)
ClosedForGood ==
  [][adopting.at = "idle" \/ adopting' = adopting
       => \A i \in DOMAIN rows : ~ rows[i].open => rows'[i] = rows[i]]_rows

\* "Marking the rows is enough": a job may write what it made of a quantity that a fill
\* or an adoption has changed meanwhile, but once the rows stay as they are, every open
\* one comes to show its own quantity and cost basis at a price of today.
MarksCatchUp ==
  <>[](\A i \in Open :
         unreal[i] \in {m * rows[i].qty - rows[i].avg_cost * rows[i].qty : m \in Marks})
=============================================================================
