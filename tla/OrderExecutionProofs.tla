------------------------ MODULE OrderExecutionProofs ------------------------
(***************************************************************************)
(* Theorems about OrderExecution for every number of orders and sessions   *)
(* and every quantity.  The inductive invariant IInv says what the row     *)
(* locks give: a session that holds a row has read it as it is, no other   *)
(* session holds it, and every report in a session's hands or on its way   *)
(* was true of the venue when it was made.                                 *)
(***************************************************************************)
EXTENDS KillSwitch, TLAPS

\* An order has one session inside its lock at most, and that session's
\* reading of the row is current.
LockInv ==
  \A w \in Workers :
    /\ pc[w] = "idle" => ord[w] = NoOrder
    /\ pc[w] # "idle" => ord[w] \in Orders
    /\ pc[w] \in Locking =>
         /\ \A x \in Workers : pc[x] \in Locking /\ ord[x] = ord[w] => x = w
         /\ seen[w].status = status[ord[w]]
         /\ seen[w].filled = filled_qty[ord[w]]
         /\ status[ord[w]] \in LiveStatuses

\* The session that places an order is alone with it until the row is committed.
SubmitInv ==
  \A w \in Workers :
    pc[w] \in {"submitting", "answered"} =>
      /\ status[ord[w]] = "NONE"
      /\ \A x \in Workers : ord[x] = ord[w] => x = w
      /\ pc[w] = "submitting" => vstate[ord[w]] = "absent"

\* A report never says more than the venue did, and what it says of the end of
\* an order stays true.
Sound(o, r) ==
  /\ r.filled <= traded[o]
  /\ r.status = "FILLED" => vstate[o] = "filled" /\ r.filled = traded[o]
  /\ r.status = "EXPIRED" => vstate[o] = "expired"
  /\ ~ PriceLookupFails => r.priced

ReportInv ==
  /\ \A p \in pushes : Sound(p.order, p.report)
  /\ \A w \in Workers : pc[w] = "synced" => Sound(ord[w], view[w])
  /\ \A w \in Workers : pc[w] = "answered" =>
       /\ view[w].status = "FILLED" =>
            /\ vstate[ord[w]] = "filled"
            /\ ReportsInlineQty => view[w].filled = traded[ord[w]] /\ traded[ord[w]] > 0
       /\ view[w].status # "REJECTED" => vstate[ord[w]] # "absent"

RowInv ==
  \A o \in Orders :
    /\ booked[o] = filled_qty[o]
    /\ ReportsInlineQty => filled_qty[o] <= traded[o]
    /\ status[o] # "NEW"
    /\ status[o] = "NONE" => filled_qty[o] = 0
    /\ vstate[o] = "absent" => traded[o] = 0
    /\ status[o] = "FILLED" => vstate[o] = "filled"
    /\ status[o] = "FILLED" /\ ReportsInlineQty /\ ~ PriceLookupFails => booked[o] = traded[o]
    /\ status[o] = "EXPIRED" => vstate[o] = "expired"
    /\ status[o] \in LiveStatuses => vstate[o] # "absent" /\ has_ticket[o]

IInv == TypeOK /\ LockInv /\ SubmitInv /\ ReportInv /\ RowInv
-----------------------------------------------------------------------------
LEMMA InitInv == Init => IInv
  BY QtyAssumption, OrderAssumption
  DEF Init, IInv, TypeOK, LockInv, SubmitInv, ReportInv, RowInv, Sound, RowStatuses, Statuses,
      VenueStates, PCs, Locking, Report, Nothing, NoReport, LiveStatuses

LEMMA SubmitBeginInv ==
  ASSUME IInv, NEW w \in Workers, NEW o \in Orders, SubmitBegin(w, o)
  PROVE  IInv'
<1> USE QtyAssumption, OrderAssumption, ReportAssumption DEF IInv, row, venue, work, RowStatuses, Statuses, VenueStates, PCs, Locking, LiveStatuses, Report, SubmitBegin, Begin
<1>1. TypeOK'
  BY DEF TypeOK, LockInv, SubmitInv, ReportInv, RowInv, Sound
<1>2. LockInv'
  BY DEF TypeOK, LockInv, SubmitInv
<1>3. SubmitInv'
  BY DEF TypeOK, LockInv, SubmitInv
<1>4. ReportInv'
  BY DEF TypeOK, LockInv, SubmitInv, ReportInv, RowInv, Sound
<1>5. RowInv'
  BY DEF TypeOK, LockInv, SubmitInv, ReportInv, RowInv, Sound
<1> QED
  BY <1>1, <1>2, <1>3, <1>4, <1>5

LEMMA ReportTypes ==
  ASSUME NEW vs, NEW q \in 0..OrderQty
  PROVE  /\ FullReport(vs, q) \in Report
         /\ InlineReport(q) \in Report
         /\ [NoReport EXCEPT !.status = "REJECTED"] \in Report
         /\ NoReport \in Report
<1>1. Word(vs, q) \in Statuses \cup {"UNKNOWN"}
  BY DEF Word, Statuses
<1>2. FullReport(vs, q) \in Report
  BY <1>1 DEF FullReport, Report
<1>3. 0 \in 0..OrderQty
  BY QtyAssumption
<1>4. InlineReport(q) \in Report
  BY <1>3 DEF InlineReport, Report, Statuses
<1>5. NoReport \in Report
  BY <1>3 DEF NoReport, Report
<1>6. [NoReport EXCEPT !.status = "REJECTED"] \in Report
  BY <1>5 DEF NoReport, Report, Statuses
<1> QED
  BY <1>2, <1>4, <1>5, <1>6

\* What an adapter answers is a report the invariant allows.
LEMMA ReportsSound ==
  ASSUME TypeOK, NEW o \in Orders, NEW r \in Reports(o)
  PROVE  r \in Report /\ Sound(o, r)
<1> DEFINE full == FullReport(vstate[o], traded[o])
<1>1. traded[o] \in 0..OrderQty
  BY DEF TypeOK
<1>2. full \in Report
  BY <1>1, ReportTypes
<1>3. \/ r = full
      \/ vstate[o] # "filled" /\ r = [full EXCEPT !.filled = 0]
      \/ vstate[o] = "filled" /\ PriceLookupFails /\ r = [full EXCEPT !.priced = FALSE]
  BY DEF Reports
<1>4. r \in Report
  <2>1. 0 \in 0..OrderQty
    BY QtyAssumption
  <2>2. [full EXCEPT !.filled = 0] \in Report
    BY <1>2, <2>1 DEF Report
  <2>3. [full EXCEPT !.priced = FALSE] \in Report
    BY <1>2 DEF Report
  <2> QED
    BY <1>2, <1>3, <2>2, <2>3
<1>5. full.filled = traded[o] /\ full.priced = TRUE
  BY DEF FullReport
<1>6. full.status = "FILLED" => vstate[o] = "filled"
  BY DEF FullReport, Word
<1>7. full.status = "EXPIRED" => vstate[o] = "expired"
  BY DEF FullReport, Word
<1>8. CASE r = full
  BY <1>1, <1>4, <1>5, <1>6, <1>7, <1>8 DEF Sound
<1>9. CASE vstate[o] # "filled" /\ r = [full EXCEPT !.filled = 0]
  <2>1. r.status = full.status /\ r.filled = 0 /\ r.priced = full.priced
    BY <1>2, <1>9 DEF Report
  <2> QED
    BY <1>1, <1>4, <1>5, <1>6, <1>7, <1>9, <2>1 DEF Sound
<1>10. CASE vstate[o] = "filled" /\ PriceLookupFails /\ r = [full EXCEPT !.priced = FALSE]
  <2>1. r.status = full.status /\ r.filled = full.filled
    BY <1>2, <1>10 DEF Report
  <2> QED
    BY <1>1, <1>4, <1>5, <1>6, <1>7, <1>10, <2>1 DEF Sound
<1> QED
  BY <1>3, <1>8, <1>9, <1>10

LEMMA SubmitAtVenueInv ==
  ASSUME IInv, NEW w \in Workers, SubmitAtVenue(w)
  PROVE  IInv'
<1> USE QtyAssumption, OrderAssumption, ReportAssumption DEF IInv, row, venue, work, RowStatuses, Statuses, VenueStates, PCs, Locking, LiveStatuses, Report
<1>1. pc[w] = "submitting" /\ ord[w] \in Orders /\ vstate[ord[w]] = "absent" /\ traded[ord[w]] = 0
  BY DEF SubmitAtVenue, LockInv, SubmitInv, RowInv
<1>2. \E vs \in VenueStates \ {"absent"}, q \in 0..OrderQty, r \in Report :
        /\ Answer(w, ord[w], vs, q, r)
        /\ r.status = "FILLED" => vs = "filled" /\ (ReportsInlineQty => r.filled = q /\ q > 0)
  <2>1. [NoReport EXCEPT !.status = "REJECTED"].status = "REJECTED"
    BY DEF NoReport
  <2>2. FullReport("working", 0).status = "SUBMITTED"
    BY DEF FullReport, Word
  <2>3. CASE Answer(w, ord[w], "working", 0, FullReport("working", 0))
    BY <2>2, <2>3, ReportTypes
  <2>4. CASE \E q \in 1..OrderQty : Answer(w, ord[w], "filled", q, InlineReport(q))
    <3>1. PICK q \in 1..OrderQty : Answer(w, ord[w], "filled", q, InlineReport(q))
      BY <2>4
    <3>2. q \in 0..OrderQty /\ q > 0
      BY <3>1
    <3>3. InlineReport(q) \in Report
      BY <3>2, ReportTypes
    <3>4. ReportsInlineQty => InlineReport(q).filled = q
      BY DEF InlineReport
    <3> QED
      BY <3>1, <3>2, <3>3, <3>4
  <2>5. CASE Answer(w, ord[w], "rejected", 0, [NoReport EXCEPT !.status = "REJECTED"])
    BY <2>1, <2>5, ReportTypes
  <2>6. CASE Answer(w, ord[w], "working", 0, [NoReport EXCEPT !.status = "REJECTED"])
    BY <2>1, <2>6, ReportTypes
  <2>7. CASE \E q \in 1..OrderQty : Answer(w, ord[w], "filled", q, [NoReport EXCEPT !.status = "REJECTED"])
    BY <2>1, <2>7, ReportTypes
  <2> QED
    BY <2>3, <2>4, <2>5, <2>6, <2>7 DEF SubmitAtVenue
<1>3. PICK vs \in VenueStates \ {"absent"}, q \in 0..OrderQty, r \in Report :
        /\ Answer(w, ord[w], vs, q, r)
        /\ r.status = "FILLED" => vs = "filled" /\ (ReportsInlineQty => r.filled = q /\ q > 0)
  BY <1>2
<1>4. pc' = [pc EXCEPT ![w] = "answered"] /\ UNCHANGED <<status, filled_qty, has_ticket, booked, pushes, ord, seen>>
  BY DEF SubmitAtVenue
<1>5. TypeOK'
  BY <1>1, <1>3, <1>4 DEF Answer, TypeOK
<1>6. LockInv'
  BY <1>1, <1>3, <1>4 DEF Answer, TypeOK, LockInv
<1>7. SubmitInv'
  BY <1>1, <1>3, <1>4 DEF Answer, TypeOK, LockInv, SubmitInv
<1>8. ReportInv'
  <2>1. ASSUME NEW p \in pushes PROVE Sound(p.order, p.report)'
    BY <1>1, <1>3, <1>4, <2>1 DEF Answer, TypeOK, ReportInv, RowInv, Sound
  <2>2. ASSUME NEW x \in Workers, pc'[x] = "synced" PROVE Sound(ord[x], view[x])'
    BY <1>1, <1>3, <1>4, <2>2 DEF Answer, TypeOK, LockInv, SubmitInv, ReportInv, Sound
  <2>3. ASSUME NEW x \in Workers, pc'[x] = "answered"
        PROVE  (/\ view[x].status = "FILLED" =>
                     /\ vstate[ord[x]] = "filled"
                     /\ ReportsInlineQty => view[x].filled = traded[ord[x]] /\ traded[ord[x]] > 0
                /\ view[x].status # "REJECTED" => vstate[ord[x]] # "absent")'
    BY <1>1, <1>3, <1>4, <2>3 DEF Answer, TypeOK, LockInv, SubmitInv, ReportInv
  <2> QED
    BY <1>4, <2>1, <2>2, <2>3 DEF ReportInv
<1>9. RowInv'
  BY <1>1, <1>3, <1>4 DEF Answer, TypeOK, SubmitInv, RowInv
<1> QED
  BY <1>5, <1>6, <1>7, <1>8, <1>9

LEMMA SubmitCommitInv ==
  ASSUME IInv, NEW w \in Workers, SubmitCommit(w)
  PROVE  IInv'
<1> USE QtyAssumption, OrderAssumption, ReportAssumption DEF IInv, row, venue, work, RowStatuses, Statuses, VenueStates, PCs, Locking, LiveStatuses, Report, SubmitCommit, InlineFill, End, Nothing, NoReport
<1>1. TypeOK'
  BY DEF TypeOK, LockInv, SubmitInv, ReportInv, RowInv, Sound
<1>2. LockInv'
  BY DEF TypeOK, LockInv, SubmitInv
<1>3. SubmitInv'
  BY DEF TypeOK, LockInv, SubmitInv
<1>4. ReportInv'
  BY DEF TypeOK, LockInv, SubmitInv, ReportInv, RowInv, Sound
<1>5. RowInv'
  <2> DEFINE o == ord[w]
  <2>1. o \in Orders /\ view[w] \in Report /\ status[o] = "NONE"
    BY DEF TypeOK, LockInv, SubmitInv
  <2>2. CASE view[w].status = "FILLED"
    <3>1. /\ vstate[o] = "filled"
          /\ ReportsInlineQty => InlineFill(w) = traded[o]
      BY <2>1, <2>2 DEF TypeOK, ReportInv
    <3>2. /\ status' = [status EXCEPT ![o] = "FILLED"]
          /\ filled_qty' = [filled_qty EXCEPT ![o] = InlineFill(w)]
          /\ booked' = [booked EXCEPT ![o] = InlineFill(w)]
          /\ has_ticket' = [has_ticket EXCEPT ![o] = TRUE]
          /\ UNCHANGED <<vstate, traded>>
      BY <2>2
    <3>3. InlineFill(w) \in 0..OrderQty
      BY <2>1
    <3> HIDE DEF InlineFill
    <3> QED
      BY <2>1, <3>1, <3>2, <3>3 DEF TypeOK, RowInv
  <2>3. CASE view[w].status # "FILLED"
    <3>1. view[w].status # "REJECTED" => vstate[o] # "absent"
      BY DEF ReportInv
    <3>2. traded[o] \in 0..OrderQty
      BY <2>1 DEF TypeOK
    <3>3. /\ filled_qty' = [filled_qty EXCEPT ![o] = 0]
          /\ booked' = [booked EXCEPT ![o] = 0]
          /\ UNCHANGED <<vstate, traded>>
      BY <2>3
    <3>4. CASE view[w].status = "REJECTED"
      <4>1. /\ status' = [status EXCEPT ![o] = "REJECTED"]
            /\ has_ticket' = [has_ticket EXCEPT ![o] = FALSE]
        BY <3>4
      <4> QED
        BY <2>1, <3>2, <3>3, <4>1 DEF TypeOK, RowInv
    <3>5. CASE view[w].status # "REJECTED"
      <4>1. /\ status' = [status EXCEPT ![o] = "SUBMITTED"]
            /\ has_ticket' = [has_ticket EXCEPT ![o] = TRUE]
        BY <2>3, <3>5
      <4> QED
        BY <2>1, <3>1, <3>2, <3>3, <3>5, <4>1 DEF TypeOK, RowInv
    <3> QED
      BY <3>4, <3>5
  <2> QED
    BY <2>2, <2>3
<1> QED
  BY <1>1, <1>2, <1>3, <1>4, <1>5

LEMMA CancelBeginInv ==
  ASSUME IInv, NEW w \in Workers, NEW o \in Orders, CancelBegin(w, o)
  PROVE  IInv'
<1> USE QtyAssumption, OrderAssumption, ReportAssumption DEF IInv, row, venue, work, RowStatuses, Statuses, VenueStates, PCs, Locking, LiveStatuses, Report, CancelBegin, Cancellable, Moves, Free, Holds, Begin
<1>1. TypeOK'
  BY DEF TypeOK, LockInv, SubmitInv, ReportInv, RowInv, Sound
<1>2. LockInv'
  <2>1. status[o] \in LiveStatuses
    BY DEF TypeOK, RowInv
  <2> QED
    BY <2>1 DEF TypeOK, LockInv, SubmitInv
<1>3. SubmitInv'
  BY DEF TypeOK, LockInv, SubmitInv
<1>4. ReportInv'
  BY DEF TypeOK, LockInv, SubmitInv, ReportInv, RowInv, Sound
<1>5. RowInv'
  BY DEF TypeOK, LockInv, SubmitInv, ReportInv, RowInv, Sound
<1> QED
  BY <1>1, <1>2, <1>3, <1>4, <1>5

LEMMA CancelAtVenueInv ==
  ASSUME IInv, NEW w \in Workers, CancelAtVenue(w)
  PROVE  IInv'
<1> USE QtyAssumption, OrderAssumption, ReportAssumption DEF IInv, row, venue, work, RowStatuses, Statuses, VenueStates, PCs, Locking, LiveStatuses, Report, CancelAtVenue
<1>1. TypeOK'
  BY DEF TypeOK, LockInv, SubmitInv, ReportInv, RowInv, Sound
<1>2. LockInv'
  BY DEF TypeOK, LockInv, SubmitInv
<1>3. SubmitInv'
  BY DEF TypeOK, LockInv, SubmitInv
<1>4. ReportInv'
  BY DEF TypeOK, LockInv, SubmitInv, ReportInv, RowInv, Sound
<1>5. RowInv'
  BY DEF TypeOK, LockInv, SubmitInv, ReportInv, RowInv, Sound
<1> QED
  BY <1>1, <1>2, <1>3, <1>4, <1>5

LEMMA CancelCommitInv ==
  ASSUME IInv, NEW w \in Workers, CancelCommit(w)
  PROVE  IInv'
<1> USE QtyAssumption, OrderAssumption, ReportAssumption DEF IInv, row, venue, work, RowStatuses, Statuses, VenueStates, PCs, Locking, LiveStatuses, Report, CancelCommit, End, Nothing, NoReport
<1>1. TypeOK'
  BY DEF TypeOK, LockInv, SubmitInv, ReportInv, RowInv, Sound
<1>2. LockInv'
  BY DEF TypeOK, LockInv, SubmitInv
<1>3. SubmitInv'
  BY DEF TypeOK, LockInv, SubmitInv
<1>4. ReportInv'
  BY DEF TypeOK, LockInv, SubmitInv, ReportInv, RowInv, Sound
<1>5. RowInv'
  BY DEF TypeOK, LockInv, SubmitInv, ReportInv, RowInv, Sound
<1> QED
  BY <1>1, <1>2, <1>3, <1>4, <1>5

LEMMA SyncBeginInv ==
  ASSUME IInv, NEW w \in Workers, NEW o \in Orders, SyncBegin(w, o)
  PROVE  IInv'
<1> USE QtyAssumption, OrderAssumption, ReportAssumption DEF IInv, row, venue, work, RowStatuses, Statuses, VenueStates, PCs, Locking, LiveStatuses, Report, SyncBegin, Syncable, Free, Holds, Begin
<1>1. TypeOK'
  BY DEF TypeOK, LockInv, SubmitInv, ReportInv, RowInv, Sound
<1>2. LockInv'
  BY DEF TypeOK, LockInv, SubmitInv
<1>3. SubmitInv'
  BY DEF TypeOK, LockInv, SubmitInv
<1>4. ReportInv'
  BY DEF TypeOK, LockInv, SubmitInv, ReportInv, RowInv, Sound
<1>5. RowInv'
  BY DEF TypeOK, LockInv, SubmitInv, ReportInv, RowInv, Sound
<1> QED
  BY <1>1, <1>2, <1>3, <1>4, <1>5

LEMMA SyncFetchInv ==
  ASSUME IInv, NEW w \in Workers, SyncFetch(w)
  PROVE  IInv'
<1> USE QtyAssumption, OrderAssumption, ReportAssumption DEF IInv, row, venue, work, RowStatuses, Statuses, VenueStates, PCs, Locking, LiveStatuses, Report
<1>1. pc[w] = "syncing" /\ ord[w] \in Orders
  BY DEF SyncFetch, LockInv
<1>2. PICK r \in Reports(ord[w]) : view' = [view EXCEPT ![w] = r]
  BY DEF SyncFetch
<1>3. r \in Report /\ Sound(ord[w], r)
  BY <1>1, <1>2, ReportsSound
<1>4. /\ pc' = [pc EXCEPT ![w] = "synced"]
      /\ UNCHANGED <<status, filled_qty, has_ticket, booked, vstate, traded, pushes, ord, seen>>
  BY DEF SyncFetch
<1>5. TypeOK'
  BY <1>2, <1>3, <1>4 DEF TypeOK
<1>6. LockInv'
  BY <1>1, <1>4 DEF TypeOK, LockInv
<1>7. SubmitInv'
  BY <1>1, <1>4 DEF TypeOK, SubmitInv
<1>8. ReportInv'
  BY <1>1, <1>2, <1>3, <1>4 DEF TypeOK, ReportInv, Sound
<1>9. RowInv'
  BY <1>4 DEF RowInv
<1> QED
  BY <1>5, <1>6, <1>7, <1>8, <1>9

LEMMA PushBeginInv ==
  ASSUME IInv, NEW w \in Workers, NEW p \in pushes, PushBegin(w, p)
  PROVE  IInv'
<1> USE QtyAssumption, OrderAssumption, ReportAssumption DEF IInv, row, venue, work, RowStatuses, Statuses, VenueStates, PCs, Locking, LiveStatuses, Report, PushBegin, Syncable, Free, Holds, Begin
<1>1. TypeOK'
  BY DEF TypeOK, LockInv, SubmitInv, ReportInv, RowInv, Sound
<1>2. LockInv'
  BY DEF TypeOK, LockInv, SubmitInv
<1>3. SubmitInv'
  BY DEF TypeOK, LockInv, SubmitInv
<1>4. ReportInv'
  BY DEF TypeOK, LockInv, SubmitInv, ReportInv, RowInv, Sound
<1>5. RowInv'
  BY DEF TypeOK, LockInv, SubmitInv, ReportInv, RowInv, Sound
<1> QED
  BY <1>1, <1>2, <1>3, <1>4, <1>5

LEMMA SyncCommitInv ==
  ASSUME IInv, NEW w \in Workers, SyncCommit(w)
  PROVE  IInv'
<1> USE QtyAssumption, OrderAssumption, ReportAssumption DEF IInv, row, venue, work, RowStatuses, Statuses, VenueStates, PCs, Locking, LiveStatuses, Report, SyncCommit, SyncedStatus, Books, NewlyFilled, TerminalUnfilled, End, Nothing, NoReport
<1>1. TypeOK'
  BY DEF TypeOK, LockInv, SubmitInv, ReportInv, RowInv, Sound
<1>2. LockInv'
  BY DEF TypeOK, LockInv, SubmitInv
<1>3. SubmitInv'
  BY DEF TypeOK, LockInv, SubmitInv
<1>4. ReportInv'
  BY DEF TypeOK, LockInv, SubmitInv, ReportInv, RowInv, Sound
<1>5. RowInv'
  BY DEF TypeOK, LockInv, SubmitInv, ReportInv, RowInv, Sound
<1> QED
  BY <1>1, <1>2, <1>3, <1>4, <1>5

LEMMA AbortInv ==
  ASSUME IInv, NEW w \in Workers, Abort(w)
  PROVE  IInv'
<1> USE QtyAssumption, OrderAssumption, ReportAssumption DEF IInv, row, venue, work, RowStatuses, Statuses, VenueStates, PCs, Locking, LiveStatuses, Report, Abort, End, Nothing, NoReport
<1>1. TypeOK'
  BY DEF TypeOK, LockInv, SubmitInv, ReportInv, RowInv, Sound
<1>2. LockInv'
  BY DEF TypeOK, LockInv, SubmitInv
<1>3. SubmitInv'
  BY DEF TypeOK, LockInv, SubmitInv
<1>4. ReportInv'
  BY DEF TypeOK, LockInv, SubmitInv, ReportInv, RowInv, Sound
<1>5. RowInv'
  BY DEF TypeOK, LockInv, SubmitInv, ReportInv, RowInv, Sound
<1> QED
  BY <1>1, <1>2, <1>3, <1>4, <1>5

\* A move of the venue keeps every report that was true of it true.
LEMMA VenueMovesInv ==
  ASSUME IInv, NEW o \in Orders, NEW vs \in VenueStates \ {"absent"}, NEW q \in 0..OrderQty,
         q >= traded[o], VenueMoves(o, vs, q)
  PROVE  IInv'
<1> USE QtyAssumption, OrderAssumption, ReportAssumption DEF IInv, row, venue, work, RowStatuses, Statuses, VenueStates, PCs, Locking, LiveStatuses, Report
<1> DEFINE p0 == [order |-> o, report |-> FullReport(vs, q)]
<1>1. /\ vstate[o] = "working" /\ traded[o] \in 0..OrderQty
      /\ vstate' = [vstate EXCEPT ![o] = vs] /\ traded' = [traded EXCEPT ![o] = q]
      /\ pushes' = pushes \cup {p0}
      /\ UNCHANGED <<status, filled_qty, has_ticket, booked, pc, ord, seen, view>>
  BY DEF VenueMoves, TypeOK
<1>2. FullReport(vs, q) \in Report
  BY ReportTypes
<1>3. TypeOK'
  BY <1>1, <1>2 DEF TypeOK
<1>4. LockInv'
  BY <1>1 DEF LockInv
<1>5. SubmitInv'
  BY <1>1 DEF SubmitInv, TypeOK, LockInv
<1>6. ASSUME NEW x \in Orders, NEW r \in Report, Sound(x, r) PROVE Sound(x, r)'
  BY <1>1, <1>6 DEF Sound, TypeOK
<1>7. Sound(o, FullReport(vs, q))'
  <2>1. vstate'[o] = vs /\ traded'[o] = q
    BY <1>1 DEF TypeOK
  <2> QED
    BY <2>1 DEF Sound, FullReport, Word
<1>8. ReportInv'
  <2>1. ASSUME NEW p \in pushes' PROVE Sound(p.order, p.report)'
    <3>1. CASE p \in pushes
      <4>1. p.order \in Orders /\ p.report \in Report /\ Sound(p.order, p.report)
        BY <3>1 DEF TypeOK, ReportInv
      <4> QED
        BY <1>6, <4>1
    <3>2. CASE p = p0
      BY <1>7, <3>2
    <3> QED
      BY <1>1, <2>1, <3>1, <3>2
  <2>2. ASSUME NEW x \in Workers, pc'[x] = "synced" PROVE Sound(ord[x], view[x])'
    <3>1. ord[x] \in Orders /\ view[x] \in Report /\ Sound(ord[x], view[x])
      BY <1>1, <2>2 DEF TypeOK, LockInv, ReportInv
    <3>2. ord'[x] = ord[x] /\ view'[x] = view[x]
      BY <1>1
    <3> QED
      BY <1>1, <1>6, <3>1, <3>2
  <2>3. ASSUME NEW x \in Workers, pc'[x] = "answered"
        PROVE  (/\ view[x].status = "FILLED" =>
                     /\ vstate[ord[x]] = "filled"
                     /\ ReportsInlineQty => view[x].filled = traded[ord[x]] /\ traded[ord[x]] > 0
                /\ view[x].status # "REJECTED" => vstate[ord[x]] # "absent")'
    BY <1>1, <2>3 DEF TypeOK, LockInv, ReportInv
  <2> QED
    BY <2>1, <2>2, <2>3 DEF ReportInv
<1>9. RowInv'
  BY <1>1 DEF RowInv, TypeOK
<1> QED
  BY <1>3, <1>4, <1>5, <1>8, <1>9

LEMMA VenueTradesInv ==
  ASSUME IInv, NEW o \in Orders, VenueTrades(o)
  PROVE  IInv'
<1>1. PICK q \in 1..OrderQty : q > traded[o] /\ (VenueMoves(o, "filled", q) \/ VenueMoves(o, "working", q))
  BY DEF VenueTrades
<1>2. q \in 0..OrderQty /\ q >= traded[o]
  BY <1>1, QtyAssumption DEF IInv, TypeOK
<1> QED
  BY <1>1, <1>2, VenueMovesInv DEF VenueStates

LEMMA VenueEndsInv ==
  ASSUME IInv, NEW o \in Orders, VenueEnds(o)
  PROVE  IInv'
<1>1. PICK vs \in {"cancelled", "expired", "rejected"} : VenueMoves(o, vs, traded[o])
  BY DEF VenueEnds
<1>2. traded[o] \in 0..OrderQty /\ traded[o] >= traded[o]
  BY QtyAssumption DEF IInv, TypeOK
<1> QED
  BY <1>1, <1>2, VenueMovesInv DEF VenueStates

LEMMA StepInv == IInv /\ [Next]_vars => IInv'
<1> SUFFICES ASSUME IInv, [Next]_vars PROVE IInv'
  OBVIOUS
<1>1. CASE UNCHANGED vars
  BY <1>1 DEF vars, IInv, TypeOK, LockInv, SubmitInv, ReportInv, RowInv, Sound
<1>2. ASSUME NEW w \in Workers, Handler(w) PROVE IInv'
  BY <1>2, SubmitBeginInv, SubmitAtVenueInv, SubmitCommitInv, CancelBeginInv, CancelAtVenueInv,
     CancelCommitInv, SyncBeginInv, SyncFetchInv, SyncCommitInv, PushBeginInv, AbortInv DEF Handler
<1>3. ASSUME NEW o \in Orders, VenueTrades(o) \/ VenueEnds(o) PROVE IInv'
  BY <1>3, VenueTradesInv, VenueEndsInv
<1> QED
  BY <1>1, <1>2, <1>3 DEF Next

LEMMA Invariance == Spec => []IInv
<1> QED
  BY InitInv, StepInv, PTL DEF Spec
-----------------------------------------------------------------------------
\* Every variable stays in its domain.
THEOREM TypeCorrect == Spec => []TypeOK
<1>1. IInv => TypeOK
  BY DEF IInv
<1> QED
  BY <1>1, Invariance, PTL

\* With an adapter that reports what it executed, no fill is booked twice and
\* nothing is booked that the venue did not execute.
THEOREM NoFillBookedTwice == ASSUME ReportsInlineQty PROVE Spec => []NeverOverbooked
<1>1. IInv => NeverOverbooked
  BY DEF IInv, RowInv, NeverOverbooked
<1> QED
  BY <1>1, Invariance, PTL

\* With an adapter that also always has the price, FILLED means fully booked.
THEOREM FilledMeansBooked ==
  ASSUME ReportsInlineQty, ~ PriceLookupFails
  PROVE  Spec => []FilledIsBooked
<1>1. IInv => FilledIsBooked
  BY DEF IInv, RowInv, FilledIsBooked
<1> QED
  BY <1>1, Invariance, PTL

\* What the app says of the end of an order is true, whatever the adapter.
THEOREM StatusIsTruthful == Spec => []StatusTruthful
<1>1. IInv => StatusTruthful
  BY DEF IInv, RowInv, StatusTruthful
<1> QED
  BY <1>1, Invariance, PTL
-----------------------------------------------------------------------------
\* The three ways in which a step changes an order's row.
SubmitsRow(w) ==
  /\ pc[w] = "answered" /\ status[ord[w]] = "NONE" /\ SubmitCommit(w)

CancelsRow(w) ==
  /\ pc[w] \in Locking /\ status[ord[w]] \in LiveStatuses /\ CancelCommit(w)

SyncsRow(w) ==
  /\ pc[w] \in Locking /\ status[ord[w]] \in LiveStatuses /\ SyncCommit(w)

LEMMA RowWriters ==
  ASSUME IInv, [Next]_vars
  PROVE  UNCHANGED row \/ \E w \in Workers : SubmitsRow(w) \/ CancelsRow(w) \/ SyncsRow(w)
<1>1. CASE UNCHANGED vars
  BY <1>1 DEF vars, row
<1>2. ASSUME NEW w \in Workers, Handler(w)
      PROVE  UNCHANGED row \/ SubmitsRow(w) \/ CancelsRow(w) \/ SyncsRow(w)
  <2>1. CASE SubmitCommit(w)
    BY <2>1 DEF SubmitsRow, SubmitCommit, IInv, SubmitInv
  <2>2. CASE CancelCommit(w)
    BY <2>2 DEF CancelsRow, CancelCommit, IInv, LockInv, Locking
  <2>3. CASE SyncCommit(w)
    BY <2>3 DEF SyncsRow, SyncCommit, IInv, LockInv, Locking
  <2>4. CASE ~ (SubmitCommit(w) \/ CancelCommit(w) \/ SyncCommit(w))
    BY <1>2, <2>4 DEF Handler, SubmitBegin, CancelBegin, SyncBegin, PushBegin, SubmitAtVenue,
         CancelAtVenue, SyncFetch, Abort
  <2> QED
    BY <2>1, <2>2, <2>3, <2>4
<1>3. ASSUME NEW o \in Orders, VenueTrades(o) \/ VenueEnds(o) PROVE UNCHANGED row
  BY <1>3 DEF VenueTrades, VenueEnds, VenueMoves
<1> QED
  BY <1>1, <1>2, <1>3 DEF Next

LEMMA StepFinal ==
  ASSUME IInv, [Next]_vars
  PROVE  \A o \in Orders : status[o] \in TerminalStatuses
           => status'[o] = status[o] /\ filled_qty'[o] = filled_qty[o] /\ booked'[o] = booked[o]
<1>1. CASE UNCHANGED row
  BY <1>1 DEF row
<1>2. ASSUME NEW w \in Workers, SubmitsRow(w) \/ CancelsRow(w) \/ SyncsRow(w),
             NEW o \in Orders, status[o] \in TerminalStatuses
      PROVE  status'[o] = status[o] /\ filled_qty'[o] = filled_qty[o] /\ booked'[o] = booked[o]
  <2>1. o # ord[w]
    BY <1>2 DEF SubmitsRow, CancelsRow, SyncsRow, TerminalStatuses, LiveStatuses
  <2> QED
    BY <1>2, <2>1 DEF SubmitsRow, CancelsRow, SyncsRow, SubmitCommit, CancelCommit, SyncCommit,
         IInv, TypeOK
<1> QED
  BY <1>1, <1>2, RowWriters

\* Neither the status nor the fills of an order change once it is terminal.
THEOREM TerminalIsFinal == Spec => TerminalFinal
<1>1. IInv /\ [Next]_vars =>
        [\A o \in Orders : status[o] \in TerminalStatuses
           => status'[o] = status[o] /\ filled_qty'[o] = filled_qty[o] /\ booked'[o] = booked[o]]_row
  BY StepFinal
<1> QED
  BY <1>1, Invariance, PTL DEF Spec, TerminalFinal
-----------------------------------------------------------------------------
(* The refinement: each step of the handlers or of the venue is a step of  *)
(* the ledger or changes none of its variables.                            *)

LEMMA InitImplementsLedger == Init => Ledger!Init
  BY DEF Init, Ledger!Init

\* The ledger's vocabulary is the handlers' own.
LEMMA SameVocabulary ==
  /\ Ledger!LiveStatuses = LiveStatuses
  /\ \A s : Ledger!CommittedMoves(s) = CommittedMoves(s)
<1>1. Ledger!Moves = Moves
  BY DEF Ledger!Moves, Moves, Ledger!RowStatuses, RowStatuses, Ledger!Statuses, Statuses
<1> QED
  BY <1>1 DEF Ledger!LiveStatuses, LiveStatuses, Ledger!CommittedMoves, CommittedMoves

LEMMA MovesSubset ==
  ASSUME NEW s \in RowStatuses, NEW t \in Moves[s]
  PROVE  t \in CommittedMoves(s)
  BY DEF CommittedMoves

LEMMA SubmitSettles ==
  ASSUME IInv, ReportsInlineQty, NEW w \in Workers, SubmitsRow(w)
  PROVE  \E o \in Orders : Ledger!Settle(o)
<1> DEFINE o == ord[w]
<1>1. /\ pc[w] = "answered" /\ o \in Orders /\ status[o] = "NONE" /\ filled_qty[o] = 0
      /\ traded[o] \in 0..OrderQty /\ view[w].filled \in 0..OrderQty
  BY DEF SubmitsRow, IInv, TypeOK, LockInv, RowInv, Report
<1>2. {"SUBMITTED", "REJECTED", "FILLED"} \subseteq CommittedMoves("NONE")
  BY DEF CommittedMoves, Moves, RowStatuses, Statuses
<1>3. CASE view[w].status = "FILLED"
  <2>1. view[w].filled = traded[o] /\ traded[o] > 0
    BY <1>1, <1>3 DEF IInv, ReportInv
  <2>2. /\ status' = [status EXCEPT ![o] = "FILLED"]
        /\ filled_qty' = [filled_qty EXCEPT ![o] = traded[o]]
        /\ UNCHANGED traded
    BY <1>3, <2>1 DEF SubmitsRow, SubmitCommit, InlineFill, venue
  <2>3. traded[o] \in filled_qty[o]..traded[o]
    BY <1>1
  <2> QED
    BY <1>1, <1>2, <2>2, <2>3, SameVocabulary DEF Ledger!Settle
<1>4. CASE view[w].status # "FILLED"
  <2>1. PICK t \in {"SUBMITTED", "REJECTED"} :
          /\ status' = [status EXCEPT ![o] = t]
          /\ filled_qty' = [filled_qty EXCEPT ![o] = 0]
          /\ UNCHANGED traded
    BY <1>4 DEF SubmitsRow, SubmitCommit, venue
  <2>2. 0 \in filled_qty[o]..traded[o]
    BY <1>1
  <2> QED
    BY <1>1, <1>2, <2>1, <2>2, SameVocabulary DEF Ledger!Settle
<1> QED
  BY <1>3, <1>4

LEMMA CancelSettles ==
  ASSUME IInv, ReportsInlineQty, NEW w \in Workers, CancelsRow(w)
  PROVE  \E o \in Orders : Ledger!Settle(o)
<1> DEFINE o == ord[w]
<1>1. /\ o \in Orders /\ status[o] \in RowStatuses /\ seen[w].status = status[o]
      /\ filled_qty[o] \in filled_qty[o]..traded[o]
  BY DEF CancelsRow, IInv, TypeOK, LockInv, RowInv, Locking
<1>2. "CANCELLED" \in CommittedMoves(status[o])
  BY <1>1, MovesSubset DEF CancelsRow, CancelCommit, Allowed
<1>3. /\ status' = [status EXCEPT ![o] = "CANCELLED"]
      /\ filled_qty' = [filled_qty EXCEPT ![o] = filled_qty[o]]
      /\ UNCHANGED traded
  BY DEF CancelsRow, CancelCommit, venue, IInv, TypeOK
<1> QED
  BY <1>1, <1>2, <1>3, SameVocabulary DEF Ledger!Settle

LEMMA SyncSettlesOrBooks ==
  ASSUME IInv, ReportsInlineQty, NEW w \in Workers, SyncsRow(w)
  PROVE  \E o \in Orders : Ledger!Settle(o) \/ Ledger!Book(o)
<1> DEFINE o == ord[w]
           s == SyncedStatus(w)
           q == IF Books(w) THEN view[w].filled ELSE filled_qty[o]
<1>1. /\ o \in Orders /\ status[o] \in LiveStatuses /\ status[o] \in RowStatuses
      /\ seen[w].status = status[o] /\ seen[w].filled = filled_qty[o]
      /\ filled_qty[o] \in 0..OrderQty /\ traded[o] \in 0..OrderQty
      /\ filled_qty[o] <= traded[o] /\ view[w] \in Report
  BY DEF SyncsRow, SyncCommit, IInv, TypeOK, LockInv, RowInv, Locking
<1>2. view[w].filled \in 0..OrderQty /\ view[w].filled <= traded[o]
  BY <1>1 DEF SyncsRow, SyncCommit, IInv, ReportInv, Sound, Report
<1>3. q \in filled_qty[o]..traded[o]
  BY <1>1, <1>2 DEF Books, NewlyFilled
<1>4. /\ status' = [status EXCEPT ![o] = s]
      /\ filled_qty' = [filled_qty EXCEPT ![o] = q]
      /\ UNCHANGED traded
  BY DEF SyncsRow, SyncCommit, venue
<1> HIDE DEF s, q
<1>5. CASE s = seen[w].status
  <2>1. UNCHANGED status
    BY <1>1, <1>4, <1>5 DEF IInv, TypeOK
  <2> QED
    BY <1>1, <1>3, <1>4, <2>1, SameVocabulary DEF Ledger!Book
<1>6. CASE s # seen[w].status
  <2>1. s \in Moves[status[o]]
    BY <1>1, <1>6 DEF s, SyncsRow, SyncCommit, Allowed
  <2>2. s \in CommittedMoves(status[o])
    BY <1>1, <2>1, MovesSubset
  <2> QED
    BY <1>1, <1>3, <1>4, <2>2, SameVocabulary DEF Ledger!Settle
<1> QED
  BY <1>5, <1>6

\* A step that leaves the rows alone is a trade or nothing to the ledger.
LEMMA VenueImplementsLedger ==
  ASSUME IInv, [Next]_vars, UNCHANGED row
  PROVE  UNCHANGED traded \/ \E o \in Orders : Ledger!Trade(o)
<1>1. UNCHANGED <<status, filled_qty>>
  BY DEF row
<1>2. ASSUME NEW w \in Workers, Handler(w), traded' # traded
      PROVE  \E o \in Orders : Ledger!Trade(o)
  <2>1. SubmitAtVenue(w)
    BY <1>2 DEF Handler, SubmitBegin, CancelBegin, SyncBegin, PushBegin, SubmitCommit,
         CancelAtVenue, CancelCommit, SyncFetch, SyncCommit, Abort, venue
  <2>2. ord[w] \in Orders /\ traded[ord[w]] = 0
    BY <2>1 DEF SubmitAtVenue, IInv, LockInv, SubmitInv, RowInv
  <2>3. PICK q \in 0..OrderQty : traded' = [traded EXCEPT ![ord[w]] = q]
    BY <2>1, QtyAssumption DEF SubmitAtVenue, Answer
  <2>4. q # 0
    BY <1>2, <2>2, <2>3 DEF IInv, TypeOK
  <2>5. q \in 1..OrderQty /\ q > traded[ord[w]]
    BY <2>2, <2>4
  <2> QED
    BY <1>1, <2>2, <2>3, <2>5 DEF Ledger!Trade
<1>3. ASSUME NEW o \in Orders, VenueTrades(o)
      PROVE  Ledger!Trade(o)
  BY <1>1, <1>3 DEF VenueTrades, VenueMoves, Ledger!Trade
<1>4. ASSUME NEW o \in Orders, VenueEnds(o)
      PROVE  UNCHANGED traded
  BY <1>4 DEF VenueEnds, VenueMoves, IInv, TypeOK
<1> QED
  BY <1>2, <1>3, <1>4 DEF Next, vars

LEMMA StepImplementsLedger ==
  ASSUME IInv, ReportsInlineQty, [Next]_vars
  PROVE  [Ledger!Next]_(Ledger!ledger)
<1>1. CASE UNCHANGED row
  BY <1>1, VenueImplementsLedger DEF row, Ledger!Next, Ledger!ledger
<1>2. CASE \E w \in Workers : SubmitsRow(w) \/ CancelsRow(w) \/ SyncsRow(w)
  BY <1>2, SubmitSettles, CancelSettles, SyncSettlesOrBooks DEF Ledger!Next
<1> QED
  BY <1>1, <1>2, RowWriters

\* With an adapter that reports what it executed, the handlers implement the
\* ledger: moves follow the transition table, and the quantity of a row only
\* grows, never past what the venue executed and never after a terminal status.
THEOREM Refinement == ASSUME ReportsInlineQty PROVE Spec => ImplementsLedger
<1>1. IInv /\ [Next]_vars => [Ledger!Next]_(Ledger!ledger)
  BY StepImplementsLedger
<1> QED
  BY <1>1, InitImplementsLedger, Invariance, PTL DEF Spec, ImplementsLedger, Ledger!Spec

-----------------------------------------------------------------------------
(***************************************************************************)
(* The kill switch keeps the inductive invariant of the sessions it runs   *)
(* beside: its UPDATE waits for their locks, so no session is left holding *)
(* a row whose status it no longer knows.                                  *)
(***************************************************************************)

\* The targets are orders whose rows are committed.
KTypeOK ==
  /\ kill \in {"idle", "sweeping"} /\ targets \subseteq Orders /\ sent \subseteq targets
  /\ \A o \in targets : status[o] # "NONE"

KInv == IInv /\ KTypeOK

LEMMA KInitInv == KInit => KInv
  BY InitInv DEF KInit, KInv, KTypeOK

\* The venue's cancellation of a working order keeps every report true.
LEMMA KillAtVenueInv ==
  ASSUME KInv, NEW o \in Orders, KillAtVenue(o)
  PROVE  KInv'
<1> USE DEF KInv, IInv
<1>1. UNCHANGED <<status, filled_qty, has_ticket, booked, traded, pushes, pc, ord, seen, view, kill, targets>>
  BY DEF KillAtVenue, row, work
<1>2. KTypeOK'
  BY <1>1 DEF KTypeOK, KillAtVenue
<1>3. \/ UNCHANGED vstate
      \/ vstate[o] = "working" /\ vstate' = [vstate EXCEPT ![o] = "cancelled"]
  BY DEF KillAtVenue
<1>4. TypeOK'
  BY <1>1, <1>3 DEF TypeOK, VenueStates
<1>5. LockInv'
  BY <1>1 DEF LockInv
<1>6. SubmitInv'
  BY <1>1, <1>3 DEF SubmitInv, TypeOK, LockInv
<1>7. ASSUME NEW x \in Orders, NEW r, Sound(x, r) PROVE Sound(x, r)'
  BY <1>1, <1>3, <1>7 DEF Sound, TypeOK
<1>8. ReportInv'
  <2>1. ASSUME NEW p \in pushes PROVE Sound(p.order, p.report)'
    <3>1. p.order \in Orders /\ Sound(p.order, p.report)
      BY <2>1 DEF TypeOK, ReportInv
    <3> QED
      BY <1>7, <3>1
  <2>2. ASSUME NEW x \in Workers, pc[x] = "synced" PROVE Sound(ord[x], view[x])'
    <3>1. ord[x] \in Orders /\ Sound(ord[x], view[x])
      BY <2>2 DEF LockInv, ReportInv
    <3> QED
      BY <1>1, <1>3, <3>1 DEF Sound, TypeOK
  <2>3. ASSUME NEW x \in Workers, pc[x] = "answered"
        PROVE  (/\ view[x].status = "FILLED" =>
                     /\ vstate[ord[x]] = "filled"
                     /\ ReportsInlineQty => view[x].filled = traded[ord[x]] /\ traded[ord[x]] > 0
                /\ view[x].status # "REJECTED" => vstate[ord[x]] # "absent")'
    BY <1>1, <1>3, <2>3 DEF TypeOK, LockInv, ReportInv
  <2> QED
    BY <1>1, <2>1, <2>2, <2>3 DEF ReportInv
<1>9. RowInv'
  BY <1>1, <1>3 DEF RowInv, TypeOK
<1> QED
  BY <1>2, <1>4, <1>5, <1>6, <1>8, <1>9

\* The flush is granted the locks of all its targets.
LEMMA KillCommitInv ==
  ASSUME KInv, KillCommit
  PROVE  KInv'
<1> USE DEF KInv, IInv
<1>1. /\ UNCHANGED <<filled_qty, has_ticket, booked, vstate, traded, pushes, pc, ord, seen, view>>
      /\ status' = [o \in Orders |-> IF o \in targets THEN "CANCELLED" ELSE status[o]]
      /\ \A o \in targets : Free(o)
  BY DEF KillCommit, venue, work
<1>2. KTypeOK'
  BY DEF KTypeOK, KillCommit, KillEnds
<1>3. TypeOK'
  BY <1>1 DEF TypeOK, RowStatuses, Statuses
<1>4. \A w \in Workers : pc[w] \in Locking => status'[ord[w]] = status[ord[w]]
  BY <1>1 DEF Free, Holds, LockInv, Locking
<1>5. LockInv'
  BY <1>1, <1>4 DEF LockInv
<1>6. SubmitInv'
  <2>1. \A o \in Orders : status[o] = "NONE" => status'[o] = "NONE"
    BY <1>1 DEF KTypeOK
  <2> QED
    BY <1>1, <2>1 DEF SubmitInv, LockInv
<1>7. ReportInv'
  BY <1>1 DEF ReportInv, Sound
<1>8. RowInv'
  BY <1>1 DEF RowInv, TypeOK, LiveStatuses
<1> QED
  BY <1>2, <1>3, <1>5, <1>6, <1>7, <1>8

\* A committed row stays committed.
LEMMA RowStays ==
  ASSUME IInv, [Next]_vars, NEW o \in Orders, status[o] # "NONE"
  PROVE  status'[o] # "NONE"
<1>1. CASE UNCHANGED row
  BY <1>1 DEF row
<1>2. ASSUME NEW w \in Workers, SubmitsRow(w) PROVE status'[o] # "NONE"
  BY <1>2 DEF SubmitsRow, SubmitCommit, IInv, TypeOK
<1>3. ASSUME NEW w \in Workers, CancelsRow(w) PROVE status'[o] # "NONE"
  BY <1>3 DEF CancelsRow, CancelCommit, IInv, TypeOK
<1>4. ASSUME NEW w \in Workers, SyncsRow(w) PROVE status'[o] # "NONE"
  <2>1. seen[w].status # "NONE"
    BY <1>4 DEF SyncsRow, IInv, LockInv, LiveStatuses
  <2>2. SyncedStatus(w) # "NONE"
    BY <2>1 DEF SyncedStatus, TerminalUnfilled
  <2> QED
    BY <1>4, <2>2 DEF SyncsRow, SyncCommit, IInv, TypeOK
<1> QED
  BY <1>1, <1>2, <1>3, <1>4, RowWriters

LEMMA KStepInv == KInv /\ [KNext]_allvars => KInv'
<1> SUFFICES ASSUME KInv, [KNext]_allvars PROVE KInv'
  OBVIOUS
<1>1. CASE UNCHANGED allvars
  BY <1>1, StepInv DEF allvars, kvars, vars, KInv, KTypeOK
<1>2. CASE Next /\ UNCHANGED kvars
  BY <1>2, StepInv, RowStays DEF KInv, KTypeOK, kvars
<1>3. CASE KillBegin
  <2>1. IInv'
    BY <1>3, StepInv DEF KillBegin, KInv
  <2> QED
    BY <1>3, <2>1 DEF KillBegin, KInv, KTypeOK, OpenStatuses, vars
<1>4. CASE KillAbort
  <2>1. IInv'
    BY <1>4, StepInv DEF KillAbort, KInv
  <2> QED
    BY <1>4, <2>1 DEF KillAbort, KillEnds, KInv, KTypeOK
<1> QED
  BY <1>1, <1>2, <1>3, <1>4, KillAtVenueInv, KillCommitInv DEF KNext, KInv, KTypeOK

LEMMA KInvariance == KSpec => []KInv
<1> QED
  BY KInitInv, KStepInv, PTL DEF KSpec
-----------------------------------------------------------------------------
\* With an adapter that reports what it executed, no fill is booked twice however
\* often the kill switch is used.
THEOREM KillKeepsFills == ASSUME ReportsInlineQty PROVE KSpec => []NeverOverbooked
<1>1. KInv => NeverOverbooked
  BY DEF KInv, IInv, RowInv, NeverOverbooked
<1> QED
  BY <1>1, KInvariance, PTL

LEMMA KStepNoRevival ==
  ASSUME KInv, [KNext]_allvars
  PROVE  \A o \in Orders : status[o] \in TerminalStatuses =>
           /\ status'[o] \in TerminalStatuses
           /\ filled_qty'[o] = filled_qty[o] /\ booked'[o] = booked[o]
<1>1. CASE [Next]_vars
  BY <1>1, StepFinal DEF KInv
<1>2. CASE KillCommit
  BY <1>2 DEF KillCommit, TerminalStatuses
<1>3. ASSUME NEW x \in Orders, KillAtVenue(x) PROVE UNCHANGED row
  BY <1>3 DEF KillAtVenue
<1>4. CASE UNCHANGED row
  BY <1>4 DEF row
<1> QED
  BY <1>1, <1>2, <1>3, <1>4 DEF KNext, KillBegin, KillAbort, allvars

\* A terminal order stays terminal and keeps its fills, the kill switch included.
THEOREM KillNeverRevives == KSpec => NoRevival
<1>1. KInv /\ [KNext]_allvars =>
        [\A o \in Orders : status[o] \in TerminalStatuses =>
           /\ status'[o] \in TerminalStatuses
           /\ filled_qty'[o] = filled_qty[o] /\ booked'[o] = booked[o]]_row
  BY KStepNoRevival
<1> QED
  BY <1>1, KInvariance, PTL DEF KSpec, NoRevival
=============================================================================
