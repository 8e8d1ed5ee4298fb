--------------------------- MODULE OrderExecution ---------------------------
(***************************************************************************)
(* Market and resting orders from the request that places them to the      *)
(* transaction that closes them: order_service.submit_order and            *)
(* cancel_order, and the reconciliation core                               *)
(* broker_fill_sync.sync_order_against_broker behind the polling loops and *)
(* the push handlers.                                                      *)
(*                                                                         *)
(* A worker is one database session: an HTTP request, one pass of a        *)
(* polling loop or one push handler, in any of the server's processes.     *)
(* SELECT ... FOR UPDATE is modelled by the worker's program counter: a    *)
(* worker that works on an existing row owns its lock until it commits or  *)
(* ends without committing.  The broker is called between the lock and the *)
(* commit, and the venue moves on its own meanwhile.                       *)
(***************************************************************************)
EXTENDS Integers, FiniteSets, OrderStatus

CONSTANTS
  Orders,            \* order ids
  Workers,           \* concurrent database sessions
  OrderQty,          \* the quantity every order asks for
  NoOrder,           \* an idle worker's order
  ReportsInlineQty,  \* submit_order of the adapter returns filled_qty with FILLED
  PriceLookupFails   \* get_order of the adapter may report FILLED without a price

ASSUME QtyAssumption    == OrderQty \in Nat \ {0}
ASSUME OrderAssumption  == NoOrder \notin Orders
ASSUME ReportAssumption == ReportsInlineQty \in BOOLEAN /\ PriceLookupFails \in BOOLEAN

VARIABLES
  status,        \* Order.status, "NONE" before the row is committed
  filled_qty,    \* Order.filled_qty
  has_ticket,    \* Order.broker_order_id is not NULL
  booked,        \* the sum of the quantities of the order's Fill rows
  vstate,        \* the order at the venue
  traded,        \* the quantity the venue has executed
  pushes,        \* ORDER_UPDATE events sent by the venue so far
  pc,            \* where each worker is in its handler
  ord,           \* the order each worker works on
  seen,          \* what each worker read of its row when it got the lock
  view           \* the broker's answer each worker holds

row   == <<status, filled_qty, has_ticket, booked>>
venue == <<vstate, traded>>
work  == <<pc, ord, seen, view>>
vars  == <<status, filled_qty, has_ticket, booked, vstate, traded, pushes, pc, ord, seen, view>>

VenueStates == {"absent", "working", "filled", "cancelled", "expired", "rejected"}

Report   == [status : Statuses \cup {"UNKNOWN"}, filled : 0..OrderQty, priced : BOOLEAN]
Nothing  == [status |-> "NONE", filled |-> 0]
NoReport == [status |-> "UNKNOWN", filled |-> 0, priced |-> FALSE]

\* Program counters that own the row lock of ord[w].
Locking == {"cancelling", "cancel_sent", "syncing", "synced"}
PCs     == Locking \cup {"idle", "submitting", "answered"}

-----------------------------------------------------------------------------
(* The venue and what an adapter says of it.                               *)

\* The app's word for a venue state (the adapters' status maps).
Word(vs, q) ==
  CASE vs = "filled"    -> "FILLED"
    [] vs = "cancelled" -> "CANCELLED"
    [] vs = "expired"   -> "EXPIRED"
    [] vs = "rejected"  -> "REJECTED"
    [] vs = "working"   -> IF q > 0 THEN "PARTIAL" ELSE "SUBMITTED"
    [] OTHER            -> "UNKNOWN"

FullReport(vs, q) == [status |-> Word(vs, q), filled |-> q, priced |-> TRUE]

\* An adapter's answers to get_order: the full report; for an order that is not
\* FILLED, also one without quantities (OANDA); for one that is, also one without
\* its price when the lookup of the transaction failed (OANDA).
Reports(o) ==
  LET full == FullReport(vstate[o], traded[o])
  IN  {full} \cup (IF vstate[o] # "filled" THEN {[full EXCEPT !.filled = 0]}
                   ELSE IF PriceLookupFails THEN {[full EXCEPT !.priced = FALSE]}
                   ELSE {})

Init ==
  /\ status = [o \in Orders |-> "NONE"]
  /\ filled_qty = [o \in Orders |-> 0]
  /\ has_ticket = [o \in Orders |-> FALSE]
  /\ booked = [o \in Orders |-> 0]
  /\ vstate = [o \in Orders |-> "absent"]
  /\ traded = [o \in Orders |-> 0]
  /\ pushes = {}
  /\ pc = [w \in Workers |-> "idle"]
  /\ ord = [w \in Workers |-> NoOrder]
  /\ seen = [w \in Workers |-> Nothing]
  /\ view = [w \in Workers |-> NoReport]
-----------------------------------------------------------------------------
(* Sessions and row locks.                                                 *)

Holds(w, o) == pc[w] \in Locking /\ ord[w] = o

NoLock(o) == TRUE

\* SELECT ... FOR UPDATE returns: no other session holds the row.
Free(o) == \A w \in Workers : ~Holds(w, o)

Begin(w, o, at) ==
  /\ pc[w] = "idle"
  /\ pc' = [pc EXCEPT ![w] = at]
  /\ ord' = [ord EXCEPT ![w] = o]
  /\ seen' = [seen EXCEPT ![w] = [status |-> status[o], filled |-> filled_qty[o]]]

\* Order.transition() checks a move against the status the session read.
Allowed(w, s) == s \in Moves[seen[w].status]

\* The session is over: its locks are released.
End(w) ==
  /\ pc' = [pc EXCEPT ![w] = "idle"]
  /\ ord' = [ord EXCEPT ![w] = NoOrder]
  /\ seen' = [seen EXCEPT ![w] = Nothing]
  /\ view' = [view EXCEPT ![w] = NoReport]

\* A session that ends without committing: an early return, an exception that
\* rolls back, a client that went away or the death of the process.
Abort(w) ==
  /\ pc[w] # "idle"
  /\ End(w)
  /\ UNCHANGED <<row, venue, pushes>>

-----------------------------------------------------------------------------
(* submit_order: the row is inserted, the broker is called, the row is     *)
(* committed with the outcome.                                             *)

SubmitBegin(w, o) ==
  /\ status[o] = "NONE" /\ vstate[o] = "absent"
  /\ \A x \in Workers : ord[x] # o
  /\ Begin(w, o, "submitting")
  /\ UNCHANGED <<row, venue, pushes, view>>

\* What the adapter reports of an instant execution of q.
InlineReport(q) ==
  [status |-> "FILLED", filled |-> IF ReportsInlineQty THEN q ELSE 0, priced |-> TRUE]

Answer(w, o, vs, q, report) ==
  /\ vstate' = [vstate EXCEPT ![o] = vs]
  /\ traded' = [traded EXCEPT ![o] = q]
  /\ view' = [view EXCEPT ![w] = report]

\* The adapter's submit_order returns or raises.  The last disjunct is an
\* exception about an order the venue did take: a time-out or a broken link.
SubmitAtVenue(w) ==
  LET raised == [NoReport EXCEPT !.status = "REJECTED"]
  IN  /\ pc[w] = "submitting"
      /\ pc' = [pc EXCEPT ![w] = "answered"]
      /\ \/ Answer(w, ord[w], "working", 0, FullReport("working", 0))
         \/ \E q \in 1..OrderQty : Answer(w, ord[w], "filled", q, InlineReport(q))
         \/ Answer(w, ord[w], "rejected", 0, raised)
         \/ Answer(w, ord[w], "working", 0, raised)
         \/ \E q \in 1..OrderQty : Answer(w, ord[w], "filled", q, raised)
      /\ UNCHANGED <<row, pushes, ord, seen>>

AskedQty(w) == OrderQty

\* fill_qty = broker_result.get("filled_qty") or data.qty
InlineFill(w) == IF view[w].filled > 0 THEN view[w].filled ELSE OrderQty

SubmitCommit(w) ==
  LET o == ord[w]
      instant == view[w].status = "FILLED"
      refused == view[w].status = "REJECTED"
  IN  /\ pc[w] = "answered"
      /\ status' = [status EXCEPT ![o] = IF instant THEN "FILLED"
                                         ELSE IF refused THEN "REJECTED" ELSE "SUBMITTED"]
      /\ has_ticket' = [has_ticket EXCEPT ![o] = ~refused]
      /\ filled_qty' = [filled_qty EXCEPT ![o] = IF instant THEN InlineFill(w) ELSE 0]
      /\ booked' = [booked EXCEPT ![o] = IF instant THEN InlineFill(w) ELSE 0]
      /\ End(w)
      /\ UNCHANGED <<venue, pushes>>

-----------------------------------------------------------------------------
(* cancel_order: best effort at the broker, then CANCELLED locally.        *)

\* 409 for FILLED, CANCELLED and REJECTED; the transition table refuses EXPIRED.
Cancellable(o) ==
  /\ status[o] \notin {"NONE", "FILLED", "CANCELLED", "REJECTED"}
  /\ "CANCELLED" \in Moves[status[o]]

CancelBegin(w, o) ==
  /\ Cancellable(o) /\ Free(o)
  /\ Begin(w, o, "cancelling")
  /\ UNCHANGED <<row, venue, pushes, view>>

\* The broker's answer, an exception included, is ignored: the order may be
\* cancelled there, be past cancelling, or not have been reached.
CancelAtVenue(w) ==
  LET o == ord[w]
  IN  /\ pc[w] = "cancelling"
      /\ pc' = [pc EXCEPT ![w] = "cancel_sent"]
      /\ \/ /\ has_ticket[o] /\ vstate[o] = "working"
            /\ vstate' = [vstate EXCEPT ![o] = "cancelled"]
         \/ UNCHANGED vstate
      /\ UNCHANGED <<row, traded, pushes, ord, seen, view>>

CancelCommit(w) ==
  /\ pc[w] = "cancel_sent" /\ Allowed(w, "CANCELLED")
  /\ status' = [status EXCEPT ![ord[w]] = "CANCELLED"]
  /\ End(w)
  /\ UNCHANGED <<filled_qty, has_ticket, booked, venue, pushes>>

-----------------------------------------------------------------------------
(* sync_order_against_broker, from a polling pass or from a push event.    *)

SubmittedOnly(o) == has_ticket[o] /\ status[o] = "SUBMITTED"

\* The sweep's filter, repeated under the lock.
Syncable(o) == has_ticket[o] /\ status[o] \in LiveStatuses

SyncBegin(w, o) ==
  /\ Syncable(o) /\ Free(o)
  /\ Begin(w, o, "syncing")
  /\ UNCHANGED <<row, venue, pushes, view>>

\* adapter.get_order answers; no answer, or UNKNOWN, is an Abort.
SyncFetch(w) ==
  /\ pc[w] = "syncing"
  /\ pc' = [pc EXCEPT ![w] = "synced"]
  /\ \E r \in Reports(ord[w]) : view' = [view EXCEPT ![w] = r]
  /\ UNCHANGED <<row, venue, pushes, ord, seen>>

\* A push event is acted on with the state it carried when it was sent.  Events
\* arrive in any order, more than once or never; one about an order that is not
\* open any more, or not committed yet, is dropped.
PushBegin(w, p) ==
  /\ Syncable(p.order) /\ Free(p.order)
  /\ Begin(w, p.order, "synced")
  /\ view' = [view EXCEPT ![w] = p.report]
  /\ UNCHANGED <<row, venue, pushes>>

CumulativeFill(w) == view[w].filled

\* newly_filled: the broker's cumulative quantity less what the row records.
NewlyFilled(w) == view[w].filled - seen[w].filled

PartialOnly(w) == NewlyFilled(w) > 0 /\ view[w].priced /\ view[w].status = "PARTIAL"

\* A Fill row is written for a positive delta with a positive price.
Books(w) == NewlyFilled(w) > 0 /\ view[w].priced

EagerStatus(w) == IF Books(w) THEN "FILLED" ELSE seen[w].status

SyncedStatus(w) ==
  CASE view[w].status = "FILLED"               -> "FILLED"
    [] view[w].status = "PARTIAL" /\ Books(w)  -> "PARTIAL"
    [] view[w].status \in TerminalUnfilled     -> view[w].status
    [] OTHER                                   -> seen[w].status

SyncCommit(w) ==
  LET o == ord[w]
  IN  /\ pc[w] = "synced"
      /\ SyncedStatus(w) # seen[w].status => Allowed(w, SyncedStatus(w))
      /\ status' = [status EXCEPT ![o] = SyncedStatus(w)]
      /\ filled_qty' = [filled_qty EXCEPT ![o] = IF Books(w) THEN view[w].filled ELSE @]
      /\ booked' = [booked EXCEPT ![o] = IF Books(w) THEN @ + NewlyFilled(w) ELSE @]
      /\ End(w)
      /\ UNCHANGED <<has_ticket, venue, pushes>>

-----------------------------------------------------------------------------
(* The venue moves on its own and sends an event about each move.          *)

VenueMoves(o, vs, q) ==
  /\ vstate[o] = "working"
  /\ vstate' = [vstate EXCEPT ![o] = vs]
  /\ traded' = [traded EXCEPT ![o] = q]
  /\ pushes' = pushes \cup {[order |-> o, report |-> FullReport(vs, q)]}
  /\ UNCHANGED <<row, work>>

\* An execution.  An order may be complete below OrderQty: Alpaca clamps a sale
\* to the balance and MetaTrader rounds to its volume step.
VenueTrades(o) ==
  \E q \in 1..OrderQty :
    /\ q > traded[o]
    /\ \/ VenueMoves(o, "filled", q)
       \/ q < OrderQty /\ VenueMoves(o, "working", q)

VenueEnds(o) == \E vs \in {"cancelled", "expired", "rejected"} : VenueMoves(o, vs, traded[o])

-----------------------------------------------------------------------------
Handler(w) ==
  \/ \E o \in Orders : SubmitBegin(w, o) \/ CancelBegin(w, o) \/ SyncBegin(w, o)
  \/ SubmitAtVenue(w) \/ SubmitCommit(w)
  \/ CancelAtVenue(w) \/ CancelCommit(w)
  \/ SyncFetch(w) \/ SyncCommit(w)
  \/ \E p \in pushes : PushBegin(w, p)
  \/ Abort(w)

Next ==
  \/ \E w \in Workers : Handler(w)
  \/ \E o \in Orders : VenueTrades(o) \/ VenueEnds(o)

Spec == Init /\ [][Next]_vars

\* What the server schedules.  The polling loops visit every open order for ever,
\* and the lock queue of the database serves their requests in order: SF on
\* SyncBegin.  A broker that is asked again and again eventually answers: SF on
\* SyncFetch.  A session with a current answer is not killed each time it gets to
\* its commit, nor is a stale push event always there first: SF on PollCommit.
\* A session that has begun goes on or ends: WF on the rest.
PollCommit(w) == SyncCommit(w) /\ view[w] \in Reports(ord[w])

Goes(w) == \/ SubmitAtVenue(w) \/ SubmitCommit(w)
           \/ CancelAtVenue(w) \/ CancelCommit(w)
           \/ SyncCommit(w) \/ Abort(w)

Fairness ==
  /\ \A w \in Workers, o \in Orders : SF_vars(SyncBegin(w, o))
  /\ \A w \in Workers : SF_vars(SyncFetch(w)) /\ SF_vars(PollCommit(w)) /\ WF_vars(Goes(w))

FairSpec == Spec /\ Fairness

-----------------------------------------------------------------------------
\* Type invariant: every variable stays in its domain.
TypeOK ==
  /\ status \in [Orders -> RowStatuses]
  /\ filled_qty \in [Orders -> 0..OrderQty]
  /\ has_ticket \in [Orders -> BOOLEAN]
  /\ booked \in [Orders -> 0..OrderQty]
  /\ vstate \in [Orders -> VenueStates]
  /\ traded \in [Orders -> 0..OrderQty]
  /\ pushes \subseteq [order : Orders, report : Report]
  /\ pc \in [Workers -> PCs]
  /\ ord \in [Workers -> Orders \cup {NoOrder}]
  /\ seen \in [Workers -> [status : RowStatuses, filled : 0..OrderQty]]
  /\ view \in [Workers -> Report]

\* The Fill rows of an order add up to the filled_qty its row shows, and neither
\* ever exceeds what the venue executed, however many polls, replayed or reordered
\* push events, cancellations and crashes work on the order: no fill is booked
\* twice.  (sync_order_against_broker's lock and delta.)
NeverOverbooked ==
  \A o \in Orders : booked[o] = filled_qty[o] /\ filled_qty[o] <= traded[o]

\* An order the app shows FILLED is complete at the venue and every unit executed
\* there is booked.  (The delta is booked before the transition to FILLED.)
FilledIsBooked ==
  \A o \in Orders : status[o] = "FILLED" => vstate[o] = "filled" /\ booked[o] = traded[o]

\* The app never shows as dead at the venue (EXPIRED) or complete (FILLED) an order
\* that is not, and an order the app considers open was accepted by the venue.
StatusTruthful ==
  \A o \in Orders :
    /\ status[o] = "FILLED"  => vstate[o] = "filled"
    /\ status[o] = "EXPIRED" => vstate[o] = "expired"
    /\ status[o] \in LiveStatuses => vstate[o] # "absent" /\ has_ticket[o]

\* "Terminal states -- no further transitions permitted": once FILLED, CANCELLED,
\* REJECTED or EXPIRED, neither the status nor the fills of an order ever change,
\* whatever was in flight when it got there.
TerminalFinal ==
  [][\A o \in Orders : status[o] \in TerminalStatuses
       => status'[o] = status[o] /\ filled_qty'[o] = filled_qty[o] /\ booked'[o] = booked[o]]_row

\* An open order that is over at the venue is closed in the app: a poll finds out,
\* whatever push events were lost.  (The "safety net" of the polling loops.)
OverAtVenue(o) == vstate[o] \in {"filled", "cancelled", "expired", "rejected"}

SyncConverges ==
  \A o \in Orders :
    (status[o] \in LiveStatuses /\ OverAtVenue(o)) ~> status[o] \in TerminalStatuses

\* The handlers implement the ledger, step by step.
Ledger ==
  INSTANCE OrderLedger
    WITH Orders <- Orders, OrderQty <- OrderQty,
         status <- status, filled_qty <- filled_qty, traded <- traded
ImplementsLedger == Ledger!Spec
=============================================================================
