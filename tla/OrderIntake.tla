---------------------------- MODULE OrderIntake ----------------------------
(***************************************************************************)
(* POST /orders up to the commit and the event after it: create_order of   *)
(* endpoints/orders.py with order_service.submit_order and _risk_check,    *)
(* several requests at a time.  A session is one request's transaction.    *)
(* The limit on open orders and the idempotency key are read without a     *)
(* lock; the unique index on (user_id, client_order_id) decides at the     *)
(* flush, before the broker is called.  What happens to an order after the *)
(* commit is the other modules' subject: here its row just moves.          *)
(***************************************************************************)
EXTENDS AuditChain, OrderStatus

CONSTANTS
  Users,      \* traders
  Keys,       \* client_order_ids a client may repeat
  MaxOrders,  \* bound: order rows ever inserted
  MaxDue,     \* bound: events owed at once
  MaxOpen     \* settings.DEFAULT_MAX_OPEN_ORDERS

ASSUME IntakeAssumption ==
  /\ IsFiniteSet(Sessions) /\ Sessions # {} /\ "nobody" \notin Users
  /\ MaxOrders \in Nat /\ MaxDue \in Nat /\ MaxOpen \in Nat

VARIABLES
  order,      \* the orders table: id -> row
  req,        \* what each session works on
  sent,       \* orders the broker has accepted
  due         \* events owed for what has been committed

intakeVars == <<order, req, sent>>
vars       == <<intakeVars, due, auditVars>>

Orders == 1 .. MaxOrders
Event  == [id : Orders, user : Users, status : Statuses]

OWN    == "own"    \* no client_order_id: the generated one is nobody else's
AnyKey == Keys \cup {OWN}

NoOrder == [row |-> "unused", user |-> "nobody", key |-> OWN, status |-> "NEW"]
NoReq   == [at |-> "idle", id |-> 0, user |-> "nobody", key |-> OWN]

Init ==
  /\ AuditInit
  /\ order = [o \in Orders |-> NoOrder]
  /\ req = [s \in Sessions |-> NoReq]
  /\ sent = {} /\ due = {}

Rows      == {o \in Orders : order[o].row = "committed"}
Pending   == {o \in Orders : order[o].row = "flushed"}
Unused    == {o \in Orders : order[o].row = "unused"}
At(s, at) == req' = [req EXCEPT ![s].at = at]

-----------------------------------------------------------------------------
(* _risk_check.                                                            *)

SubmittedOnly(u) == {o \in Rows : order[o].user = u /\ order[o].status = "SUBMITTED"}
OpenOrders(u)    == {o \in Rows : order[o].user = u /\ order[o].status \in OpenStatuses}

Duplicates(u, k, among) == {o \in among : order[o].user = u /\ order[o].key = k /\ k # OWN}

\* Refused requests (409, 422) end here and change nothing.
RiskCheck(s, u, k) ==
  /\ req[s].at = "idle"
  /\ Cardinality(OpenOrders(u)) < MaxOpen
  /\ Duplicates(u, k, Rows) = {}
  /\ req' = [req EXCEPT ![s] = [at |-> "checked", id |-> 0, user |-> u, key |-> k]]
  /\ UNCHANGED <<order, sent, auditVars, due>>

-----------------------------------------------------------------------------
(* The row, under the partial unique index.                                *)

NoIndex(u, k, among) == {}

Violating(u, k, among) == Duplicates(u, k, among)

\* A row another transaction has flushed makes the INSERT wait; a committed one ends
\* it with IntegrityError (the rollback and the 409).
Insert(s) ==
  LET u == req[s].user
      k == req[s].key
  IN  /\ req[s].at = "checked"
      /\ Violating(u, k, Pending) = {}
      /\ IF Violating(u, k, Rows) # {}
           THEN req' = [req EXCEPT ![s] = NoReq] /\ UNCHANGED order
           ELSE \E o \in Orders :
                  /\ Lowest(o, Unused)
                  /\ order' = [order EXCEPT ![o] =
                       [row |-> "flushed", user |-> u, key |-> k, status |-> "SUBMITTED"]]
                  /\ req' = [req EXCEPT ![s].at = "flushed", ![s].id = o]
      /\ UNCHANGED <<sent, auditVars, due>>

\* Algorithmic and conditional orders are not sent here.  (An OCO request inserts a
\* second row, its stop leg; a row here stands for the request: see OcoOrders.)
Hold(s) ==
  /\ req[s].at = "flushed"
  /\ At(s, "answered")
  /\ UNCHANGED <<order, sent, auditVars, due>>

\* The adapter's answer: filled at once, accepted, or an exception, which the venue
\* may have accepted before (a time-out) or not.
AtBroker(s) ==
  /\ req[s].at = "flushed"
  /\ \E accepted \in BOOLEAN, status \in {"FILLED", "SUBMITTED", "REJECTED"} :
       /\ status # "REJECTED" => accepted
       /\ sent' = IF accepted THEN sent \cup {req[s].id} ELSE sent
       /\ order' = [order EXCEPT ![req[s].id].status = status]
  /\ At(s, "answered")
  /\ UNCHANGED <<auditVars, due>>

AuditRead(s) ==
  /\ req[s].at = "answered"
  /\ ReadLast(s)
  /\ At(s, "auditing")
  /\ UNCHANGED <<order, sent, due>>

News(o) == [id |-> o, user |-> order[o].user, status |-> order[o].status]

NewsAtFlush(s) ==
  /\ req[s].at = "auditing"
  /\ AppendEntry(s)
  /\ At(s, "audited")
  /\ due' = due \cup {News(req[s].id)}
  /\ UNCHANGED <<order, sent>>

AuditWrite(s) ==
  /\ req[s].at = "auditing"
  /\ AppendEntry(s)
  /\ At(s, "audited")
  /\ UNCHANGED <<order, sent, due>>

Commit(s) ==
  /\ req[s].at = "audited" /\ Cardinality(due) < MaxDue
  /\ order' = [order EXCEPT ![req[s].id].row = "committed"]
  /\ CommitEntries(s)
  /\ due' = due \cup {News(req[s].id)}
  /\ req' = [req EXCEPT ![s] = NoReq]
  /\ UNCHANGED sent

\* The request fails or its process dies: everything it flushed is undone; what the
\* broker has accepted stays there.
Abort(s) ==
  /\ req[s].at # "idle"
  /\ order' = [o \in Orders |-> IF o \in Pending /\ o = req[s].id
                                  THEN [order[o] EXCEPT !.row = "gone"] ELSE order[o]]
  /\ RollbackEntries(s)
  /\ req' = [req EXCEPT ![s] = NoReq]
  /\ UNCHANGED <<sent, due>>

-----------------------------------------------------------------------------
\* A fill synchroniser, the algorithm or a cancel commits a move of the order and
\* owes the event for it.
Moved(o, status) ==
  /\ o \in Rows /\ status \in Moves[order[o].status] \cap {"PARTIAL", "FILLED", "CANCELLED"}
  /\ status # order[o].status /\ Cardinality(due) < MaxDue
  /\ order' = [order EXCEPT ![o].status = status]
  /\ due' = due \cup {[News(o) EXCEPT !.status = status]}
  /\ UNCHANGED <<req, sent, auditVars>>

\* publish_order_event: it may fail, which is logged and swallowed.
Tell(e) ==
  /\ due' = due \ {e}
  /\ UNCHANGED <<intakeVars, auditVars>>

Next ==
  \/ \E s \in Sessions, u \in Users, k \in AnyKey : RiskCheck(s, u, k)
  \/ \E s \in Sessions : Insert(s) \/ Hold(s) \/ AtBroker(s)
  \/ \E s \in Sessions : AuditRead(s) \/ AuditWrite(s) \/ Commit(s) \/ Abort(s)
  \/ \E o \in Orders, status \in Statuses : Moved(o, status)
  \/ \E e \in due : Tell(e)

Spec == Init /\ [][Next]_vars

-----------------------------------------------------------------------------
\* Type invariant: every variable stays in its domain, and a request in flight works on
\* a row it has flushed.
TypeOK ==
  /\ entry \in [Ids -> EntryRow] /\ lastHash \in [Sessions -> Ids \cup {GENESIS}]
  /\ order \in [Orders -> [row : {"unused", "flushed", "committed", "gone"},
       user : Users \cup {"nobody"}, key : AnyKey, status : Statuses]]
  /\ \A s \in Sessions : req[s].id # 0 => order[req[s].id].row = "flushed"
  /\ sent \subseteq Orders
  /\ due \subseteq Event

\* A client_order_id reaches the broker once, however requests carrying it race past
\* the look-up (_risk_check): two orders of a trader with one key are both at the
\* broker only if a request that sent one never committed its row.
SentOnce ==
  \A a, b \in sent :
    a # b /\ order[a].user = order[b].user /\ order[a].key = order[b].key =>
      order[a].key = OWN \/ "gone" \in {order[a].row, order[b].row}

\* The limit on open orders is read without a lock (_risk_check), so requests that
\* run together may pass it together; a trader never has more orders open than the
\* limit and the requests that ran beside the last one (an OCO pair counted as one:
\* the limit is checked once for both its rows).
OpenIsBounded ==
  \A u \in Users :
    Cardinality({o \in Rows : order[o].user = u /\ order[o].status \in {"SUBMITTED", "PARTIAL"}})
      <= MaxOpen + Cardinality(Sessions) - 1

\* What traders are told is true: an event is about a committed order of the trader
\* it goes to, and a terminal status it reports is still the order's (create_order
\* and the synchronisers publish after their commit).
NewsIsCommitted ==
  \A e \in due :
    /\ e.id \in Rows /\ e.user = order[e.id].user
    /\ e.status \in TerminalStatuses => order[e.id].status = e.status
=============================================================================
