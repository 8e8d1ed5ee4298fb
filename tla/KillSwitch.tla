----------------------------- MODULE KillSwitch -----------------------------
(***************************************************************************)
(* The kill switch (risk_service.trigger_kill_switch) beside the sessions  *)
(* of OrderExecution.  It reads the user's open orders without locking     *)
(* them, asks each order's broker for a cancellation, and only then flushes*)
(* the UPDATEs: they wait for the row locks of the other sessions and then *)
(* overwrite the status, whatever those sessions committed meanwhile.      *)
(***************************************************************************)
EXTENDS OrderExecution

VARIABLES
  kill,      \* "idle" or "sweeping"
  targets,   \* the orders it read as open
  sent       \* the targets whose broker it has asked

kvars   == <<kill, targets, sent>>
allvars == <<vars, kvars>>

KInit == Init /\ kill = "idle" /\ targets = {} /\ sent = {}

KillBegin ==
  /\ kill = "idle"
  /\ kill' = "sweeping"
  /\ targets' = {o \in Orders : status[o] \in OpenStatuses}
  /\ sent' = {}
  /\ UNCHANGED vars

\* adapter.cancel_order for one target: it may work, come too late or fail; a
\* failure is logged and the sweep goes on.
KillAtVenue(o) ==
  /\ kill = "sweeping" /\ o \in targets \ sent
  /\ sent' = sent \cup {o}
  /\ \/ vstate[o] = "working" /\ vstate' = [vstate EXCEPT ![o] = "cancelled"]
     \/ UNCHANGED vstate
  /\ UNCHANGED <<row, traded, pushes, work, kill, targets>>

KillEnds == kill' = "idle" /\ targets' = {} /\ sent' = {}

\* db.flush() and the commit of the request: the row locks are granted, and the
\* status column alone is written.
KillCommit ==
  /\ kill = "sweeping" /\ sent = targets
  /\ \A o \in targets : Free(o)
  /\ status' = [o \in Orders |-> IF o \in targets THEN "CANCELLED" ELSE status[o]]
  /\ KillEnds
  /\ UNCHANGED <<filled_qty, has_ticket, booked, venue, pushes, work>>

KillAbort ==
  /\ kill = "sweeping"
  /\ KillEnds
  /\ UNCHANGED vars

KNext ==
  \/ Next /\ UNCHANGED kvars
  \/ KillBegin \/ KillCommit \/ KillAbort
  \/ \E o \in Orders : KillAtVenue(o)

KSpec == KInit /\ [][KNext]_allvars

-----------------------------------------------------------------------------
\* Once an order is terminal its fills are final and it stays terminal: a session
\* that was at work on an order when the kill switch began does not bring back what
\* the switch cancelled, nor book a fill on it.
NoRevival ==
  [][\A o \in Orders : status[o] \in TerminalStatuses =>
       /\ status'[o] \in TerminalStatuses
       /\ filled_qty'[o] = filled_qty[o] /\ booked'[o] = booked[o]]_row
=============================================================================
