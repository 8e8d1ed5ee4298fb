----------------------------- MODULE OcoOrders -----------------------------
(***************************************************************************)
(* One OCO pair: two Order rows held by the application and fired at the   *)
(* broker by the conditional-order engine (conditional_orders.py), the     *)
(* user's cancellation of the pair (order_service.cancel_order) and the    *)
(* fill synchronisation of a leg that rests at the broker.  Every server   *)
(* process runs an engine of its own.  Row locks are explicit here because *)
(* a cancellation takes two of them, its own leg's first.                  *)
(***************************************************************************)
EXTENDS Integers, OrderStatus

CONSTANTS
  Engines,     \* the processes' conditional-order engines
  Users,       \* concurrent cancellation requests
  NoOne,       \* the holder of a free row
  MaxFaults    \* bound on rollbacks and deaths

ASSUME SessionAssumption == NoOne \notin Engines \cup Users /\ Engines \cap Users = {}
ASSUME MarketAssumption  == MaxFaults \in Nat

VARIABLES
  status,   \* Order.status of each leg
  ticket,   \* Order.broker_order_id is not NULL
  vstate,   \* the leg at the venue: "absent", "working", "filled" or "over"
  sends,    \* how often each leg was submitted to the broker
  faults,   \* rollbacks and deaths of sessions that worked on the leg
  holder,   \* the session that holds the leg's row lock
  pc,       \* where each session is
  leg,      \* the leg it works on
  due,      \* the legs an engine's pass has found triggered
  answer    \* what the broker answered to an engine's submission

Legs     == {"limit", "stop"}
Sessions == Engines \cup Users

row  == <<status, ticket>>
work == <<pc, leg, due, answer>>
vars == <<status, ticket, vstate, sends, faults, holder, pc, leg, due, answer>>

Sibling(l) == IF l = "limit" THEN "stop" ELSE "limit"

Live(l) == status[l] \in LiveStatuses

\* submit_order has committed the pair: both legs armed.
Init ==
  /\ status = [l \in Legs |-> "SUBMITTED"]
  /\ ticket = [l \in Legs |-> FALSE]
  /\ vstate = [l \in Legs |-> "absent"]
  /\ sends = [l \in Legs |-> 0]
  /\ faults = [l \in Legs |-> 0]
  /\ holder = [l \in Legs |-> NoOne]
  /\ pc = [s \in Sessions |-> "idle"]
  /\ leg = [s \in Sessions |-> "limit"]
  /\ due = [e \in Engines |-> {}]
  /\ answer = [e \in Engines |-> "none"]

Goto(s, at) == pc' = [pc EXCEPT ![s] = at]
Leaves(s)   == leg' = [leg EXCEPT ![s] = "limit"]     \* works on no leg: the default

Lock(s, l)    == holder[l] = NoOne /\ holder' = [holder EXCEPT ![l] = s]
Unlock(s)     == holder' = [l \in Legs |-> IF holder[l] = s THEN NoOne ELSE holder[l]]
SetStatus(l, s) == status' = [status EXCEPT ![l] = s]

-----------------------------------------------------------------------------
(* sweep_conditionals, first half: a group with a FILLED leg has its open  *)
(* sibling cancelled (_cancel_oco_siblings).                               *)

ArmedOnly(l) == status[l] = "SUBMITTED" /\ ~ ticket[l]

\* What _cancel_oco_siblings selects.
OpenLeg(l) == Live(l)

FilledLeg(l) == status[l] = "FILLED"

PassBegin(e) ==
  /\ pc[e] = "idle"
  /\ \/ \E l \in Legs :
          /\ FilledLeg(l)
          /\ leg' = [leg EXCEPT ![e] = Sibling(l)]
          /\ Goto(e, "closing")
     \/ /\ \A l \in Legs : ~ FilledLeg(l)
        /\ Goto(e, "listing")
        /\ UNCHANGED leg
  /\ UNCHANGED <<row, vstate, sends, faults, holder, due, answer>>

\* SELECT ... FOR UPDATE of the sibling, if it is open.
CloseBegin(e) ==
  /\ pc[e] = "closing"
  /\ \/ ~ OpenLeg(leg[e]) /\ Goto(e, "listing") /\ Leaves(e) /\ UNCHANGED holder
     \/ OpenLeg(leg[e]) /\ Lock(e, leg[e]) /\ Goto(e, "closing_locked") /\ UNCHANGED leg
  /\ UNCHANGED <<row, vstate, sends, faults, due, answer>>

CloseCommit(e) ==
  /\ pc[e] = "closing_locked"
  /\ SetStatus(leg[e], "CANCELLED")
  /\ Unlock(e) /\ Leaves(e)
  /\ Goto(e, "listing")
  /\ UNCHANGED <<ticket, vstate, sends, faults, due, answer>>

\* adapter.cancel_order under the lock, for the engine and for the user.  It may
\* come too late or fail, and the local cancellation goes on: it may not happen.
AskCancel(s, l) ==
  /\ pc[s] \in {"closing_locked", "own", "both"}
  /\ holder[l] = s /\ ticket[l] /\ vstate[l] = "working"
  /\ vstate' = [vstate EXCEPT ![l] = "over"]
  /\ UNCHANGED <<row, sends, faults, holder, work>>

-----------------------------------------------------------------------------
(* Second half: the armed legs whose trigger the mark has crossed are      *)
(* fired, one after the other (_is_triggered, _execute_triggered).  The    *)
(* legs' prices are not compared: one mark may trigger both.               *)

ListArmed(e) ==
  /\ pc[e] = "listing"
  /\ \E ls \in SUBSET {l \in Legs : ArmedOnly(l)} :
       /\ due' = [due EXCEPT ![e] = ls]
       /\ Goto(e, IF ls = {} THEN "idle" ELSE "firing")
  /\ UNCHANGED <<row, vstate, sends, faults, holder, leg, answer>>

AnyTicket(l) == status[l] = "SUBMITTED"
AnyStatus(l) == ~ ticket[l]

\* The re-check under the lock.
Unfired(l) == status[l] = "SUBMITTED" /\ ~ ticket[l]

\* The next leg of the pass, or its end.
NextLeg(e, left) ==
  /\ due' = [due EXCEPT ![e] = left]
  /\ Goto(e, IF left = {} THEN "idle" ELSE "firing")

FireBegin(e) ==
  /\ pc[e] = "firing"
  /\ \E l \in due[e] :
       /\ holder[l] = NoOne
       /\ IF Unfired(l)
            THEN /\ Lock(e, l)
                 /\ leg' = [leg EXCEPT ![e] = l]
                 /\ Goto(e, "sending")
                 /\ UNCHANGED due
            ELSE NextLeg(e, due[e] \ {l}) /\ UNCHANGED <<holder, leg>>
  /\ UNCHANGED <<row, vstate, sends, faults, answer>>

\* adapter.submit_order returns FILLED or, for a leg that rests at the broker,
\* SUBMITTED; or it raises about a leg the venue has refused or has executed.
FireSend(e) ==
  LET outcome(vs, a) == /\ vstate' = [vstate EXCEPT ![leg[e]] = vs]
                        /\ answer' = [answer EXCEPT ![e] = a]
  IN  /\ pc[e] = "sending"
      /\ sends' = [sends EXCEPT ![leg[e]] = @ + 1]
      /\ \/ outcome("filled", "FILLED")
         \/ outcome("working", "SUBMITTED")
         \/ outcome("over", "REJECTED")
         \/ outcome("filled", "REJECTED")
      /\ Goto(e, "sent")
      /\ UNCHANGED <<row, faults, holder, leg, due>>

FireCommit(e) ==
  /\ pc[e] = "sent"
  /\ SetStatus(leg[e], answer[e])
  /\ ticket' = [ticket EXCEPT ![leg[e]] = (answer[e] # "REJECTED")]
  /\ Unlock(e) /\ Leaves(e)
  /\ answer' = [answer EXCEPT ![e] = "none"]
  /\ NextLeg(e, due[e] \ {leg[e]})
  /\ UNCHANGED <<vstate, sends, faults>>

\* The process dies or the bookkeeping raises: everything is rolled back, and the
\* rest of the pass is lost or goes on.
EngineFault(e) ==
  /\ pc[e] \in {"closing_locked", "sending", "sent"}
  /\ faults["limit"] + faults["stop"] < MaxFaults
  /\ faults' = [faults EXCEPT ![leg[e]] = @ + 1]
  /\ Unlock(e) /\ Leaves(e)
  /\ answer' = [answer EXCEPT ![e] = "none"]
  /\ \/ NextLeg(e, {})
     \/ pc[e] # "closing_locked" /\ NextLeg(e, due[e] \ {leg[e]})
  /\ UNCHANGED <<row, vstate, sends>>

-----------------------------------------------------------------------------
(* cancel_order on one leg: its row is locked, then its open sibling's.    *)

CancelBegin(u, l) ==
  /\ pc[u] = "idle" /\ Live(l)
  /\ Lock(u, l)
  /\ leg' = [leg EXCEPT ![u] = l]
  /\ Goto(u, "own")
  /\ UNCHANGED <<row, vstate, sends, faults, due, answer>>

CancelSibling(u) ==
  LET l == Sibling(leg[u])
  IN  /\ pc[u] = "own"
      /\ \/ ~ Live(l) /\ UNCHANGED holder
         \/ Live(l) /\ Lock(u, l)
      /\ Goto(u, "both")
      /\ UNCHANGED <<row, vstate, sends, faults, leg, due, answer>>

CancelCommit(u) ==
  /\ pc[u] = "both"
  /\ status' = [l \in Legs |-> IF holder[l] = u THEN "CANCELLED" ELSE status[l]]
  /\ Unlock(u) /\ Leaves(u)
  /\ Goto(u, "idle")
  /\ UNCHANGED <<ticket, vstate, sends, faults, due, answer>>

CancelFault(u) ==
  /\ pc[u] \in {"own", "both"}
  /\ faults["limit"] + faults["stop"] < MaxFaults
  /\ faults' = [faults EXCEPT ![leg[u]] = @ + 1]
  /\ Unlock(u) /\ Leaves(u)
  /\ Goto(u, "idle")
  /\ UNCHANGED <<row, vstate, sends, due, answer>>

\* Two cancellations that each hold the leg the other waits for: the database
\* aborts one of them.
DeadlockAbort(u) ==
  /\ pc[u] = "own"
  /\ \E x \in Users : pc[x] = "own" /\ x # u /\ holder[Sibling(leg[u])] = x
  /\ Unlock(u) /\ Leaves(u)
  /\ Goto(u, "idle")
  /\ UNCHANGED <<row, vstate, sends, faults, due, answer>>

-----------------------------------------------------------------------------
(* Fill synchronisation of a leg with a ticket, in one transaction, and    *)
(* the venue's own moves.                                                  *)

SyncLeg(l) ==
  /\ ticket[l] /\ Live(l) /\ holder[l] = NoOne
  /\ \/ vstate[l] = "filled" /\ SetStatus(l, "FILLED")
     \/ vstate[l] = "over" /\ \E s \in TerminalUnfilled : SetStatus(l, s)
  /\ UNCHANGED <<ticket, vstate, sends, faults, holder, work>>

VenueMoves(l) ==
  /\ vstate[l] = "working"
  /\ \E vs \in {"filled", "over"} : vstate' = [vstate EXCEPT ![l] = vs]
  /\ UNCHANGED <<row, sends, faults, holder, work>>

-----------------------------------------------------------------------------
Engine(e) ==
  \/ PassBegin(e) \/ CloseBegin(e) \/ CloseCommit(e)
  \/ ListArmed(e) \/ FireBegin(e) \/ FireSend(e) \/ FireCommit(e)

User(u) == CancelSibling(u) \/ CancelCommit(u) \/ DeadlockAbort(u)

Next ==
  \/ \E e \in Engines : Engine(e) \/ EngineFault(e)
  \/ \E u \in Users : User(u) \/ CancelFault(u) \/ \E l \in Legs : CancelBegin(u, l)
  \/ \E s \in Sessions, l \in Legs : AskCancel(s, l)
  \/ \E l \in Legs : SyncLeg(l) \/ VenueMoves(l)

Spec == Init /\ [][Next]_vars

\* Each engine's loop runs for ever and its broker calls return; a request that has
\* begun ends.  The lock queue is served in order: SF on the steps that wait for one.
Fairness ==
  /\ \A e \in Engines : WF_vars(Engine(e)) /\ SF_vars(CloseBegin(e)) /\ SF_vars(FireBegin(e))
  /\ \A u \in Users : WF_vars(User(u)) /\ SF_vars(CancelSibling(u))

FairSpec == Spec /\ Fairness

-----------------------------------------------------------------------------
\* Type invariant: every variable stays in its domain.
TypeOK ==
  /\ status \in [Legs -> Statuses]
  /\ ticket \in [Legs -> BOOLEAN]
  /\ vstate \in [Legs -> {"absent", "working", "filled", "over"}]
  /\ sends \in [Legs -> 0..(MaxFaults + 1)]
  /\ faults \in [Legs -> 0..MaxFaults]
  /\ holder \in [Legs -> Sessions \cup {NoOne}]
  /\ pc \in [Sessions -> {"idle", "closing", "closing_locked", "listing", "firing",
                          "sending", "sent", "own", "both"}]
  /\ leg \in [Sessions -> Legs]
  /\ due \in [Engines -> SUBSET Legs]
  /\ answer \in [Engines -> {"none", "FILLED", "SUBMITTED", "REJECTED"}]

\* A leg is sent to the broker once, and once more for each session that died on it
\* before it could commit: two engines, or a pass and the next, never both fire it.
FiredOnce == \A l \in Legs : sends[l] <= 1 + faults[l]

\* "A user cancel racing the trigger can't double-execute": a leg that is filled,
\* cancelled or rejected is never sent to the broker any more, and stays what it is.
EndedStaysEnded ==
  [][\A l \in Legs : status[l] \in TerminalStatuses =>
       sends'[l] = sends[l] /\ status'[l] = status[l]]_vars

\* Once a leg is FILLED its sibling is closed, whoever holds its row at the time.
FilledClosesSibling ==
  \A l \in Legs : FilledLeg(l) ~> status[Sibling(l)] \in TerminalStatuses
=============================================================================
