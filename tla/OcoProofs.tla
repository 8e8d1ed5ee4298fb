----------------------------- MODULE OcoProofs -----------------------------
(***************************************************************************)
(* Theorems about OcoOrders for every number of engines, users and faults. *)
(* The inductive invariant is the discipline of the row locks: whoever     *)
(* holds a row is at a step that needs it, the row's leg is live, and a    *)
(* leg that is about to be fired has not been fired (FireInv).             *)
(***************************************************************************)
EXTENDS OcoOrders, TLAPS

\* The steps at which an engine holds the row of its leg.
EngineHolds == {"closing_locked", "sending", "sent"}

\* Only a session at a step that needs a row holds it, and an engine or a cancellation
\* at such a step has it.
LockInv ==
  /\ \A e \in Engines : pc[e] \in EngineHolds => holder[leg[e]] = e
  /\ \A u \in Users : pc[u] \in {"own", "both"} => holder[leg[u]] = u
  /\ \A l \in Legs, e \in Engines : holder[l] = e => pc[e] \in EngineHolds /\ leg[e] = l
  /\ \A l \in Legs, u \in Users : holder[l] = u =>
       pc[u] = "both" \/ (pc[u] = "own" /\ leg[u] = l)
  /\ \A u \in Users : pc[u] \in {"idle", "own", "both"}
  /\ \A e \in Engines : pc[e] \notin {"own", "both"}

\* A row that is held is a live one.
HeldInv == \A l \in Legs : holder[l] # NoOne => Live(l)

\* An engine has submitted the leg and not booked the answer.
InFlight(l) == \E e \in Engines : pc[e] = "sent" /\ leg[e] = l

FireInv ==
  /\ \A e \in Engines : pc[e] \in {"sending", "sent"} => Unfired(leg[e])
  /\ \A e \in Engines : pc[e] = "sent" => answer[e] \in {"FILLED", "SUBMITTED", "REJECTED"}
  /\ \A l \in Legs : Unfired(l) /\ ~ InFlight(l) => sends[l] <= faults[l]
  /\ FiredOnce

\* The bound on faults is kept over both legs.
FaultInv == faults["limit"] + faults["stop"] <= MaxFaults

IInv == TypeOK /\ LockInv /\ HeldInv /\ FireInv /\ FaultInv
-----------------------------------------------------------------------------
LEMMA PassBeginInv ==
  ASSUME IInv, NEW e \in Engines, PassBegin(e)
  PROVE  IInv'
<1> USE SessionAssumption, MarketAssumption DEF IInv, row, work, Sessions, Legs, PassBegin, Goto, Sibling, FilledLeg
<1>1. TypeOK'
  BY DEF TypeOK, LockInv, FireInv, FiredOnce, FaultInv, EngineHolds, Statuses
<1>2. LockInv'
  BY DEF TypeOK, LockInv, EngineHolds
<1>3. HeldInv'
  BY DEF TypeOK, LockInv, HeldInv, FireInv, Live, LiveStatuses, Unfired, EngineHolds
<1>4. FireInv'
  BY DEF TypeOK, LockInv, HeldInv, FireInv, FiredOnce, Unfired, InFlight, EngineHolds
<1>5. FaultInv'
  BY DEF TypeOK, FaultInv
<1> QED
  BY <1>1, <1>2, <1>3, <1>4, <1>5

LEMMA CloseBeginInv ==
  ASSUME IInv, NEW e \in Engines, CloseBegin(e)
  PROVE  IInv'
<1> USE SessionAssumption, MarketAssumption DEF IInv, row, work, Sessions, Legs, CloseBegin, Goto, Leaves, Lock, OpenLeg
<1>1. TypeOK'
  BY DEF TypeOK, LockInv, FireInv, FiredOnce, FaultInv, EngineHolds, Statuses
<1>2. LockInv'
  BY DEF TypeOK, LockInv, EngineHolds
<1>3. HeldInv'
  BY DEF TypeOK, LockInv, HeldInv, FireInv, Live, LiveStatuses, Unfired, EngineHolds
<1>4. FireInv'
  BY DEF TypeOK, LockInv, HeldInv, FireInv, FiredOnce, Unfired, InFlight, EngineHolds
<1>5. FaultInv'
  BY DEF TypeOK, FaultInv
<1> QED
  BY <1>1, <1>2, <1>3, <1>4, <1>5

LEMMA CloseCommitInv ==
  ASSUME IInv, NEW e \in Engines, CloseCommit(e)
  PROVE  IInv'
<1> USE SessionAssumption, MarketAssumption DEF IInv, row, work, Sessions, Legs, CloseCommit, Goto, Leaves, Unlock, SetStatus
<1>1. TypeOK'
  BY DEF TypeOK, LockInv, FireInv, FiredOnce, FaultInv, EngineHolds, Statuses
<1>2. LockInv'
  BY DEF TypeOK, LockInv, EngineHolds
<1>3. HeldInv'
  BY DEF TypeOK, LockInv, HeldInv, FireInv, Live, LiveStatuses, Unfired, EngineHolds
<1>4. FireInv'
  BY DEF TypeOK, LockInv, HeldInv, FireInv, FiredOnce, Unfired, InFlight, EngineHolds
<1>5. FaultInv'
  BY DEF TypeOK, FaultInv
<1> QED
  BY <1>1, <1>2, <1>3, <1>4, <1>5

LEMMA AskCancelInv ==
  ASSUME IInv, NEW s \in Sessions, NEW l \in Legs, AskCancel(s, l)
  PROVE  IInv'
<1> USE SessionAssumption, MarketAssumption DEF IInv, row, work, Sessions, Legs, AskCancel
<1>1. TypeOK'
  BY DEF TypeOK, LockInv, FireInv, FiredOnce, FaultInv, EngineHolds, Statuses
<1>2. LockInv'
  BY DEF TypeOK, LockInv, EngineHolds
<1>3. HeldInv'
  BY DEF TypeOK, LockInv, HeldInv, FireInv, Live, LiveStatuses, Unfired, EngineHolds
<1>4. FireInv'
  BY DEF TypeOK, LockInv, HeldInv, FireInv, FiredOnce, Unfired, InFlight, EngineHolds
<1>5. FaultInv'
  BY DEF TypeOK, FaultInv
<1> QED
  BY <1>1, <1>2, <1>3, <1>4, <1>5

LEMMA ListArmedInv ==
  ASSUME IInv, NEW e \in Engines, ListArmed(e)
  PROVE  IInv'
<1> USE SessionAssumption, MarketAssumption DEF IInv, row, work, Sessions, Legs, ListArmed, Goto, ArmedOnly
<1>1. TypeOK'
  BY DEF TypeOK, LockInv, FireInv, FiredOnce, FaultInv, EngineHolds, Statuses
<1>2. LockInv'
  BY DEF TypeOK, LockInv, EngineHolds
<1>3. HeldInv'
  BY DEF TypeOK, LockInv, HeldInv, FireInv, Live, LiveStatuses, Unfired, EngineHolds
<1>4. FireInv'
  BY DEF TypeOK, LockInv, HeldInv, FireInv, FiredOnce, Unfired, InFlight, EngineHolds
<1>5. FaultInv'
  BY DEF TypeOK, FaultInv
<1> QED
  BY <1>1, <1>2, <1>3, <1>4, <1>5

LEMMA FireBeginInv ==
  ASSUME IInv, NEW e \in Engines, FireBegin(e)
  PROVE  IInv'
<1> USE SessionAssumption, MarketAssumption DEF IInv, row, work, Sessions, Legs, FireBegin, Goto, Lock, NextLeg
<1>1. TypeOK'
  BY DEF TypeOK, LockInv, FireInv, FiredOnce, FaultInv, EngineHolds, Statuses
<1>2. LockInv'
  BY DEF TypeOK, LockInv, EngineHolds
<1>3. HeldInv'
  BY DEF TypeOK, LockInv, HeldInv, FireInv, Live, LiveStatuses, Unfired, EngineHolds
<1>4. FireInv'
  BY DEF TypeOK, LockInv, HeldInv, FireInv, FiredOnce, Unfired, InFlight, EngineHolds
<1>5. FaultInv'
  BY DEF TypeOK, FaultInv
<1> QED
  BY <1>1, <1>2, <1>3, <1>4, <1>5

LEMMA FireSendInv ==
  ASSUME IInv, NEW e \in Engines, FireSend(e)
  PROVE  IInv'
<1> USE SessionAssumption, MarketAssumption DEF IInv, row, work, Sessions, Legs, FireSend, Goto
<1>1. TypeOK'
  <2>1. ~ InFlight(leg[e])
    BY DEF TypeOK, LockInv, InFlight, EngineHolds
  <2>2. sends[leg[e]] <= faults[leg[e]] /\ sends[leg[e]] \in Nat /\ faults[leg[e]] \in 0..MaxFaults
    BY <2>1 DEF TypeOK, FireInv
  <2>3. sends' \in [Legs -> 0..(MaxFaults + 1)]
    BY <2>2 DEF TypeOK
  <2>4. vstate' \in [Legs -> {"absent", "working", "filled", "over"}]
    BY DEF TypeOK
  <2>5. answer' \in [Engines -> {"none", "FILLED", "SUBMITTED", "REJECTED"}]
    BY DEF TypeOK
  <2> QED
    BY <2>3, <2>4, <2>5 DEF TypeOK
<1>2. LockInv'
  BY DEF TypeOK, LockInv, EngineHolds
<1>3. HeldInv'
  BY DEF TypeOK, LockInv, HeldInv, FireInv, Live, LiveStatuses, Unfired, EngineHolds
<1>4. FireInv'
  BY DEF TypeOK, LockInv, HeldInv, FireInv, FiredOnce, Unfired, InFlight, EngineHolds
<1>5. FaultInv'
  BY DEF TypeOK, FaultInv
<1> QED
  BY <1>1, <1>2, <1>3, <1>4, <1>5

LEMMA FireCommitInv ==
  ASSUME IInv, NEW e \in Engines, FireCommit(e)
  PROVE  IInv'
<1> USE SessionAssumption, MarketAssumption DEF IInv, row, work, Sessions, Legs, FireCommit, Goto, Leaves, Unlock, SetStatus, NextLeg
<1>1. TypeOK'
  BY DEF TypeOK, LockInv, FireInv, FiredOnce, FaultInv, EngineHolds, Statuses
<1>2. LockInv'
  BY DEF TypeOK, LockInv, EngineHolds
<1>3. HeldInv'
  BY DEF TypeOK, LockInv, HeldInv, FireInv, Live, LiveStatuses, Unfired, EngineHolds
<1>4. FireInv'
  <2>1. /\ leg[e] \in Legs /\ answer[e] \in {"FILLED", "SUBMITTED", "REJECTED"}
        /\ holder[leg[e]] = e
    BY DEF TypeOK, LockInv, FireInv, EngineHolds
  <2>0. PICK k \in Legs : leg[e] = k
    BY <2>1
  <2>2. ~ Unfired(k)' /\ \A l \in Legs : l # k => (Unfired(l)' <=> Unfired(l))
    <3>1. /\ status'[leg[e]] = answer[e] /\ ticket'[leg[e]] = (answer[e] # "REJECTED")
          /\ \A l \in Legs : l # leg[e] => status'[l] = status[l] /\ ticket'[l] = ticket[l]
      BY <2>1 DEF TypeOK
    <3> HIDE DEF FireCommit, IInv
    <3> QED
      BY <2>0, <2>1, <3>1 DEF Unfired
  <2>3. \A x \in Engines : pc'[x] \in {"sending", "sent"} =>
           x # e /\ pc'[x] = pc[x] /\ leg'[x] = leg[x] /\ answer'[x] = answer[x] /\ leg[x] # leg[e]
    BY <2>1 DEF TypeOK, LockInv, EngineHolds
  <2>4. \A l \in Legs : l # leg[e] => (InFlight(l)' <=> InFlight(l))
    <3>1. \A x \in Engines : x # e => pc'[x] = pc[x] /\ leg'[x] = leg[x]
      BY DEF TypeOK
    <3>2. pc'[e] # "sent"
      BY DEF TypeOK
    <3> HIDE DEF FireCommit, IInv
    <3> QED
      BY <2>1, <3>1, <3>2 DEF InFlight
  <2>5. sends' = sends /\ faults' = faults /\ FireInv /\ leg \in [Sessions -> Legs]
    BY DEF TypeOK
  <2> HIDE DEF FireCommit, IInv
  <2>6. \A x \in Engines : pc'[x] \in {"sending", "sent"} => Unfired(leg[x])'
    <3> SUFFICES ASSUME NEW x \in Engines, pc'[x] \in {"sending", "sent"}
                 PROVE  Unfired(leg[x])'
      OBVIOUS
    <3>1. x # e /\ pc[x] = pc'[x] /\ leg'[x] = leg[x] /\ leg[x] # leg[e] /\ leg[x] \in Legs
      BY <2>3, <2>5
    <3>2. Unfired(leg[x])
      BY <2>5, <3>1 DEF FireInv
    <3> QED
      BY <2>0, <2>2, <3>1, <3>2 DEF Unfired
  <2>7. \A x \in Engines : pc'[x] = "sent" => answer'[x] \in {"FILLED", "SUBMITTED", "REJECTED"}
    BY <2>3, <2>5 DEF FireInv
  <2>8. \A l \in Legs : Unfired(l)' /\ ~ InFlight(l)' => sends'[l] <= faults'[l]
    BY <2>0, <2>1, <2>2, <2>4, <2>5 DEF FireInv
  <2>9. FiredOnce'
    BY <2>5 DEF FireInv, FiredOnce
  <2> QED
    BY <2>6, <2>7, <2>8, <2>9 DEF FireInv
<1>5. FaultInv'
  BY DEF TypeOK, FaultInv
<1> QED
  BY <1>1, <1>2, <1>3, <1>4, <1>5

LEMMA EngineFaultInv ==
  ASSUME IInv, NEW e \in Engines, EngineFault(e)
  PROVE  IInv'
<1> USE SessionAssumption, MarketAssumption DEF IInv, row, work, Sessions, Legs, EngineFault, Goto, Leaves, Unlock, NextLeg
<1>1. TypeOK'
  BY DEF TypeOK, LockInv, FireInv, FiredOnce, FaultInv, EngineHolds, Statuses
<1>2. LockInv'
  BY DEF TypeOK, LockInv, EngineHolds
<1>3. HeldInv'
  BY DEF TypeOK, LockInv, HeldInv, FireInv, Live, LiveStatuses, Unfired, EngineHolds
<1>4. FireInv'
  BY DEF TypeOK, LockInv, HeldInv, FireInv, FiredOnce, Unfired, InFlight, EngineHolds
<1>5. FaultInv'
  BY DEF TypeOK, FaultInv
<1> QED
  BY <1>1, <1>2, <1>3, <1>4, <1>5

LEMMA CancelBeginInv ==
  ASSUME IInv, NEW u \in Users, NEW l \in Legs, CancelBegin(u, l)
  PROVE  IInv'
<1> USE SessionAssumption, MarketAssumption DEF IInv, row, work, Sessions, Legs, CancelBegin, Goto, Lock
<1>1. TypeOK'
  BY DEF TypeOK, LockInv, FireInv, FiredOnce, FaultInv, EngineHolds, Statuses
<1>2. LockInv'
  BY DEF TypeOK, LockInv, EngineHolds
<1>3. HeldInv'
  BY DEF TypeOK, LockInv, HeldInv, FireInv, Live, LiveStatuses, Unfired, EngineHolds
<1>4. FireInv'
  BY DEF TypeOK, LockInv, HeldInv, FireInv, FiredOnce, Unfired, InFlight, EngineHolds
<1>5. FaultInv'
  BY DEF TypeOK, FaultInv
<1> QED
  BY <1>1, <1>2, <1>3, <1>4, <1>5

LEMMA CancelSiblingInv ==
  ASSUME IInv, NEW u \in Users, CancelSibling(u)
  PROVE  IInv'
<1> USE SessionAssumption, MarketAssumption DEF IInv, row, work, Sessions, Legs, CancelSibling, Goto, Lock, Sibling
<1>1. TypeOK'
  BY DEF TypeOK, LockInv, FireInv, FiredOnce, FaultInv, EngineHolds, Statuses
<1>2. LockInv'
  BY DEF TypeOK, LockInv, EngineHolds
<1>3. HeldInv'
  BY DEF TypeOK, LockInv, HeldInv, FireInv, Live, LiveStatuses, Unfired, EngineHolds
<1>4. FireInv'
  BY DEF TypeOK, LockInv, HeldInv, FireInv, FiredOnce, Unfired, InFlight, EngineHolds
<1>5. FaultInv'
  BY DEF TypeOK, FaultInv
<1> QED
  BY <1>1, <1>2, <1>3, <1>4, <1>5

LEMMA CancelCommitInv ==
  ASSUME IInv, NEW u \in Users, CancelCommit(u)
  PROVE  IInv'
<1> USE SessionAssumption, MarketAssumption DEF IInv, row, work, Sessions, Legs, CancelCommit, Goto, Leaves, Unlock
<1>1. TypeOK'
  BY DEF TypeOK, LockInv, FireInv, FiredOnce, FaultInv, EngineHolds, Statuses
<1>2. LockInv'
  BY DEF TypeOK, LockInv, EngineHolds
<1>3. HeldInv'
  BY DEF TypeOK, LockInv, HeldInv, FireInv, Live, LiveStatuses, Unfired, EngineHolds
<1>4. FireInv'
  BY DEF TypeOK, LockInv, HeldInv, FireInv, FiredOnce, Unfired, InFlight, EngineHolds
<1>5. FaultInv'
  BY DEF TypeOK, FaultInv
<1> QED
  BY <1>1, <1>2, <1>3, <1>4, <1>5

LEMMA CancelFaultInv ==
  ASSUME IInv, NEW u \in Users, CancelFault(u)
  PROVE  IInv'
<1> USE SessionAssumption, MarketAssumption DEF IInv, row, work, Sessions, Legs, CancelFault, Goto, Leaves, Unlock
<1>1. TypeOK'
  BY DEF TypeOK, LockInv, FireInv, FiredOnce, FaultInv, EngineHolds, Statuses
<1>2. LockInv'
  BY DEF TypeOK, LockInv, EngineHolds
<1>3. HeldInv'
  BY DEF TypeOK, LockInv, HeldInv, FireInv, Live, LiveStatuses, Unfired, EngineHolds
<1>4. FireInv'
  BY DEF TypeOK, LockInv, HeldInv, FireInv, FiredOnce, Unfired, InFlight, EngineHolds
<1>5. FaultInv'
  BY DEF TypeOK, FaultInv
<1> QED
  BY <1>1, <1>2, <1>3, <1>4, <1>5

LEMMA DeadlockAbortInv ==
  ASSUME IInv, NEW u \in Users, DeadlockAbort(u)
  PROVE  IInv'
<1> USE SessionAssumption, MarketAssumption DEF IInv, row, work, Sessions, Legs, DeadlockAbort, Goto, Leaves, Unlock
<1>1. TypeOK'
  BY DEF TypeOK, LockInv, FireInv, FiredOnce, FaultInv, EngineHolds, Statuses
<1>2. LockInv'
  BY DEF TypeOK, LockInv, EngineHolds
<1>3. HeldInv'
  BY DEF TypeOK, LockInv, HeldInv, FireInv, Live, LiveStatuses, Unfired, EngineHolds
<1>4. FireInv'
  BY DEF TypeOK, LockInv, HeldInv, FireInv, FiredOnce, Unfired, InFlight, EngineHolds
<1>5. FaultInv'
  BY DEF TypeOK, FaultInv
<1> QED
  BY <1>1, <1>2, <1>3, <1>4, <1>5

LEMMA SyncLegInv ==
  ASSUME IInv, NEW l \in Legs, SyncLeg(l)
  PROVE  IInv'
<1> USE SessionAssumption, MarketAssumption DEF IInv, row, work, Sessions, Legs, SyncLeg, SetStatus, TerminalUnfilled
<1>1. TypeOK'
  BY DEF TypeOK, LockInv, FireInv, FiredOnce, FaultInv, EngineHolds, Statuses
<1>2. LockInv'
  BY DEF TypeOK, LockInv, EngineHolds
<1>3. HeldInv'
  BY DEF TypeOK, LockInv, HeldInv, FireInv, Live, LiveStatuses, Unfired, EngineHolds
<1>4. FireInv'
  BY DEF TypeOK, LockInv, HeldInv, FireInv, FiredOnce, Unfired, InFlight, EngineHolds
<1>5. FaultInv'
  BY DEF TypeOK, FaultInv
<1> QED
  BY <1>1, <1>2, <1>3, <1>4, <1>5

LEMMA VenueMovesInv ==
  ASSUME IInv, NEW l \in Legs, VenueMoves(l)
  PROVE  IInv'
<1> USE SessionAssumption, MarketAssumption DEF IInv, row, work, Sessions, Legs, VenueMoves
<1>1. TypeOK'
  BY DEF TypeOK, LockInv, FireInv, FiredOnce, FaultInv, EngineHolds, Statuses
<1>2. LockInv'
  BY DEF TypeOK, LockInv, EngineHolds
<1>3. HeldInv'
  BY DEF TypeOK, LockInv, HeldInv, FireInv, Live, LiveStatuses, Unfired, EngineHolds
<1>4. FireInv'
  BY DEF TypeOK, LockInv, HeldInv, FireInv, FiredOnce, Unfired, InFlight, EngineHolds
<1>5. FaultInv'
  BY DEF TypeOK, FaultInv
<1> QED
  BY <1>1, <1>2, <1>3, <1>4, <1>5

LEMMA StepInv == IInv /\ [Next]_vars => IInv'
<1> SUFFICES ASSUME IInv, [Next]_vars
             PROVE  IInv'
  OBVIOUS
<1>1. CASE UNCHANGED vars
  BY <1>1 DEF vars, IInv, TypeOK, LockInv, HeldInv, FireInv, FaultInv, FiredOnce, Live, Unfired, InFlight
<1>2. CASE \E e \in Engines : Engine(e) \/ EngineFault(e)
  BY <1>2, PassBeginInv, CloseBeginInv, CloseCommitInv, ListArmedInv, FireBeginInv, FireSendInv,
     FireCommitInv, EngineFaultInv
  DEF Engine
<1>3. CASE \E u \in Users : User(u) \/ CancelFault(u) \/ \E l \in Legs : CancelBegin(u, l)
  BY <1>3, CancelBeginInv, CancelSiblingInv, CancelCommitInv, CancelFaultInv, DeadlockAbortInv DEF User
<1>4. CASE \E s \in Sessions, l \in Legs : AskCancel(s, l)
  BY <1>4, AskCancelInv
<1>5. CASE \E l \in Legs : SyncLeg(l) \/ VenueMoves(l)
  BY <1>5, SyncLegInv, VenueMovesInv
<1> QED
  BY <1>1, <1>2, <1>3, <1>4, <1>5 DEF Next

LEMMA InitInv == Init => IInv
  BY SessionAssumption, MarketAssumption
  DEF Init, IInv, TypeOK, LockInv, HeldInv, FireInv, FaultInv, FiredOnce, Live, Unfired, InFlight,
      Sessions, Legs, Statuses, EngineHolds

LEMMA Invariance == Spec => []IInv
<1>1. IInv /\ [Next]_vars => IInv'
  BY StepInv
<1> QED
  BY <1>1, InitInv, PTL DEF Spec

\* A leg is sent to the broker once, and once more for each session that died on it:
\* two engines, or an engine and its own next pass, never both fire it.
THEOREM LegsFireOnce == Spec => []FiredOnce
<1>1. IInv => FiredOnce
  BY DEF IInv, FireInv
<1> QED
  BY <1>1, Invariance, PTL

\* Whoever writes a status holds a live row, so an ended leg is left alone.
LEMMA StepEnded ==
  IInv /\ [Next]_vars =>
    \A l \in Legs : status[l] \in TerminalStatuses =>
      sends'[l] = sends[l] /\ status'[l] = status[l]
<1> SUFFICES ASSUME IInv, [Next]_vars, NEW l \in Legs, status[l] \in TerminalStatuses
             PROVE  sends'[l] = sends[l] /\ status'[l] = status[l]
  OBVIOUS
<1> USE DEF IInv, TerminalStatuses, LiveStatuses
<1>0. ~ Live(l) /\ ~ Unfired(l) /\ holder[l] = NoOne
  BY DEF HeldInv, Live, Unfired
<1>1. CASE UNCHANGED <<status, sends>>
  BY <1>1
<1>2. ASSUME NEW e \in Engines, CloseCommit(e) PROVE UNCHANGED sends /\ status'[l] = status[l]
  <2>1. leg[e] # l
    BY <1>0, <1>2, SessionAssumption DEF CloseCommit, LockInv, EngineHolds
  <2> QED
    BY <1>2, <2>1 DEF CloseCommit, SetStatus, TypeOK
<1>3. ASSUME NEW e \in Engines, FireSend(e) PROVE UNCHANGED status /\ sends'[l] = sends[l]
  <2>1. leg[e] # l
    BY <1>0, <1>3 DEF FireSend, FireInv
  <2> QED
    BY <1>3, <2>1 DEF FireSend, row, TypeOK
<1>4. ASSUME NEW e \in Engines, FireCommit(e) PROVE UNCHANGED sends /\ status'[l] = status[l]
  <2>1. leg[e] # l
    BY <1>0, <1>4 DEF FireCommit, FireInv
  <2> QED
    BY <1>4, <2>1 DEF FireCommit, SetStatus, TypeOK
<1>5. ASSUME NEW u \in Users, CancelCommit(u) PROVE UNCHANGED sends /\ status'[l] = status[l]
  <2>1. holder[l] # u
    BY <1>0, SessionAssumption
  <2> QED
    BY <1>5, <2>1 DEF CancelCommit
<1>6. ASSUME NEW k \in Legs, SyncLeg(k) PROVE UNCHANGED sends /\ status'[l] = status[l]
  <2>1. k # l
    BY <1>0, <1>6 DEF SyncLeg
  <2> QED
    BY <1>6, <2>1 DEF SyncLeg, SetStatus, TypeOK
<1> QED
  BY <1>1, <1>2, <1>3, <1>4, <1>5, <1>6
  DEF Next, Engine, User, vars, row, PassBegin, CloseBegin, ListArmed, FireBegin, EngineFault,
      CancelBegin, CancelSibling, CancelFault, DeadlockAbort, AskCancel, VenueMoves

\* A leg that is filled, cancelled or rejected is never sent to the broker any more and
\* keeps its status, whichever engines, cancellations and deaths race on the pair.
THEOREM EndedLegsRest == Spec => EndedStaysEnded
<1>1. IInv /\ [Next]_vars =>
        [\A l \in Legs : status[l] \in TerminalStatuses =>
           sends'[l] = sends[l] /\ status'[l] = status[l]]_vars
  BY StepEnded
<1> QED
  BY <1>1, Invariance, PTL DEF Spec, EndedStaysEnded
=============================================================================
