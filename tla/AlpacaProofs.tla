---------------------------- MODULE AlpacaProofs ----------------------------
(***************************************************************************)
(* Theorems about AlpacaSync for every number of processes, executions and *)
(* faults and for every length of the grace period.  What a session acts   *)
(* on may be old, an update may be late or repeated: the invariant is that *)
(* each is sound, a true statement about some earlier moment at Alpaca     *)
(* that the end of the order has not overtaken (Sound).                    *)
(***************************************************************************)
EXTENDS AlpacaSync, TLAPS

\* A state of the order, however old: no more than was traded, its print is the last of
\* its executions, and it says FILLED only of an order that is and stays complete.
Sound(v) ==
  /\ v.filled <= traded
  /\ v.print \in {0, v.filled}
  /\ v.status = "FILLED" => vstate = "filled" /\ v.filled = traded

SoundInv == Sound(view) /\ \A v \in events : Sound(v)

IInv == TypeOK /\ SoundInv /\ PrintsAreReal /\ FilledIsComplete
-----------------------------------------------------------------------------
LEMMA InitInv == Init => IInv
BY ProcAssumption, BoundAssumption
   DEF Init, IInv, TypeOK, SoundInv, Sound, PrintsAreReal, FilledIsComplete, Statuses,
       VenueStates, View, NoView, Units, Ages, Unbooked, Average, Never

LEMMA ExecutesInv ==
  ASSUME IInv, Executes
  PROVE  IInv'
<1> USE ProcAssumption, BoundAssumption DEF IInv, row, venue, sess, Executes, Word
<1>1. TypeOK'
  BY DEF TypeOK, Units, Ages, Statuses, VenueStates, View, Average, Unbooked, Never
<1>2. SoundInv'
  BY DEF TypeOK, SoundInv, Sound, View
<1>3. PrintsAreReal'
  BY DEF TypeOK, PrintsAreReal
<1>4. FilledIsComplete'
  BY DEF TypeOK, FilledIsComplete
<1> QED
  BY <1>1, <1>2, <1>3, <1>4

LEMMA EndsInv ==
  ASSUME IInv, Ends
  PROVE  IInv'
<1> USE ProcAssumption, BoundAssumption DEF IInv, row, venue, sess, Ends, Word
<1>1. TypeOK'
  BY DEF TypeOK, Units, Ages, Statuses, VenueStates, View, Average, Unbooked, Never
<1>2. SoundInv'
  BY DEF TypeOK, SoundInv, Sound, View
<1>3. PrintsAreReal'
  BY DEF TypeOK, PrintsAreReal
<1>4. FilledIsComplete'
  BY DEF TypeOK, FilledIsComplete
<1> QED
  BY <1>1, <1>2, <1>3, <1>4

LEMMA FeedCatchesUpInv ==
  ASSUME IInv, FeedCatchesUp
  PROVE  IInv'
<1> USE ProcAssumption, BoundAssumption DEF IInv, row, venue, sess, FeedCatchesUp
<1>1. TypeOK'
  BY DEF TypeOK, Units, Ages, Statuses, VenueStates, View, Average, Unbooked, Never
<1>2. SoundInv'
  BY DEF TypeOK, SoundInv, Sound, View
<1>3. PrintsAreReal'
  BY DEF TypeOK, PrintsAreReal
<1>4. FilledIsComplete'
  BY DEF TypeOK, FilledIsComplete
<1> QED
  BY <1>1, <1>2, <1>3, <1>4

LEMMA PollBeginInv ==
  ASSUME IInv, NEW p \in Procs, PollBegin(p)
  PROVE  IInv'
<1> USE ProcAssumption, BoundAssumption DEF IInv, row, venue, sess, PollBegin, Begin, StillOpen, NoView, LiveStatuses
<1>1. TypeOK'
  BY DEF TypeOK, Units, Ages, Statuses, VenueStates, View, Average, Unbooked, Never
<1>2. SoundInv'
  BY DEF TypeOK, SoundInv, Sound, View
<1>3. PrintsAreReal'
  BY DEF TypeOK, PrintsAreReal
<1>4. FilledIsComplete'
  BY DEF TypeOK, FilledIsComplete
<1> QED
  BY <1>1, <1>2, <1>3, <1>4

LEMMA PushBeginInv ==
  ASSUME IInv, NEW p \in Procs, PushBegin(p)
  PROVE  IInv'
<1> USE ProcAssumption, BoundAssumption DEF IInv, row, venue, sess, PushBegin, Begin, StillOpen, LiveStatuses
<1>1. TypeOK'
  BY DEF TypeOK, Units, Ages, Statuses, VenueStates, View, Average, Unbooked, Never
<1>2. SoundInv'
  BY DEF TypeOK, SoundInv, Sound, View
<1>3. PrintsAreReal'
  BY DEF TypeOK, PrintsAreReal
<1>4. FilledIsComplete'
  BY DEF TypeOK, FilledIsComplete
<1> QED
  BY <1>1, <1>2, <1>3, <1>4

LEMMA PollFetchInv ==
  ASSUME IInv, NEW p \in Procs, PollFetch(p)
  PROVE  IInv'
<1> USE ProcAssumption, BoundAssumption DEF IInv, row, venue, sess, PollFetch, Current, Word, VenueStates
<1>1. TypeOK'
  BY DEF TypeOK, Units, Ages, Statuses, VenueStates, View, Average, Unbooked, Never
<1>2. SoundInv'
  BY DEF TypeOK, SoundInv, Sound, View
<1>3. PrintsAreReal'
  BY DEF TypeOK, PrintsAreReal
<1>4. FilledIsComplete'
  BY DEF TypeOK, FilledIsComplete
<1> QED
  BY <1>1, <1>2, <1>3, <1>4

\* What a committed pass has recorded: never less than before nor more than was
\* executed, each unit at its own price, and all of it when the order is shown FILLED.
LEMMA BookedIsSound ==
  ASSUME IInv, NEW p \in Procs, NEW shown \in Shown
  PROVE  /\ Booked(p, shown) \in filled_qty..traded
         /\ Booked(p, shown) \in 0..MaxExecs
         /\ \A k \in Units : k > filled_qty /\ k <= Booked(p, shown) => Price(shown, k) \in {k, Average}
         /\ NewStatus(p, shown) = "FILLED" =>
              status = "FILLED" \/ (vstate = "filled" /\ Booked(p, shown) = traded)
<1> USE BoundAssumption DEF IInv, TypeOK, Shown
<1>0. /\ view.filled \in 0..traded /\ view.print \in {0, view.filled}
      /\ view.status = "FILLED" => vstate = "filled" /\ view.filled = traded
      /\ shown \in 0..traded /\ filled_qty \in 0..traded /\ traded \in 0..MaxExecs
  BY DEF SoundInv, Sound, View, PrintsAreReal
<1>a. NewStatus(p, shown) = "FILLED" =>
        status = "FILLED" \/ (view.status = "FILLED" /\ ~ Deferred(p, shown))
  BY DEF NewStatus, TerminalUnfilled
<1>1. CASE NewlyFilled <= 0
  <2>1. Booked(p, shown) = filled_qty /\ view.filled <= filled_qty
    BY <1>0, <1>1 DEF NewlyFilled, Booked
  <2>2. \A k \in Units : k > filled_qty => ~ (k <= Booked(p, shown))
    BY <1>0, <2>1 DEF Units
  <2>3. view.status = "FILLED" => vstate = "filled" /\ filled_qty = traded
    BY <1>0, <2>1
  <2>4. filled_qty \in filled_qty..traded /\ filled_qty \in 0..MaxExecs
    BY <1>0
  <2> QED
    BY <1>a, <2>1, <2>2, <2>3, <2>4
<1>2. CASE NewlyFilled > 0 /\ PrintCovers
  BY <1>0, <1>a, <1>2 DEF NewlyFilled, PrintCovers, Booked, Price, Units
<1>3. CASE NewlyFilled > 0 /\ ~ PrintCovers /\ Short(shown) /\ GraceOver(p)
  BY <1>0, <1>a, <1>3 DEF NewlyFilled, Booked, Price, Units
<1>4. CASE NewlyFilled > 0 /\ ~ PrintCovers /\ Short(shown) /\ ~ GraceOver(p)
  BY <1>0, <1>a, <1>4 DEF NewlyFilled, Booked, Price, Deferred, Upto, Units
<1>5. CASE NewlyFilled > 0 /\ ~ PrintCovers /\ ~ Short(shown)
  BY <1>0, <1>a, <1>5 DEF NewlyFilled, Booked, Price, Short, Upto, Units
<1> QED
  BY <1>0, <1>1, <1>2, <1>3, <1>4, <1>5 DEF NewlyFilled, PrintCovers, Short

\* The words and ages a pass can leave.
LEMMA PassTypes ==
  ASSUME TypeOK, NEW p \in Procs, NEW shown \in Shown
  PROVE  NewStatus(p, shown) \in Statuses /\ LagClock(p, shown) \in Ages
BY BoundAssumption DEF TypeOK, NewStatus, LagClock, Statuses, TerminalUnfilled, Ages, Never

LEMMA CommitInv ==
  ASSUME IInv, NEW p \in Procs, Commit(p)
  PROVE  IInv'
<1> USE ProcAssumption, BoundAssumption DEF venue
<1>1. PICK shown \in Shown :
        /\ filled_qty' = Booked(p, shown)
        /\ fills' = [k \in Units |-> IF k > filled_qty /\ k <= filled_qty'
                                       THEN Price(shown, k) ELSE fills[k]]
        /\ status' = NewStatus(p, shown)
        /\ lag_seen' = [lag_seen EXCEPT ![p] = LagClock(p, shown)]
        /\ holder' = Nobody /\ stage' = "free" /\ view' = NoView
        /\ vstate' = vstate /\ traded' = traded /\ feed' = feed /\ events' = events
        /\ faults' = faults
  BY DEF Commit, Release
<1> DEFINE q == Booked(p, shown)
<1>2. /\ q \in filled_qty..traded /\ q \in 0..MaxExecs
      /\ \A k \in Units : k > filled_qty /\ k <= q => Price(shown, k) \in {k, Average}
      /\ NewStatus(p, shown) = "FILLED" => status = "FILLED" \/ (vstate = "filled" /\ q = traded)
  BY BookedIsSound
<1>3. NewStatus(p, shown) \in Statuses /\ LagClock(p, shown) \in Ages
  BY PassTypes DEF IInv
<1> HIDE DEF q
<1>4. filled_qty' = q
  BY <1>1 DEF q
<1>5. \A k \in Units : fills'[k] \in IF k <= q THEN {k, Average} ELSE {Unbooked}
  BY <1>1, <1>2, <1>4 DEF IInv, TypeOK, PrintsAreReal, Units
<1>6. TypeOK'
  <2>1. fills' \in [Units -> {Unbooked, Average} \cup Units]
    BY <1>1, <1>5
  <2> QED
    BY <1>1, <1>2, <1>3, <1>4, <2>1 DEF IInv, TypeOK, View, NoView, Statuses
<1>7. SoundInv'
  BY <1>1 DEF IInv, TypeOK, SoundInv, Sound, NoView, View
<1>8. PrintsAreReal'
  BY <1>1, <1>2, <1>4, <1>5 DEF PrintsAreReal, IInv, TypeOK
<1>9. FilledIsComplete'
  BY <1>1, <1>2, <1>4 DEF IInv, FilledIsComplete, TypeOK
<1> QED
  BY <1>6, <1>7, <1>8, <1>9 DEF IInv

LEMMA RollbackInv ==
  ASSUME IInv, NEW p \in Procs, Rollback(p)
  PROVE  IInv'
<1> USE ProcAssumption, BoundAssumption DEF IInv, row, venue, sess, Rollback, Release, NoView
<1>1. TypeOK'
  <2>1. \A shown \in Shown : LagClock(p, shown) \in Ages
    BY PassTypes
  <2>2. lag_seen' \in [Procs -> Ages]
    BY <2>1 DEF TypeOK
  <2> QED
    BY <2>2 DEF TypeOK, Statuses, View
<1>2. SoundInv'
  BY DEF TypeOK, SoundInv, Sound, View
<1>3. PrintsAreReal'
  BY DEF TypeOK, PrintsAreReal
<1>4. FilledIsComplete'
  BY DEF TypeOK, FilledIsComplete
<1> QED
  BY <1>1, <1>2, <1>3, <1>4

LEMMA RestartInv ==
  ASSUME IInv, NEW p \in Procs, Restart(p)
  PROVE  IInv'
<1> USE ProcAssumption, BoundAssumption DEF IInv, row, venue, sess, Restart, Release, NoView
<1>1. TypeOK'
  BY DEF TypeOK, Units, Ages, Statuses, VenueStates, View, Average, Unbooked, Never
<1>2. SoundInv'
  BY DEF TypeOK, SoundInv, Sound, View
<1>3. PrintsAreReal'
  BY DEF TypeOK, PrintsAreReal
<1>4. FilledIsComplete'
  BY DEF TypeOK, FilledIsComplete
<1> QED
  BY <1>1, <1>2, <1>3, <1>4

LEMMA UserCancelsInv ==
  ASSUME IInv, UserCancels
  PROVE  IInv'
<1> USE ProcAssumption, BoundAssumption DEF IInv, row, venue, sess, UserCancels, StillOpen, LiveStatuses
<1>1. TypeOK'
  BY DEF TypeOK, Units, Ages, Statuses, VenueStates, View, Average, Unbooked, Never
<1>2. SoundInv'
  BY DEF TypeOK, SoundInv, Sound, View
<1>3. PrintsAreReal'
  BY DEF TypeOK, PrintsAreReal
<1>4. FilledIsComplete'
  BY DEF TypeOK, FilledIsComplete
<1> QED
  BY <1>1, <1>2, <1>3, <1>4

LEMMA TickInv ==
  ASSUME IInv, Tick
  PROVE  IInv'
<1> USE ProcAssumption, BoundAssumption DEF IInv, row, venue, sess, Tick, Older
<1>1. TypeOK'
  BY DEF TypeOK, Units, Ages, Statuses, VenueStates, View, Average, Unbooked, Never
<1>2. SoundInv'
  BY DEF TypeOK, SoundInv, Sound, View
<1>3. PrintsAreReal'
  BY DEF TypeOK, PrintsAreReal
<1>4. FilledIsComplete'
  BY DEF TypeOK, FilledIsComplete
<1> QED
  BY <1>1, <1>2, <1>3, <1>4

LEMMA StepInv == IInv /\ [Next]_vars => IInv'
<1> SUFFICES ASSUME IInv, [Next]_vars PROVE IInv'
  OBVIOUS
<1>1. CASE Executes \/ Ends \/ FeedCatchesUp
  BY <1>1, ExecutesInv, EndsInv, FeedCatchesUpInv
<1>2. CASE \E p \in Procs : PollBegin(p) \/ PushBegin(p) \/ PollFetch(p)
                              \/ Commit(p) \/ Rollback(p) \/ Restart(p)
  BY <1>2, PollBeginInv, PushBeginInv, PollFetchInv, CommitInv, RollbackInv, RestartInv
<1>3. CASE UserCancels \/ Tick
  BY <1>3, UserCancelsInv, TickInv
<1>4. CASE UNCHANGED vars
  BY <1>4 DEF IInv, TypeOK, SoundInv, Sound, PrintsAreReal, FilledIsComplete, vars
<1> QED
  BY <1>1, <1>2, <1>3, <1>4 DEF Next

LEMMA Inductive == Spec => []IInv
BY InitInv, StepInv, PTL DEF Spec

\* Types: no clock leaves its range and no quantity exceeds the order's.
THEOREM AlpacaTypes == Spec => []TypeOK
<1>1. IInv => TypeOK
  BY DEF IInv
<1> QED
  BY <1>1, Inductive, PTL

\* PrintsAreReal for every number of executions and processes: _sync_order records no
\* execution twice, at a foreign price or before it happened, whichever of the poller,
\* the stream and a repeated update comes first.
THEOREM AlpacaBooksOnce == Spec => []PrintsAreReal
<1>1. IInv => PrintsAreReal
  BY DEF IInv
<1> QED
  BY <1>1, Inductive, PTL

\* FilledIsComplete for every grace period: an order shown FILLED keeps nothing back.
THEOREM AlpacaFilledComplete == Spec => []FilledIsComplete
<1>1. IInv => FilledIsComplete
  BY DEF IInv
<1> QED
  BY <1>1, Inductive, PTL
=============================================================================
