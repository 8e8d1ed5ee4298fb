---------------------------- MODULE TradeGates ----------------------------
(***************************************************************************)
(* What the decision services say about one symbol: the quant core's gates *)
(* (quant_engine.py), the why-not-trade constraints and the notification   *)
(* endpoints.  All are functions of one reading of the database; prices    *)
(* and volumes are left out but for the signals the decisions compare with *)
(* a threshold, which are whole per cents.                                 *)
(***************************************************************************)
EXTENDS Integers

Labels == {"BULL", "BEAR", "RANGE", "CRISIS", "RECOVERY"}

NoRegime == "none"      \* no RegimeState row yet

Reading ==
  [ticks    : Nat,                        \* ticks of the symbol that are read
   regime   : Labels \cup {NoRegime},     \* the latest RegimeState
   detected : Labels,                     \* what detect_regime_hmm makes of the ticks
   age      : Nat,                        \* seconds since the last tick
   clean    : BOOLEAN,                    \* the data quality score is 80 or more
   hunt     : 0..100,                     \* stop-hunt probability
   vacuum   : 0..100,                     \* liquidity vacuum
   absorbed : 0..100,                     \* institutional absorption
   opposed  : BOOLEAN,                    \* price and net flow go opposite ways
   clashes  : 0..3,                       \* conflicting momentum signals
   exposure : 0..100,                     \* of the equity
   held     : Nat,                        \* the user's open positions in the symbol
   halted   : BOOLEAN]                    \* the user's kill switch of the last 24 hours

-----------------------------------------------------------------------------
(* Regime detection.  The hidden states are ranked by mean return, best    *)
(* first; ten returns are needed for each.                                 *)

HmmLabels(n) ==
  LET ranked == <<"BULL", "RANGE", "BEAR", "CRISIS">>
  IN  {ranked[i] : i \in {k \in 1..4 : 10 * k < n}}

\* z < -3 is asked after z < -1.5: the fallback never says CRISIS.
FallbackLabels(n) == IF n < 5 THEN {"RANGE"} ELSE {"BULL", "BEAR", "RANGE"}

\* The model may be missing or fail to fit.
Detectable(n) == FallbackLabels(n) \cup (IF n < 30 THEN {} ELSE HmmLabels(n))

\* regime_scan appends what it makes of 30 to 500 ticks.
Scannable == UNION {Detectable(n) : n \in 30..500}

\* A reading the database can give.
Consistent(r) == r.detected \in Detectable(r.ticks) /\ r.regime \in Scannable \cup {NoRegime}

-----------------------------------------------------------------------------
(* Order flow.                                                             *)

HuntSeen(r) == IF r.ticks < 10 THEN 15 ELSE r.hunt

OfiSignal(r) ==
  IF r.ticks = 0 THEN "ALLOW"
  ELSE IF HuntSeen(r) > 65 \/ r.vacuum > 70 THEN "BLOCK"
  ELSE IF HuntSeen(r) > 40 \/ r.opposed THEN "CAUTION" ELSE "ALLOW"

ConflictLevel(r) ==
  IF r.ticks < 30 THEN "NONE" ELSE <<"NONE", "LOW", "MEDIUM", "HIGH">>[r.clashes + 1]

-----------------------------------------------------------------------------
(* build_quant_core_gates.  Data quality and volatility are reported and   *)
(* do not decide.                                                          *)

RegimeUsed(r) == IF r.regime = NoRegime THEN r.detected ELSE r.regime

RegimeGate(r)   == RegimeUsed(r) # "CRISIS"
OfiGate(r)      == OfiSignal(r) # "BLOCK"
ConflictGate(r) == ConflictLevel(r) # "HIGH"
RiskGate(r)     == r.exposure < 80

\* Mutation of QuantDecision: order flow is asked before the regime.
FlowFirst(r) ==
  IF ~ OfiGate(r) THEN "WAIT"
  ELSE IF ~ RegimeGate(r) THEN "BLOCK"
  ELSE IF ~ ConflictGate(r) \/ ~ RiskGate(r) THEN "REDUCE" ELSE "ALLOW"

QuantDecision(r) ==
  IF ~ RegimeGate(r) THEN "BLOCK"
  ELSE IF ~ OfiGate(r) THEN "WAIT"
  ELSE IF ~ ConflictGate(r) \/ ~ RiskGate(r) THEN "REDUCE" ELSE "ALLOW"

\* The size optimiser, but for the factor of the volatility.  Order flow takes parts
\* of 2000 off the size or adds some.
RegimeMult ==
  [BULL |-> 100, BEAR |-> 60, RANGE |-> 80, CRISIS |-> 30, RECOVERY |-> 70]

FlowModifier(r) ==
  IF r.ticks = 0 THEN 0
  ELSE 6 * (r.absorbed - 50) - 4 * r.vacuum - 6 * HuntSeen(r) - (IF r.opposed THEN 225 ELSE 45)

AtLeast(a, b) == IF a >= b THEN a ELSE b

FinalSize(r) ==
  AtLeast(1, 100 - r.exposure) * RegimeMult[RegimeUsed(r)] * AtLeast(800, 2000 + FlowModifier(r))

-----------------------------------------------------------------------------
(* compute_why_not_trade: what each constraint takes off the size, in per  *)
(* cent.  (C5 asks the live book, which is always empty: `asyncio' is      *)
(* redis.asyncio there, and the gather that would fetch it raises.)        *)

RegimeImpact(r) == IF r.regime = "BEAR" THEN 40 ELSE IF r.regime = "RANGE" THEN 20 ELSE 0

QualityImpact(r) == IF r.ticks > 0 /\ ~ r.clean THEN 20 ELSE 0

FeedDown(r)        == r.ticks > 0 /\ r.age > 30
StalenessImpact(r) == IF r.ticks > 0 /\ r.age \in 3..30 THEN 15 ELSE 0

FlowImpact(r) ==
  IF r.ticks < 10 THEN 0
  ELSE (IF r.hunt > 50 THEN 25 ELSE 0) + (IF r.vacuum > 60 THEN 15 ELSE 0)

ConcentrationImpact(r) == IF r.held >= 2 THEN 10 ELSE 0

SizeImpact(r) ==
  RegimeImpact(r) + QualityImpact(r) + StalenessImpact(r) + FlowImpact(r)
    + ConcentrationImpact(r)

\* A size that the constraints together bring to nothing blocks as well.
WhyNotDecision(r) ==
  IF r.regime = "CRISIS" \/ FeedDown(r) \/ r.halted \/ SizeImpact(r) >= 100
  THEN "BLOCK" ELSE "ALLOW"

-----------------------------------------------------------------------------
(* The notification stream and the polled snapshot.                        *)

RegimeShown(r) == IF r.regime = NoRegime THEN "RANGE" ELSE r.regime

NotifyDecision(r) ==
  IF RegimeShown(r) = "CRISIS" THEN "BLOCK"
  ELSE IF RegimeShown(r) = "BEAR" \/ (r.ticks >= 10 /\ r.hunt > 65) THEN "WAIT" ELSE "ALLOW"

LatestDecision(r) ==
  IF RegimeShown(r) = "CRISIS" \/ r.ticks = 0 \/ r.age > 30 THEN "BLOCK"
  ELSE IF RegimeShown(r) \in {"BEAR", "RANGE"} \/ r.age > 2 THEN "WARN" ELSE "ALLOW"

-----------------------------------------------------------------------------
(* Worse conditions: signals of a reading move towards trouble, whichever  *)
(* and however many, and the amount of data stays the same.                *)

AtLeastAsBad(w, r) ==
  /\ w.ticks = r.ticks /\ w.detected = r.detected /\ w.absorbed <= r.absorbed
  /\ w.regime \in {r.regime, "CRISIS"}
  /\ w.age >= r.age /\ w.hunt >= r.hunt /\ w.vacuum >= r.vacuum
  /\ w.clashes >= r.clashes /\ w.exposure >= r.exposure /\ w.held >= r.held
  /\ (w.clean => r.clean) /\ (r.opposed => w.opposed) /\ (r.halted => w.halted)

\* Readings that differ in one signal or two, on both sides of the thresholds.
Nearby(r) ==
  {[r EXCEPT !.regime = g, !.age = a] : g \in {r.regime, "CRISIS"}, a \in {r.age, 10, 60}}
    \cup {[r EXCEPT !.hunt = h, !.vacuum = v] : h \in {r.hunt, 60, 70}, v \in {r.vacuum, 75}}
    \cup {[r EXCEPT !.clashes = c, !.exposure = e] : c \in {r.clashes, 3}, e \in {r.exposure, 90}}
    \cup {[r EXCEPT !.held = 2], [r EXCEPT !.absorbed = 30], [r EXCEPT !.clean = FALSE],
          [r EXCEPT !.opposed = TRUE], [r EXCEPT !.halted = TRUE]}

Worsened(r) == {w \in Nearby(r) : w \in Reading /\ AtLeastAsBad(w, r)}

\* Decision d is at least as strict as e.
NotMilder(d, e) == d = e \/ d = "BLOCK" \/ e = "ALLOW" \/ (d = "WAIT" /\ e = "REDUCE")
=============================================================================
