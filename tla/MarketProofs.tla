---------------------------- MODULE MarketProofs ----------------------------
(***************************************************************************)
(* From the tick to the advice: proofs about TradeGates, IntelligenceFeed  *)
(* and NotificationStream, for any symbols, keys, readings, services and   *)
(* number of concurrent tasks (the decisions are monotone, a snapshot is   *)
(* about a symbol of its own key, a page is told the truth), and about     *)
(* MarketPipeline, for any number of ticks, minutes, batch size and        *)
(* restarts: a tick is in one candle, of its own minute, as what is under  *)
(* construction was seen by the one pipeline and is in one place           *)
(* (BuildInv), and has one row as one consumer holds it (RowsInv).         *)
(***************************************************************************)
EXTENDS NotificationStream, MarketPipeline, TLAPS

LEMMA QuantMonotone ==
  ASSUME NEW r \in Reading, NEW w \in Reading, AtLeastAsBad(w, r)
  PROVE  NotMilder(QuantDecision(w), QuantDecision(r))
<1>1. RegimeGate(w) => RegimeGate(r)
  BY DEF AtLeastAsBad, Reading, RegimeGate, RegimeUsed, Labels, NoRegime
<1>2. OfiGate(w) => OfiGate(r)
  BY DEF AtLeastAsBad, Reading, OfiGate, OfiSignal, HuntSeen
<1>3. ConflictGate(w) => ConflictGate(r)
  <2>1. r.clashes \in 0..3 /\ w.clashes \in 0..3 /\ w.clashes >= r.clashes /\ w.ticks = r.ticks
    BY DEF AtLeastAsBad, Reading
  <2> QED
    BY <2>1 DEF ConflictGate, ConflictLevel
<1>4. RiskGate(w) => RiskGate(r)
  BY DEF AtLeastAsBad, Reading, RiskGate
<1> QED
  BY <1>1, <1>2, <1>3, <1>4 DEF QuantDecision, NotMilder

LEMMA WhyNotMonotone ==
  ASSUME NEW r \in Reading, NEW w \in Reading, AtLeastAsBad(w, r)
  PROVE  NotMilder(WhyNotDecision(w), WhyNotDecision(r))
<1>1. SUFFICES ASSUME WhyNotDecision(w) # "BLOCK" PROVE WhyNotDecision(r) # "BLOCK"
  BY DEF WhyNotDecision, NotMilder
<1>2. /\ r.age \in Nat /\ w.age \in Nat /\ r.age <= w.age
      /\ r.hunt \in Nat /\ w.hunt \in Nat /\ r.hunt <= w.hunt
      /\ r.vacuum \in Nat /\ w.vacuum \in Nat /\ r.vacuum <= w.vacuum
      /\ r.held \in Nat /\ w.held \in Nat /\ r.held <= w.held
      /\ r.ticks \in Nat /\ w.ticks = r.ticks
      /\ w.regime \in {r.regime, "CRISIS"}
      /\ (w.clean => r.clean) /\ (r.halted => w.halted)
  BY DEF Reading, AtLeastAsBad
<1>3. w.regime = r.regime /\ r.regime # "CRISIS" /\ ~ FeedDown(w) /\ ~ w.halted /\ ~ SizeImpact(w) >= 100
  BY <1>1, <1>2 DEF WhyNotDecision
<1>4. ~ FeedDown(r) /\ StalenessImpact(r) \in Nat /\ StalenessImpact(w) \in Nat /\ StalenessImpact(r) <= StalenessImpact(w)
  BY <1>2, <1>3 DEF FeedDown, StalenessImpact
<1>5. RegimeImpact(r) \in Nat /\ RegimeImpact(r) = RegimeImpact(w)
  BY <1>3 DEF RegimeImpact
<1>6. QualityImpact(r) \in Nat /\ QualityImpact(w) \in Nat /\ QualityImpact(r) <= QualityImpact(w)
  BY <1>2 DEF QualityImpact
<1>7. FlowImpact(r) \in Nat /\ FlowImpact(w) \in Nat /\ FlowImpact(r) <= FlowImpact(w)
  BY <1>2 DEF FlowImpact
<1>8. ConcentrationImpact(r) \in Nat /\ ConcentrationImpact(w) \in Nat /\ ConcentrationImpact(r) <= ConcentrationImpact(w)
  BY <1>2 DEF ConcentrationImpact
<1>9. ~ SizeImpact(r) >= 100
  BY <1>3, <1>4, <1>5, <1>6, <1>7, <1>8 DEF SizeImpact
<1> QED
  BY <1>2, <1>3, <1>4, <1>9 DEF WhyNotDecision

LEMMA ShownMonotone ==
  ASSUME NEW r \in Reading, NEW w \in Reading, AtLeastAsBad(w, r)
  PROVE  /\ NotMilder(NotifyDecision(w), NotifyDecision(r))
         /\ NotMilder(LatestDecision(w), LatestDecision(r))
<1>1. /\ r.age \in Nat /\ w.age \in Nat /\ r.age <= w.age
      /\ r.hunt \in Nat /\ w.hunt \in Nat /\ r.hunt <= w.hunt
      /\ r.ticks \in Nat /\ w.ticks = r.ticks
  BY DEF Reading, AtLeastAsBad
<1>2. RegimeShown(w) \in {RegimeShown(r), "CRISIS"}
  BY DEF AtLeastAsBad, RegimeShown, NoRegime
<1>3. NotMilder(NotifyDecision(w), NotifyDecision(r))
  BY <1>1, <1>2 DEF NotifyDecision, NotMilder
<1>4. NotMilder(LatestDecision(w), LatestDecision(r))
  BY <1>1, <1>2 DEF LatestDecision, NotMilder
<1> QED
  BY <1>3, <1>4

LEMMA ProductsGrow ==
  ASSUME NEW a \in Nat, NEW b \in Nat, NEW c \in Nat, NEW d \in Nat, a <= c, b <= d
  PROVE  a * b \in Nat /\ c * d \in Nat /\ a * b <= c * d
<1>1. PICK e \in Nat : c = a + e
  <2>1. c - a \in Nat /\ c = a + (c - a)
    OBVIOUS
  <2> QED
    BY <2>1
<1>2. PICK f \in Nat : d = b + f
  <2>1. d - b \in Nat /\ d = b + (d - b)
    OBVIOUS
  <2> QED
    BY <2>1
<1>3. a * b \in Nat /\ a * f \in Nat /\ e * b \in Nat /\ e * f \in Nat
  OBVIOUS
<1>4. c * d = a * b + a * f + e * b + e * f
  BY <1>1, <1>2
<1> QED
  BY <1>3, <1>4

\* The size shrinks: each of the three factors does.
LEMMA SizeMonotone ==
  ASSUME NEW r \in Reading, NEW w \in Reading, AtLeastAsBad(w, r)
  PROVE  FinalSize(w) <= FinalSize(r)
<1> DEFINE Base(x) == AtLeast(1, 100 - x.exposure)
           Mult(x) == RegimeMult[RegimeUsed(x)]
           Flow(x) == AtLeast(800, 2000 + FlowModifier(x))
<1>1. Base(w) \in Nat /\ Base(r) \in Nat /\ Base(w) <= Base(r)
  BY DEF AtLeastAsBad, Reading, AtLeast
<1>2. Mult(w) \in Nat /\ Mult(r) \in Nat /\ Mult(w) <= Mult(r)
  <2>1. RegimeUsed(r) \in Labels /\ RegimeUsed(w) \in {RegimeUsed(r), "CRISIS"}
    BY DEF AtLeastAsBad, Reading, RegimeUsed, NoRegime, Labels
  <2>2. \A g \in Labels : RegimeMult[g] \in Nat /\ RegimeMult["CRISIS"] <= RegimeMult[g]
    BY DEF Labels, RegimeMult
  <2> QED
    BY <2>1, <2>2 DEF Labels
<1>3. Flow(w) \in Nat /\ Flow(r) \in Nat /\ Flow(w) <= Flow(r)
  <2>1. /\ HuntSeen(w) \in Int /\ HuntSeen(r) \in Int /\ HuntSeen(w) >= HuntSeen(r)
        /\ w.vacuum \in Int /\ r.vacuum \in Int /\ w.vacuum >= r.vacuum
        /\ w.absorbed \in Int /\ r.absorbed \in Int /\ w.absorbed <= r.absorbed
        /\ w.ticks = r.ticks /\ (r.opposed => w.opposed)
    BY DEF AtLeastAsBad, Reading, HuntSeen
  <2>2. FlowModifier(w) \in Int /\ FlowModifier(r) \in Int /\ FlowModifier(w) <= FlowModifier(r)
    BY <2>1 DEF FlowModifier
  <2> QED
    BY <2>2 DEF AtLeast
<1> HIDE DEF Base, Mult, Flow
<1>4. Base(w) * Mult(w) \in Nat /\ Base(r) * Mult(r) \in Nat /\ Base(w) * Mult(w) <= Base(r) * Mult(r)
  BY <1>1, <1>2, ProductsGrow
<1>5. (Base(w) * Mult(w)) * Flow(w) <= (Base(r) * Mult(r)) * Flow(r)
  BY <1>3, <1>4, ProductsGrow
<1> QED
  BY <1>5 DEF FinalSize, Base, Mult, Flow

-----------------------------------------------------------------------------
\* What the steps of the feed leave alone.
LEMMA FeedStep ==
  ASSUME FeedNext
  PROVE  /\ (\E s \in Symbols : MarketMoves(s)) \/ UNCHANGED mkt
         /\ \/ \E s \in Symbols : File(s)
            \/ \E k \in 1..N, key \in Keys : Expire(k, key)
            \/ UNCHANGED cache
BY DEF FeedNext, MarketMoves, SetActive, Task, TaskReturns, Compute, Start, Shutdown,
       Exit, Crash, Gone, RefreshSymbols, CycleBegin, CycleEnd, File, Expire

\* The invariant behind the monotony: what the database says is a reading.
ReadingsOK == DOMAIN mkt = Symbols /\ \A s \in Symbols : mkt[s] \in Reading

LEMMA ReadingsStay == Spec => []ReadingsOK
<1>1. Init => ReadingsOK
  BY ReadingAssumption DEF Init, FeedInit, ReadingsOK
<1>2. ReadingsOK /\ [Next]_vars => ReadingsOK'
  <2> SUFFICES ASSUME ReadingsOK, [Next]_vars PROVE ReadingsOK'
    OBVIOUS
  <2>1. CASE \E s \in Symbols : MarketMoves(s)
    BY <2>1, ReadingAssumption DEF MarketMoves, ReadingsOK
  <2>2. CASE UNCHANGED mkt
    BY <2>2 DEF ReadingsOK
  <2>3. (\E s \in Symbols : MarketMoves(s)) \/ UNCHANGED mkt
    BY FeedStep DEF Next, vars, Poll, Reconnect, feedVars
  <2> QED
    BY <2>1, <2>2, <2>3
<1> QED
  BY <1>1, <1>2, PTL DEF Spec

\* Worse conditions never loosen a decision, whatever the readings: no service
\* answers a turn for the worse with a milder verdict or a larger size (the gates, the
\* why-not-trade constraints and the two notification endpoints).
THEOREM GatesAreMonotone == Spec => []WorseNeverLooser
<1>1. ReadingsOK => WorseNeverLooser
  <2> SUFFICES ASSUME ReadingsOK, NEW s \in Symbols, NEW w \in Worsened(mkt[s])
               PROVE  /\ NotMilder(QuantDecision(w), QuantDecision(mkt[s]))
                      /\ NotMilder(WhyNotDecision(w), WhyNotDecision(mkt[s]))
                      /\ NotMilder(NotifyDecision(w), NotifyDecision(mkt[s]))
                      /\ NotMilder(LatestDecision(w), LatestDecision(mkt[s]))
                      /\ FinalSize(w) <= FinalSize(mkt[s])
    BY DEF WorseNeverLooser
  <2>1. mkt[s] \in Reading /\ w \in Reading /\ AtLeastAsBad(w, mkt[s])
    BY DEF ReadingsOK, Worsened
  <2> QED
    BY <2>1, QuantMonotone, WhyNotMonotone, ShownMonotone, SizeMonotone
<1> QED
  BY <1>1, ReadingsStay, PTL

-----------------------------------------------------------------------------
\* What a task carries: one result per kind it has computed and not yet filed, each
\* about its own symbol or about none.
Own(s) == [of : {NoOne, s}, says : {"ALLOW", "REDUCE", "WAIT", "BLOCK"}]

Due(at) == IF at = 0 THEN 0 ELSE IF at <= N THEN at - 1 ELSE 2 * N + 1 - at

Carries(t, s) ==
  /\ t = [at |-> t.at, got |-> t.got]
  /\ t.at \in 0 .. 2 * N
  /\ t.got \in Seq(Own(s)) /\ Len(t.got) = Due(t.at)

TasksCarryOwn == DOMAIN task = Symbols /\ \A s \in Symbols : Carries(task[s], s)

\* What is filed is about a symbol of the key, or about none.
Home(key) == {NoOne} \cup {s \in Symbols : KeyOf[s] = key}

CacheAtHome ==
  /\ DOMAIN cache = 1..N
  /\ \A k \in 1..N : DOMAIN cache[k] = Keys /\ \A key \in Keys : cache[k][key].of \in Home(key)

LEMMA KindsNat == N \in Nat /\ N > 0
  BY KindAssumption DEF N

LEMMA NoTaskCarries == ASSUME NEW s \in Symbols PROVE Carries(NoTask, s)
  BY KindsNat DEF Carries, NoTask, Due

\* compute_*: the result is about the symbol the task passes on, or an error.
LEMMA ComputeCarries ==
  ASSUME TasksCarryOwn, NEW s \in Symbols, Compute(s)
  PROVE  TasksCarryOwn'
<1> DEFINE k == task[s].at
<1>1. Carries(task[s], s)
  BY DEF TasksCarryOwn
<1>2. PICK p \in {Computed(k, Subject(s)), Failed(k)} :
        task' = [task EXCEPT ![s] = [at |-> k + 1, got |-> Append(@.got, p)]]
  BY DEF Compute
<1>3. p \in Own(s)
  BY <1>2 DEF Computed, Failed, Subject, Own, Verdict, WhyNotDecision, QuantDecision
<1>4. k \in 1..N /\ task[s].got \in Seq(Own(s)) /\ Len(task[s].got) = k - 1
  BY <1>1, KindsNat DEF Carries, Due, Compute
<1>5. Append(task[s].got, p) \in Seq(Own(s)) /\ Len(Append(task[s].got, p)) = k
  BY <1>3, <1>4
<1>6. Carries([at |-> k + 1, got |-> Append(task[s].got, p)], s)
  BY <1>4, <1>5, KindsNat DEF Carries, Due
<1>7. task'[s] = [at |-> k + 1, got |-> Append(task[s].got, p)]
  BY <1>2 DEF TasksCarryOwn
<1>8. DOMAIN task' = Symbols /\ \A x \in Symbols \ {s} : task'[x] = task[x]
  BY <1>2 DEF TasksCarryOwn
<1> QED
  BY <1>6, <1>7, <1>8 DEF TasksCarryOwn

\* The pipeline of SETEX: the oldest result goes under the symbol's own key.
LEMMA FileCarries ==
  ASSUME TasksCarryOwn, CacheAtHome, NEW s \in Symbols, File(s)
  PROVE  TasksCarryOwn' /\ CacheAtHome'
<1> DEFINE k == task[s].at - N
<1>1. Carries(task[s], s)
  BY DEF TasksCarryOwn
<1>2. k \in 1..N /\ task[s].at = k + N
  BY <1>1, KindsNat DEF File, Carries
<1>3. task[s].got \in Seq(Own(s)) /\ Len(task[s].got) = N + 1 - k
  BY <1>1, <1>2, KindsNat DEF Carries, Due
<1>4. Head(task[s].got) \in Own(s) /\ Tail(task[s].got) \in Seq(Own(s))
        /\ Len(Tail(task[s].got)) = N - k
  <2> DEFINE g == task[s].got
             T == Own(s)
  <2>1. g \in Seq(T) /\ Len(g) = N + 1 - k /\ Len(g) > 0 /\ k \in Nat
    BY <1>2, <1>3, KindsNat
  <2> HIDE DEF g, T, k
  <2>2. g # <<>>
    BY <2>1
  <2>3. Head(g) \in T /\ Tail(g) \in Seq(T) /\ Len(Tail(g)) = Len(g) - 1
    BY <2>1, <2>2
  <2>4. Len(Tail(g)) = N - k
    BY <2>1, <2>3, KindsNat
  <2> QED
    BY <2>3, <2>4 DEF g, T
<1>5. TasksCarryOwn'
  <2>1. DOMAIN task' = Symbols /\ \A x \in Symbols \ {s} : task'[x] = task[x]
    BY DEF File, TasksCarryOwn
  <2>2. CASE k = N
    BY <2>1, <2>2, NoTaskCarries DEF File, TasksCarryOwn
  <2>3. CASE k # N
    <3>1. task'[s] = [at |-> task[s].at + 1, got |-> Tail(task[s].got)]
      BY <2>3 DEF File, TasksCarryOwn
    <3>2. Carries([at |-> task[s].at + 1, got |-> Tail(task[s].got)], s)
      BY <1>2, <1>4, <2>3, KindsNat DEF Carries, Due
    <3> QED
      BY <2>1, <3>1, <3>2 DEF TasksCarryOwn
  <2> QED
    BY <2>2, <2>3
<1>6. CacheAtHome'
  <2>1. cache' = [cache EXCEPT ![k][KeyOf[s]] = Head(task[s].got)]
    BY DEF File
  <2>2. Head(task[s].got).of \in Home(KeyOf[s])
    BY <1>4 DEF Own, Home
  <2> QED
    BY <1>2, <2>1, <2>2 DEF CacheAtHome, Home
<1> QED
  BY <1>5, <1>6

\* "these results are cached under this symbol's key": whatever tasks run side by
\* side and wherever they die, a snapshot is about a symbol of its own key.
THEOREM SnapshotsAtHome == Spec => []FiledUnderOwnSymbol
<1>1. Init => TasksCarryOwn /\ CacheAtHome
  BY NoTaskCarries DEF Init, FeedInit, TasksCarryOwn, CacheAtHome, Home, None
<1>2. TasksCarryOwn /\ CacheAtHome /\ [Next]_vars => TasksCarryOwn' /\ CacheAtHome'
  <2> SUFFICES ASSUME TasksCarryOwn, CacheAtHome, [Next]_vars
               PROVE  TasksCarryOwn' /\ CacheAtHome'
    OBVIOUS
  <2>1. CASE \E s \in Symbols : File(s)
    BY <2>1, FileCarries
  <2>2. CASE \E s \in Symbols : Compute(s)
    <3>1. UNCHANGED cache
      BY <2>2 DEF Compute
    <3> QED
      BY <2>2, <3>1, ComputeCarries DEF CacheAtHome
  <2>3. CASE \E k \in 1..N, key \in Keys : Expire(k, key)
    <3>1. PICK k \in 1..N, key \in Keys : Expire(k, key)
      BY <2>3
    <3>2. cache' = [cache EXCEPT ![k][key] = None] /\ UNCHANGED task
      BY <3>1 DEF Expire
    <3> QED
      BY <3>2 DEF CacheAtHome, TasksCarryOwn, Home, None
  <2>4. CASE /\ UNCHANGED cache
             /\ \/ UNCHANGED task
                \/ \E s \in Symbols : task' = [task EXCEPT ![s] = NoTask]
                \/ task' = [s \in Symbols |-> NoTask]
                \/ task' = [s \in Symbols |-> IF s \in listed THEN [at |-> 1, got |-> <<>>] ELSE NoTask]
    <3>1. ASSUME NEW s \in Symbols PROVE Carries([at |-> 1, got |-> <<>>], s)
      BY KindsNat DEF Carries, Due
    <3> QED
      BY <2>4, <3>1, NoTaskCarries DEF TasksCarryOwn, CacheAtHome
  <2> QED
    BY <2>1, <2>2, <2>3, <2>4
       DEF Next, vars, FeedNext, feedVars, Poll, Reconnect, MarketMoves, SetActive, Task,
           TaskReturns, Start, Shutdown, Exit, Crash, Gone, RefreshSymbols, CycleBegin, CycleEnd
<1>3. CacheAtHome => FiledUnderOwnSymbol
  BY DEF CacheAtHome, FiledUnderOwnSymbol, Home
<1> QED
  BY <1>1, <1>2, <1>3, PTL DEF Spec

-----------------------------------------------------------------------------
\* A page that was told something has a decision to compare with.
Remembers ==
  /\ DOMAIN prev = Symbols /\ DOMAIN heard = Symbols
  /\ \A s \in Symbols :
       /\ prev[s] \in {"unseen", "ALLOW", "WAIT", "BLOCK"}
       /\ prev[s] = "unseen" => heard[s] = "nothing"

\* Through whatever states a symbol goes, a page is not left told "blocked" of one it
\* knows to be clear, nor "cleared" of one it knows to be blocked.
THEOREM PagesAreToldTheTruth == Spec => []PageToldTheTruth
<1> DEFINE Inv == Remembers /\ PageToldTheTruth
<1>1. Init => Inv
  BY DEF Init, StreamInit, Unseen, Untold, Remembers, PageToldTheTruth
<1>2. Inv /\ [Next]_vars => Inv'
  <2> SUFFICES ASSUME Inv, [Next]_vars PROVE Inv'
    OBVIOUS
  <2>1. ASSUME NEW s \in Symbols, Poll(s) PROVE Inv'
    <3>1. NotifyDecision(mkt[s]) \in {"BLOCK", "WAIT", "ALLOW"}
      BY DEF NotifyDecision
    <3> QED
      BY <2>1, <3>1 DEF Poll, Event, Remembers, PageToldTheTruth
  <2>2. CASE Reconnect
    BY <2>2 DEF Reconnect, Unseen, Untold, Remembers, PageToldTheTruth
  <2>3. CASE UNCHANGED streamVars
    BY <2>3 DEF streamVars, Remembers, PageToldTheTruth
  <2> QED
    BY <2>1, <2>2, <2>3 DEF Next, vars, streamVars
<1> QED
  BY <1>1, <1>2, PTL DEF Spec

-----------------------------------------------------------------------------
(* The inductive invariant of the market pipeline.                         *)

Buffer == [at : {"waiting", "flushing"}, candles : [Minutes -> Seq(Seq(Nat))],
           ticks : Seq(Nat), count : Nat, todo : SUBSET Parts]

PipelineTypes ==
  /\ now \in Minutes /\ minute \in Seq(Minutes) /\ Len(minute) <= MaxTicks
  /\ db_tick_buffer \in Seq(Ticks) /\ topic \in Seq(Ticks)
  /\ seen \subseteq Ticks
  /\ buckets \in [Minutes -> Seq(Nat)]
  /\ consumer \in [Consumers -> Buffer]
  /\ restarts \in Nat
  /\ candles_1m \in [Minutes -> Seq(Nat)]
  /\ market_ticks \in [1..MaxTicks -> Nat]

\* A consumer flushes as long as a part is to do; its batch is full at most.
BatchInv ==
  \A c \in Consumers : /\ (consumer[c].at = "flushing") <=> (consumer[c].todo # {})
                       /\ consumer[c].count <= Batch
                       /\ consumer[c].at = "waiting" => consumer[c].count < Batch
                       /\ ToSet(consumer[c].ticks) \subseteq Ticks

\* Candles of one minute, a sequence of sequences of ticks: with ticks of S only; no
\* tick twice; no tick in common.
Within(p, S)   == \A k \in DOMAIN p : \A i \in DOMAIN p[k] : p[k][i] \in S
Distinct(p)    == \A k, l \in DOMAIN p : \A i \in DOMAIN p[k], j \in DOMAIN p[l] :
                    p[k][i] = p[l][j] => k = l /\ i = j
Disjoint(p, q) == \A k \in DOMAIN p, l \in DOMAIN q : \A i \in DOMAIN p[k], j \in DOMAIN q[l] :
                    p[k][i] # q[l][j]

\* The ticks of a minute that passed the check since the process started.
SeenOf(m) == {t \in seen : minute[t] = m}

\* What is under construction was seen and is in one place, in its own minute.
BuildInv ==
  \A m \in Minutes :
    /\ \A b \in Builders : /\ Within(UnderConstruction(b, m), SeenOf(m))
                           /\ Distinct(UnderConstruction(b, m))
    /\ \A b, c \in Builders :
         b # c => Disjoint(UnderConstruction(b, m), UnderConstruction(c, m))

\* A candle: no tick twice, all of one minute.
IsCandle(ticks, m) ==
  IsInjective(ticks) /\ \A t \in ToSet(ticks) : t \in Ticks /\ minute[t] = m

StoredInv == \A m \in Minutes : IsCandle(candles_1m[m], m)

\* The consumer has still to write the ticks it holds.
Unwritten(c) == consumer[c].at = "waiting" \/ "ticks" \in consumer[c].todo

\* Up to the first end of the process: a tick that has a row or is held was seen, one
\* consumer holds it, and it has at most one row, none before its holder writes it.
RowsInv ==
  /\ \A t \in 1..MaxTicks : market_ticks[t] <= 1 /\ (market_ticks[t] > 0 => t \in seen)
  /\ \A c \in Consumers : \A t \in ToSet(consumer[c].ticks) :
       t \in seen /\ (Unwritten(c) => market_ticks[t] = 0)
  /\ \A c, d \in Consumers :
       c # d => \A t \in ToSet(consumer[c].ticks) : t \notin ToSet(consumer[d].ticks)

PipelineInv ==
  /\ PipelineTypes /\ BatchInv /\ BuildInv /\ StoredInv
  /\ restarts = 0 => RowsInv

-----------------------------------------------------------------------------
(* Sequences that grow, and candles that have no tick in common.           *)

LEMMA OneMore ==
  ASSUME NEW S, NEW s \in Seq(S), NEW e \in S
  PROVE  /\ Append(s, e) \in Seq(S) /\ Len(s) \in Nat /\ DOMAIN s = 1..Len(s)
         /\ DOMAIN Append(s, e) = DOMAIN s \cup {Len(s) + 1} /\ Len(s) + 1 \notin DOMAIN s
         /\ \A i \in DOMAIN s : Append(s, e)[i] = s[i]
         /\ Append(s, e)[Len(s) + 1] = e
         /\ ToSet(Append(s, e)) = ToSet(s) \cup {e}
<1>1. /\ Append(s, e) \in Seq(S) /\ Len(s) \in Nat
      /\ DOMAIN s = 1..Len(s) /\ DOMAIN Append(s, e) = 1..(Len(s) + 1)
      /\ \A i \in DOMAIN s : Append(s, e)[i] = s[i]
      /\ Append(s, e)[Len(s) + 1] = e
  OBVIOUS
<1>2. DOMAIN Append(s, e) = DOMAIN s \cup {Len(s) + 1} /\ Len(s) + 1 \notin DOMAIN s
  BY <1>1
<1>3. ToSet(Append(s, e)) = ToSet(s) \cup {e}
  BY <1>1, <1>2 DEF ToSet
<1> QED
  BY <1>1, <1>2, <1>3

LEMMA SetGrows ==
  ASSUME NEW s \in Seq(Nat), NEW e \in Nat PROVE ToSet(Append(s, e)) = ToSet(s) \cup {e}
BY OneMore

\* A candle that is completed joins the others of its minute.
LEMMA JoinedBy ==
  ASSUME NEW p \in Seq(Seq(Nat)), NEW s \in Seq(Nat)
  PROVE  /\ p \o <<s>> \in Seq(Seq(Nat))
         /\ DOMAIN (p \o <<s>>) = DOMAIN p \cup {Len(p) + 1} /\ Len(p) + 1 \notin DOMAIN p
         /\ \A k \in DOMAIN p : (p \o <<s>>)[k] = p[k]
         /\ (p \o <<s>>)[Len(p) + 1] = s
         /\ p \o <<>> = p
OBVIOUS

LEMMA SingleIs ==
  ASSUME NEW s PROVE DOMAIN <<s>> = {1} /\ <<s>>[1] = s
OBVIOUS

LEMMA DisjointBack ==
  ASSUME NEW p, NEW q, Disjoint(p, q) PROVE Disjoint(q, p)
BY DEF Disjoint

LEMMA JoinedApart ==
  ASSUME NEW p \in Seq(Seq(Nat)), NEW s \in Seq(Nat), NEW q \in Seq(Seq(Nat)), NEW S
  PROVE  /\ Within(p, S) /\ Within(<<s>>, S) => Within(p \o <<s>>, S)
         /\ Distinct(p) /\ Distinct(<<s>>) /\ Disjoint(p, <<s>>) => Distinct(p \o <<s>>)
         /\ Disjoint(p, q) /\ Disjoint(<<s>>, q) => Disjoint(p \o <<s>>, q)
         /\ Disjoint(q, p) /\ Disjoint(q, <<s>>) => Disjoint(q, p \o <<s>>)
<1> DEFINE r == p \o <<s>>
<1>1. /\ DOMAIN r = DOMAIN p \cup {Len(p) + 1} /\ Len(p) + 1 \notin DOMAIN p
      /\ \A k \in DOMAIN p : r[k] = p[k]
      /\ r[Len(p) + 1] = s
  BY JoinedBy
<1>2. DOMAIN <<s>> = {1} /\ <<s>>[1] = s
  BY SingleIs
<1> HIDE DEF r
<1>3. ASSUME Within(p, S), Within(<<s>>, S) PROVE Within(r, S)
  BY <1>1, <1>2, <1>3 DEF Within
<1>4. ASSUME Distinct(p), Distinct(<<s>>), Disjoint(p, <<s>>) PROVE Distinct(r)
  <2>1. \A i, j \in DOMAIN s : s[i] = s[j] => i = j
    BY <1>2, <1>4 DEF Distinct
  <2>2. \A k \in DOMAIN p : \A i \in DOMAIN p[k], j \in DOMAIN s : p[k][i] # s[j]
    BY <1>2, <1>4 DEF Disjoint
  <2> QED
    BY <1>1, <1>4, <2>1, <2>2 DEF Distinct
<1>5. ASSUME Disjoint(q, p), Disjoint(q, <<s>>) PROVE Disjoint(q, r)
  BY <1>1, <1>2, <1>5 DEF Disjoint
<1>6. ASSUME Disjoint(p, q), Disjoint(<<s>>, q) PROVE Disjoint(r, q)
  BY <1>5, <1>6, DisjointBack
<1> QED
  BY <1>3, <1>4, <1>5, <1>6 DEF r

\* A tick joins the open candle.
LEMMA GrownApart ==
  ASSUME NEW s \in Seq(Nat), NEW t \in Nat, NEW q \in Seq(Seq(Nat)), NEW S, t \notin S
  PROVE  /\ Within(<<s>>, S) => Within(<<Append(s, t)>>, S \cup {t})
         /\ Within(<<s>>, S) /\ Distinct(<<s>>) => Distinct(<<Append(s, t)>>)
         /\ Within(q, S) /\ Disjoint(<<s>>, q) => Disjoint(<<Append(s, t)>>, q)
         /\ Within(q, S) /\ Disjoint(q, <<s>>) => Disjoint(q, <<Append(s, t)>>)
<1> DEFINE r == Append(s, t)
<1>1. /\ DOMAIN r = DOMAIN s \cup {Len(s) + 1} /\ Len(s) + 1 \notin DOMAIN s
      /\ \A i \in DOMAIN s : r[i] = s[i]
      /\ r[Len(s) + 1] = t
  BY OneMore
<1>2. DOMAIN <<s>> = {1} /\ <<s>>[1] = s /\ DOMAIN <<r>> = {1} /\ <<r>>[1] = r
  BY SingleIs
<1> HIDE DEF r
<1>3. Within(<<s>>, S) => \A i \in DOMAIN s : s[i] \in S
  BY <1>2 DEF Within
<1>4. Within(<<s>>, S) => Within(<<r>>, S \cup {t})
  BY <1>1, <1>2, <1>3 DEF Within
<1>5. ASSUME Within(<<s>>, S), Distinct(<<s>>) PROVE Distinct(<<r>>)
  <2>1. \A i, j \in DOMAIN s : s[i] = s[j] => i = j
    BY <1>2, <1>5 DEF Distinct
  <2>2. \A i, j \in DOMAIN r : r[i] = r[j] => i = j
    BY <1>1, <1>3, <1>5, <2>1
  <2> QED
    BY <1>2, <2>2 DEF Distinct
<1>6. ASSUME Within(q, S) PROVE \A k \in DOMAIN q : \A i \in DOMAIN q[k] : q[k][i] # t
  BY <1>6 DEF Within
<1>7. ASSUME Within(q, S), Disjoint(q, <<s>>) PROVE Disjoint(q, <<r>>)
  <2> SUFFICES ASSUME NEW l \in DOMAIN q, NEW i \in DOMAIN r, NEW j \in DOMAIN q[l]
               PROVE  q[l][j] # r[i]
    BY <1>2 DEF Disjoint
  <2>1. CASE i \in DOMAIN s
    BY <1>1, <1>2, <1>7, <2>1 DEF Disjoint
  <2> QED
    BY <1>1, <1>6, <1>7, <2>1
<1>8. ASSUME Within(q, S), Disjoint(<<s>>, q) PROVE Disjoint(<<r>>, q)
  BY <1>7, <1>8, DisjointBack
<1> QED
  BY <1>4, <1>5, <1>7, <1>8 DEF r

\* Nothing is under construction in an empty sequence, or in an empty candle.
LEMMA EmptyApart ==
  ASSUME NEW p, p = <<>> \/ p = << <<>> >>, NEW q, NEW S
  PROVE  Within(p, S) /\ Distinct(p) /\ Disjoint(p, q) /\ Disjoint(q, p)
<1>1. \A k \in DOMAIN p : DOMAIN p[k] = {}
  OBVIOUS
<1> QED
  BY <1>1 DEF Within, Distinct, Disjoint

LEMMA WithinMore ==
  ASSUME NEW p, NEW S, NEW T, S \subseteq T, Within(p, S) PROVE Within(p, T)
BY DEF Within

LEMMA HeadIsCandle ==
  ASSUME PipelineTypes, NEW m \in Minutes, NEW p \in Seq(Seq(Nat)), p # <<>>,
         Within(p, SeenOf(m)), Distinct(p)
  PROVE  Head(p) \in Seq(Nat) /\ IsCandle(Head(p), m)
<1>1. 1 \in DOMAIN p /\ Head(p) = p[1] /\ Head(p) \in Seq(Nat)
  OBVIOUS
<1>2. \A i, j \in DOMAIN Head(p) : Head(p)[i] = Head(p)[j] => i = j
  BY <1>1 DEF Distinct
<1>3. \A i \in DOMAIN Head(p) : Head(p)[i] \in SeenOf(m)
  BY <1>1 DEF Within
<1>4. SeenOf(m) \subseteq {t \in Ticks : minute[t] = m}
  BY DEF SeenOf, PipelineTypes
<1> QED
  BY <1>1, <1>2, <1>3, <1>4 DEF IsCandle, IsInjective, ToSet

-----------------------------------------------------------------------------
(* One step of the pipeline.                                               *)

LEMMA TicksAre ==
  ASSUME PipelineTypes
  PROVE  /\ Ticks = 1..Len(minute) /\ Len(minute) \in Nat /\ Ticks \subseteq 1..MaxTicks
         /\ \A t \in Ticks : t \in Nat /\ minute[t] \in Minutes
         /\ MaxTicks \in Nat /\ MaxMinute \in Nat \ {0} /\ Batch \in Nat \ {0}
<1>1. MaxTicks \in Nat /\ MaxMinute \in Nat \ {0} /\ Batch \in Nat \ {0}
  BY PipelineAssumption
<1>2. minute \in Seq(Minutes) /\ Len(minute) <= MaxTicks
  BY DEF PipelineTypes
<1>3. Ticks = 1..Len(minute) /\ Len(minute) \in Nat
  BY <1>2 DEF Ticks
<1> QED
  BY <1>1, <1>2, <1>3

LEMMA UnderIs ==
  ASSUME PipelineTypes, NEW m \in Minutes
  PROVE  /\ \A b \in Builders : UnderConstruction(b, m) \in Seq(Seq(Nat))
         /\ UnderConstruction("open", m) = <<buckets[m]>> /\ buckets[m] \in Seq(Nat)
         /\ \A c \in Consumers : c # "open" /\ UnderConstruction(c, m) = consumer[c].candles[m]
<1>1. \A c \in Consumers : c # "open"
  BY DEF Consumers
<1>2. UnderConstruction("open", m) = <<buckets[m]>> /\ buckets[m] \in Seq(Nat)
  BY DEF PipelineTypes, UnderConstruction
<1>3. \A c \in Consumers : UnderConstruction(c, m) = consumer[c].candles[m]
  BY <1>1 DEF UnderConstruction
<1>4. \A c \in Consumers : consumer[c].candles[m] \in Seq(Seq(Nat))
  BY DEF PipelineTypes, Buffer
<1>5. <<buckets[m]>> \in Seq(Seq(Nat))
  BY <1>2
<1> QED
  BY <1>1, <1>2, <1>3, <1>4, <1>5 DEF Builders

\* What is under construction stays or is gone, and what was seen is remembered.
LEMMA BuildFades ==
  ASSUME BuildInv,
         \A b \in Builders, m \in Minutes :
           UnderConstruction(b, m)' \in {UnderConstruction(b, m), <<>>, << <<>> >>},
         \A m \in Minutes : SeenOf(m) \subseteq SeenOf(m)'
  PROVE  BuildInv'
<1> SUFFICES ASSUME NEW m \in Minutes
             PROVE  /\ \A b \in Builders : /\ Within(UnderConstruction(b, m)', SeenOf(m)')
                                           /\ Distinct(UnderConstruction(b, m)')
                    /\ \A b, c \in Builders :
                         b # c => Disjoint(UnderConstruction(b, m)', UnderConstruction(c, m)')
  BY DEF BuildInv
<1>1. ASSUME NEW b \in Builders
      PROVE  Within(UnderConstruction(b, m)', SeenOf(m)') /\ Distinct(UnderConstruction(b, m)')
  <2>1. CASE UnderConstruction(b, m)' = UnderConstruction(b, m)
    BY <2>1, WithinMore DEF BuildInv
  <2>2. CASE UnderConstruction(b, m)' \in {<<>>, << <<>> >>}
    BY <2>2, EmptyApart
  <2> QED
    BY <2>1, <2>2
<1>2. ASSUME NEW b \in Builders, NEW c \in Builders, b # c
      PROVE  Disjoint(UnderConstruction(b, m)', UnderConstruction(c, m)')
  <2>1. CASE /\ UnderConstruction(b, m)' = UnderConstruction(b, m)
             /\ UnderConstruction(c, m)' = UnderConstruction(c, m)
    BY <1>2, <2>1 DEF BuildInv
  <2>2. CASE UnderConstruction(b, m)' \in {<<>>, << <<>> >>}
    BY <2>2, EmptyApart
  <2>3. CASE UnderConstruction(c, m)' \in {<<>>, << <<>> >>}
    BY <2>3, EmptyApart
  <2> QED
    BY <2>1, <2>2, <2>3
<1> QED
  BY <1>1, <1>2

\* What the consumer's record is after a tick: the batch is longer by one, and with a tick
\* that passed so are the ticks, and the candles by those it completes.
Passed(c, t) ==
  /\ t \notin seen
  /\ Ingest(t)
  /\ consumer'[c].ticks = Append(consumer[c].ticks, t)
  /\ consumer'[c].candles = Joined(consumer[c].candles, CandlesOf(Completed(minute[t]), buckets))

Dropped(c) ==
  /\ buckets' = buckets
  /\ consumer'[c].ticks = consumer[c].ticks
  /\ consumer'[c].candles = consumer[c].candles

LEMMA ConsumeIs ==
  ASSUME PipelineTypes, BatchInv, NEW c \in Consumers, consumer[c].at = "waiting",
         NEW t \in Ticks, Consume(c, t)
  PROVE  /\ consumer' \in [Consumers -> Buffer]
         /\ \A d \in Consumers \ {c} : consumer'[d] = consumer[d]
         /\ consumer'[c].count = consumer[c].count + 1
         /\ IF consumer[c].count + 1 >= Batch
            THEN consumer'[c].at = "flushing" /\ consumer'[c].todo = Parts
            ELSE consumer'[c].at = "waiting" /\ consumer'[c].todo = {}
         /\ seen' = seen \cup {t}
         /\ Passed(c, t) \/ Dropped(c)
<1> DEFINE b == consumer[c]
           full == b.count + 1 >= Batch
           a == IF full THEN "flushing" ELSE "waiting"
           d == IF full THEN Parts ELSE {}
           batch == [b EXCEPT !.count = b.count + 1, !.at = a, !.todo = d]
           more == Joined(b.candles, CandlesOf(Completed(minute[t]), buckets))
           taken == [batch EXCEPT !.ticks = Append(b.ticks, t), !.candles = more]
<1>1. b \in Buffer /\ b.count + 1 \in Nat
  BY DEF PipelineTypes, Buffer
<1>2. a \in {"waiting", "flushing"} /\ d \in SUBSET Parts
  OBVIOUS
<1>3. /\ batch \in Buffer /\ batch.count = b.count + 1 /\ batch.at = a /\ batch.todo = d
      /\ batch.ticks = b.ticks /\ batch.candles = b.candles
  <2> HIDE DEF b, a, d
  <2> QED
    BY <1>1, <1>2 DEF Buffer
<1>4. Append(b.ticks, t) \in Seq(Nat)
  BY <1>1, TicksAre, OneMore DEF Buffer
<1>5. more \in [Minutes -> Seq(Seq(Nat))]
  <2>1. ASSUME NEW m \in Minutes
        PROVE  b.candles[m] \o CandlesOf(Completed(minute[t]), buckets)[m] \in Seq(Seq(Nat))
    <3>1. b.candles[m] \in Seq(Seq(Nat)) /\ buckets[m] \in Seq(Nat)
      BY <1>1 DEF Buffer, PipelineTypes
    <3>2. CandlesOf(Completed(minute[t]), buckets)[m] \in {<<>>, <<buckets[m]>>}
      BY DEF CandlesOf
    <3> QED
      BY <3>1, <3>2, JoinedBy
  <2> QED
    BY <2>1 DEF Joined
<1>6. /\ taken \in Buffer /\ taken.count = b.count + 1 /\ taken.at = a /\ taken.todo = d
      /\ taken.ticks = Append(b.ticks, t) /\ taken.candles = more
  <2> HIDE DEF b, batch, more
  <2> QED
    BY <1>3, <1>4, <1>5 DEF Buffer
<1>7. \/ buckets' = buckets /\ consumer' = [consumer EXCEPT ![c] = batch]
      \/ t \notin seen /\ Ingest(t) /\ consumer' = [consumer EXCEPT ![c] = taken]
  <2>1. taken = [batch EXCEPT !.ticks = Append(batch.ticks, t),
                   !.candles = Joined(batch.candles, CandlesOf(Completed(minute[t]), buckets))]
    BY <1>3
  <2> QED
    BY <2>1 DEF Consume, Verdicts
<1>8. seen' = seen \cup {t}
  BY DEF Consume
<1>9. consumer \in [Consumers -> Buffer]
  BY DEF PipelineTypes
<1> HIDE DEF batch, taken
<1>10. /\ consumer' \in [Consumers -> Buffer]
       /\ \A e \in Consumers \ {c} : consumer'[e] = consumer[e]
       /\ consumer'[c] \in {batch, taken}
  BY <1>3, <1>6, <1>7, <1>9
<1>11. Passed(c, t) \/ Dropped(c)
  BY <1>3, <1>6, <1>7, <1>9 DEF Passed, Dropped
<1> QED
  BY <1>3, <1>6, <1>8, <1>10, <1>11

\* The minutes as one tick of minute n leaves them: older candles are complete, its own
\* takes it, and the others stay.
LEMMA IngestIs ==
  ASSUME PipelineTypes, NEW c \in Consumers, NEW t \in Ticks, Passed(c, t), NEW m \in Minutes
  PROVE  LET s == buckets[m]
             p == consumer[c].candles[m]
         IN  \/ buckets'[m] = <<>> /\ consumer'[c].candles[m] = p \o <<s>> /\ m # minute[t]
             \/ buckets'[m] = Append(s, t) /\ consumer'[c].candles[m] = p /\ m = minute[t]
             \/ buckets'[m] = s /\ consumer'[c].candles[m] = p /\ m # minute[t]
<1> DEFINE s == buckets[m]
           p == consumer[c].candles[m]
           with == [buckets EXCEPT ![minute[t]] = Append(buckets[minute[t]], t)]
<1>1. /\ buckets \in [Minutes -> Seq(Nat)] /\ p \in Seq(Seq(Nat)) /\ s \in Seq(Nat)
      /\ minute[t] \in Minutes /\ minute[t] \notin Completed(minute[t])
  <2>1. minute[t] \in Minutes /\ minute[t] \in Nat
    BY TicksAre DEF Minutes
  <2>2. minute[t] \notin Completed(minute[t])
    BY <2>1 DEF Completed
  <2> QED
    BY <2>1, <2>2 DEF PipelineTypes, Buffer
<1>2. buckets' = [k \in Minutes |-> IF k \in Completed(minute[t]) THEN <<>> ELSE with[k]]
  BY DEF Passed, Ingest
<1>3. consumer'[c].candles[m] = p \o CandlesOf(Completed(minute[t]), buckets)[m]
  BY DEF Passed, Joined
<1>4. CandlesOf(Completed(minute[t]), buckets)[m]
        = IF m \in Completed(minute[t]) THEN <<s>> ELSE <<>>
  BY DEF CandlesOf
<1>5. with[m] = IF m = minute[t] THEN Append(s, t) ELSE s
  BY <1>1
<1>6. p \o <<>> = p
  BY <1>1, JoinedBy
<1> HIDE DEF p, with
<1> QED
  BY <1>1, <1>2, <1>3, <1>4, <1>5, <1>6 DEF p

LEMMA PassedBuilds ==
  ASSUME PipelineTypes, BuildInv, NEW c \in Consumers, NEW t \in Ticks, Passed(c, t),
         \A d \in Consumers \ {c} : consumer'[d] = consumer[d],
         seen' = seen \cup {t}, minute' = minute
  PROVE  BuildInv'
<1> SUFFICES ASSUME NEW m \in Minutes
             PROVE  /\ \A b \in Builders : /\ Within(UnderConstruction(b, m)', SeenOf(m)')
                                           /\ Distinct(UnderConstruction(b, m)')
                    /\ \A b, d \in Builders :
                         b # d => Disjoint(UnderConstruction(b, m)', UnderConstruction(d, m)')
  BY DEF BuildInv
<1> DEFINE s == buckets[m]
           p == consumer[c].candles[m]
           S == SeenOf(m)
<1>1. /\ UnderConstruction("open", m) = <<s>> /\ s \in Seq(Nat)
      /\ c # "open" /\ UnderConstruction(c, m) = p /\ p \in Seq(Seq(Nat))
      /\ c \in Builders /\ "open" \in Builders
      /\ t \in Nat
  BY UnderIs, TicksAre DEF Builders
<1>2. /\ UnderConstruction("open", m)' = <<buckets'[m]>>
      /\ UnderConstruction(c, m)' = consumer'[c].candles[m]
  BY <1>1 DEF UnderConstruction
<1>3. ASSUME NEW d \in Builders \ {"open", c}
      PROVE  UnderConstruction(d, m)' = UnderConstruction(d, m)
  BY <1>3 DEF UnderConstruction, Builders
<1>4. /\ SeenOf(m)' = IF minute[t] = m THEN S \cup {t} ELSE S
      /\ t \notin S
  BY DEF SeenOf, Passed
<1>5. /\ Within(<<s>>, S) /\ Distinct(<<s>>) /\ Within(p, S) /\ Distinct(p)
      /\ Disjoint(<<s>>, p) /\ Disjoint(p, <<s>>)
  BY <1>1 DEF BuildInv
<1>6. ASSUME NEW d \in Builders \ {"open", c}
      PROVE  /\ UnderConstruction(d, m) \in Seq(Seq(Nat))
             /\ Within(UnderConstruction(d, m), S) /\ Distinct(UnderConstruction(d, m))
             /\ Disjoint(<<s>>, UnderConstruction(d, m)) /\ Disjoint(UnderConstruction(d, m), <<s>>)
             /\ Disjoint(p, UnderConstruction(d, m)) /\ Disjoint(UnderConstruction(d, m), p)
  BY <1>1, <1>6, UnderIs DEF BuildInv
<1>7. ASSUME NEW d \in Builders \ {"open", c}, NEW e \in Builders \ {"open", c}, d # e
      PROVE  Disjoint(UnderConstruction(d, m)', UnderConstruction(e, m)')
  BY <1>3, <1>7 DEF BuildInv
<1> HIDE DEF s, p, S
<1>8. ASSUME NEW o, NEW q, UnderConstruction("open", m)' = o, UnderConstruction(c, m)' = q,
             Within(o, SeenOf(m)') /\ Distinct(o), Within(q, SeenOf(m)') /\ Distinct(q),
             Disjoint(o, q) /\ Disjoint(q, o),
             \A d \in Builders \ {"open", c} :
               /\ Within(UnderConstruction(d, m), SeenOf(m)')
               /\ Disjoint(o, UnderConstruction(d, m)) /\ Disjoint(UnderConstruction(d, m), o)
               /\ Disjoint(q, UnderConstruction(d, m)) /\ Disjoint(UnderConstruction(d, m), q)
      PROVE  /\ \A b \in Builders : /\ Within(UnderConstruction(b, m)', SeenOf(m)')
                                    /\ Distinct(UnderConstruction(b, m)')
             /\ \A b, d \in Builders :
                  b # d => Disjoint(UnderConstruction(b, m)', UnderConstruction(d, m)')
  <2>1. ASSUME NEW b \in Builders
        PROVE  Within(UnderConstruction(b, m)', SeenOf(m)') /\ Distinct(UnderConstruction(b, m)')
    BY <1>3, <1>6, <1>8
  <2>2. ASSUME NEW b \in Builders, NEW d \in Builders, b # d
        PROVE  Disjoint(UnderConstruction(b, m)', UnderConstruction(d, m)')
    BY <1>3, <1>7, <1>8, <2>2
  <2> QED
    BY <2>1, <2>2
<1>9. CASE buckets'[m] = <<>> /\ consumer'[c].candles[m] = p \o <<s>> /\ m # minute[t]
  <2> DEFINE q == p \o <<s>>
  <2>1. UnderConstruction("open", m)' = << <<>> >> /\ UnderConstruction(c, m)' = q /\ SeenOf(m)' = S
    BY <1>2, <1>4, <1>9
  <2>2. Within(q, S) /\ Distinct(q)
    BY <1>1, <1>5, JoinedApart
  <2>3. \A d \in Builders \ {"open", c} :
          Disjoint(q, UnderConstruction(d, m)) /\ Disjoint(UnderConstruction(d, m), q)
    BY <1>1, <1>6, JoinedApart
  <2> HIDE DEF q
  <2> QED
    BY <1>6, <1>8, <2>1, <2>2, <2>3, EmptyApart
<1>10. CASE buckets'[m] = Append(s, t) /\ consumer'[c].candles[m] = p /\ m = minute[t]
  <2> DEFINE o == <<Append(s, t)>>
  <2>1. UnderConstruction("open", m)' = o /\ UnderConstruction(c, m)' = p /\ SeenOf(m)' = S \cup {t}
    BY <1>2, <1>4, <1>10
  <2>2. Within(o, S \cup {t}) /\ Distinct(o) /\ Disjoint(o, p) /\ Disjoint(p, o)
    BY <1>1, <1>4, <1>5, GrownApart
  <2>3. \A d \in Builders \ {"open", c} :
          Disjoint(o, UnderConstruction(d, m)) /\ Disjoint(UnderConstruction(d, m), o)
    BY <1>1, <1>4, <1>6, GrownApart
  <2>4. Within(p, S \cup {t}) /\ \A d \in Builders \ {"open", c} : Within(UnderConstruction(d, m), S \cup {t})
    BY <1>5, <1>6, WithinMore
  <2> HIDE DEF o
  <2> QED
    BY <1>5, <1>6, <1>8, <2>1, <2>2, <2>3, <2>4
<1>11. CASE buckets'[m] = s /\ consumer'[c].candles[m] = p /\ m # minute[t]
  <2>1. UnderConstruction("open", m)' = <<s>> /\ UnderConstruction(c, m)' = p /\ SeenOf(m)' = S
    BY <1>2, <1>4, <1>11
  <2> QED
    BY <1>5, <1>6, <1>8, <2>1
<1> QED
  BY <1>9, <1>10, <1>11, IngestIs DEF s, p

\* What a step leaves behind that touches no candle, no row and no consumer.
LEMMA QueuesMove ==
  ASSUME PipelineInv, UNCHANGED <<memory, restarts, candles_1m, market_ticks>>,
         now' \in Minutes, minute' \in Seq(Minutes), Len(minute') <= MaxTicks,
         Ticks \subseteq Ticks', \A t \in Ticks : minute'[t] = minute[t],
         db_tick_buffer' \in Seq(Ticks'), topic' \in Seq(Ticks')
  PROVE  PipelineInv'
<1>1. PipelineTypes /\ BatchInv /\ BuildInv /\ StoredInv /\ (restarts = 0 => RowsInv)
  BY DEF PipelineInv
<1>2. /\ seen' = seen /\ buckets' = buckets /\ consumer' = consumer /\ restarts' = restarts
      /\ candles_1m' = candles_1m /\ market_ticks' = market_ticks
  BY DEF memory
<1>3. PipelineTypes'
  BY <1>1, <1>2 DEF PipelineTypes
<1>4. BatchInv'
  BY <1>1, <1>2 DEF BatchInv
<1>5. BuildInv'
  <2>1. \A m \in Minutes : SeenOf(m) \subseteq SeenOf(m)'
    BY <1>1, <1>2 DEF SeenOf, PipelineTypes
  <2>2. \A b \in Builders, m \in Minutes : UnderConstruction(b, m)' = UnderConstruction(b, m)
    BY <1>2 DEF UnderConstruction
  <2> QED
    BY <1>1, <2>1, <2>2, BuildFades
<1>6. StoredInv'
  BY <1>1, <1>2 DEF StoredInv, IsCandle
<1>7. restarts' = 0 => RowsInv'
  BY <1>1, <1>2 DEF RowsInv, Unwritten
<1> QED
  BY <1>3, <1>4, <1>5, <1>6, <1>7 DEF PipelineInv

LEMMA PublishKeeps ==
  ASSUME PipelineInv, Publish PROVE PipelineInv'
<1> DEFINE t == Len(minute) + 1
<1>1. PipelineTypes
  BY DEF PipelineInv
<1>2. PICK m \in Minutes : minute' = Append(minute, m)
  BY DEF Publish
<1>3. t <= MaxTicks /\ now' = now /\ UNCHANGED <<memory, restarts, candles_1m, market_ticks>>
  BY DEF Publish, tables
<1>4. minute \in Seq(Minutes) /\ Len(minute) \in Nat
  BY <1>1 DEF PipelineTypes
<1>5. /\ minute' \in Seq(Minutes) /\ Len(minute') = t
      /\ Ticks' = Ticks \cup {t} /\ \A u \in Ticks : minute'[u] = minute[u]
  BY <1>2, <1>4, OneMore DEF Ticks
<1>6. db_tick_buffer \in Seq(Ticks) /\ topic \in Seq(Ticks)
  BY <1>1 DEF PipelineTypes
<1>7. /\ db_tick_buffer' \in {db_tick_buffer, Append(db_tick_buffer, t)}
      /\ topic' \in {topic, Append(topic, t)}
  BY DEF Publish
<1> DEFINE T == Ticks'
<1>8. t \in T /\ \A s \in Seq(Ticks) : s \in Seq(T) /\ Append(s, t) \in Seq(T)
  <2>1. Ticks \subseteq T /\ t \in T
    BY <1>5
  <2> HIDE DEF T, t
  <2> QED
    BY <2>1
<1>9. db_tick_buffer' \in Seq(Ticks') /\ topic' \in Seq(Ticks')
  BY <1>6, <1>7, <1>8
<1>10. now' \in Minutes
  BY <1>1, <1>3 DEF PipelineTypes
<1> HIDE DEF t
<1> QED
  BY <1>3, <1>5, <1>9, <1>10, QueuesMove

LEMMA MinutePassesKeeps ==
  ASSUME PipelineInv, MinutePasses PROVE PipelineInv'
<1>1. PipelineTypes
  BY DEF PipelineInv
<1>2. now' \in Minutes
  BY <1>1, TicksAre DEF MinutePasses, PipelineTypes, Minutes
<1>3. Ticks' = Ticks /\ minute' = minute
  BY DEF MinutePasses, Ticks
<1> QED
  BY <1>1, <1>2, <1>3, QueuesMove DEF MinutePasses, PipelineTypes, tables

LEMMA PopLostKeeps ==
  ASSUME PipelineInv, PopLost PROVE PipelineInv'
<1>1. PipelineTypes
  BY DEF PipelineInv
<1>2. Ticks' = Ticks /\ minute' = minute /\ now' = now /\ topic' = topic
  BY DEF PopLost, Ticks, input
<1>3. db_tick_buffer' \in Seq(Ticks)
  BY <1>1 DEF PopLost, PipelineTypes
<1> QED
  BY <1>1, <1>2, <1>3, QueuesMove DEF PopLost, PipelineTypes, tables

\* One tick through one consumer.
LEMMA ConsumeKeeps ==
  ASSUME PipelineInv, NEW c \in Consumers, NEW t \in Ticks, consumer[c].at = "waiting",
         Consume(c, t), UNCHANGED <<input, restarts, tables>>,
         db_tick_buffer' \in Seq(Ticks), topic' \in Seq(Ticks)
  PROVE  PipelineInv'
<1>1. PipelineTypes /\ BatchInv /\ BuildInv /\ StoredInv /\ (restarts = 0 => RowsInv)
  BY DEF PipelineInv
<1>2. /\ now' = now /\ minute' = minute /\ restarts' = restarts /\ Ticks' = Ticks
      /\ candles_1m' = candles_1m /\ market_ticks' = market_ticks
  BY DEF input, tables, Ticks
<1>3. /\ consumer' \in [Consumers -> Buffer]
      /\ \A d \in Consumers \ {c} : consumer'[d] = consumer[d]
      /\ consumer'[c].count = consumer[c].count + 1
      /\ IF consumer[c].count + 1 >= Batch
         THEN consumer'[c].at = "flushing" /\ consumer'[c].todo = Parts
         ELSE consumer'[c].at = "waiting" /\ consumer'[c].todo = {}
      /\ seen' = seen \cup {t}
      /\ Passed(c, t) \/ Dropped(c)
  BY <1>1, ConsumeIs
<1>4. /\ consumer[c] \in Buffer /\ consumer[c].ticks \in Seq(Nat) /\ t \in Nat
      /\ consumer[c].count \in Nat /\ Batch \in Nat
  BY <1>1, TicksAre DEF PipelineTypes, Buffer
<1>5. \/ /\ t \notin seen
         /\ ToSet(consumer'[c].ticks) = ToSet(consumer[c].ticks) \cup {t}
      \/ ToSet(consumer'[c].ticks) = ToSet(consumer[c].ticks)
  <2> DEFINE old == consumer[c].ticks
  <2>1. consumer'[c].ticks = old \/ (consumer'[c].ticks = Append(old, t) /\ t \notin seen)
    BY <1>3 DEF Passed, Dropped
  <2>2. old \in Seq(Nat)
    BY <1>4
  <2> HIDE DEF old
  <2>3. ToSet(Append(old, t)) = ToSet(old) \cup {t}
    BY <1>4, <2>2, SetGrows
  <2>4. CASE consumer'[c].ticks = old
    BY <2>4 DEF old
  <2>5. CASE consumer'[c].ticks = Append(old, t) /\ t \notin seen
    <3>1. ToSet(consumer'[c].ticks) = ToSet(old) \cup {t}
      BY <2>3, <2>5, Zenon
    <3> QED
      BY <2>5, <3>1 DEF old
  <2> QED
    BY <2>1, <2>4, <2>5
<1>6. buckets' \in [Minutes -> Seq(Nat)]
  <2>1. CASE Dropped(c)
    BY <1>1, <2>1 DEF PipelineTypes, Dropped
  <2>2. CASE Passed(c, t)
    <3>1. \A m \in Minutes : buckets[m] \in Seq(Nat) /\ Append(buckets[m], t) \in Seq(Nat)
      BY <1>1, <1>4, OneMore DEF PipelineTypes
    <3>2. \A m \in Minutes : buckets'[m] \in {<<>>, Append(buckets[m], t), buckets[m]}
      BY <1>1, <2>2, IngestIs
    <3>3. \A m \in Minutes : buckets'[m] \in Seq(Nat)
      <4>1. <<>> \in Seq(Nat)
        OBVIOUS
      <4> QED
        BY <3>1, <3>2, <4>1, Zenon
    <3>4. buckets' = [m \in Minutes |-> buckets'[m]]
      BY <2>2 DEF Passed, Ingest
    <3> QED
      BY <3>3, <3>4
  <2> QED
    BY <1>3, <2>1, <2>2
<1>7. PipelineTypes'
  BY <1>1, <1>2, <1>3, <1>6 DEF PipelineTypes
<1>8. BatchInv'
  <2> SUFFICES ASSUME NEW d \in Consumers
               PROVE  /\ (consumer'[d].at = "flushing") <=> (consumer'[d].todo # {})
                      /\ consumer'[d].count <= Batch
                      /\ consumer'[d].at = "waiting" => consumer'[d].count < Batch
                      /\ ToSet(consumer'[d].ticks) \subseteq Ticks
    BY <1>2 DEF BatchInv
  <2>1. CASE d # c
    BY <1>1, <1>3, <2>1 DEF BatchInv
  <2>2. CASE d = c
    <3>1. consumer[c].count < Batch
      BY <1>1 DEF BatchInv
    <3>2. ToSet(consumer'[c].ticks) \subseteq Ticks
      BY <1>1, <1>5 DEF BatchInv
    <3> QED
      <4>1. consumer[c].count + 1 <= Batch
        BY <1>4, <3>1
      <4>2. Parts # {}
        BY DEF Parts
      <4>3. CASE consumer[c].count + 1 >= Batch
        BY <1>3, <1>4, <2>2, <3>2, <4>1, <4>2, <4>3
      <4>4. CASE ~ (consumer[c].count + 1 >= Batch)
        BY <1>3, <1>4, <2>2, <3>2, <4>1, <4>4
      <4> QED
        BY <4>3, <4>4
  <2> QED
    BY <2>1, <2>2
<1>9. BuildInv'
  <2>1. CASE Passed(c, t)
    BY <1>1, <1>2, <1>3, <2>1, PassedBuilds
  <2>2. CASE Dropped(c)
    <3>1. \A m \in Minutes : SeenOf(m) \subseteq SeenOf(m)'
      BY <1>2, <1>3 DEF SeenOf
    <3>2. \A b \in Builders, m \in Minutes : UnderConstruction(b, m)' = UnderConstruction(b, m)
      BY <1>3, <2>2 DEF UnderConstruction, Builders, Dropped
    <3> QED
      BY <1>1, <3>1, <3>2, BuildFades
  <2> QED
    BY <1>3, <2>1, <2>2
<1>10. StoredInv'
  BY <1>1, <1>2 DEF StoredInv, IsCandle
<1>11. ASSUME restarts = 0 PROVE RowsInv'
  <2>1. RowsInv
    BY <1>1, <1>11
  <2>2. \A u \in 1..MaxTicks : market_ticks'[u] <= 1 /\ (market_ticks'[u] > 0 => u \in seen')
    BY <1>2, <1>3, <2>1 DEF RowsInv
  <2>3. t \notin seen => market_ticks[t] = 0 /\ \A d \in Consumers : t \notin ToSet(consumer[d].ticks)
    <3>1. t \in 1..MaxTicks /\ market_ticks[t] \in Nat
      BY <1>1, TicksAre DEF PipelineTypes
    <3> QED
      BY <2>1, <3>1 DEF RowsInv
  <2>4. Unwritten(c)
    BY DEF Unwritten
  <2>5. ASSUME NEW d \in Consumers, NEW u \in ToSet(consumer'[d].ticks)
        PROVE  u \in seen' /\ (Unwritten(d)' => market_ticks'[u] = 0)
    <3>1. CASE d # c
      <4>1. consumer'[d] = consumer[d]
        BY <1>3, <3>1
      <4> QED
        BY <1>2, <1>3, <2>1, <2>5, <4>1 DEF RowsInv, Unwritten
    <3>2. CASE d = c /\ u \in ToSet(consumer[c].ticks)
      BY <1>2, <1>3, <2>1, <2>4, <3>2 DEF RowsInv
    <3>3. CASE u = t /\ t \notin seen
      BY <1>2, <1>3, <2>3, <3>3
    <3> QED
      BY <1>5, <2>5, <3>1, <3>2, <3>3
  <2>6. ASSUME NEW d \in Consumers, NEW e \in Consumers, d # e, NEW u \in ToSet(consumer'[d].ticks)
        PROVE  u \notin ToSet(consumer'[e].ticks)
    <3>1. \A f \in Consumers : f # c => consumer'[f].ticks = consumer[f].ticks
      BY <1>3
    <3>2. \A v \in ToSet(consumer[d].ticks) : v \notin ToSet(consumer[e].ticks)
      BY <2>1, <2>6 DEF RowsInv
    <3>3. CASE d = c
      BY <1>5, <2>3, <2>6, <3>1, <3>2, <3>3
    <3>4. CASE e = c
      BY <1>5, <2>3, <2>6, <3>1, <3>2, <3>4
    <3>5. CASE d # c /\ e # c
      BY <2>6, <3>1, <3>2, <3>5
    <3> QED
      BY <3>3, <3>4, <3>5
  <2> QED
    BY <2>2, <2>5, <2>6 DEF RowsInv
<1> QED
  BY <1>2, <1>7, <1>8, <1>9, <1>10, <1>11 DEF PipelineInv

LEMMA PopRedisKeeps ==
  ASSUME PipelineInv, PopRedis PROVE PipelineInv'
<1>1. db_tick_buffer \in Seq(Ticks) /\ topic \in Seq(Ticks)
  BY DEF PipelineInv, PipelineTypes
<1>2. Head(db_tick_buffer) \in Ticks /\ db_tick_buffer' \in Seq(Ticks) /\ topic' = topic
  BY <1>1 DEF PopRedis
<1> QED
  BY <1>1, <1>2, ConsumeKeeps DEF PopRedis, Consumers

LEMMA ReadKafkaKeeps ==
  ASSUME PipelineInv, ReadKafka PROVE PipelineInv'
<1>1. db_tick_buffer \in Seq(Ticks) /\ topic \in Seq(Ticks)
  BY DEF PipelineInv, PipelineTypes
<1>2. Head(topic) \in Ticks /\ topic' \in Seq(Ticks) /\ db_tick_buffer' = db_tick_buffer
  BY <1>1 DEF ReadKafka
<1> QED
  BY <1>1, <1>2, ConsumeKeeps DEF ReadKafka, Consumers

\* The candles that reach the table are candles, and the first of a minute stays.
LEMMA InsertedIs ==
  ASSUME PipelineTypes, StoredInv, minute' = minute,
         NEW f, \A m \in Minutes : /\ f[m] \in Seq(Seq(Nat))
                                   /\ Within(f[m], SeenOf(m)) /\ Distinct(f[m]),
         candles_1m' = Inserted(candles_1m, f)
  PROVE  candles_1m' \in [Minutes -> Seq(Nat)] /\ StoredInv'
<1>1. ASSUME NEW m \in Minutes
      PROVE  candles_1m'[m] \in Seq(Nat) /\ IsCandle(candles_1m'[m], m)
  <2>1. candles_1m[m] \in Seq(Nat) /\ IsCandle(candles_1m[m], m)
    BY DEF PipelineTypes, StoredInv
  <2>2. candles_1m'[m] = candles_1m[m] \/ (f[m] # <<>> /\ candles_1m'[m] = Head(f[m]))
    BY DEF Inserted
  <2>3. f[m] # <<>> => Head(f[m]) \in Seq(Nat) /\ IsCandle(Head(f[m]), m)
    BY HeadIsCandle
  <2> QED
    BY <2>1, <2>2, <2>3
<1>2. candles_1m' = [m \in Minutes |-> candles_1m'[m]]
  BY DEF Inserted
<1>3. \A m \in Minutes : IsCandle(candles_1m[m], m)'
  BY <1>1 DEF IsCandle, Ticks
<1> QED
  BY <1>1, <1>2, <1>3 DEF StoredInv

LEMMA StoredIs ==
  ASSUME PipelineTypes, NEW s, market_ticks' = Stored(s)
  PROVE  /\ market_ticks' \in [1..MaxTicks -> Nat]
         /\ \A t \in 1..MaxTicks :
              market_ticks'[t] = market_ticks[t] + (IF Contains(s, t) THEN 1 ELSE 0)
BY DEF PipelineTypes, Stored

\* A part of a flush; the batch goes with the last one.
LEMMA FlushPartKeeps ==
  ASSUME PipelineInv, NEW c \in Consumers, NEW part \in Parts, FlushPart(c, part)
  PROVE  PipelineInv'
<1> DEFINE b == consumer[c]
           less == [b EXCEPT !.todo = b.todo \ {part}]
<1>1. PipelineTypes /\ BatchInv /\ BuildInv /\ StoredInv /\ (restarts = 0 => RowsInv)
  BY DEF PipelineInv
<1>2. /\ now' = now /\ minute' = minute /\ restarts' = restarts /\ Ticks' = Ticks
      /\ seen' = seen /\ buckets' = buckets
      /\ db_tick_buffer' = db_tick_buffer /\ topic' = topic
      /\ b.at = "flushing" /\ part \in b.todo
  BY DEF FlushPart, input, Ticks
<1>3. b \in Buffer /\ b.ticks \in Seq(Nat) /\ \A m \in Minutes : b.candles[m] \in Seq(Seq(Nat))
  BY <1>1 DEF PipelineTypes, Buffer
<1>4. /\ Fresh \in Buffer /\ Fresh.at = "waiting" /\ Fresh.todo = {} /\ Fresh.count = 0
      /\ Fresh.ticks = <<>> /\ \A m \in Minutes : Fresh.candles[m] = <<>>
  BY DEF Fresh, Buffer, NoCandles
<1>5. /\ less \in Buffer /\ less.at = b.at /\ less.todo = b.todo \ {part} /\ less.count = b.count
      /\ less.ticks = b.ticks /\ less.candles = b.candles
  <2> HIDE DEF b
  <2> QED
    BY <1>3 DEF Buffer
<1> DEFINE next == IF b.todo = {part} THEN Fresh ELSE less
<1>6. /\ next \in Buffer
      /\ next.ticks \in {<<>>, b.ticks}
      /\ \A m \in Minutes : next.candles[m] \in {<<>>, b.candles[m]}
      /\ next.todo = b.todo \ {part}
      /\ next.at = (IF b.todo = {part} THEN "waiting" ELSE "flushing")
      /\ next.count \in {0, b.count}
      /\ b.todo = {part} => next.ticks = <<>> /\ next.count = 0
  BY <1>2, <1>4, <1>5
<1>7. consumer' = [consumer EXCEPT ![c] = next]
  BY DEF FlushPart, Emptied
<1> HIDE DEF next, less, b
<1>8. /\ consumer' \in [Consumers -> Buffer] /\ consumer'[c] = next
      /\ \A d \in Consumers \ {c} : consumer'[d] = consumer[d]
  BY <1>1, <1>6, <1>7 DEF PipelineTypes
<1>9. candles_1m' \in [Minutes -> Seq(Nat)] /\ StoredInv'
  <2>1. CASE candles_1m' = candles_1m
    BY <1>1, <1>2, <2>1 DEF PipelineTypes, StoredInv, IsCandle
  <2>2. CASE candles_1m' = Inserted(candles_1m, b.candles)
    <3>1. \A m \in Minutes : b.candles[m] = UnderConstruction(c, m) /\ c \in Builders
      BY <1>1, UnderIs DEF b, Builders
    <3>2. \A m \in Minutes : /\ b.candles[m] \in Seq(Seq(Nat))
                             /\ Within(b.candles[m], SeenOf(m)) /\ Distinct(b.candles[m])
      BY <1>1, <1>3, <3>1 DEF BuildInv
    <3> QED
      BY <1>1, <1>2, <2>2, <3>2, InsertedIs
  <2> QED
    BY <2>1, <2>2 DEF FlushPart, Written, b
<1>10. \/ market_ticks' = market_ticks
       \/ part = "ticks" /\ market_ticks' = Stored(b.ticks)
  BY DEF FlushPart, Written, b
<1>11. market_ticks' \in [1..MaxTicks -> Nat]
  BY <1>1, <1>10, StoredIs DEF PipelineTypes
<1>12. PipelineTypes'
  BY <1>1, <1>2, <1>8, <1>9, <1>11 DEF PipelineTypes
<1>13. BatchInv'
  <2> SUFFICES ASSUME NEW d \in Consumers
               PROVE  /\ (consumer'[d].at = "flushing") <=> (consumer'[d].todo # {})
                      /\ consumer'[d].count <= Batch
                      /\ consumer'[d].at = "waiting" => consumer'[d].count < Batch
                      /\ ToSet(consumer'[d].ticks) \subseteq Ticks
    BY <1>2 DEF BatchInv
  <2>1. CASE d # c
    BY <1>1, <1>8, <2>1 DEF BatchInv
  <2>2. CASE d = c
    <3>1. b.count <= Batch /\ ToSet(b.ticks) \subseteq Ticks
      BY <1>1 DEF BatchInv, b
    <3>2. Batch \in Nat \ {0}
      BY <1>1, TicksAre
    <3>3. ToSet(<<>>) = {}
      BY DEF ToSet
    <3>4. ToSet(next.ticks) \subseteq Ticks
      BY <1>6, <3>1, <3>3
    <3>5. next.at = "flushing" <=> next.todo # {}
      BY <1>2, <1>6
    <3>6. next.count <= Batch /\ (next.at = "waiting" => next.count < Batch)
      BY <1>6, <3>1, <3>2
    <3> QED
      BY <1>8, <2>2, <3>4, <3>5, <3>6
  <2> QED
    BY <2>1, <2>2
<1>14. BuildInv'
  <2>1. \A m \in Minutes : SeenOf(m) \subseteq SeenOf(m)'
    BY <1>2 DEF SeenOf
  <2>2. ASSUME NEW d \in Builders, NEW m \in Minutes
        PROVE  UnderConstruction(d, m)' \in {UnderConstruction(d, m), <<>>}
    <3>1. CASE d = "open"
      BY <1>2, <3>1 DEF UnderConstruction
    <3>2. CASE d = c /\ d # "open"
      BY <1>6, <1>8, <3>2 DEF UnderConstruction, b
    <3>3. CASE d # c /\ d # "open"
      BY <1>8, <3>3 DEF UnderConstruction, Builders
    <3> QED
      BY <3>1, <3>2, <3>3
  <2> QED
    BY <1>1, <2>1, <2>2, BuildFades
<1>15. ASSUME restarts = 0 PROVE RowsInv'
  <2>1. RowsInv
    BY <1>1, <1>15
  <2>2. \A t \in 1..MaxTicks : Contains(b.ticks, t) <=> t \in ToSet(b.ticks)
    BY <1>3 DEF Contains, ToSet
  <2>3. /\ \A t \in ToSet(b.ticks) : t \in seen /\ (Unwritten(c) => market_ticks[t] = 0)
        /\ ToSet(b.ticks) \subseteq 1..MaxTicks
    <3>1. ToSet(b.ticks) \subseteq Ticks
      BY <1>1 DEF BatchInv, b
    <3> QED
      BY <1>1, <2>1, <3>1, TicksAre DEF RowsInv, b
  <2>4. \/ market_ticks' = market_ticks
        \/ /\ part = "ticks" /\ Unwritten(c)
           /\ \A t \in 1..MaxTicks :
                market_ticks'[t] = market_ticks[t] + (IF t \in ToSet(b.ticks) THEN 1 ELSE 0)
    <3>1. part = "ticks" => Unwritten(c)
      BY <1>2 DEF Unwritten, b
    <3> QED
      BY <1>1, <1>10, <2>2, <3>1, StoredIs
  <2>5. \A t \in 1..MaxTicks : /\ market_ticks[t] \in Nat /\ market_ticks[t] <= 1
                               /\ (market_ticks[t] > 0 => t \in seen)
    BY <1>1, <2>1 DEF RowsInv, PipelineTypes
  <2>6. \A t \in 1..MaxTicks : market_ticks'[t] <= 1 /\ (market_ticks'[t] > 0 => t \in seen')
    BY <1>2, <2>3, <2>4, <2>5
  <2>7. ToSet(<<>>) = {}
    BY DEF ToSet
  <2>8. ToSet(next.ticks) \subseteq ToSet(b.ticks) /\ (b.todo = {part} => ToSet(next.ticks) = {})
    BY <1>6, <2>7
  <2>9. ASSUME NEW d \in Consumers, NEW t \in ToSet(consumer'[d].ticks)
        PROVE  t \in seen' /\ (Unwritten(d)' => market_ticks'[t] = 0)
    <3>1. CASE d = c
      <4>1. t \in ToSet(b.ticks) /\ b.todo # {part} /\ t \in 1..MaxTicks
        BY <1>8, <2>3, <2>8, <2>9, <3>1
      <4>2. t \in seen'
        BY <1>2, <2>3, <4>1
      <4>3. next.at = "flushing"
        BY <1>6, <4>1
      <4>4. CASE part = "ticks"
        BY <1>6, <1>8, <3>1, <4>2, <4>3, <4>4 DEF Unwritten
      <4>5. CASE part # "ticks"
        <5>1. market_ticks' = market_ticks
          BY <2>4, <4>5
        <5>2. Unwritten(c)' => Unwritten(c)
          BY <1>6, <1>8, <4>3 DEF Unwritten, b
        <5> QED
          BY <2>3, <3>1, <4>1, <4>2, <5>1, <5>2
      <4> QED
        BY <4>4, <4>5
    <3>2. CASE d # c
      <4>1. consumer'[d] = consumer[d]
        BY <1>8, <3>2
      <4>2. t \in ToSet(consumer[d].ticks) /\ t \in 1..MaxTicks
        BY <1>1, <2>9, <4>1, TicksAre DEF BatchInv
      <4>3. t \notin ToSet(b.ticks)
        BY <2>1, <3>2, <4>2 DEF RowsInv, b
      <4>4. market_ticks'[t] = market_ticks[t]
        BY <2>4, <2>5, <4>2, <4>3
      <4>5. Unwritten(d)' <=> Unwritten(d)
        BY <4>1 DEF Unwritten
      <4> QED
        BY <1>2, <2>1, <4>2, <4>4, <4>5 DEF RowsInv
    <3> QED
      BY <3>1, <3>2
  <2>10. ASSUME NEW d \in Consumers, NEW e \in Consumers, d # e, NEW t \in ToSet(consumer'[d].ticks)
         PROVE  t \notin ToSet(consumer'[e].ticks)
    <3>1. \A f \in Consumers : ToSet(consumer'[f].ticks) \subseteq ToSet(consumer[f].ticks)
      BY <1>8, <2>8 DEF b
    <3> QED
      BY <2>1, <2>10, <3>1 DEF RowsInv
  <2> QED
    BY <2>6, <2>9, <2>10 DEF RowsInv
<1> QED
  BY <1>2, <1>9, <1>12, <1>13, <1>14, <1>15 DEF PipelineInv

\* blpop times out: the batch is to be flushed.
LEMMA PopTimesOutKeeps ==
  ASSUME PipelineInv, PopTimesOut PROVE PipelineInv'
<1> DEFINE b == consumer["redis"]
           next == [b EXCEPT !.at = "flushing", !.todo = Parts]
<1>1. PipelineTypes /\ BatchInv /\ BuildInv /\ StoredInv /\ (restarts = 0 => RowsInv)
  BY DEF PipelineInv
<1>2. /\ now' = now /\ minute' = minute /\ restarts' = restarts /\ Ticks' = Ticks
      /\ seen' = seen /\ buckets' = buckets
      /\ db_tick_buffer' = db_tick_buffer /\ topic' = topic
      /\ candles_1m' = candles_1m /\ market_ticks' = market_ticks
      /\ b.at = "waiting"
  BY DEF PopTimesOut, input, tables, Ticks
<1>3. "redis" \in Consumers /\ "redis" # "open" /\ Parts # {} /\ "ticks" \in Parts
  BY DEF Consumers, Parts
<1>4. b \in Buffer /\ consumer \in [Consumers -> Buffer]
  BY <1>1, <1>3 DEF PipelineTypes
<1>5. /\ next \in Buffer /\ next.at = "flushing" /\ next.todo = Parts /\ next.count = b.count
      /\ next.ticks = b.ticks /\ next.candles = b.candles
  <2> HIDE DEF b
  <2> QED
    BY <1>4 DEF Buffer
<1>6. consumer' = [consumer EXCEPT !["redis"] = next]
  BY DEF PopTimesOut
<1> HIDE DEF next, b
<1>7. /\ consumer' \in [Consumers -> Buffer] /\ consumer'["redis"] = next
      /\ \A d \in Consumers \ {"redis"} : consumer'[d] = consumer[d]
  BY <1>3, <1>4, <1>5, <1>6
<1>8. \A d \in Consumers : /\ consumer'[d].ticks = consumer[d].ticks
                           /\ consumer'[d].candles = consumer[d].candles
                           /\ consumer'[d].count = consumer[d].count
  BY <1>5, <1>7 DEF b
<1>9. PipelineTypes'
  BY <1>1, <1>2, <1>7 DEF PipelineTypes
<1>10. BatchInv'
  BY <1>1, <1>2, <1>3, <1>5, <1>7, <1>8 DEF BatchInv
<1>11. BuildInv'
  <2>1. \A m \in Minutes : SeenOf(m) \subseteq SeenOf(m)'
    BY <1>2 DEF SeenOf
  <2>2. \A d \in Builders, m \in Minutes : UnderConstruction(d, m)' = UnderConstruction(d, m)
    BY <1>2, <1>8 DEF UnderConstruction, Builders
  <2> QED
    BY <1>1, <2>1, <2>2, BuildFades
<1>12. StoredInv'
  BY <1>1, <1>2 DEF StoredInv, IsCandle
<1>13. ASSUME restarts = 0 PROVE RowsInv'
  <2>1. RowsInv
    BY <1>1, <1>13
  <2>2. \A d \in Consumers : Unwritten(d)' => Unwritten(d)
    BY <1>2, <1>7 DEF Unwritten, b
  <2> QED
    BY <1>2, <1>8, <2>1, <2>2 DEF RowsInv
<1> QED
  BY <1>2, <1>9, <1>10, <1>11, <1>12, <1>13 DEF PipelineInv

\* The end of the process: nothing is under construction, and the tables hold candles.
LEMMA EndsKeeps ==
  ASSUME PipelineInv, Ends, buckets' = [m \in Minutes |-> <<>>],
         UNCHANGED <<input, db_tick_buffer, topic>>,
         candles_1m' \in [Minutes -> Seq(Nat)], StoredInv',
         market_ticks' \in [1..MaxTicks -> Nat]
  PROVE  PipelineInv'
<1>1. PipelineTypes
  BY DEF PipelineInv
<1>2. /\ now' = now /\ minute' = minute /\ Ticks' = Ticks /\ restarts' = restarts + 1
      /\ seen' = {} /\ consumer' = [c \in Consumers |-> Fresh]
      /\ db_tick_buffer' = db_tick_buffer /\ topic' = topic
  BY DEF Ends, input, Ticks
<1>3. /\ Fresh \in Buffer /\ Fresh.at = "waiting" /\ Fresh.todo = {} /\ Fresh.count = 0
      /\ Fresh.ticks = <<>> /\ \A m \in Minutes : Fresh.candles[m] = <<>>
  BY DEF Fresh, Buffer, NoCandles
<1>4. restarts \in Nat /\ restarts' \in Nat /\ restarts' # 0
  BY <1>1, <1>2 DEF PipelineTypes
<1>5. buckets' \in [Minutes -> Seq(Nat)]
  OBVIOUS
<1>6. PipelineTypes'
  BY <1>1, <1>2, <1>3, <1>4, <1>5 DEF PipelineTypes
<1>7. BatchInv'
  <2>1. ToSet(<<>>) = {} /\ Batch \in Nat \ {0}
    BY <1>1, TicksAre DEF ToSet
  <2> QED
    BY <1>2, <1>3, <2>1 DEF BatchInv
<1>8. BuildInv'
  <2>1. \A d \in Builders, m \in Minutes : UnderConstruction(d, m)' \in {<<>>, << <<>> >>}
    BY <1>2, <1>3 DEF UnderConstruction, Builders
  <2> QED
    BY <2>1, EmptyApart DEF BuildInv
<1> QED
  BY <1>4, <1>6, <1>7, <1>8 DEF PipelineInv

LEMMA CancelledKeeps ==
  ASSUME PipelineInv, Cancelled PROVE PipelineInv'
<1> DEFINE open == {k \in Minutes : buckets[k] # <<>>}
<1>1. PipelineTypes /\ BuildInv /\ StoredInv
  BY DEF PipelineInv
<1>2. /\ Ends /\ buckets' = [m \in Minutes |-> <<>>] /\ minute' = minute
      /\ UNCHANGED <<input, db_tick_buffer, topic>>
  BY DEF Cancelled, input
<1>3. PICK f \in {NoCandles, CandlesOf(open, buckets)}, s \in {<<>>, consumer["redis"].ticks} :
        candles_1m' = Inserted(candles_1m, f) /\ market_ticks' = Stored(s)
  BY DEF Cancelled
<1>4. ASSUME NEW m \in Minutes
      PROVE  f[m] \in Seq(Seq(Nat)) /\ Within(f[m], SeenOf(m)) /\ Distinct(f[m])
  <2>1. /\ UnderConstruction("open", m) = <<buckets[m]>> /\ "open" \in Builders
        /\ UnderConstruction("open", m) \in Seq(Seq(Nat))
    BY <1>1, UnderIs DEF Builders
  <2>2. f[m] = <<>> \/ f[m] = <<buckets[m]>>
    BY <1>3 DEF NoCandles, CandlesOf
  <2>3. CASE f[m] = <<>>
    BY <2>3, EmptyApart
  <2>4. CASE f[m] = <<buckets[m]>>
    BY <1>1, <2>1, <2>4 DEF BuildInv
  <2> QED
    BY <2>2, <2>3, <2>4
<1>5. candles_1m' \in [Minutes -> Seq(Nat)] /\ StoredInv'
  BY <1>1, <1>2, <1>3, <1>4, InsertedIs
<1>6. market_ticks' \in [1..MaxTicks -> Nat]
  BY <1>1, <1>3, StoredIs
<1> QED
  BY <1>2, <1>5, <1>6, EndsKeeps

LEMMA KilledKeeps ==
  ASSUME PipelineInv, Killed PROVE PipelineInv'
<1>1. PipelineTypes /\ StoredInv
  BY DEF PipelineInv
<1>2. /\ Ends /\ buckets' = [m \in Minutes |-> <<>>] /\ minute' = minute
      /\ UNCHANGED <<input, db_tick_buffer, topic>>
      /\ candles_1m' = candles_1m /\ market_ticks' = market_ticks
  BY DEF Killed, input, tables
<1>3. candles_1m' \in [Minutes -> Seq(Nat)] /\ market_ticks' \in [1..MaxTicks -> Nat]
  BY <1>1, <1>2 DEF PipelineTypes
<1>4. StoredInv'
  BY <1>1, <1>2 DEF StoredInv, IsCandle, Ticks
<1> QED
  BY <1>2, <1>3, <1>4, EndsKeeps

LEMMA RollupKeeps ==
  ASSUME PipelineInv, Rollup PROVE PipelineInv'
<1>1. PipelineTypes
  BY DEF PipelineInv
<1>2. /\ UNCHANGED <<memory, restarts, candles_1m, market_ticks>>
      /\ now' = now /\ minute' = minute /\ Ticks' = Ticks
      /\ db_tick_buffer' = db_tick_buffer /\ topic' = topic
  BY DEF Rollup, input, Ticks
<1> QED
  BY <1>1, <1>2, QueuesMove DEF PipelineTypes

LEMMA PruneKeeps ==
  ASSUME PipelineInv, Prune PROVE PipelineInv'
<1>1. PipelineTypes /\ BatchInv /\ BuildInv /\ StoredInv /\ (restarts = 0 => RowsInv)
  BY DEF PipelineInv
<1>2. /\ now' = now /\ minute' = minute /\ restarts' = restarts /\ Ticks' = Ticks
      /\ seen' = seen /\ buckets' = buckets /\ consumer' = consumer
      /\ db_tick_buffer' = db_tick_buffer /\ topic' = topic
      /\ market_ticks' = market_ticks
  BY DEF Prune, input, memory, Ticks
<1>3. candles_1m' = [m \in Minutes |-> IF m < now - Retained THEN <<>> ELSE candles_1m[m]]
  BY DEF Prune
<1>4. \A m \in Minutes : /\ candles_1m'[m] \in {<<>>, candles_1m[m]}
                         /\ candles_1m[m] \in Seq(Nat) /\ IsCandle(candles_1m[m], m)
  BY <1>1, <1>3 DEF PipelineTypes, StoredInv
<1>5. candles_1m' \in [Minutes -> Seq(Nat)]
  <2>1. <<>> \in Seq(Nat)
    OBVIOUS
  <2>2. \A m \in Minutes : candles_1m'[m] \in Seq(Nat)
    BY <1>4, <2>1, Zenon
  <2> QED
    BY <1>3, <2>2
<1>6. StoredInv'
  <2>1. \A m \in Minutes : IsCandle(<<>>, m)
    BY DEF IsCandle, IsInjective, ToSet
  <2>2. \A m \in Minutes : IsCandle(candles_1m'[m], m)
    BY <1>4, <2>1
  <2> QED
    BY <1>2, <2>2 DEF StoredInv, IsCandle
<1>7. PipelineTypes'
  BY <1>1, <1>2, <1>5 DEF PipelineTypes
<1>8. BatchInv'
  BY <1>1, <1>2 DEF BatchInv
<1>9. BuildInv'
  BY <1>1, <1>2 DEF BuildInv, UnderConstruction, SeenOf
<1>10. restarts' = 0 => RowsInv'
  BY <1>1, <1>2 DEF RowsInv, Unwritten
<1> QED
  BY <1>6, <1>7, <1>8, <1>9, <1>10 DEF PipelineInv

-----------------------------------------------------------------------------
(* The theorems of the pipeline.                                           *)

LEMMA PipelineInitInv ==
  ASSUME PipelineInit PROVE PipelineInv
<1>1. MaxTicks \in Nat /\ MaxMinute \in Nat \ {0} /\ Batch \in Nat \ {0}
  BY PipelineAssumption
<1>2. /\ now = 1 /\ minute = <<>> /\ db_tick_buffer = <<>> /\ topic = <<>> /\ seen = {}
      /\ buckets = [m \in Minutes |-> <<>>] /\ consumer = [c \in Consumers |-> Fresh]
      /\ restarts = 0 /\ candles_1m = [m \in Minutes |-> <<>>]
      /\ market_ticks = [t \in 1..MaxTicks |-> 0]
  BY DEF PipelineInit
<1>3. /\ Fresh \in Buffer /\ Fresh.at = "waiting" /\ Fresh.todo = {} /\ Fresh.count = 0
      /\ Fresh.ticks = <<>> /\ \A m \in Minutes : Fresh.candles[m] = <<>>
  BY DEF Fresh, Buffer, NoCandles
<1>4. ToSet(<<>>) = {}
  BY DEF ToSet
<1>5. PipelineTypes
  <2>1. now \in Minutes /\ minute \in Seq(Minutes) /\ Len(minute) <= MaxTicks
    BY <1>1, <1>2 DEF Minutes
  <2>2. db_tick_buffer \in Seq(Ticks) /\ topic \in Seq(Ticks) /\ seen \subseteq Ticks
    BY <1>2
  <2>3. /\ buckets \in [Minutes -> Seq(Nat)] /\ candles_1m \in [Minutes -> Seq(Nat)]
        /\ consumer \in [Consumers -> Buffer] /\ restarts \in Nat
        /\ market_ticks \in [1..MaxTicks -> Nat]
    BY <1>2, <1>3
  <2> QED
    BY <2>1, <2>2, <2>3 DEF PipelineTypes
<1>6. BatchInv
  BY <1>1, <1>2, <1>3, <1>4 DEF BatchInv
<1>7. BuildInv
  <2>1. \A d \in Builders, m \in Minutes : UnderConstruction(d, m) \in {<<>>, << <<>> >>}
    BY <1>2, <1>3 DEF UnderConstruction, Builders
  <2> QED
    BY <2>1, EmptyApart DEF BuildInv
<1>8. StoredInv
  <2>1. \A m \in Minutes : IsCandle(<<>>, m)
    BY <1>4 DEF IsCandle, IsInjective
  <2> QED
    BY <1>2, <2>1 DEF StoredInv
<1>9. RowsInv
  BY <1>2, <1>3, <1>4 DEF RowsInv
<1> QED
  BY <1>5, <1>6, <1>7, <1>8, <1>9 DEF PipelineInv

LEMMA PipelineStepKeeps ==
  ASSUME PipelineInv, [PipelineNext]_pipelineVars PROVE PipelineInv'
<1>1. CASE UNCHANGED pipelineVars
  <2>1. /\ UNCHANGED <<memory, restarts, candles_1m, market_ticks>>
        /\ now' = now /\ minute' = minute /\ Ticks' = Ticks
        /\ db_tick_buffer' = db_tick_buffer /\ topic' = topic
    BY <1>1 DEF pipelineVars, memory, Ticks
  <2> QED
    BY <2>1, QueuesMove DEF PipelineInv, PipelineTypes
<1>2. CASE \E c \in Consumers, part \in Parts : FlushPart(c, part)
  BY <1>2, FlushPartKeeps
<1> QED
  BY <1>1, <1>2, PublishKeeps, MinutePassesKeeps, PopRedisKeeps, PopLostKeeps, ReadKafkaKeeps,
     PopTimesOutKeeps, CancelledKeeps, KilledKeeps, RollupKeeps, PruneKeeps DEF PipelineNext

\* A tick of two places under construction is one tick, of one place in one candle.
LEMMA OnePlace ==
  ASSUME PipelineInv,
         NEW b \in Builders, NEW c \in Builders, NEW m \in Minutes, NEW n \in Minutes,
         NEW k \in DOMAIN UnderConstruction(b, m), NEW l \in DOMAIN UnderConstruction(c, n),
         NEW i \in DOMAIN UnderConstruction(b, m)[k], NEW j \in DOMAIN UnderConstruction(c, n)[l],
         UnderConstruction(b, m)[k][i] = UnderConstruction(c, n)[l][j]
  PROVE  <<b, m, k, i>> = <<c, n, l, j>>
<1>1. BuildInv
  BY DEF PipelineInv
<1>2. UnderConstruction(b, m)[k][i] \in SeenOf(m) /\ UnderConstruction(c, n)[l][j] \in SeenOf(n)
  BY <1>1 DEF BuildInv, Within
<1>3. m = n
  BY <1>2 DEF SeenOf
<1>4. b = c
  BY <1>1, <1>3 DEF BuildInv, Disjoint
<1>5. k = l /\ i = j
  BY <1>1, <1>3, <1>4 DEF BuildInv, Distinct
<1> QED
  BY <1>3, <1>4, <1>5

LEMMA OnceFromInv ==
  ASSUME PipelineInv PROVE CountedOnce
<1>1. \A b, c \in Builders, m, n \in Minutes :
        \A k \in DOMAIN UnderConstruction(b, m), l \in DOMAIN UnderConstruction(c, n) :
          \A i \in DOMAIN UnderConstruction(b, m)[k], j \in DOMAIN UnderConstruction(c, n)[l] :
            UnderConstruction(b, m)[k][i] = UnderConstruction(c, n)[l][j]
              => <<b, m, k, i>> = <<c, n, l, j>>
  BY OnePlace
<1>2. \A m \in Minutes : /\ IsInjective(candles_1m[m])
                         /\ \A t \in ToSet(candles_1m[m]) : minute[t] = m
  BY DEF PipelineInv, StoredInv, IsCandle
<1>3. restarts = 0 => \A t \in Ticks : market_ticks[t] <= 1
  BY TicksAre DEF PipelineInv, RowsInv
<1> QED
  BY <1>1, <1>2, <1>3 DEF CountedOnce

LEMMA TypesFromInv ==
  ASSUME PipelineInv PROVE PipelineTypeOK
<1>1. PipelineTypes /\ BatchInv
  BY DEF PipelineInv
<1>2. \A c \in Consumers : /\ consumer[c].count \in 0..Batch
                           /\ ToSet(consumer[c].ticks) \subseteq Ticks
                           /\ (consumer[c].at = "flushing") <=> (consumer[c].todo # {})
  <2>1. \A c \in Consumers : consumer[c].count \in Nat /\ Batch \in Nat
    BY <1>1, TicksAre DEF PipelineTypes, Buffer
  <2> QED
    BY <1>1, <2>1 DEF BatchInv
<1>3. ASSUME NEW m \in Minutes PROVE ToSet(buckets[m]) \subseteq Ticks
  <2>1. Within(<<buckets[m]>>, SeenOf(m))
    BY <1>1, UnderIs DEF PipelineInv, BuildInv, Builders
  <2>2. DOMAIN <<buckets[m]>> = {1} /\ <<buckets[m]>>[1] = buckets[m]
    BY SingleIs
  <2>3. \A i \in DOMAIN buckets[m] : buckets[m][i] \in SeenOf(m)
    BY <2>1, <2>2 DEF Within
  <2>4. SeenOf(m) \subseteq Ticks
    BY <1>1 DEF SeenOf, PipelineTypes
  <2> QED
    BY <2>3, <2>4 DEF ToSet
<1> QED
  BY <1>1, <1>2, <1>3 DEF PipelineTypeOK, PipelineTypes

\* The inductive invariant: each tick under construction was seen since the process
\* started and is in one place, in its own minute, and each batch has one holder.
THEOREM PipelineInvariant == PipelineSpec => []PipelineInv
<1>1. PipelineInit => PipelineInv
  BY PipelineInitInv
<1>2. PipelineInv /\ [PipelineNext]_pipelineVars => PipelineInv'
  BY PipelineStepKeeps
<1> QED
  BY <1>1, <1>2, PTL DEF PipelineSpec

\* Every variable stays in its domain; a batch is never more than full.
THEOREM PipelineTypesHold == PipelineSpec => []PipelineTypeOK
BY PipelineInvariant, TypesFromInv, PTL

\* A tick counts once, however Redis and Kafka deliver it, flushes fail and the process
\* ends: in candles under construction, in stored ones, and in the rows of a first run.
THEOREM TicksCountOnce == PipelineSpec => []CountedOnce
BY PipelineInvariant, OnceFromInv, PTL
=============================================================================
