-------------------------- MODULE IntelligenceFeed --------------------------
(***************************************************************************)
(* From the market to the order ticket: intelligence_worker.py computes    *)
(* what the decision services say of every active symbol and files it in   *)
(* Redis with a time to live; endpoints/intelligence.py serves what is     *)
(* filed, or nothing.  Two of the services stand for all: the one the      *)
(* order ticket shows and the command center, computed and filed one after *)
(* the other.  Redis forgets a snapshot that is not filed again within its *)
(* time to live; here it may at any time, so a cycle may outlast it.       *)
(***************************************************************************)
EXTENDS TradeGates, Sequences, FiniteSets

CONSTANTS
  Symbols,        \* rows of the symbols table
  KeyOf,          \* normalize_symbol: the suffix of a symbol's Redis keys
  ReadingsOf,     \* what the database may say of each symbol
  Primary,        \* primary_symbol: the most traded one
  NoOne,          \* the symbol of an error payload
  Retirable,      \* bound: the symbols an operator may retire
  Failing,        \* bound: the symbols whose computations may fail
  Kinds,          \* the services a task asks, in order
  MaxConcurrency  \* MAX_CONCURRENCY, of the worker's semaphore

Keys == {KeyOf[s] : s \in Symbols}
N    == Len(Kinds)

ASSUME SymbolAssumption  == Primary \in Symbols /\ NoOne \notin Symbols
ASSUME ReadingAssumption == \A s \in Symbols : ReadingsOf[s] \subseteq {r \in Reading : Consistent(r)}
ASSUME KindAssumption    == Kinds \in Seq({"why_not_trade", "command_center"}) /\ N > 0
ASSUME SlotAssumption    == MaxConcurrency \in Nat \ {0}

VARIABLES
  mkt,      \* what the database says of each symbol now
  active,   \* Symbol.is_active
  worker,   \* the worker process: "dead", "running" or "stopping"
  listed,   \* Worker.symbols
  phase,    \* where Worker.run is: "idle" or "gathering"
  task,     \* process_symbol of each symbol: the step it is at, 0 for none, and
            \* what it has computed and not yet filed
  cache     \* the snapshot under each key, None if there is none

None == [of |-> NoOne, says |-> "nothing"]

feedVars == <<mkt, active, worker, listed, phase, task, cache>>

NoTask == [at |-> 0, got |-> <<>>]

FeedInit ==
  /\ mkt \in [Symbols -> UNION {ReadingsOf[s] : s \in Symbols}]
  /\ \A s \in Symbols : mkt[s] \in ReadingsOf[s]
  /\ active = Symbols
  /\ worker = "dead" /\ listed = {} /\ phase = "idle"
  /\ task = [s \in Symbols |-> NoTask]
  /\ cache = [k \in 1..N |-> [key \in Keys |-> None]]

-----------------------------------------------------------------------------
(* The database: ticks arrive, the regime scan appends a row, an operator  *)
(* retires a symbol.                                                       *)

MarketMoves(s) ==
  /\ \E r \in ReadingsOf[s] \ {mkt[s]} : mkt' = [mkt EXCEPT ![s] = r]
  /\ UNCHANGED <<active, worker, listed, phase, task, cache>>

SetActive(s) ==
  /\ s \in Retirable
  /\ active' = IF s \in active THEN active \ {s} ELSE active \cup {s}
  /\ UNCHANGED <<mkt, worker, listed, phase, task, cache>>

-----------------------------------------------------------------------------
(* The worker process.                                                     *)

Start ==
  /\ worker = "dead"
  /\ worker' = "running"
  /\ UNCHANGED <<mkt, active, listed, phase, task, cache>>

\* SIGTERM: the cycle under way is finished.
Shutdown ==
  /\ worker = "running"
  /\ worker' = "stopping"
  /\ UNCHANGED <<mkt, active, listed, phase, task, cache>>

Gone ==
  /\ worker' = "dead" /\ listed' = {} /\ phase' = "idle"
  /\ task' = [s \in Symbols |-> NoTask]
  /\ UNCHANGED <<mkt, active, cache>>

Exit  == worker = "stopping" /\ phase = "idle" /\ Gone
Crash == worker # "dead" /\ Gone

\* Mutation of Fetched: retired rows are fetched as well.
EveryRow == Symbols

\* fetch_symbols.
Fetched == active

\* refresh_symbols; a failure is logged and the list kept.
RefreshSymbols ==
  /\ worker = "running"
  /\ listed' = Fetched
  /\ UNCHANGED <<mkt, active, worker, phase, task, cache>>

\* A cycle of run: one task per listed symbol, all of them awaited.  The users'
\* tasks that follow all return at once: nothing writes portfolio:{user}.
CycleBegin ==
  /\ worker = "running" /\ phase = "idle" /\ listed # {}
  /\ phase' = "gathering"
  /\ task' = [s \in Symbols |-> IF s \in listed THEN [at |-> 1, got |-> <<>>] ELSE NoTask]
  /\ UNCHANGED <<mkt, active, worker, listed, cache>>

CycleEnd ==
  /\ phase = "gathering" /\ \A s \in Symbols : task[s] = NoTask
  /\ phase' = "idle"
  /\ UNCHANGED <<mkt, active, worker, listed, task, cache>>

-----------------------------------------------------------------------------
(* process_symbol: every kind is computed, then every kind is filed.  Each *)
(* computation reads the database anew and may fail; a failed one is filed *)
(* like any other, over what was there.                                    *)

Verdict(k, r) == IF Kinds[k] = "why_not_trade" THEN WhyNotDecision(r) ELSE QuantDecision(r)

\* compute_decision_current, which /decision/current answers with: never filed.
LiveDecision(s) == QuantDecision(mkt[s])

Gated == {k \in 1..N : Kinds[k] = "command_center"}

Computed(k, s) == [of |-> s, says |-> Verdict(k, mkt[s])]

Failed(k) == [of |-> NoOne, says |-> IF Kinds[k] = "why_not_trade" THEN "BLOCK" ELSE "WAIT"]

\* Mutation of Subject: the call without `symbol' computes the primary one.
PrimaryAlways(s) == Primary

\* get_symbol_with_ticks, of a service that is given the symbol.
Subject(s) == s

\* No row or no system user: the task returns.  Otherwise it enters the semaphore.
TaskReturns(s) ==
  /\ task[s].at = 1 /\ task[s].got = <<>>
  /\ task' = [task EXCEPT ![s] = NoTask]
  /\ UNCHANGED <<mkt, active, worker, listed, phase, cache>>

Entered == {s \in Symbols : task[s].at > 1}

Compute(s) ==
  LET k == task[s].at
  IN  /\ k \in 1..N
      /\ k = 1 => Cardinality(Entered) < MaxConcurrency
      /\ \E p \in {Computed(k, Subject(s)), Failed(k)} :
           /\ p = Failed(k) => s \in Failing
           /\ task' = [task EXCEPT ![s] = [at |-> k + 1, got |-> Append(@.got, p)]]
      /\ UNCHANGED <<mkt, active, worker, listed, phase, cache>>

File(s) ==
  LET k == task[s].at - N
  IN  /\ k \in 1..N
      /\ cache' = [cache EXCEPT ![k][KeyOf[s]] = Head(task[s].got)]
      /\ task' = [task EXCEPT ![s] = IF k = N THEN NoTask
                                      ELSE [at |-> @.at + 1, got |-> Tail(@.got)]]
      /\ UNCHANGED <<mkt, active, worker, listed, phase>>

-----------------------------------------------------------------------------
(* Redis.                                                                  *)

\* Mutation of Lapsable: `ex' is dropped, a snapshot has no time to live.
NeverLapses(k, key) == FALSE

Lapsable(k, key) == cache[k][key] # None

Expire(k, key) ==
  /\ Lapsable(k, key)
  /\ cache' = [cache EXCEPT ![k][key] = None]
  /\ UNCHANGED <<mkt, active, worker, listed, phase, task>>

\* _get_worker_cached of a request about s, or about no symbol.
Served(k, s) == cache[k][KeyOf[s]]

-----------------------------------------------------------------------------
Task(s) == TaskReturns(s) \/ Compute(s) \/ File(s)

FeedNext ==
  \/ \E s \in Symbols : MarketMoves(s) \/ SetActive(s) \/ Task(s)
  \/ Start \/ Shutdown \/ Exit \/ Crash
  \/ RefreshSymbols \/ CycleBegin \/ CycleEnd
  \/ \E k \in 1..N, key \in Keys : Expire(k, key)

\* A process that runs goes on; every call it makes returns.  The symbols are
\* refreshed every ten seconds.  Nobody has to start, stop or kill the worker.
FeedFairness ==
  /\ \A s \in Symbols : WF_feedVars(Task(s))
  /\ WF_feedVars(RefreshSymbols) /\ WF_feedVars(CycleBegin) /\ WF_feedVars(CycleEnd)
  /\ \A k \in 1..N, key \in Keys : WF_feedVars(Expire(k, key))

FeedSpec == FeedInit /\ [][FeedNext]_feedVars /\ FeedFairness

-----------------------------------------------------------------------------
\* Type invariant: every variable stays in its domain.
FeedTypeOK ==
  LET Payload == [of : Symbols \cup {NoOne}, says : {"ALLOW", "REDUCE", "WAIT", "BLOCK"}]
  IN  /\ mkt \in [Symbols -> Reading]
      /\ active \subseteq Symbols /\ listed \subseteq Symbols
      /\ worker \in {"dead", "running", "stopping"} /\ phase \in {"idle", "gathering"}
      /\ task \in [Symbols -> [at : 0 .. 2 * N, got : Seq(Payload)]]
      /\ cache \in [1..N -> [Keys -> Payload \cup {None}]]

\* "these results are cached under this symbol's key": whatever tasks run side by
\* side and wherever they die, a snapshot is about a symbol of its own key.
FiledUnderOwnSymbol ==
  \A k \in 1..N, key \in Keys : cache[k][key].of \in {NoOne} \cup {s \in Symbols : KeyOf[s] = key}

\* "dying off if the worker actually stops": what is served of a symbol comes to agree
\* with what the live page computes once that is settled (compute_decision_current),
\* and a symbol that is retired for good comes to have nothing: not only while the
\* worker runs, but also when it is killed between two writes or never runs again.
StaleAdviceFades ==
  \A s \in Symbols :
    /\ \A d \in {"ALLOW", "REDUCE", "WAIT", "BLOCK"} : \A k \in Gated :
         <>[](LiveDecision(s) = d) => <>[](Served(k, s).of = s => Served(k, s).says = d)
    /\ <>[](s \notin active) => <>[](\A k \in 1..N : Served(k, s) = None)

\* Worse conditions never loosen a decision: from every reading, no service answers
\* a turn for the worse, of one signal or several, with a milder verdict or a larger size.
WorseNeverLooser ==
  \A s \in Symbols : \A w \in Worsened(mkt[s]) :
    /\ NotMilder(QuantDecision(w), QuantDecision(mkt[s]))
    /\ NotMilder(WhyNotDecision(w), WhyNotDecision(mkt[s]))
    /\ NotMilder(NotifyDecision(w), NotifyDecision(mkt[s]))
    /\ NotMilder(LatestDecision(w), LatestDecision(mkt[s]))
    /\ FinalSize(w) <= FinalSize(mkt[s])
=============================================================================
