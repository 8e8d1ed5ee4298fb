# Verification of the PiOS backend

TLA+ models of the parts of this repository whose correctness depends on
interleavings, failures and ordering, the TLC runs that check them on small
instances, and TLAPS proofs, for every instance, of every safety property those runs
check. Paths below are relative to the repository; `services/` is `app/services/`,
`workers/` is `app/workers/`, `endpoints/` is `app/api/v1/endpoints/`.

## 1. The system

A FastAPI server takes orders from traders, sends them to brokers (Alpaca, OANDA,
MetaTrader 5 through an expert advisor, CCXT exchanges, a paper broker), records
executions as `Fill` rows and nets them into `Position` rows in PostgreSQL. Beside it
run an ingestion process that stores market data, a worker that computes trade advice
into Redis, and Celery workers for backtests. `Dockerfile` and `docker-compose.yml`
start **two** uvicorn processes, and `main.py`'s lifespan starts **every background
loop in each of them**, so each poller, each push listener and the conditional-order
engine runs twice, beside the requests of both. Rows are locked with
`SELECT ... FOR UPDATE` in some handlers and not in others; a session ends by commit or
rollback (`db/session.py`).

| component | state it keeps | operations | interacts with |
|---|---|---|---|
| order state machine (`models/all_models.py`) | `Order.status`, the transition table | `Order.transition` | every writer of an order |
| order requests (`services/order_service.py`, `endpoints/orders.py`) | `Order`, `OrderEvent`, `Fill` rows | `submit_order` with `_risk_check`, `cancel_order` | adapters (awaited inside the transaction), positions, audit, events |
| fill sync core (`services/broker_fill_sync.py`, `oanda_fill_sync.py`, `mt5_fill_sync.py`) | none of its own | `sweep_once`, `handle_order_update`, `sync_order_against_broker` | adapters' `get_order`, order rows under lock |
| Alpaca sync (`services/alpaca_fill_sync.py`, `alpaca_trade_stream.py`) | `_activity_lag_first_seen`, per process | `_sync_order` from the poller and from the trade stream | `get_order`, `get_order_fills`, order rows under lock |
| kill switch (`services/risk_service.py`) | `KillSwitchEvent` | `trigger_kill_switch` | orders and positions, read **without** a lock |
| algorithmic execution (`services/execution_algo.py`) | one asyncio task per order | `run_algo_order` | adapter per slice, order row under lock; market data at the paper broker |
| conditional orders (`services/conditional_orders.py`) | none (an OCO pair is two order rows) | `sweep_conditionals`, `_execute_triggered`, `_cancel_oco_siblings` | marks, adapters, order rows under lock |
| positions (`services/positions_service.py`) | `Position` rows | `apply_fill_to_position` | called in the transaction of every `Fill` |
| position marks, adopted holdings (`services/position_marks.py`, `workers/backtest_worker.py`, `endpoints/brokers.py`) | `unrealized_pnl`, rows | `mark_open_positions`, `snapshot_pnl`, `adopt_broker_holding` | positions, without a lock |
| MetaTrader bridge (`services/brokers/mt5/adapter.py`) | connections, pending requests | register, relay, `send_request` | Redis between the processes |
| audit chain (`services/audit_service.py`) | hash-chained `AuditLog` | `write_audit` | every handler |
| trade events and fan-out (`services/trade_events.py`, `core/pubsub.py`, `services/websocket/manager.py`) | sets of sockets | publish, listen, broadcast | Redis, websockets |
| strategies and backtests (`services/strategy_service.py`, `workers/backtest_worker.py`) | stage, `gate_history`, job status | advance, retire, submit; Celery tasks, nightly Darwin cycle | database, Celery's delivery and retries |
| market pipeline (`workers/`, `app/providers/`, `services/publisher.py`) | open candles, buffers, feeds | ingest, check, aggregate, flush, roll up | venues, Redis list, Kafka, database |
| market data service (`services/market_data_service.py`) | breaker around Yahoo, cached pages | tickers, candles, snapshot, breadth | external sources, paper broker |
| intelligence (`services/quant_engine.py`, `services/intelligence/`, `workers/intelligence_worker.py`, `endpoints/intelligence.py`) | snapshots in Redis, each stream's memory | compute, file, serve, notify | database, Redis |
| authentication (`endpoints/auth.py`) | `UserSession`, `failed_logins` | login, refresh, logout | database |

What is hard here:

* the broker is **awaited between the lock and the commit**, and the venue moves on
  meanwhile; a paper slice even awaits market data under its row lock;
* polls and push events report *cumulative* quantities, which must become deltas
  exactly once, by whichever session comes first; events may be lost, repeated,
  reordered, and carry old state;
* a session may be rolled back, or its process die, after the broker was called;
* some writers (kill switch, marks, adoption, Darwin, limits, the audit chain) take no lock;
* OCO cancellation locks two rows in an order that depends on the user;
* one task walks a set of sockets with awaits while others change it;
* Redis and Kafka deliver the same tick to consumers that share one aggregator, and
  flushes fail in part;
* what the order ticket shows was computed earlier, by a process that may be gone.

What makes the parts correct: fills are exact, the status tells the truth, terminal
rows are final, what is over at the venue is closed in the end, a leg, a slice, a key
or a request is sent once, positions conserve quantity and money, what is published is
committed, a stage is explained by its history, a tick counts once, and advice is about
its own symbol, is not milder for worse conditions, and fades when nobody renews it.

## 2. Modules

| module | models | state and code |
|---|---|---|
| `OrderStatus` | the transition table and the status sets | `Moves` is `ALLOWED_ORDER_TRANSITIONS` |
| `OrderLedger` | abstract specification: an order trades, ends, and is booked, once, in the app | |
| `OrderExecution` | `submit_order`, `cancel_order`, `sync_order_against_broker` with poll and push | `status`, `filled_qty`, `has_ticket`, `booked` are the row and the sum of its fills; `vstate`, `traded` the venue; a *worker* is one database session in any process, `seen` the row it read under its lock, `view` the broker's answer it holds |
| `KillSwitch` | EXTENDS it: `trigger_kill_switch` beside its sessions | `targets` is what the unlocked SELECT returned |
| `AuditChain` | `write_audit` | `entry` is the table, a hash is the entry that has it; ids are taken at the flush and never given back |
| `OrderIntake` | EXTENDS it: POST `/orders` from the risk check to the event after the commit, several requests at once | `req` is one request's transaction, `sent` what the broker took, `due` the events owed |
| `AlgoExecution` | `run_algo_order` for one order, with cancel and push events | `slice`, `task` are the loop; `broker` is what its broker does |
| `MarketSources` | the source chains, the breaker and the page cache of `market_data_service` | `failures`, `paused` are the `_yf_` globals, `cache` is `_ttl_cache` |
| `PaperAlgo` | composes the two: a paper slice asks for its price under the row lock | `price` says where a slice's price comes from |
| `OcoOrders` | the conditional engine of each process on one OCO pair, and `cancel_order` on either leg | row locks are explicit (`holder`) because a request takes two |
| `PositionBook` | `apply_fill_to_position` and the kill switch's position half | `rows` is the table, `found`/`read` what a session selected; quantities are signed |
| `PositionMarks` | EXTENDS it: the revaluing jobs and the adoption of a holding | `unreal` is `unrealized_pnl`, `job` what a job read |
| `AlpacaSync` | `_sync_order` from pollers and trade updates | unit *k* of the order is its *k*-th execution, `fills[k]` the price it was recorded at, `lag_seen` the dictionary of each process as an age |
| `RemoteCall` | abstract specification: a request is executed once and its caller answered once, ok only after the execution | |
| `Mt5Bridge` | registry, relay and `send_request` for one terminal | `registry`, `server` are `_connections`, `_relay_tasks` of each process, `presence` the Redis key, `mail` the channel; the expert advisor is external |
| `FanOut` | the listener task, `WSManager` and the publishers | `channel` is what Redis has delivered, `listener` the walk over a set of sockets, `conns` the sets |
| `MarketFeeds` | the supervision of the three kinds of provider | one provider per behaviour: `feed` is where its task is, `up` the venues that answer |
| `TickPath` | both ends of the live path, which meet in Redis only | `end` says which end a behaviour is about |
| `MarketPipeline` | both consumers, checks, aggregation, flush, shutdown, roll-up, pruning | a tick is a number, a candle the sequence of its ticks, buffered candles are kept per minute; `seen` is `DQPipeline._seen`, `buckets` the aggregator's |
| `BacktestJobs` | the jobs table and the Celery tasks | `queue` are undelivered messages, `busy` what each worker runs |
| `StrategyLifecycle` | EXTENDS it: the strategy routes and the nightly cycle | `strat` is the table, `pc` a request's transaction |
| `TradeGates` | the decision functions over discrete readings | thresholds are the code's |
| `IntelligenceFeed` | the worker's cycle, its snapshots and what is served | `task` is `process_symbol` of each symbol, `cache` Redis with a time to live |
| `NotificationStream` | EXTENDS it: the generator behind one open page | `prev` is `prev_decisions`, `heard` what the page was told |
| `OrderExecutionProofs` (with the kill switch), `IntakeProofs`, `OcoProofs`, `AlpacaProofs`, `PositionProofs` (with the schedules), `Mt5BridgeProofs`, `StrategyProofs`, `MarketProofs` | theorems; `IntakeProofs` also has the fan-out, `MarketProofs` the pipeline and the advice | |
| `MC...` | the instances TLC checks | |

How a handler becomes actions: everything between two points where another session
can run is one action. Those points are the row lock, the broker call and the commit,
so a typical handler is *Begin* (lock, re-check), *AtVenue/Fetch* (the broker acts or
answers) and *Commit* (all the writes of the transaction). `Abort` and the fault actions
are `get_db`'s rollback: writes vanish, what the broker did stays. What a lock protects
follows from a guard (`Free`, `Lockable`, `Unlocked`...); writers that take no lock have
none when they read, and wait for the row when they write. In one event loop (fan-out,
pipeline, sources, intelligence) the steps are what runs between two awaits.

Abstractions: quantities are small integers; a price is "known or not" in
`OrderExecution`, a number in `PositionBook`, the identity of the execution in
`AlpacaSync`; a source's answer is data or nothing; a time to live may end at any
time; reasons, TCA rows and wording are left out. A venue may trade, reject, expire or
cancel an order at any time while it works, and an exception from an adapter may hide
an order the venue took. Two of the worker's services stand for all that are filed the
same way; the quality checks may reject any tick that is not a duplicate. Each module
with state declares a type invariant; the proofs establish those of the modules they are about, and the runs
spend their properties on the rest.

## 3. Runs

All runs expect TLC to finish without error.

| run | question | bounds and why they are enough |
|---|---|---|
| `order_execution` | Are fills exact, the status true, terminal rows final; does every step implement the ledger; is every open order that is over at the venue closed? | one order of 3 units, three sessions: a holder, a waiter and one more; orders do not interact |
| `kill_switch` | Is a FILLED order booked whole and does an ended order stay ended beside the unlocked switch? | two orders of 2 units, two sessions and the switch; adapters report price and quantity |
| `order_intake` | Is a key sent once, the limit passed only by requests that run together, news committed, the audit chain linked? | one trader, two requests, one repeated key, room for one open order, three rows and audit ids: a collision at the flush, a lost row at the broker, a forked chain |
| `algo_execution` | Is the schedule's accounting right, does it stop when cancelled, does no slice keep the lock for ever, does an outage of Yahoo not outlast itself? | 7 units in 2s: four slices, the last smaller; all kinds of broker; four kinds of ticker, a page, a chart; one visitor, enough to trip the breaker under the schedule |
| `position_book` | Are quantity and money conserved, is a closed row left alone by fills and kill switch, do marks catch up? | two sessions, three fills of three kinds, one job, one adoption: open, extend, reduce, close, flip, two first fills at once, a mark written over each of them |
| `oco_orders` | Is a leg fired once, an ended leg left alone, the sibling of a filled leg closed? | two engines, two users, one fault; all lock cycles of the pair occur |
| `alpaca_sync` | Are executions recorded once at their own price, is FILLED complete, does a deferral end? | two processes, three executions, one fault, a grace of one tick |
| `mt5_bridge` | Is a request executed at most once; is every step one of `RemoteCall`, so that a caller gets one answer and ok is about its own request; does nobody wait on a dead connection; does a dead process's claim disappear? | two processes, two requests, two connections one after the other, one fault |
| `strategies` | Does the gate history explain every stage; does nobody's strategy trade without a backtest that earned it? | two strategies (one may be Darwin's child), two requests, two jobs, one worker, one retry |
| `market` | Does a tick count once; is the list drained? | three ticks, two minutes in hours of one, batches of two, one end of the process, nothing retained |
| `fan_out` | Are events delivered to their traders in order and to every socket that stays; does a feed return with its venue? | two traders, two sockets, two events; four exchanges of which two list the symbols, three forex batches, one restart |
| `intelligence` | Are snapshots about their own symbol, decisions monotone, pages told the truth; does stale advice fade? | a busy symbol that crosses the thresholds and is the fallback, a quiet one that may be retired; failures, stops and kills at any step; one page |

Every property has a mutant of the code (a dropped lock, a repeated quantity, a
missing re-check, a lost time to live...) under which TLC finds it violated.

Fairness, and why the code justifies it:

* `order_execution`: each sweep visits every live order and PostgreSQL queues lock
  requests (SF on `SyncBegin`); a broker asked for ever answers eventually and such a
  pass is not rolled back every time (SF); sessions that have begun end (WF).
  `alpaca_sync`: the same, and time passes.
* `oco_orders`: each engine's loop catches exceptions and goes on
  (`conditional_orders.py:279-291`), lock queues are served in order (SF on the locking
  steps), a begun cancellation ends.
* `mt5_bridge`: the server's keep-alive finds a dead socket, a cancelled task runs its
  `finally`, Redis expires keys (WF).
* `algo_execution`: row locks are granted in order, so cancellations do not starve the
  task (SF on `RunTask`); every request to a source has a time-out, a cancellation that
  has begun ends, the pause and the cached pages run out (WF).
* `position_book`: sessions end and the job runs when due (WF); the price source answers
  now and then (SF on `JobWrites`).
* `market`: the writer is a loop that survives every error (WF on popping and flushing).
* `fan_out`: the event loops run a task that can run (WF); clients, publishers and venues
  owe nothing.
* `intelligence`: a process that runs goes on, symbols are refreshed, keys expire (WF);
  nobody has to start, stop or kill the worker, and no page has to poll.

Nothing is assumed of users, venues, push events, the expert advisor, the activities
feed, or of Celery's delivery.

## 4. Proofs

Every theorem is about all values of the constants that satisfy the named assumptions of
the modules. None of the properties is inductive as it stands: a commit writes what a
session saw, so an invariant must say what sessions, messages and events in flight know.
Each proof module defines its `IInv`, shows it initially, has one lemma per action, and
derives the theorems. TLC checked each `IInv` on the instances of section 3 first.

**Order core** (`OrderExecutionProofs`). `TypeCorrect`, `StatusIsTruthful`,
`TerminalIsFinal` need no further assumption; `NoFillBookedTwice` and `Refinement` need
adapters that report the quantity of an inline fill (`ReportsInlineQty`; without it an
order is booked beyond what the venue executed), `FilledMeansBooked` also that FILLED
comes with a price (`~PriceLookupFails`). `IInv` is `TypeOK` and `LockInv` (a session
that works on an order holds it alone, and what it has `seen` is what the row still
shows), `SubmitInv` (an order under submission has no row another session could work
on), `ReportInv` (a `view` and every event on its way report at most what the venue has
executed, with a status the venue had at that quantity) and `RowInv` (what the row and
its fills say of the venue). With `LockInv` the delta between view and row is the part
not booked yet, which is the argument for exactness; the check of `Order.transition`
applies to the current row, which is the argument for finality. `Refinement` shows each
step to be a trade, a settlement, a booking or a stutter of `OrderLedger`.

**Kill switch** (same module). All of `IInv` survives beside it: its SELECT takes no
lock, but its UPDATE waits for the rows, so no session is left holding a row whose status
it no longer knows. `KillKeepsFills` and `KillNeverRevives` follow. `TerminalFinal` does not.

**Intake and audit** (`IntakeProofs`: `IntakeTypes`, `KeySentOnce`, `LimitOverrun`,
`NewsIsTrue`, `ChainIsReal`). `IndexInv` is what the unique index keeps, since the look-up
before it keeps nothing, and `ReqInv` ties a request past its INSERT to a row of its own;
so only one of two racing requests gets to the broker. `OpenInv` counts a trader's open
rows and requests in flight together: a request that passed the check found room for
itself but not for the others. `ChainInv` says an entry links to one that is committed or
that commits with it, which needs that ids grow and that what a writer has read stays
readable. `IntakeAssumption` (finitely many sessions, at least one; bounds are natural
numbers) and `ChainAssumption` describe a server's connection pool and the models' bounds.

**OCO pairs** (`OcoProofs`: `LegsFireOnce`, `EndedLegsRest`). `LockInv` and `HeldInv` are
the discipline of the two row locks: who holds a row is at a step that needs it, and the
row is live. `FireInv` adds that a leg about to be fired has no ticket, and that attempts
without a ticket are in flight or were aborted, each abort paying for one more attempt.

**Alpaca** (`AlpacaProofs`: `AlpacaTypes`, `AlpacaBooksOnce`, `AlpacaFilledComplete`). An
update may be late or repeated, but it is a true statement about an earlier moment that
the end of the order has not overtaken (`SoundInv`); with the current row under the lock,
that is enough for any number of processes, executions and any grace period.

**Positions** (`PositionProofs`: `BookTypes`, `QuantityConserved`, `MoneyConserved`,
`ClosedIsHistory`). The properties are sums over a table that grows, so the module first
proves what a sum is: `SumFunction` chooses an element at a time, and `SumsTakeAny` shows
that the order does not matter, by the least subset for which it would. `SumChange` and
`SumExtend` then say what writing and inserting a row do to a total. `LockInv` (a session
that nets has locked an open row that is still as it read it, and nobody else has) makes
each netting change the totals by its fill. The model's average is an integer, so a
division may round where the code's `Decimal` has 28 digits: `MoneyConserved` is about
behaviours in which the stored average is worth what was paid (`ExactAverages`). TLC found
`ExactAverages` to hold in every state of `position_book`, whose prices divide evenly;
the formula for the average is exercised there, not assumed away, for its mutant fails.

**MetaTrader bridge** (`Mt5BridgeProofs`: `BridgeExecutesOnce`, `BridgeAnswersTruly`,
`BridgeForgetsNobody`, `BridgeRefinement`). A relayed request may be published to several
relays. It is executed once because the terminal reads one socket at a time, never an
earlier one again, and a connection made after the publication has not got the request:
`SendInv` says that what the terminal's own connection can still send has not been
executed. `FutureInv` ties futures to calls and open connections. The refinement maps a
caller's progress to `outcome`; every step, the death of a process included, is a step
of `RemoteCall` or a stutter, so an answer stands and ok is never premature.

**Strategies** (`StrategyProofs`: `LifecycleTypes`, `HistoryIsComplete`,
`PaperStaysEarned`). A request that holds a row has read what is in it (`LockInv`), so the
entry it appends continues the history (`RowInv`); Darwin reads without a lock, but writes
only RETIRED, and its UPDATE waits for a row that is held. A user's job has one message
or one worker at most and neither once complete (`WorkInv`), so the backtest that opened the gate is never run
over (`EarnedInv`). `IdAssumption`: identifiers of users' strategies and of Darwin's
children are different (uuids), and `"nobody"` is neither.

**Schedules** (`PositionProofs`: `PaperImplementsAlgo`, `AlgoTypesHold`, `BookedExecuted`,
`EndedStops`). A schedule that asks for its prices takes no step a schedule does not take,
so what is proved of `AlgoExecution` holds at the paper broker. `AlgoInv` says that the
row counts exactly the slices up to the ticket it carries and that the task works on the
next (`Progress`), that nothing beyond that one was executed (`Ahead`), and that at a
broker that fills in full all before it were (`InFull`); so row and venue differ by one
slice at most, wherever the schedule stops. `Executed` is a sum over slices: `SumChange`
and the arithmetic of a plan whose last slice is the rest (`Prefix`) carry it along.
`PlanAssumption`: the quantity is a positive number and a slice is a part of it.

**Fan-out** (`IntakeProofs`: `FanTypesHold`, `Delivered`). What a socket received says
nothing of what it may receive next. `QueueInv` puts everything on its way behind
everything delivered; `WalkInv` says that a socket which has the message in turn is not
met again, although sockets come and go under the walk: each trader's set is walked over
once, and a socket in it is met once at most, whether or not it joined meanwhile
(`FanAssumption`: the bound on events is a natural number).

**Market pipeline** (`MarketProofs`: `PipelineTypesHold`, `TicksCountOnce`). Redis and
Kafka may both deliver a tick, and the candles are in three places: the shared
aggregator and the buffer of each consumer. That none has a tick of another follows from
`BuildInv`: what is under construction is among the ticks *seen* since the process
started, so a tick that passes the check is new to all three, and each move between
them takes a whole candle along. An end of the process empties the three together with
`seen`; a tick may be counted in a candle again afterwards, but a minute keeps the first
candle it gets, which one process built (`StoredInv`). `RowsInv`
says that a tick is in one batch and has no row until that batch writes its ticks. It
holds up to the first end of the process, for a second one has forgotten what it saw, and
`CountedOnce` claims no more. The window of 500 keys is larger than any instance, and
the theorem is about a window that is never exhausted.

**Trade advice** (`MarketProofs`): `GatesAreMonotone` (each constraint's impact
grows with its signal, each gate only closes, and sums and products of such parts keep
the order); `SnapshotsAtHome` (from: a task carries only results about its own symbol, or
about none); `PagesAreToldTheTruth` (from: a page was told of a symbol only if the stream
remembers it; an announcement is renewed whenever the decision crosses between the two).

Only model-checked: liveness, which like ENABLED is beyond the prover. `ExactAverages`
stays a hypothesis of `MoneyConserved`, as said there.

## 5. What modelling showed

The models contain what follows; the properties are stated so that they say what the
code does guarantee beside it.

*Orders.* A report FILLED without a price closes the order with executions unrecorded
(`broker_fill_sync.py:108,136`; `broker_service.py:514` expects a retry, but FILLED
leaves the sweep). The kill switch overwrites a status that became terminal after its
read (`risk_service.py:46`; "no further transitions permitted", `all_models.py:86`), and
closes position rows that are still held. An event about one slice of an algorithmic
order may make the parent FILLED (`mt5_fill_sync.py:52` does not ask for the type, which
lines 32-33 exclude). A slice is booked in full whatever the broker executed
(`execution_algo.py:156-185`). Both legs of an OCO pair can fill between two passes; a
leg the broker cancels leaves its sibling armed (`conditional_orders.py:233-245`). An
Alpaca order that expires with a deferred remainder is closed without it
(`alpaca_fill_sync.py:232-238`), and a lag entry may outlive its lag (133-139).
`MT5Adapter.submit_order` reports FILLED without a quantity, so a partial deal is booked
at the quantity asked for (`order_service.py:238`). The limit on open orders is passed by
requests that run together.

*MetaTrader.* The end of an old socket, noticed late, unregisters the connection that
replaced it on the same process and cancels its relay (`adapter.py:261`; 240-242 say
both live as long as the socket). The relay of an old connection deletes the new one's
presence key, which is back at the next beat (`adapter.py:302`).

*Positions.* Two first fills open two rows (`positions_service.py:44`). A mark may land
on a row that was changed or closed meanwhile: the next pass heals an open row, a closed
one keeps it. An adoption reads without a lock, writes only the columns that changed, and
so can change a closed row or overwrite a fill (`brokers.py:303-326`). `snapshot_pnl` and
`write_pnl_snapshot` compute total equity from different bases.

*Audit and strategies.* Writers that run together link to one entry, which the
verification route reports as a break; it also recomputes the hash from another time
stamp than the writer hashed. A refused gate's history entry is rolled back although the
code flushes it "even on failure" (`strategy_service.py:473`). A live strategy can be
deleted by a request that read it earlier. Submission dispatches before its commit, so a
worker may not find the job; a worker that dies leaves it RUNNING; a rebalance record
shadows the latest backtest at the gate; Darwin may dispatch a user's queued job.

*Market data.* Completed candles are lost when the writer is cancelled; a tick may be
stored twice when that happens in mid-flush; an hour may be rolled up before its last
minute is stored; stale candles stay in memory (`market_db_writer.py:60` says they are
flushed). Stock ticks carry no `symbol_id` and are dropped. One ticker Yahoo does not
list, asked three times, pauses all equity data for ten minutes; a request that is
cancelled never counts; an empty page is cached for a minute. The forex stream swallows
its exceptions, so its REST fallback is never reached, and with more than one batch the
first stream starves the others; a silent connection is not noticed (`MarketFeeds`
assumes it is). A refused credential ends a provider for the life of the process. If a
set of sockets changes under the listener's walk, it dies and nothing restarts it.

*Advice.* The cached kill-switch constraint is the system user's. "CLEAR" ignores the
feed's outage and the kill switch. A page that reconnects starts with no memory. A failed
computation overwrites the last good snapshot. `portfolio:{user}` is never written, so
the users' tasks return at once. Some services are computed without the symbol and fall
back on the most traded one (those are not among the ones modelled).

## 6. Plan

Done: the order core with its refinement and proofs; kill switch, schedules, OCO pairs,
positions with marks and adoptions, Alpaca, MetaTrader with its refinement; intake and audit;
strategies and jobs; the pipeline from the feeds to the tables and the screens; the
breaker; advice; the proofs of section 4.
Left: the supervision of the Alpaca streams.

## 7. Not modelled, and why

* Sessions and authentication: counters and tokens read without a lock; a lost update is
  what happens, and nothing in the repository says which outcome would be wrong.
* Regime fitting, Monte Carlo, indicators, backtest arithmetic: floating-point series.
* The CCXT adapter has no reconciliation (`get_order` is missing), so an order there ends
  with its submission; parsing of the brokers' and sources' answers.
* Reporting, charting and administration routes: reads, or one-row writes without a
  second step. Schemas, migrations and seeds keep no state.
* The `dq_events` log, P&L snapshots and TCA rows: written beside the modelled state,
  read by reports only.
