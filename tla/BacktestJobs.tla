---------------------------- MODULE BacktestJobs ----------------------------
(***************************************************************************)
(* The backtest_jobs table and the Celery tasks that work on its rows:     *)
(* run_backtest and rebalance_portfolio of backtest_worker.py.  A message  *)
(* names a job; Celery acknowledges it when a worker takes it, so a worker *)
(* that dies loses it.  run_backtest retries a failure twice, rebalance    *)
(* does not.  The worker commits RUNNING, computes, and commits the end.   *)
(***************************************************************************)
EXTENDS Integers, FiniteSets

CONSTANTS
  UserStrategies, \* ids of strategies that users create
  Children,       \* ids of strategies that Darwin creates
  MaxJobs,        \* bound: rows of backtest_jobs
  MaxRetries,     \* max_retries of run_backtest
  CeleryWorkers   \* the worker processes

\* Ids are random: nobody's is given twice.
ASSUME IdAssumption == UserStrategies \cap Children = {} /\ "nobody" \notin UserStrategies \cup Children
ASSUME JobsAssumption == MaxJobs \in Nat \ {0} /\ MaxRetries \in Nat

VARIABLES
  job,     \* the rows of backtest_jobs, numbered by created_at
  queue,   \* messages Celery has not delivered yet
  busy     \* the message each worker works on

jobVars == <<job, queue, busy>>

Strategies == UserStrategies \cup Children

Jobs == 1..MaxJobs

\* "inserted" is a row its transaction has not committed.
JobStatuses == {"none", "inserted", "QUEUED", "RUNNING", "COMPLETE", "FAILED", "deleted"}
Visible     == {"QUEUED", "RUNNING", "COMPLETE", "FAILED"}
Kinds       == {"backtest", "rebalance"}

\* What a backtest found: everything the gate asks for, or not (a low Sharpe ratio, few
\* trades, a deep drawdown).
Results == {"none", "weak", "good"}

JobRow  == [st : JobStatuses, of : Strategies \cup {"nobody"}, kind : Kinds, result : Results]
NoJob   == [st |-> "none", of |-> "nobody", kind |-> "backtest", result |-> "none"]
Message == [job : Jobs, retries : 0..MaxRetries]
Idle    == [job |-> 0, retries |-> 0]

InitJobs ==
  /\ job = [j \in Jobs |-> NoJob]
  /\ queue = {}
  /\ busy = [w \in CeleryWorkers |-> Idle]

JobsOf(s) == {j \in Jobs : job[j].st \in Visible /\ job[j].of = s}

\* The next row of the table; created_at is the start of the transaction.
Unused == {j \in Jobs : job[j].st = "none" /\ \A i \in Jobs : i < j => job[i].st # "none"}

NewJob(s, kind, st) == [st |-> st, of |-> s, kind |-> kind, result |-> "none"]

-----------------------------------------------------------------------------
(* A worker.                                                               *)

\* It takes a message and commits RUNNING, or finds no row: job_not_found.
Take(w, m) ==
  /\ busy[w] = Idle /\ m \in queue
  /\ queue' = queue \ {m}
  /\ IF job[m.job].st \in Visible
       THEN /\ job' = [job EXCEPT ![m.job].st = "RUNNING"]
            /\ busy' = [busy EXCEPT ![w] = m]
       ELSE UNCHANGED <<job, busy>>

\* The computation is done and the end is committed; the caller adds what the same
\* transaction writes to the strategy.
Finish(w, result) ==
  /\ busy[w] # Idle /\ job[busy[w].job].st \in Visible
  /\ (job[busy[w].job].kind = "rebalance") <=> (result = "none")
  /\ job' = [job EXCEPT ![busy[w].job].st = "COMPLETE", ![busy[w].job].result = result]
  /\ busy' = [busy EXCEPT ![w] = Idle]
  /\ UNCHANGED queue

\* self.retry sends the message again while retries are left.
Retry(m) == IF job[m.job].kind = "backtest" /\ m.retries < MaxRetries
              THEN {[m EXCEPT !.retries = @ + 1]} ELSE {}

\* An exception in the computation: FAILED is committed, then the task retries.
Fail(w) ==
  /\ busy[w] # Idle /\ job[busy[w].job].st \in Visible
  /\ job' = [job EXCEPT ![busy[w].job].st = "FAILED"]
  /\ queue' = queue \cup Retry(busy[w])
  /\ busy' = [busy EXCEPT ![w] = Idle]

\* The row was deleted under the worker: its commit fails, and so does the handler's.
LoseRow(w) ==
  /\ busy[w] # Idle /\ job[busy[w].job].st \notin Visible
  /\ busy' = [busy EXCEPT ![w] = Idle]
  /\ UNCHANGED <<job, queue>>

\* The process dies; the message was acknowledged and nobody delivers it again.
WorkerDies(w) ==
  /\ busy[w] # Idle
  /\ busy' = [busy EXCEPT ![w] = Idle]
  /\ UNCHANGED <<job, queue>>
=============================================================================
