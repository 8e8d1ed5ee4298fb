------------------------- MODULE StrategyLifecycle -------------------------
(***************************************************************************)
(* Strategies on their way from IDEA to RETIRED: the requests of           *)
(* endpoints/strategies.py with strategy_service.py, the backtest jobs     *)
(* they queue, the nightly darwin_evolution_cycle and the rebalance jobs   *)
(* that use the same table.  A session is one HTTP request or one run of a *)
(* task.  Advancing and retiring lock the row (FOR UPDATE) from the read   *)
(* to the commit; an uncommitted job keeps its strategy's row from being   *)
(* locked that way (the foreign key's KEY SHARE); patching, deleting, the  *)
(* workers and Darwin read without a lock.                                 *)
(***************************************************************************)
EXTENDS BacktestJobs, Sequences, SequencesExt

CONSTANTS
  Sessions   \* concurrent HTTP requests

VARIABLES
  strat,     \* the rows of strategies
  pc,        \* the request each session works on
  darwin     \* where the nightly cycle is

vars == <<strat, pc, darwin, job, queue, busy>>

Lifecycle == <<"IDEA", "RESEARCH", "BACKTEST", "PAPER", "LIVE_SMALL", "SCALED",
               "MONITOR", "RETIRED">>
Stages    == ToSet(Lifecycle)
Live      == {"LIVE_SMALL", "SCALED", "MONITOR"}

StageIndex(stage) == CHOOSE i \in DOMAIN Lifecycle : Lifecycle[i] = stage
NextStage(stage)  == Lifecycle[StageIndex(stage) + 1]

NoStrategy == [stage |-> "none", hypothesis |-> FALSE, paper_only |-> TRUE,
               sharpe |-> "none", parent |-> "nobody", gate_history |-> <<>>]

Exists(s) == strat[s].stage \in Stages

IdleSession == [at |-> "idle", on |-> "nobody", jobs |-> {}, seen |-> NoStrategy]
IdleDarwin  == [at |-> "idle", victim |-> "nobody", parent |-> "nobody", child |-> "nobody"]

Init ==
  /\ InitJobs
  /\ strat = [s \in Strategies |-> NoStrategy]
  /\ pc = [a \in Sessions |-> IdleSession]
  /\ darwin = IdleDarwin

-----------------------------------------------------------------------------
(* Row locks.                                                              *)

NoLock(s) == TRUE

\* Nobody holds the row FOR UPDATE: what a plain UPDATE and a KEY SHARE wait for.
Unlocked(s) == \A a \in Sessions : ~ (pc[a].on = s /\ pc[a].at \in {"advancing", "retiring"})

\* No job of the row is inserted and uncommitted either: what FOR UPDATE waits for.
Lockable(s) == Unlocked(s) /\ \A j \in Jobs : ~ (job[j].st = "inserted" /\ job[j].of = s)

\* What the session read is kept only where it is written back.
Begin(a, at, s, jobs) ==
  /\ pc[a].at = "idle"
  /\ pc' = [pc EXCEPT ![a] = [at |-> at, on |-> s, jobs |-> jobs,
       seen |-> IF at \in {"advancing", "retiring"} THEN strat[s] ELSE NoStrategy]]

End(a) == pc' = [pc EXCEPT ![a] = IdleSession]

\* The request fails or the process dies before the commit.
Abort(a) ==
  /\ pc[a].at # "idle"
  /\ End(a)
  /\ job' = [j \in Jobs |-> IF job[j].st = "inserted" /\ j \in pc[a].jobs
                              THEN [job[j] EXCEPT !.st = "deleted"] ELSE job[j]]
  /\ UNCHANGED <<strat, darwin, queue, busy>>

-----------------------------------------------------------------------------
(* Creating and patching.                                                  *)

Create(s) ==
  /\ strat[s].stage = "none"
  /\ \E h \in BOOLEAN : strat' = [strat EXCEPT ![s].stage = "IDEA", ![s].hypothesis = h]
  /\ UNCHANGED <<pc, darwin, jobVars>>

\* PATCH writes the fields that are not empty.  A hypothesis of blanks only is written
\* as well, and is none to the gate of BACKTEST; after it no one asks any more.
Patch(s) ==
  /\ strat[s].stage \in {"IDEA", "RESEARCH"} /\ Unlocked(s)
  /\ \E h \in BOOLEAN : strat' = [strat EXCEPT ![s].hypothesis = h]
  /\ UNCHANGED <<pc, darwin, jobVars>>

\* "An admin must clear this": compute_update_strategy writes is_paper_only, under the
\* lock.  No route calls it; without it no strategy would go live.
ClearPaperOnly(s) ==
  /\ Exists(s) /\ Lockable(s)
  /\ strat' = [strat EXCEPT ![s].paper_only = FALSE]
  /\ UNCHANGED <<pc, darwin, jobVars>>

-----------------------------------------------------------------------------
(* _check_gate and compute_advance_stage.                                  *)

Latest(s) == CHOOSE j \in JobsOf(s) : \A i \in JobsOf(s) : i <= j

AnyJobPasses(s, to) ==
  CASE to = "BACKTEST" -> strat[s].hypothesis
    [] to \in {"PAPER", "LIVE_SMALL", "SCALED"} -> JobsOf(s) # {}
    [] OTHER -> TRUE

GatePasses(s, to) ==
  /\ to = "BACKTEST" => strat[s].hypothesis
  /\ to \in {"PAPER", "LIVE_SMALL", "SCALED"} =>
       JobsOf(s) # {} /\ job[Latest(s)].st = "COMPLETE"
  /\ to = "PAPER" => job[Latest(s)].result = "good"
  /\ to \in {"LIVE_SMALL", "SCALED"} => ~ strat[s].paper_only

\* The row is locked, then the gate is checked on what was read with it.
AdvanceBegin(a, s) ==
  /\ Exists(s) /\ strat[s].stage # "RETIRED"
  /\ Lockable(s)
  /\ GatePasses(s, NextStage(strat[s].stage))
  /\ Begin(a, "advancing", s, {})
  /\ UNCHANGED <<strat, darwin, jobVars>>

\* The gate fails: the entry is flushed, GateFailed is raised, nothing catches it on
\* the way to get_db, and the transaction is rolled back.
AdvanceRefused(a, s) ==
  /\ Exists(s) /\ strat[s].stage # "RETIRED"
  /\ Lockable(s)
  /\ ~ GatePasses(s, NextStage(strat[s].stage))
  /\ Begin(a, "refused", s, {})
  /\ UNCHANGED <<strat, darwin, jobVars>>

Entry(from, to) == [from |-> from, to |-> to]

Moved(a, to) ==
  LET seen == pc[a].seen
  IN  strat' = [strat EXCEPT ![pc[a].on].stage = to,
         ![pc[a].on].gate_history = Append(seen.gate_history, Entry(seen.stage, to))]

AdvanceCommit(a) ==
  /\ pc[a].at = "advancing"
  /\ Moved(a, NextStage(pc[a].seen.stage))
  /\ End(a)
  /\ UNCHANGED <<darwin, jobVars>>

RetireBegin(a, s) ==
  /\ Exists(s) /\ strat[s].stage # "RETIRED"
  /\ Lockable(s)
  /\ Begin(a, "retiring", s, {})
  /\ UNCHANGED <<strat, darwin, jobVars>>

RetireCommit(a) ==
  /\ pc[a].at = "retiring"
  /\ Moved(a, "RETIRED")
  /\ End(a)
  /\ UNCHANGED <<darwin, jobVars>>

-----------------------------------------------------------------------------
(* delete_strategy: the stage and the jobs are read without a lock.        *)

DeleteBegin(a, s) ==
  /\ Exists(s) /\ strat[s].stage \notin Live
  /\ Begin(a, "deleting", s, JobsOf(s))
  /\ UNCHANGED <<strat, darwin, jobVars>>

\* The jobs that were read are deleted with the row, unless a child or a job that was
\* not read refers to it: then the foreign key fails and the request with it.
DeleteCommit(a) ==
  LET s == pc[a].on
  IN  /\ pc[a].at = "deleting" /\ Lockable(s)
      /\ IF Exists(s) /\ JobsOf(s) \subseteq pc[a].jobs
                      /\ \A c \in Strategies : Exists(c) => strat[c].parent # s
           THEN /\ strat' = [strat EXCEPT ![s] = [NoStrategy EXCEPT !.stage = "deleted"]]
                /\ job' = [j \in Jobs |-> IF j \in JobsOf(s) THEN [NoJob EXCEPT !.st = "deleted"]
                                                             ELSE job[j]]
           ELSE UNCHANGED <<strat, job>>
      /\ End(a)
      /\ UNCHANGED <<darwin, queue, busy>>

-----------------------------------------------------------------------------
(* submit_backtest and compute_rebalance: the row is flushed, the task is  *)
(* dispatched, and only then the transaction commits.                      *)

SubmitBegin(a, s) ==
  /\ Exists(s) /\ Unlocked(s)
  /\ \E j \in Unused, kind \in Kinds, celery \in BOOLEAN :
       /\ Begin(a, "submitting", s, {j})
       /\ job' = [job EXCEPT ![j] = NewJob(s, kind, "inserted")]
       /\ queue' = IF celery THEN queue \cup {[job |-> j, retries |-> 0]} ELSE queue
  /\ UNCHANGED <<strat, darwin, busy>>

SubmitCommit(a) ==
  /\ pc[a].at = "submitting"
  /\ job' = [j \in Jobs |-> IF j \in pc[a].jobs THEN [job[j] EXCEPT !.st = "QUEUED"] ELSE job[j]]
  /\ End(a)
  /\ UNCHANGED <<strat, darwin, queue, busy>>

\* endpoints/capital.py: a rebalance record that no task ever works on.
RebalanceRecord(s) ==
  /\ Exists(s) /\ Unlocked(s)
  /\ \E j \in Unused : job' = [job EXCEPT ![j] = NewJob(s, "rebalance", "QUEUED")]
  /\ UNCHANGED <<strat, pc, darwin, queue, busy>>

-----------------------------------------------------------------------------
(* The workers' steps on strategies.                                       *)

\* A backtest's end writes sharpe_last in the same transaction, a rebalance's none.
WorkerCompletes(w) ==
  \E result \in Results :
    /\ Finish(w, result)
    /\ LET s == job[busy[w].job].of
       IN  IF result = "none" THEN UNCHANGED strat
           ELSE Unlocked(s) /\ strat' = [strat EXCEPT ![s].sharpe = result]
    /\ UNCHANGED <<pc, darwin>>

WorkerTakes(w) == (\E m \in queue : Take(w, m)) /\ UNCHANGED <<strat, pc, darwin>>
WorkerFails(w) == Fail(w) /\ UNCHANGED <<strat, pc, darwin>>
WorkerStops(w) == (LoseRow(w) \/ WorkerDies(w)) /\ UNCHANGED <<strat, pc, darwin>>

-----------------------------------------------------------------------------
(* darwin_evolution_cycle on up to four strategies: the one of lowest      *)
(* fitness is the victim, the one of highest the parent of one child.      *)

Pool == {s \in Strategies : strat[s].stage \in {"LIVE_SMALL", "SCALED", "PAPER", "BACKTEST"}}

\* The selection; a victim with a Sharpe ratio above the threshold is spared, and a
\* backtest that is not good may still have one.
DarwinReads ==
  /\ darwin.at = "idle"
  /\ \E v, p \in Pool, c \in Children, spared \in BOOLEAN :
       /\ Cardinality(Pool) > 1 => v # p
       /\ strat[c].stage = "none"
       /\ strat[v].sharpe = "good" => spared
       /\ strat[v].sharpe = "none" => ~ spared
       /\ darwin' = [at |-> "selected", parent |-> p, child |-> c,
                     victim |-> IF spared THEN "nobody" ELSE v]
  /\ UNCHANGED <<strat, pc, jobVars>>

\* The first commit: the victim is retired and the child born.  A row that was
\* deleted since fails the whole cycle.
DarwinSpawns ==
  LET v == darwin.victim
      p == darwin.parent
      c == darwin.child
  IN  /\ darwin.at = "selected" /\ strat[c].stage = "none"
      /\ v # "nobody" => Unlocked(v)
      /\ Unlocked(p)
      /\ IF Exists(p) /\ (v = "nobody" \/ Exists(v))
           THEN /\ strat' = [s \in Strategies |->
                     IF s = v THEN [strat[s] EXCEPT !.stage = "RETIRED"]
                     ELSE IF s = c THEN [NoStrategy EXCEPT !.stage = "BACKTEST", !.parent = p,
                                                           !.hypothesis = strat[p].hypothesis]
                     ELSE strat[s]]
                /\ darwin' = [darwin EXCEPT !.at = "spawned"]
           ELSE darwin' = IdleDarwin /\ UNCHANGED strat
      /\ UNCHANGED <<pc, jobVars>>

\* The second commit queues the child's job, a third step dispatches it.
DarwinQueues ==
  /\ darwin.at = "spawned"
  /\ IF Exists(darwin.child)
       THEN /\ Unlocked(darwin.child)
            /\ \E j \in Unused : job' = [job EXCEPT ![j] = NewJob(darwin.child, "backtest", "QUEUED")]
            /\ darwin' = [darwin EXCEPT !.at = "queued"]
       ELSE darwin' = IdleDarwin /\ UNCHANGED job
  /\ UNCHANGED <<strat, pc, queue, busy>>

DarwinDispatches ==
  /\ darwin.at = "queued"
  /\ LET queued == {j \in JobsOf(darwin.child) : job[j].st = "QUEUED"}
     IN  IF queued = {} THEN UNCHANGED queue
         ELSE \E j \in queued : queue' = queue \cup {[job |-> j, retries |-> 0]}
  /\ darwin' = IdleDarwin
  /\ UNCHANGED <<strat, pc, job, busy>>

DarwinDies ==
  /\ darwin.at # "idle"
  /\ darwin' = IdleDarwin
  /\ UNCHANGED <<strat, pc, jobVars>>

-----------------------------------------------------------------------------
Request(a) ==
  \/ \E s \in Strategies : AdvanceBegin(a, s) \/ AdvanceRefused(a, s) \/ RetireBegin(a, s)
                           \/ DeleteBegin(a, s) \/ SubmitBegin(a, s)
  \/ AdvanceCommit(a) \/ RetireCommit(a) \/ DeleteCommit(a) \/ SubmitCommit(a) \/ Abort(a)

Work(w) == WorkerTakes(w) \/ WorkerCompletes(w) \/ WorkerFails(w) \/ WorkerStops(w)

Next ==
  \/ \E s \in UserStrategies : Create(s)
  \/ \E s \in Strategies : Patch(s) \/ ClearPaperOnly(s) \/ RebalanceRecord(s)
  \/ \E a \in Sessions : Request(a)
  \/ \E w \in CeleryWorkers : Work(w)
  \/ DarwinReads \/ DarwinSpawns \/ DarwinQueues \/ DarwinDispatches \/ DarwinDies

Spec == Init /\ [][Next]_vars

-----------------------------------------------------------------------------
\* Type invariant: every variable stays in its domain, and a worker that runs a job
\* has used at most its retries.
TypeOK ==
  /\ \A s \in Strategies : strat[s].stage \in Stages \cup {"none", "deleted"}
  /\ job \in [Jobs -> JobRow]
  /\ queue \subseteq Message
  /\ busy \in [CeleryWorkers -> Message \cup {Idle}]
  /\ \A a \in Sessions : pc[a].on \in Strategies \cup {"nobody"} /\ pc[a].jobs \subseteq Jobs

Born(s) == IF strat[s].parent = "nobody" THEN "IDEA" ELSE "BACKTEST"

\* The gate history is complete and in order: from the stage the row was created in,
\* each entry starts where the one before ended, and the last ends at the row's stage,
\* unless Darwin retired it, which leaves no entry.  (Two requests that advance or
\* retire one strategy serialise on its row.)
HistoryExplainsStage ==
  \A s \in Strategies : Exists(s) =>
    LET path == <<Born(s)>> \o [i \in DOMAIN strat[s].gate_history |-> strat[s].gate_history[i].to]
    IN  /\ \A i \in DOMAIN strat[s].gate_history : strat[s].gate_history[i].from = path[i]
        /\ strat[s].stage \in {Last(path), "RETIRED"}

\* A strategy a user created is on paper or live only if one of its backtests is
\* complete and found what the gate asks for: neither a retry, nor a rebalance record,
\* nor a job submitted meanwhile takes the ground away.  (Darwin's children are left
\* out: their dispatch may pick a user's job, which then runs twice.)
PaperIsEarned ==
  \A s \in Strategies :
    Exists(s) /\ strat[s].parent = "nobody" /\ strat[s].stage \in Live \cup {"PAPER"} =>
      \E j \in JobsOf(s) : job[j].st = "COMPLETE" /\ job[j].result = "good"
=============================================================================
