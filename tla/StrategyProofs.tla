--------------------------- MODULE StrategyProofs ---------------------------
(***************************************************************************)
(* Theorems about StrategyLifecycle for every number of strategies, jobs,  *)
(* requests and workers.  Two facts carry them: a request that holds a row *)
(* has read what is in it (LockInv), so the entry it appends continues the *)
(* history; and the job of a user's strategy has one message or one worker *)
(* at most, and neither once it is complete (WorkInv), so the backtest a   *)
(* strategy went on paper with is not run over.                            *)
(***************************************************************************)
EXTENDS StrategyLifecycle, WellFoundedInduction, SequenceTheorems, TLAPS

GateEntry   == [from : Stages, to : Stages]
StrategyRow == [stage : Stages \cup {"none", "deleted"}, hypothesis : BOOLEAN,
                paper_only : BOOLEAN, sharpe : Results,
                parent : Strategies \cup {"nobody"}, gate_history : Seq(GateEntry)]
SessionRow  == [at : {"idle", "advancing", "refused", "retiring", "deleting", "submitting"},
                on : Strategies \cup {"nobody"}, jobs : SUBSET Jobs, seen : StrategyRow]
DarwinRow   == [at : {"idle", "selected", "spawned", "queued"},
                victim : Strategies \cup {"nobody"}, parent : Strategies \cup {"nobody"},
                child : Strategies \cup {"nobody"}]

\* The history leads from the stage a row is created in to the one it has.
Origin(parent) == IF parent = "nobody" THEN "IDEA" ELSE "BACKTEST"
Reached(h, parent) == IF Len(h) = 0 THEN Origin(parent) ELSE h[Len(h)].to

Traced(h, stage, parent) ==
  /\ \A i \in 1..Len(h) : h[i].from = IF i = 1 THEN Origin(parent) ELSE h[i - 1].to
  /\ stage \in {Reached(h, parent), "RETIRED"}

RowInv ==
  /\ strat \in [Strategies -> StrategyRow]
  /\ \A s \in Strategies :
       /\ strat[s].stage = "none" => strat[s].gate_history = <<>> /\ strat[s].parent = "nobody"
       /\ Exists(s) => Traced(strat[s].gate_history, strat[s].stage, strat[s].parent)
       /\ s \in UserStrategies => strat[s].parent = "nobody"
       /\ s \in Children /\ Exists(s) => strat[s].parent # "nobody"

\* A row has one holder at most, it is not RETIRED, and it is as its holder has read it.
Locking == {"advancing", "retiring"}

LockInv ==
  /\ pc \in [Sessions -> SessionRow]
  /\ \A a \in Sessions : pc[a].at # "idle" => pc[a].on \in Strategies
  /\ \A a \in Sessions : pc[a].at \in Locking =>
       /\ pc[a].on \in Strategies /\ Exists(pc[a].on) /\ strat[pc[a].on].stage # "RETIRED"
       /\ pc[a].seen = strat[pc[a].on]
       /\ \A b \in Sessions : pc[b].at \in Locking /\ pc[b].on = pc[a].on => b = a

DarwinInv ==
  /\ darwin \in DarwinRow
  /\ darwin.at # "idle" => darwin.parent \in Strategies /\ darwin.child \in Children

JobType ==
  /\ job \in [Jobs -> JobRow]
  /\ queue \subseteq Message
  /\ busy \in [CeleryWorkers -> Message \cup {Idle}]

\* A request that submits has one job of its own, which nobody else can see; the jobs a
\* request deletes are others.
SubmitInv ==
  \A a \in Sessions :
    /\ pc[a].at = "submitting" =>
         /\ \E j \in Jobs : pc[a].jobs = {j} /\ job[j].st = "inserted"
         /\ \A b \in Sessions : pc[b].at = "submitting" /\ pc[a].jobs = pc[b].jobs => a = b
    /\ pc[a].at # "submitting" => \A j \in pc[a].jobs : job[j].st \notin {"none", "inserted"}

OfUser(j) == job[j].of \in UserStrategies

WorkInv ==
  /\ \A m \in queue : job[m.job].st # "none" /\ (OfUser(m.job) => job[m.job].st # "COMPLETE")
  /\ \A w \in CeleryWorkers : busy[w] # Idle =>
       job[busy[w].job].st # "none" /\ (OfUser(busy[w].job) => job[busy[w].job].st # "COMPLETE")
  /\ \A m, n \in queue : OfUser(m.job) /\ m.job = n.job => m = n
  /\ \A w \in CeleryWorkers, m \in queue : busy[w] # Idle /\ OfUser(m.job) => busy[w].job # m.job
  /\ \A w, v \in CeleryWorkers :
       busy[w] # Idle /\ busy[v] # Idle /\ OfUser(busy[w].job) /\ busy[w].job = busy[v].job => w = v

\* The backtest that the gate of PAPER asked for is still there, from the moment the
\* gate was passed.
Earned(s) == \E j \in JobsOf(s) : job[j].st = "COMPLETE" /\ job[j].result = "good"

EarnedInv ==
  /\ \A s \in UserStrategies : strat[s].stage \in Live \cup {"PAPER"} => Earned(s)
  /\ \A a \in Sessions, s \in UserStrategies :
       pc[a].at = "advancing" /\ pc[a].on = s /\ strat[s].stage = "BACKTEST" => Earned(s)

IInv == RowInv /\ LockInv /\ DarwinInv /\ JobType /\ SubmitInv /\ WorkInv /\ EarnedInv
-----------------------------------------------------------------------------
(* The stages, the histories and the latest job.                           *)

LEMMA StagesAre ==
  Stages = {"IDEA", "RESEARCH", "BACKTEST", "PAPER", "LIVE_SMALL", "SCALED", "MONITOR", "RETIRED"}
BY DEF Stages, ToSet, Lifecycle

\* The next stage is a stage; PAPER is entered from BACKTEST only, and the live stages
\* from PAPER or from one another.
LEMMA NextStages ==
  ASSUME NEW st \in Stages, st # "RETIRED"
  PROVE  /\ NextStage(st) \in Stages
         /\ NextStage(st) = "PAPER" <=> st = "BACKTEST"
         /\ NextStage(st) \in Live => st \in Live \cup {"PAPER"}
<1>1. \A i \in 1..7 : StageIndex(Lifecycle[i]) = i
  BY DEF StageIndex, Lifecycle
<1>2. PICK i \in 1..7 : st = Lifecycle[i]
  BY StagesAre DEF Lifecycle
<1>3. NextStage(st) = Lifecycle[i + 1]
  BY <1>1, <1>2 DEF NextStage
<1> QED
  BY <1>2, <1>3, StagesAre DEF Lifecycle, Live

LEMMA TracedStart ==
  /\ Traced(<<>>, "IDEA", "nobody")
  /\ \A p \in Strategies : Traced(<<>>, "BACKTEST", p)
BY IdAssumption DEF Traced, Reached, Origin, Strategies

LEMMA TracedRetired ==
  ASSUME NEW h, NEW stage, NEW parent, Traced(h, stage, parent)
  PROVE  Traced(h, "RETIRED", parent)
BY DEF Traced

LEMMA TracedAppend ==
  ASSUME NEW h \in Seq(GateEntry), NEW stage \in Stages, NEW parent, NEW to \in Stages,
         Traced(h, stage, parent), stage # "RETIRED"
  PROVE  /\ Append(h, Entry(stage, to)) \in Seq(GateEntry)
         /\ Traced(Append(h, Entry(stage, to)), to, parent)
<1> DEFINE g == Append(h, Entry(stage, to))
<1>1. Entry(stage, to) \in GateEntry
  BY DEF Entry, GateEntry
<1>2. /\ g \in Seq(GateEntry) /\ Len(g) = Len(h) + 1
      /\ \A i \in 1..Len(h) : g[i] = h[i]
      /\ g[Len(h) + 1] = Entry(stage, to)
  BY <1>1, AppendProperties
<1>3. Len(h) \in Nat
  BY LenProperties
<1>4. stage = Reached(h, parent)
  BY DEF Traced
<1> HIDE DEF g
<1>5. \A i \in 1..Len(g) : g[i].from = IF i = 1 THEN Origin(parent) ELSE g[i - 1].to
  <2> SUFFICES ASSUME NEW i \in 1..Len(g)
               PROVE  g[i].from = IF i = 1 THEN Origin(parent) ELSE g[i - 1].to
    OBVIOUS
  <2>1. CASE i = Len(h) + 1
    BY <1>2, <1>3, <1>4, <2>1 DEF Reached, Entry
  <2>2. CASE i # Len(h) + 1
    BY <1>2, <1>3, <2>2 DEF Traced
  <2> QED
    BY <2>1, <2>2
<1>6. Reached(g, parent) = to
  BY <1>2, <1>3 DEF Reached, Entry
<1> QED
  BY <1>2, <1>5, <1>6 DEF Traced, g

\* A set of jobs that is not empty has a latest one.
LEMMA LatestExists ==
  ASSUME NEW s, JobsOf(s) # {}
  PROVE  Latest(s) \in JobsOf(s)
<1> DEFINE R    == OpToRel(<, Nat)
           Back == {MaxJobs - j : j \in JobsOf(s)}
<1>1. JobsOf(s) \subseteq 1..MaxJobs /\ MaxJobs \in Nat
  BY JobsAssumption DEF JobsOf, Jobs
<1>2. \A x, y \in Nat : <<y, x>> \notin R => x <= y
  BY DEF OpToRel
<1>3. Back \subseteq Nat /\ Back # {} /\ IsWellFoundedOn(R, Nat)
  <2>1. Back \subseteq Nat
    BY <1>1
  <2> QED
    BY <2>1, NatLessThanWellFounded
<1> HIDE DEF R
<1>4. PICK b \in Back : \A c \in Back : <<c, b>> \notin R
  BY <1>3, WFMin
<1>5. PICK j \in JobsOf(s) : b = MaxJobs - j
  OBVIOUS
<1>6. ASSUME NEW i \in JobsOf(s) PROVE i <= j
  <2>1. MaxJobs - i \in Back
    OBVIOUS
  <2>2. b <= MaxJobs - i
    BY <1>2, <1>3, <1>4, <2>1
  <2> QED
    BY <1>1, <1>5, <2>2
<1> QED
  BY <1>5, <1>6 DEF Latest

\* What the gate of PAPER asks for.
LEMMA GateEarned ==
  ASSUME NEW s, GatePasses(s, "PAPER")
  PROVE  Earned(s)
BY LatestExists DEF GatePasses, Earned

\* A job that no step takes from its end keeps what it earned.
LEMMA EarnedKept ==
  ASSUME NEW s,
         \A j \in Jobs : job[j].of = s /\ job[j].st = "COMPLETE" => job'[j] = job[j]
  PROVE  Earned(s) => Earned(s)'
BY DEF Earned, JobsOf, Visible

LEMMA IdleRows == NoStrategy \in StrategyRow /\ IdleSession \in SessionRow
BY EmptySeq DEF NoStrategy, IdleSession, StrategyRow, SessionRow, Results

\* What each writer makes of a row.
LEMMA RowCreated ==
  ASSUME NEW r \in StrategyRow, NEW h \in BOOLEAN
  PROVE  LET new == [r EXCEPT !.stage = "IDEA", !.hypothesis = h]
         IN  /\ new \in StrategyRow /\ new.stage = "IDEA"
             /\ new.gate_history = r.gate_history /\ new.parent = r.parent
BY StagesAre DEF StrategyRow

LEMMA RowRetired ==
  ASSUME NEW r \in StrategyRow
  PROVE  LET new == [r EXCEPT !.stage = "RETIRED"]
         IN  /\ new \in StrategyRow /\ new.stage = "RETIRED"
             /\ new.gate_history = r.gate_history /\ new.parent = r.parent
BY StagesAre DEF StrategyRow

LEMMA RowEdited ==
  ASSUME NEW r \in StrategyRow, NEW new,
         \/ new = [r EXCEPT !.paper_only = FALSE]
         \/ \E result \in Results : new = [r EXCEPT !.sharpe = result]
  PROVE  /\ new \in StrategyRow /\ new.stage = r.stage
         /\ new.gate_history = r.gate_history /\ new.parent = r.parent
BY DEF StrategyRow

\* A step that writes one row.
LEMMA RowWritten ==
  ASSUME RowInv, NEW s \in Strategies, NEW r \in StrategyRow, strat' = [strat EXCEPT ![s] = r],
         r.stage # "none",
         r.stage \in Stages => Traced(r.gate_history, r.stage, r.parent),
         s \in UserStrategies => r.parent = "nobody",
         s \in Children /\ r.stage \in Stages => r.parent # "nobody"
  PROVE  RowInv'
BY DEF RowInv, Exists

\* The end of a request lets go of its row and its jobs.
LEMMA EndLock ==
  ASSUME LockInv, NEW a \in Sessions, End(a),
         \A s \in Strategies : strat'[s] = strat[s] \/ (pc[a].at \in Locking /\ pc[a].on = s)
                               \/ Unlocked(s)
  PROVE  LockInv'
<1>1. pc' \in [Sessions -> SessionRow] /\ pc'[a].at = "idle" /\ \A b \in Sessions \ {a} : pc'[b] = pc[b]
  BY IdleRows DEF LockInv, End, IdleSession
<1> QED
  BY <1>1 DEF LockInv, Locking, Exists, Unlocked

-----------------------------------------------------------------------------
(* Creating and patching.                                                  *)

LEMMA CreateInv ==
  ASSUME IInv, NEW s \in UserStrategies, Create(s)
  PROVE  IInv'
<1> USE IdAssumption, JobsAssumption DEF IInv, Strategies, jobVars, Create
<1>1. RowInv'
  <2> PICK h \in BOOLEAN : strat' = [strat EXCEPT ![s].stage = "IDEA", ![s].hypothesis = h]
    OBVIOUS
  <2> DEFINE r == [strat[s] EXCEPT !.stage = "IDEA", !.hypothesis = h]
  <2>1. strat[s] \in StrategyRow
    BY DEF RowInv
  <2>2. strat' = [strat EXCEPT ![s] = r]
    BY DEF RowInv
  <2>3. r \in StrategyRow /\ r.gate_history = strat[s].gate_history /\ r.parent = strat[s].parent
    BY <2>1, RowCreated
  <2>4. r.stage = "IDEA"
    BY <2>1, RowCreated
  <2> HIDE DEF r
  <2> QED
    BY <2>2, <2>3, <2>4, StagesAre, TracedStart, RowWritten DEF RowInv, Exists
<1>2. LockInv'
  BY StagesAre DEF RowInv, LockInv, Exists, Locking, StrategyRow, SessionRow, Unlocked, Lockable
<1>3. DarwinInv'
  BY DEF DarwinInv, DarwinRow
<1>4. JobType'
  BY DEF JobType, JobRow, JobStatuses, Visible, Message, Idle, Results
<1>5. SubmitInv'
  BY DEF JobType, LockInv, SubmitInv, SessionRow, Visible
<1>6. WorkInv'
  BY DEF JobType, SubmitInv, WorkInv, OfUser, Message, Visible
<1>7. EarnedInv'
  <2>1. \A u \in UserStrategies : Earned(u) => Earned(u)'
    BY EarnedKept DEF JobType, WorkInv, OfUser
  <2> QED
    BY <2>1, StagesAre DEF RowInv, LockInv, EarnedInv, Exists, Live
<1> QED
  BY <1>1, <1>2, <1>3, <1>4, <1>5, <1>6, <1>7

LEMMA PatchInv ==
  ASSUME IInv, NEW s \in Strategies, Patch(s)
  PROVE  IInv'
<1> USE IdAssumption, JobsAssumption DEF IInv, Strategies, jobVars, Patch
<1>1. RowInv'
  BY StagesAre DEF RowInv, LockInv, Exists, StrategyRow, SessionRow
<1>2. LockInv'
  BY StagesAre DEF RowInv, LockInv, Exists, Locking, StrategyRow, SessionRow, Unlocked, Lockable
<1>3. DarwinInv'
  BY DEF DarwinInv, DarwinRow
<1>4. JobType'
  BY DEF JobType, JobRow, JobStatuses, Visible, Message, Idle, Results
<1>5. SubmitInv'
  BY DEF JobType, LockInv, SubmitInv, SessionRow, Visible
<1>6. WorkInv'
  BY DEF JobType, SubmitInv, WorkInv, OfUser, Message, Visible
<1>7. EarnedInv'
  BY DEF RowInv, LockInv, JobType, EarnedInv, Earned, JobsOf, Visible
<1> QED
  BY <1>1, <1>2, <1>3, <1>4, <1>5, <1>6, <1>7

LEMMA ClearPaperOnlyInv ==
  ASSUME IInv, NEW s \in Strategies, ClearPaperOnly(s)
  PROVE  IInv'
<1> USE IdAssumption, JobsAssumption DEF IInv, Strategies, jobVars, ClearPaperOnly
<1>1. RowInv'
  <2> DEFINE r == [strat[s] EXCEPT !.paper_only = FALSE]
  <2>1. strat[s] \in StrategyRow
    BY DEF RowInv
  <2>2. strat' = [strat EXCEPT ![s] = r]
    BY DEF RowInv
  <2>3. r \in StrategyRow /\ r.gate_history = strat[s].gate_history /\ r.parent = strat[s].parent
    BY <2>1, RowEdited
  <2>4. r.stage = strat[s].stage
    BY <2>1, RowEdited
  <2> HIDE DEF r
  <2> QED
    BY <2>2, <2>3, <2>4, StagesAre, RowWritten DEF RowInv, Exists
<1>2. LockInv'
  BY StagesAre DEF RowInv, LockInv, Exists, Locking, StrategyRow, SessionRow, Unlocked, Lockable
<1>3. DarwinInv'
  BY DEF DarwinInv, DarwinRow
<1>4. JobType'
  BY DEF JobType, JobRow, JobStatuses, Visible, Message, Idle, Results
<1>5. SubmitInv'
  BY DEF JobType, LockInv, SubmitInv, SessionRow, Visible
<1>6. WorkInv'
  BY DEF JobType, SubmitInv, WorkInv, OfUser, Message, Visible
<1>7. EarnedInv'
  BY DEF RowInv, LockInv, JobType, EarnedInv, Earned, JobsOf, Visible
<1> QED
  BY <1>1, <1>2, <1>3, <1>4, <1>5, <1>6, <1>7

-----------------------------------------------------------------------------
(* Requests.                                                               *)

LEMMA AbortInv ==
  ASSUME IInv, NEW a \in Sessions, Abort(a)
  PROVE  IInv'
<1> USE IdAssumption, JobsAssumption DEF IInv, Strategies, jobVars, Abort
<1>1. RowInv'
  BY DEF RowInv, Exists
<1>2. LockInv'
  BY EndLock
<1>3. DarwinInv'
  BY DEF DarwinInv, DarwinRow
<1>4. JobType'
  BY DEF JobType, JobRow, JobStatuses, Visible, Message, Idle, Results
<1>5. SubmitInv'
  <2>1. pc'[a].at = "idle" /\ pc'[a].jobs = {} /\ \A b \in Sessions \ {a} : pc'[b] = pc[b]
    BY DEF End, IdleSession, LockInv
  <2>2. ASSUME NEW b \in Sessions \ {a}, pc[b].at = "submitting"
        PROVE  \A j \in pc[b].jobs : j \notin pc[a].jobs
    <3>1. PICK j \in Jobs : pc[b].jobs = {j} /\ job[j].st = "inserted"
      BY <2>2 DEF SubmitInv
    <3>2. CASE pc[a].at = "submitting"
      <4>1. PICK i \in Jobs : pc[a].jobs = {i}
        BY <3>2 DEF SubmitInv
      <4>2. pc[a].jobs # pc[b].jobs
        BY <2>2, <3>2 DEF SubmitInv
      <4> QED
        BY <3>1, <4>1, <4>2
    <3>3. CASE pc[a].at # "submitting"
      BY <3>1, <3>3 DEF SubmitInv
    <3> QED
      BY <3>2, <3>3
  <2> QED
    BY <2>1, <2>2 DEF SubmitInv, JobType, LockInv, SessionRow
<1>6. WorkInv'
  BY DEF JobType, SubmitInv, WorkInv, OfUser, Message, Visible
<1>7. EarnedInv'
  <2>1. \A s \in UserStrategies : Earned(s) => Earned(s)'
    BY EarnedKept DEF JobType, WorkInv, OfUser
  <2> QED
    BY <2>1, StagesAre DEF RowInv, LockInv, EarnedInv, Exists, Live, End, IdleSession
<1> QED
  BY <1>1, <1>2, <1>3, <1>4, <1>5, <1>6, <1>7

LEMMA AdvanceBeginInv ==
  ASSUME IInv, NEW a \in Sessions, NEW s \in Strategies, AdvanceBegin(a, s)
  PROVE  IInv'
<1> USE IdAssumption, JobsAssumption DEF IInv, Strategies, jobVars, AdvanceBegin, Begin
<1>1. RowInv'
  BY StagesAre DEF RowInv, LockInv, Exists, StrategyRow, SessionRow
<1>2. LockInv'
  BY StagesAre DEF RowInv, LockInv, Exists, Locking, StrategyRow, SessionRow, Unlocked, Lockable
<1>3. DarwinInv'
  BY DEF DarwinInv, DarwinRow
<1>4. JobType'
  BY DEF JobType, JobRow, JobStatuses, Visible, Message, Idle, Results
<1>5. SubmitInv'
  BY DEF JobType, LockInv, SubmitInv, SessionRow, Visible
<1>6. WorkInv'
  BY DEF JobType, SubmitInv, WorkInv, OfUser, Message, Visible
<1>7. EarnedInv'
  <2>1. \A u \in UserStrategies : Earned(u) => Earned(u)'
    BY EarnedKept DEF JobType, WorkInv, OfUser
  <2> QED
    BY <2>1, StagesAre, NextStages, GateEarned DEF RowInv, LockInv, EarnedInv, Exists, Live
<1> QED
  BY <1>1, <1>2, <1>3, <1>4, <1>5, <1>6, <1>7

LEMMA AdvanceRefusedInv ==
  ASSUME IInv, NEW a \in Sessions, NEW s \in Strategies, AdvanceRefused(a, s)
  PROVE  IInv'
<1> USE IdAssumption, JobsAssumption DEF IInv, Strategies, jobVars, AdvanceRefused, Begin
<1>1. RowInv'
  BY StagesAre DEF RowInv, LockInv, Exists, StrategyRow, SessionRow
<1>2. LockInv'
  <2>1. pc'[a].at = "refused" /\ pc'[a].on = s /\ \A b \in Sessions \ {a} : pc'[b] = pc[b]
    BY DEF LockInv
  <2>2. pc' \in [Sessions -> SessionRow]
    BY IdleRows DEF LockInv, SessionRow, JobsOf, Unused
  <2> QED
    BY <2>1, <2>2, StagesAre DEF LockInv, Locking, Exists, Unlocked, Lockable
<1>3. DarwinInv'
  BY DEF DarwinInv, DarwinRow
<1>4. JobType'
  BY DEF JobType, JobRow, JobStatuses, Visible, Message, Idle, Results
<1>5. SubmitInv'
  BY DEF JobType, LockInv, SubmitInv, SessionRow, Visible
<1>6. WorkInv'
  BY DEF JobType, SubmitInv, WorkInv, OfUser, Message, Visible
<1>7. EarnedInv'
  BY DEF RowInv, LockInv, JobType, EarnedInv, Earned, JobsOf, Visible
<1> QED
  BY <1>1, <1>2, <1>3, <1>4, <1>5, <1>6, <1>7

LEMMA RetireBeginInv ==
  ASSUME IInv, NEW a \in Sessions, NEW s \in Strategies, RetireBegin(a, s)
  PROVE  IInv'
<1> USE IdAssumption, JobsAssumption DEF IInv, Strategies, jobVars, RetireBegin, Begin
<1>1. RowInv'
  BY StagesAre DEF RowInv, LockInv, Exists, StrategyRow, SessionRow
<1>2. LockInv'
  BY StagesAre DEF RowInv, LockInv, Exists, Locking, StrategyRow, SessionRow, Unlocked, Lockable
<1>3. DarwinInv'
  BY DEF DarwinInv, DarwinRow
<1>4. JobType'
  BY DEF JobType, JobRow, JobStatuses, Visible, Message, Idle, Results
<1>5. SubmitInv'
  BY DEF JobType, LockInv, SubmitInv, SessionRow, Visible
<1>6. WorkInv'
  BY DEF JobType, SubmitInv, WorkInv, OfUser, Message, Visible
<1>7. EarnedInv'
  BY DEF RowInv, LockInv, JobType, EarnedInv, Earned, JobsOf, Visible
<1> QED
  BY <1>1, <1>2, <1>3, <1>4, <1>5, <1>6, <1>7

LEMMA DeleteBeginInv ==
  ASSUME IInv, NEW a \in Sessions, NEW s \in Strategies, DeleteBegin(a, s)
  PROVE  IInv'
<1> USE IdAssumption, JobsAssumption DEF IInv, Strategies, jobVars, DeleteBegin, Begin
<1>1. RowInv'
  BY StagesAre DEF RowInv, LockInv, Exists, StrategyRow, SessionRow
<1>2. LockInv'
  <2>1. pc'[a].at = "deleting" /\ pc'[a].on = s /\ \A b \in Sessions \ {a} : pc'[b] = pc[b]
    BY DEF LockInv
  <2>2. pc' \in [Sessions -> SessionRow]
    BY IdleRows DEF LockInv, SessionRow, JobsOf, Unused
  <2> QED
    BY <2>1, <2>2, StagesAre DEF LockInv, Locking, Exists, Unlocked, Lockable
<1>3. DarwinInv'
  BY DEF DarwinInv, DarwinRow
<1>4. JobType'
  BY DEF JobType, JobRow, JobStatuses, Visible, Message, Idle, Results
<1>5. SubmitInv'
  <2>1. pc'[a].at = "deleting" /\ pc'[a].jobs = JobsOf(s) /\ \A b \in Sessions \ {a} : pc'[b] = pc[b]
    BY DEF LockInv
  <2> QED
    BY <2>1 DEF SubmitInv, JobsOf, Visible
<1>6. WorkInv'
  BY DEF JobType, SubmitInv, WorkInv, OfUser, Message, Visible
<1>7. EarnedInv'
  BY DEF RowInv, LockInv, JobType, EarnedInv, Earned, JobsOf, Visible
<1> QED
  BY <1>1, <1>2, <1>3, <1>4, <1>5, <1>6, <1>7

LEMMA SubmitBeginInv ==
  ASSUME IInv, NEW a \in Sessions, NEW s \in Strategies, SubmitBegin(a, s)
  PROVE  IInv'
<1> USE IdAssumption, JobsAssumption DEF IInv, Strategies, jobVars, SubmitBegin, NewJob, Unused, Kinds, Begin
<1>1. RowInv'
  BY StagesAre DEF RowInv, LockInv, Exists, StrategyRow, SessionRow
<1>2. LockInv'
  <2>1. pc'[a].at = "submitting" /\ pc'[a].on = s /\ \A b \in Sessions \ {a} : pc'[b] = pc[b]
    BY DEF LockInv
  <2>2. pc' \in [Sessions -> SessionRow]
    BY IdleRows DEF LockInv, SessionRow, JobsOf, Unused
  <2> QED
    BY <2>1, <2>2, StagesAre DEF LockInv, Locking, Exists, Unlocked, Lockable
<1>3. DarwinInv'
  BY DEF DarwinInv, DarwinRow
<1>4. JobType'
  BY DEF JobType, JobRow, JobStatuses, Visible, Message, Idle, Results
<1>5. SubmitInv'
  <2>1. PICK j \in Unused : /\ pc'[a].at = "submitting" /\ pc'[a].jobs = {j}
                            /\ \A b \in Sessions \ {a} : pc'[b] = pc[b]
                            /\ job'[j].st = "inserted" /\ \A i \in Jobs \ {j} : job'[i] = job[i]
    BY DEF LockInv, JobType
  <2>2. j \in Jobs /\ job[j].st = "none"
    OBVIOUS
  <2>3. \A b \in Sessions : pc[b].jobs \subseteq Jobs
    BY DEF LockInv, SessionRow
  <2>4. \A b \in Sessions \ {a} : pc[b].at = "submitting" => j \notin pc[b].jobs
    BY <2>2 DEF SubmitInv
  <2>5. \A b \in Sessions \ {a} : pc[b].at # "submitting" => j \notin pc[b].jobs
    BY <2>2 DEF SubmitInv
  <2> HIDE DEF SubmitBegin, Begin, Unused
  <2> QED
    BY <2>1, <2>2, <2>3, <2>4, <2>5 DEF SubmitInv
<1>6. WorkInv'
  BY DEF JobType, SubmitInv, WorkInv, OfUser, Message, Visible
<1>7. EarnedInv'
  BY DEF RowInv, LockInv, JobType, EarnedInv, Earned, JobsOf, Visible
<1> QED
  BY <1>1, <1>2, <1>3, <1>4, <1>5, <1>6, <1>7

LEMMA AdvanceCommitInv ==
  ASSUME IInv, NEW a \in Sessions, AdvanceCommit(a)
  PROVE  IInv'
<1> USE IdAssumption, JobsAssumption DEF IInv, Strategies, jobVars, AdvanceCommit
<1>1. RowInv'
  <2> DEFINE s == pc[a].on
             to == NextStage(strat[s].stage)
             h == Append(strat[s].gate_history, Entry(strat[s].stage, to))
             r == [strat[s] EXCEPT !.stage = to, !.gate_history = h]
  <2>1. /\ s \in Strategies /\ strat[s].stage \in Stages /\ strat[s].stage # "RETIRED"
        /\ pc[a].seen = strat[s]
    BY DEF LockInv, Locking, Exists
  <2>2. /\ to \in Stages /\ strat[s] \in StrategyRow
        /\ Traced(strat[s].gate_history, strat[s].stage, strat[s].parent)
    BY <2>1, NextStages, StagesAre DEF RowInv, Exists
  <2>3. h \in Seq(GateEntry) /\ Traced(h, to, strat[s].parent)
    BY <2>1, <2>2, TracedAppend DEF StrategyRow
  <2>4. strat' = [strat EXCEPT ![s] = r]
    BY <2>1 DEF RowInv, Moved
  <2>5. r \in StrategyRow /\ r.stage = to /\ r.parent = strat[s].parent
        /\ r.gate_history = h
    <3> HIDE DEF h, to, s, IInv
    <3>1. r = [strat[s] EXCEPT !.stage = to, !.gate_history = h]
      OBVIOUS
    <3>2. strat[s] \in StrategyRow /\ to \in Stages
      BY <2>2
    <3>3. h \in Seq(GateEntry)
      BY <2>3
    <3> HIDE DEF r, RetireCommit, AdvanceCommit
    <3> QED
      BY <3>1, <3>2, <3>3 DEF StrategyRow
  <2>6. to # "none" /\ (s \in UserStrategies => strat[s].parent = "nobody")
        /\ (s \in Children => strat[s].parent # "nobody")
    BY <2>1, <2>2, StagesAre DEF RowInv, Exists
  <2> HIDE DEF r, h, to
  <2> QED
    BY <2>1, <2>3, <2>4, <2>5, <2>6, RowWritten
<1>2. LockInv'
  <2>1. \A s \in Strategies : strat'[s] = strat[s] \/ pc[a].on = s
    BY DEF Moved, RowInv
  <2> QED
    BY <2>1, EndLock DEF Locking
<1>3. DarwinInv'
  BY DEF DarwinInv, DarwinRow
<1>4. JobType'
  BY DEF JobType, JobRow, JobStatuses, Visible, Message, Idle, Results
<1>5. SubmitInv'
  BY DEF SubmitInv, End, IdleSession, LockInv
<1>6. WorkInv'
  BY DEF JobType, SubmitInv, WorkInv, OfUser, Message, Visible
<1>7. EarnedInv'
  <2> DEFINE s == pc[a].on
  <2>1. \A u \in UserStrategies : Earned(u) => Earned(u)'
    BY EarnedKept
  <2>2. /\ s \in Strategies /\ strat[s].stage \in Stages /\ strat[s].stage # "RETIRED"
        /\ pc[a].seen = strat[s]
        /\ \A b \in Sessions : pc[b].at \in Locking /\ pc[b].on = s => b = a
    BY DEF LockInv, Locking, Exists
  <2>3. strat'[s].stage = NextStage(strat[s].stage) /\ \A u \in Strategies \ {s} : strat'[u] = strat[u]
    BY <2>2 DEF RowInv, Moved
  <2>4. pc'[a].at = "idle" /\ \A b \in Sessions \ {a} : pc'[b] = pc[b]
    BY DEF End, IdleSession, LockInv
  <2> QED
    BY <2>1, <2>2, <2>3, <2>4, NextStages, StagesAre DEF EarnedInv, Locking, Live
<1> QED
  BY <1>1, <1>2, <1>3, <1>4, <1>5, <1>6, <1>7

LEMMA RetireCommitInv ==
  ASSUME IInv, NEW a \in Sessions, RetireCommit(a)
  PROVE  IInv'
<1> USE IdAssumption, JobsAssumption DEF IInv, Strategies, jobVars, RetireCommit
<1>1. RowInv'
  <2> DEFINE s == pc[a].on
             to == "RETIRED"
             h == Append(strat[s].gate_history, Entry(strat[s].stage, to))
             r == [strat[s] EXCEPT !.stage = to, !.gate_history = h]
  <2>1. /\ s \in Strategies /\ strat[s].stage \in Stages /\ strat[s].stage # "RETIRED"
        /\ pc[a].seen = strat[s]
    BY DEF LockInv, Locking, Exists
  <2>2. /\ to \in Stages /\ strat[s] \in StrategyRow
        /\ Traced(strat[s].gate_history, strat[s].stage, strat[s].parent)
    BY <2>1, NextStages, StagesAre DEF RowInv, Exists
  <2>3. h \in Seq(GateEntry) /\ Traced(h, to, strat[s].parent)
    BY <2>1, <2>2, TracedAppend DEF StrategyRow
  <2>4. strat' = [strat EXCEPT ![s] = r]
    BY <2>1 DEF RowInv, Moved
  <2>5. r \in StrategyRow /\ r.stage = to /\ r.parent = strat[s].parent
        /\ r.gate_history = h
    <3> HIDE DEF h, to, s, IInv
    <3>1. r = [strat[s] EXCEPT !.stage = to, !.gate_history = h]
      OBVIOUS
    <3>2. strat[s] \in StrategyRow /\ to \in Stages
      BY <2>2
    <3>3. h \in Seq(GateEntry)
      BY <2>3
    <3> HIDE DEF r, RetireCommit, AdvanceCommit
    <3> QED
      BY <3>1, <3>2, <3>3 DEF StrategyRow
  <2>6. to # "none" /\ (s \in UserStrategies => strat[s].parent = "nobody")
        /\ (s \in Children => strat[s].parent # "nobody")
    BY <2>1, <2>2, StagesAre DEF RowInv, Exists
  <2> HIDE DEF r, h, to
  <2> QED
    BY <2>1, <2>3, <2>4, <2>5, <2>6, RowWritten
<1>2. LockInv'
  <2>1. \A s \in Strategies : strat'[s] = strat[s] \/ pc[a].on = s
    BY DEF Moved, RowInv
  <2> QED
    BY <2>1, EndLock DEF Locking
<1>3. DarwinInv'
  BY DEF DarwinInv, DarwinRow
<1>4. JobType'
  BY DEF JobType, JobRow, JobStatuses, Visible, Message, Idle, Results
<1>5. SubmitInv'
  BY DEF SubmitInv, End, IdleSession, LockInv
<1>6. WorkInv'
  BY DEF JobType, SubmitInv, WorkInv, OfUser, Message, Visible
<1>7. EarnedInv'
  <2> DEFINE s == pc[a].on
  <2>1. \A u \in UserStrategies : Earned(u) => Earned(u)'
    BY EarnedKept
  <2>2. /\ s \in Strategies /\ strat[s].stage \in Stages /\ strat[s].stage # "RETIRED"
        /\ pc[a].seen = strat[s]
        /\ \A b \in Sessions : pc[b].at \in Locking /\ pc[b].on = s => b = a
    BY DEF LockInv, Locking, Exists
  <2>3. strat'[s].stage = "RETIRED" /\ \A u \in Strategies \ {s} : strat'[u] = strat[u]
    BY <2>2 DEF RowInv, Moved
  <2>4. pc'[a].at = "idle" /\ \A b \in Sessions \ {a} : pc'[b] = pc[b]
    BY DEF End, IdleSession, LockInv
  <2> QED
    BY <2>1, <2>2, <2>3, <2>4, NextStages, StagesAre DEF EarnedInv, Locking, Live
<1> QED
  BY <1>1, <1>2, <1>3, <1>4, <1>5, <1>6, <1>7

LEMMA DeleteCommitInv ==
  ASSUME IInv, NEW a \in Sessions, DeleteCommit(a)
  PROVE  IInv'
<1> USE IdAssumption, JobsAssumption DEF IInv, Strategies, jobVars, DeleteCommit
<1>1. RowInv'
  <2> DEFINE s == pc[a].on
  <2>1. s \in Strategies
    BY DEF LockInv
  <2>2. CASE /\ strat' = [strat EXCEPT ![s] = [NoStrategy EXCEPT !.stage = "deleted"]]
             /\ job' = [j \in Jobs |-> IF j \in JobsOf(s) THEN [NoJob EXCEPT !.st = "deleted"]
                                                          ELSE job[j]]
    <3> DEFINE r == [NoStrategy EXCEPT !.stage = "deleted"]
    <3>1. /\ r \in StrategyRow /\ r.stage = "deleted" /\ r.parent = "nobody"
      BY EmptySeq DEF NoStrategy, StrategyRow, Results
    <3>2. strat' = [strat EXCEPT ![s] = r] /\ "deleted" \notin Stages \cup {"none"}
      BY <2>2, StagesAre
    <3> HIDE DEF r
    <3> QED
      BY <2>1, <3>1, <3>2, RowWritten
  <2>3. CASE UNCHANGED <<strat, job>>
    BY <2>3 DEF RowInv, Exists
  <2> QED
    BY <2>2, <2>3
<1>2. LockInv'
  <2>1. \A s \in Strategies : strat'[s] = strat[s] \/ (pc[a].on = s /\ Unlocked(s))
    BY DEF RowInv, Lockable
  <2> QED
    BY <2>1, EndLock
<1>3. DarwinInv'
  BY DEF DarwinInv, DarwinRow
<1>4. JobType'
  BY DEF JobType, JobRow, JobStatuses, Kinds, Results, NoJob
<1>5. SubmitInv'
  <2>1. pc'[a].at = "idle" /\ pc'[a].jobs = {} /\ \A b \in Sessions \ {a} : pc'[b] = pc[b]
    BY DEF End, IdleSession, LockInv
  <2>2. \A j \in Jobs : job'[j] = job[j] \/ (job[j].st # "inserted" /\ job'[j].st = "deleted")
    BY DEF JobsOf, JobType, Visible, NoJob
  <2> QED
    BY <2>1, <2>2 DEF SubmitInv, LockInv, SessionRow
<1>6. WorkInv'
  BY DEF JobType, WorkInv, OfUser, Message, NoJob
<1>7. EarnedInv'
  <2> DEFINE s == pc[a].on
  <2>1. s \in Strategies
    BY DEF LockInv
  <2>2. CASE /\ strat' = [strat EXCEPT ![s] = [NoStrategy EXCEPT !.stage = "deleted"]]
             /\ job' = [j \in Jobs |-> IF j \in JobsOf(s) THEN [NoJob EXCEPT !.st = "deleted"]
                                                          ELSE job[j]]
    <3>1. \A u \in UserStrategies \ {s} : Earned(u) => Earned(u)'
      BY <2>2, EarnedKept DEF JobsOf, JobType
    <3>2. strat'[s].stage = "deleted" /\ \A u \in Strategies \ {s} : strat'[u] = strat[u]
      BY <2>1, <2>2 DEF RowInv, NoStrategy
    <3>3. pc'[a].at = "idle" /\ \A b \in Sessions \ {a} : pc'[b] = pc[b]
      BY DEF End, IdleSession, LockInv
    <3> QED
      BY <2>1, <3>1, <3>2, <3>3 DEF EarnedInv, Live
  <2>3. CASE UNCHANGED <<strat, job>>
    <3>1. \A u \in UserStrategies : Earned(u) => Earned(u)'
      BY <2>3, EarnedKept
    <3>3. pc'[a].at = "idle" /\ \A b \in Sessions \ {a} : pc'[b] = pc[b]
      BY DEF End, IdleSession, LockInv
    <3> QED
      BY <2>3, <3>1, <3>3 DEF EarnedInv
  <2> QED
    BY <2>2, <2>3
<1> QED
  BY <1>1, <1>2, <1>3, <1>4, <1>5, <1>6, <1>7

LEMMA SubmitCommitInv ==
  ASSUME IInv, NEW a \in Sessions, SubmitCommit(a)
  PROVE  IInv'
<1> USE IdAssumption, JobsAssumption DEF IInv, Strategies, jobVars, SubmitCommit
<1>1. RowInv'
  BY DEF RowInv, Exists
<1>2. LockInv'
  BY EndLock
<1>3. DarwinInv'
  BY DEF DarwinInv, DarwinRow
<1>4. JobType'
  BY DEF JobType, JobRow, JobStatuses, Visible, Message, Idle, Results
<1>5. SubmitInv'
  <2>1. pc'[a].at = "idle" /\ pc'[a].jobs = {} /\ \A b \in Sessions \ {a} : pc'[b] = pc[b]
    BY DEF End, IdleSession, LockInv
  <2>2. PICK j \in Jobs : pc[a].jobs = {j} /\ job[j].st = "inserted"
    BY DEF SubmitInv
  <2>3. job'[j].st = "QUEUED" /\ \A i \in Jobs \ {j} : job'[i] = job[i]
    BY <2>2 DEF JobType, JobRow
  <2>4. \A b \in Sessions \ {a} : pc[b].at = "submitting" => j \notin pc[b].jobs
    <3> SUFFICES ASSUME NEW b \in Sessions \ {a}, pc[b].at = "submitting"
                 PROVE  j \notin pc[b].jobs
      OBVIOUS
    <3>1. PICK i \in Jobs : pc[b].jobs = {i}
      BY DEF SubmitInv
    <3>2. pc[a].jobs # pc[b].jobs
      BY DEF SubmitInv
    <3> QED
      BY <2>2, <3>1, <3>2
  <2>5. \A b \in Sessions : pc[b].jobs \subseteq Jobs
    BY DEF LockInv, SessionRow
  <2> HIDE DEF SubmitCommit
  <2> QED
    BY <2>1, <2>2, <2>3, <2>4, <2>5 DEF SubmitInv
<1>6. WorkInv'
  BY DEF JobType, SubmitInv, WorkInv, OfUser, Message, Visible
<1>7. EarnedInv'
  <2>1. \A j \in pc[a].jobs : job[j].st = "inserted"
    BY DEF SubmitInv
  <2>2. \A u \in UserStrategies : Earned(u) => Earned(u)'
    BY <2>1, EarnedKept
  <2>3. pc'[a].at = "idle" /\ \A b \in Sessions \ {a} : pc'[b] = pc[b]
    BY DEF End, IdleSession, LockInv
  <2> QED
    BY <2>2, <2>3 DEF EarnedInv
<1> QED
  BY <1>1, <1>2, <1>3, <1>4, <1>5, <1>6, <1>7

LEMMA RebalanceRecordInv ==
  ASSUME IInv, NEW s \in Strategies, RebalanceRecord(s)
  PROVE  IInv'
<1> USE IdAssumption, JobsAssumption DEF IInv, Strategies, jobVars, RebalanceRecord, NewJob, Unused, Kinds
<1>1. RowInv'
  BY StagesAre DEF RowInv, LockInv, Exists, StrategyRow, SessionRow
<1>2. LockInv'
  BY StagesAre DEF RowInv, LockInv, Exists, Locking, StrategyRow, SessionRow, Unlocked, Lockable
<1>3. DarwinInv'
  BY DEF DarwinInv, DarwinRow
<1>4. JobType'
  BY DEF JobType, JobRow, JobStatuses, Visible, Message, Idle, Results
<1>5. SubmitInv'
  BY DEF JobType, LockInv, SubmitInv, SessionRow, Visible
<1>6. WorkInv'
  BY DEF JobType, SubmitInv, WorkInv, OfUser, Message, Visible
<1>7. EarnedInv'
  BY DEF RowInv, LockInv, JobType, EarnedInv, Earned, JobsOf, Visible
<1> QED
  BY <1>1, <1>2, <1>3, <1>4, <1>5, <1>6, <1>7

-----------------------------------------------------------------------------
(* Workers.                                                                *)

LEMMA WorkerTakesInv ==
  ASSUME IInv, NEW w \in CeleryWorkers, WorkerTakes(w)
  PROVE  IInv'
<1> USE IdAssumption, JobsAssumption DEF IInv, Strategies, jobVars, WorkerTakes, Take
<1>1. RowInv'
  BY StagesAre DEF RowInv, LockInv, Exists, StrategyRow, SessionRow
<1>2. LockInv'
  BY StagesAre DEF RowInv, LockInv, Exists, Locking, StrategyRow, SessionRow, Unlocked, Lockable
<1>3. DarwinInv'
  BY DEF DarwinInv, DarwinRow
<1>4. JobType'
  BY DEF JobType, JobRow, JobStatuses, Visible, Message, Idle, Results
<1>5. SubmitInv'
  <2> PICK m \in queue : Take(w, m)
    OBVIOUS
  <2>1. CASE job[m.job].st \in Visible
    <3>1. m.job \in Jobs /\ job' = [job EXCEPT ![m.job].st = "RUNNING"]
      BY <2>1 DEF JobType, Message
    <3> QED
      BY <2>1, <3>1 DEF JobType, JobRow, LockInv, SubmitInv, SessionRow, Visible
  <2>2. CASE job[m.job].st \notin Visible
    BY <2>2 DEF JobType, LockInv, SubmitInv, WorkInv, OfUser, Message
  <2> QED
    BY <2>1, <2>2
<1>6. WorkInv'
  <2> PICK m \in queue : Take(w, m)
    OBVIOUS
  <2>1. CASE job[m.job].st \in Visible
    <3>1. m.job \in Jobs /\ job' = [job EXCEPT ![m.job].st = "RUNNING"]
          /\ queue' = queue \ {m} /\ busy' = [busy EXCEPT ![w] = m] /\ busy[w] = Idle
      BY <2>1 DEF JobType, Message
    <3>2. \A i \in Jobs : job'[i].of = job[i].of /\ (job'[i].st = job[i].st \/ job'[i].st = "RUNNING")
      BY <3>1 DEF JobType, JobRow
    <3>3. busy'[w] = m /\ \A v \in CeleryWorkers \ {w} : busy'[v] = busy[v]
      BY <3>1 DEF JobType
    <3>4. \A n \in queue : n.job \in Jobs
      BY DEF JobType, Message
    <3>5. \A v \in CeleryWorkers : busy[v] # Idle => busy[v].job \in Jobs
      BY DEF JobType, Message
    <3> HIDE DEF Take, WorkerTakes
    <3> QED
      BY <3>1, <3>2, <3>3, <3>4, <3>5 DEF WorkInv, OfUser
  <2>2. CASE job[m.job].st \notin Visible
    BY <2>2 DEF JobType, LockInv, SubmitInv, WorkInv, OfUser, Message
  <2> QED
    BY <2>1, <2>2
<1>7. EarnedInv'
  <2> PICK m \in queue : Take(w, m)
    OBVIOUS
  <2>1. \A u \in UserStrategies : Earned(u) => Earned(u)'
    BY EarnedKept DEF JobType, WorkInv, OfUser
  <2> QED
    BY <2>1 DEF EarnedInv
<1> QED
  BY <1>1, <1>2, <1>3, <1>4, <1>5, <1>6, <1>7

LEMMA WorkerCompletesInv ==
  ASSUME IInv, NEW w \in CeleryWorkers, WorkerCompletes(w)
  PROVE  IInv'
<1> USE IdAssumption, JobsAssumption DEF IInv, Strategies, jobVars, WorkerCompletes, Finish
<1>1. RowInv'
  <2> DEFINE s == job[busy[w].job].of
  <2>1. CASE strat' = strat
    BY <2>1 DEF RowInv, Exists
  <2>2. CASE s \notin Strategies
    BY <2>2 DEF RowInv, Exists
  <2> HIDE DEF s, WorkerCompletes, Finish
  <2>3. ASSUME s \in Strategies, NEW result \in Results, strat' = [strat EXCEPT ![s].sharpe = result]
        PROVE  RowInv'
    <3> DEFINE r == [strat[s] EXCEPT !.sharpe = result]
    <3>1. strat[s] \in StrategyRow
      BY <2>3 DEF RowInv
    <3>2. strat' = [strat EXCEPT ![s] = r]
      BY <2>3 DEF RowInv
    <3>3. /\ r \in StrategyRow /\ r.stage = strat[s].stage
          /\ r.gate_history = strat[s].gate_history /\ r.parent = strat[s].parent
      BY <3>1, RowEdited
    <3> HIDE DEF r
    <3>6. "none" \notin Stages
      BY StagesAre
    <3>4. CASE strat[s].stage # "none"
      BY <2>3, <3>2, <3>3, <3>4, RowWritten DEF RowInv, Exists
    <3>5. CASE strat[s].stage = "none"
      BY <2>3, <3>2, <3>3, <3>5, <3>6 DEF RowInv, Exists
    <3> QED
      BY <3>4, <3>5
  <2> QED
    BY <2>1, <2>2, <2>3 DEF WorkerCompletes, s
<1>2. LockInv'
  BY StagesAre DEF RowInv, LockInv, Exists, Locking, StrategyRow, SessionRow, Unlocked, Lockable
<1>3. DarwinInv'
  BY DEF DarwinInv, DarwinRow
<1>4. JobType'
  BY DEF JobType, JobRow, JobStatuses, Visible, Message, Idle, Results
<1>5. SubmitInv'
  BY DEF JobType, LockInv, SubmitInv, SessionRow, Visible
<1>6. WorkInv'
  BY DEF JobType, SubmitInv, WorkInv, OfUser, Message, Visible
<1>7. EarnedInv'
  <2>1. \A u \in UserStrategies : Earned(u) => Earned(u)'
    BY EarnedKept DEF JobType, WorkInv, OfUser
  <2>2. \A u \in Strategies : strat'[u].stage = strat[u].stage
    BY DEF RowInv, StrategyRow
  <2> QED
    BY <2>1, <2>2 DEF EarnedInv
<1> QED
  BY <1>1, <1>2, <1>3, <1>4, <1>5, <1>6, <1>7

LEMMA WorkerFailsInv ==
  ASSUME IInv, NEW w \in CeleryWorkers, WorkerFails(w)
  PROVE  IInv'
<1> USE IdAssumption, JobsAssumption DEF IInv, Strategies, jobVars, WorkerFails, Fail, Retry
<1>1. RowInv'
  BY StagesAre DEF RowInv, LockInv, Exists, StrategyRow, SessionRow
<1>2. LockInv'
  BY StagesAre DEF RowInv, LockInv, Exists, Locking, StrategyRow, SessionRow, Unlocked, Lockable
<1>3. DarwinInv'
  BY DEF DarwinInv, DarwinRow
<1>4. JobType'
  BY DEF JobType, JobRow, JobStatuses, Visible, Message, Idle, Results
<1>5. SubmitInv'
  BY DEF JobType, LockInv, SubmitInv, SessionRow, Visible
<1>6. WorkInv'
  BY DEF JobType, SubmitInv, WorkInv, OfUser, Message, Visible
<1>7. EarnedInv'
  <2>1. \A u \in UserStrategies : Earned(u) => Earned(u)'
    BY EarnedKept DEF JobType, WorkInv, OfUser
  <2>2. \A u \in Strategies : strat'[u].stage = strat[u].stage
    BY DEF RowInv, StrategyRow
  <2> QED
    BY <2>1, <2>2 DEF EarnedInv
<1> QED
  BY <1>1, <1>2, <1>3, <1>4, <1>5, <1>6, <1>7

LEMMA WorkerStopsInv ==
  ASSUME IInv, NEW w \in CeleryWorkers, WorkerStops(w)
  PROVE  IInv'
<1> USE IdAssumption, JobsAssumption DEF IInv, Strategies, jobVars, WorkerStops, LoseRow, WorkerDies
<1>1. RowInv'
  BY StagesAre DEF RowInv, LockInv, Exists, StrategyRow, SessionRow
<1>2. LockInv'
  BY StagesAre DEF RowInv, LockInv, Exists, Locking, StrategyRow, SessionRow, Unlocked, Lockable
<1>3. DarwinInv'
  BY DEF DarwinInv, DarwinRow
<1>4. JobType'
  BY DEF JobType, JobRow, JobStatuses, Visible, Message, Idle, Results
<1>5. SubmitInv'
  BY DEF JobType, LockInv, SubmitInv, SessionRow, Visible
<1>6. WorkInv'
  BY DEF JobType, SubmitInv, WorkInv, OfUser, Message, Visible
<1>7. EarnedInv'
  BY DEF RowInv, LockInv, JobType, EarnedInv, Earned, JobsOf, Visible
<1> QED
  BY <1>1, <1>2, <1>3, <1>4, <1>5, <1>6, <1>7

-----------------------------------------------------------------------------
(* Darwin.                                                                 *)

LEMMA DarwinReadsInv ==
  ASSUME IInv, DarwinReads
  PROVE  IInv'
<1> USE IdAssumption, JobsAssumption DEF IInv, Strategies, jobVars, DarwinReads, Pool
<1>1. RowInv'
  BY StagesAre DEF RowInv, LockInv, Exists, StrategyRow, SessionRow
<1>2. LockInv'
  BY StagesAre DEF RowInv, LockInv, Exists, Locking, StrategyRow, SessionRow, Unlocked, Lockable
<1>3. DarwinInv'
  BY DEF DarwinInv, DarwinRow
<1>4. JobType'
  BY DEF JobType, JobRow, JobStatuses, Visible, Message, Idle, Results
<1>5. SubmitInv'
  BY DEF JobType, LockInv, SubmitInv, SessionRow, Visible
<1>6. WorkInv'
  BY DEF JobType, SubmitInv, WorkInv, OfUser, Message, Visible
<1>7. EarnedInv'
  BY DEF RowInv, LockInv, JobType, EarnedInv, Earned, JobsOf, Visible
<1> QED
  BY <1>1, <1>2, <1>3, <1>4, <1>5, <1>6, <1>7

LEMMA DarwinSpawnsInv ==
  ASSUME IInv, DarwinSpawns
  PROVE  IInv'
<1> USE IdAssumption, JobsAssumption DEF IInv, Strategies, jobVars, DarwinSpawns, IdleDarwin
<1>1. RowInv'
  <2> DEFINE v == darwin.victim
             p == darwin.parent
             c == darwin.child
             born == [NoStrategy EXCEPT !.stage = "BACKTEST", !.parent = p,
                                        !.hypothesis = strat[p].hypothesis]
  <2>1. CASE strat' = strat
    BY <2>1 DEF RowInv, Exists
  <2>2. CASE /\ Exists(p) /\ (v = "nobody" \/ Exists(v))
             /\ strat' = [s \in Strategies |->
                  IF s = v THEN [strat[s] EXCEPT !.stage = "RETIRED"]
                  ELSE IF s = c THEN born ELSE strat[s]]
    <3>1. /\ p \in Strategies /\ c \in Children /\ v \in Strategies \cup {"nobody"}
          /\ strat[c].stage = "none" /\ "none" \notin Stages
      BY StagesAre DEF DarwinInv, DarwinRow
    <3>2. /\ born \in StrategyRow /\ born.stage = "BACKTEST" /\ born.parent = p
          /\ born.gate_history = <<>>
      <4>1. strat[p].hypothesis \in BOOLEAN
        BY <3>1 DEF RowInv, StrategyRow
      <4> QED
        BY <3>1, <4>1, EmptySeq, StagesAre DEF NoStrategy, StrategyRow, Results
    <3>3. Traced(born.gate_history, born.stage, born.parent) /\ p # "nobody"
      BY <3>1, <3>2, TracedStart
    <3>4. ASSUME NEW s \in Strategies, s = v
          PROVE  /\ strat'[s] \in StrategyRow /\ strat'[s].stage = "RETIRED"
                 /\ strat'[s].parent = strat[s].parent /\ Exists(s)
                 /\ Traced(strat'[s].gate_history, strat'[s].stage, strat'[s].parent)
      <4>1. strat[s] \in StrategyRow /\ Exists(s)
            /\ Traced(strat[s].gate_history, strat[s].stage, strat[s].parent)
        BY <2>2, <3>4 DEF RowInv
      <4>2. strat'[s] = [strat[s] EXCEPT !.stage = "RETIRED"]
        BY <2>2, <3>4
      <4> QED
        BY <4>1, <4>2, RowRetired, TracedRetired
    <3>5. ASSUME NEW s \in Strategies, s # v, s = c PROVE strat'[s] = born
      BY <2>2, <3>5
    <3>6. ASSUME NEW s \in Strategies, s # v, s # c PROVE strat'[s] = strat[s]
      BY <2>2, <3>6
    <3>7. strat' \in [Strategies -> StrategyRow]
      <4>1. \A s \in Strategies : strat'[s] \in StrategyRow
        BY <3>2, <3>4, <3>5, <3>6 DEF RowInv
      <4> QED
        BY <2>2, <4>1
    <3> HIDE DEF born, v, p, c
    <3>8. ASSUME NEW s \in Strategies
          PROVE  /\ strat'[s].stage = "none" =>
                      strat'[s].gate_history = <<>> /\ strat'[s].parent = "nobody"
                 /\ strat'[s].stage \in Stages =>
                      Traced(strat'[s].gate_history, strat'[s].stage, strat'[s].parent)
                 /\ s \in UserStrategies => strat'[s].parent = "nobody"
                 /\ s \in Children /\ strat'[s].stage \in Stages => strat'[s].parent # "nobody"
      <4>1. CASE s = v
        BY <3>1, <3>4, <4>1, StagesAre DEF RowInv, Exists
      <4>2. CASE s # v /\ s = c
        BY <3>1, <3>2, <3>3, <3>5, <4>2, StagesAre
      <4>3. CASE s # v /\ s # c
        BY <3>6, <4>3 DEF RowInv, Exists
      <4> QED
        BY <4>1, <4>2, <4>3
    <3> QED
      BY <3>7, <3>8 DEF RowInv, Exists
  <2> QED
    BY <2>1, <2>2
<1>2. LockInv'
  BY StagesAre DEF RowInv, LockInv, Exists, Locking, StrategyRow, SessionRow, Unlocked, Lockable
<1>3. DarwinInv'
  BY DEF DarwinInv, DarwinRow
<1>4. JobType'
  BY DEF JobType, JobRow, JobStatuses, Visible, Message, Idle, Results
<1>5. SubmitInv'
  BY DEF JobType, LockInv, SubmitInv, SessionRow, Visible
<1>6. WorkInv'
  BY DEF JobType, SubmitInv, WorkInv, OfUser, Message, Visible
<1>7. EarnedInv'
  <2> DEFINE v == darwin.victim
             p == darwin.parent
             c == darwin.child
             born == [NoStrategy EXCEPT !.stage = "BACKTEST", !.parent = p,
                                        !.hypothesis = strat[p].hypothesis]
  <2>1. CASE strat' = strat
    BY <2>1 DEF EarnedInv, Earned, JobsOf
  <2>2. CASE /\ Exists(p) /\ (v = "nobody" \/ Exists(v))
             /\ strat' = [s \in Strategies |->
                  IF s = v THEN [strat[s] EXCEPT !.stage = "RETIRED"]
                  ELSE IF s = c THEN born ELSE strat[s]]
    <3>1. \A u \in UserStrategies : Earned(u) => Earned(u)'
      BY EarnedKept
    <3>2. \A u \in UserStrategies : u = v \/ strat'[u] = strat[u]
      BY <2>2 DEF DarwinInv
    <3>3. v \in Strategies => strat'[v].stage = "RETIRED"
      BY <2>2 DEF RowInv, StrategyRow
    <3>4. pc' = pc
      OBVIOUS
    <3> HIDE DEF DarwinSpawns, v
    <3> QED
      BY <3>1, <3>2, <3>3, <3>4 DEF EarnedInv, Live
  <2> QED
    BY <2>1, <2>2
<1> QED
  BY <1>1, <1>2, <1>3, <1>4, <1>5, <1>6, <1>7

LEMMA DarwinQueuesInv ==
  ASSUME IInv, DarwinQueues
  PROVE  IInv'
<1> USE IdAssumption, JobsAssumption DEF IInv, Strategies, jobVars, DarwinQueues, IdleDarwin, NewJob, Unused, Kinds
<1>1. RowInv'
  BY StagesAre DEF RowInv, LockInv, Exists, StrategyRow, SessionRow
<1>2. LockInv'
  BY StagesAre DEF RowInv, LockInv, Exists, Locking, StrategyRow, SessionRow, Unlocked, Lockable
<1>3. DarwinInv'
  BY DEF DarwinInv, DarwinRow
<1>4. JobType'
  BY DEF DarwinInv, JobType, JobRow, JobStatuses, Results
<1>5. SubmitInv'
  BY DEF JobType, LockInv, SubmitInv, SessionRow, Visible
<1>6. WorkInv'
  BY DEF JobType, SubmitInv, WorkInv, OfUser, Message, Visible
<1>7. EarnedInv'
  BY DEF RowInv, LockInv, JobType, EarnedInv, Earned, JobsOf, Visible
<1> QED
  BY <1>1, <1>2, <1>3, <1>4, <1>5, <1>6, <1>7

LEMMA DarwinDispatchesInv ==
  ASSUME IInv, DarwinDispatches
  PROVE  IInv'
<1> USE IdAssumption, JobsAssumption DEF IInv, Strategies, jobVars, DarwinDispatches, IdleDarwin
<1>1. RowInv'
  BY StagesAre DEF RowInv, LockInv, Exists, StrategyRow, SessionRow
<1>2. LockInv'
  BY StagesAre DEF RowInv, LockInv, Exists, Locking, StrategyRow, SessionRow, Unlocked, Lockable
<1>3. DarwinInv'
  BY DEF DarwinInv, DarwinRow
<1>4. JobType'
  <2>1. /\ darwin.child \in Children /\ job' = job /\ busy' = busy
        /\ \/ queue' = queue
           \/ \E j \in JobsOf(darwin.child) :
                job[j].st = "QUEUED" /\ queue' = queue \cup {[job |-> j, retries |-> 0]}
    BY DEF DarwinInv
  <2> HIDE DEF DarwinDispatches
  <2> QED
    BY <2>1 DEF JobType, JobsOf, Message
<1>5. SubmitInv'
  BY DEF JobType, LockInv, SubmitInv, SessionRow, Visible
<1>6. WorkInv'
  <2>1. /\ darwin.child \in Children /\ job' = job /\ busy' = busy
        /\ \/ queue' = queue
           \/ \E j \in JobsOf(darwin.child) :
                job[j].st = "QUEUED" /\ queue' = queue \cup {[job |-> j, retries |-> 0]}
    BY DEF DarwinInv
  <2> HIDE DEF DarwinDispatches
  <2> QED
    BY <2>1 DEF JobType, WorkInv, OfUser, JobsOf, Message
<1>7. EarnedInv'
  BY DEF RowInv, LockInv, JobType, EarnedInv, Earned, JobsOf, Visible
<1> QED
  BY <1>1, <1>2, <1>3, <1>4, <1>5, <1>6, <1>7

LEMMA DarwinDiesInv ==
  ASSUME IInv, DarwinDies
  PROVE  IInv'
<1> USE IdAssumption, JobsAssumption DEF IInv, Strategies, jobVars, DarwinDies, IdleDarwin
<1>1. RowInv'
  BY StagesAre DEF RowInv, LockInv, Exists, StrategyRow, SessionRow
<1>2. LockInv'
  BY StagesAre DEF RowInv, LockInv, Exists, Locking, StrategyRow, SessionRow, Unlocked, Lockable
<1>3. DarwinInv'
  BY DEF DarwinInv, DarwinRow
<1>4. JobType'
  BY DEF JobType, JobRow, JobStatuses, Visible, Message, Idle, Results
<1>5. SubmitInv'
  BY DEF JobType, LockInv, SubmitInv, SessionRow, Visible
<1>6. WorkInv'
  BY DEF JobType, SubmitInv, WorkInv, OfUser, Message, Visible
<1>7. EarnedInv'
  BY DEF RowInv, LockInv, JobType, EarnedInv, Earned, JobsOf, Visible
<1> QED
  BY <1>1, <1>2, <1>3, <1>4, <1>5, <1>6, <1>7

-----------------------------------------------------------------------------
LEMMA InitInv == Init => IInv
<1> SUFFICES ASSUME Init PROVE IInv
  OBVIOUS
<1> USE IdAssumption, JobsAssumption DEF Init, InitJobs, NoStrategy, IdleSession, IdleDarwin, NoJob
<1>1. RowInv
  BY StagesAre, EmptySeq DEF RowInv, StrategyRow, Exists, Strategies, Results
<1>2. LockInv /\ SubmitInv
  BY StagesAre, EmptySeq DEF LockInv, SubmitInv, SessionRow, StrategyRow, Locking, Strategies, Results
<1>3. DarwinInv /\ JobType
  BY DEF DarwinInv, DarwinRow, JobType, JobRow, JobStatuses, Kinds, Results, Strategies
<1>4. WorkInv /\ EarnedInv
  BY DEF WorkInv, EarnedInv, Live, Strategies
<1> QED
  BY <1>1, <1>2, <1>3, <1>4 DEF IInv

LEMMA StepInv == IInv /\ [Next]_vars => IInv'
<1> SUFFICES ASSUME IInv, [Next]_vars PROVE IInv'
  OBVIOUS
<1>1. CASE \E s \in UserStrategies : Create(s)
  BY <1>1, CreateInv
<1>2. CASE \E s \in Strategies : Patch(s) \/ ClearPaperOnly(s) \/ RebalanceRecord(s)
  BY <1>2, PatchInv, ClearPaperOnlyInv, RebalanceRecordInv
<1>3. CASE \E a \in Sessions : Request(a)
  <2>1. PICK a \in Sessions : Request(a)
    BY <1>3
  <2>2. CASE \E s \in Strategies : AdvanceBegin(a, s) \/ AdvanceRefused(a, s) \/ RetireBegin(a, s)
                                   \/ DeleteBegin(a, s) \/ SubmitBegin(a, s)
    BY <2>2, AdvanceBeginInv, AdvanceRefusedInv, RetireBeginInv, DeleteBeginInv, SubmitBeginInv
  <2>3. CASE AdvanceCommit(a) \/ RetireCommit(a) \/ DeleteCommit(a) \/ SubmitCommit(a) \/ Abort(a)
    BY <2>3, AdvanceCommitInv, RetireCommitInv, DeleteCommitInv, SubmitCommitInv, AbortInv
  <2> QED
    BY <2>1, <2>2, <2>3 DEF Request
<1>4. CASE \E w \in CeleryWorkers : Work(w)
  BY <1>4, WorkerTakesInv, WorkerCompletesInv, WorkerFailsInv, WorkerStopsInv DEF Work
<1>5. CASE DarwinReads \/ DarwinSpawns \/ DarwinQueues \/ DarwinDispatches \/ DarwinDies
  BY <1>5, DarwinReadsInv, DarwinSpawnsInv, DarwinQueuesInv, DarwinDispatchesInv, DarwinDiesInv
<1>6. CASE UNCHANGED vars
  BY <1>6 DEF IInv, RowInv, LockInv, DarwinInv, JobType, SubmitInv, WorkInv, EarnedInv,
     Exists, OfUser, Earned, JobsOf, vars
<1> QED
  BY <1>1, <1>2, <1>3, <1>4, <1>5, <1>6 DEF Next

LEMMA Inductive == Spec => []IInv
BY InitInv, StepInv, PTL DEF Spec

\* Types: every row of strategies and jobs, every request and every message is one.
THEOREM LifecycleTypes == Spec => []TypeOK
<1>1. IInv => TypeOK
  BY DEF IInv, TypeOK, RowInv, LockInv, JobType, StrategyRow, SessionRow
<1> QED
  BY <1>1, Inductive, PTL

\* HistoryExplainsStage for every number of requests on any strategies: the row lock
\* that compute_advance_stage takes before it reads is enough for a gate history
\* without gaps, whatever runs beside it.
THEOREM HistoryIsComplete == Spec => []HistoryExplainsStage
<1>1. IInv => HistoryExplainsStage
  <2> SUFFICES ASSUME IInv, NEW s \in Strategies, Exists(s)
               PROVE  LET h    == strat[s].gate_history
                          path == <<Born(s)>> \o [i \in DOMAIN h |-> h[i].to]
                      IN  /\ \A i \in DOMAIN h : h[i].from = path[i]
                          /\ strat[s].stage \in {Last(path), "RETIRED"}
    BY DEF HistoryExplainsStage
  <2> DEFINE h    == strat[s].gate_history
             tos  == [i \in DOMAIN h |-> h[i].to]
             path == <<Born(s)>> \o tos
  <2>1. h \in Seq(GateEntry) /\ Traced(h, strat[s].stage, strat[s].parent)
    BY DEF IInv, RowInv, StrategyRow
  <2>2. Born(s) = Origin(strat[s].parent)
    BY DEF Born, Origin
  <2> HIDE DEF h
  <2>3. Len(h) \in Nat /\ DOMAIN h = 1..Len(h)
    BY <2>1, LenProperties
  <2>4. tos \in Seq(Stages) /\ Len(tos) = Len(h) /\ \A i \in 1..Len(h) : tos[i] = h[i].to
    <3>1. \A i \in 1..Len(h) : h[i] \in GateEntry
      BY <2>1, <2>3, ElementOfSeq
    <3>2. tos \in [1..Len(h) -> Stages]
      BY <2>3, <3>1 DEF GateEntry
    <3> QED
      BY <2>3, <3>2, IsASeq, LenProperties
  <2>5. <<Born(s)>> \in Seq(Stages) /\ Len(<<Born(s)>>) = 1 /\ <<Born(s)>>[1] = Born(s)
    BY StagesAre DEF Born
  <2> HIDE DEF tos
  <2>6. /\ Len(path) = Len(h) + 1
        /\ path[1] = Born(s)
        /\ \A i \in 2..Len(h) + 1 : path[i] = h[i - 1].to
    <3>1. /\ Len(path) = Len(<<Born(s)>>) + Len(tos)
          /\ \A i \in 1..Len(<<Born(s)>>) + Len(tos) :
               path[i] = IF i <= Len(<<Born(s)>>) THEN <<Born(s)>>[i] ELSE tos[i - Len(<<Born(s)>>)]
      BY <2>4, <2>5, ConcatProperties
    <3> QED
      BY <2>3, <2>4, <2>5, <3>1
  <2> HIDE DEF path
  <2>7. \A i \in DOMAIN h : h[i].from = path[i]
    BY <2>1, <2>2, <2>3, <2>6 DEF Traced
  <2>8. strat[s].stage \in {Last(path), "RETIRED"}
    BY <2>1, <2>2, <2>3, <2>6 DEF Traced, Reached, Last
  <2> QED
    BY <2>7, <2>8 DEF path, tos, h
<1> QED
  BY <1>1, Inductive, PTL

\* PaperIsEarned for every number of jobs, retries and workers: the latest backtest is
\* all the gate reads (_check_gate), and no retry, no second worker and no deletion
\* takes it away from a strategy that went on paper with it.
THEOREM PaperStaysEarned == Spec => []PaperIsEarned
<1>1. IInv => PaperIsEarned
  BY DEF IInv, RowInv, EarnedInv, PaperIsEarned, Earned, Strategies
<1> QED
  BY <1>1, Inductive, PTL
=============================================================================
