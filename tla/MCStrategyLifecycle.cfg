\* Two strategies (the second may be Darwin's child), two requests at a time, two
\* backtest jobs, one Celery worker, one retry.
SPECIFICATION Spec
CONSTANTS
  UserStrategies = {s1}
  Children = {d1}
  Sessions = {a1, a2}
  CeleryWorkers = {w1}
  MaxJobs = 2
  MaxRetries = 1
SYMMETRY Symmetry
INVARIANTS HistoryExplainsStage PaperIsEarned
\* The bounds on strategies and jobs stop the instance.
CHECK_DEADLOCK FALSE
