\* Two processes, three executions.
SPECIFICATION FairSpec
CONSTANTS
  Procs = {p1, p2}
  Nobody = Nobody
  MaxExecs = 3
  Grace = 1
  MaxFaults = 1
INVARIANTS PrintsAreReal 
PROPERTIES DeferralEnds
\* An order ends.
CHECK_DEADLOCK FALSE
