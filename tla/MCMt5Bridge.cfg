\* Two processes, two connections one after the other, two requests, one fault.
SPECIFICATION FairSpec
CONSTANTS
  Procs = {p1, p2}
  NoProc = NoProc
  Requests = {r1, r2}
  MaxConns = 2
  MaxFaults = 1
INVARIANTS ExecutedOnce WaitersAreKnown
PROPERTIES PresenceFades ImplementsCall
\* Every request ends and the EA may stay away.
CHECK_DEADLOCK FALSE
