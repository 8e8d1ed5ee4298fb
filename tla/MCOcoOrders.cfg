\* Two server processes, two users who cancel, one fault.
SPECIFICATION FairSpec
CONSTANTS
  Engines = {e1, e2}
  Users = {u1, u2}
  NoOne = NoOne
  MaxFaults = 1
INVARIANTS FiredOnce
PROPERTIES EndedStaysEnded FilledClosesSibling
