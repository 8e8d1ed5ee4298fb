\* Two sessions, three fills, one adoption.
SPECIFICATION MarksSpec
CONSTANTS
  Workers = {w1, w2}
  Fills <- MCFills
  MaxFills = 3
  Jobs = {marks}
  Marks <- MCMarks
  Holdings <- MCHoldings
  MaxAdopted = 1
INVARIANTS FillsConserved PnLConserved
PROPERTIES ClosedForGood MarksCatchUp
\* The bounds stop the instance.
CHECK_DEADLOCK FALSE
