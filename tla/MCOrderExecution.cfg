\* One order, three concurrent sessions, a price lookup that may fail.
SPECIFICATION FairSpec
CONSTANTS
  Orders = {o1}
  Workers = {w1, w2, w3}
  OrderQty = 3
  NoOrder = NoOrder
  ReportsInlineQty = TRUE
  PriceLookupFails = TRUE
INVARIANTS NeverOverbooked StatusTruthful
PROPERTIES TerminalFinal ImplementsLedger SyncConverges
\* Every order ends and the sessions go idle: the system may stop.
CHECK_DEADLOCK FALSE
