\* Two orders, two sessions beside the kill switch.
SPECIFICATION KSpec
CONSTANTS
  Orders = {o1, o2}
  Workers = {w1, w2}
  OrderQty = 2
  NoOrder = NoOrder
  ReportsInlineQty = TRUE
  PriceLookupFails = FALSE
 
PROPERTIES NoRevival
CHECK_DEADLOCK FALSE
