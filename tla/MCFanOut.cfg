SPECIFICATION TickSpec
CONSTANTS
  Traders = {u1, u2}
  Sockets = {w1, w2}
  MaxEvents = 2
  ActiveClasses = {"crypto", "equity", "bond", "nft"}
  Exchanges <- MCExchanges
  Lists = {"kraken", "bybit"}
  Batches = 3
  MaxRestarts = 1
INVARIANTS DeliveredInOrder
PROPERTIES EventsReachOpenTabs FeedsReturn
CHECK_DEADLOCK FALSE
