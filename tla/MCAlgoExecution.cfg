\* Seven units in four slices, the last of one unit; every kind of broker.  At the
\* paper broker a price comes from the sources, which one visitor uses as well.
SPECIFICATION PaperSpec
CONSTANTS
  Qty = 7
  Display = 2
  Clients = {schedule, visitor}
  Schedule = schedule
  Keys = {"alpaca", "oanda"}
  Asks <- MCAsks
  PaperAsks <- MCPaperAsks
INVARIANTS BookedIsExecuted
PROPERTIES TerminalStops ScheduleEnds EquitiesComeBack
\* An order ends.
CHECK_DEADLOCK FALSE
