\* One trader with room for one open order, two requests at a time, one key that is
\* used again, three rows.
SPECIFICATION Spec
CONSTANTS
  Users = {u1}
  Sessions = {s1, s2}
  Keys = {k1}
  MaxOpen = 1
  MaxOrders = 3
  MaxEntries = 3
  MaxDue = 1
SYMMETRY Symmetry
INVARIANTS SentOnce OpenIsBounded  LinksAreReal
\* The bounds on rows and events stop the instance.
CHECK_DEADLOCK FALSE
