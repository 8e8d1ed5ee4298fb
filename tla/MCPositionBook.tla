--------------------------- MODULE MCPositionBook ---------------------------
(* PositionMarks on small instances.  Prices are multiples of MCUnit, which *)
(* makes every average of up to four fills of these quantities exact.     *)
EXTENDS PositionMarks

MCUnit     == 604800
MCFills    == {[qty |-> 1, price |-> MCUnit], [qty |-> 2, price |-> 3 * MCUnit],
               [qty |-> -2, price |-> MCUnit]}
MCMarks    == {2 * MCUnit}
MCHoldings == {[qty |-> -2, price |-> 2 * MCUnit]}
=============================================================================
