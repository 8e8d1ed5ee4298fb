------------------------ MODULE MCNotificationStream ------------------------
(* NotificationStream with a busy symbol, whose readings cross the thresholds  *)
(* of the gates, and one that has no ticks.                                    *)
EXTENDS NotificationStream

CONSTANTS busy, quiet

Calm ==
  [ticks |-> 50, regime |-> "BULL", detected |-> "BULL", age |-> 0, clean |-> TRUE,
   hunt |-> 20, vacuum |-> 0, absorbed |-> 60, opposed |-> FALSE, clashes |-> 0, exposure |-> 10,
   held |-> 0, halted |-> FALSE]

Crisis == [Calm EXCEPT !.regime = "CRISIS"]
Shaky  == [Calm EXCEPT !.regime = "BEAR", !.clean = FALSE, !.age = 10, !.hunt = 70]
Silent == [Calm EXCEPT !.ticks = 0, !.regime = NoRegime, !.detected = "RANGE", !.age = 0]
Feared == [Silent EXCEPT !.regime = "CRISIS"]

MCSymbols    == {busy, quiet}
MCKeyOf      == [s \in MCSymbols |-> IF s = busy THEN "AAPL" ELSE "EURUSD"]
MCRetirable  == {quiet}
MCFailing    == {busy}
MCKinds      == <<"command_center">>
MCReadingsOf == [s \in MCSymbols |-> IF s = busy THEN {Calm, Crisis, Shaky} ELSE {Silent, Feared}]
=============================================================================
