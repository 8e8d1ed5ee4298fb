---------------------------- MODULE MCAlpacaSync ----------------------------
(* AlpacaSync on small instances: its constants are model values and bounds. *)
EXTENDS AlpacaSync
=============================================================================
