----------------------------- MODULE MCMt5Bridge -----------------------------
(* Mt5Bridge on small instances: its constants are model values and bounds. *)
EXTENDS Mt5Bridge
=============================================================================
