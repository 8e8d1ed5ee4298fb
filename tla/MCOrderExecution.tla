-------------------------- MODULE MCOrderExecution --------------------------
(* OrderExecution on small instances: its constants are model values, a     *)
(* quantity and flags.                                                      *)
EXTENDS OrderExecution
=============================================================================
