---------------------------- MODULE MCOcoOrders ----------------------------
(* OcoOrders on small instances: its constants are model values and bounds. *)
EXTENDS OcoOrders
=============================================================================
