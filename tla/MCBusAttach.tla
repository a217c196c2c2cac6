----------------------------- MODULE MCBusAttach ----------------------------
(* Both kinds of client, one host restart. *)
EXTENDS BusAttach
=============================================================================
