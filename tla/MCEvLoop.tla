------------------------------ MODULE MCEvLoop ------------------------------
(* EvLoop on small instances. *)
EXTENDS EvLoop
=============================================================================
