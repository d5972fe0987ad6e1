---------------------------- MODULE MCNetReactor ----------------------------
(* Small instances of NetReactor for TLC. *)
EXTENDS NetReactor
=============================================================================
