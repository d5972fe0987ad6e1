------------------------------ MODULE MCAsync -------------------------------
(* Async on small instances. *)
EXTENDS Async
=============================================================================
