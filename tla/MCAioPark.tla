----------------------------- MODULE MCAioPark -----------------------------
(* Small instances of AioPark for TLC. *)
EXTENDS AioPark
=============================================================================
