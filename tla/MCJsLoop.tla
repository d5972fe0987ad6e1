----------------------------- MODULE MCJsLoop -------------------------------
(* JsLoop on small instances. *)
EXTENDS JsLoop
=============================================================================
