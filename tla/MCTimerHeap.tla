----------------------------- MODULE MCTimerHeap ----------------------------
(* TimerHeap on a small instance. *)
EXTENDS TimerHeap
=============================================================================
