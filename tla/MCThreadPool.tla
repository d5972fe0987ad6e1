---------------------------- MODULE MCThreadPool ----------------------------
(* ThreadPool on small instances. *)
EXTENDS ThreadPool, TLC

Symmetry == Permutations(Worker) \cup Permutations(Chan) \cup Permutations(JobId)
=============================================================================
